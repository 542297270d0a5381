------------------------------ MODULE RadioPHY ------------------------------
(***************************************************************************)
(* The radio of a node (Ieee802154Phy.cc).  An operator takes the members  *)
(* p of the radio and the time, and gives [phy, up, error]: the members    *)
(* after the handler, the messages for the MAC, and whether the handler    *)
(* raised an error.  A frame is named by its sender: a node sends one at a *)
(* time.  Every frame that reaches a node is strong enough to be received. *)
(***************************************************************************)
EXTENDS Integers, Sequences

CONSTANT Nobody     \* in the place of a node: no frame

aTurnaround == 12
CCATime == 8
NEVER == -1

\* The radio when its MAC has turned it on for the first time.
PhyInit(state) ==
    [phyRadioState |-> state, rs |-> "IDLE",
     newState |-> "IDLE", newState_turnaround |-> "IDLE",
     TRX_timer |-> NEVER, TxOver_timer |-> NEVER, CCA_timer |-> NEVER,
     isCCAStartIdle |-> FALSE,
     snrInfo |-> Nobody,    \* the sender of the frame that is being received
     disturbed |-> FALSE,   \* other frames overlap the one that is being received
     forced |-> FALSE,      \* BITERROR_FORCE_TRX_OFF
     noise |-> {}]

Result(p, up) == [phy |-> p, up |-> up, error |-> FALSE]
Error(p) == [phy |-> p, up |-> <<>>, error |-> TRUE]

PLME_SET_TRX_STATE_confirm(status) == [kind |-> "TRX", status |-> status]
PLME_CCA_confirm(status) == [kind |-> "CCA", status |-> status]
PD_DATA_confirm(status) == [kind |-> "PD", status |-> status]

-----------------------------------------------------------------------------
\* The radio is off while it turns around.
Turnaround(p, now, state) ==
    [p EXCEPT !.phyRadioState = "TRX_OFF", !.rs = "SLEEP",
              !.newState_turnaround = state, !.TRX_timer = now + aTurnaround]

\* The request that had to wait for the end of a frame; up is what comes before.
TakePending(p, now, up) ==
    LET q == [p EXCEPT !.newState = "IDLE", !.newState_turnaround = p.newState]
    IN  CASE p.newState = "IDLE" -> Result(p, up)
          [] p.newState = "TRX_OFF" ->
                Result([q EXCEPT !.phyRadioState = "TRX_OFF", !.rs = "SLEEP"],
                       Append(up, PLME_SET_TRX_STATE_confirm("TRX_OFF")))
          [] OTHER -> Result(Turnaround(q, now, p.newState), up)

\* FORCE_TRX_OFF gets no confirm.  Cutting a frame that is being sent counts as an
\* error: the MAC is to finish its job before.
ForceOff(p) ==
    LET off == [p EXCEPT !.phyRadioState = "TRX_OFF", !.rs = "SLEEP",
                         !.forced = p.snrInfo # Nobody]
    IN  IF p.rs = "TRANSMIT" THEN Error(off) ELSE Result(off, <<>>)

\* A request cancels a pending one.  One that comes during a turnaround finds the
\* radio off, and is granted at once.
handle_PLME_SET_TRX_STATE_request(p, now, setState) ==
    LET q == IF p.newState # "IDLE" THEN [p EXCEPT !.newState = "IDLE"]
             ELSE [p EXCEPT !.TRX_timer = NEVER]
        confirm(r, status) == Result(r, <<PLME_SET_TRX_STATE_confirm(status)>>)
    IN  CASE setState = q.phyRadioState -> confirm(q, setState)
          [] setState \in {"RX_ON", "TRX_OFF"} /\ q.rs = "TRANSMIT" ->
                confirm([q EXCEPT !.newState = setState], "BUSY_TX")
          [] setState \in {"TX_ON", "TRX_OFF"} /\ q.rs = "RECV" ->
                confirm([q EXCEPT !.newState = setState], "BUSY_RX")
          [] setState = "FORCE_TRX_OFF" -> ForceOff(q)
          [] setState # "TRX_OFF" /\ q.phyRadioState # "TRX_OFF" ->
                Result(Turnaround(q, now, setState), <<>>)
          [] OTHER ->
                confirm([q EXCEPT !.phyRadioState = setState,
                                  !.rs = IF setState = "TRX_OFF" THEN "SLEEP" ELSE "IDLE"],
                        "SUCCESS")

\* PLME_CCA_REQUEST of handlePrimitive.
handle_PLME_CCA_request(p, now) ==
    CASE p.phyRadioState # "RX_ON" -> Result(p, <<PLME_CCA_confirm(p.phyRadioState)>>)
      [] p.CCA_timer # NEVER -> Error(p)
      [] OTHER -> Result([p EXCEPT !.CCA_timer = now + CCATime,
                                   !.isCCAStartIdle = p.rs = "IDLE"], <<>>)

\* handleUpperMsg: a frame of the given duration to send.
handleFrameFromMac(p, now, duration) ==
    IF p.phyRadioState # "TX_ON" \/ p.rs = "TRANSMIT" THEN Error(p)
    ELSE Result([p EXCEPT !.rs = "TRANSMIT", !.TxOver_timer = now + duration], <<>>)

-----------------------------------------------------------------------------
(* The timers of handleSelfMsg.                                            *)

TxOver(p, now) ==
    TakePending([p EXCEPT !.TxOver_timer = NEVER, !.rs = "IDLE"], now,
                <<PD_DATA_confirm("SUCCESS")>>)

CCAOver(p) ==
    Result([p EXCEPT !.CCA_timer = NEVER],
           <<PLME_CCA_confirm(IF p.rs = "IDLE" /\ p.isCCAStartIdle THEN "IDLE" ELSE "BUSY")>>)

TRXOver(p) ==
    Result([p EXCEPT !.TRX_timer = NEVER, !.phyRadioState = p.newState_turnaround,
                     !.rs = "IDLE"],
           <<PLME_SET_TRX_STATE_confirm(p.newState_turnaround)>>)

-----------------------------------------------------------------------------
(* Frames from the channel.                                                *)

\* handleLowerMsgStart: the first frame is received, others are noise.  A frame that
\* starts while the receiver is off is never noticed.
handleLowerMsgStart(p, from) ==
    CASE p.phyRadioState # "RX_ON" -> p
      [] p.snrInfo = Nobody ->
            [p EXCEPT !.snrInfo = from, !.rs = "RECV", !.disturbed = p.noise # {}]
      [] OTHER ->
            [p EXCEPT !.noise = @ \cup {from}, !.disturbed = TRUE, !.rs = "RECV"]

\* Whether the frame goes up to the MAC without the mark RX_DURING_CCA.
IsReceived(p, from) == p.snrInfo = from /\ ~ p.forced /\ p.CCA_timer = NEVER

\* handleLowerMsgEnd; up holds the frame, if it goes to the MAC.
handleLowerMsgEnd(p, now, from, up) ==
    LET q == IF p.snrInfo = from
             THEN [p EXCEPT !.snrInfo = Nobody, !.disturbed = FALSE, !.forced = FALSE]
             ELSE [p EXCEPT !.noise = @ \ {from}]
    IN  IF q.noise = {} /\ q.snrInfo = Nobody /\ q.phyRadioState = "RX_ON" /\ q.rs = "RECV"
        THEN TakePending([q EXCEPT !.rs = "IDLE"], now, up)
        ELSE Result(q, up)

=============================================================================
