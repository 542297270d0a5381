------------------------------ MODULE DirectMac ------------------------------
(***************************************************************************)
(* The handlers of srwsn802154MAC.cc for data sent in the CAP              *)
(* (dataTransMode 1): the task of the sender, the ACK of the receiver, the *)
(* beacon and the timers, around the CSMA-CA of SlottedCSMA.  The ACK of a *)
(* packet carries the packet, for its sender and its sequence number.      *)
(***************************************************************************)
EXTENDS SlottedCSMA

CONSTANT BeaconInterval

ASSUME IntervalAssumption ==
    BeaconInterval % aUnitBackoffPeriod = 0 /\ BeaconInterval >= 2 * CapEnd

aMaxFrameRetries == 3

Frame(kind, pkt) == [kind |-> kind, pkt |-> pkt]

\* The MAC of a node before the first beacon.
MacInit(n) ==
    [isPANCoor |-> n = Coord, notAssociated |-> n # Coord,
     lost |-> 0,            \* beacons since the last one that was received
     inSD |-> FALSE,        \* inTxSD_txSDTimer or inRxSD_rxSDTimer
     beaconWaitingTx |-> n = Coord,
     txData |-> NoFrame,    \* not NoFrame while TP_MCPS_DATA_REQUEST is pending
     step |-> 0, numDataRetry |-> 0, macDSN |-> 1,
     txAck |-> NoFrame, rxData |-> NoFrame, hlist |-> [src \in Nodes |-> 0],
     txPkt |-> Frame("none", NoFrame),
     txCsmaca |-> NoFrame, tmpCsmaca |-> FALSE, inTransmission |-> FALSE,
     backoffStatus |-> 0, NB |-> 0, CW |-> 0, BE |-> 0, bPeriodsLeft |-> 0,
     csmacaWaitNextBeacon |-> FALSE,
     TP_RX_ON_CSMACA |-> FALSE, TP_CCA_CSMACA |-> FALSE,
     trx_state_req |-> IF n = Coord THEN "TX_ON" ELSE "RX_ON",
     timer |-> [backoff |-> NEVER, deferCCA |-> NEVER, ackTimeout |-> NEVER,
                txAckBound |-> NEVER, txCmdDataBound |-> NEVER, ifs |-> NEVER,
                SD |-> NEVER, bcn |-> IF n = Coord THEN 0 ELSE NEVER],
     out |-> <<>>, error |-> "no"]

-----------------------------------------------------------------------------
(* Sending.                                                                *)

sendDown(m, frame) ==
    SendOut([m EXCEPT !.inTransmission = TRUE, !.txPkt = frame],
            [to |-> "phy", kind |-> "frame", frame |-> frame])

\* After a task the receiver stays on in the active period (macRxOnWhenIdle).
resetTRX(m) == PLME_SET_TRX_STATE_request(m, IF m.inSD THEN "RX_ON" ELSE "TRX_OFF")

\* handleUpperMsg, MCPS_DATA_request and csmacaEntry for data the MAC takes.
takeData(m, now, p, r) ==
    csmacaResume([m EXCEPT !.macDSN = @ + 1, !.txData = p, !.step = 1, !.numDataRetry = 0],
                 now, r)

\* taskSuccess and taskFailed for data.
EndTask(m) == resetTRX([m EXCEPT !.txData = NoFrame, !.step = 0])

handleTxAckBoundTimer(m) ==
    IF m.beaconWaitingTx \/ m.txAck = NoFrame THEN m
    ELSE sendDown(m, Frame("ack", m.txAck))

handleTxCmdDataBoundTimer(m) ==
    IF m.txData = NoFrame \/ m.txData # m.txCsmaca THEN m
    ELSE sendDown(m, Frame("data", m.txData))

\* The transmitter is on: at the next boundary the ACK or the data is sent.  toParent
\* reads txCsmaca, which must not have been deleted.
TransmitterOn(m, now) ==
    LET delay == csmacaLocateBoundary(now, 0)
        live == AssertThat(m, m.txData # NoFrame /\ m.txData = m.txCsmaca)
    IN  CASE m.beaconWaitingTx -> m
          [] ~ m.beaconWaitingTx /\ m.txAck # NoFrame ->
                IF delay = 0 THEN handleTxAckBoundTimer(m)
                ELSE [m EXCEPT !.timer.txAckBound = now + delay]
          [] OTHER ->
                IF delay = 0 THEN handleTxCmdDataBoundTimer(live)
                ELSE [live EXCEPT !.timer.txCmdDataBound = now + delay]

handle_PLME_SET_TRX_STATE_confirm(m, now, answer) ==
    LET status == IF answer = "SUCCESS" THEN m.trx_state_req ELSE answer
        csma == /\ m.backoffStatus = 99 /\ m.trx_state_req = "RX_ON"
                /\ m.TP_RX_ON_CSMACA
        done == IF csma
                THEN csmaca_handle_RX_ON_confirm([m EXCEPT !.TP_RX_ON_CSMACA = FALSE],
                                                 now, status)
                ELSE m
    IN  IF status # "TX_ON" THEN done ELSE TransmitterOn(done, now)

-----------------------------------------------------------------------------
(* A frame has been sent: handle_PD_DATA_confirm and dispatch.             *)

\* taskSuccess for the beacon.
BeaconSent(m, now, r) ==
    LET on == PLME_SET_TRX_STATE_request(resetTRX(m), "RX_ON")
        csma == IF m.backoffStatus = 99 THEN csmacaTrxBeacon(on, now, r) ELSE on
    IN  csmacaResume([csma EXCEPT !.beaconWaitingTx = FALSE], now, r)

\* A slip of AckSent: the CSMA-CA that was stopped for the ACK is not resumed.
ResumeForgotten(m, now, r) ==
    LET ifs == IF m.rxData = NoFrame THEN m
               ELSE [m EXCEPT !.timer.ifs = now + Ifs(m.rxData.payload)]
    IN  [resetTRX(ifs) EXCEPT !.txAck = NoFrame]

\* The data that was acknowledged goes up after an IFS.
AckSent(m, now, r) ==
    LET ifs == IF m.rxData = NoFrame THEN m
               ELSE [m EXCEPT !.timer.ifs = now + Ifs(m.rxData.payload)]
    IN  csmacaResume([resetTRX(ifs) EXCEPT !.txAck = NoFrame], now, r)

\* Step 2 of FSM_MCPS_DATA_request: ack4Data is always TRUE.
DataSent(m, now) ==
    PLME_SET_TRX_STATE_request(
        [AssertThat(m, m.step = 2) EXCEPT !.step = 3,
                                          !.timer.ackTimeout = now + macAckWaitDuration],
        "RX_ON")

handle_PD_DATA_confirm(m, now, r) ==
    LET done == [m EXCEPT !.inTransmission = FALSE,
                          !.backoffStatus = IF @ = 1 THEN 0 ELSE @]
        sent(kind, p) == p # NoFrame /\ m.txPkt = Frame(kind, p)
    IN  CASE m.txPkt.kind = "beacon" -> BeaconSent(done, now, r)
          [] sent("ack", m.txAck) -> AckSent(done, now, r)
          [] sent("data", m.txData) -> DataSent(done, now)
          [] OTHER -> done

-----------------------------------------------------------------------------
(* A frame has been received: handleLowerMsg after frameFilter.            *)


\* constructACK, and handleData unless the data is dropped.  CSMA-CA stops for the ACK.
receiveData(m, p) ==
    LET construct == [m EXCEPT !.txAck = p,
                               !.error = IF m.txAck = NoFrame THEN @ ELSE "ASSERT(!txAck)"]
        stopped == IF m.backoffStatus # 99 THEN construct
                   ELSE csmacaCancel([construct EXCEPT !.backoffStatus = 0])
        ack == PLME_SET_TRX_STATE_request(stopped, "TX_ON")
    IN  IF m.rxData # NoFrame \/ m.hlist[p.src] = p.sn THEN ack
        ELSE [ack EXCEPT !.rxData = p, !.hlist[p.src] = p.sn]

\* A late ACK ends the task as well, and stops the retry.
handleAck(m, p) ==
    LET inTime == [m EXCEPT !.timer.ackTimeout = NEVER, !.numDataRetry = 0]
        late == IF m.backoffStatus # 99 THEN m
                ELSE csmacaCancel([m EXCEPT !.backoffStatus = 0])
    IN  IF m.txData = NoFrame \/ m.txPkt # Frame("data", m.txData) \/ p # m.txData THEN m
        ELSE EndTask(IF m.timer.ackTimeout # NEVER THEN inTime ELSE late)

\* The first beacon also associates the device.
handleBeacon(m, now, r) ==
    LET heard == [AssertThat(m, ~ m.inSD) EXCEPT
                    !.inSD = TRUE, !.timer.SD = CapEnd, !.lost = 0, !.notAssociated = FALSE,
                    !.timer.bcn = IF m.notAssociated THEN BeaconInterval - aTurnaroundTime
                                  ELSE @]
    IN  resetTRX(IF m.backoffStatus = 99 THEN csmacaTrxBeacon(heard, now, r) ELSE heard)

-----------------------------------------------------------------------------
(* Timers.                                                                 *)

\* Step 3 of FSM_MCPS_DATA_request: a retry, or the failure of the task.
handleAckTimeoutTimer(m, now, r) ==
    LET found == AssertThat(m, m.txData # NoFrame)
        counted == [found EXCEPT !.numDataRetry = @ + 1]
    IN  IF m.txPkt # Frame("data", m.txData) \/ m.step # 3 THEN found
        ELSE IF counted.numDataRetry > aMaxFrameRetries THEN EndTask(counted)
        ELSE csmacaResume([counted EXCEPT !.step = 1], now, r)

\* The inactive period starts; the radio stays on for a pending ACK.
handleSDTimer(m) ==
    LET off == [m EXCEPT !.inSD = FALSE]
    IN  IF m.txAck = NoFrame THEN PLME_SET_TRX_STATE_request(off, "TRX_OFF") ELSE off

\* A device turns its receiver on for the next beacon.
handleBcnRxTimer(m, now) ==
    PLME_SET_TRX_STATE_request([m EXCEPT !.txAck = NoFrame,
                                         !.timer.bcn = now + BeaconInterval], "RX_ON")

\* The coordinator turns its transmitter on, and sends the beacon a little later.
handleBcnTxTimer(m, now) ==
    IF now # 0
    THEN PLME_SET_TRX_STATE_request(
             [PLME_SET_TRX_STATE_request(m, "FORCE_TRX_OFF") EXCEPT
                !.beaconWaitingTx = TRUE, !.txAck = NoFrame,
                !.timer.bcn = now + aTurnaroundTime], "TX_ON")
    ELSE [sendDown(AssertThat(m, ~ m.inSD), Frame("beacon", NoFrame)) EXCEPT
            !.inSD = TRUE, !.timer.SD = now + CapEnd,
            !.timer.bcn = now + BeaconInterval - aTurnaroundTime]

\* MCPS_DATA_indication
handleIfsTimer(m) == [AssertThat(m, m.rxData # NoFrame) EXCEPT !.rxData = NoFrame]

\* handleSelfMsg
handleTimer(m, now, name, r) ==
    LET fired == [m EXCEPT !.timer[name] = NEVER]
    IN  CASE name = "backoff" -> handleBackoffTimer(fired)
          [] name = "deferCCA" -> handleDeferCCATimer(fired)
          [] name = "ackTimeout" -> handleAckTimeoutTimer(fired, now, r)
          [] name = "txAckBound" -> handleTxAckBoundTimer(fired)
          [] name = "txCmdDataBound" -> handleTxCmdDataBoundTimer(fired)
          [] name = "ifs" -> handleIfsTimer(fired)
          [] name = "SD" -> handleSDTimer(fired)
          [] name = "bcn" -> IF m.isPANCoor THEN handleBcnTxTimer(fired, now)
                             ELSE handleBcnRxTimer(fired, now)

=============================================================================
