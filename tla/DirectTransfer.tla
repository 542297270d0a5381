--------------------------- MODULE DirectTransfer ---------------------------
(***************************************************************************)
(* A star of nodes that send data in the CAP (dataTransMode 1): the MAC of *)
(* DirectMac and the radio of RadioPHY at each node, and the channel.      *)
(*                                                                         *)
(* Time is in symbols from the start of the superframe and jumps from one  *)
(* event to the next.  At one moment the timers that are due come first,   *)
(* then the messages between MAC and radio in the order in which they were *)
(* sent, as in the kernel of the simulator, then the frames, which need    *)
(* some time to propagate.  Until then the nodes do not affect each other, *)
(* so that it is enough to let them act in one order.                      *)
(***************************************************************************)
EXTENDS DirectMac, TLC

CONSTANTS
    Hears,      \* [Nodes -> SUBSET Nodes]: the nodes within reach of each node
    Draws,      \* the random numbers that each node may draw, taken modulo 2^BE
    Arrivals,   \* moments at which the upper layer may hand down data
    MaxData,    \* how many packets the upper layer hands to a node at most
    Settings    \* traffic and channels, see below

ASSUME DirectAssumption ==
    /\ Coord \notin Devices
    /\ Nobody \notin Nodes
    /\ Hears \in [Nodes -> SUBSET Nodes]
    /\ \A n \in Nodes : Draws[n] \subseteq Nat /\ Draws[n] # {}
    /\ Arrivals \subseteq 1..(BeaconInterval - 1)
    /\ MaxData \in Nat
    /\ Settings \subseteq [links : SUBSET (({Coord} \X Devices) \cup (Devices \X {Coord})),
                           data : 1..MaxData, payload : [Nodes -> Nat],
                           fades : SUBSET Nodes, capture : BOOLEAN]

VARIABLES
    setting,    \* who sends data to whom, how much and of what size, the nodes that may
                \* miss a frame, and whether one is received although others overlap it
    now,        \* symbols since the start of the superframe
    mac,        \* the members of each node's MAC
    phy,        \* the members of each node's radio
    queue,      \* the messages under way between the two
    air,        \* the frames on the channel
    delivered,  \* history: the packets handed to the upper layer
    succeeded,  \* history: the packets that taskSuccess has confirmed
    deaf        \* history: the nodes that have not noticed some data of this superframe,
                \* since their receivers were off when it started

vars == <<setting, now, mac, phy, queue, air, delivered, succeeded, deaf>>

\* What the upper layers may hand down.
Packets ==
    UNION {UNION {[src : {link[1]}, dst : {link[2]}, sn : 1..s.data,
                   payload : {s.payload[link[1]]}] : link \in s.links} : s \in Settings}

Init ==
    /\ setting \in Settings
    /\ now = 0
    /\ mac = [n \in Nodes |-> MacInit(n)]
    /\ phy = [n \in Nodes |-> PhyInit(IF n = Coord THEN "TX_ON" ELSE "RX_ON")]
    /\ queue = [n \in Nodes |-> <<>>]
    /\ air = {}
    /\ delivered = {}
    /\ succeeded = {}
    /\ deaf = {}

halted == \E n \in Nodes : mac[n].error # "no"

-----------------------------------------------------------------------------
(* The events of one moment.                                               *)

TimerNames == DOMAIN MacInit(Coord).timer
RadioTimers == {"TRX_timer", "TxOver_timer", "CCA_timer"}

\* A timer that was started without delay waits its turn in the queue.
InQueue(n, name) == \E i \in DOMAIN queue[n] : queue[n][i].kind = name

Due(n) == {name \in TimerNames : mac[n].timer[name] = now /\ ~ InQueue(n, name)}
DueAtRadio(n) == {name \in RadioTimers : phy[n][name] = now}

Active == {n \in Nodes : Due(n) # {} \/ DueAtRadio(n) # {} \/ queue[n] # <<>>}

\* The node whose turn it is.
Turn(n) == ~ halted /\ Active # {} /\ n = (CHOOSE x \in Active : TRUE)

\* The MAC of n becomes m; its messages go to the end of the queue rest.
MacStep(n, m, rest) ==
    /\ mac' = [mac EXCEPT ![n] = [m EXCEPT !.out = <<>>]]
    /\ queue' = [queue EXCEPT ![n] = rest \o m.out]

\* The same for the radio, with the result of one of its handlers.
PhyStep(n, result, rest) ==
    /\ phy' = [phy EXCEPT ![n] = result.phy]
    /\ queue' = [queue EXCEPT ![n] =
                    rest \o [i \in DOMAIN result.up |-> [to |-> "mac"] @@ result.up[i]]]
    /\ mac' = [mac EXCEPT ![n].error = IF result.error THEN "radio" ELSE @]

MacTimer(n, name) ==
    /\ Turn(n) /\ name \in Due(n)
    /\ \E r \in Draws[n] : MacStep(n, handleTimer(mac[n], now, name, r), queue[n])
    /\ delivered' = IF name = "ifs" /\ mac[n].rxData # NoFrame
                    THEN delivered \cup {mac[n].rxData} ELSE delivered
    /\ UNCHANGED <<now, phy, air, succeeded, deaf>>

RadioTimer(n, name) ==
    /\ Turn(n) /\ name \in DueAtRadio(n)
    /\ PhyStep(n, CASE name = "TRX_timer" -> TRXOver(phy[n])
                    [] name = "TxOver_timer" -> TxOver(phy[n], now)
                    [] name = "CCA_timer" -> CCAOver(phy[n]), queue[n])
    /\ UNCHANGED <<now, air, delivered, succeeded, deaf>>

\* The radio takes a message from its MAC.
RadioMessage(n) ==
    LET msg == Head(queue[n])
        rest == Tail(queue[n])
    IN  /\ Turn(n) /\ Due(n) = {} /\ DueAtRadio(n) = {}
        /\ msg.to = "phy"
        /\ CASE msg.kind = "TRX" ->
                  /\ PhyStep(n, handle_PLME_SET_TRX_STATE_request(phy[n], now, msg.status), rest)
                  /\ UNCHANGED air
             [] msg.kind = "CCA" ->
                  PhyStep(n, handle_PLME_CCA_request(phy[n], now), rest) /\ UNCHANGED air
             [] msg.kind = "frame" ->
                  LET time == FrameTime(msg.frame.kind, msg.frame.pkt)
                  IN  /\ PhyStep(n, handleFrameFromMac(phy[n], now, time), rest)
                      /\ air' = air \cup {[kind |-> msg.frame.kind, pkt |-> msg.frame.pkt,
                                           from |-> n, end |-> now + time, started |-> FALSE]}
        /\ UNCHANGED <<now, delivered, succeeded, deaf>>

\* Whether the ACK is taken as a duplicate: handleLowerMsg compares a variable that
\* it has not assigned for an ACK.
AckResult(m, p) == {m, handleAck(m, p)}

\* The MAC takes a confirm, or a frame (after frameFilter).
MacResult(m, msg, r) ==
    CASE msg.kind = "TRX" -> {handle_PLME_SET_TRX_STATE_confirm(m, now, msg.status)}
      [] msg.kind = "CCA" -> {handle_PLME_CCA_confirm(m, now, msg.status, r)}
      [] msg.kind = "PD" -> {handle_PD_DATA_confirm(m, now, r)}
      [] msg.kind = "backoff" -> {IF m.timer.backoff = now
                                  THEN handleTimer(m, now, "backoff", r) ELSE m}
      [] msg.kind = "beacon" -> {handleBeacon(m, now, r)}
      [] msg.kind = "data" -> {receiveData(m, msg.pkt)}
      [] msg.kind = "ack" -> AckResult(m, msg.pkt)

MacMessage(n) ==
    /\ Turn(n) /\ Due(n) = {} /\ DueAtRadio(n) = {}
    /\ Head(queue[n]).to = "mac"
    /\ \E r \in Draws[n] : \E m \in MacResult(mac[n], Head(queue[n]), r) :
          /\ MacStep(n, m, Tail(queue[n]))
          /\ succeeded' = IF Head(queue[n]).kind = "ack" /\ m.txData # mac[n].txData
                          THEN succeeded \cup {mac[n].txData} ELSE succeeded
    /\ UNCHANGED <<now, phy, air, delivered, deaf>>

-----------------------------------------------------------------------------
(* The channel, the upper layer and time.                                  *)

FrameStarts(f) ==
    /\ Active = {} /\ ~ halted /\ ~ f.started
    /\ air' = (air \ {f}) \cup {[f EXCEPT !.started = TRUE]}
    /\ phy' = [n \in Nodes |-> IF n \in Hears[f.from] THEN handleLowerMsgStart(phy[n], f.from)
                               ELSE phy[n]]
    /\ deaf' = IF f.kind = "data"
               THEN deaf \cup {n \in Hears[f.from] : phy[n].phyRadioState # "RX_ON"}
               ELSE deaf
    /\ UNCHANGED <<now, mac, queue, delivered, succeeded>>

\* The nodes whose frameFilter lets the frame pass.
Addressees(f) ==
    CASE f.kind = "data" -> {f.pkt.dst}
      [] f.kind = "ack" -> {f.pkt.src}
      [] f.kind = "beacon" -> Devices

\* What others overlap is lost for sure unless there is capture; what a node may miss
\* is lost perhaps.
Losses(f, reached) ==
    LET overlapped == {n \in reached : phy[n].disturbed}
    IN  IF setting.capture THEN SUBSET (overlapped \cup (reached \cap setting.fades))
        ELSE {overlapped \cup s : s \in SUBSET (reached \cap setting.fades)}

FrameEnds(f) ==
    LET reached == {n \in Addressees(f) : IsReceived(phy[n], f.from)}
        ends == [n \in Hears[f.from] |-> handleLowerMsgEnd(phy[n], now, f.from, <<>>)]
    IN  /\ Active = {} /\ ~ halted /\ f.started /\ f.end = now
        /\ \E lost \in Losses(f, reached) :
              queue' = [n \in Nodes |->
                  (IF n \in reached \ lost
                   THEN <<[to |-> "mac", kind |-> f.kind, pkt |-> f.pkt]>> ELSE <<>>)
                  \o (IF n \in Hears[f.from]
                      THEN [i \in DOMAIN ends[n].up |-> [to |-> "mac"] @@ ends[n].up[i]]
                      ELSE <<>>)]
        /\ phy' = [n \in Nodes |-> IF n \in Hears[f.from] THEN ends[n].phy ELSE phy[n]]
        /\ air' = air \ {f}
        /\ UNCHANGED <<now, mac, delivered, succeeded, deaf>>

\* handleUpperMsg; data that it drops changes nothing.
DataFromAbove(n, p) ==
    /\ Active = {} /\ ~ halted /\ now \in Arrivals
    /\ <<n, p.dst>> \in setting.links
    /\ p.sn = mac[n].macDSN /\ p.sn <= setting.data /\ p.payload = setting.payload[n]
    /\ mac[n].txData = NoFrame
    /\ ~ mac[IF n = Coord THEN p.dst ELSE n].notAssociated
    /\ \E r \in Draws[n] : MacStep(n, takeData(mac[n], now, p, r), queue[n])
    /\ UNCHANGED <<setting, now, phy, air, delivered, succeeded, deaf>>

Moments ==
    UNION {{mac[n].timer[name] : name \in TimerNames} : n \in Nodes}
      \cup UNION {{phy[n][name] : name \in RadioTimers} : n \in Nodes}
      \cup {f.end : f \in air} \cup Arrivals \cup {BeaconInterval}

\* A moment counted from the next beacon.
Shift(t) == IF t = NEVER THEN NEVER ELSE t - BeaconInterval

NextSuperframe ==
    /\ now' = 0
    /\ mac' = [n \in Nodes |->
                [mac[n] EXCEPT !.timer = [name \in TimerNames |-> Shift(@[name])],
                               !.lost = IF n = Coord \/ mac[n].notAssociated THEN 0
                                        ELSE Min({@ + 1, aMaxLostBeacons + 1})]]
    /\ phy' = [n \in Nodes |->
                [name \in DOMAIN phy[n] |-> IF name \in RadioTimers THEN Shift(phy[n][name])
                                            ELSE phy[n][name]]]
    /\ air' = {[f EXCEPT !.end = Shift(@)] : f \in air}
    /\ deaf' = {}

Tick ==
    LET next == Min({t \in Moments : t > now})
    IN  /\ Active = {} /\ ~ halted
        /\ \A f \in air : f.started /\ f.end # now
        /\ IF next = BeaconInterval THEN NextSuperframe
           ELSE now' = next /\ UNCHANGED <<mac, phy, air, deaf>>
        /\ UNCHANGED <<queue, delivered, succeeded>>

Events ==
    /\ UNCHANGED setting
    /\ \/ Tick
       \/ \E n \in Nodes :
             \/ \E name \in TimerNames : MacTimer(n, name)
             \/ \E name \in RadioTimers : RadioTimer(n, name)
             \/ RadioMessage(n) \/ MacMessage(n)
       \/ \E f \in air : FrameStarts(f) \/ FrameEnds(f)

\* After a failed assertion or error() nothing happens any more.
Stopped == halted /\ UNCHANGED vars

Next == Events \/ Stopped \/ \E p \in Packets : DataFromAbove(p.src, p)

\* The kernel goes on taking events; the upper layer hands down only so much.
Spec == Init /\ [][Next]_vars /\ ([]<><<TRUE>>_vars \/ <>[]halted)

-----------------------------------------------------------------------------
(* Properties.                                                             *)

\* The error, if any, is the assertion of constructACK, about which see
\* AckBeforeNextData: no other assertion of the MAC fails, no deleted frame is read,
\* and the radio is never asked for what it cannot do, to send while it is not TX_ON,
\* to assess the channel twice at a time, to go off in the middle of its own frame.
NoError == \A n \in Nodes : mac[n].error \in {"no", "ASSERT(!txAck)"}

\* Two idle assessments, at boundaries (handle_PLME_CCA_confirm, csmacaLocateBoundary),
\* keep the ACK free: no node that has heard the beacon and noticed the data of this
\* superframe sends over an ACK.  A node whose receiver was off when data started,
\* because it was sending itself, takes the channel for idle and may.
AckUndisturbed ==
    \A f, g \in air :
        f.kind = "ack" /\ g # f /\ mac[g.from].lost = 0 /\ g.from \notin deaf
        => now \in {f.end, g.end}

\* "finish your job before this!" (handleBcnTxTimer): when the CAP is over nothing is on
\* the channel, no data waits for an ACK, and no ACK is about to be sent, as long as no
\* device has missed so many beacons that it no longer knows the CAP.  An ACK may be
\* left over: where the node's own task fails while the transmitter is being switched
\* on for the ACK, resetTRX switches the receiver on instead.
TransactionsEndInCap ==
    now > CapEnd /\ (\A d \in Devices : mac[d].lost <= aMaxLostBeacons) =>
        /\ air = {}
        /\ \A n \in Nodes :
              /\ mac[n].step < 2
              /\ mac[n].txAck # NoFrame => mac[n].trx_state_req # "TX_ON"

\* "it's impossilbe to receive the second packet before the Ack has been sent out."
\* (constructACK)
AckBeforeNextData ==
    \A n \in Nodes :
        queue[n] # <<>> /\ Head(queue[n]).kind = "data" => mac[n].txAck = NoFrame

Sender ==
    [p \in Packets |-> IF p \in succeeded THEN "confirmed"
                       ELSE IF mac[p.src].txData = p THEN "taken" ELSE "out"]

Receiver ==
    [p \in Packets |-> IF mac[p.dst].rxData = p THEN "held"
                       ELSE IF p \in delivered THEN "indicated" ELSE "no"]

Transfer == INSTANCE PacketTransfer WITH sender <- Sender, receiver <- Receiver

\* Retries, late ACKs and the duplicate list (handleAck, handleLowerMsg): data reaches
\* the upper layer at most once, and what is confirmed has been accepted.
RefinesTransfer == Transfer!Spec

\* CSMA-CA gets stuck nowhere (csmacaResume, csmacaTrxBeacon): every task ends, unless
\* the program does, if the devices hear a beacon from time to time.
TaskEnds ==
    (\A d \in Devices : []<>(mac[d].inSD)) =>
        \A n \in Nodes : mac[n].txData # NoFrame ~> mac[n].txData = NoFrame \/ halted

=============================================================================
