---------------------------- MODULE GTSTransfer ----------------------------
(***************************************************************************)
(* Data in guaranteed time slots (dataTransMode 3 of srwsn802154MAC.cc),   *)
(* on top of GTSAllocation.  Time runs in symbols from the start of the    *)
(* last beacon; a timer is the moment it fires, and time jumps from one    *)
(* moment to the next.  Events of the same moment come in any order.       *)
(* Propagation is taken as instantaneous.  What the radio needs no time    *)
(* for (FORCE_TRX_OFF, then TX_ON, then the frame) is one step.            *)
(***************************************************************************)
EXTENDS GTSAllocation, FiniteSetsExt

CONSTANTS
    Coord,      \* the PAN coordinator
    Arrivals,   \* moments at which the upper layer may hand down data
    MaxData,    \* how many packets the upper layer hands to a node at most
    BeaconInterval,   \* symbols from one beacon to the next
    Settings    \* networks and channels, see below

SuperframeEnd == aNumSuperframeSlots * SlotDuration

\* The beacon order exceeds the superframe order.
ASSUME TransferAssumption ==
    /\ Coord \notin Devices
    /\ MaxData \in Nat
    /\ BeaconInterval \in Nat /\ BeaconInterval >= 2 * SuperframeEnd
    /\ Arrivals \subseteq 1..(BeaconInterval - 1)
    /\ Settings \subseteq [on : SUBSET Devices, data : 0..MaxData, lossy : BOOLEAN]

VARIABLES
    setting,        \* the devices that are there, the packets that the upper layer hands
                    \* to a node, and whether the channel may lose a frame or a beacon
    now,            \* symbols since the start of the superframe
    beaconDue,      \* the beacon of this superframe is still to be sent
    mac,            \* the members of each node's MAC
    isTxPending,    \* coordinator: the descriptors of gtsList that have data
    air,            \* the frames on the channel
    delivered,      \* history: the packets handed to the upper layer
    succeeded       \* history: the packets that taskSuccess has confirmed

allocVars == <<coordVars, txFinalCap, deviceVars>>
transferVars == <<vars, setting, now, beaconDue, mac, isTxPending, air, delivered,
                  succeeded>>

Nodes == Devices \cup {Coord}
NEVER == -1
NoFrame == [src |-> Coord, dst |-> Coord, sn |-> 0]
aMaxFrameRetries == 3
BeaconEnd == calDuration(13)

\* Data goes to the coordinator, or from it to a device with a receive GTS.
Ends == ((Devices \ Recv) \X {Coord}) \cup ({Coord} \X Recv)
Packets == {[src |-> e[1], dst |-> e[2], sn |-> i] : e \in Ends, i \in 1..MaxData}

\* The payload is the one of the device at either end.
PayloadOf(f) == IF f.src = Coord THEN Payload[f.dst] ELSE Payload[f.src]

TransferInit ==
    /\ Init
    /\ setting \in Settings
    /\ now = 0 /\ beaconDue = TRUE
    /\ mac = [n \in Nodes |->
                [index_gtsTimer |-> 0, indexCurrGts |-> 99, gtsTimer |-> NEVER,
                 finalCAPTimer |-> NEVER, SDTimer |-> NEVER, ifsTimer |-> NEVER,
                 ackTimeoutTimer |-> NEVER, bcnRxTimer |-> NEVER,
                 radio |-> "RX_ON", macDSN |-> 1,
                 txGTS |-> NoFrame, step |-> 0, numGTSRetry |-> 0,
                 rxData |-> NoFrame, hlist |-> [m \in Nodes |-> 0]]]
    /\ isTxPending = {}
    /\ air = {}
    /\ delivered = {}
    /\ succeeded = {}

-----------------------------------------------------------------------------
(* The schedule of a superframe.                                           *)

\* A slip of gtsScheduler: the receiver is not turned on ahead of the GTS.
NoLead(i) == gtsList[i + 1].startSlot * SlotDuration

\* When the timer of the GTS with index i of gtsList fires at the coordinator.
gtsScheduler(i) ==
    gtsList[i + 1].startSlot * SlotDuration
      - (IF gtsList[i + 1].isRecvGTS THEN 0 ELSE aTurnaroundTime)

\* handleBcnTxTimer, startTxSDTimer and what follows the transmission.
TransmitBeacon ==
    /\ beaconDue /\ ~ halted
    /\ TxBeaconSpec
    /\ beaconDue' = FALSE
    /\ mac' = [mac EXCEPT ![Coord].SDTimer = SuperframeEnd,
                          ![Coord].radio = "RX_ON",
                          ![Coord].index_gtsTimer =
                              IF gtsList = <<>> THEN @ ELSE Len(gtsList) - 1,
                          ![Coord].gtsTimer =
                              IF gtsList = <<>> THEN @ ELSE gtsScheduler(Len(gtsList) - 1)]
    /\ UNCHANGED <<coordVars, deviceVars, halted, now, isTxPending, air, delivered, succeeded>>

\* The devices that the beacon may still reach: their radios have been receiving.
Listening == {d \in beaconFor \cap setting.on : mac[d].radio = "RX_ON"}

\* handleBeacon: the timers of the superframe, the GTS only after the first beacon,
\* which starts the timer for the beacons to come.
ReceiveBeacon(d) ==
    LET mine == ~ notAssociated[d] /\ gtsStartSlot[d] # 0
    IN  /\ now = BeaconEnd /\ d \in Listening /\ ~ halted
        /\ handleBeacon(d)
        /\ mac' = [mac EXCEPT ![d].SDTimer = SuperframeEnd,
                              ![d].bcnRxTimer = IF notAssociated[d]
                                  THEN BeaconInterval - aTurnaroundTime ELSE @,
                              ![d].radio = "RX_ON",
                              ![d].gtsTimer =
                                  IF mine THEN gtsStartSlot[d] * SlotDuration
                                                 - (IF d \in Recv THEN aTurnaroundTime ELSE 0)
                                  ELSE @,
                              ![d].finalCAPTimer =
                                  IF mine /\ gtsStartSlot[d] # txFinalCap + 1
                                  THEN (txFinalCap + 1) * SlotDuration ELSE @]
        /\ UNCHANGED <<now, beaconDue, isTxPending, air, delivered, succeeded>>

\* handleFinalCapTimer
FinalCap(d) ==
    /\ mac[d].finalCAPTimer = now /\ ~ halted
    /\ mac' = [mac EXCEPT ![d].finalCAPTimer = NEVER, ![d].radio = "TRX_OFF"]
    /\ UNCHANGED <<vars, now, beaconDue, isTxPending, air, delivered, succeeded>>

\* handleSDTimer: the radio stays on for an ACK that is being sent.
SuperframeEnds(n) ==
    /\ mac[n].SDTimer = now /\ ~ halted
    /\ mac' = [mac EXCEPT ![n].SDTimer = NEVER,
                          ![n].radio = IF \E f \in air : f.kind = "ack" /\ f.from = n
                                       THEN @ ELSE "TRX_OFF",
                          ![n].indexCurrGts = IF n = Coord THEN 99 ELSE @]
    /\ UNCHANGED <<vars, now, beaconDue, isTxPending, air, delivered, succeeded>>

\* handleBcnRxTimer and startBcnRxTimer: the receiver is on ahead of every beacon,
\* and stays on when the beacon does not come.
BeaconExpected(d) ==
    /\ mac[d].bcnRxTimer = now /\ ~ halted
    /\ mac' = [mac EXCEPT ![d].bcnRxTimer = now + BeaconInterval, ![d].radio = "RX_ON"]
    /\ UNCHANGED <<vars, now, beaconDue, isTxPending, air, delivered, succeeded>>

-----------------------------------------------------------------------------
(* Sending.                                                                *)

\* The frame f on the channel, sent by one end of p, heard if the other listens.
OnAir(kind, p, from, to, end) ==
    [kind |-> kind, pkt |-> p, from |-> from, to |-> to, end |-> end,
     heard |-> mac[to].radio = "RX_ON"]

\* FSM_MCPS_DATA_request, step 1, up to the frame's start.
Send(p) ==
    air' = air \cup {OnAir("data", p, p.src, p.dst,
                           now + calDuration(DataBytes(PayloadOf(p))))}

\* handleGtsTimer at the coordinator.
CoordGts ==
    LET m == mac[Coord]
        i == m.index_gtsTimer
        recv == gtsList[i + 1].isRecvGTS
        sends == recv /\ m.txGTS # NoFrame /\ i \in isTxPending
    IN  /\ m.gtsTimer = now /\ ~ halted
        /\ mac' = [mac EXCEPT ![Coord].indexCurrGts = i,
                              ![Coord].radio = IF ~ recv THEN "RX_ON"
                                               ELSE IF sends THEN "TX_ON" ELSE "TRX_OFF",
                              ![Coord].step = IF sends THEN 2 ELSE @,
                              ![Coord].index_gtsTimer = IF i > 0 THEN i - 1 ELSE i,
                              ![Coord].gtsTimer = IF i > 0 THEN gtsScheduler(i - 1) ELSE NEVER]
        /\ IF sends THEN Send(m.txGTS) ELSE UNCHANGED air
        /\ UNCHANGED <<vars, now, beaconDue, isTxPending, delivered, succeeded>>

\* handleGtsTimer at a device, when its GTS starts and when it ends.
DeviceGtsStart(d) ==
    LET m == mac[d]
        sends == d \notin Recv /\ m.txGTS # NoFrame
        length == gtsLength(Payload[d]) * SlotDuration
    IN  /\ m.gtsTimer = now /\ m.index_gtsTimer # 99 /\ ~ halted
        /\ mac' = [mac EXCEPT ![d].index_gtsTimer = 99,
                              ![d].gtsTimer = now + length
                                  + (IF d \in Recv THEN aTurnaroundTime ELSE 0),
                              ![d].radio = IF d \in Recv THEN "RX_ON"
                                           ELSE IF sends THEN "TX_ON" ELSE "TRX_OFF",
                              ![d].step = IF sends THEN 2 ELSE @]
        /\ IF sends THEN Send(m.txGTS) ELSE UNCHANGED air
        /\ UNCHANGED <<vars, now, beaconDue, isTxPending, delivered, succeeded>>

DeviceGtsEnd(d) ==
    /\ mac[d].gtsTimer = now /\ mac[d].index_gtsTimer = 99 /\ ~ halted
    /\ mac' = [mac EXCEPT ![d].index_gtsTimer = 0, ![d].gtsTimer = NEVER,
                          ![d].radio = "TRX_OFF"]
    /\ UNCHANGED <<vars, now, beaconDue, isTxPending, air, delivered, succeeded>>

\* A slip: any data is sent in what is left of the GTS.
AlwaysProceed(d) == mac[d].gtsTimer > now

gtsCanProceed(d) == mac[d].gtsTimer - now > gtsTransDuration(Payload[d])

\* handleUpperMsg and MCPS_DATA_request; a packet the handler drops changes nothing.
DataFromDevice(d) ==
    LET p == [src |-> d, dst |-> Coord, sn |-> mac[d].macDSN]
        sends == mac[d].index_gtsTimer = 99 /\ gtsCanProceed(d)
    IN  /\ mac[d].macDSN <= setting.data /\ ~ halted
        /\ mac[d].step = 0 /\ gtsStartSlot[d] # 0 /\ d \notin Recv
        /\ mac' = [mac EXCEPT ![d].macDSN = @ + 1, ![d].txGTS = p, ![d].numGTSRetry = 0,
                              ![d].step = IF sends THEN 2 ELSE 1,
                              ![d].radio = IF sends THEN "TX_ON" ELSE @]
        /\ IF sends THEN Send(p) ELSE UNCHANGED air
        /\ UNCHANGED <<vars, now, beaconDue, isTxPending, delivered, succeeded>>

DataFromCoord(d) ==
    /\ mac[Coord].macDSN <= setting.data /\ ~ halted
    /\ mac[Coord].step = 0 /\ d \in deviceList
    /\ \E i \in DOMAIN gtsList :
          /\ gtsList[i].devShortAddr = d /\ gtsList[i].isRecvGTS
          /\ isTxPending' = isTxPending \cup {i - 1}
    /\ mac' = [mac EXCEPT ![Coord].macDSN = @ + 1, ![Coord].step = 1,
                          ![Coord].numGTSRetry = 0,
                          ![Coord].txGTS = [src |-> Coord, dst |-> d,
                                             sn |-> mac[Coord].macDSN]]
    /\ UNCHANGED <<vars, now, beaconDue, air, delivered, succeeded>>

-----------------------------------------------------------------------------
(* The end of a frame and the timers that follow it.                       *)

\* FSM_MCPS_DATA_request, step 2: the sender has sent its frame.
AfterSending(n, p) ==
    IF Ack4Gts
    THEN [mac[n] EXCEPT !.step = 3, !.radio = "RX_ON",
                        !.ackTimeoutTimer = now + macAckWaitDuration]
    ELSE [mac[n] EXCEPT !.step = 4, !.radio = "TRX_OFF",
                        !.ifsTimer = now + Ifs(PayloadOf(p))]

\* The error of handleLowerMsg: data outside of the GTS it belongs to.
TimingError(n, p) ==
    IF n = Coord
    THEN \/ mac[n].indexCurrGts = 99
         \/ gtsList[mac[n].indexCurrGts + 1].isRecvGTS
         \/ gtsList[mac[n].indexCurrGts + 1].devShortAddr # p.src
    ELSE mac[n].index_gtsTimer # 99 \/ n \notin Recv

\* A slip of Accepts: no check for duplicates.
AcceptsRepeats(n, p) == mac[n].rxData = NoFrame

\* Data is dropped while other data waits, or when it repeats the last one.
Accepts(n, p) == mac[n].rxData = NoFrame /\ mac[n].hlist[p.src] # p.sn

\* handleLowerMsg, constructACK and handleData at the receiver.
AfterReceiving(n, p) ==
    LET heard == [mac[n] EXCEPT !.radio = IF Ack4Gts THEN "TX_ON"
                                          ELSE IF n = Coord THEN "RX_ON" ELSE "TRX_OFF"]
    IN  IF ~ Accepts(n, p) THEN heard
        ELSE [heard EXCEPT !.rxData = p, !.hlist[p.src] = p.sn,
                           !.ifsTimer = IF Ack4Gts THEN @ ELSE now + Ifs(PayloadOf(p))]

\* A frame may be lost on a lossy channel, and is when nobody listened.
Arrives(f) == IF ~ f.heard THEN {FALSE} ELSE IF setting.lossy THEN BOOLEAN ELSE {TRUE}

DataEnds(f) ==
    /\ f.kind = "data" /\ f.end = now /\ ~ halted
    /\ \E arrives \in Arrives(f) :
          LET error == arrives /\ TimingError(f.to, f.pkt)
          IN  /\ mac' = [mac EXCEPT ![f.from] = AfterSending(f.from, f.pkt),
                                    ![f.to] = IF arrives /\ ~ error
                                              THEN AfterReceiving(f.to, f.pkt) ELSE @]
              /\ air' = (air \ {f}) \cup
                        (IF arrives /\ ~ error /\ Ack4Gts
                         THEN {[kind |-> "ack", pkt |-> f.pkt, from |-> f.to, to |-> f.from,
                                end |-> now + aTurnaroundTime + calDuration(AckBytes),
                                heard |-> TRUE]}
                         ELSE {})
              /\ halted' = error
    /\ UNCHANGED <<allocVars, beaconFor, now, beaconDue, isTxPending, delivered, succeeded>>

\* dispatch after the ACK at its sender.
AfterAck(n) ==
    IF mac[n].rxData # NoFrame
    THEN [mac[n] EXCEPT !.ifsTimer = now + Ifs(PayloadOf(mac[n].rxData)),
                        !.radio = IF n = Coord THEN "RX_ON" ELSE "TRX_OFF"]
    ELSE [mac[n] EXCEPT !.radio = IF mac[n].SDTimer # NEVER THEN "RX_ON" ELSE "TRX_OFF"]

\* handleAck and step 3: a late ACK is dropped.
AfterAcked(n, p) ==
    IF mac[n].txGTS # p \/ mac[n].ackTimeoutTimer = NEVER THEN mac[n]
    ELSE [mac[n] EXCEPT !.ackTimeoutTimer = NEVER, !.numGTSRetry = 0, !.step = 4,
                        !.radio = "TRX_OFF", !.ifsTimer = now + Ifs(PayloadOf(p))]

AckEnds(f) ==
    /\ f.kind = "ack" /\ f.end = now /\ ~ halted
    /\ \E arrives \in Arrives(f) :
          mac' = [mac EXCEPT ![f.from] = AfterAck(f.from),
                             ![f.to] = IF arrives THEN AfterAcked(f.to, f.pkt) ELSE @]
    /\ air' = air \ {f}
    /\ UNCHANGED <<vars, now, beaconDue, isTxPending, delivered, succeeded>>

\* The end of taskSuccess and taskFailed: the coordinator clears the descriptor of
\* the GTS it is in.
ClearPending(n) ==
    isTxPending' = IF n = Coord THEN isTxPending \ {mac[n].indexCurrGts} ELSE isTxPending

\* A slip: the retries are not counted.
RetriesUncounted(n) ==
    /\ mac[n].ackTimeoutTimer = now /\ ~ halted
    /\ mac' = [mac EXCEPT ![n].ackTimeoutTimer = NEVER, ![n].radio = "TRX_OFF",
                          ![n].step = 1]
    /\ UNCHANGED <<vars, now, beaconDue, isTxPending, air, delivered, succeeded>>

\* handleAckTimeoutTimer and step 3: a retry in the next superframe, or the failure.
AckTimeout(n) ==
    LET retry == mac[n].numGTSRetry < aMaxFrameRetries
    IN  /\ mac[n].ackTimeoutTimer = now /\ ~ halted
        /\ mac' = [mac EXCEPT ![n].ackTimeoutTimer = NEVER, ![n].radio = "TRX_OFF",
                              ![n].numGTSRetry = @ + 1,
                              ![n].step = IF retry THEN 1 ELSE 0,
                              ![n].txGTS = IF retry THEN @ ELSE NoFrame]
        /\ IF retry THEN UNCHANGED isTxPending ELSE ClearPending(n)
        /\ UNCHANGED <<vars, now, beaconDue, air, delivered, succeeded>>

\* handleIfsTimer: MCPS_DATA_indication, or else step 4 and taskSuccess.
Indication(n) ==
    /\ mac[n].ifsTimer = now /\ mac[n].rxData # NoFrame /\ ~ halted
    /\ mac' = [mac EXCEPT ![n].ifsTimer = NEVER, ![n].rxData = NoFrame]
    /\ delivered' = delivered \cup {mac[n].rxData}
    /\ UNCHANGED <<vars, now, beaconDue, isTxPending, air, succeeded>>

Success(n) ==
    /\ mac[n].ifsTimer = now /\ mac[n].rxData = NoFrame /\ ~ halted
    /\ mac' = [mac EXCEPT ![n].ifsTimer = NEVER, ![n].step = 0, ![n].txGTS = NoFrame]
    /\ ClearPending(n)
    /\ succeeded' = succeeded \cup {mac[n].txGTS}
    /\ UNCHANGED <<vars, now, beaconDue, air, delivered>>

-----------------------------------------------------------------------------
(* Time and the specification.                                             *)

Timers(n) ==
    {mac[n].gtsTimer, mac[n].finalCAPTimer, mac[n].SDTimer, mac[n].ifsTimer,
     mac[n].ackTimeoutTimer, mac[n].bcnRxTimer}

Moments ==
    UNION {Timers(n) : n \in Nodes} \cup {f.end : f \in air} \cup Arrivals
      \cup {BeaconEnd, BeaconInterval}

\* The next superframe: bcnRxTimer is the only timer that runs on into it.
NextSuperframe ==
    /\ now' = 0 /\ beaconDue' = TRUE
    /\ mac' = [n \in Nodes |-> [mac[n] EXCEPT
                  !.bcnRxTimer = IF @ = NEVER THEN NEVER ELSE @ - BeaconInterval]]

\* The kernel takes the next event, when nothing is left to do at this moment.
Tick ==
    LET next == Min({t \in Moments : t > now})
    IN  /\ ~ beaconDue /\ ~ halted
        /\ now \notin UNION {Timers(n) : n \in Nodes} \cup {f.end : f \in air}
        /\ now = BeaconEnd => setting.lossy \/ Listening = {}
        /\ IF next = BeaconInterval THEN NextSuperframe
           ELSE now' = next /\ UNCHANGED <<beaconDue, mac>>
        /\ UNCHANGED <<vars, isTxPending, air, delivered, succeeded>>

\* The events of the simulation; the upper layer is the environment.
Events ==
    /\ UNCHANGED setting
    /\ \/ TransmitBeacon \/ CoordGts \/ Tick
       \/ \E d \in Devices :
             ReceiveBeacon(d) \/ BeaconExpected(d) \/ FinalCap(d) \/ DeviceGtsStart(d)
               \/ DeviceGtsEnd(d)
       \/ \E n \in Nodes : SuperframeEnds(n) \/ AckTimeout(n) \/ Indication(n) \/ Success(n)
       \/ \E f \in air : DataEnds(f) \/ AckEnds(f)

Data == UNCHANGED setting /\ \E d \in Devices : DataFromDevice(d) \/ DataFromCoord(d)

\* After error() nothing happens any more.
Stopped == halted /\ UNCHANGED transferVars

TransferNext == Events \/ Data \/ Stopped

\* Until then the simulation goes on.  The upper layer hands down finitely many
\* packets, so the events of the MAC go on.
TransferSpec ==
    /\ TransferInit /\ [][TransferNext]_transferVars
    /\ WF_transferVars(TransferNext)

-----------------------------------------------------------------------------
\* The errors of handleLowerMsg, "timing error, PAN coordinator is not supposed to
\* receive this DATA pkt at this time!" and the like, on data outside of its GTS: the
\* coordinator never raises one, and a device does only in a superframe whose beacon
\* it has missed, its receiver on since handleBcnRxTimer.  Otherwise the simulation
\* only stops on a request for a GTS that is refused.
TimingErrors ==
    [][halted' =>
          \/ \E d \in Devices : notAssociated[d] /\ ~ notAssociated'[d]
          \/ \E f \in air \ air' : /\ f.to \in Recv /\ setting.lossy
                                    /\ mac[f.to].SDTimer = NEVER]_halted

\* "timing is already guaranteed when allocating GTS": from the start of the frame
\* to the end of the IFS a transaction stays in its own GTS.  The assertions of
\* taskSuccess and taskFailed on isTxPending follow.
TaskInItsGts ==
    \A n \in Nodes : mac[n].step > 1 =>
        IF n = Coord
        THEN /\ mac[n].indexCurrGts \in isTxPending
             /\ gtsList[mac[n].indexCurrGts + 1].devShortAddr = mac[n].txGTS.dst
        ELSE mac[n].index_gtsTimer = 99

\* The slots keep the nodes apart: there are never two frames on the channel,
\* whichever beacons were missed and whenever data was handed down.
NoCollision == Cardinality(air) <= 1

Sender ==
    [p \in Packets |-> IF p \in succeeded THEN "confirmed"
                       ELSE IF mac[p.src].txGTS = p THEN "taken" ELSE "out"]

Receiver ==
    [p \in Packets |-> IF mac[p.dst].rxData = p THEN "held"
                       ELSE IF p \in delivered THEN "indicated" ELSE "no"]

Transfer == INSTANCE PacketTransfer WITH sender <- Sender, receiver <- Receiver

\* The duplicate list and the order of handleLowerMsg: retries after a lost ACK do
\* not reach the upper layer twice, and what taskSuccess confirms was accepted.
RefinesTransfer == Transfer!Spec

\* "time out when waiting for ack, normally impossible in GTS": on a channel that
\* loses nothing no data is ever sent twice.
NoTimeout == ~ setting.lossy => \A n \in Nodes : mac[n].numGTSRetry = 0

\* Every node gets rid of its data: it is confirmed, or given up after the retries,
\* unless an error has stopped the simulation.  When beacons may be lost, this holds
\* of a node that goes on getting some (the coordinator sends them).
TaskEnds ==
    \A n \in Nodes :
        (setting.lossy => []<>(mac[n].SDTimer # NEVER)) =>
            (mac[n].txGTS # NoFrame ~> mac[n].txGTS = NoFrame \/ halted)

=============================================================================
