---------------------------- MODULE SlottedCSMA ----------------------------
(***************************************************************************)
(* Slotted CSMA-CA of srwsn802154MAC.cc, for data that a node sends in the *)
(* contention access period (CAP).  An operator takes the members m of the *)
(* MAC, the time and, where the code draws a random backoff, the draw r,   *)
(* and gives the members after the call.  m.out holds the messages that    *)
(* the handler has sent so far, m.error the error that ends the program.    *)
(* Time is in symbols from the start of the superframe, at which the       *)
(* coordinator starts its beacon (macBeaconTxTime of the coordinator,      *)
(* schedBcnRxTime of a device).                                            *)
(***************************************************************************)
EXTENDS GTSTiming, RadioPHY, FiniteSetsExt

CONSTANTS
    Coord,      \* the PAN coordinator
    Devices

Nodes == Devices \cup {Coord}
NoFrame == [src |-> Coord, dst |-> Coord, sn |-> 0, payload |-> 0]

aUnitBackoffPeriod == 20
aMaxBE == 5
macMinBE == 3
macMaxCSMABackoffs == 4
aMaxLostBeacons == 4

\* finalCap is 15 without GTSs, so that the CAP is the whole active period.
CapEnd == aNumSuperframeSlots * SlotDuration

BeaconBytes == 13

\* txBcnDuration and rxBcnDuration: a beacon and the SIFS, in backoff periods.
BcnDuration ==
    (calDuration(BeaconBytes) + 12 + aUnitBackoffPeriod - 1) \div aUnitBackoffPeriod

\* The time of a data frame, of an ACK and of a beacon.
FrameTime(kind, p) ==
    calDuration(CASE kind = "data" -> DataBytes(p.payload)
                  [] kind = "ack" -> AckBytes
                  [] kind = "beacon" -> BeaconBytes)

-----------------------------------------------------------------------------
(* Messages and timers.                                                    *)

SendOut(m, msg) == [m EXCEPT !.out = Append(@, msg)]

PLME_SET_TRX_STATE_request(m, state) ==
    SendOut([m EXCEPT !.trx_state_req = state],
            [to |-> "phy", kind |-> "TRX", status |-> state])

PLME_CCA_request(m) == SendOut(m, [to |-> "phy", kind |-> "CCA"])

AssertThat(m, condition) == IF condition THEN m ELSE [m EXCEPT !.error = "ASSERT"]

\* A timer without delay fires behind the messages that are already under way.
startBackoffTimer(m, now, wtime) ==
    LET started == [m EXCEPT !.timer.backoff = now + wtime]
    IN  IF wtime = 0 THEN SendOut(started, [to |-> "mac", kind |-> "backoff"])
        ELSE started

-----------------------------------------------------------------------------
(* The algorithm.                                                          *)

\* The first boundary of backoff periods from now + wtime on.
csmacaLocateBoundary(now, wtime) ==
    wtime + ((-(now + wtime)) % aUnitBackoffPeriod)

\* A backoff does not end during the beacon.
csmacaAdjustTime(now, wtime) == Max({wtime, BcnDuration * aUnitBackoffPeriod - now})

csmacaReset(m) == [m EXCEPT !.NB = 0, !.CW = 2, !.BE = macMinBE]

\* The end of the CAP.  For a device that has missed too many beacons there is none.
getFinalCAP(m) == IF m.isPANCoor \/ m.lost <= aMaxLostBeacons THEN {CapEnd} ELSE {}

\* The time that csmacaCanProceed takes for the transaction, ACK and IFS included.
TransacTime(m, now, afterCCA) ==
    LET ccas == IF afterCCA THEN 0 ELSE csmacaLocateBoundary(now, CCATime) + CCATime
    IN  csmacaLocateBoundary(now, ccas) + FrameTime("data", m.txData)
          + macAckWaitDuration + Ifs(m.txData.payload)

\* A slip of csmacaCanProceed: the transaction is not checked against the end of the CAP.
ProceedsInCap(m, now, wtime, afterCCA) ==
    LET left == (now + csmacaLocateBoundary(now, wtime)) \div aUnitBackoffPeriod
                  - CapEnd \div aUnitBackoffPeriod
    IN  IF now >= CapEnd \/ left >= 0
        THEN [m EXCEPT !.csmacaWaitNextBeacon = TRUE, !.bPeriodsLeft = 0]
        ELSE [m EXCEPT !.csmacaWaitNextBeacon = FALSE, !.bPeriodsLeft = -1]

\* It may proceed when csmacaWaitNextBeacon is FALSE afterwards.
csmacaCanProceed(m, now, wtime, afterCCA) ==
    LET start == now + csmacaLocateBoundary(now, wtime)
        left == start \div aUnitBackoffPeriod - CapEnd \div aUnitBackoffPeriod
        fits == \A cap \in getFinalCAP(m) : start + TransacTime(m, now, afterCCA) <= cap
        wait(periods) == [m EXCEPT !.csmacaWaitNextBeacon = TRUE, !.bPeriodsLeft = periods]
    IN  CASE now >= CapEnd -> wait(0)
          [] now < CapEnd /\ left >= 0 -> wait(left)
          [] now < CapEnd /\ left < 0 /\ ~ fits -> wait(0)
          [] OTHER -> [m EXCEPT !.csmacaWaitNextBeacon = FALSE, !.bPeriodsLeft = -1]

\* The backoff, of the periods drawn or of those left over from the last superframe.
TryBackoff(m, now, wtime) ==
    LET checked == csmacaCanProceed(m, now, wtime, FALSE)
    IN  IF checked.csmacaWaitNextBeacon THEN checked
        ELSE startBackoffTimer(checked, now, wtime)

\* A pending ACK comes first.
csmacaStart(m, now, firsttime, r) ==
    LET entered == AssertThat(IF firsttime
                          THEN [AssertThat(csmacaReset(m), ~ m.tmpCsmaca) EXCEPT !.tmpCsmaca = TRUE]
                          ELSE m, m.timer.backoff = NEVER)
        drawn == csmacaAdjustTime(now, (r % 2^entered.BE) * aUnitBackoffPeriod)
    IN  IF m.txAck # NoFrame THEN [m EXCEPT !.backoffStatus = 0, !.tmpCsmaca = FALSE]
        ELSE TryBackoff(entered, now,
                        IF firsttime THEN csmacaLocateBoundary(now, drawn) ELSE drawn)

\* Nothing to do for data whose ACK is awaited (waitDataAck, step 3 of the task).
csmacaResume(m, now, r) ==
    IF m.backoffStatus = 99 \/ m.inTransmission \/ m.txData = NoFrame \/ m.step = 3 THEN m
    ELSE csmacaStart([m EXCEPT !.step = 1, !.backoffStatus = 99, !.txCsmaca = m.txData],
                     now, TRUE, r)

\* A slip of csmacaCancel: only the timers are cancelled.
TimersCancelled(m) ==
    [m EXCEPT !.timer = [@ EXCEPT !.backoff = NEVER, !.deferCCA = NEVER]]

csmacaCancel(m) ==
    [m EXCEPT !.tmpCsmaca = FALSE,
              !.timer = IF m.timer.backoff # NEVER THEN [@ EXCEPT !.backoff = NEVER]
                        ELSE [@ EXCEPT !.deferCCA = NEVER],
              !.TP_CCA_CSMACA = /\ @
                                /\ m.timer.backoff # NEVER \/ m.timer.deferCCA # NEVER]

\* csmacaCallBack, dispatch and step 1 of FSM_MCPS_DATA_request.
csmacaCallBack(m, now, status, r) ==
    LET checked == AssertThat(m, m.step = 1)
    IN  IF m.txData = NoFrame \/ m.step = 3 THEN m
        ELSE IF status = "IDLE"
        THEN PLME_SET_TRX_STATE_request([checked EXCEPT !.backoffStatus = 1, !.step = 2],
                                        "TX_ON")
        ELSE csmacaResume([checked EXCEPT !.backoffStatus = 2], now, r)

-----------------------------------------------------------------------------
(* The answers of the radio, timers and the beacon.                        *)

\* Before every clear channel assessment (CCA) the receiver is turned on.
handleBackoffTimer(m) ==
    PLME_SET_TRX_STATE_request([m EXCEPT !.TP_RX_ON_CSMACA = TRUE], "RX_ON")

handleDeferCCATimer(m) == PLME_CCA_request([m EXCEPT !.TP_CCA_CSMACA = TRUE])

csmaca_handle_RX_ON_confirm(m, now, status) ==
    LET wtime == csmacaLocateBoundary(now, 0)
    IN  CASE status = "BUSY_TX" -> [m EXCEPT !.TP_RX_ON_CSMACA = TRUE]
          [] status \notin {"BUSY_TX", "RX_ON"} -> handleBackoffTimer(m)
          [] status = "RX_ON" /\ wtime = 0 -> handleDeferCCATimer(m)
          [] OTHER -> [m EXCEPT !.timer.deferCCA = now + wtime]

\* A slip of ChannelIdle: one assessment is enough.
IdleOnce(m, now, r) ==
    LET checked == csmacaCanProceed(m, now, 0, TRUE)
    IN  IF checked.csmacaWaitNextBeacon THEN [checked EXCEPT !.CW = 2, !.bPeriodsLeft = 0]
        ELSE csmacaCallBack([checked EXCEPT !.tmpCsmaca = FALSE], now, "IDLE", r)

\* The channel was idle: twice in a row is enough, if the CAP still is long enough.
ChannelIdle(m, now, r) ==
    LET once == [m EXCEPT !.CW = @ - 1]
        checked == csmacaCanProceed(once, now, 0, TRUE)
    IN  IF once.CW # 0 THEN handleBackoffTimer(once)
        ELSE IF checked.csmacaWaitNextBeacon THEN [checked EXCEPT !.CW = 2, !.bPeriodsLeft = 0]
        ELSE csmacaCallBack([checked EXCEPT !.tmpCsmaca = FALSE], now, "IDLE", r)

ChannelBusy(m, now, r) ==
    LET again == [m EXCEPT !.CW = 2, !.NB = @ + 1]
    IN  IF again.NB > macMaxCSMABackoffs
        THEN csmacaCallBack([again EXCEPT !.tmpCsmaca = FALSE], now, "BUSY", r)
        ELSE csmacaStart([again EXCEPT !.BE = Min({@ + 1, aMaxBE})], now, FALSE, r)

handle_PLME_CCA_confirm(m, now, status, r) ==
    LET done == [m EXCEPT !.TP_CCA_CSMACA = FALSE]
    IN  IF ~ m.TP_CCA_CSMACA THEN m
        ELSE IF status = "IDLE" THEN ChannelIdle(done, now, r)
        ELSE ChannelBusy(done, now, r)

\* A beacon was sent or received while CSMA-CA is under way.
csmacaTrxBeacon(m, now, r) ==
    LET reset == csmacaReset(IF m.txAck = NoFrame THEN PLME_SET_TRX_STATE_request(m, "RX_ON")
                             ELSE m)
        resumed == AssertThat(reset, m.bPeriodsLeft >= 0)
    IN  IF ~ (m.csmacaWaitNextBeacon /\ m.tmpCsmaca /\ m.timer.backoff = NEVER)
        THEN [reset EXCEPT !.csmacaWaitNextBeacon = FALSE]
        ELSE IF m.bPeriodsLeft = 0 THEN csmacaStart(resumed, now, FALSE, r)
        ELSE TryBackoff(resumed, now, m.bPeriodsLeft * aUnitBackoffPeriod)

=============================================================================
