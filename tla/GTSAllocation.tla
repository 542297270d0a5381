--------------------------- MODULE GTSAllocation ---------------------------
(***************************************************************************)
(* Association and the allocation of guaranteed time slots in              *)
(* srwsn802154MAC.cc.  The PAN coordinator announces in each beacon the    *)
(* last slot of the contention access period (CAP).  A device associates   *)
(* on the first beacon it receives, asks for its GTS in the same handler,  *)
(* and starts to use it on the next beacon it receives.  A beacon may be   *)
(* lost for any device.                                                    *)
(***************************************************************************)
EXTENDS GTSTiming, Sequences

CONSTANTS
    Devices,    \* short addresses
    Payload,    \* gtsPayload of each device
    Recv,       \* the devices whose isRecvGTS is true
    ListSize    \* the room in gtsList, 7 in the code

ASSUME AllocationAssumption ==
    /\ Payload \in [Devices -> Nat]
    /\ Recv \subseteq Devices
    /\ ListSize \in Nat

VARIABLES
    deviceList,     \* coordinator: the associated devices
    gtsList,        \* coordinator: the first gtsCount descriptors
    tmp_finalCap,   \* coordinator: the last slot of the CAP of the next beacon
    txFinalCap,     \* coordinator: txSfSpec.finalCap of the last beacon
    beaconFor,      \* the devices that may still receive the last beacon
    notAssociated, gtsStartSlot, rxFinalCap,    \* per device
    gtsTracked,     \* per device: a beacon has started its gtsTimer
    halted          \* error() has ended the simulation

coordVars == <<deviceList, gtsList, tmp_finalCap>>
deviceVars == <<notAssociated, gtsStartSlot, rxFinalCap, gtsTracked>>
vars == <<coordVars, txFinalCap, beaconFor, deviceVars, halted>>

Init ==
    /\ deviceList = {}
    /\ gtsList = <<>>
    /\ tmp_finalCap = aNumSuperframeSlots - 1
    /\ txFinalCap = 0
    /\ beaconFor = {}
    /\ notAssociated = [d \in Devices |-> TRUE]
    /\ gtsStartSlot = [d \in Devices |-> 0]
    /\ rxFinalCap = [d \in Devices |-> 0]
    /\ gtsTracked = [d \in Devices |-> FALSE]
    /\ halted = FALSE

\* t_cap is a UINT_32: below zero the number of slots wraps to a huge length.
CapTooShort(slots) == slots >= 0 /\ SlotDuration * slots < aMinCAPLength

Descriptor(d, start, length) ==
    [devShortAddr |-> d, startSlot |-> start, length |-> length, isRecvGTS |-> d \in Recv]

gtsGranted(d, length) ==
    /\ d \in deviceList'
    /\ Len(gtsList) < ListSize
    /\ ~ CapTooShort(tmp_finalCap - length + 1)

\* Slips: the GTS starts on the last slot of the CAP; only the device is told so.
RequestEarly(d, length) ==
    IF gtsGranted(d, length)
    THEN /\ tmp_finalCap' = (tmp_finalCap - length) % UINT_8
         /\ gtsList' = Append(gtsList, Descriptor(d, tmp_finalCap', length))
         /\ gtsStartSlot' = [gtsStartSlot EXCEPT ![d] = tmp_finalCap']
    ELSE /\ gtsStartSlot' = [gtsStartSlot EXCEPT ![d] = 0]
         /\ UNCHANGED <<gtsList, tmp_finalCap>>

RequestToldEarly(d, length) ==
    IF gtsGranted(d, length)
    THEN /\ tmp_finalCap' = (tmp_finalCap - length) % UINT_8
         /\ gtsList' = Append(gtsList, Descriptor(d, tmp_finalCap' + 1, length))
         /\ gtsStartSlot' = [gtsStartSlot EXCEPT ![d] = tmp_finalCap']
    ELSE /\ gtsStartSlot' = [gtsStartSlot EXCEPT ![d] = 0]
         /\ UNCHANGED <<gtsList, tmp_finalCap>>

\* The coordinator serves a request; the device stores the start slot returned.
gts_request_cmd(d, length) ==
    IF gtsGranted(d, length)
    THEN LET startSlot == (tmp_finalCap' + 1) % UINT_8
         IN  /\ tmp_finalCap' = (tmp_finalCap - length) % UINT_8
             /\ gtsList' = Append(gtsList, Descriptor(d, startSlot, length))
             /\ gtsStartSlot' = [gtsStartSlot EXCEPT ![d] = startSlot]
    ELSE /\ gtsStartSlot' = [gtsStartSlot EXCEPT ![d] = 0]
         /\ UNCHANGED <<gtsList, tmp_finalCap>>

associate_request_cmd(d) == deviceList' = deviceList \cup {d}

\* handleBcnTxTimer: the new last slot takes effect with the next beacon.
TxBeaconSpec ==
    /\ txFinalCap' = tmp_finalCap
    /\ beaconFor' = Devices

\* A slip of FirstBeacon: the GTS is used before a beacon announces it.
FirstBeaconUsed(d) ==
    /\ notAssociated[d]
    /\ notAssociated' = [notAssociated EXCEPT ![d] = FALSE]
    /\ associate_request_cmd(d)
    /\ gts_request_cmd(d, gtsLength(Payload[d]))
    /\ halted' = (gtsStartSlot'[d] = 0)
    /\ gtsTracked' = [gtsTracked EXCEPT ![d] = ~ halted']

\* handleBeacon in GTS mode, on the first beacon of d: a refused request is an error.
FirstBeacon(d) ==
    /\ notAssociated[d]
    /\ notAssociated' = [notAssociated EXCEPT ![d] = FALSE]
    /\ associate_request_cmd(d)
    /\ gts_request_cmd(d, gtsLength(Payload[d]))
    /\ halted' = (gtsStartSlot'[d] = 0)
    /\ UNCHANGED gtsTracked

\* handleBeacon on the beacons after it.
LaterBeacon(d) ==
    /\ ~ notAssociated[d]
    /\ gtsTracked' = [gtsTracked EXCEPT ![d] = gtsStartSlot[d] # 0]
    /\ UNCHANGED <<coordVars, notAssociated, gtsStartSlot, halted>>

handleBeacon(d) ==
    /\ d \in beaconFor
    /\ beaconFor' = beaconFor \ {d}
    /\ rxFinalCap' = [rxFinalCap EXCEPT ![d] = txFinalCap]
    /\ FirstBeacon(d) \/ LaterBeacon(d)
    /\ UNCHANGED txFinalCap

TxBeacon ==
    /\ ~ halted
    /\ TxBeaconSpec
    /\ UNCHANGED <<coordVars, deviceVars, halted>>

RxBeacon(d) == ~ halted /\ handleBeacon(d)

Next == TxBeacon \/ \E d \in Devices : RxBeacon(d)

Spec == Init /\ [][Next]_vars

-----------------------------------------------------------------------------
Slots == 0..(UINT_8 - 1)

\* The variables keep their types; the list never outgrows gtsList.
AllocationTypeOK ==
    /\ deviceList \subseteq Devices
    /\ gtsList \in Seq([devShortAddr : Devices, startSlot : Slots,
                        length : Slots, isRecvGTS : BOOLEAN])
    /\ Len(gtsList) <= ListSize
    /\ tmp_finalCap \in Slots /\ txFinalCap \in Slots
    /\ beaconFor \subseteq Devices
    /\ notAssociated \in [Devices -> BOOLEAN]
    /\ gtsStartSlot \in [Devices -> Slots]
    /\ rxFinalCap \in [Devices -> Slots]
    /\ gtsTracked \in [Devices -> BOOLEAN]
    /\ halted \in BOOLEAN

\* The GTSs granted by gts_request_cmd fit in gtsList, follow one another downwards
\* from the end of the superframe and start right behind the CAP, so that no two of
\* them overlap.
GTSsDisjoint ==
    LET end(i) == gtsList[i].startSlot + gtsList[i].length
    IN  /\ Len(gtsList) <= ListSize
        /\ \A i \in DOMAIN gtsList :
               end(i) = (IF i = 1 THEN aNumSuperframeSlots ELSE gtsList[i-1].startSlot)
        /\ tmp_finalCap + 1 = (IF gtsList = <<>> THEN aNumSuperframeSlots
                               ELSE gtsList[Len(gtsList)].startSlot)

\* "check if the min CAP length can still be satisfied after this allocation":
\* every GTS lies in the superframe and leaves aMinCAPLength symbols before it.
MinCAPKept ==
    \A i \in DOMAIN gtsList :
        /\ SlotDuration * gtsList[i].startSlot >= aMinCAPLength
        /\ gtsList[i].startSlot + gtsList[i].length <= aNumSuperframeSlots

\* "each device can have at most one GTS", and the device and the coordinator
\* agree on its place.
GTSsAgree ==
    \A d \in Devices :
        LET mine == {i \in DOMAIN gtsList : gtsList[i].devShortAddr = d}
        IN  IF gtsStartSlot[d] = 0 THEN mine = {}
            ELSE \E i \in mine : /\ mine = {i}
                                 /\ gtsList[i].startSlot = gtsStartSlot[d]
                                 /\ gtsList[i].length = gtsLength(Payload[d])

\* The assertions of handleBeacon and handleFinalCapTimer: a device that uses its
\* GTS has heard of a CAP that ends before it, whichever beacons it has missed.
CapBeforeGTS ==
    \A d \in Devices : gtsTracked[d] => gtsStartSlot[d] > rxFinalCap[d]

=============================================================================
