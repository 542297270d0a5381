------------------------ MODULE GTSAllocationProofs ------------------------
(***************************************************************************)
(* Proofs about GTSAllocation, for any devices, any payloads and any       *)
(* superframe order.  The hypothesis Fits says that the transaction of     *)
(* each device is no longer than the least CAP; it holds for every payload *)
(* of up to 102 bytes in the 2.4 GHz band.  Without it the UINT_32 of      *)
(* gts_request_cmd can wrap.                                               *)
(***************************************************************************)
EXTENDS GTSAllocation, TLAPS

Fits == \A d \in Devices : gtsTransDuration(Payload[d]) <= aMinCAPLength

\* The length asked for has no slot to spare.
LEMMA LengthBound ==
    ASSUME NEW d \in Devices, Fits
    PROVE  /\ gtsLength(Payload[d]) \in 1..8
           /\ (gtsLength(Payload[d]) - 1) * SlotDuration < aMinCAPLength
<1> DEFINE dur == gtsTransDuration(Payload[d])
           q == dur \div SlotDuration
<1>1. dur \in Nat /\ dur <= 440 /\ dur > 0
  BY TimingAssumption, AllocationAssumption
     DEF Fits, gtsTransDuration, calDuration, DataBytes, Ifs, aMinCAPLength,
         macAckWaitDuration, aTurnaroundTime
<1>2. SlotDuration \in Nat /\ SlotDuration >= 60
  BY TimingAssumption
<1> HIDE DEF dur
<1>3. /\ q \in Nat
      /\ q * SlotDuration <= dur
      /\ dur % SlotDuration > 0 => q * SlotDuration < dur
      /\ dur >= SlotDuration => q >= 1
  BY <1>1, <1>2
<1>4. q <= 7
  BY <1>1, <1>2, <1>3
<1> HIDE DEF q
<1>5. q % 256 = q /\ (q + 1) % 256 = q + 1
  BY <1>3, <1>4
<1>6. gtsLength(Payload[d]) = IF dur < SlotDuration THEN 1
                              ELSE IF dur % SlotDuration > 0 THEN q + 1 ELSE q
  BY <1>5 DEF gtsLength, dur, q, UINT_8
<1>7. CASE dur < SlotDuration
  BY <1>7, <1>6, <1>2 DEF aMinCAPLength
<1>8. CASE dur >= SlotDuration /\ dur % SlotDuration > 0
  BY <1>8, <1>1, <1>2, <1>3, <1>4, <1>6 DEF aMinCAPLength
<1>9. CASE dur >= SlotDuration /\ ~ (dur % SlotDuration > 0)
  <2>1. (q - 1) * SlotDuration < q * SlotDuration
    BY <1>2, <1>3
  <2> QED
    BY <1>9, <2>1, <1>1, <1>2, <1>3, <1>4, <1>6 DEF aMinCAPLength
<1> QED
  BY <1>1, <1>2, <1>6, <1>7, <1>8, <1>9

\* The inductive invariant.  The CAP that is left holds aMinCAPLength symbols, and
\* a GTS lies behind the CAP of the next beacon and behind that of any beacon its
\* device can still receive.
AllocInv ==
    /\ AllocationTypeOK
    /\ GTSsDisjoint /\ MinCAPKept /\ GTSsAgree
    /\ tmp_finalCap < aNumSuperframeSlots
    /\ SlotDuration * (tmp_finalCap + 1) >= aMinCAPLength
    /\ \A d \in Devices :
          /\ notAssociated[d] => gtsStartSlot[d] = 0
          /\ gtsStartSlot[d] # 0 =>
                /\ tmp_finalCap < gtsStartSlot[d]
                /\ d \in beaconFor => txFinalCap < gtsStartSlot[d]
          /\ gtsTracked[d] => gtsStartSlot[d] # 0 /\ rxFinalCap[d] < gtsStartSlot[d]

\* A GTS that is granted takes its slots from the end of the CAP.
LEMMA Granted ==
    ASSUME NEW d \in Devices, Fits, AllocInv, gtsGranted(d, gtsLength(Payload[d]))
    PROVE  /\ tmp_finalCap - gtsLength(Payload[d]) \in 0..14
           /\ SlotDuration * (tmp_finalCap - gtsLength(Payload[d]) + 1) >= aMinCAPLength
<1> DEFINE len == gtsLength(Payload[d])
<1>1. len \in 1..8 /\ (len - 1) * SlotDuration < 440
  BY LengthBound DEF aMinCAPLength
<1>2. SlotDuration \in Nat /\ SlotDuration >= 60
  BY TimingAssumption
<1>3. tmp_finalCap \in 0..15 /\ SlotDuration * (tmp_finalCap + 1) >= 440
  BY DEF AllocInv, AllocationTypeOK, Slots, UINT_8, aMinCAPLength, aNumSuperframeSlots
<1>4. ~ CapTooShort(tmp_finalCap - len + 1)
  BY DEF gtsGranted
<1> HIDE DEF len
<1>5. (len - 1) * SlotDuration < (tmp_finalCap + 1) * SlotDuration
  BY <1>1, <1>2, <1>3
<1>6. len - 1 < tmp_finalCap + 1
  BY <1>1, <1>2, <1>3, <1>5
<1>7. SlotDuration * (tmp_finalCap - len + 1) >= 440
  BY <1>1, <1>2, <1>3, <1>4, <1>6 DEF CapTooShort, aMinCAPLength
<1>8. tmp_finalCap - len + 1 # 0
  BY <1>2, <1>7
<1> QED
  BY <1>1, <1>3, <1>6, <1>7, <1>8 DEF len, aMinCAPLength

LEMMA InitInv == Init => AllocInv
<1> SUFFICES ASSUME Init PROVE AllocInv
  OBVIOUS
<1>1. gtsList = <<>> /\ DOMAIN gtsList = {} /\ Len(gtsList) = 0
  BY DEF Init
<1>2. AllocationTypeOK
  <2>1. 0 \in Slots /\ 15 \in Slots
    BY DEF Slots, UINT_8
  <2>2. gtsList \in Seq([devShortAddr : Devices, startSlot : Slots,
                         length : Slots, isRecvGTS : BOOLEAN])
    BY <1>1
  <2>3. tmp_finalCap = 15 /\ Len(gtsList) <= ListSize
    BY <1>1, AllocationAssumption DEF Init, aNumSuperframeSlots
  <2>4. /\ deviceList \subseteq Devices /\ beaconFor \subseteq Devices
        /\ notAssociated \in [Devices -> BOOLEAN] /\ gtsTracked \in [Devices -> BOOLEAN]
        /\ gtsStartSlot \in [Devices -> Slots] /\ rxFinalCap \in [Devices -> Slots]
        /\ txFinalCap \in Slots /\ halted \in BOOLEAN
    BY <2>1 DEF Init
  <2> QED
    BY <2>1, <2>2, <2>3, <2>4 DEF AllocationTypeOK
<1>3. GTSsDisjoint /\ MinCAPKept
  BY <1>1, AllocationAssumption DEF Init, GTSsDisjoint, MinCAPKept, aNumSuperframeSlots
<1>4. GTSsAgree
  BY <1>1 DEF Init, GTSsAgree
<1>5. SlotDuration * (tmp_finalCap + 1) >= aMinCAPLength
  BY TimingAssumption DEF Init, aNumSuperframeSlots, aMinCAPLength
<1> QED
  BY <1>2, <1>3, <1>4, <1>5 DEF Init, AllocInv, aNumSuperframeSlots

LEMMA TxBeaconInv == AllocInv /\ TxBeacon => AllocInv'
<1> SUFFICES ASSUME AllocInv, TxBeacon PROVE AllocInv'
  OBVIOUS
<1>1. /\ txFinalCap' = tmp_finalCap /\ beaconFor' = Devices
      /\ UNCHANGED <<deviceList, gtsList, tmp_finalCap, notAssociated, gtsStartSlot,
                     rxFinalCap, gtsTracked, halted>>
  BY DEF TxBeacon, TxBeaconSpec, coordVars, deviceVars
<1>2. AllocationTypeOK'
  BY <1>1 DEF AllocInv, AllocationTypeOK
<1>3. GTSsDisjoint' /\ MinCAPKept' /\ GTSsAgree'
  BY <1>1 DEF AllocInv, GTSsDisjoint, MinCAPKept, GTSsAgree
<1> QED
  BY <1>1, <1>2, <1>3 DEF AllocInv

LEMMA LaterBeaconInv ==
    ASSUME NEW d \in Devices, AllocInv, handleBeacon(d), LaterBeacon(d)
    PROVE  AllocInv'
<1>1. /\ d \in beaconFor /\ beaconFor' = beaconFor \ {d}
      /\ rxFinalCap' = [rxFinalCap EXCEPT ![d] = txFinalCap]
      /\ gtsTracked' = [gtsTracked EXCEPT ![d] = gtsStartSlot[d] # 0]
      /\ UNCHANGED <<deviceList, gtsList, tmp_finalCap, txFinalCap, notAssociated,
                     gtsStartSlot, halted>>
  BY DEF handleBeacon, LaterBeacon, coordVars
<1>2. AllocationTypeOK'
  BY <1>1 DEF AllocInv, AllocationTypeOK
<1>3. GTSsDisjoint' /\ MinCAPKept' /\ GTSsAgree'
  BY <1>1 DEF AllocInv, GTSsDisjoint, MinCAPKept, GTSsAgree
<1>4. ASSUME NEW e \in Devices, gtsTracked'[e]
      PROVE  gtsStartSlot'[e] # 0 /\ rxFinalCap'[e] < gtsStartSlot'[e]
  BY <1>1, <1>4 DEF AllocInv, AllocationTypeOK
<1> QED
  BY <1>1, <1>2, <1>3, <1>4 DEF AllocInv

\* A request that is refused leaves the coordinator as it was.
LEMMA RefusedInv ==
    ASSUME NEW d \in Devices, AllocInv, handleBeacon(d), FirstBeacon(d),
           ~ gtsGranted(d, gtsLength(Payload[d]))
    PROVE  AllocInv'
<1>1. /\ d \in beaconFor /\ beaconFor' = beaconFor \ {d}
      /\ rxFinalCap' = [rxFinalCap EXCEPT ![d] = txFinalCap]
      /\ notAssociated[d] /\ notAssociated' = [notAssociated EXCEPT ![d] = FALSE]
      /\ deviceList' = deviceList \cup {d}
      /\ gtsStartSlot' = [gtsStartSlot EXCEPT ![d] = 0]
      /\ halted' \in BOOLEAN
      /\ UNCHANGED <<gtsList, tmp_finalCap, txFinalCap, gtsTracked>>
  BY DEF handleBeacon, FirstBeacon, gts_request_cmd, associate_request_cmd
<1>2. gtsStartSlot[d] = 0 /\ gtsStartSlot' = gtsStartSlot
  BY <1>1 DEF AllocInv, AllocationTypeOK
<1>3. AllocationTypeOK'
  BY <1>1, <1>2 DEF AllocInv, AllocationTypeOK
<1>4. GTSsDisjoint' /\ MinCAPKept' /\ GTSsAgree'
  BY <1>1, <1>2 DEF AllocInv, GTSsDisjoint, MinCAPKept, GTSsAgree
<1>5. ASSUME NEW e \in Devices, gtsTracked'[e]
      PROVE  rxFinalCap'[e] < gtsStartSlot'[e]
  BY <1>1, <1>2, <1>5 DEF AllocInv, AllocationTypeOK
<1> QED
  BY <1>1, <1>2, <1>3, <1>4, <1>5 DEF AllocInv, AllocationTypeOK

LEMMA GrantedInv ==
    ASSUME NEW d \in Devices, Fits, AllocInv, handleBeacon(d), FirstBeacon(d),
           gtsGranted(d, gtsLength(Payload[d]))
    PROVE  AllocInv'
<1> DEFINE len == gtsLength(Payload[d])
           start == tmp_finalCap - len + 1
           new == Descriptor(d, start, len)
<1>1. /\ len \in 1..8 /\ tmp_finalCap - len \in 0..14
      /\ SlotDuration * start >= aMinCAPLength
  BY LengthBound, Granted
<1> HIDE DEF len
<1>2. (tmp_finalCap - len) % UINT_8 = tmp_finalCap - len
  BY <1>1 DEF UINT_8
<1>3. (tmp_finalCap - len + 1) % UINT_8 = tmp_finalCap - len + 1
  BY <1>1 DEF UINT_8
<1>4. /\ d \in beaconFor /\ beaconFor' = beaconFor \ {d}
      /\ rxFinalCap' = [rxFinalCap EXCEPT ![d] = txFinalCap]
      /\ notAssociated[d] /\ notAssociated' = [notAssociated EXCEPT ![d] = FALSE]
      /\ deviceList' = deviceList \cup {d}
      /\ halted' \in BOOLEAN
      /\ UNCHANGED <<txFinalCap, gtsTracked>>
  BY DEF handleBeacon, FirstBeacon, associate_request_cmd
<1>5. /\ tmp_finalCap' = tmp_finalCap - len
      /\ gtsList' = Append(gtsList, new)
      /\ gtsStartSlot' = [gtsStartSlot EXCEPT ![d] = start]
  BY <1>2, <1>3 DEF FirstBeacon, gts_request_cmd, len
<1>6. tmp_finalCap \in 0..15 /\ start \in 1..15
  BY <1>1 DEF AllocInv, AllocationTypeOK, Slots, UINT_8, aNumSuperframeSlots
<1>7. gtsList \in Seq([devShortAddr : Devices, startSlot : Slots,
                       length : Slots, isRecvGTS : BOOLEAN])
  BY DEF AllocInv, AllocationTypeOK
<1>8. /\ new \in [devShortAddr : Devices, startSlot : Slots,
                  length : Slots, isRecvGTS : BOOLEAN]
      /\ new.devShortAddr = d /\ new.startSlot = start /\ new.length = len
  BY <1>1, <1>6 DEF Descriptor, Slots, UINT_8
<1> HIDE DEF new
<1>9. /\ DOMAIN gtsList' = 1..(Len(gtsList) + 1) /\ Len(gtsList') = Len(gtsList) + 1
      /\ DOMAIN gtsList = 1..Len(gtsList) /\ Len(gtsList) \in Nat
      /\ \A i \in DOMAIN gtsList : gtsList'[i] = gtsList[i]
      /\ gtsList'[Len(gtsList) + 1] = new
      /\ gtsList' # <<>>
  BY <1>5, <1>7, <1>8
<1>10. AllocationTypeOK'
  <2>1. gtsList' \in Seq([devShortAddr : Devices, startSlot : Slots,
                          length : Slots, isRecvGTS : BOOLEAN])
    BY <1>5, <1>7, <1>8
  <2>2. Len(gtsList') <= ListSize
    BY <1>9, AllocationAssumption DEF gtsGranted
  <2>3. tmp_finalCap' \in Slots /\ start \in Slots
    BY <1>1, <1>5, <1>6 DEF Slots, UINT_8
  <2> QED
    BY <2>1, <2>2, <2>3, <1>4, <1>5 DEF AllocInv, AllocationTypeOK
<1>11. GTSsDisjoint'
  <2>1. ASSUME NEW i \in DOMAIN gtsList'
        PROVE  gtsList'[i].startSlot + gtsList'[i].length
                 = (IF i = 1 THEN aNumSuperframeSlots ELSE gtsList'[i-1].startSlot)
    <3>1. CASE i \in DOMAIN gtsList
      BY <3>1, <1>9 DEF AllocInv, GTSsDisjoint
    <3>2. CASE i = Len(gtsList) + 1
      <4>1. start + len = tmp_finalCap + 1
        BY <1>1, <1>6
      <4>2. CASE gtsList = <<>>
        BY <3>2, <4>1, <4>2, <1>8, <1>9 DEF AllocInv, GTSsDisjoint
      <4>3. CASE gtsList # <<>>
        <5>1. Len(gtsList) >= 1
          BY <4>3, <1>7, <1>9
        <5> QED
          BY <3>2, <4>1, <4>3, <5>1, <1>8, <1>9 DEF AllocInv, GTSsDisjoint
      <4> QED
        BY <4>2, <4>3
    <3> QED
      BY <3>1, <3>2, <1>9
  <2>2. tmp_finalCap' + 1 = gtsList'[Len(gtsList')].startSlot
    BY <1>1, <1>5, <1>6, <1>8, <1>9
  <2>3. Len(gtsList') <= ListSize
    BY <1>10 DEF AllocationTypeOK
  <2> QED
    BY <2>1, <2>2, <2>3, <1>9 DEF GTSsDisjoint
<1>12. MinCAPKept'
  <2>1. start + len <= aNumSuperframeSlots
    BY <1>1, <1>6 DEF aNumSuperframeSlots
  <2> QED
    BY <2>1, <1>1, <1>8, <1>9 DEF AllocInv, MinCAPKept
<1>13. GTSsAgree'
  <2>1. gtsStartSlot[d] = 0 /\ {i \in DOMAIN gtsList : gtsList[i].devShortAddr = d} = {}
    BY <1>4 DEF AllocInv, GTSsAgree
  <2>2. gtsStartSlot \in [Devices -> Slots]
    BY DEF AllocInv, AllocationTypeOK
  <2> SUFFICES ASSUME NEW e \in Devices
      PROVE  IF gtsStartSlot'[e] = 0
             THEN {i \in DOMAIN gtsList' : gtsList'[i].devShortAddr = e} = {}
             ELSE \E i \in {i \in DOMAIN gtsList' : gtsList'[i].devShortAddr = e} :
                     /\ {j \in DOMAIN gtsList' : gtsList'[j].devShortAddr = e} = {i}
                     /\ gtsList'[i].startSlot = gtsStartSlot'[e]
                     /\ gtsList'[i].length = gtsLength(Payload[e])
    BY DEF GTSsAgree
  <2>3. CASE e = d
    <3>1. {j \in DOMAIN gtsList' : gtsList'[j].devShortAddr = e} = {Len(gtsList) + 1}
      BY <2>1, <2>3, <1>8, <1>9
    <3>2. gtsStartSlot'[e] = start /\ start # 0
      BY <2>2, <2>3, <1>5, <1>6
    <3> QED
      BY <3>1, <3>2, <2>3, <1>8, <1>9 DEF len
  <2>4. CASE e # d
    <3>1. {j \in DOMAIN gtsList' : gtsList'[j].devShortAddr = e}
            = {j \in DOMAIN gtsList : gtsList[j].devShortAddr = e}
      BY <2>4, <1>8, <1>9
    <3>2. gtsStartSlot'[e] = gtsStartSlot[e]
      BY <2>2, <2>4, <1>5
    <3> QED
      BY <3>1, <3>2, <1>9 DEF AllocInv, GTSsAgree
  <2> QED
    BY <2>3, <2>4
<1>14. ASSUME NEW e \in Devices
       PROVE  /\ notAssociated'[e] => gtsStartSlot'[e] = 0
              /\ gtsStartSlot'[e] # 0 =>
                    /\ tmp_finalCap' < gtsStartSlot'[e]
                    /\ e \in beaconFor' => txFinalCap' < gtsStartSlot'[e]
              /\ gtsTracked'[e] =>
                    gtsStartSlot'[e] # 0 /\ rxFinalCap'[e] < gtsStartSlot'[e]
  <2>1. /\ notAssociated \in [Devices -> BOOLEAN] /\ gtsStartSlot \in [Devices -> Nat]
        /\ rxFinalCap \in [Devices -> Nat]
    <3>1. \A S : S \in SUBSET Nat => \A f \in [Devices -> S] : f \in [Devices -> Nat]
      OBVIOUS
    <3>2. Slots \in SUBSET Nat
      BY DEF Slots, UINT_8
    <3> QED
      BY <3>1, <3>2 DEF AllocInv, AllocationTypeOK
  <2>2. CASE e = d
    <3>1. gtsStartSlot[d] = 0 /\ ~ gtsTracked[d]
      BY <1>4 DEF AllocInv
    <3> QED
      BY <2>1, <2>2, <3>1, <1>1, <1>4, <1>5, <1>6
  <2>3. CASE e # d
    <3>1. /\ notAssociated'[e] = notAssociated[e] /\ gtsStartSlot'[e] = gtsStartSlot[e]
          /\ rxFinalCap'[e] = rxFinalCap[e] /\ gtsTracked' = gtsTracked
          /\ beaconFor' \subseteq beaconFor /\ txFinalCap' = txFinalCap
      BY <2>1, <2>3, <1>4, <1>5
    <3>2. /\ notAssociated[e] => gtsStartSlot[e] = 0
          /\ gtsStartSlot[e] # 0 =>
                /\ tmp_finalCap < gtsStartSlot[e]
                /\ e \in beaconFor => txFinalCap < gtsStartSlot[e]
          /\ gtsTracked[e] =>
                gtsStartSlot[e] # 0 /\ rxFinalCap[e] < gtsStartSlot[e]
      BY DEF AllocInv
    <3>3. gtsStartSlot[e] \in Nat /\ tmp_finalCap' \in Nat /\ tmp_finalCap' <= tmp_finalCap
      BY <2>1, <1>1, <1>5, <1>6
    <3>4. tmp_finalCap \in Nat
      BY <1>6
    <3>5. gtsStartSlot'[e] # 0 => tmp_finalCap' < gtsStartSlot'[e]
      BY <3>1, <3>2, <3>3, <3>4
    <3> QED
      BY <3>1, <3>2, <3>5
  <2> QED
    BY <2>2, <2>3
<1>15. /\ tmp_finalCap' < aNumSuperframeSlots
       /\ SlotDuration * (tmp_finalCap' + 1) >= aMinCAPLength
  BY <1>1, <1>5 DEF aNumSuperframeSlots
<1> QED
  BY <1>10, <1>11, <1>12, <1>13, <1>14, <1>15 DEF AllocInv

LEMMA AllocInvHolds == Fits => (Spec => []AllocInv)
<1> SUFFICES ASSUME Fits PROVE Spec => []AllocInv
  OBVIOUS
<1>1. AllocInv /\ [Next]_vars => AllocInv'
  <2> SUFFICES ASSUME AllocInv, [Next]_vars PROVE AllocInv'
    OBVIOUS
  <2>1. CASE TxBeacon
    BY <2>1, TxBeaconInv
  <2>2. ASSUME NEW d \in Devices, RxBeacon(d) PROVE AllocInv'
    <3>1. handleBeacon(d) /\ (FirstBeacon(d) \/ LaterBeacon(d))
      BY <2>2 DEF RxBeacon, handleBeacon
    <3> QED
      BY <3>1, LaterBeaconInv, RefusedInv, GrantedInv
  <2>3. CASE UNCHANGED vars
    BY <2>3 DEF vars, coordVars, deviceVars, AllocInv, AllocationTypeOK, GTSsDisjoint,
                MinCAPKept, GTSsAgree
  <2> QED
    BY <2>1, <2>2, <2>3 DEF Next
<1> QED
  BY <1>1, InitInv, PTL DEF Spec

\* The GTSs granted by gts_request_cmd never overlap each other or the CAP that
\* the next beacon announces, and none falls out of the superframe.
THEOREM GTSsDisjointAlways == Fits => (Spec => [](GTSsDisjoint /\ MinCAPKept))
<1>1. AllocInv => GTSsDisjoint /\ MinCAPKept
  BY DEF AllocInv
<1> QED
  BY <1>1, AllocInvHolds, PTL

\* Device and coordinator agree on the place of the GTS, and the list keeps to its
\* room, however many devices associate.
THEOREM GTSsAgreeAlways == Fits => (Spec => [](AllocationTypeOK /\ GTSsAgree))
<1>1. AllocInv => AllocationTypeOK /\ GTSsAgree
  BY DEF AllocInv
<1> QED
  BY <1>1, AllocInvHolds, PTL

\* The assertions of handleBeacon and handleFinalCapTimer hold with any loss of
\* beacons.
THEOREM CapBeforeGTSAlways == Fits => (Spec => []CapBeforeGTS)
<1>1. AllocInv => CapBeforeGTS
  BY DEF AllocInv, AllocationTypeOK, CapBeforeGTS, Slots, UINT_8
<1> QED
  BY <1>1, AllocInvHolds, PTL

=============================================================================
