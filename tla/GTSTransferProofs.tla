------------------------- MODULE GTSTransferProofs -------------------------
(***************************************************************************)
(* The invariants of GTSAllocation, carried over to the composition with   *)
(* the transfer of data: no step of GTSTransfer, whatever it does to the   *)
(* timers, the radios and the channel, disturbs them.  A step sends a      *)
(* beacon, receives one, ends the simulation, or leaves the variables of   *)
(* GTSAllocation alone.                                                    *)
(***************************************************************************)
EXTENDS GTSAllocationProofs, GTSTransfer

\* The invariant says nothing of halted but its type.
LEMMA HaltKeepsInv ==
    ASSUME AllocInv, UNCHANGED <<allocVars, beaconFor>>, halted' \in BOOLEAN
    PROVE  AllocInv'
BY DEF allocVars, coordVars, deviceVars, AllocInv, AllocationTypeOK, GTSsDisjoint,
       MinCAPKept, GTSsAgree

LEMMA SameKeepsInv == AllocInv /\ UNCHANGED vars => AllocInv'
<1> SUFFICES ASSUME AllocInv, UNCHANGED vars PROVE AllocInv'
  OBVIOUS
<1>1. halted' \in BOOLEAN
  BY DEF vars, AllocInv, AllocationTypeOK
<1> QED
  BY <1>1, HaltKeepsInv DEF vars, allocVars

\* Sending a beacon is the step TxBeacon.
LEMMA TransmitBeaconInv == AllocInv /\ TransmitBeacon => AllocInv'
BY TxBeaconInv DEF TransmitBeacon, TxBeacon

LEMMA ReceiveBeaconInv ==
    ASSUME NEW d \in Devices, Fits, AllocInv, ReceiveBeacon(d)
    PROVE  AllocInv'
<1>1. handleBeacon(d) /\ (FirstBeacon(d) \/ LaterBeacon(d))
  BY DEF ReceiveBeacon, handleBeacon
<1> QED
  BY <1>1, LaterBeaconInv, RefusedInv, GrantedInv

\* The end of a data frame may only end the simulation.
LEMMA DataEndsInv ==
    ASSUME NEW f, AllocInv, DataEnds(f)
    PROVE  AllocInv'
<1>1. PICK arrives \in Arrives(f) : halted' = (arrives /\ TimingError(f.to, f.pkt))
  BY Zenon DEF DataEnds
<1>2. halted' \in BOOLEAN
  BY <1>1
<1>3. UNCHANGED <<allocVars, beaconFor>>
  BY DEF DataEnds
<1> QED
  BY <1>2, <1>3, HaltKeepsInv

\* The timers and handlers that leave the allocation alone.
LEMMA TimersKeep ==
    ASSUME NEW d, CoordGts \/ BeaconExpected(d) \/ FinalCap(d) \/ DeviceGtsStart(d)
                  \/ DeviceGtsEnd(d) \/ SuperframeEnds(d) \/ AckTimeout(d)
                  \/ Indication(d) \/ Success(d)
    PROVE  UNCHANGED vars
BY DEF CoordGts, BeaconExpected, FinalCap, DeviceGtsStart, DeviceGtsEnd,
       SuperframeEnds, AckTimeout, Indication, Success

LEMMA DataKeeps == Data => UNCHANGED vars
BY DEF Data, DataFromDevice, DataFromCoord

LEMMA TransferStep ==
    ASSUME Fits, AllocInv, [TransferNext]_transferVars
    PROVE  AllocInv'
<1>1. CASE TransmitBeacon
  BY <1>1, TransmitBeaconInv
<1>2. ASSUME NEW d \in Devices, ReceiveBeacon(d) PROVE AllocInv'
  BY <1>2, ReceiveBeaconInv
<1>3. ASSUME NEW f, DataEnds(f) PROVE AllocInv'
  BY <1>3, DataEndsInv
<1>4. ASSUME NEW f, AckEnds(f) PROVE AllocInv'
  BY <1>4, SameKeepsInv DEF AckEnds
<1>5. ASSUME NEW d, CoordGts \/ BeaconExpected(d) \/ FinalCap(d) \/ DeviceGtsStart(d)
                    \/ DeviceGtsEnd(d) \/ SuperframeEnds(d) \/ AckTimeout(d)
                    \/ Indication(d) \/ Success(d)
      PROVE AllocInv'
  BY <1>5, TimersKeep, SameKeepsInv
<1>6. CASE Tick
  BY <1>6, SameKeepsInv DEF Tick
<1>7. CASE Data
  BY <1>7, DataKeeps, SameKeepsInv
<1>8. CASE UNCHANGED transferVars
  BY <1>8, SameKeepsInv DEF transferVars
<1>9. CASE Stopped
  BY <1>9, <1>8 DEF Stopped
<1> QED
  BY <1>1, <1>2, <1>3, <1>4, <1>5, <1>6, <1>7, <1>8, <1>9, Zenon DEF TransferNext, Events

\* While data is sent, lost, acknowledged and sent again in them, the GTSs stay
\* disjoint, leave the CAP its least length, and lie where their devices believe;
\* a device that uses its GTS has heard of a CAP that ends before it.
THEOREM AllocationSafeInTransfer ==
    Fits => (TransferSpec => [](GTSsDisjoint /\ MinCAPKept /\ GTSsAgree /\ CapBeforeGTS))
<1> SUFFICES ASSUME Fits
             PROVE  TransferSpec => [](GTSsDisjoint /\ MinCAPKept /\ GTSsAgree /\ CapBeforeGTS)
  OBVIOUS
<1>1. TransferInit => AllocInv
  BY InitInv DEF TransferInit
<1>2. AllocInv /\ [TransferNext]_transferVars => AllocInv'
  BY TransferStep
<1>3. AllocInv => GTSsDisjoint /\ MinCAPKept /\ GTSsAgree /\ CapBeforeGTS
  BY DEF AllocInv, AllocationTypeOK, CapBeforeGTS, Slots, UINT_8
<1> QED
  BY <1>1, <1>2, <1>3, PTL DEF TransferSpec

=============================================================================
