-------------------------- MODULE SRRequestProofs --------------------------
(***************************************************************************)
(* Proofs about SRRequestSettled: whatever is lost, repeated, reordered or *)
(* overlapping, a reply never runs out of its way back to the requester;   *)
(* and while requests do not overlap, a repeated request is recognised and *)
(* no reply is passed on for ever.                                         *)
(***************************************************************************)
EXTENDS SRRequestSettled, TLAPS, WellFoundedInduction

\* A set of natural numbers that is not empty has a least element.
LEMMA MinOfSet ==
    ASSUME NEW S, S \subseteq Nat, S # {}
    PROVE  Min(S) \in S /\ \A y \in S : Min(S) <= y
<1>1. PICK x \in S : \A y \in S : ~ (<<y, x>> \in OpToRel(<, Nat))
  BY NatLessThanWellFounded, WFMin, Zenon
<1>2. ASSUME NEW y \in S, y < x
      PROVE  <<y, x>> \in OpToRel(<, Nat)
  BY <1>2, Zenon DEF OpToRel
<1>3. \A y \in S : ~ (y < x)
  BY <1>1, <1>2, Zenon
<1>4. \A y \in S : x <= y
  BY <1>3
<1> QED
  BY <1>4, Zenon DEF Min

(* Bags. *)

\* Adding a set of packets to a bag.
LEMMA BagPlus ==
    ASSUME NEW B, IsABag(B), NEW S
    PROVE  /\ IsABag(B (+) SetToBag(S))
           /\ BagToSet(B (+) SetToBag(S)) = BagToSet(B) \cup S
BY DEF IsABag, BagToSet, SetToBag, (+)

\* Taking a packet out of a bag.
LEMMA BagMinus ==
    ASSUME NEW B, IsABag(B), NEW x
    PROVE  /\ IsABag(B (-) SetToBag({x}))
           /\ BagToSet(B (-) SetToBag({x})) \subseteq BagToSet(B)
BY DEF IsABag, BagToSet, SetToBag, (-)

-----------------------------------------------------------------------------
(* Where packets go. *)

\* Addresses are numbers, and neither special address is a node's.
LEMMA NodesAreNumbers ==
     Nodes \subseteq Nat /\ UNSPECIFIED \notin Nodes /\ BROADCAST \notin Nodes
BY NodesAssumption DEF UNSPECIFIED, BROADCAST

\* The frames that a packet can cause carry it from its sender to hearers.
LEMMA DeliveriesFacts ==
    ASSUME NEW p \in PacketType, NEW D \in Deliveries(p), NEW f \in D
    PROVE  /\ f.to \in Nodes
           /\ f.pkt = p
           /\ <<p.src, f.to>> \in Link
           /\ p.dest # BROADCAST => f.to = p.dest
<1>1. PICK m \in Hearers(p.src), c \in 1..MaxCopies :
        f = Frame(m, c, p) /\ (p.dest # BROADCAST => m = p.dest)
  <2>1. CASE p.dest = BROADCAST
    BY <2>1, NetworkAssumption DEF Deliveries
  <2>2. CASE p.dest # BROADCAST
    BY <2>2, NetworkAssumption DEF Deliveries
  <2> QED BY <2>1, <2>2, Zenon
<1> QED BY <1>1, Zenon DEF Frame, Hearers

\* GetNextHop gives a node or the unspecified address.
LEMMA NextHopType ==
    ASSUME TablesSettled, NEW n \in Nodes, NEW Source
    PROVE  GetNextHop(n, Source) \in Nodes \cup {UNSPECIFIED}
<1> DEFINE claim == {m \in DOMAIN NeighborsTable[n] : NeighborsTable[n][m] \in provides}
<1>1. claim \subseteq Nodes
  BY SettledAssumption, Zenon DEF TablesSettled
<1>2. claim # {} => Min(claim) \in claim
  <2> HIDE DEF claim
  <2> QED BY <1>1, NodesAreNumbers, MinOfSet, Zenon
<1> QED BY <1>1, <1>2, Zenon DEF GetNextHop

\* A peer that has answered most often exists.
LEMMA BestPeerInRow ==
    ASSUME RequestTypeOK, NEW n \in Nodes, DOMAIN learned[n] # {}
    PROVE  BestPeer(learned[n]) \in DOMAIN learned[n]
<1>1. /\ DOMAIN learned[n] \subseteq Nat
      /\ \A m \in DOMAIN learned[n] : learned[n][m] \in 0..MaxCount
  <2>1. /\ DOMAIN learned[n] \subseteq Nodes
        /\ \A m \in DOMAIN learned[n] : learned[n][m] \in 1..MaxCount
    BY Zenon DEF RequestTypeOK
  <2>2. \A k \in 1..MaxCount : k \in 0..MaxCount
    BY RequestAssumption
  <2> QED BY <2>1, <2>2, NodesAreNumbers, Zenon
<1> DEFINE row == learned[n]
           best == {m \in DOMAIN row : \A k \in DOMAIN row : row[k] <= row[m]}
           gaps == {MaxCount - row[m] : m \in DOMAIN row}
<1>2. gaps \subseteq Nat /\ gaps # {}
  <2>1. ASSUME NEW m \in DOMAIN row PROVE MaxCount - row[m] \in Nat
    BY <1>1, RequestAssumption
  <2> QED BY <2>1, Zenon
<1>3. Min(gaps) \in gaps /\ \A h \in gaps : Min(gaps) <= h
  <2> HIDE DEF gaps
  <2> QED BY <1>2, MinOfSet, Zenon
<1>4. PICK m \in DOMAIN row : Min(gaps) = MaxCount - row[m]
  BY <1>3, Zenon
<1>5. ASSUME NEW k \in DOMAIN row PROVE row[k] <= row[m]
  <2>1. MaxCount - row[m] <= MaxCount - row[k]
    BY <1>3, <1>4, Zenon
  <2> QED BY <2>1, <1>1, RequestAssumption
<1>6. best # {} /\ best \subseteq Nat
  BY <1>1, <1>5, Zenon
<1>7. Min(best) \in best
  <2> HIDE DEF best
  <2> QED BY <1>6, MinOfSet, Zenon
<1> QED BY <1>7, Zenon DEF BestPeer

\* LearningPeerSelection gives a node or the unspecified address.
LEMMA PeerType ==
    ASSUME RequestTypeOK, NEW n \in Nodes
    PROVE  LearningPeerSelection(n) \in Nodes \cup {UNSPECIFIED}
BY BestPeerInRow, Zenon DEF LearningPeerSelection, RequestTypeOK

\* So does the choice of the neighbour that a request is passed to.
LEMMA ForwardType ==
    ASSUME TablesSettled, RequestTypeOK, NEW n \in Nodes, NEW p
    PROVE  ForwardTo(n, p) \subseteq Nodes \cup {UNSPECIFIED}
<1>1. FloodTo(n, p.dest) \subseteq Nodes \cup {UNSPECIFIED}
  <2> DEFINE others == {k \in DOMAIN neighborList[n] : neighborList[n][k] # p.dest}
  <2>1. others \subseteq DOMAIN Neighbors[n] /\ others \subseteq Nat
    BY SettledAssumption DEF TablesSettled, UINT16
  <2>2. others # {} => Min(others) \in others
    BY <2>1, MinOfSet, Zenon
  <2>3. others # {} => neighborList[n][Min(others)] \in Nodes \cup {UNSPECIFIED}
    BY <2>1, <2>2, SettledAssumption, Zenon DEF TablesSettled
  <2> QED BY <2>3, Zenon DEF FloodTo
<1>2. GetNextHop(n, FALSE) \in Nodes \cup {UNSPECIFIED}
  BY NextHopType, Zenon
<1>3. LearningPeerSelection(n) \in Nodes \cup {UNSPECIFIED}
  BY PeerType, Zenon
<1> QED BY <1>1, <1>2, <1>3, Zenon DEF ForwardTo

-----------------------------------------------------------------------------
(* The invariant, by the state it is about. *)

\* What RequestInv says of the tables of the nodes.
NodesOK ==
    /\ currentRequestTimeStamp \in [Nodes -> Stamps]
    /\ generated \in [Nodes -> 0..MaxRequests]

RecordsOK ==
    /\ DOMAIN RecordTable = Nodes
    /\ \A n \in Nodes : DOMAIN RecordTable[n] \subseteq UINT16
    /\ RecordsLeadBack

PeersOK ==
    /\ DOMAIN learned = Nodes
    /\ \A n \in Nodes : /\ DOMAIN learned[n] \subseteq Nodes
                        /\ \A m \in DOMAIN learned[n] : learned[n][m] \in 1..MaxCount
    /\ PeersAreHeard

\* What it says of the packets.
SendingOK ==
    /\ IsABag(sending)
    /\ \A p \in BagToSet(sending) : p \in PacketType /\ LeadsBack(p)

FlyingOK ==
    /\ IsABag(flying)
    /\ \A f \in BagToSet(flying) :
         /\ f.to \in Nodes /\ f.pkt \in PacketType
         /\ LeadsBack(f.pkt)
         /\ <<f.pkt.src, f.to>> \in Link
         /\ f.pkt.dest # BROADCAST => f.to = f.pkt.dest

\* RequestInv is the conjunction of those parts.
LEMMA InvariantParts ==
    RequestInv <=> NodesOK /\ RecordsOK /\ PeersOK /\ SendingOK /\ FlyingOK
<1>1. ASSUME RequestInv
      PROVE  NodesOK /\ RecordsOK /\ PeersOK /\ SendingOK /\ FlyingOK
  <2>1. NodesOK
    BY <1>1, Zenon DEF RequestInv, RequestTypeOK, NodesOK
  <2>2. RecordsOK
    BY <1>1, Zenon DEF RequestInv, RequestTypeOK, RecordsOK
  <2>3. PeersOK
    BY <1>1, Zenon DEF RequestInv, RequestTypeOK, PeersOK
  <2>4. SendingOK
    BY <1>1, Zenon DEF RequestInv, RequestTypeOK, SendingOK, Packets
  <2>5. FlyingOK
    BY <1>1, Zenon DEF RequestInv, RequestTypeOK, FlyingOK, Packets, FramesFollowLinks
  <2> QED BY <2>1, <2>2, <2>3, <2>4, <2>5, Zenon
<1>2. ASSUME NodesOK, RecordsOK, PeersOK, SendingOK, FlyingOK
      PROVE  RequestInv
  <2>1. RequestTypeOK
    BY <1>2, Zenon DEF NodesOK, RecordsOK, PeersOK, SendingOK, FlyingOK, RequestTypeOK,
                RecordsLeadBack
  <2>2. \A p \in Packets : LeadsBack(p)
    BY <1>2, Zenon DEF SendingOK, FlyingOK, Packets
  <2>3. FramesFollowLinks
    BY <1>2, Zenon DEF FlyingOK, FramesFollowLinks
  <2> QED BY <1>2, <2>1, <2>2, <2>3, Zenon DEF RequestInv, RecordsOK, PeersOK
<1> QED BY <1>1, <1>2, Zenon

\* They add up to it after a step too.
LEMMA InvariantPartsNext ==
    NodesOK' /\ RecordsOK' /\ PeersOK' /\ SendingOK' /\ FlyingOK' => RequestInv'
BY InvariantParts, PTL

-----------------------------------------------------------------------------
(* Ways back are never forgotten. *)

\* Nodes that know the way to a requester go on knowing it.
WaysStay == \A n \in Nodes : \A id : KnowsTheWay(n, id) => KnowsTheWay(n, id)'

\* An action that writes no record keeps every way.
LEMMA SameRecords ==
    ASSUME RecordsOK, UNCHANGED <<myID, RecordTable>>
    PROVE  RecordsOK' /\ WaysStay
BY Zenon DEF RecordsOK, RecordsLeadBack, KnowsTheWay, WaysStay

\* Recording a node that knows the way keeps every way.
LEMMA NewRecord ==
    ASSUME RecordsOK, UNCHANGED myID, NEW n \in Nodes, NEW id \in UINT16,
           NEW m \in Nodes, KnowsTheWay(m, id),
           RecordTable' = [RecordTable EXCEPT ![n] = MapPut(@, id, m)]
    PROVE  RecordsOK' /\ WaysStay /\ KnowsTheWay(n, id)'
<1>1. /\ DOMAIN RecordTable' = Nodes
      /\ \A k \in Nodes : DOMAIN RecordTable'[k] \subseteq UINT16
  BY Zenon DEF RecordsOK, MapPut
<1>2. /\ \A k \in Nodes : DOMAIN RecordTable[k] \subseteq DOMAIN RecordTable'[k]
      /\ id \in DOMAIN RecordTable'[n]
  BY Zenon DEF RecordsOK, MapPut
<1>3. WaysStay /\ KnowsTheWay(n, id)'
  BY <1>2, Zenon DEF WaysStay, KnowsTheWay
<1>4. ASSUME NEW k \in Nodes, NEW j \in DOMAIN RecordTable'[k]
      PROVE  RecordTable'[k][j] \in Nodes /\ KnowsTheWay(RecordTable'[k][j], j)
  <2>1. CASE k = n /\ j = id
    BY <2>1, Zenon DEF RecordsOK, MapPut
  <2>2. CASE ~ (k = n /\ j = id)
    <3>1. j \in DOMAIN RecordTable[k] /\ RecordTable'[k][j] = RecordTable[k][j]
      BY <1>4, <2>2, Zenon DEF RecordsOK, MapPut
    <3> QED BY <3>1, Zenon DEF RecordsOK, RecordsLeadBack
  <2> QED BY <2>1, <2>2, Zenon
<1>5. RecordsLeadBack'
  BY <1>3, <1>4, Zenon DEF RecordsLeadBack, WaysStay
<1> QED BY <1>1, <1>3, <1>5, Zenon DEF RecordsOK

\* A packet that leads back goes on leading back.
LEMMA StillLeadsBack ==
    ASSUME WaysStay, NEW p \in PacketType, LeadsBack(p)
    PROVE  LeadsBack(p)'
BY Zenon DEF WaysStay, LeadsBack, PacketType

\* Scheduling packets that lead back.
LEMMA Scheduled ==
    ASSUME SendingOK, WaysStay, NEW S, sending' = sending (+) SetToBag(S),
           \A p \in S : p \in PacketType /\ LeadsBack(p)'
    PROVE  SendingOK'
<1>1. IsABag(sending') /\ BagToSet(sending') = BagToSet(sending) \cup S
  BY BagPlus, Zenon DEF SendingOK
<1> QED BY <1>1, StillLeadsBack, Zenon DEF SendingOK

\* The packets already scheduled, or fewer.
LEMMA StillScheduled ==
    ASSUME SendingOK, WaysStay, IsABag(sending'),
           BagToSet(sending') \subseteq BagToSet(sending)
    PROVE  SendingOK'
BY StillLeadsBack, Zenon DEF SendingOK

\* The frames already flying, or fewer.
LEMMA StillFlying ==
    ASSUME FlyingOK, WaysStay, IsABag(flying'),
           BagToSet(flying') \subseteq BagToSet(flying)
    PROVE  FlyingOK'
BY StillLeadsBack, Zenon DEF FlyingOK

\* Handling a frame removes it and leaves the others.
LEMMA Taken ==
    ASSUME FlyingOK, WaysStay, NEW f, Take(f)
    PROVE  FlyingOK'
BY BagMinus, StillFlying, Zenon DEF FlyingOK, Take

\* One more answer from a node that is heard.
LEMMA PeerLearned ==
    ASSUME PeersOK, NEW n \in Nodes, NEW p \in PacketType,
           <<p.src, n>> \in Link, UpdateTable(n, p)
    PROVE  PeersOK'
<1>1. p.src \in Nodes
  BY Zenon DEF PacketType
<1>2. DOMAIN learned' = Nodes
  BY Zenon DEF PeersOK, UpdateTable
<1>3. ASSUME NEW k \in Nodes
      PROVE  /\ DOMAIN learned'[k] \subseteq Nodes
             /\ \A m \in DOMAIN learned'[k] :
                  learned'[k][m] \in 1..MaxCount /\ <<m, k>> \in Link
  <2>1. CASE k # n
    BY <2>1, Zenon DEF PeersOK, PeersAreHeard, UpdateTable
  <2>2. CASE k = n
    <3>1. MapGet(learned[n], p.src, 0) + 1 \in 1..MaxCount
      BY RequestAssumption DEF PeersOK, UpdateTable, MapGet
    <3>2. learned'[n] = MapPut(learned[n], p.src, MapGet(learned[n], p.src, 0) + 1)
      BY Zenon DEF PeersOK, UpdateTable, Answered
    <3> QED BY <1>1, <2>2, <3>1, <3>2, Zenon DEF PeersOK, PeersAreHeard, MapPut
  <2> QED BY <2>1, <2>2, Zenon
<1> QED BY <1>2, <1>3, Zenon DEF PeersOK, PeersAreHeard

-----------------------------------------------------------------------------
(* Every action keeps the invariant. *)

Inv == TablesSettled /\ RequestInv

\* generaterRandomRequest: the requester is the source of its request.
LEMMA GenerateKeeps ==
    ASSUME Inv, NEW n \in Requesters, generaterRandomRequest(n)
    PROVE  Inv'
<1> DEFINE claimed == GetNextHop(n, TRUE)
           peer    == LearningPeerSelection(n)
           to      == IF claimed # UNSPECIFIED THEN claimed
                      ELSE IF peer # UNSPECIFIED THEN peer ELSE BROADCAST
           seq     == generated[n] + 1
<1>0. NodesOK /\ RecordsOK /\ PeersOK /\ SendingOK /\ FlyingOK
  BY InvariantParts, Zenon DEF Inv
<1>1. n \in Nodes /\ Stamp[n] \in Stamps
  BY RequestAssumption, Zenon DEF Sensors
<1>2. to \in Nodes \cup {UNSPECIFIED, BROADCAST}
  <2>1. claimed \in Nodes \cup {UNSPECIFIED}
    BY <1>1, NextHopType, Zenon DEF Inv
  <2>2. peer \in Nodes \cup {UNSPECIFIED}
    BY <1>1, PeerType, Zenon DEF Inv, RequestInv
  <2> HIDE DEF claimed, peer
  <2> QED BY <2>1, <2>2, Zenon
<1>3. seq \in 1..MaxRequests /\ myID[n] \in UINT16
  BY <1>0, <1>1, RequestAssumption, SettledAssumption
     DEF generaterRandomRequest, NodesOK, Inv, TablesSettled
<1>4. PICK p \in PacketType : p = Packet("Q_REQUEST", n, to, myID[n], Stamp[n], seq)
  <2> HIDE DEF to, seq
  <2> QED BY <1>1, <1>2, <1>3, Zenon DEF Packet, PacketType
<1>5. UNCHANGED <<tables, RecordTable, learned, flying>>
  BY Zenon DEF generaterRandomRequest
<1>6. RecordsOK' /\ WaysStay
  BY <1>0, <1>5, SameRecords, Zenon DEF tables
<1>7. LeadsBack(p)'
  <2>1. p.queryType = "Q_REQUEST" /\ p.src = n /\ p.Id = myID[n]
    <3> HIDE DEF to, seq
    <3> QED BY <1>4, Zenon DEF Packet
  <2> QED BY <1>5, <2>1, Zenon DEF LeadsBack, KnowsTheWay, tables
<1>8. SendingOK'
  <2>1. sending' = sending (+) SetToBag({p})
    BY <1>4, Zenon DEF generaterRandomRequest, scheduleMsgToSendNic
  <2>2. \A q \in {p} : q \in PacketType /\ LeadsBack(q)'
    BY <1>4, <1>7, Zenon
  <2> QED BY <1>0, <1>6, <2>1, <2>2, Scheduled
<1>9. FlyingOK'
  BY <1>0, <1>5, <1>6, StillFlying, Zenon DEF FlyingOK
<1>10. NodesOK'
  <2>1. currentRequestTimeStamp' = [currentRequestTimeStamp EXCEPT ![n] = Stamp[n]]
    BY Zenon DEF generaterRandomRequest
  <2>2. generated' = [generated EXCEPT ![n] = seq]
    BY Zenon DEF generaterRandomRequest
  <2> HIDE DEF seq
  <2> QED BY <1>0, <1>1, <1>3, <2>1, <2>2, RequestAssumption DEF NodesOK
<1>11. PeersOK'
  BY <1>0, <1>5, Zenon DEF PeersOK, PeersAreHeard
<1>12. TablesSettled'
  BY <1>5, Zenon DEF Inv, TablesSettled, tables
<1> QED BY <1>6, <1>8, <1>9, <1>10, <1>11, <1>12, InvariantPartsNext, Zenon DEF Inv

\* SendNic: the frames carry the packet to nodes that hear its source.
LEMMA SendKeeps ==
    ASSUME Inv, NEW p \in BagToSet(sending), SendNic(p)
    PROVE  Inv'
<1>0. NodesOK /\ RecordsOK /\ PeersOK /\ SendingOK /\ FlyingOK
  BY InvariantParts, Zenon DEF Inv
<1>1. p \in PacketType /\ LeadsBack(p)
  BY <1>0, Zenon DEF SendingOK
<1>2. UNCHANGED <<tables, currentRequestTimeStamp, RecordTable, learned, generated>>
  BY Zenon DEF SendNic
<1>3. RecordsOK' /\ WaysStay
  BY <1>0, <1>2, SameRecords, Zenon DEF tables
<1>4. SendingOK'
  <2>1. IsABag(sending') /\ BagToSet(sending') \subseteq BagToSet(sending)
    BY <1>0, BagMinus, Zenon DEF SendNic, SendingOK
  <2> QED BY <1>0, <1>3, <2>1, StillScheduled, Zenon
<1>5. FlyingOK'
  <2>1. PICK D \in Deliveries(p) : flying' = flying (+) SetToBag(D)
    BY Zenon DEF SendNic
  <2>2. IsABag(flying') /\ BagToSet(flying') = BagToSet(flying) \cup D
    BY <1>0, <2>1, BagPlus, Zenon DEF FlyingOK
  <2>3. LeadsBack(p)'
    BY <1>1, <1>3, StillLeadsBack, Zenon
  <2>4. ASSUME NEW f \in BagToSet(flying')
        PROVE  /\ f.to \in Nodes /\ f.pkt \in PacketType
               /\ LeadsBack(f.pkt)'
               /\ <<f.pkt.src, f.to>> \in Link
               /\ f.pkt.dest # BROADCAST => f.to = f.pkt.dest
    <3>1. CASE f \in D
      <4>1. /\ f.to \in Nodes
            /\ f.pkt = p
            /\ <<p.src, f.to>> \in Link
            /\ p.dest # BROADCAST => f.to = p.dest
        BY <1>1, <3>1, DeliveriesFacts
      <4> QED BY <1>1, <2>3, <4>1, Zenon
    <3>2. CASE f \in BagToSet(flying)
      BY <1>0, <1>3, <3>2, StillLeadsBack, Zenon DEF FlyingOK
    <3> QED BY <2>2, <2>4, <3>1, <3>2, Zenon
  <2> QED BY <2>2, <2>4, Zenon DEF FlyingOK
<1>6. NodesOK'
  BY <1>0, <1>2, Zenon DEF NodesOK
<1>7. PeersOK'
  BY <1>0, <1>2, Zenon DEF PeersOK, PeersAreHeard
<1>8. TablesSettled'
  BY <1>2, Zenon DEF Inv, TablesSettled, tables
<1> QED BY <1>3, <1>4, <1>5, <1>6, <1>7, <1>8, InvariantPartsNext, Zenon DEF Inv

\* What the handlers know of the frame they are given.
LEMMA FrameFacts ==
    ASSUME Inv, NEW f \in BagToSet(flying)
    PROVE  /\ f.to \in Nodes
           /\ f.pkt \in PacketType
           /\ f.pkt.src \in Nodes
           /\ f.pkt.Id \in UINT16
           /\ f.pkt.myTimestamp \in Stamps
           /\ f.pkt.seq \in 1..MaxRequests
           /\ f.pkt.queryType = "Q_REQUEST" => KnowsTheWay(f.pkt.src, f.pkt.Id)
           /\ f.pkt.queryType = "Q_REPLY" => KnowsTheWay(f.to, f.pkt.Id)
           /\ <<f.pkt.src, f.to>> \in Link
<1>1. FlyingOK
  BY InvariantParts, Zenon DEF Inv
<1>2. f.to \in Nodes /\ f.pkt \in PacketType
  BY <1>1, Zenon DEF FlyingOK
<1>3. f.pkt.queryType = "Q_REPLY" => KnowsTheWay(f.to, f.pkt.Id)
  BY <1>1, NodesAreNumbers, Zenon DEF FlyingOK, LeadsBack
<1>4. f.pkt.queryType = "Q_REQUEST" => KnowsTheWay(f.pkt.src, f.pkt.Id)
  BY <1>1, Zenon DEF FlyingOK, LeadsBack
<1>5. <<f.pkt.src, f.to>> \in Link
  BY <1>1, Zenon DEF FlyingOK
<1> QED BY <1>2, <1>3, <1>4, <1>5, Zenon DEF PacketType

\* DropCopy only removes the frame.
LEMMA DropKeeps ==
    ASSUME Inv, NEW f \in BagToSet(flying), DropCopy(f)
    PROVE  Inv'
<1>0. NodesOK /\ RecordsOK /\ PeersOK /\ SendingOK /\ FlyingOK
  BY InvariantParts, Zenon DEF Inv
<1>1. UNCHANGED <<tables, currentRequestTimeStamp, RecordTable, learned,
                  generated, sending>>
  BY Zenon DEF DropCopy
<1>2. RecordsOK' /\ WaysStay
  BY <1>0, <1>1, SameRecords, Zenon DEF tables
<1>3. SendingOK'
  BY <1>0, <1>1, <1>2, StillScheduled, Zenon DEF SendingOK
<1>4. FlyingOK'
  BY <1>0, <1>2, Taken, Zenon DEF DropCopy
<1>5. NodesOK'
  BY <1>0, <1>1, Zenon DEF NodesOK
<1>6. PeersOK'
  BY <1>0, <1>1, Zenon DEF PeersOK, PeersAreHeard
<1>7. TablesSettled'
  BY <1>1, Zenon DEF Inv, TablesSettled, tables
<1> QED BY <1>2, <1>3, <1>4, <1>5, <1>6, <1>7, InvariantPartsNext, Zenon DEF Inv

\* NewRequest: the sender, which knows the way, is recorded.
LEMMA NewRequestKeeps ==
    ASSUME Inv, NEW f \in BagToSet(flying), NewRequest(f)
    PROVE  /\ TablesSettled' /\ NodesOK' /\ RecordsOK' /\ PeersOK' /\ FlyingOK'
           /\ WaysStay
           /\ KnowsTheWay(f.to, f.pkt.Id)'
<1>0. NodesOK /\ RecordsOK /\ PeersOK /\ FlyingOK
  BY InvariantParts, Zenon DEF Inv
<1>1. UNCHANGED <<tables, learned, generated>>
  BY Zenon DEF NewRequest
<1>2. PICK n \in Nodes : n = f.to
  BY FrameFacts, Zenon
<1>3. PICK p \in PacketType : p = f.pkt
  BY FrameFacts, Zenon
<1>4. /\ p.src \in Nodes /\ p.Id \in UINT16 /\ p.myTimestamp \in Stamps
      /\ KnowsTheWay(p.src, p.Id)
  BY <1>3, FrameFacts, Zenon DEF NewRequest
<1>5. RecordsOK' /\ WaysStay /\ KnowsTheWay(n, p.Id)'
  <2>1. RecordTable' = [RecordTable EXCEPT ![n] = MapPut(@, p.Id, p.src)]
    BY <1>2, <1>3, Zenon DEF NewRequest, RecordSender
  <2> QED BY <1>0, <1>1, <1>4, <2>1, NewRecord, Zenon DEF tables
<1>6. NodesOK'
  <2>1. currentRequestTimeStamp' =
            [currentRequestTimeStamp EXCEPT ![n] = p.myTimestamp]
    BY <1>2, <1>3, Zenon DEF NewRequest, BecomesCurrent
  <2> QED BY <1>0, <1>1, <1>4, <2>1, Zenon DEF NodesOK
<1>7. PeersOK'
  BY <1>0, <1>1, Zenon DEF PeersOK, PeersAreHeard
<1>8. FlyingOK'
  BY <1>0, <1>5, Taken, Zenon DEF NewRequest
<1>9. TablesSettled'
  BY <1>1, Zenon DEF Inv, TablesSettled, tables
<1> QED BY <1>2, <1>3, <1>5, <1>6, <1>7, <1>8, <1>9, Zenon

\* AnswerRequest: the reply goes to the sender, or to the requester itself.
LEMMA AnswerKeeps ==
    ASSUME Inv, NEW f \in BagToSet(flying), AnswerRequest(f)
    PROVE  Inv'
<1>0. SendingOK
  BY InvariantParts, Zenon DEF Inv
<1>1. NewRequest(f)
  BY Zenon DEF AnswerRequest
<1>2. /\ TablesSettled' /\ NodesOK' /\ RecordsOK' /\ PeersOK' /\ FlyingOK'
      /\ WaysStay
  BY <1>1, NewRequestKeeps, Zenon
<1>3. PICK n \in Nodes, m \in Nodes, id \in UINT16 :
        n = f.to /\ m = ReplyHop(f.to, f.pkt) /\ id = f.pkt.Id
  BY FrameFacts, Zenon DEF ReplyHop
<1>4. KnowsTheWay(m, id)
  <2>1. CASE id = myID[n]
    BY <1>3, <2>1, Zenon DEF ReplyHop, KnowsTheWay
  <2>2. CASE id # myID[n]
    <3>1. m = f.pkt.src
      BY <1>3, <2>2, Zenon DEF ReplyHop
    <3> QED BY <1>1, <1>3, <3>1, FrameFacts, Zenon DEF NewRequest
  <2> QED BY <2>1, <2>2, Zenon
<1>5. PICK q \in PacketType :
        q = Packet("Q_REPLY", n, m, id, f.pkt.myTimestamp, f.pkt.seq)
  BY <1>3, FrameFacts, Zenon DEF Packet, PacketType
<1>6. LeadsBack(q)'
  <2>1. q.queryType = "Q_REPLY" /\ q.dest = m /\ q.Id = id
    BY <1>5, Zenon DEF Packet
  <2> QED BY <1>2, <1>4, <2>1, Zenon DEF LeadsBack, WaysStay
<1>7. SendingOK'
  <2>1. sending' = sending (+) SetToBag({q})
    BY <1>3, <1>5, Zenon DEF AnswerRequest, scheduleMsgToSendNic
  <2>2. \A r \in {q} : r \in PacketType /\ LeadsBack(r)'
    BY <1>6, Zenon
  <2> QED BY <1>0, <1>2, <2>1, <2>2, Scheduled
<1> QED BY <1>2, <1>7, InvariantPartsNext, Zenon DEF Inv

\* ForwardRequest: the node becomes the source, and it knows the way now.
LEMMA ForwardKeeps ==
    ASSUME Inv, NEW f \in BagToSet(flying), ForwardRequest(f)
    PROVE  Inv'
<1>0. SendingOK
  BY InvariantParts, Zenon DEF Inv
<1>1. NewRequest(f)
  BY Zenon DEF ForwardRequest
<1>2. /\ TablesSettled' /\ NodesOK' /\ RecordsOK' /\ PeersOK' /\ FlyingOK'
      /\ WaysStay
      /\ KnowsTheWay(f.to, f.pkt.Id)'
  BY <1>1, NewRequestKeeps, Zenon
<1>3. PICK n \in Nodes : n = f.to
  BY FrameFacts, Zenon
<1>4. PICK p \in PacketType : p = f.pkt /\ p.queryType = "Q_REQUEST"
  BY <1>1, FrameFacts, Zenon DEF NewRequest
<1>5. PICK T \in SUBSET (Nodes \cup {UNSPECIFIED}) : T = ForwardTo(n, p)
  BY ForwardType, Zenon DEF Inv, RequestInv
<1>6. KnowsTheWay(n, p.Id)'
  BY <1>2, <1>3, <1>4, Zenon
<1>7. PICK S : S = {[p EXCEPT !.src = n, !.dest = m] : m \in T}
  BY Zenon
<1>8. ASSUME NEW q \in S
      PROVE  q \in PacketType /\ LeadsBack(q)'
  <2>1. PICK m \in T : q = [p EXCEPT !.src = n, !.dest = m]
    BY <1>7, Zenon
  <2>2. /\ q \in PacketType
        /\ q.queryType = "Q_REQUEST" /\ q.src = n /\ q.Id = p.Id
    BY <1>4, <2>1, Zenon DEF PacketType
  <2> QED BY <1>6, <2>2, Zenon DEF LeadsBack
<1>9. SendingOK'
  <2>1. sending' = sending (+) SetToBag(S)
    BY <1>3, <1>4, <1>5, <1>7, Zenon DEF ForwardRequest
  <2> QED BY <1>0, <1>2, <1>8, <2>1, Scheduled, Zenon
<1> QED BY <1>2, <1>9, InvariantPartsNext, Zenon DEF Inv

\* ForwardReply: the node has a record, which leads on.
LEMMA ForwardReplyKeeps ==
    ASSUME Inv, NEW f \in BagToSet(flying), ForwardReply(f)
    PROVE  Inv'
<1>0. NodesOK /\ RecordsOK /\ PeersOK /\ SendingOK /\ FlyingOK
  BY InvariantParts, Zenon DEF Inv
<1>1. PICK n \in Nodes : n = f.to
  BY FrameFacts, Zenon
<1>2. PICK p \in PacketType :
        p = f.pkt /\ p.queryType = "Q_REPLY" /\ p.Id \in UINT16 /\ p.Id # myID[n]
  BY <1>1, FrameFacts, Zenon DEF ForwardReply
<1>3. p.Id \in DOMAIN RecordTable[n]
  BY <1>1, <1>2, FrameFacts, Zenon DEF KnowsTheWay
<1>4. PICK m \in Nodes :
        m = MapGet(RecordTable[n], p.Id, UNSPECIFIED) /\ KnowsTheWay(m, p.Id)
  BY <1>0, <1>3, Zenon DEF RecordsOK, RecordsLeadBack, MapGet
<1>5. UNCHANGED <<tables, currentRequestTimeStamp, generated>>
  BY Zenon DEF ForwardReply
<1>6. RecordsOK' /\ WaysStay
  <2>1. RecordTable' = [RecordTable EXCEPT ![n] = MapPut(@, p.Id, m)]
    BY <1>1, <1>2, <1>4, Zenon DEF ForwardReply
  <2> QED BY <1>0, <1>2, <1>4, <1>5, <2>1, NewRecord, Zenon DEF tables
<1>7. PICK q \in PacketType : q = [p EXCEPT !.src = n, !.dest = m]
  BY <1>2, Zenon DEF PacketType
<1>8. LeadsBack(q)'
  <2>1. q.queryType = "Q_REPLY" /\ q.dest = m /\ q.Id = p.Id
    BY <1>2, <1>7, Zenon DEF PacketType
  <2> QED BY <1>4, <1>6, <2>1, Zenon DEF LeadsBack, WaysStay
<1>9. SendingOK'
  <2>1. sending' = sending (+) SetToBag({q})
    BY <1>1, <1>2, <1>4, <1>7, Zenon DEF ForwardReply, scheduleMsgToSendNic
  <2>2. \A r \in {q} : r \in PacketType /\ LeadsBack(r)'
    BY <1>8, Zenon
  <2> QED BY <1>0, <1>6, <2>1, <2>2, Scheduled
<1>10. FlyingOK'
  BY <1>0, <1>6, Taken, Zenon DEF ForwardReply
<1>11. PeersOK'
  <2>1. UpdateTable(n, p) /\ <<p.src, n>> \in Link
    BY <1>1, <1>2, FrameFacts, Zenon DEF ForwardReply
  <2> QED BY <1>0, <2>1, PeerLearned, Zenon
<1>12. NodesOK'
  BY <1>0, <1>5, Zenon DEF NodesOK
<1>13. TablesSettled'
  BY <1>5, Zenon DEF Inv, TablesSettled, tables
<1> QED BY <1>6, <1>9, <1>10, <1>11, <1>12, <1>13, InvariantPartsNext, Zenon DEF Inv

\* AcceptReply: the requester learns who answered.
LEMMA AcceptKeeps ==
    ASSUME Inv, NEW f \in BagToSet(flying), AcceptReply(f)
    PROVE  Inv'
<1>0. NodesOK /\ RecordsOK /\ PeersOK /\ SendingOK /\ FlyingOK
  BY InvariantParts, Zenon DEF Inv
<1>1. UNCHANGED <<tables, currentRequestTimeStamp, RecordTable, generated, sending>>
  BY Zenon DEF AcceptReply
<1>2. RecordsOK' /\ WaysStay
  BY <1>0, <1>1, SameRecords, Zenon DEF tables
<1>3. SendingOK'
  BY <1>0, <1>1, <1>2, StillScheduled, Zenon DEF SendingOK
<1>4. FlyingOK'
  BY <1>0, <1>2, Taken, Zenon DEF AcceptReply
<1>5. PeersOK'
  <2>1. PICK n \in Nodes, p \in PacketType : n = f.to /\ p = f.pkt
    BY FrameFacts, Zenon
  <2>2. UpdateTable(n, p) /\ <<p.src, n>> \in Link
    BY <2>1, FrameFacts, Zenon DEF AcceptReply
  <2> QED BY <1>0, <2>2, PeerLearned, Zenon
<1>6. NodesOK'
  BY <1>0, <1>1, Zenon DEF NodesOK
<1>7. TablesSettled'
  BY <1>1, Zenon DEF Inv, TablesSettled, tables
<1> QED BY <1>2, <1>3, <1>4, <1>5, <1>6, <1>7, InvariantPartsNext, Zenon DEF Inv

-----------------------------------------------------------------------------
(* The theorems. *)

\* Nothing is recorded, learned or on its way at the start.
LEMMA InitInv == Init => Inv
<1> SUFFICES ASSUME Init PROVE Inv
  BY Zenon
<1>1. TablesSettled /\ RequestInit
  BY Zenon DEF Init
<1>2. IsABag(EmptyBag) /\ BagToSet(EmptyBag) = {}
  BY Zenon DEF IsABag, BagToSet, EmptyBag, SetToBag
<1>3. NodesOK
  BY <1>1, RequestAssumption DEF RequestInit, NodesOK, Stamps
<1>4. RecordsOK
  BY <1>1, Zenon DEF RequestInit, RecordsOK, RecordsLeadBack, EmptyMap
<1>5. PeersOK
  BY <1>1, Zenon DEF RequestInit, PeersOK, PeersAreHeard, EmptyMap
<1>6. SendingOK /\ FlyingOK
  BY <1>1, <1>2, Zenon DEF RequestInit, SendingOK, FlyingOK
<1> QED BY <1>1, <1>3, <1>4, <1>5, <1>6, InvariantParts, Zenon DEF Inv

\* A step that changes nothing keeps the invariant.
LEMMA StutterKeeps ==
    ASSUME Inv, UNCHANGED vars
    PROVE  Inv'
<1>0. NodesOK /\ RecordsOK /\ PeersOK /\ SendingOK /\ FlyingOK
  BY InvariantParts, Zenon DEF Inv
<1>1. UNCHANGED <<tables, currentRequestTimeStamp, RecordTable, learned,
                  generated, sending, flying>>
  BY Zenon DEF vars, requestVars
<1>2. RecordsOK' /\ WaysStay
  BY <1>0, <1>1, SameRecords, Zenon DEF tables
<1>3. SendingOK'
  BY <1>0, <1>1, <1>2, StillScheduled, Zenon DEF SendingOK
<1>4. FlyingOK'
  BY <1>0, <1>1, <1>2, StillFlying, Zenon DEF FlyingOK
<1>5. NodesOK'
  BY <1>0, <1>1, Zenon DEF NodesOK
<1>6. PeersOK'
  BY <1>0, <1>1, Zenon DEF PeersOK, PeersAreHeard
<1>7. TablesSettled'
  BY <1>1, Zenon DEF Inv, TablesSettled, tables
<1> QED BY <1>2, <1>3, <1>4, <1>5, <1>6, <1>7, InvariantPartsNext, Zenon DEF Inv

\* The invariant holds and the tables that discovery left do not change.
LEMMA InvHolds == Spec => []Inv
<1>1. Inv /\ [Next]_vars => Inv'
  <2> SUFFICES ASSUME Inv, [Next]_vars PROVE Inv'
    BY Zenon
  <2>1. ASSUME NEW n \in Requesters, generaterRandomRequest(n) PROVE Inv'
    BY <2>1, GenerateKeeps, Zenon
  <2>2. ASSUME NEW p \in BagToSet(sending), SendNic(p) PROVE Inv'
    BY <2>2, SendKeeps, Zenon
  <2>3. ASSUME NEW f \in BagToSet(flying), handleNicNormalMsg(f) PROVE Inv'
    BY <2>3, DropKeeps, AnswerKeeps, ForwardKeeps, ForwardReplyKeeps, AcceptKeeps, Zenon
       DEF handleNicNormalMsg
  <2>4. CASE UNCHANGED vars
    BY <2>4, StutterKeeps, Zenon
  <2> QED BY <2>1, <2>2, <2>3, <2>4, Zenon DEF Next, RequestNext
<1> QED BY <1>1, InitInv, PTL DEF Spec

\* The invariant of the request phase holds in every network, for any tables
\* that discovery may leave, whatever the network loses or repeats and however
\* many requests overlap (SR.cc:671-900).
THEOREM RequestInvHolds == Spec => []RequestInv
<1>1. Inv => RequestInv
  BY Zenon DEF Inv
<1> QED BY <1>1, InvHolds, PTL

\* The variables of the request phase keep their types.
THEOREM RequestTypes == Spec => []RequestTypeOK
<1>1. Inv => RequestTypeOK
  BY Zenon DEF Inv, RequestInv
<1> QED BY <1>1, InvHolds, PTL

\* A reply is only ever sent to a node that is the requester or has a record
\* of it, and the records lead on: RecordTable[Id] is never read for a
\* requester that it does not hold (SR.cc:735, 803).
THEOREM RepliesFindTheWayAlways == Spec => []RepliesFindTheWay
<1>1. Inv => RepliesFindTheWay
  BY Zenon DEF Inv, RequestInv, RepliesFindTheWay, Replies, LeadsBack
<1> QED BY <1>1, InvHolds, PTL

\* TableRARE only ever learns nodes that this node hears (SR.cc:800, 819).
THEOREM PeersAreHeardAlways == Spec => []PeersAreHeard
<1>1. Inv => PeersAreHeard
  BY Zenon DEF Inv, RequestInv
<1> QED BY <1>1, InvHolds, PTL

-----------------------------------------------------------------------------
(* One request at a time: copies are recognised, and records form no cycle. *)

\* No node has the identifier of a requester other than itself.  Discovery
\* leaves such identifiers (SRDiscovery's UniqueIDs); a node that has none
\* differs from a requester, which took its identifier before its slot.
RequestersNamed == \A r \in Requesters : \A n \in Nodes : n # r => IDs[n] # IDs[r]

\* Two packets belong to the same request, which node n has sent or taken.
SameRequest(p, q) ==
    p.Id = q.Id /\ p.seq = q.seq /\ p.myTimestamp = q.myTimestamp

Handled(n, p) == <<p.Id, p.seq>> \in handled[n]

\* A node that has handled the request of packet p still has its stamp, and
\* unless it is the requester it has recorded another node that has.
HandlerOK(n, p) ==
    /\ currentRequestTimeStamp[n] = p.myTimestamp
    /\ \/ myID[n] = p.Id
       \/ p.Id \in DOMAIN RecordTable[n] /\ Handled(RecordTable[n][p.Id], p)

\* While requests do not overlap, all packets are of one request; whoever
\* passes it on has handled it; and no node has handled a request that is yet
\* to come.
OneRequest ==
    /\ DOMAIN handled = Nodes
    /\ \A p, q \in Packets : SameRequest(p, q)
    /\ \A p \in Packets : p.queryType = "Q_REQUEST" => Handled(p.src, p)
    /\ \A p \in Packets : \A n \in Nodes : Handled(n, p) => HandlerOK(n, p)
    /\ \A n \in Nodes : \A r \in Requesters : \A h \in handled[n] :
         h[1] = myID[r] => h[2] \in 1..generated[r]

RoundInv == OneRequest /\ RecordsAcyclic

\* The records say the same after the step.
SameWays ==
    \A n \in Nodes :
        /\ DOMAIN RecordTable'[n] = DOMAIN RecordTable[n]
        /\ \A id \in DOMAIN RecordTable[n] : RecordTable'[n][id] = RecordTable[n][id]

\* A step after which the records are the same, and which at most adds replies
\* to the request that is under way.
LEMMA SameWaysKeep ==
    ASSUME Inv, RoundInv, SameWays,
           UNCHANGED <<myID, currentRequestTimeStamp, generated, handled>>,
           \A q \in Packets' : \/ q \in Packets
                               \/ /\ q.queryType = "Q_REPLY"
                                  /\ \E p \in Packets : SameRequest(p, q)
    PROVE  RoundInv'
<1>1. \A q \in Packets' : \E p \in Packets : SameRequest(p, q)
  BY Zenon DEF RoundInv, OneRequest, SameRequest
<1>2. ASSUME NEW p \in Packets', NEW q \in Packets' PROVE SameRequest(p, q)
  <2>1. PICK a \in Packets, b \in Packets : SameRequest(a, p) /\ SameRequest(b, q)
    BY <1>1, Zenon
  <2> QED BY <2>1, Zenon DEF RoundInv, OneRequest, SameRequest
<1>3. ASSUME NEW p \in Packets', p.queryType = "Q_REQUEST" PROVE Handled(p.src, p)'
  BY <1>3, Zenon DEF RoundInv, OneRequest, Handled
<1>4. ASSUME NEW q \in Packets', NEW n \in Nodes, Handled(n, q)' PROVE HandlerOK(n, q)'
  <2>1. PICK p \in Packets : SameRequest(p, q)
    BY <1>1, Zenon
  <2>2. Handled(n, p)
    BY <1>4, <2>1, Zenon DEF Handled, SameRequest
  <2>3. HandlerOK(n, p)
    BY <2>2, Zenon DEF RoundInv, OneRequest
  <2> QED BY <2>1, <2>3, Zenon DEF HandlerOK, Handled, SameRequest, SameWays
<1>5. RecordsAcyclic'
  <2> SUFFICES ASSUME NEW r \in Requesters, NEW C \in SUBSET (Nodes \ {r}), C # {}
               PROVE  \E n \in C : myID[r] \in DOMAIN RecordTable'[n] =>
                                     RecordTable'[n][myID[r]] \notin C
    BY Zenon DEF RecordsAcyclic
  <2>1. PICK n \in C : myID[r] \in DOMAIN RecordTable[n] =>
                         RecordTable[n][myID[r]] \notin C
    BY Zenon DEF RoundInv, RecordsAcyclic
  <2> QED BY <2>1, Zenon DEF SameWays
<1> QED BY <1>2, <1>3, <1>4, <1>5, Zenon DEF RoundInv, OneRequest, SameRequest

\* A node that has not handled the request takes it: whoever sent it has
\* handled it, so the new record leads from a node outside of those that have
\* handled the request into them, where the records lead to the requester.
LEMMA RecordKeeps ==
    ASSUME Inv, RequestersNamed, RoundInv, NEW f \in BagToSet(flying), NewRequest(f),
           \A q \in Packets' : \/ q \in Packets
                               \/ SameRequest(f.pkt, q) /\ q.src = f.to
    PROVE  RoundInv'
<1>0. PICK n \in Nodes, p \in Packets : n = f.to /\ p = f.pkt
  BY FrameFacts, Zenon DEF Packets
<1>1. /\ p.queryType = "Q_REQUEST" /\ currentRequestTimeStamp[n] # p.myTimestamp
      /\ UNCHANGED <<myID, generated>>
      /\ p.src \in Nodes /\ p.Id \in UINT16
  BY <1>0, FrameFacts, Zenon DEF NewRequest, AlreadySent, tables
<1>2. /\ currentRequestTimeStamp' = [currentRequestTimeStamp EXCEPT ![n] = p.myTimestamp]
      /\ RecordTable' = [RecordTable EXCEPT ![n] = MapPut(@, p.Id, p.src)]
      /\ handled' = [handled EXCEPT ![n] = @ \cup {<<p.Id, p.seq>>}]
  BY <1>0, Zenon DEF NewRequest, BecomesCurrent, RecordSender
<1>3. DOMAIN handled = Nodes /\ Handled(p.src, p)
  BY <1>1, Zenon DEF RoundInv, OneRequest
<1>4. ~ Handled(n, p)
  BY <1>1, Zenon DEF RoundInv, OneRequest, HandlerOK
<1>5. /\ RecordsOK /\ NodesOK
      /\ \A m \in Nodes : myID[m] = IDs[m]
  BY InvariantParts, Zenon DEF Inv, TablesSettled
<1>6. /\ \A m \in Nodes \ {n} : /\ handled'[m] = handled[m]
                                /\ RecordTable'[m] = RecordTable[m]
                                /\ currentRequestTimeStamp'[m] = currentRequestTimeStamp[m]
      /\ handled'[n] = handled[n] \cup {<<p.Id, p.seq>>}
      /\ currentRequestTimeStamp'[n] = p.myTimestamp
      /\ p.Id \in DOMAIN RecordTable'[n] /\ RecordTable'[n][p.Id] = p.src
      /\ \A id \in DOMAIN RecordTable'[n] \ {p.Id} :
           id \in DOMAIN RecordTable[n] /\ RecordTable'[n][id] = RecordTable[n][id]
  <2>1. DOMAIN RecordTable = Nodes /\ DOMAIN currentRequestTimeStamp = Nodes
    BY <1>5, Zenon DEF RecordsOK, NodesOK
  <2> QED BY <1>2, <1>3, <2>1, Zenon DEF MapPut
<1>7. \A q \in Packets' : SameRequest(p, q)
  BY <1>0, Zenon DEF RoundInv, OneRequest, SameRequest
<1>8. \A a \in Packets', b \in Packets' : SameRequest(a, b)
  BY <1>7, Zenon DEF SameRequest
<1>9. ASSUME NEW q \in Packets', q.queryType = "Q_REQUEST" PROVE Handled(q.src, q)'
  <2>1. CASE q \in Packets
    <3>1. q.src \in Nodes
      BY <2>1, Zenon DEF Inv, RequestInv, RequestTypeOK, Packets, PacketType
    <3> QED BY <1>6, <1>9, <2>1, <3>1, Zenon DEF RoundInv, OneRequest, Handled
  <2>2. CASE SameRequest(f.pkt, q) /\ q.src = f.to
    BY <1>0, <1>6, <2>2, Zenon DEF Handled, SameRequest
  <2> QED BY <2>1, <2>2, Zenon
<1>10. ASSUME NEW q \in Packets', NEW m \in Nodes, Handled(m, q)' PROVE HandlerOK(m, q)'
  <2>1. q.Id = p.Id /\ q.seq = p.seq /\ q.myTimestamp = p.myTimestamp
    BY <1>7, Zenon DEF SameRequest
  <2>2. \A k \in Nodes : Handled(k, p) => Handled(k, q)'
    BY <1>6, <2>1, Zenon DEF Handled
  <2>3. CASE m = n
    BY <1>1, <1>3, <1>6, <2>1, <2>2, <2>3, Zenon DEF HandlerOK
  <2>4. CASE m # n
    <3>1. Handled(m, p)
      BY <1>6, <1>10, <2>1, <2>4, Zenon DEF Handled
    <3>2. HandlerOK(m, p)
      BY <3>1, Zenon DEF RoundInv, OneRequest
    <3>3. p.Id \in DOMAIN RecordTable[m] => RecordTable[m][p.Id] \in Nodes
      BY <1>5, Zenon DEF RecordsOK, RecordsLeadBack
    <3> QED BY <1>1, <1>6, <2>1, <2>2, <2>4, <3>2, <3>3, Zenon DEF HandlerOK
  <2> QED BY <2>3, <2>4, Zenon
<1>11. ASSUME NEW m \in Nodes, NEW r \in Requesters, NEW h \in handled'[m],
              h[1] = myID[r]
       PROVE  h[2] \in 1..generated[r]
  <2>1. CASE h \in handled[m]
    BY <1>11, <2>1, Zenon DEF RoundInv, OneRequest
  <2>2. CASE m = n /\ h = <<p.Id, p.seq>>
    BY <1>1, <1>3, <1>11, <2>2, Zenon DEF RoundInv, OneRequest, Handled
  <2> QED BY <1>6, <2>1, <2>2, Zenon
<1>12. RecordsAcyclic'
  <2> SUFFICES ASSUME NEW r \in Requesters, NEW C \in SUBSET (Nodes \ {r}), C # {},
                      \A m \in C : /\ myID[r] \in DOMAIN RecordTable'[m]
                                   /\ RecordTable'[m][myID[r]] \in C
               PROVE  FALSE
    BY <1>1, Zenon DEF RecordsAcyclic
  <2>1. CASE n \notin C \/ p.Id # myID[r]
    <3>1. \A m \in C : /\ myID[r] \in DOMAIN RecordTable[m]
                       /\ RecordTable[m][myID[r]] \in C
      BY <1>6, <2>1
    <3> QED BY <3>1, Zenon DEF RoundInv, RecordsAcyclic
  <2>2. CASE n \in C /\ p.Id = myID[r]
    <3>1. PICK D \in SUBSET (Nodes \ {r}) : D = {m \in C : Handled(m, p)}
      BY Zenon
    <3>2. p.src \in D /\ n \notin D
      BY <1>3, <1>4, <1>6, <2>2, <3>1, Zenon
    <3>3. ASSUME NEW m \in D
          PROVE  myID[r] \in DOMAIN RecordTable[m] /\ RecordTable[m][myID[r]] \in D
      <4>1. m \in C /\ Handled(m, p) /\ m # n /\ m \in Nodes /\ m # r
        BY <3>1, <3>2, Zenon
      <4>2. myID[m] # p.Id
        BY <1>5, <2>2, <4>1, RequestAssumption, Zenon DEF RequestersNamed, Sensors
      <4>3. p.Id \in DOMAIN RecordTable[m] /\ Handled(RecordTable[m][p.Id], p)
        BY <4>1, <4>2, Zenon DEF RoundInv, OneRequest, HandlerOK
      <4>4. RecordTable[m][myID[r]] \in C
        BY <1>6, <4>1, Zenon
      <4> QED BY <2>2, <3>1, <4>3, <4>4, Zenon
    <3> QED BY <3>2, <3>3, Zenon DEF RoundInv, RecordsAcyclic
  <2> QED BY <2>1, <2>2, Zenon
<1>13. DOMAIN handled' = Nodes
  BY <1>2, <1>3, Zenon
<1> QED BY <1>1, <1>8, <1>9, <1>10, <1>11, <1>12, <1>13, Zenon
        DEF RoundInv, OneRequest, SameRequest

\* Removing a packet or a frame, or sending the packet as frames.
LEMMA FewerPackets ==
    ASSUME Inv, RoundInv, Packets' \subseteq Packets,
           UNCHANGED <<tables, currentRequestTimeStamp, RecordTable, generated, handled>>
    PROVE  RoundInv'
<1>1. SameWays
  BY Zenon DEF SameWays
<1> QED BY <1>1, SameWaysKeep, Zenon DEF tables

\* A request that does not overlap another is generated when none is under way.
LEMMA RoundGenerate ==
    ASSUME ~ overlapped', RequestersNamed, Inv, RoundInv,
           NEW r \in Requesters, generaterRandomRequest(r)
    PROVE  RoundInv'
<1>0. /\ sending = EmptyBag /\ flying = EmptyBag
      /\ UNCHANGED <<tables, RecordTable, flying>>
      /\ r \in Nodes
  BY RequestAssumption, Zenon DEF generaterRandomRequest, Quiet, Sensors
<1>1. PICK to : sending' = sending (+)
        SetToBag({Packet("Q_REQUEST", r, to, myID[r], Stamp[r], generated[r] + 1)})
  BY Zenon DEF generaterRandomRequest, scheduleMsgToSendNic
<1>2. PICK p : p = Packet("Q_REQUEST", r, to, myID[r], Stamp[r], generated[r] + 1)
  BY Zenon
<1>3. /\ p.queryType = "Q_REQUEST" /\ p.src = r /\ p.Id = myID[r]
      /\ p.myTimestamp = Stamp[r] /\ p.seq = generated[r] + 1
  BY <1>2, Zenon DEF Packet
<1>4. Packets' = {p}
  <2>1. IsABag(EmptyBag) /\ BagToSet(EmptyBag) = {}
    BY Zenon DEF IsABag, BagToSet, EmptyBag, SetToBag
  <2>2. BagToSet(sending') = {p}
    BY <1>0, <1>1, <1>2, <2>1, BagPlus
  <2> QED BY <1>0, <2>1, <2>2, Zenon DEF Packets
<1>5. /\ currentRequestTimeStamp' = [currentRequestTimeStamp EXCEPT ![r] = Stamp[r]]
      /\ generated' = [generated EXCEPT ![r] = generated[r] + 1]
      /\ handled' = [handled EXCEPT ![r] = @ \cup {<<myID[r], generated[r] + 1>>}]
  BY Zenon DEF generaterRandomRequest
<1>6. /\ currentRequestTimeStamp \in [Nodes -> Stamps] /\ DOMAIN handled = Nodes
      /\ generated \in [Nodes -> 0..MaxRequests]
      /\ \A m \in Nodes : myID[m] = IDs[m]
      /\ myID' = myID
  BY <1>0, Zenon DEF Inv, TablesSettled, RequestInv, RequestTypeOK, RoundInv, OneRequest, tables
<1>7. \A n \in Nodes : Handled(n, p)' => n = r
  <2> SUFFICES ASSUME NEW n \in Nodes, n # r, <<p.Id, p.seq>> \in handled'[n]
               PROVE  FALSE
    BY Zenon DEF Handled
  <2>1. <<myID[r], generated[r] + 1>> \in handled[n]
    BY <1>3, <1>5, <1>6, Zenon
  <2>2. generated[r] + 1 \in 1..generated[r]
    BY <2>1, Zenon DEF RoundInv, OneRequest
  <2> QED BY <1>0, <1>6, <2>2, RequestAssumption
<1>8. Handled(r, p)' /\ HandlerOK(r, p)'
  BY <1>0, <1>3, <1>5, <1>6, Zenon DEF Handled, HandlerOK
<1>9. ASSUME NEW n \in Nodes, NEW s \in Requesters, NEW h \in handled'[n],
             h[1] = myID[s]
      PROVE  h[2] \in 1..generated'[s]
  <2>0. s \in Nodes /\ generated[s] \in Nat
    BY <1>6, RequestAssumption DEF Sensors
  <2>1. CASE h \in handled[n]
    <3>1. h[2] \in 1..generated[s]
      BY <1>9, <2>1, Zenon DEF RoundInv, OneRequest
    <3>2. CASE s # r
      BY <1>5, <1>6, <2>0, <3>1, <3>2, Zenon
    <3>3. CASE s = r
      <4>1. generated'[s] = generated[s] + 1
        BY <1>5, <1>6, <2>0, <3>3, Zenon
      <4> QED BY <2>0, <3>1, <4>1
    <3> QED BY <3>2, <3>3, Zenon
  <2>2. CASE n = r /\ h = <<myID[r], generated[r] + 1>>
    <3>1. s = r
      BY <1>0, <1>6, <1>9, <2>0, <2>2, Zenon DEF RequestersNamed
    <3> QED BY <1>5, <1>6, <2>0, <2>2, <3>1
  <2> QED BY <1>5, <1>6, <2>1, <2>2, Zenon
<1>10. RecordsAcyclic'
  BY <1>0, <1>6, Zenon DEF RoundInv, RecordsAcyclic
<1>11. DOMAIN handled' = Nodes
  BY <1>5, <1>6, Zenon
<1>12. OneRequest'
  BY <1>3, <1>4, <1>6, <1>7, <1>8, <1>9, <1>11, Zenon DEF OneRequest, SameRequest
<1> QED BY <1>10, <1>12, Zenon DEF RoundInv

\* The frames of a packet carry that packet.
LEMMA RoundSend ==
    ASSUME Inv, RoundInv, NEW p \in BagToSet(sending), SendNic(p)
    PROVE  RoundInv'
<1>0. SendingOK /\ FlyingOK
  BY InvariantParts, Zenon DEF Inv
<1>1. BagToSet(sending') \subseteq BagToSet(sending)
  BY <1>0, BagMinus, Zenon DEF SendNic, SendingOK
<1>2. PICK D \in Deliveries(p) : flying' = flying (+) SetToBag(D)
  BY Zenon DEF SendNic
<1>3. BagToSet(flying') = BagToSet(flying) \cup D
  BY <1>0, <1>2, BagPlus, Zenon DEF FlyingOK
<1>4. \A f \in D : f.pkt = p
  BY <1>0, DeliveriesFacts, Zenon DEF SendingOK
<1>5. Packets' \subseteq Packets
  BY <1>1, <1>3, <1>4, Zenon DEF Packets
<1> QED BY <1>5, FewerPackets, Zenon DEF SendNic

\* The handlers.
LEMMA RoundReceive ==
    ASSUME RequestersNamed, Inv, RoundInv,
           NEW f \in BagToSet(flying), handleNicNormalMsg(f)
    PROVE  RoundInv'
<1>0. SendingOK /\ FlyingOK /\ RecordsOK
  BY InvariantParts, Zenon DEF Inv
<1>1. f.pkt \in Packets /\ f.pkt \in PacketType /\ f.to \in Nodes
  BY FrameFacts, Zenon DEF Packets
<1>2. BagToSet(flying') \subseteq BagToSet(flying)
  BY <1>0, BagMinus, Zenon
     DEF FlyingOK, Take, handleNicNormalMsg, DropCopy, AnswerRequest, ForwardRequest,
         NewRequest, ForwardReply, AcceptReply
<1>3. CASE DropCopy(f) \/ AcceptReply(f)
  <2>1. Packets' \subseteq Packets
    BY <1>2, <1>3, Zenon DEF Packets, DropCopy, AcceptReply
  <2> QED BY <1>3, <2>1, FewerPackets, Zenon DEF DropCopy, AcceptReply
<1>4. ASSUME NEW S, sending' = sending (+) SetToBag(S), NEW q \in Packets'
      PROVE  q \in Packets \/ q \in S
  <2>1. BagToSet(sending') = BagToSet(sending) \cup S
    BY <1>0, <1>4, BagPlus, Zenon DEF SendingOK
  <2> QED BY <1>2, <2>1, Zenon DEF Packets
<1>5. CASE AnswerRequest(f)
  <2>1. PICK r : r = Packet("Q_REPLY", f.to, ReplyHop(f.to, f.pkt), f.pkt.Id,
                            f.pkt.myTimestamp, f.pkt.seq)
    BY Zenon
  <2>2. SameRequest(f.pkt, r) /\ r.src = f.to
    BY <2>1, Zenon DEF SameRequest, Packet
  <2>3. sending' = sending (+) SetToBag({r})
    BY <1>5, <2>1, Zenon DEF AnswerRequest, scheduleMsgToSendNic
  <2>4. \A q \in Packets' : q \in Packets \/ q = r
    BY <1>4, <2>3
  <2> QED BY <1>5, <2>2, <2>4, RecordKeeps, Zenon DEF AnswerRequest
<1>6. CASE ForwardRequest(f)
  <2>1. PICK S : S = {[f.pkt EXCEPT !.src = f.to, !.dest = m] : m \in ForwardTo(f.to, f.pkt)}
    BY Zenon
  <2>2. ASSUME NEW q \in S PROVE SameRequest(f.pkt, q) /\ q.src = f.to
    <3>1. PICK m : q = [f.pkt EXCEPT !.src = f.to, !.dest = m]
      BY <2>1, Zenon
    <3> QED BY <1>1, <3>1, Zenon DEF PacketType, SameRequest
  <2>3. sending' = sending (+) SetToBag(S)
    BY <1>6, <2>1, Zenon DEF ForwardRequest
  <2>4. \A q \in Packets' : q \in Packets \/ q \in S
    BY <1>4, <2>3, Zenon
  <2> QED BY <1>6, <2>2, <2>4, RecordKeeps, Zenon DEF ForwardRequest
<1>7. CASE ForwardReply(f)
  <2>1. PICK m : m = MapGet(RecordTable[f.to], f.pkt.Id, UNSPECIFIED)
    BY Zenon
  <2>2. PICK r : r = [f.pkt EXCEPT !.src = f.to, !.dest = m]
    BY Zenon
  <2>3. f.pkt.queryType = "Q_REPLY" /\ f.pkt.Id # myID[f.to]
    BY <1>7, Zenon DEF ForwardReply
  <2>4. r.queryType = "Q_REPLY" /\ SameRequest(f.pkt, r)
    BY <1>1, <2>2, <2>3, Zenon DEF PacketType, SameRequest
  <2>5. sending' = sending (+) SetToBag({r})
    BY <1>7, <2>1, <2>2, Zenon DEF ForwardReply, scheduleMsgToSendNic
  <2>6. \A q \in Packets' : q \in Packets \/ q = r
    BY <1>4, <2>5
  <2>7. SameWays
    <3>1. f.pkt.Id \in DOMAIN RecordTable[f.to]
      BY <2>3, FrameFacts, Zenon DEF KnowsTheWay
    <3>2. m = RecordTable[f.to][f.pkt.Id]
      BY <2>1, <3>1, Zenon DEF MapGet
    <3>3. RecordTable' = [RecordTable EXCEPT ![f.to] = MapPut(@, f.pkt.Id, m)]
      BY <1>7, <2>1, Zenon DEF ForwardReply
    <3> QED BY <1>0, <1>1, <3>1, <3>2, <3>3, Zenon DEF RecordsOK, SameWays, MapPut
  <2>8. UNCHANGED <<myID, currentRequestTimeStamp, generated, handled>>
    BY <1>7, Zenon DEF ForwardReply, tables
  <2> QED BY <1>1, <2>4, <2>6, <2>7, <2>8, SameWaysKeep, Zenon
<1> QED BY <1>3, <1>5, <1>6, <1>7, Zenon DEF handleNicNormalMsg

\* Requests that have overlapped have overlapped for good.
LEMMA OverlapStays ==
    ASSUME [Next]_vars, ~ overlapped'
    PROVE  ~ overlapped
<1>1. ASSUME NEW n \in Requesters, generaterRandomRequest(n) PROVE ~ overlapped
  BY <1>1 DEF generaterRandomRequest
<1>2. ASSUME NEW p, SendNic(p) PROVE ~ overlapped
  BY <1>2, Zenon DEF SendNic
<1>3. ASSUME NEW f, handleNicNormalMsg(f) PROVE ~ overlapped
  BY <1>3, Zenon DEF handleNicNormalMsg, DropCopy, AnswerRequest, ForwardRequest,
       NewRequest, ForwardReply, AcceptReply
<1>4. CASE UNCHANGED vars
  BY <1>4, Zenon DEF vars, requestVars
<1> QED BY <1>1, <1>2, <1>3, <1>4, Zenon DEF Next, RequestNext

\* While requests do not overlap, all packets are of one request, and the
\* records of a requester form no cycle.
LEMMA RoundHolds ==
    ASSUME RequestersNamed
    PROVE  Spec => [](~ overlapped => RoundInv)
<1>1. Init => RoundInv
  <2> SUFFICES ASSUME Init PROVE RoundInv
    BY Zenon
  <2>1. RequestInit
    BY Zenon DEF Init
  <2>2. Packets = {}
    BY <2>1, Zenon DEF RequestInit, Packets, BagToSet, EmptyBag, SetToBag
  <2>3. RecordsAcyclic
    BY <2>1, RequestAssumption, Zenon DEF RequestInit, RecordsAcyclic, EmptyMap, Sensors
  <2> QED BY <2>1, <2>2, <2>3, Zenon DEF RequestInit, RoundInv, OneRequest
<1>2. ASSUME Inv, ~ overlapped => RoundInv, [Next]_vars, ~ overlapped'
      PROVE  RoundInv'
  <2>1. RoundInv
    BY <1>2, OverlapStays, Zenon
  <2>2. CASE UNCHANGED vars
    BY <1>2, <2>1, <2>2, FewerPackets, Zenon DEF vars, requestVars, Packets
  <2> QED BY <1>2, <2>1, <2>2, RoundGenerate, RoundSend, RoundReceive, Zenon
          DEF Next, RequestNext
<1> QED BY <1>1, <1>2, InvHolds, PTL DEF Spec

\* While requests do not overlap, a copy of a request that its receiver has
\* handled is recognised by its stamp and destroyed (SR.cc:687-691); the run
\* copy_passed_on shows that requests that overlap make it forgotten.
THEOREM CopiesDestroyedAlways ==
    ASSUME RequestersNamed
    PROVE  Spec => [](~ overlapped => CopiesDestroyed)
<1>1. Inv /\ RoundInv => CopiesDestroyed
  <2> SUFFICES ASSUME Inv, RoundInv, NEW f \in BagToSet(flying),
                      <<f.pkt.Id, f.pkt.seq>> \in handled[f.to]
               PROVE  currentRequestTimeStamp[f.to] = f.pkt.myTimestamp
    BY Zenon DEF CopiesDestroyed, AlreadySent
  <2> QED BY FrameFacts, Zenon DEF RoundInv, OneRequest, Packets, Handled, HandlerOK
<1> QED BY <1>1, InvHolds, RoundHolds, PTL

\* As long as no request is generated while another is under way, the records of
\* a requester never form a cycle in which a reply would be passed on for ever
\* (SR.cc:693-697, 803), whatever is lost or repeated.
THEOREM NoReplyCycleAlways ==
    ASSUME RequestersNamed
    PROVE  Spec => []NoReplyCycle
<1>1. (~ overlapped => RoundInv) => NoReplyCycle
  BY Zenon DEF RoundInv, NoReplyCycle
<1> QED BY <1>1, RoundHolds, PTL

=============================================================================
