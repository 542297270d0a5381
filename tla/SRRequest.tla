----------------------------- MODULE SRRequest -----------------------------
(***************************************************************************)
(* The request phase of SR.cc.  A sensor generates a request for HUMIDITY; *)
(* every node that receives it answers, passes it to a neighbour whose     *)
(* Bloom filter claims the measure, to the peer that TableRARE has learned *)
(* or to its first neighbour; the answer travels back through RecordTable. *)
(*                                                                         *)
(* What discovery has set up (myID, neighborList, NeighborsTable) is read  *)
(* here and never written.                                                 *)
(***************************************************************************)
EXTENDS SRNetwork, IDBuilder, RAREPeers, Bags

CONSTANTS
    Requesters,   \* the sensors that found a slot to generate requests in
    Stamp,        \* the time stamp of a sensor's requests
    MaxRequests,  \* bound on the requests of one sensor
    MaxCount,     \* bound on the answers counted for one peer
    MaxFaults     \* bound on the frames that are lost or repeated

\* LIVETIME = 2^18.
Stamps == {t \in Nat : t < 262144}

\* A sensor generates its requests LIVETIME seconds apart, and the stamp is
\* the time in ticks modulo LIVETIME.  A second is a whole number of ticks, so
\* LIVETIME seconds are a multiple of LIVETIME ticks: the stamp of a sensor is
\* always the same.
ASSUME RequestAssumption ==
    /\ Requesters \subseteq Sensors
    /\ Stamp \in [Requesters -> Stamps]
    /\ MaxRequests \in Nat /\ MaxCount \in Nat /\ MaxFaults \in Nat

VARIABLES
    myID, neighborList, NeighborsTable,  \* as in SRDiscovery
    provides,                \* nodes whose BloomPerso answers for HUMIDITY
    currentRequestTimeStamp,
    RecordTable,             \* per node, a map from identifiers to addresses
    learned,                 \* per node, row HUMIDITY of learningTable
    generated,               \* the number of requests generated so far
    sending,                 \* bag of packets in the event queue
    flying,                  \* bag of frames the receivers have not handled
    handled,                 \* history: requests a node sent or took as new
    answered,                \* history: own requests that were answered
    overlapped,              \* history: a request was generated before the
                             \* packets of the last one were gone
    faults                   \* history: how many frames were lost or repeated

tables == <<myID, neighborList, NeighborsTable, provides>>

requestVars == <<currentRequestTimeStamp, RecordTable, learned, generated,
                 sending, flying, handled, answered, overlapped, faults>>

vars == <<tables, requestVars>>

\* The fields of an SRPacket with msgType MSG_NORMAL and queryId HUMIDITY.
\* seq is history: which of the requester's requests the packet belongs to.
Packet(query, from, to, id, stamp, seq) ==
    [queryType |-> query, src |-> from, dest |-> to, Id |-> id,
     myTimestamp |-> stamp, seq |-> seq]

RequestInit ==
    /\ currentRequestTimeStamp = [n \in Nodes |-> 0]
    /\ RecordTable = [n \in Nodes |-> EmptyMap]
    /\ learned = [n \in Nodes |-> EmptyMap]
    /\ generated = [n \in Nodes |-> 0]
    /\ sending = EmptyBag
    /\ flying = EmptyBag
    /\ handled = [n \in Nodes |-> {}]
    /\ answered = [n \in Nodes |-> {}]
    /\ overlapped = FALSE
    /\ faults = 0

-----------------------------------------------------------------------------
(* Choosing where a packet goes. *)

\* BloomTable::GetNextHop: the node itself unless it is the source, else the
\* first neighbour whose filter claims the measure.  A stored filter shares
\* its bits with the neighbour's own.
GetNextHop(n, Source) ==
    LET claim == {m \in DOMAIN NeighborsTable[n] : NeighborsTable[n][m] \in provides}
    IN  IF ~ Source /\ n \in provides THEN n
        ELSE IF claim # {} THEN Min(claim) ELSE UNSPECIFIED

\* TableRARE::LearningPeerSelection while HUMIDITY is the only query.
LearningPeerSelection(n) ==
    IF DOMAIN learned[n] = {} THEN UNSPECIFIED ELSE BestPeer(learned[n])

\* The entries of neighborList, in the order of their keys, up to the first
\* whose address is not the packet's destination: where the packet is sent.
FloodTo(n, dest) ==
    LET others == {k \in DOMAIN neighborList[n] : neighborList[n][k] # dest}
    IN  IF others = {} THEN {} ELSE {neighborList[n][Min(others)]}

\* Where a request that n cannot answer goes on to, having come as packet p:
\* one address, or none when n has no neighbour.
ForwardTo(n, p) ==
    LET claimed == GetNextHop(n, FALSE)
        peer    == LearningPeerSelection(n)
    IN  IF claimed \notin {UNSPECIFIED, p.src} THEN {claimed}
        ELSE IF peer # UNSPECIFIED THEN {peer} ELSE FloodTo(n, p.dest)

scheduleMsgToSendNic(p) == sending' = sending (+) SetToBag({p})

Take(f) == flying' = flying (-) SetToBag({f})

-----------------------------------------------------------------------------
(* Self messages. *)

Quiet == sending = EmptyBag /\ flying = EmptyBag

\* generaterRandomRequest.  Whether iCanSendRequest is set is traced, but the
\* request is generated all the same.
generaterRandomRequest(n) ==
    LET claimed == GetNextHop(n, TRUE)
        peer    == LearningPeerSelection(n)
        to      == IF claimed # UNSPECIFIED THEN claimed
                   ELSE IF peer # UNSPECIFIED THEN peer ELSE BROADCAST
        seq     == generated[n] + 1
    IN
    /\ generated[n] < MaxRequests
    /\ currentRequestTimeStamp' = [currentRequestTimeStamp EXCEPT ![n] = Stamp[n]]
    /\ scheduleMsgToSendNic(Packet("Q_REQUEST", n, to, myID[n], Stamp[n], seq))
    /\ generated' = [generated EXCEPT ![n] = seq]
    /\ handled' = [handled EXCEPT ![n] = @ \cup {<<myID[n], seq>>}]
    /\ overlapped' = (overlapped \/ ~ Quiet)
    /\ UNCHANGED <<tables, RecordTable, learned, flying, answered, faults>>

\* handleSelfMsg and SINK_handleSelfMsg on a packet scheduled by the node.
SendNic(p) ==
    /\ sending' = sending (-) SetToBag({p})
    /\ \E delivered \in Deliveries(p) :
         /\ flying' = flying (+) SetToBag(delivered)
         /\ faults' = faults + Cardinality(SymDiff(delivered, Intended(p)))
    /\ faults' <= MaxFaults
    /\ UNCHANGED <<tables, currentRequestTimeStamp, RecordTable, learned,
                   generated, handled, answered, overlapped>>

-----------------------------------------------------------------------------
(* handleNicNormalMsg: node f.to, a sensor or the sink, receives f.pkt. *)

\* A slip of AlreadySent: no copy is recognised.
NeverSent(n, p) == FALSE

AlreadySent(n, p) == currentRequestTimeStamp[n] = p.myTimestamp

DropCopy(f) ==
    /\ f.pkt.queryType = "Q_REQUEST"
    /\ AlreadySent(f.to, f.pkt)
    /\ Take(f)
    /\ UNCHANGED <<tables, currentRequestTimeStamp, RecordTable, learned,
                   generated, sending, handled, answered, overlapped, faults>>

\* A slip of RecordSender: nothing is recorded.
RecordNobody(n, p) == UNCHANGED RecordTable

\* RecordTable[message->getId()] = message->getSrcMACAddress()
RecordSender(n, p) ==
    RecordTable' = [RecordTable EXCEPT ![n] = MapPut(@, p.Id, p.src)]

BecomesCurrent(n, p) ==
    currentRequestTimeStamp' =
        [currentRequestTimeStamp EXCEPT ![n] = p.myTimestamp]

\* A request that is not the current one becomes it.
NewRequest(f) ==
    LET n == f.to  p == f.pkt IN
    /\ p.queryType = "Q_REQUEST"
    /\ ~ AlreadySent(n, p)
    /\ Take(f)
    /\ BecomesCurrent(n, p)
    /\ RecordSender(n, p)
    /\ handled' = [handled EXCEPT ![n] = @ \cup {<<p.Id, p.seq>>}]
    /\ UNCHANGED <<tables, learned, generated, answered, overlapped, faults>>

\* A slip of ReplyHop: the branches are exchanged.
ReplyHopSwapped(n, p) == IF p.Id = myID[n] THEN p.src ELSE n

\* The node answers through the sender, which it has just recorded; an answer
\* to itself goes to its own address.
ReplyHop(n, p) == IF p.Id = myID[n] THEN n ELSE p.src

AnswerRequest(f) ==
    LET n == f.to  p == f.pkt IN
    /\ NewRequest(f)
    /\ GetNextHop(n, FALSE) = n
    /\ scheduleMsgToSendNic(
         Packet("Q_REPLY", n, ReplyHop(n, p), p.Id, p.myTimestamp, p.seq))

\* The node passes the request on, or keeps it for want of a neighbour.
ForwardRequest(f) ==
    LET n == f.to  p == f.pkt IN
    /\ NewRequest(f)
    /\ GetNextHop(n, FALSE) # n
    /\ sending' = sending (+)
         SetToBag({[p EXCEPT !.src = n, !.dest = m] : m \in ForwardTo(n, p)})

\* A slip of UpdateTable: the source address has been overwritten already.
UpdateTableLate(n, p) ==
    /\ MapGet(learned[n], n, 0) < MaxCount
    /\ learned' = [learned EXCEPT ![n] = Answered(@, n)]

\* tr->UpdateTable(HUMIDITY, message->getSrcMACAddress())
UpdateTable(n, p) ==
    /\ MapGet(learned[n], p.src, 0) < MaxCount
    /\ learned' = [learned EXCEPT ![n] = Answered(@, p.src)]

\* The answer to somebody else's request; operator[] adds the unspecified
\* address to RecordTable for a requester without a record.
ForwardReply(f) ==
    LET n == f.to  p == f.pkt
        nextPeerMAC == MapGet(RecordTable[n], p.Id, UNSPECIFIED)
    IN
    /\ p.queryType = "Q_REPLY" /\ p.Id # myID[n]
    /\ Take(f)
    /\ UpdateTable(n, p)
    /\ RecordTable' = [RecordTable EXCEPT ![n] = MapPut(@, p.Id, nextPeerMAC)]
    /\ scheduleMsgToSendNic([p EXCEPT !.src = n, !.dest = nextPeerMAC])
    /\ UNCHANGED <<tables, currentRequestTimeStamp, generated, handled, answered,
                   overlapped, faults>>

\* The answer to a request of this node.
AcceptReply(f) ==
    LET n == f.to  p == f.pkt IN
    /\ p.queryType = "Q_REPLY" /\ p.Id = myID[n]
    /\ Take(f)
    /\ UpdateTable(n, p)
    /\ answered' = [answered EXCEPT ![n] = @ \cup {p.seq}]
    /\ UNCHANGED <<tables, currentRequestTimeStamp, RecordTable, generated,
                   sending, handled, overlapped, faults>>

handleNicNormalMsg(f) ==
    DropCopy(f) \/ AnswerRequest(f) \/ ForwardRequest(f)
                \/ ForwardReply(f) \/ AcceptReply(f)

RequestNext ==
    \/ \E n \in Requesters : generaterRandomRequest(n)
    \/ \E p \in BagToSet(sending) : SendNic(p)
    \/ \E f \in BagToSet(flying) : handleNicNormalMsg(f)

-----------------------------------------------------------------------------
(* Properties. *)

Packets == BagToSet(sending) \cup {f.pkt : f \in BagToSet(flying)}

Replies == {p \in Packets : p.queryType = "Q_REPLY"}

PacketType ==
    [queryType : {"Q_REQUEST", "Q_REPLY"}, src : Nodes,
     dest : Nodes \cup {UNSPECIFIED, BROADCAST}, Id : UINT16,
     myTimestamp : Stamps, seq : 1..MaxRequests]

\* The members of SR.h that requests use keep their types.
RequestTypeOK ==
    /\ currentRequestTimeStamp \in [Nodes -> Stamps]
    /\ DOMAIN RecordTable = Nodes
    /\ \A n \in Nodes : /\ DOMAIN RecordTable[n] \subseteq UINT16
                        /\ \A id \in DOMAIN RecordTable[n] :
                             RecordTable[n][id] \in Nodes \cup {UNSPECIFIED}
    /\ DOMAIN learned = Nodes
    /\ \A n \in Nodes : /\ DOMAIN learned[n] \subseteq Nodes
                        /\ \A m \in DOMAIN learned[n] : learned[n][m] \in 1..MaxCount
    /\ generated \in [Nodes -> 0..MaxRequests]
    /\ IsABag(sending) /\ BagToSet(sending) \subseteq PacketType
    /\ IsABag(flying)
    /\ \A f \in BagToSet(flying) : f.to \in Nodes /\ f.pkt \in PacketType

\* n is the requester that identifier id names, or it knows a way to it.
KnowsTheWay(n, id) == myID[n] = id \/ id \in DOMAIN RecordTable[n]

\* The records of a requester lead from node to node, never to nowhere.
RecordsLeadBack ==
    \A n \in Nodes : \A id \in DOMAIN RecordTable[n] :
        /\ RecordTable[n][id] \in Nodes
        /\ KnowsTheWay(RecordTable[n][id], id)

\* A reply never runs out of its way back (SR.cc:696, 735, 803): whoever it is
\* sent to is the requester or has a record of it, whose next node again does,
\* so that reading RecordTable never yields the unspecified address.  This
\* holds even when requests overlap and frames are lost or repeated.
RepliesFindTheWay ==
    /\ RecordsLeadBack
    /\ \A p \in Replies : p.dest \in Nodes /\ KnowsTheWay(p.dest, p.Id)

\* In every set of nodes other than the requester, some node sends the reply
\* out of the set.
RecordsAcyclic ==
    \A r \in Requesters : \A C \in SUBSET (Nodes \ {r}) :
        C # {} => \E n \in C :
            LET id == myID[r] IN
            id \in DOMAIN RecordTable[n] => RecordTable[n][id] \notin C

\* As long as no request has been generated while another was under way, the
\* records of one requester never form a cycle in which a reply would be passed
\* on for ever (SR.cc:693-697, 803), whatever is lost or repeated.
NoReplyCycle == ~ overlapped => RecordsAcyclic

\* Only nodes that this node hears are learned as peers (SR.cc:800, 819).
PeersAreHeard ==
    \A n \in Nodes : \A m \in DOMAIN learned[n] : <<m, n>> \in Link

\* A reply goes to, and a request comes from, a node that knows the way back.
LeadsBack(p) ==
    IF p.queryType = "Q_REPLY" THEN p.dest \in Nodes /\ KnowsTheWay(p.dest, p.Id)
                               ELSE KnowsTheWay(p.src, p.Id)

\* Frames follow the links, and a unicast frame reaches its destination only.
FramesFollowLinks ==
    \A f \in BagToSet(flying) :
        /\ <<f.pkt.src, f.to>> \in Link
        /\ f.pkt.dest # BROADCAST => f.to = f.pkt.dest

\* The inductive invariant of the request phase: every packet on its way and
\* every record lead back to the requester (SR.cc:693-812).
RequestInv ==
    /\ RequestTypeOK
    /\ RecordsLeadBack
    /\ \A p \in Packets : LeadsBack(p)
    /\ FramesFollowLinks
    /\ PeersAreHeard

\* "I Already have sent this request [...] I should destroy this copy"
\* (SR.cc:688): what a node destroys as a copy is a request it has sent, at
\* least while requests do not overlap.
OnlyCopiesDropped ==
    ~ overlapped =>
        \A f \in BagToSet(flying) :
            f.pkt.queryType = "Q_REQUEST" /\ AlreadySent(f.to, f.pkt)
            => <<f.pkt.Id, f.pkt.seq>> \in handled[f.to]

\* "I Already have sent this request [...] I should destroy this copy"
\* (SR.cc:688): a copy of a request that its receiver has sent or taken before
\* finds the stamp of that request still current, so that it is destroyed.
CopiesDestroyed ==
    \A f \in BagToSet(flying) :
        f.pkt.queryType = "Q_REQUEST" /\ <<f.pkt.Id, f.pkt.seq>> \in handled[f.to]
        => AlreadySent(f.to, f.pkt)

\* Requests and replies are not passed around for ever (SR.cc:687, 777): once
\* no more requests are generated, the network falls silent, unless requests
\* have overlapped.
FallsSilent == <>[](Quiet \/ overlapped)

\* A reply reaches the requester (SR.cc:735, 803), unless a frame is lost or
\* repeated or requests overlap.
RepliesArrive ==
    \A r \in Requesters, seq \in 1..MaxRequests :
        (\E p \in Replies : p.Id = myID[r] /\ p.seq = seq)
            ~> seq \in answered[r] \/ overlapped \/ faults > 0

\* The first request of a sensor is answered if the filter of a neighbour claims
\* the measure (SR.cc:867), unless a frame is lost or repeated: requests that
\* overlap it do not matter.
ProviderAnswers ==
    \A r \in Requesters :
        generated[r] > 0 /\ GetNextHop(r, TRUE) # UNSPECIFIED
            ~> 1 \in answered[r] \/ faults > 0

=============================================================================
