------------------------ MODULE SRCompletenessProofs ------------------------
(***************************************************************************)
(* Proofs about discovery: the counter of unknown sensors, and, when       *)
(* nothing is lost, the completeness of the neighbour tables.  The         *)
(* invariant of SRDiscovery is put together here.                          *)
(***************************************************************************)
EXTENDS SRTablesProofs, FiniteSetTheorems

(* The counter of sensors without identifier.                                *)

\* The sensors that numberSensorNotKnown counts.
NotKnown == {n \in Sensors : initialized[n] /\ ~ Identified(n)}

\* There are few of them, so that 16 bits are enough.
LEMMA NotKnownSize ==
    /\ IsFiniteSet(NotKnown)
    /\ Cardinality(NotKnown) \in 0..256
<1>1. NotKnown \in SUBSET Nat /\ \A n \in NotKnown : n <= 255
  <2>1. ASSUME NEW n \in NotKnown PROVE n \in Nat /\ n <= 255
    <3>1. n \in Nodes
      BY Zenon DEF NotKnown, Sensors
    <3> QED BY <3>1, NodesAssumption
  <2> QED BY <2>1, Zenon
<1>2. 255 \in Nat
  OBVIOUS
<1>3. IsFiniteSet(NotKnown) /\ Cardinality(NotKnown) <= 255 + 1
  <2> HIDE DEF NotKnown
  <2> QED BY <1>1, <1>2, FS_BoundedSetOfNaturals, Zenon
<1>4. Cardinality(NotKnown) \in Nat
  BY <1>3, FS_CardinalityType, Zenon
<1> QED BY <1>3, <1>4

\* A step that leaves the counter and what it counts alone.
LEMMA KnownUntouched ==
    ASSUME KnownOK, UNCHANGED numberSensorNotKnown,
           \A n \in Sensors : /\ initialized'[n] = initialized[n]
                              /\ myID'[n] = myID[n]
    PROVE  KnownOK'
<1>1. NotKnown' = NotKnown
  BY Zenon DEF NotKnown, Identified
<1> QED BY <1>1, Zenon DEF KnownOK, NotKnownExact, NotKnown, Identified

\* A sensor initialises itself: one more that is not known.
LEMMA KnownInitStep ==
    ASSUME TypeOK, KnownOK, NEW n \in Sensors, SelfInitialization(n)
    PROVE  KnownOK'
<1>1. /\ initialized' = [initialized EXCEPT ![n] = TRUE] /\ ~ initialized[n]
      /\ numberSensorNotKnown' = (numberSensorNotKnown + 1) % 65536
      /\ myID' = myID
  BY DEF SelfInitialization, MyTurnToInitialize
<1>2. \A m \in Sensors : initialized'[m] <=> (initialized[m] \/ m = n)
  BY <1>1 DEF TypeOK, Sensors
<1>3. ~ Identified(n)
  BY <1>1 DEF KnownOK
<1>4. NotKnown' = NotKnown \cup {n} /\ n \notin NotKnown
  BY <1>1, <1>2, <1>3 DEF NotKnown, Identified
<1>5. Cardinality(NotKnown') = Cardinality(NotKnown) + 1
  BY <1>4, NotKnownSize, FS_AddElement
<1>6. numberSensorNotKnown = Cardinality(NotKnown)
  BY Zenon DEF KnownOK, NotKnownExact, NotKnown
<1>7. numberSensorNotKnown' = Cardinality(NotKnown')
  BY <1>1, <1>5, <1>6, NotKnownSize
<1>8. \A m \in Sensors : Identified(m)' => initialized'[m]
  BY <1>1, <1>2 DEF KnownOK, Identified
<1> QED BY <1>7, <1>8, Zenon DEF KnownOK, NotKnownExact, NotKnown

\* A sensor takes an identifier: one less.
LEMMA KnownTakeStep ==
    ASSUME ~ NDEBUG, IdentityInv, KnownOK, NEW f \in air, f.to # Sink,
           TakeIDFromSink(f) \/ TakeIDFromNeighbor(f), TypeOK'
    PROVE  KnownOK'
<1>1. /\ MayTakeID(f.to) /\ TakeID(f.to, f.pkt.Id) /\ air' = air \ {f}
      /\ UNCHANGED initialized
      /\ numberSensorNotKnown' = (numberSensorNotKnown - 1) % 65536
  BY DEF TakeIDFromSink, TakeIDFromNeighbor, TakeID, OneMoreKnown
<1>2. /\ ~ Identified(f.to) /\ Identified(f.to)'
      /\ \A m \in Nodes \ {f.to} : myID'[m] = myID[m]
  BY <1>1, TakeIDStep
<1>3. f.to \in Sensors
  BY SenderFacts, Zenon
<1>4. \A n \in Nodes : initialized[n]
  BY Zenon DEF IdentityInv, FlagsOK
<1>5. NotKnown' = NotKnown \ {f.to} /\ f.to \in NotKnown
  BY <1>1, <1>2, <1>3, <1>4 DEF NotKnown, Identified, Sensors
<1>6. Cardinality(NotKnown') = Cardinality(NotKnown) - 1
  BY <1>5, NotKnownSize, FS_RemoveElement, Zenon
<1>7. Cardinality(NotKnown) # 0
  BY <1>5, NotKnownSize, FS_EmptySet
<1>8. numberSensorNotKnown = Cardinality(NotKnown)
  BY Zenon DEF KnownOK, NotKnownExact, NotKnown
<1>9. numberSensorNotKnown' = Cardinality(NotKnown')
  BY <1>1, <1>6, <1>7, <1>8, NotKnownSize
<1>10. \A m \in Sensors : initialized'[m]
  BY <1>1, <1>4 DEF Sensors
<1> QED BY <1>9, <1>10, Zenon DEF KnownOK, NotKnownExact, NotKnown

\* Every step keeps the counter exact.
LEMMA KnownStep ==
    ASSUME ~ NDEBUG, IdentityInv, KnownOK, [Next]_vars
    PROVE  KnownOK'
<1>0. TypeOK /\ TypeOK'
  BY TypeStep, Zenon DEF IdentityInv
<1> USE <1>0 DEF statics
<1>1. CASE UNCHANGED <<numberSensorNotKnown, initialized, myID>>
  BY <1>1, KnownUntouched, Zenon
<1>2. ASSUME NEW f \in air, f.to # Sink, handleNicDiscoveryMsg(f)
      PROVE  KnownOK'
  BY <1>1, <1>2, KnownTakeStep, Zenon
     DEF handleNicDiscoveryMsg, AskForArea, NoAreaSlot, IgnoreSink,
         IgnoreNeighbor, RegisterNeighbor, TooFarFromSink, Abort
<1>3. ASSUME NEW f \in air, GiveArea(f) PROVE KnownOK'
  <2>1. \A n \in Sensors : myID'[n] = myID[n]
    BY <1>3, Zenon DEF GiveArea, TypeOK, Sensors
  <2> QED BY <1>3, <2>1, KnownUntouched, Zenon DEF GiveArea
<1>4. ASSUME NEW f \in air, SINK_handleNicDiscoveryMsg(f) PROVE KnownOK'
  BY <1>1, <1>3, <1>4, Zenon
     DEF SINK_handleNicDiscoveryMsg, NoMoreArea, IgnoreAdvert, Abort
<1>5. ASSUME NEW n \in Sensors, SelfInitialization(n) PROVE KnownOK'
  BY <1>5, KnownInitStep, Zenon
<1>6. CASE SINK_SelfInitialization
  <2>1. \A n \in Sensors : initialized'[n] = initialized[n] /\ myID'[n] = myID[n]
    <3>1. PICK g \in {0, 65535} : AnnounceSink(SinkID(g))
      BY <1>6 DEF SINK_SelfInitialization
    <3>2. \A n \in Sensors : myID'[n] = myID[n]
      BY <3>1 DEF AnnounceSink, TypeOK, Sensors
    <3>3. \A n \in Sensors : initialized'[n] = initialized[n]
      BY <1>6 DEF SINK_SelfInitialization, TypeOK, Sensors
    <3> QED BY <3>2, <3>3
  <2>2. UNCHANGED numberSensorNotKnown
    BY <1>6 DEF SINK_SelfInitialization
  <2> QED BY <2>1, <2>2, KnownUntouched, Zenon
<1>7. ASSUME NEW p \in scheduled, SendNic(p) PROVE KnownOK'
  BY <1>1, <1>7, Zenon DEF SendNic
<1>8. CASE UNCHANGED vars
  BY <1>1, <1>8, Zenon DEF vars
<1> QED BY <1>2, <1>4, <1>5, <1>6, <1>7, <1>8, Zenon DEF Next, Receive

\* Initially nobody is known and nobody is counted.
LEMMA KnownInit == Init => KnownOK
<1> SUFFICES ASSUME Init PROVE KnownOK
  BY Zenon
<1>1. NotKnown = {}
  BY Zenon DEF Init, NotKnown, Sensors
<1> QED BY <1>1, FS_EmptySet, Zenon DEF Init, KnownOK, NotKnownExact, NotKnown, Identified, Sensors

\* With the assertions on, numberSensorNotKnown is exact although one handler
\* increments it (SR.cc:394) and two others decrement it (SR.cc:540, 612): it never underflows
\* and it reaches 0 exactly when every sensor has an identifier.
THEOREM NotKnownExactAlways ==
    ASSUME ~ NDEBUG
    PROVE  Spec => []NotKnownExact
<1>1. IdentityInv /\ KnownOK /\ [Next]_vars => KnownOK'
  BY KnownStep, Zenon
<1>2. KnownOK => NotKnownExact
  BY Zenon DEF KnownOK
<1> QED BY <1>1, <1>2, KnownInit, InvariantHolds, PTL DEF Spec

-----------------------------------------------------------------------------
(* Completeness, when no frame is lost.                                   *)

\* A packet waits until it is sent.
LEMMA StillScheduled ==
    ASSUME Next, NEW p \in scheduled
    PROVE  p \in scheduled' \/ SendNic(p)
<1> USE DEF statics
<1>1. ASSUME NEW f \in air, handleNicDiscoveryMsg(f) PROVE p \in scheduled'
  BY <1>1, Zenon DEF handleNicDiscoveryMsg, AskForArea, NoAreaSlot, IgnoreSink, TakeIDFromSink,
     IgnoreNeighbor, RegisterNeighbor, TakeIDFromNeighbor, TooFarFromSink, Abort,
     TakeID, scheduleMsgToSendNic
<1>2. ASSUME NEW f \in air, SINK_handleNicDiscoveryMsg(f) PROVE p \in scheduled'
  BY <1>2, Zenon DEF SINK_handleNicDiscoveryMsg, GiveArea, NoMoreArea, IgnoreAdvert, Abort,
     scheduleMsgToSendNic
<1>3. ASSUME NEW n \in Sensors, SelfInitialization(n) PROVE p \in scheduled'
  BY <1>3 DEF SelfInitialization
<1>4. CASE SINK_SelfInitialization
  BY <1>4 DEF SINK_SelfInitialization, AnnounceSink, scheduleMsgToSendNic
<1>5. ASSUME NEW q \in scheduled, SendNic(q) PROVE p \in scheduled' \/ SendNic(p)
  BY <1>5, Zenon DEF SendNic
<1> QED BY <1>1, <1>2, <1>3, <1>4, <1>5, Zenon DEF Next, Receive

\* A frame is in the air until it is received.
LEMMA StillInAir ==
    ASSUME Next, NEW g \in air
    PROVE  g \in air' \/ Receive(g)
<1> USE DEF statics
<1>1. ASSUME NEW f \in air, f # g, handleNicDiscoveryMsg(f) PROVE g \in air'
  BY <1>1, Zenon DEF handleNicDiscoveryMsg, AskForArea, NoAreaSlot, IgnoreSink, TakeIDFromSink,
     IgnoreNeighbor, RegisterNeighbor, TakeIDFromNeighbor, TooFarFromSink, Abort
<1>2. ASSUME NEW f \in air, f # g, SINK_handleNicDiscoveryMsg(f) PROVE g \in air'
  BY <1>2, Zenon DEF SINK_handleNicDiscoveryMsg, GiveArea, NoMoreArea, IgnoreAdvert, Abort
<1>3. ASSUME NEW n \in Sensors, SelfInitialization(n) PROVE g \in air'
  BY <1>3 DEF SelfInitialization
<1>4. CASE SINK_SelfInitialization
  BY <1>4 DEF SINK_SelfInitialization
<1>5. ASSUME NEW q \in scheduled, SendNic(q) PROVE g \in air'
  BY <1>5, Zenon DEF SendNic
<1> QED BY <1>1, <1>2, <1>3, <1>4, <1>5, Zenon DEF Next, Receive

\* When nothing is lost, whoever a packet is for and hears its sender gets it.
LEMMA SentFrames ==
    ASSUME ~ Lossy, NEW p \in scheduled, SendNic(p), NEW m \in Hearers(p.src),
           p.dest = BROADCAST \/ p.dest = m
    PROVE  Frame(m, 1, p) \in air'
<1>1. PICK S \in Deliveries(p) : air' = air \cup S
  BY Zenon DEF SendNic
<1>2. Frame(m, 1, p) \in S
  <2>1. CASE p.dest = BROADCAST
    BY <2>1 DEF Deliveries
  <2>2. CASE p.dest # BROADCAST
    <3>1. PICK k \in 1..MaxCopies :
            S = {Frame(x, c, p) : x \in Hearers(p.src) \cap {p.dest}, c \in 1..k}
      BY <2>2 DEF Deliveries
    <3>2. 1 \in 1..k
      BY NetworkAssumption
    <3> QED BY <2>2, <3>1, <3>2
  <2> QED BY <2>1, <2>2, Zenon
<1> QED BY <1>1, <1>2, Zenon

\* No step takes an entry out of NeighborsTable, or lets a sensor forget the
\* sink.
LEMMA NothingForgotten ==
    ASSUME TypeOK, Next
    PROVE  /\ SinkNotForgotten
           /\ \A n \in Nodes : DOMAIN NeighborsTable[n] \subseteq DOMAIN NeighborsTable'[n]
<1>0. /\ DOMAIN NeighborsTable = Nodes /\ firstSinkMsg \in [Nodes -> BOOLEAN]
  BY Zenon DEF TypeOK, TablesOK
<1> USE <1>0 DEF statics, SinkNotForgotten
<1>1. CASE UNCHANGED <<NeighborsTable, firstSinkMsg>>
  BY <1>1, Zenon
<1>2. ASSUME NEW n, NEW mac, NEW id, NEW w, addNeighbor(n, mac, id, w)
      PROVE  \A x \in Nodes : DOMAIN NeighborsTable[x] \subseteq DOMAIN NeighborsTable'[x]
  BY <1>2, Zenon DEF addNeighbor, MapPut
<1>3. ASSUME NEW f \in air, AskForArea(f)
      PROVE  SinkNotForgotten
  BY <1>3, Zenon DEF AskForArea, SinkIsKnown
<1>4. ASSUME NEW f \in air, handleNicDiscoveryMsg(f)
      PROVE  /\ SinkNotForgotten
             /\ \A n \in Nodes : DOMAIN NeighborsTable[n] \subseteq DOMAIN NeighborsTable'[n]
  <2>1. CASE AskForArea(f)
    BY <1>2, <1>3, <2>1, Zenon DEF AskForArea
  <2>2. CASE RegisterNeighbor(f) \/ TakeIDFromNeighbor(f)
    BY <1>2, <2>2, Zenon DEF RegisterNeighbor, TakeIDFromNeighbor
  <2>3. CASE NoAreaSlot(f) \/ IgnoreSink(f) \/ TakeIDFromSink(f) \/ IgnoreNeighbor(f)
             \/ TooFarFromSink(f)
    BY <1>1, <2>3, Zenon DEF NoAreaSlot, IgnoreSink, TakeIDFromSink, IgnoreNeighbor,
       TooFarFromSink, Abort
  <2> QED BY <1>4, <2>1, <2>2, <2>3, Zenon DEF handleNicDiscoveryMsg
<1>5. ASSUME NEW f \in air, SINK_handleNicDiscoveryMsg(f)
      PROVE  /\ SinkNotForgotten
             /\ \A n \in Nodes : DOMAIN NeighborsTable[n] \subseteq DOMAIN NeighborsTable'[n]
  <2>1. CASE GiveArea(f)
    BY <1>2, <2>1, Zenon DEF GiveArea
  <2>2. CASE NoMoreArea(f) \/ IgnoreAdvert(f)
    BY <1>1, <2>2, Zenon DEF NoMoreArea, IgnoreAdvert, Abort
  <2> QED BY <1>5, <2>1, <2>2, Zenon DEF SINK_handleNicDiscoveryMsg
<1>6. CASE (\E n \in Sensors : SelfInitialization(n)) \/ SINK_SelfInitialization
           \/ (\E p \in scheduled : SendNic(p))
  BY <1>1, <1>6 DEF SelfInitialization, SINK_SelfInitialization, SendNic
<1> QED BY <1>4, <1>5, <1>6, Zenon DEF Next, Receive

\* The announcement reaches everybody.
LEMMA AnnounceStep ==
    ASSUME ~ NDEBUG, ~ Lossy, IdentityInv, KindsOK, AnnounceProgress, Next
    PROVE  AnnounceProgress'
<1>0. TypeOK /\ SinkNotForgotten /\ Sink \in Nodes
  BY NothingForgotten, NodesAssumption, Zenon DEF IdentityInv
<1> USE DEF statics
<1>1. CASE SINK_SelfInitialization
  <2>1. PICK g \in {0, 65535} : AnnounceSink(SinkID(g))
    BY <1>1 DEF SINK_SelfInitialization
  <2>2. SinkID(g) = SinkID(0)
    BY SinkIDValue
  <2>3. Announcement \in scheduled'
    BY <2>1, <2>2 DEF AnnounceSink, scheduleMsgToSendNic, Announcement
  <2> QED BY <2>3 DEF AnnounceProgress
<1>2. CASE ~ SINK_SelfInitialization /\ initialized'[Sink]
  <2>1. initialized[Sink]
    <3>1. ASSUME NEW f \in air, Receive(f) PROVE initialized' = initialized
      BY <3>1, Zenon DEF Receive, handleNicDiscoveryMsg, AskForArea, NoAreaSlot, IgnoreSink,
         TakeIDFromSink, IgnoreNeighbor, RegisterNeighbor, TakeIDFromNeighbor,
         TooFarFromSink, SINK_handleNicDiscoveryMsg, GiveArea, NoMoreArea, IgnoreAdvert,
         Abort
    <3>2. ASSUME NEW n \in Sensors, SelfInitialization(n)
          PROVE  initialized'[Sink] = initialized[Sink]
      <4>1. initialized' = [initialized EXCEPT ![n] = TRUE] /\ n # Sink
        BY <3>2 DEF SelfInitialization, Sensors
      <4> QED BY <1>0, <4>1, Zenon DEF TypeOK
    <3>3. ASSUME NEW p \in scheduled, SendNic(p) PROVE initialized' = initialized
      BY <3>3, Zenon DEF SendNic
    <3> QED BY <1>2, <3>1, <3>2, <3>3, Zenon DEF Next
  <2>2. CASE Announcement \in scheduled
    <3>1. CASE Announcement \in scheduled'
      BY <3>1, Zenon DEF AnnounceProgress
    <3>2. CASE SendNic(Announcement)
      <4>1. Announcement.src = Sink /\ Announcement.dest = BROADCAST
        BY Zenon DEF Announcement, Packet
      <4>2. \A n \in Hearers(Sink) : Frame(n, 1, Announcement) \in air'
        BY <2>2, <3>2, <4>1, SentFrames, Zenon
      <4> QED BY <4>2, Zenon DEF AnnounceProgress
    <3> QED BY <2>2, <3>1, <3>2, StillScheduled, Zenon
  <2>3. CASE Announcement \notin scheduled
    <3>1. ASSUME NEW n \in Hearers(Sink)
          PROVE  Frame(n, 1, Announcement) \in air' \/ ~ firstSinkMsg'[n]
      <4>1. n \in Nodes
        BY Zenon DEF Hearers
      <4>2. CASE ~ firstSinkMsg[n]
        BY <1>0, <4>1, <4>2, Zenon DEF SinkNotForgotten
      <4>3. ASSUME NEW f \in air, f = Frame(n, 1, Announcement), Receive(f)
            PROVE  f \in air' \/ ~ firstSinkMsg'[n]
        <5>1. f.to = n /\ f.pkt = Announcement
          BY <4>3, Zenon DEF Frame
        <5>2. n # Sink /\ firstSinkMsg[n] /\ FromSink(f.pkt)
          <6>1. <<f.pkt.src, f.to>> \in Link /\ f.pkt.src = Sink
            BY <5>1 DEF IdentityInv, MessagesOK, Announcement, Packet
          <6>2. n # Sink
            BY <1>0, <5>1, <6>1, LinkAssumption, Zenon
          <6>3. FromSink(f.pkt)
            BY <5>1, SinkIDValue DEF FromSink, Announcement, Packet
          <6> QED BY <5>1, <6>2, <6>3, Zenon DEF KindsOK, AnnouncedOnce
        <5>3. AskForArea(f) \/ NoAreaSlot(f)
          BY <4>3, <5>1, <5>2, Zenon DEF Receive, handleNicDiscoveryMsg, IgnoreSink,
             TakeIDFromSink, IgnoreNeighbor, RegisterNeighbor, TakeIDFromNeighbor,
             TooFarFromSink
        <5>4. CASE AskForArea(f)
          BY <1>0, <4>1, <5>1, <5>4, Zenon DEF AskForArea, SinkIsKnown, TypeOK
        <5>5. CASE NoAreaSlot(f)
          BY <5>5, Zenon DEF NoAreaSlot, Abort
        <5> QED BY <5>3, <5>4, <5>5, Zenon
      <4>4. CASE Frame(n, 1, Announcement) \in air
        BY <4>3, <4>4, StillInAir, Zenon
      <4> QED BY <2>1, <2>3, <4>2, <4>4 DEF AnnounceProgress
    <3> QED BY <3>1, Zenon DEF AnnounceProgress
  <2> QED BY <2>2, <2>3, Zenon
<1>3. CASE ~ initialized'[Sink]
  BY <1>3, Zenon DEF AnnounceProgress
<1> QED BY <1>1, <1>2, <1>3, Zenon

\* A reply that a sensor handles leaves it identified.
LEMMA ReplyIdentifies ==
    ASSUME ~ NDEBUG, IdentityInv, KindsOK, NEW f \in air, f.to # Sink, IsReply(f.pkt),
           Receive(f), IdentityKept, TypeOK'
    PROVE  Identified(f.to)' /\ f.to \in Sensors
<1>1. /\ f.to \in Sensors /\ f.to \in Nodes /\ f.pkt.src = Sink /\ FromSink(f.pkt)
      /\ ~ firstSinkMsg[f.to]
  <2>1. /\ KindOK(f.pkt) /\ f.to \in Sensors /\ f.to \in Nodes
        /\ getSinkDistance(f.pkt.Id) = getSinkDistance(myID[f.pkt.src])
        /\ Identified(f.pkt.src)
    BY SenderFacts, Zenon DEF KindsOK, InTransit, Sensors
  <2>2. f.pkt.src = Sink /\ f.pkt.dest \in Sensors /\ ~ firstSinkMsg[f.pkt.dest]
    <3>1. f.pkt # Announcement
      BY DEF IsReply, Announcement, Packet
    <3>2. f.pkt # Advert(f.pkt.src)
      BY DEF IsReply, Advert, Packet
    <3> QED BY <2>1, <3>1, <3>2, Zenon DEF KindOK, IsReply, IsRequest
  <2>3. f.pkt.dest = f.to
    BY <2>2, NodesAreExtensions, Zenon DEF IdentityInv, MessagesOK, Sensors
  <2> QED BY <2>1, <2>2, <2>3, NodesAssumption, Zenon
          DEF FromSink, IdentityInv, IDFieldsOK
<1>2. CASE IgnoreSink(f)
  BY <1>1, <1>2, Zenon DEF IgnoreSink, MayTakeID, IdentityInv, FlagsOK, IdentityKept
<1>3. CASE TakeIDFromSink(f)
  BY <1>1, <1>3, TakeIDStep, Zenon DEF TakeIDFromSink
<1> QED BY <1>1, <1>2, <1>3, Zenon DEF Receive, handleNicDiscoveryMsg, AskForArea, NoAreaSlot,
        IgnoreNeighbor, RegisterNeighbor, TakeIDFromNeighbor, TooFarFromSink

\* The request of a sensor and the sink's answer have their effect.
LEMMA AreaStep ==
    ASSUME ~ NDEBUG, ~ Lossy, IdentityInv, KindsOK, EntriesOK, Next,
           NEW n \in Sensors, AreaProgress(n)
    PROVE  AreaProgress(n)'
<1>0. /\ TypeOK /\ TypeOK' /\ IdentityKept /\ SinkNotForgotten
      /\ \A x \in Nodes : DOMAIN NeighborsTable[x] \subseteq DOMAIN NeighborsTable'[x]
      /\ Sink \in Nodes /\ n \in Nodes /\ n # Sink
  BY NothingForgotten, InvariantStep, NodesAssumption, Zenon DEF IdentityInv, Sensors
<1> SUFFICES ASSUME ~ firstSinkMsg'[n], <<n, Sink>> \in Link
             PROVE  AreaProgress(n)'
  BY Zenon DEF AreaProgress
<1> USE DEF statics
<1>k. \A p : (IsRequest(p)' <=> IsRequest(p)) /\ (IsReply(p)' <=> IsReply(p))
  BY Zenon DEF IsRequest, IsReply
<1>1. CASE firstSinkMsg[n]
  <2>1. PICK f \in air : f.to = n /\ AskForArea(f)
    <3>1. ASSUME NEW f \in air, Receive(f) PROVE f.to = n /\ AskForArea(f)
      <4>1. CASE AskForArea(f)
        BY <1>0, <1>1, <4>1, Zenon DEF AskForArea, SinkIsKnown, TypeOK
      <4>2. CASE firstSinkMsg' = firstSinkMsg
        BY <1>1, <4>2, Zenon
      <4> QED BY <3>1, <4>1, <4>2, Zenon
              DEF Receive, handleNicDiscoveryMsg, NoAreaSlot, IgnoreSink,
                  TakeIDFromSink, IgnoreNeighbor, RegisterNeighbor, TakeIDFromNeighbor,
                  TooFarFromSink, SINK_handleNicDiscoveryMsg, GiveArea, NoMoreArea,
                  IgnoreAdvert, Abort
    <3>2. firstSinkMsg' # firstSinkMsg
      BY <1>1, Zenon
    <3>3. \A m \in Sensors : ~ SelfInitialization(m)
      BY <3>2 DEF SelfInitialization
    <3>4. ~ SINK_SelfInitialization /\ \A p \in scheduled : ~ SendNic(p)
      BY <3>2 DEF SINK_SelfInitialization, SendNic
    <3> QED BY <3>1, <3>3, <3>4, Zenon DEF Next
  <2>2. PICK q : q = Packet("Q_REQUEST", f.to, f.pkt.src, myID[f.to], f.to)
    BY Zenon
  <2>3. q \in scheduled' /\ IsRequest(q) /\ q.src = n
    BY <1>0, <2>1, <2>2, Zenon DEF AskForArea, scheduleMsgToSendNic, IsRequest, Packet
  <2> QED BY <1>k, <2>3, Zenon DEF AreaProgress
<1>2. ASSUME ~ firstSinkMsg[n], NEW p \in scheduled, IsRequest(p), p.src = n
      PROVE  AreaProgress(n)'
  <2>1. CASE p \in scheduled'
    BY <1>2, <1>k, <2>1, Zenon DEF AreaProgress
  <2>2. CASE SendNic(p)
    <3>1. p.dest = Sink
      <4>1. KindOK(p)
        BY Zenon DEF KindsOK, InTransit
      <4>2. p # Announcement /\ p # Advert(n)
        BY <1>2 DEF IsRequest, Announcement, Advert, Packet
      <4> QED BY <1>2, <4>1, <4>2, Zenon DEF KindOK, IsRequest, IsReply
    <3>2. Frame(Sink, 1, p) \in air'
      BY <1>0, <1>2, <2>2, <3>1, SentFrames, Zenon DEF Hearers
    <3>3. PICK g \in air' : g.to = Sink /\ g.pkt = p
      BY <3>2, Zenon DEF Frame
    <3> QED BY <1>2, <1>k, <3>3, Zenon DEF AreaProgress
  <2> QED BY <2>1, <2>2, StillScheduled, Zenon
<1>3. ASSUME NEW f \in air, IsRequest(f.pkt), f.pkt.src = n, f.to = Sink
      PROVE  AreaProgress(n)'
  <2>1. CASE f \in air'
    BY <1>3, <1>k, <2>1, Zenon DEF AreaProgress
  <2>2. CASE Receive(f)
    <3>1. GiveArea(f) \/ NoMoreArea(f)
      BY <1>3, <2>2, Zenon DEF Receive, SINK_handleNicDiscoveryMsg, IgnoreAdvert, IsRequest
    <3>2. CASE GiveArea(f)
      <4>1. PICK q : q = Packet("Q_REPLY", Sink, n, setArea(myID[Sink], areaNumber), NoBloom)
        BY Zenon
      <4>2. q \in scheduled' /\ IsReply(q) /\ q.dest = n
        BY <1>3, <3>2, <4>1, Zenon DEF GiveArea, scheduleMsgToSendNic, IsReply, Packet
      <4>3. n \in DOMAIN NeighborsTable'[Sink]
        BY <1>0, <1>3, <3>2, Zenon DEF GiveArea, addNeighbor, MapPut, TypeOK, TablesOK
      <4> QED BY <1>k, <4>2, <4>3, Zenon DEF AreaProgress
    <3>3. CASE NoMoreArea(f)
      BY <1>3, <1>k, <3>3, Zenon DEF NoMoreArea, Abort, AreaProgress
    <3> QED BY <3>1, <3>2, <3>3, Zenon
  <2> QED BY <2>1, <2>2, StillInAir, Zenon
<1>4. ASSUME n \in DOMAIN NeighborsTable[Sink], Identified(n)
      PROVE  AreaProgress(n)'
  BY <1>0, <1>4, Zenon DEF AreaProgress, IdentityKept
<1>5. ASSUME ~ firstSinkMsg[n], n \in DOMAIN NeighborsTable[Sink],
             NEW p \in scheduled, IsReply(p), p.dest = n
      PROVE  AreaProgress(n)'
  <2>1. CASE p \in scheduled'
    BY <1>0, <1>5, <1>k, <2>1, Zenon DEF AreaProgress
  <2>2. CASE SendNic(p)
    <3>1. p.src = Sink
      <4>1. KindOK(p)
        BY Zenon DEF KindsOK, InTransit
      <4>2. p # Announcement
        BY <1>5 DEF IsReply, Announcement, Packet
      <4>3. p # Advert(p.src)
        BY <1>5 DEF IsReply, Advert, Packet
      <4> QED BY <1>5, <4>1, <4>2, <4>3, Zenon DEF KindOK, IsRequest, IsReply
    <3>2. <<Sink, n>> \in Link
      <4>1. SinkHeld(n)
        BY <1>0, <1>5, Zenon DEF EntriesOK
      <4>2. EntryOK(n, SinkID(0), neighborList[n][SinkID(0)])
        BY <1>0, <4>1, Zenon DEF EntriesOK, SinkHeld
      <4>3. EntryOK(n, SinkID(0), Sink)
        BY <4>1, <4>2, Zenon DEF SinkHeld
      <4>4. Sink # UNSPECIFIED
        BY <1>0, NodesAreExtensions, Zenon
      <4> QED BY <4>3, <4>4, Zenon DEF EntryOK
    <3>3. Frame(n, 1, p) \in air'
      BY <1>0, <1>5, <2>2, <3>1, <3>2, SentFrames, Zenon DEF Hearers
    <3>4. PICK g \in air' : g.to = n /\ g.pkt = p
      BY <3>3, Zenon DEF Frame
    <3> QED BY <1>0, <1>5, <1>k, <3>4, Zenon DEF AreaProgress
  <2> QED BY <2>1, <2>2, StillScheduled, Zenon
<1>6. ASSUME n \in DOMAIN NeighborsTable[Sink],
             NEW f \in air, IsReply(f.pkt), f.to = n
      PROVE  AreaProgress(n)'
  <2>1. CASE f \in air'
    BY <1>0, <1>6, <1>k, <2>1, Zenon DEF AreaProgress
  <2>2. CASE Receive(f)
    BY <1>0, <1>6, <2>2, ReplyIdentifies, Zenon DEF AreaProgress
  <2> QED BY <2>1, <2>2, StillInAir, Zenon
<1> QED BY <1>1, <1>2, <1>3, <1>4, <1>5, <1>6, Zenon DEF AreaProgress

\* A sensor that handles an advertisement has registered its sender and is
\* identified.
LEMMA AdvertRegisters ==
    ASSUME ~ NDEBUG, IdentityInv, KindsOK, EntriesOK, NEW f \in air, f.to # Sink,
           NEW m \in Sensors, f.pkt = Advert(m), Receive(f), IdentityKept, TypeOK',
           \A x \in Nodes : DOMAIN NeighborsTable[x] \subseteq DOMAIN NeighborsTable'[x]
    PROVE  \/ f \in air'
           \/ m \in DOMAIN NeighborsTable'[f.to] /\ Identified(f.to)'
<1>1. /\ f.to \in Sensors /\ f.to \in Nodes /\ f.pkt.src = m /\ m # Sink /\ m \in Nodes
      /\ ~ FromSink(f.pkt) /\ getMACExt(f.pkt.Id) = m
  <2>1. f.pkt.src = m /\ m # Sink
    BY PacketFields, Zenon DEF Sensors
  <2>2. /\ f.to \in Sensors /\ getMACExt(f.pkt.Id) = f.pkt.src
        /\ FromSink(f.pkt) => f.pkt.src = Sink
    BY SenderFacts, Zenon
  <2> QED BY <2>1, <2>2, Zenon DEF Sensors
<1>2. DOMAIN NeighborsTable = Nodes
  BY Zenon DEF IdentityInv, TypeOK, TablesOK
<1>3. CASE IgnoreNeighbor(f)
  <2>1. PICK k \in DOMAIN neighborList[f.to] : getMACExt(k) = m
    BY <1>1, <1>3, Zenon DEF IgnoreNeighbor
  <2>2. EntryOK(f.to, k, neighborList[f.to][k])
    BY <1>1, <2>1, Zenon DEF EntriesOK
  <2>3. m \in DOMAIN NeighborsTable[f.to] /\ Identified(f.to)
    BY <1>1, <2>1, <2>2, Zenon DEF EntryOK
  <2> QED BY <1>1, <2>3, Zenon DEF IdentityKept
<1>4. CASE RegisterNeighbor(f)
  <2>1. Identified(f.to)
    BY <1>1, <1>4, Zenon DEF RegisterNeighbor, MayTakeID, IdentityInv, FlagsOK
  <2>2. m \in DOMAIN NeighborsTable'[f.to]
    BY <1>1, <1>2, <1>4, Zenon DEF RegisterNeighbor, addNeighbor, MapPut
  <2> QED BY <1>1, <2>1, <2>2, Zenon DEF IdentityKept
<1>5. CASE TakeIDFromNeighbor(f)
  <2>1. Identified(f.to)'
    BY <1>5, TakeIDStep, Zenon DEF TakeIDFromNeighbor
  <2>2. m \in DOMAIN NeighborsTable'[f.to]
    BY <1>1, <1>2, <1>5, Zenon DEF TakeIDFromNeighbor, addNeighbor, MapPut
  <2> QED BY <2>1, <2>2, Zenon
<1>6. CASE TooFarFromSink(f)
  BY <1>6, Zenon DEF TooFarFromSink, Abort
<1> QED BY <1>1, <1>3, <1>4, <1>5, <1>6, Zenon DEF Receive, handleNicDiscoveryMsg, AskForArea,
        NoAreaSlot, IgnoreSink, TakeIDFromSink

\* The advertisement of a sensor reaches all sensors that hear it.
LEMMA AdvertStep ==
    ASSUME ~ NDEBUG, ~ Lossy, IdentityInv, KindsOK, EntriesOK, Next,
           NEW m \in Sensors, AdvertProgress(m)
    PROVE  AdvertProgress(m)'
<1>0. /\ TypeOK /\ TypeOK' /\ IdentityKept
      /\ \A x \in Nodes : DOMAIN NeighborsTable[x] \subseteq DOMAIN NeighborsTable'[x]
      /\ m \in Nodes /\ m # Sink
  BY NothingForgotten, InvariantStep, Zenon DEF IdentityInv, Sensors
<1>1. CASE ~ Identified(m)'
  BY <1>1, Zenon DEF AdvertProgress
<1>2. CASE ~ Identified(m) /\ Identified(m)'
  <2>1. PICK f \in air : f.to = m /\ TakeID(m, f.pkt.Id)
    BY <1>2, WhoIsIdentified, Zenon DEF TakeIDFromSink, TakeIDFromNeighbor
  <2>2. myID'[m] = DerivedID(m, f.pkt.Id)
    BY <1>0, <2>1, Zenon DEF TakeID, TypeOK
  <2>3. Packet("none", m, BROADCAST, DerivedID(m, f.pkt.Id), m) \in scheduled'
    BY <2>1, Zenon DEF TakeID, scheduleMsgToSendNic
  <2>4. (Advert(m) \in scheduled)'
    BY <2>2, <2>3, Zenon DEF Advert
  <2> QED BY <2>4, Zenon DEF AdvertProgress
<1>3. CASE Identified(m)
  <2>1. PICK p : p = Advert(m)
    BY Zenon
  <2>2. myID'[m] = myID[m]
    BY <1>0, <1>3, Zenon DEF IdentityKept
  <2>3. Advert(m)' = p
    BY <2>1, <2>2, Zenon DEF Advert
  <2>4. p.src = m /\ p.dest = BROADCAST
    BY <2>1, Zenon DEF Advert, Packet
  <2>5. CASE p \in scheduled
    <3>1. CASE p \in scheduled'
      BY <2>3, <3>1, Zenon DEF AdvertProgress
    <3>2. CASE SendNic(p)
      <4>1. \A n \in Hearers(m) : Frame(n, 1, p) \in air'
        BY <2>4, <2>5, <3>2, SentFrames, Zenon
      <4> QED BY <2>3, <4>1, Zenon DEF AdvertProgress
    <3> QED BY <2>5, <3>1, <3>2, StillScheduled, Zenon
  <2>6. CASE p \notin scheduled
    <3>1. ASSUME NEW n \in Hearers(m) \ {Sink}
          PROVE  \/ Frame(n, 1, p) \in air'
                 \/ m \in DOMAIN NeighborsTable'[n] /\ Identified(n)'
      <4>1. n \in Nodes /\ n # Sink
        BY Zenon DEF Hearers
      <4>2. CASE m \in DOMAIN NeighborsTable[n] /\ Identified(n)
        BY <1>0, <4>1, <4>2, Zenon DEF IdentityKept
      <4>3. ASSUME NEW f \in air, f = Frame(n, 1, p), Receive(f)
            PROVE  f \in air' \/ (m \in DOMAIN NeighborsTable'[n] /\ Identified(n)')
        <5>1. f.to = n /\ f.pkt = Advert(m)
          BY <2>1, <4>3, Zenon DEF Frame
        <5> QED BY <1>0, <4>1, <4>3, <5>1, AdvertRegisters, Zenon
      <4>4. CASE Frame(n, 1, p) \in air
        BY <4>3, <4>4, StillInAir, Zenon
      <4> QED BY <1>3, <2>1, <2>6, <4>2, <4>4, Zenon DEF AdvertProgress
    <3> QED BY <2>3, <3>1, Zenon DEF AdvertProgress
  <2> QED BY <2>5, <2>6, Zenon
<1> QED BY <1>1, <1>2, <1>3, Zenon

-----------------------------------------------------------------------------
(* The theorems.                                                             *)

\* Nothing is known initially.
LEMMA DiscoveryInit == Init => DiscoveryInv
<1> SUFFICES ASSUME Init PROVE DiscoveryInv
  BY Zenon
<1>0. Sink \in Nodes
  BY NodesAssumption, Zenon
<1>1. EntriesOK
  <2>1. \A n \in Nodes : neighborList[n] = EmptyMap /\ NeighborsTable[n] = EmptyMap
    BY Zenon DEF Init
  <2>2. DOMAIN EmptyMap = {}
    BY Zenon DEF EmptyMap
  <2>3. \A n \in Nodes : firstSinkMsg[n]
    BY Zenon DEF Init
  <2> QED BY <2>1, <2>2, <2>3, Zenon DEF EntriesOK
<1>2. \A n \in Nodes : ~ Identified(n)
  BY Zenon DEF Init, Identified
<1>3. ParentsOK
  BY <1>2, Zenon DEF ParentsOK, Sensors
<1>4. AreasOK
  <2>1. areaNumber = 0 /\ InTransit = {}
    BY Zenon DEF Init, InTransit
  <2>2. \A n \in Sensors : ~ Identified(n)
    BY <1>2, Zenon DEF Sensors
  <2>3. AreasDistinct
    BY <2>2, Zenon DEF AreasDistinct
  <2>4. areaNumber <= 4
    BY <2>1
  <2> QED BY <2>1, <2>2, <2>3, <2>4, Zenon DEF AreasOK
<1>5. SlotsOK
  <2>1. \A n \in Sensors : areaSlot[n] = NoSlot /\ genSlot[n] = NoSlot
    BY Zenon DEF Init, Sensors
  <2>2. NoSlot # 0 /\ NoSlot \notin {0, 32}
    BY DEF NoSlot
  <2>3. \A n \in Sensors : areaSlot[n] # 0 /\ genSlot[n] \notin {0, 32}
    BY <2>1, <2>2, Zenon
  <2> QED BY <2>3, Zenon DEF SlotsOK
<1>6. ProgressOK
  <2>1. AnnounceProgress
    BY <1>0, Zenon DEF Init, AnnounceProgress
  <2>2. \A n \in Sensors : AreaProgress(n)
    BY Zenon DEF Init, AreaProgress, Sensors
  <2>3. \A n \in Sensors : AdvertProgress(n)
    BY <1>2, Zenon DEF AdvertProgress, Sensors
  <2> QED BY <2>1, <2>2, <2>3, Zenon DEF ProgressOK
<1> QED BY <1>1, <1>3, <1>4, <1>5, <1>6, KindsInit, KnownInit, InvariantInit, Zenon
        DEF DiscoveryInv

\* A step of the system keeps the invariant.
LEMMA DiscoveryStep ==
    ASSUME ~ NDEBUG, DiscoveryInv, Next
    PROVE  DiscoveryInv'
<1>1. IdentityInv' /\ KindsOK' /\ EntriesOK' /\ ParentsOK'
  BY InvariantStep, KindsStep, EntriesStep, ParentsStep, Zenon DEF DiscoveryInv
<1>2. AreasOK' /\ SlotsOK' /\ KnownOK'
  BY AreasStep, SlotsStep, KnownStep, Zenon DEF DiscoveryInv, IdentityInv
<1>3. ASSUME ~ Lossy PROVE ProgressOK'
  <2>1. AnnounceProgress'
    BY <1>3, AnnounceStep, Zenon DEF DiscoveryInv, ProgressOK
  <2>2. \A n \in Sensors : AreaProgress(n)'
    BY <1>3, AreaStep, Zenon DEF DiscoveryInv, ProgressOK
  <2>3. \A n \in Sensors : AdvertProgress(n)'
    BY <1>3, AdvertStep, Zenon DEF DiscoveryInv, ProgressOK
  <2> QED BY <2>1, <2>2, <2>3, Zenon DEF ProgressOK
<1> QED BY <1>1, <1>2, <1>3, Zenon DEF DiscoveryInv

\* A stutter changes nothing that the invariant is about.
LEMMA DiscoveryStutter ==
    ASSUME ~ NDEBUG, DiscoveryInv, UNCHANGED vars
    PROVE  DiscoveryInv'
<1> USE DEF vars
<1>0. InTransit' = InTransit /\ \A n : Identified(n)' <=> Identified(n)
  BY Zenon DEF InTransit, Identified
<1>1. IdentityInv'
  BY SilentStep, TypeStep, Zenon DEF DiscoveryInv, IdentityInv
<1>2. KindsOK' /\ SlotsOK' /\ KnownOK'
  BY KindsStep, SlotsStep, KnownStep, Zenon DEF DiscoveryInv, IdentityInv
<1>3. EntriesOK'
  BY <1>0 DEF DiscoveryInv, EntriesOK, EntryOK, SinkHeld
<1>4. ParentsOK'
  BY <1>0, Zenon DEF DiscoveryInv, ParentsOK
<1>5. AreasOK'
  BY <1>0, Zenon DEF DiscoveryInv, AreasOK, AreasDistinct, IsReply
<1>6. ASSUME ~ Lossy PROVE ProgressOK'
  <2>1. AnnounceProgress'
    BY <1>6, Zenon DEF DiscoveryInv, ProgressOK, AnnounceProgress
  <2>2. \A n \in Sensors : AreaProgress(n)'
    BY <1>0, <1>6, Zenon DEF DiscoveryInv, ProgressOK, AreaProgress, IsRequest, IsReply
  <2>3. \A n \in Sensors : AdvertProgress(n)'
    BY <1>0, <1>6, Zenon DEF DiscoveryInv, ProgressOK, AdvertProgress, Advert
  <2> QED BY <2>1, <2>2, <2>3, Zenon DEF ProgressOK
<1> QED BY <1>1, <1>2, <1>3, <1>4, <1>5, <1>6, Zenon DEF DiscoveryInv

\* With the assertions on, what messages, tables and counters say about each
\* other agrees at every moment of discovery (SR.cc:503-622, 1004-1041).
THEOREM DiscoveryInvAlways ==
    ASSUME ~ NDEBUG
    PROVE  Spec => []DiscoveryInv
<1>1. DiscoveryInv /\ [Next]_vars => DiscoveryInv'
  BY DiscoveryStep, DiscoveryStutter, Zenon
<1> QED BY <1>1, DiscoveryInit, PTL DEF Spec

\* With the assertions on, an entry of neighborList names a node that is heard,
\* under its identifier, and every filter is the one of its node (SR.cc:186-198).
THEOREM NeighborsGenuineAlways ==
    ASSUME ~ NDEBUG
    PROVE  Spec => []NeighborsGenuine
<1>1. DiscoveryInv => NeighborsGenuine
  BY EntriesImply, Zenon DEF DiscoveryInv, IdentityInv
<1> QED BY <1>1, DiscoveryInvAlways, PTL

\* With the assertions on, the unspecified addresses that tracing leaves in
\* neighborList come after the sink (SR.cc:517, 774-782).
THEOREM UnspecifiedShadowedAlways ==
    ASSUME ~ NDEBUG
    PROVE  Spec => []UnspecifiedShadowed
<1>1. DiscoveryInv => UnspecifiedShadowed
  BY EntriesImply, Zenon DEF DiscoveryInv, IdentityInv
<1> QED BY <1>1, DiscoveryInvAlways, PTL

\* With the assertions on, an identified sensor has registered a neighbour one
\* hop closer to the sink, whose area it is in (SR.cc:525-541, 597-612).
THEOREM ParentKnownAlways ==
    ASSUME ~ NDEBUG
    PROVE  Spec => []ParentKnown
<1>1. DiscoveryInv => ParentKnown
  BY Zenon DEF DiscoveryInv, ParentsOK, ParentKnown
<1> QED BY <1>1, DiscoveryInvAlways, PTL

\* With the assertions on, the sensors next to the sink are in different
\* areas (SR.cc:1021-1024).
THEOREM AreasDistinctAlways ==
    ASSUME ~ NDEBUG
    PROVE  Spec => []AreasDistinct
<1>1. DiscoveryInv => AreasDistinct
  BY Zenon DEF DiscoveryInv, AreasOK
<1> QED BY <1>1, DiscoveryInvAlways, PTL

\* The sensors that hear the sink are the ones the sink hears.
SinkHeardBack == \A n \in Nodes : <<Sink, n>> \in Link <=> <<n, Sink>> \in Link

\* Every sensor is reached from the sink.
Reachable ==
    \A S \in SUBSET Nodes :
        Sink \in S /\ (\A a \in S : Hearers(a) \subseteq S) => S = Nodes

\* Discovery that has come to rest without losing a frame has identified
\* every sensor: those it has identified, with the sink, are closed under
\* hearing.
LEMMA AllIdentified ==
    ASSUME SinkHeardBack, Reachable, DiscoveryInv, ~ Lossy, Quiescent
    PROVE  /\ \A n \in Hearers(Sink) : /\ ~ firstSinkMsg[n]
                                       /\ n \in DOMAIN NeighborsTable[Sink]
           /\ \A n \in Sensors : Identified(n)
<1>0. Sink \in Nodes /\ scheduled = {} /\ air = {} /\ initialized[Sink]
  BY NodesAssumption, Zenon DEF Quiescent
<1>1. ASSUME NEW n \in Hearers(Sink)
      PROVE  /\ n \in Sensors /\ ~ firstSinkMsg[n]
             /\ n \in DOMAIN NeighborsTable[Sink] /\ Identified(n)
  <2>1. n \in Sensors /\ <<Sink, n>> \in Link /\ <<n, Sink>> \in Link
    BY <1>0, LinkAssumption, Zenon DEF Hearers, Sensors, SinkHeardBack
  <2>2. ~ firstSinkMsg[n]
    BY <1>0, Zenon DEF DiscoveryInv, ProgressOK, AnnounceProgress
  <2> QED BY <1>0, <2>1, <2>2, Zenon DEF DiscoveryInv, ProgressOK, AreaProgress
<1>2. ASSUME NEW m \in Sensors, Identified(m), NEW n \in Hearers(m) \ {Sink}
      PROVE  Identified(n)
  BY <1>0, <1>2, Zenon DEF DiscoveryInv, ProgressOK, AdvertProgress
<1>3. PICK S \in SUBSET Nodes : S = {Sink} \cup {n \in Sensors : Identified(n)}
  BY <1>0, Zenon DEF Sensors
<1>4. ASSUME NEW a \in S, NEW b \in Hearers(a) PROVE b \in S
  <2>1. b \in Nodes
    BY Zenon DEF Hearers
  <2> QED BY <1>1, <1>2, <1>3, <2>1, Zenon DEF Sensors
<1>5. S = Nodes
  BY <1>3, <1>4, Zenon DEF Reachable
<1> QED BY <1>1, <1>3, <1>5, Zenon DEF Sensors

\* With the assertions on, discovery that has come to rest without losing a
\* frame has stored at every node the filter of every node it hears
\* (SR.cc:186-198, 503-622, 1004-1041), when every sensor is reached from the
\* sink and whoever hears the sink is heard by it.
THEOREM NeighborsCompleteAlways ==
    ASSUME ~ NDEBUG, SinkHeardBack, Reachable
    PROVE  Spec => []NeighborsComplete
<1>1. DiscoveryInv => NeighborsComplete
  <2> SUFFICES ASSUME DiscoveryInv, ~ Lossy, Quiescent,
                      NEW n \in Nodes, NEW m \in Nodes, <<m, n>> \in Link
               PROVE  m \in DOMAIN NeighborsTable[n]
    BY Zenon DEF NeighborsComplete
  <2>0. scheduled = {} /\ air = {} /\ n \in Hearers(m)
    BY Zenon DEF Quiescent, Hearers
  <2>1. CASE n = Sink
    <3>1. m \in Hearers(Sink)
      BY <2>1, Zenon DEF SinkHeardBack, Hearers
    <3> QED BY <2>1, <3>1, AllIdentified, Zenon
  <2>2. CASE n # Sink /\ m = Sink
    <3>1. ~ firstSinkMsg[n]
      BY <2>0, <2>2, AllIdentified, Zenon
    <3>2. EntryOK(n, SinkID(0), Sink)
      BY <2>2, <3>1, Zenon DEF DiscoveryInv, EntriesOK, SinkHeld
    <3> QED BY <2>2, <3>2, NodesAreExtensions, Zenon DEF EntryOK
  <2>3. CASE n # Sink /\ m # Sink
    <3>1. m \in Sensors /\ Identified(m)
      BY <2>3, AllIdentified, Zenon DEF Sensors
    <3> QED BY <2>0, <2>3, <3>1, Zenon DEF DiscoveryInv, ProgressOK, AdvertProgress
  <2> QED BY <2>1, <2>2, <2>3, Zenon
<1> QED BY <1>1, DiscoveryInvAlways, PTL

-----------------------------------------------------------------------------
(* What discovery leaves to the request phase.                               *)

\* A sensor with a slot to generate requests in has an identifier.
SlotHoldersIdentified == \A r \in Sensors : genSlot[r] # NoSlot => Identified(r)

\* It is the only node that has it.
SlotHoldersNamed ==
    \A r \in Sensors : genSlot[r] # NoSlot =>
        \A n \in Nodes : n # r => myID[n] # myID[r]

\* A slot is taken by the handler that takes the identifier.
LEMMA SlotHoldersStep ==
    ASSUME ~ NDEBUG, IdentityInv, SlotHoldersIdentified, Next
    PROVE  SlotHoldersIdentified'
<1>0. TypeOK /\ TypeOK' /\ IdentityKept
  BY InvariantStep, Zenon DEF IdentityInv
<1> USE DEF statics
<1>1. CASE UNCHANGED genSlot
  BY <1>0, <1>1, Zenon DEF SlotHoldersIdentified, IdentityKept, Sensors
<1>2. ASSUME NEW f \in air, f.to # Sink, TakeIDFromSink(f) \/ TakeIDFromNeighbor(f)
      PROVE  SlotHoldersIdentified'
  <2>1. Identified(f.to)'
    BY <1>0, <1>2, TakeIDStep, Zenon DEF TakeIDFromSink, TakeIDFromNeighbor
  <2>2. scheduleTimeToGenerateRequest(f.to)
    BY <1>2, Zenon DEF TakeIDFromSink, TakeIDFromNeighbor, TakeID
  <2>3. \A n \in Sensors : n # f.to => genSlot'[n] = genSlot[n]
    BY <1>0, <2>2, Zenon DEF scheduleTimeToGenerateRequest, TypeOK, Sensors
  <2> QED BY <1>0, <2>1, <2>3, Zenon DEF SlotHoldersIdentified, IdentityKept, Sensors
<1>3. ASSUME NEW f \in air, Receive(f) PROVE SlotHoldersIdentified'
  BY <1>1, <1>2, <1>3, Zenon
     DEF Receive, handleNicDiscoveryMsg, AskForArea, NoAreaSlot, IgnoreSink,
         IgnoreNeighbor, RegisterNeighbor, TooFarFromSink, SINK_handleNicDiscoveryMsg,
         GiveArea, NoMoreArea, IgnoreAdvert, Abort
<1>4. CASE (\E n \in Sensors : SelfInitialization(n)) \/ SINK_SelfInitialization
           \/ (\E p \in scheduled : SendNic(p))
  BY <1>1, <1>4 DEF SelfInitialization, SINK_SelfInitialization, SendNic
<1> QED BY <1>3, <1>4, Zenon DEF Next

\* With the assertions on, no other node has the identifier of a sensor that
\* has found a slot to generate requests in (SR.cc:341-351, 541, 612): what
\* the theorems about requests assume of the requesters.
THEOREM SlotHoldersNamedAlways ==
    ASSUME ~ NDEBUG
    PROVE  Spec => []SlotHoldersNamed
<1>1. Init => SlotHoldersIdentified
  BY Zenon DEF Init, SlotHoldersIdentified, Sensors
<1>2. IdentityInv /\ SlotHoldersIdentified /\ [Next]_vars => SlotHoldersIdentified'
  BY SlotHoldersStep, Zenon DEF vars, SlotHoldersIdentified, Identified
<1>3. IdentityInv /\ SlotHoldersIdentified => SlotHoldersNamed
  <2> SUFFICES ASSUME IdentityInv, SlotHoldersIdentified,
                      NEW r \in Sensors, genSlot[r] # NoSlot, NEW n \in Nodes, n # r
               PROVE  myID[n] # myID[r]
    BY Zenon DEF SlotHoldersNamed
  <2>1. Identified(r) /\ r \in Nodes
    BY Zenon DEF SlotHoldersIdentified, Sensors
  <2> QED BY <2>1, Zenon DEF IdentityInv, IDFieldsOK, Identified
<1> QED BY <1>1, <1>2, <1>3, InvariantHolds, PTL DEF Spec

=============================================================================
