--------------------------- MODULE SRTablesProofs ---------------------------
(***************************************************************************)
(* Proofs about what discovery leaves behind, whatever is lost: the        *)
(* positions in the bitmaps, the kinds of messages, the entries of the     *)
(* neighbour tables, the parents and the areas.                            *)
(***************************************************************************)
EXTENDS SRDiscoveryProofs

-----------------------------------------------------------------------------
(* Positions in areaBitmap and generatorBitmap.                              *)

\* A step that leaves bitmaps and positions alone.
LEMMA SlotsUntouched ==
    ASSUME SlotsOK, UNCHANGED <<areaBitmap, areaSlot, generatorBit0, genSlot>>
    PROVE  SlotsOK'
BY Zenon DEF SlotsOK

\* Taking a position in areaBitmap: position 0 only while its bit is clear.
LEMMA AreaSlotStep ==
    ASSUME TypeOK, SlotsOK, NEW n \in Nodes, NEW pos \in AreaSlots,
           TakeAreaSlot(n, pos), UNCHANGED <<generatorBit0, genSlot>>
    PROVE  SlotsOK'
<1>1. areaBitmap \in Nat /\ areaSlot \in [Nodes -> AreaSlots \cup {NoSlot}]
  BY DEF TypeOK, UINT16
<1>2. /\ areaSlot' = [areaSlot EXCEPT ![n] = pos]
      /\ areaBitmap' = (areaBitmap + Bit(pos)) % 65536
      /\ pos = 0 => areaBitmap % 2 # 1
  BY DEF TakeAreaSlot, PositionTaken
<1>3. pos \in 0..3
  BY SlotsAssumption, Zenon
<1>4. CASE pos = 0
  <2>1. areaBitmap' % 2 = 1
    <3>1. Bit(pos) = 1
      BY <1>4 DEF Bit
    <3>2. areaBitmap % 2 = 0
      BY <1>1, <1>2, <1>4
    <3> QED BY <1>1, <1>2, <3>1, <3>2
  <2>2. \A m \in Sensors : areaSlot[m] # 0
    BY <1>2, <1>4 DEF SlotsOK
  <2>3. \A m \in Sensors : m # n => areaSlot'[m] = areaSlot[m]
    BY <1>1, <1>2 DEF Sensors
  <2> QED BY <2>1, <2>2, <2>3, Zenon DEF SlotsOK
<1>5. CASE pos # 0
  <2>1. Bit(pos) \in {2, 4, 8}
    BY <1>3, <1>5 DEF Bit
  <2>2. areaBitmap % 2 = 1 => areaBitmap' % 2 = 1
    BY <1>1, <1>2, <2>1
  <2>3. \A m \in Sensors : areaSlot'[m] = 0 => areaSlot[m] = 0
    BY <1>1, <1>2, <1>5 DEF Sensors
  <2> QED BY <2>2, <2>3, Zenon DEF SlotsOK
<1> QED BY <1>4, <1>5, Zenon

\* Taking a position in generatorBitmap, or giving up after 65 refusals.
LEMMA GenSlotStep ==
    ASSUME TypeOK, SlotsOK, NEW n \in Nodes, scheduleTimeToGenerateRequest(n),
           UNCHANGED <<areaBitmap, areaSlot>>
    PROVE  SlotsOK'
<1>1. genSlot \in [Nodes -> GenSlots \cup {NoSlot}]
  BY Zenon DEF TypeOK
<1>2. CASE UNCHANGED <<generatorBit0, genSlot>>
  BY <1>2, SlotsUntouched, Zenon
<1>3. ASSUME NEW pos \in GenSlots,
             ~ PositionTaken(generatorBit0, ShiftCount(pos)),
             generatorBit0' = (generatorBit0 \/ ShiftCount(pos) = 0),
             genSlot' = [genSlot EXCEPT ![n] = pos]
      PROVE  SlotsOK'
  <2>1. pos \in 0..63
    BY SlotsAssumption, Zenon
  <2>2. ShiftCount(pos) = 0 <=> pos \in {0, 32}
    BY <2>1 DEF ShiftCount
  <2>3. generatorBit0 => generatorBit0'
    BY <1>3, Zenon
  <2>4. CASE pos \in {0, 32}
    <3>1. ~ generatorBit0 /\ generatorBit0'
      BY <1>3, <2>2, <2>4, Zenon DEF PositionTaken
    <3>2. \A m \in Sensors : genSlot[m] \notin {0, 32}
      BY <3>1, Zenon DEF SlotsOK
    <3>3. \A m \in Sensors : m # n => genSlot'[m] = genSlot[m]
      BY <1>1, <1>3, Zenon DEF Sensors
    <3> QED BY <3>1, <3>2, <3>3 DEF SlotsOK
  <2>5. CASE pos \notin {0, 32}
    <3>1. \A m \in Sensors : genSlot'[m] \in {0, 32} => genSlot[m] \in {0, 32}
      BY <1>1, <1>3, <2>5, Zenon DEF Sensors
    <3> QED BY <2>3, <3>1 DEF SlotsOK
  <2> QED BY <2>4, <2>5, Zenon
<1> QED BY <1>2, <1>3, Zenon DEF scheduleTimeToGenerateRequest

\* Every step keeps the bits of the taken positions set.
LEMMA SlotsStep ==
    ASSUME TypeOK, SlotsOK, [Next]_vars
    PROVE  SlotsOK'
<1> USE DEF statics
<1>1. ASSUME NEW f \in air, AskForArea(f) PROVE SlotsOK'
  BY <1>1, FrameFields, AreaSlotStep, Zenon DEF AskForArea
<1>2. ASSUME NEW f \in air, TakeIDFromSink(f) \/ TakeIDFromNeighbor(f)
      PROVE  SlotsOK'
  BY <1>2, FrameFields, GenSlotStep, Zenon DEF TakeIDFromSink, TakeIDFromNeighbor, TakeID
<1>3. ASSUME NEW f \in air, handleNicDiscoveryMsg(f) PROVE SlotsOK'
  BY <1>1, <1>2, <1>3, SlotsUntouched, Zenon
     DEF handleNicDiscoveryMsg, NoAreaSlot, IgnoreSink, IgnoreNeighbor,
         RegisterNeighbor, TooFarFromSink, Abort
<1>4. ASSUME NEW f \in air, SINK_handleNicDiscoveryMsg(f) PROVE SlotsOK'
  BY <1>4, SlotsUntouched, Zenon
     DEF SINK_handleNicDiscoveryMsg, GiveArea, NoMoreArea, IgnoreAdvert, Abort
<1>5. ASSUME NEW n \in Sensors, SelfInitialization(n) PROVE SlotsOK'
  BY <1>5, SlotsUntouched DEF SelfInitialization
<1>6. CASE SINK_SelfInitialization
  BY <1>6, SlotsUntouched DEF SINK_SelfInitialization
<1>7. ASSUME NEW p \in scheduled, SendNic(p) PROVE SlotsOK'
  BY <1>7, SlotsUntouched, Zenon DEF SendNic
<1>8. CASE UNCHANGED vars
  BY <1>8, SlotsUntouched, Zenon DEF vars
<1> QED BY <1>3, <1>4, <1>5, <1>6, <1>7, <1>8, Zenon DEF Next, Receive

-----------------------------------------------------------------------------
(* The kinds of messages.                                                    *)

\* The identifier of the sink in area 0 is the same whatever the builder held,
\* and the least one with the sink's MAC extension.
LEMMA SinkIDValue ==
    /\ SinkID(0) = 64 * Sink /\ SinkID(65535) = SinkID(0)
    /\ SinkID(0) \in UINT16 /\ SinkID(0) # NOT_INITIALIZED
    /\ getMACExt(SinkID(0)) = Sink /\ getSinkDistance(SinkID(0)) = 0
    /\ \A id \in UINT16 : getMACExt(id) = Sink /\ id # SinkID(0) => SinkID(0) < id
<1>1. Sink \in 1..255
  BY NodesAssumption, Zenon
<1>2. setMACExt(0, Sink) = 64 * Sink /\ setMACExt(65535, Sink) = 64 * Sink + 63
  BY <1>1 DEF setMACExt
<1>3. setSinkDistance(64 * Sink, 0) = 64 * Sink
  BY <1>1 DEF setSinkDistance
<1>4. setSinkDistance(64 * Sink + 63, 0) = 64 * Sink + 3
  BY <1>1 DEF setSinkDistance
<1>5. setArea(64 * Sink, 0) = 64 * Sink /\ setArea(64 * Sink + 3, 0) = 64 * Sink
  BY <1>1 DEF setArea
<1>6. SinkID(0) = 64 * Sink /\ SinkID(65535) = 64 * Sink
  BY <1>2, <1>3, <1>4, <1>5 DEF SinkID
<1>7. /\ SinkID(0) \in UINT16 /\ SinkID(0) # NOT_INITIALIZED
      /\ getMACExt(SinkID(0)) = Sink /\ getSinkDistance(SinkID(0)) = 0
  BY SinkIDFields DEF UINT16
<1>8. ASSUME NEW id \in UINT16, getMACExt(id) = Sink, id # SinkID(0)
      PROVE  SinkID(0) < id
  BY <1>1, <1>6, <1>8 DEF getMACExt, UINT16
<1> QED BY <1>6, <1>7, <1>8

\* The fields of packets.
LEMMA PacketFields ==
    /\ \A query, from, to, id, filter :
          LET p == Packet(query, from, to, id, filter)
          IN  /\ p.queryType = query /\ p.src = from /\ p.dest = to /\ p.Id = id
              /\ p.bloom = filter
    /\ Announcement.src = Sink /\ Announcement.Id = SinkID(0) /\ Announcement.bloom = Sink
    /\ \A n : Advert(n).src = n /\ Advert(n).Id = myID[n] /\ Advert(n).bloom = n
BY DEF Packet, Announcement, Advert

\* What the handlers can rely on about the packet they are given.
LEMMA FrameKinds ==
    ASSUME IdentityInv, KindsOK, NEW f \in air
    PROVE  /\ f.to # Sink /\ FromSink(f.pkt) =>
                f.pkt.src = Sink /\ (firstSinkMsg[f.to] => f.pkt = Announcement)
           /\ f.to # Sink /\ FromSink(f.pkt) /\ ~ firstSinkMsg[f.to] =>
                IsReply(f.pkt) /\ f.pkt.dest = f.to
           /\ f.to # Sink /\ ~ FromSink(f.pkt) =>
                f.pkt.src \in Sensors /\ f.pkt = Advert(f.pkt.src)
           /\ f.to = Sink /\ f.pkt.queryType = "Q_REQUEST" =>
                /\ IsRequest(f.pkt) /\ f.pkt.src \in Sensors
                /\ ~ firstSinkMsg[f.pkt.src] /\ f.pkt.bloom = f.pkt.src
                /\ f.pkt.Id # NOT_INITIALIZED => getMACExt(f.pkt.Id) = f.pkt.src
<1> DEFINE p == f.pkt
<1>1. /\ KindOK(p) /\ p \in Packets
      /\ <<p.src, f.to>> \in Link
      /\ p.dest # BROADCAST => f.to = p.dest
  BY FrameFields, Zenon DEF KindsOK, InTransit, IdentityInv, MessagesOK
<1>2. p.src \in Nodes /\ Sink \in Nodes /\ BROADCAST \notin Nodes
  BY <1>1, NodesAssumption, NodesAreExtensions, Zenon DEF Packets
<1>3. p = Announcement =>
        p.src = Sink /\ FromSink(p) /\ f.to # Sink /\ firstSinkMsg[f.to]
  <2>1. p = Announcement => p.src = Sink /\ FromSink(p)
    BY SinkIDValue DEF Announcement, Packet, FromSink
  <2>2. p = Announcement => f.to # Sink
    BY <1>1, <1>2, <2>1, LinkAssumption, Zenon
  <2>3. p = Announcement => firstSinkMsg[f.to]
    BY Zenon DEF KindsOK, AnnouncedOnce
  <2> QED BY <2>1, <2>2, <2>3, Zenon
<1>4. f.to # Sink => (FromSink(p) <=> p.src = Sink)
  <2>1. ASSUME f.to # Sink, p.src = Sink PROVE FromSink(p)
    <3>1. /\ Identified(Sink)
          /\ getSinkDistance(p.Id) = getSinkDistance(myID[Sink])
      BY <2>1, SenderFacts, Zenon
    <3> QED BY <1>2, <3>1, Zenon DEF IdentityInv, IDFieldsOK, FromSink
  <2> QED BY <2>1, SenderFacts, Zenon
<1>5. ASSUME f.to # Sink, p.src = Sink
      PROVE  p = Announcement \/ (IsReply(p) /\ p.dest = f.to /\ ~ firstSinkMsg[f.to])
  BY <1>1, <1>2, <1>5, Zenon DEF KindOK, IsRequest, Sensors
<1>6. ASSUME f.to # Sink, p.src # Sink
      PROVE  p.src \in Sensors /\ p = Advert(p.src)
  BY <1>1, <1>2, <1>3, <1>6, Zenon DEF KindOK, IsRequest, Sensors
<1>7. ASSUME f.to = Sink, p.queryType = "Q_REQUEST"
      PROVE  /\ IsRequest(p) /\ p.src \in Sensors
             /\ ~ firstSinkMsg[p.src] /\ p.bloom = p.src
             /\ p.Id # NOT_INITIALIZED => getMACExt(p.Id) = p.src
  <2>1. p # Advert(p.src)
    BY <1>7 DEF Advert, Packet
  <2> QED BY <1>1, <1>2, <1>3, <1>7, <2>1, Zenon DEF KindOK, IsReply, IsRequest, Sensors
<1> QED BY <1>3, <1>4, <1>5, <1>6, <1>7, Zenon

\* A packet keeps its kind: identifiers are kept and a sensor that has heard
\* of the sink does not forget it.
LEMMA KindStays ==
    ASSUME IdentityKept, \A n \in Nodes : ~ firstSinkMsg[n] => ~ firstSinkMsg'[n],
           NEW p \in Packets, PacketOK(p), KindOK(p)
    PROVE  KindOK(p)'
<1>1. p.src \in Nodes
  BY Zenon DEF Packets
<1>2. CASE p = Announcement
  BY <1>2, Zenon DEF KindOK
<1>3. CASE IsRequest(p) /\ p.dest = Sink /\ ~ firstSinkMsg[p.src]
           /\ (p.Id # NOT_INITIALIZED => getMACExt(p.Id) = p.src)
           /\ p.bloom = p.src
  BY <1>1, <1>3, Zenon DEF KindOK, IsRequest
<1>4. CASE IsReply(p) /\ p.src = Sink /\ p.dest \in Sensors /\ ~ firstSinkMsg[p.dest]
  BY <1>4, Zenon DEF KindOK, IsReply, Sensors
<1>5. CASE p.src # Sink /\ p = Advert(p.src)
  <2>1. p.queryType = "none"
    BY <1>5 DEF Advert, Packet
  <2>2. Identified(p.src)
    BY <2>1, Zenon DEF PacketOK
  <2>3. myID'[p.src] = myID[p.src]
    BY <1>1, <1>5, <2>2, Zenon DEF IdentityKept
  <2>4. p = Advert(p.src)'
    BY <1>5, <2>3, Zenon DEF Advert
  <2> QED BY <1>5, <2>4, Zenon DEF KindOK
<1> QED BY <1>2, <1>3, <1>4, <1>5, Zenon DEF KindOK

\* All packets keep their kinds when one of a known kind is added.
LEMMA KindsStay ==
    ASSUME IdentityInv, KindsOK, IdentityKept,
           \A n \in Nodes : ~ firstSinkMsg[n] => ~ firstSinkMsg'[n],
           NEW q, KindOK(q)', InTransit' \subseteq InTransit \cup {q}
    PROVE  \A p \in InTransit' : KindOK(p)'
<1>1. \A p \in InTransit : p \in Packets /\ PacketOK(p) /\ KindOK(p)
  BY FrameFields, Zenon DEF InTransit, IdentityInv, TypeOK, MessagesOK, KindsOK
<1> QED BY <1>1, KindStays, Zenon

\* A step that neither announces the sink nor makes it known to a sensor.
LEMMA AnnouncedKept ==
    ASSUME KindsOK, UNCHANGED firstSinkMsg, initialized'[Sink] = initialized[Sink],
           air' \subseteq air, Announcement \in scheduled' => Announcement \in scheduled
    PROVE  AnnouncedOnce'
BY Zenon DEF KindsOK, AnnouncedOnce

\* The sink announces itself.
LEMMA KindsSinkInit ==
    ASSUME IdentityInv, KindsOK, SINK_SelfInitialization, TypeOK'
    PROVE  KindsOK'
<1>1. /\ ~ initialized[Sink] /\ air = {} /\ air' = {}
      /\ UNCHANGED firstSinkMsg
      /\ initialized' = [initialized EXCEPT ![Sink] = TRUE]
  BY NodesAssumption
     DEF SINK_SelfInitialization, MyTurnToInitialize, IdentityInv, FlagsOK
<1>2. scheduled' = scheduled \cup {Announcement}
  <2>1. PICK g \in {0, 65535} : AnnounceSink(SinkID(g))
    BY DEF SINK_SelfInitialization
  <2>2. SinkID(g) = SinkID(0)
    BY SinkIDValue
  <2> QED BY <2>1, <2>2 DEF AnnounceSink, scheduleMsgToSendNic, Announcement
<1>3. \A p \in InTransit' : KindOK(p)'
  <2>1. IdentityKept
    BY SinkInitStep, Zenon
  <2>2. KindOK(Announcement)'
    BY Zenon DEF KindOK
  <2>3. InTransit' \subseteq InTransit \cup {Announcement}
    BY <1>1, <1>2, Zenon DEF InTransit
  <2> QED BY <1>1, <2>1, <2>2, <2>3, KindsStay
<1>4. AnnouncedOnce'
  <2>1. initialized'[Sink]
    BY <1>1, NodesAssumption, Zenon DEF IdentityInv, TypeOK
  <2> QED BY <1>1, <2>1 DEF KindsOK, AnnouncedOnce
<1> QED BY <1>3, <1>4, Zenon DEF KindsOK

\* A packet is handed to the radio.
LEMMA KindsSend ==
    ASSUME IdentityInv, KindsOK, NEW p \in scheduled, SendNic(p)
    PROVE  KindsOK'
<1>1. PICK S \in Deliveries(p) : air' = air \cup S
  BY Zenon DEF SendNic
<1>2. /\ UNCHANGED <<initialized, myID, firstSinkMsg>>
      /\ scheduled' = scheduled \ {p}
      /\ initialized[Sink]
  BY NodesAssumption, Zenon DEF SendNic
<1>3. p \in Packets /\ KindOK(p)
  BY Zenon DEF IdentityInv, TypeOK, KindsOK, InTransit
<1>4. \A f \in S : f.pkt = p /\ f.to \in Nodes
  BY <1>3, DeliveriesFacts, Zenon DEF Frames
<1>5. \A q \in InTransit' : KindOK(q)'
  <2>1. InTransit' \subseteq InTransit
    BY <1>1, <1>2, <1>4, Zenon DEF InTransit
  <2>2. IdentityKept
    BY <1>2, Zenon DEF IdentityKept, Identified
  <2>3. \A q \in InTransit : q \in Packets /\ PacketOK(q) /\ KindOK(q)
    BY FrameFields, Zenon DEF InTransit, IdentityInv, TypeOK, MessagesOK, KindsOK
  <2> QED BY <1>2, <2>1, <2>2, <2>3, KindStays, Zenon
<1>6. AnnouncedOnce'
  <2>1. CASE p # Announcement
    BY <1>1, <1>2, <1>4, <2>1 DEF KindsOK, AnnouncedOnce
  <2>2. CASE p = Announcement
    <3>1. \A f \in S : f.copy = 1
      <4>1. p.dest = BROADCAST
        BY <2>2, Zenon DEF Announcement, Packet
      <4> QED BY <4>1 DEF Deliveries, Frame
    <3>2. /\ \A n \in Nodes : firstSinkMsg[n]
          /\ \A f \in air : f.pkt # Announcement
      BY <2>2, Zenon DEF KindsOK, AnnouncedOnce
    <3> QED BY <1>1, <1>2, <1>4, <2>2, <3>1, <3>2, Zenon DEF AnnouncedOnce
  <2> QED BY <2>1, <2>2, Zenon
<1> QED BY <1>5, <1>6, Zenon DEF KindsOK

\* A sensor hears the sink announced and asks it for an area.
LEMMA KindsAsk ==
    ASSUME IdentityInv, KindsOK, NEW f \in air, f.to # Sink, AskForArea(f)
    PROVE  KindsOK'
<1>0. PICK q : q = Packet("Q_REQUEST", f.to, f.pkt.src, myID[f.to], f.to)
  BY Zenon
<1>1. /\ f.pkt = Announcement /\ f.pkt.src = Sink
      /\ f.to \in Sensors /\ f.to \in Nodes
  BY FrameKinds, SenderFacts, Zenon DEF AskForArea, Sensors
<1>2. /\ UNCHANGED <<initialized, myID>>
      /\ firstSinkMsg' = [firstSinkMsg EXCEPT ![f.to] = FALSE]
      /\ scheduled' = scheduled \cup {q}
      /\ air' = air \ {f}
  BY <1>0, Zenon DEF AskForArea, scheduleMsgToSendNic, SinkIsKnown
<1>3. \A n \in Nodes : firstSinkMsg'[n] <=> firstSinkMsg[n] /\ n # f.to
  BY <1>2, Zenon DEF IdentityInv, TypeOK
<1>4. q.src = f.to /\ q # Announcement
  <2>1. q.src = f.to /\ Announcement.src = Sink
    BY <1>0, Zenon DEF Packet, Announcement
  <2> QED BY <2>1, Zenon
<1>5. KindOK(q)'
  <2>1. /\ q.queryType = "Q_REQUEST" /\ q.src = f.to /\ q.dest = Sink
        /\ q.Id = myID[f.to] /\ q.bloom = f.to
    BY <1>0, <1>1, Zenon DEF Packet
  <2>2. q.Id # NOT_INITIALIZED => getMACExt(q.Id) = q.src
    BY <1>1, <2>1, Zenon DEF IdentityInv, IDFieldsOK, Identified
  <2> QED BY <1>1, <1>3, <2>1, <2>2, Zenon DEF KindOK, IsRequest
<1>6. \A p \in InTransit' : KindOK(p)'
  <2>1. InTransit' \subseteq InTransit \cup {q}
    BY <1>2, Zenon DEF InTransit
  <2>2. IdentityKept
    BY <1>2, Zenon DEF IdentityKept, Identified
  <2> QED BY <1>3, <1>5, <2>1, <2>2, KindsStay, Zenon
<1>7. AnnouncedOnce'
  <2>1. initialized[Sink] /\ Announcement \notin scheduled
    BY <1>1, Zenon DEF KindsOK, AnnouncedOnce
  <2>2. ASSUME NEW g \in air', g.pkt = Announcement
        PROVE  firstSinkMsg'[g.to] /\ g.copy = 1
    <3>1. /\ g \in air /\ g # f /\ g \in Frames /\ f \in Frames
          /\ firstSinkMsg[g.to] /\ g.copy = 1 /\ f.copy = 1
      BY <1>1, <1>2, <2>2, Zenon DEF KindsOK, AnnouncedOnce, IdentityInv, TypeOK
    <3>2. g.to # f.to
      BY <1>1, <2>2, <3>1 DEF Frames
    <3> QED BY <1>3, <3>1, <3>2, Zenon DEF Frames
  <2> QED BY <1>2, <1>4, <2>1, <2>2, Zenon DEF AnnouncedOnce
<1> QED BY <1>6, <1>7, Zenon DEF KindsOK

\* A sensor takes an identifier and advertises it.
LEMMA KindsTake ==
    ASSUME ~ NDEBUG, IdentityInv, KindsOK, NEW f \in air, f.to # Sink,
           TakeIDFromSink(f) \/ TakeIDFromNeighbor(f), TypeOK'
    PROVE  KindsOK'
<1>1. /\ MayTakeID(f.to) /\ TakeID(f.to, f.pkt.Id) /\ air' = air \ {f}
      /\ UNCHANGED <<initialized, firstSinkMsg>>
  BY Zenon DEF TakeIDFromSink, TakeIDFromNeighbor
<1>2. IdentityKept /\ f.to \in Sensors
  BY <1>1, TakeIDStep, SenderFacts, Zenon
<1> DEFINE q == Packet("none", f.to, BROADCAST, DerivedID(f.to, f.pkt.Id), f.to)
<1>3. scheduled' = scheduled \cup {q}
  BY <1>1, Zenon DEF TakeID, scheduleMsgToSendNic
<1>4. q.src = f.to /\ q # Announcement
  <2>1. q.src = f.to /\ Announcement.src = Sink
    BY Zenon DEF Announcement, Packet
  <2> QED BY <2>1, Zenon
<1>5. KindOK(q)'
  <2>1. myID'[f.to] = DerivedID(f.to, f.pkt.Id)
    BY <1>1, <1>2, Zenon DEF TakeID, IdentityInv, TypeOK, Sensors
  <2>2. q = Advert(f.to)'
    BY <2>1, Zenon DEF Advert
  <2> HIDE DEF q
  <2> QED BY <1>4, <2>2, Zenon DEF KindOK
<1> HIDE DEF q
<1>6. \A p \in InTransit' : KindOK(p)'
  <2>1. InTransit' \subseteq InTransit \cup {q}
    BY <1>1, <1>3, Zenon DEF InTransit
  <2> QED BY <1>1, <1>2, <1>5, <2>1, KindsStay, Zenon
<1>7. AnnouncedOnce'
  BY <1>1, <1>3, <1>4, AnnouncedKept, Zenon
<1> QED BY <1>6, <1>7, Zenon DEF KindsOK

\* The sink answers a request.
LEMMA KindsGive ==
    ASSUME ~ NDEBUG, IdentityInv, KindsOK, NEW f \in air, f.to = Sink, GiveArea(f),
           TypeOK'
    PROVE  KindsOK'
<1>0. PICK q : q = Packet("Q_REPLY", Sink, f.pkt.src, setArea(myID[Sink], areaNumber),
                          NoBloom)
  BY Zenon
<1>1. f.pkt.src \in Sensors /\ ~ firstSinkMsg[f.pkt.src]
  BY FrameKinds, Zenon DEF GiveArea
<1>2. /\ UNCHANGED <<initialized, firstSinkMsg>> /\ air' = air \ {f}
      /\ scheduled' = scheduled \cup {q}
  BY <1>0, Zenon DEF GiveArea, scheduleMsgToSendNic
<1>3. IdentityKept
  BY GiveAreaStep, Zenon
<1>4. q.queryType = "Q_REPLY" /\ q.src = Sink /\ q.dest = f.pkt.src
  BY <1>0, Zenon DEF Packet
<1>5. q # Announcement
  <2>1. Announcement.queryType = "Q_REQUEST"
    BY Zenon DEF Announcement, Packet
  <2> QED BY <1>4, <2>1, Zenon
<1>6. KindOK(q)'
  BY <1>1, <1>2, <1>4, Zenon DEF KindOK, IsReply
<1>7. InTransit' \subseteq InTransit \cup {q}
  BY <1>2, Zenon DEF InTransit
<1>8. AnnouncedOnce'
  BY <1>2, <1>5, AnnouncedKept, Zenon
<1> QED BY <1>2, <1>3, <1>6, <1>7, <1>8, KindsStay, Zenon DEF KindsOK

\* A step that sends nothing, takes a frame or not, and leaves flags alone.
LEMMA KindsSilent ==
    ASSUME IdentityInv, KindsOK, UNCHANGED <<myID, firstSinkMsg, scheduled>>,
           initialized'[Sink] = initialized[Sink], air' \subseteq air
    PROVE  KindsOK'
<1>1. AnnouncedOnce'
  BY AnnouncedKept, Zenon
<1>2. InTransit' \subseteq InTransit /\ \A p : KindOK(p)' <=> KindOK(p)
  BY DEF InTransit, KindOK, Advert, IsRequest, IsReply
<1> QED BY <1>1, <1>2, Zenon DEF KindsOK

\* Every step keeps the kinds of messages.
LEMMA KindsStep ==
    ASSUME ~ NDEBUG, IdentityInv, KindsOK, [Next]_vars
    PROVE  KindsOK'
<1>0. TypeOK /\ TypeOK'
  BY TypeStep, Zenon DEF IdentityInv
<1> USE <1>0 DEF statics
<1>1. ASSUME NEW f \in air, f.to # Sink, handleNicDiscoveryMsg(f)
      PROVE  KindsOK'
  <2>1. CASE AskForArea(f)
    BY <1>1, <2>1, KindsAsk, Zenon
  <2>2. CASE TakeIDFromSink(f) \/ TakeIDFromNeighbor(f)
    BY <1>1, <2>2, KindsTake, Zenon
  <2>3. CASE NoAreaSlot(f) \/ TooFarFromSink(f)
    BY <2>3, KindsSilent, Zenon DEF NoAreaSlot, TooFarFromSink, Abort
  <2>4. CASE IgnoreSink(f) \/ IgnoreNeighbor(f) \/ RegisterNeighbor(f)
    BY <2>4, KindsSilent, Zenon DEF IgnoreSink, IgnoreNeighbor, RegisterNeighbor
  <2> QED BY <1>1, <2>1, <2>2, <2>3, <2>4, Zenon DEF handleNicDiscoveryMsg
<1>2. ASSUME NEW f \in air, f.to = Sink, SINK_handleNicDiscoveryMsg(f)
      PROVE  KindsOK'
  <2>1. CASE GiveArea(f)
    BY <1>2, <2>1, KindsGive, Zenon
  <2>2. CASE NoMoreArea(f) \/ IgnoreAdvert(f)
    BY <2>2, KindsSilent, Zenon DEF NoMoreArea, IgnoreAdvert, Abort
  <2> QED BY <1>2, <2>1, <2>2, Zenon DEF SINK_handleNicDiscoveryMsg
<1>3. ASSUME NEW n \in Sensors, SelfInitialization(n) PROVE KindsOK'
  <2>1. initialized'[Sink] = initialized[Sink]
    <3>1. initialized' = [initialized EXCEPT ![n] = TRUE] /\ n # Sink
      BY <1>3 DEF SelfInitialization, Sensors
    <3> QED BY <3>1, NodesAssumption, Zenon DEF TypeOK
  <2> QED BY <1>3, <2>1, KindsSilent DEF SelfInitialization
<1>4. CASE SINK_SelfInitialization
  BY <1>4, KindsSinkInit, Zenon
<1>5. ASSUME NEW p \in scheduled, SendNic(p) PROVE KindsOK'
  BY <1>5, KindsSend, Zenon
<1>6. CASE UNCHANGED vars
  BY <1>6, KindsSilent, Zenon DEF vars
<1> QED BY <1>1, <1>2, <1>3, <1>4, <1>5, <1>6, Zenon DEF Next, Receive

\* Initially there are no messages and nobody has heard of the sink.
LEMMA KindsInit == Init => KindsOK
BY Zenon DEF Init, KindsOK, AnnouncedOnce, InTransit

-----------------------------------------------------------------------------
(* What the tables hold.                                                     *)

\* No sensor forgets that it has heard of the sink.
SinkNotForgotten == \A n \in Nodes : ~ firstSinkMsg[n] => ~ firstSinkMsg'[n]

\* An entry stays sound.
LEMMA EntryStays ==
    ASSUME IdentityKept, SinkNotForgotten, NEW n \in Nodes, NEW k, NEW m,
           DOMAIN NeighborsTable[n] \subseteq DOMAIN NeighborsTable'[n],
           EntryOK(n, k, m)
    PROVE  EntryOK(n, k, m)'
BY Zenon DEF EntryOK, IdentityKept, SinkNotForgotten

\* A step that writes no table.
LEMMA EntriesUntouched ==
    ASSUME EntriesOK, IdentityKept,
           UNCHANGED <<neighborList, NeighborsTable, firstSinkMsg>>
    PROVE  EntriesOK'
<1>1. ASSUME NEW n \in Nodes, NEW k \in DOMAIN neighborList[n]
      PROVE  EntryOK(n, k, neighborList[n][k])'
  BY EntryStays, Zenon DEF EntriesOK, SinkNotForgotten
<1> QED BY <1>1, Zenon DEF EntriesOK, SinkHeld

\* Registering a neighbour with its own filter under a key that is not the
\* sink's, or the sink under its own.
LEMMA EntriesAdd ==
    ASSUME TablesOK, EntriesOK, IdentityKept, SinkNotForgotten,
           NEW n \in Nodes, NEW mac \in Nodes, NEW id,
           addNeighbor(n, mac, id, mac),
           id = SinkID(0) => mac = Sink,
           \A x \in Nodes : x # Sink /\ ~ firstSinkMsg'[x] =>
               ~ firstSinkMsg[x] \/ (x = n /\ id = SinkID(0)),
           mac \in DOMAIN NeighborsTable'[n] => EntryOK(n, id, mac)'
    PROVE  EntriesOK'
<1>1. /\ DOMAIN neighborList = Nodes /\ DOMAIN NeighborsTable = Nodes
      /\ NeighborsTable' = [NeighborsTable EXCEPT ![n] = MapPut(@, mac, mac)]
      /\ neighborList' = [neighborList EXCEPT ![n] = MapPut(@, id, mac)]
  BY Zenon DEF addNeighbor, TablesOK
<1>2. /\ NeighborsTable'[n] = MapPut(NeighborsTable[n], mac, mac)
      /\ neighborList'[n] = MapPut(neighborList[n], id, mac)
      /\ \A x \in Nodes \ {n} : /\ NeighborsTable'[x] = NeighborsTable[x]
                                /\ neighborList'[x] = neighborList[x]
  BY <1>1, Zenon
<1>3. /\ DOMAIN NeighborsTable'[n] = DOMAIN NeighborsTable[n] \cup {mac}
      /\ NeighborsTable'[n][mac] = mac
      /\ \A m \in DOMAIN NeighborsTable[n] \ {mac} :
           NeighborsTable'[n][m] = NeighborsTable[n][m]
  BY <1>2, Zenon DEF MapPut
<1>4. /\ DOMAIN neighborList'[n] = DOMAIN neighborList[n] \cup {id}
      /\ neighborList'[n][id] = mac
      /\ \A k \in DOMAIN neighborList[n] \ {id} :
           neighborList'[n][k] = neighborList[n][k]
  BY <1>2, Zenon DEF MapPut
<1>5. ASSUME NEW x \in Nodes, NEW k \in DOMAIN neighborList'[x]
      PROVE  EntryOK(x, k, neighborList[x][k])'
  <2>1. CASE x # n
    BY <1>2, <1>5, <2>1, EntryStays, Zenon DEF EntriesOK
  <2>2. CASE x = n /\ k = id
    BY <1>3, <1>4, <2>2, Zenon
  <2>3. CASE x = n /\ k # id
    <3>1. k \in DOMAIN neighborList[n] /\ neighborList'[n][k] = neighborList[n][k]
      BY <1>4, <1>5, <2>3, Zenon
    <3>2. EntryOK(n, k, neighborList[n][k])
      BY <3>1, Zenon DEF EntriesOK
    <3>3. DOMAIN NeighborsTable[n] \subseteq DOMAIN NeighborsTable'[n]
      BY <1>3, Zenon
    <3> HIDE DEF SinkNotForgotten
    <3>4. PICK m : m = neighborList[n][k]
      BY Zenon
    <3>5. EntryOK(n, k, m)'
      BY <3>2, <3>3, <3>4, EntryStays, Zenon
    <3> QED BY <2>3, <3>1, <3>4, <3>5, Zenon
  <2> QED BY <2>1, <2>2, <2>3, Zenon
<1>6. ASSUME NEW x \in Nodes, NEW m \in DOMAIN NeighborsTable'[x]
      PROVE  NeighborsTable'[x][m] = m
  BY <1>2, <1>3, <1>6 DEF EntriesOK
<1>7. ASSUME NEW x \in Nodes, x # Sink, ~ firstSinkMsg'[x]
      PROVE  SinkHeld(x)'
  <2>1. CASE x = n /\ id = SinkID(0)
    BY <1>4, <2>1, Zenon DEF SinkHeld
  <2>2. CASE ~ (x = n /\ id = SinkID(0))
    <3>1. SinkHeld(x)
      BY <1>7, <2>2, Zenon DEF EntriesOK
    <3> QED BY <1>2, <1>4, <2>2, <3>1, Zenon DEF SinkHeld
  <2> QED BY <2>1, <2>2, Zenon
<1> QED BY <1>5, <1>6, <1>7, Zenon DEF EntriesOK

\* Tracing an entry of the sink.
LEMMA EntriesTrace ==
    ASSUME TablesOK, EntriesOK, IdentityKept, NEW n \in Sensors, NEW id,
           TraceNeighbor(n, id), getMACExt(id) = Sink, ~ firstSinkMsg[n],
           UNCHANGED <<NeighborsTable, firstSinkMsg>>
    PROVE  EntriesOK'
<1>1. CASE UNCHANGED neighborList
  BY <1>1, EntriesUntouched, Zenon
<1>2. CASE id \notin DOMAIN neighborList[n] /\
           neighborList' = [neighborList EXCEPT ![n] = MapPut(@, id, UNSPECIFIED)]
  <2>1. n \in Nodes /\ n # Sink /\ DOMAIN neighborList = Nodes
    BY Zenon DEF Sensors, TablesOK
  <2>2. /\ neighborList'[n] = MapPut(neighborList[n], id, UNSPECIFIED)
        /\ \A x \in Nodes \ {n} : neighborList'[x] = neighborList[x]
    BY <1>2, <2>1, Zenon
  <2>3. /\ DOMAIN neighborList'[n] = DOMAIN neighborList[n] \cup {id}
        /\ neighborList'[n][id] = UNSPECIFIED
        /\ \A k \in DOMAIN neighborList[n] : neighborList'[n][k] = neighborList[n][k]
    BY <1>2, <2>2, Zenon DEF MapPut
  <2>4. SinkHeld(n) /\ id # SinkID(0)
    BY <1>2, <2>1, Zenon DEF EntriesOK, SinkHeld
  <2>5. EntryOK(n, id, UNSPECIFIED)'
    BY <2>1, <2>4, Zenon DEF EntryOK
  <2>6. ASSUME NEW x \in Nodes, NEW k \in DOMAIN neighborList[x]
        PROVE  EntryOK(x, k, neighborList[x][k])'
    <3>1. PICK m : m = neighborList[x][k]
      BY Zenon
    <3>2. EntryOK(x, k, m)'
      BY <3>1, EntryStays, Zenon DEF EntriesOK, SinkNotForgotten
    <3>3. neighborList'[x][k] = m
      BY <2>2, <2>3, <3>1, Zenon
    <3> QED BY <3>1, <3>2, <3>3, Zenon
  <2>7. ASSUME NEW x \in Nodes, NEW k \in DOMAIN neighborList'[x]
        PROVE  EntryOK(x, k, neighborList[x][k])'
    BY <2>2, <2>3, <2>5, <2>6, <2>7, Zenon
  <2>8. ASSUME NEW x \in Nodes, SinkHeld(x) PROVE SinkHeld(x)'
    BY <2>2, <2>3, <2>8, Zenon DEF SinkHeld
  <2> QED BY <2>7, <2>8, Zenon DEF EntriesOK
<1> QED BY <1>1, <1>2, Zenon DEF TraceNeighbor

\* Every step keeps the tables sound.
LEMMA EntriesStep ==
    ASSUME ~ NDEBUG, IdentityInv, KindsOK, EntriesOK, Next
    PROVE  EntriesOK'
<1>0. /\ TypeOK /\ TablesOK /\ IdentityKept
      /\ Sink \in Nodes
  BY InvariantStep, NodesAssumption, Zenon DEF IdentityInv, TypeOK
<1> USE <1>0 DEF statics
<1>1. CASE UNCHANGED <<neighborList, NeighborsTable, firstSinkMsg>>
  BY <1>1, EntriesUntouched, Zenon
<1>2. ASSUME NEW f \in air, f.to # Sink, AskForArea(f) PROVE EntriesOK'
  <2>1. /\ f.to \in Nodes /\ f.to \in Sensors
        /\ f.pkt.src = Sink /\ f.pkt.Id = SinkID(0) /\ f.pkt.bloom = Sink
        /\ <<Sink, f.to>> \in Link
    <3>1. FromSink(f.pkt) /\ firstSinkMsg[f.to]
      BY <1>2, Zenon DEF AskForArea
    <3>2. f.pkt = Announcement /\ f.to \in Sensors /\ <<f.pkt.src, f.to>> \in Link
      BY <1>2, <3>1, FrameKinds, SenderFacts, Zenon
    <3> QED BY <3>2, PacketFields, Zenon DEF Sensors
  <2>2. /\ addNeighbor(f.to, Sink, SinkID(0), Sink)
        /\ firstSinkMsg' = [firstSinkMsg EXCEPT ![f.to] = FALSE]
    BY <1>2, <2>1, Zenon DEF AskForArea, SinkIsKnown
  <2>3. \A x \in Nodes : firstSinkMsg'[x] <=> firstSinkMsg[x] /\ x # f.to
    BY <2>2, Zenon DEF TypeOK
  <2>4. Sink \in DOMAIN NeighborsTable'[f.to] => EntryOK(f.to, SinkID(0), Sink)'
    <3>1. Sink # UNSPECIFIED /\ getMACExt(SinkID(0)) = Sink
      BY SinkIDValue, NodesAreExtensions
    <3> QED BY <1>2, <2>1, <3>1, Zenon DEF EntryOK
  <2> QED BY <2>1, <2>2, <2>3, <2>4, EntriesAdd, Zenon DEF SinkNotForgotten
<1>3. ASSUME NEW f \in air, f.to # Sink, TakeIDFromSink(f) \/ IgnoreSink(f)
      PROVE  EntriesOK'
  <2>1. /\ f.to \in Sensors /\ ~ firstSinkMsg[f.to]
        /\ getMACExt(f.pkt.Id) = Sink
    <3>1. FromSink(f.pkt) /\ ~ firstSinkMsg[f.to]
      BY <1>3, Zenon DEF TakeIDFromSink, IgnoreSink
    <3> QED BY <1>3, <3>1, SenderFacts, Zenon
  <2>2. /\ TraceNeighbor(f.to, f.pkt.Id)
        /\ UNCHANGED <<NeighborsTable, firstSinkMsg>>
    BY <1>3, Zenon DEF TakeIDFromSink, IgnoreSink
  <2> QED BY <2>1, <2>2, EntriesTrace, Zenon
<1>4. ASSUME NEW f \in air, f.to # Sink, RegisterNeighbor(f) \/ TakeIDFromNeighbor(f)
      PROVE  EntriesOK'
  <2>1. /\ addNeighbor(f.to, f.pkt.src, f.pkt.Id, f.pkt.bloom)
        /\ UNCHANGED firstSinkMsg /\ ~ FromSink(f.pkt)
    BY <1>4, Zenon DEF RegisterNeighbor, TakeIDFromNeighbor
  <2>2. /\ f.to \in Nodes /\ f.to \in Sensors /\ <<f.pkt.src, f.to>> \in Link
        /\ f.pkt.src \in Sensors /\ f.pkt.src \in Nodes /\ f.pkt.bloom = f.pkt.src
        /\ getMACExt(f.pkt.Id) = f.pkt.src
    <3>1. /\ f.to \in Sensors /\ <<f.pkt.src, f.to>> \in Link
          /\ getMACExt(f.pkt.Id) = f.pkt.src
      BY <1>4, SenderFacts, Zenon
    <3>2. f.pkt.src \in Sensors /\ f.pkt = Advert(f.pkt.src)
      BY <1>4, <2>1, FrameKinds, Zenon
    <3>3. PICK m : m = f.pkt.src
      BY Zenon
    <3>4. f.pkt.bloom = m
      BY <3>2, <3>3 DEF Advert, Packet
    <3> QED BY <3>1, <3>2, <3>3, <3>4, Zenon DEF Sensors
  <2>3. f.pkt.Id # SinkID(0)
    BY <2>2, SinkIDValue DEF Sensors
  <2>4. Identified(f.to)'
    <3>1. CASE RegisterNeighbor(f)
      <4>1. Identified(f.to)
        BY <2>2, <3>1, Zenon DEF RegisterNeighbor, MayTakeID, IdentityInv, FlagsOK
      <4> QED BY <2>2, <4>1, Zenon DEF IdentityKept
    <3>2. CASE TakeIDFromNeighbor(f)
      <4>1. TypeOK'
        BY TypeStep, Zenon
      <4> QED BY <1>4, <3>2, <4>1, TakeIDStep, Zenon DEF TakeIDFromNeighbor
    <3> QED BY <1>4, <3>1, <3>2, Zenon
  <2>5. f.pkt.src \in DOMAIN NeighborsTable'[f.to]
          => EntryOK(f.to, f.pkt.Id, f.pkt.src)'
    BY <2>2, <2>4, NodesAreExtensions, Zenon DEF EntryOK
  <2>6. addNeighbor(f.to, f.pkt.src, f.pkt.Id, f.pkt.src)
    BY <2>1, <2>2, Zenon
  <2> QED BY <2>1, <2>2, <2>3, <2>5, <2>6, EntriesAdd, Zenon DEF SinkNotForgotten
<1>5. ASSUME NEW f \in air, f.to = Sink, GiveArea(f) PROVE EntriesOK'
  <2>1. /\ addNeighbor(Sink, f.pkt.src, f.pkt.Id, f.pkt.bloom)
        /\ UNCHANGED firstSinkMsg
    BY <1>5, Zenon DEF GiveArea
  <2>2. /\ f.pkt.src \in Sensors /\ f.pkt.src \in Nodes /\ f.pkt.bloom = f.pkt.src
        /\ f.pkt.Id # NOT_INITIALIZED => getMACExt(f.pkt.Id) = f.pkt.src
        /\ <<f.pkt.src, Sink>> \in Link
    BY <1>5, FrameKinds, Zenon DEF GiveArea, Sensors, IdentityInv, MessagesOK
  <2>3. f.pkt.Id # SinkID(0)
    BY <2>2, SinkIDValue DEF Sensors
  <2>4. f.pkt.src \in DOMAIN NeighborsTable'[Sink]
          => EntryOK(Sink, f.pkt.Id, f.pkt.src)'
    BY <2>2, NodesAreExtensions, Zenon DEF EntryOK
  <2>5. addNeighbor(Sink, f.pkt.src, f.pkt.Id, f.pkt.src)
    BY <2>1, <2>2, Zenon
  <2> QED BY <2>1, <2>2, <2>3, <2>4, <2>5, EntriesAdd, Zenon DEF SinkNotForgotten
<1>6. ASSUME NEW f \in air, f.to # Sink, handleNicDiscoveryMsg(f)
      PROVE  EntriesOK'
  BY <1>1, <1>2, <1>3, <1>4, <1>6, Zenon
     DEF handleNicDiscoveryMsg, NoAreaSlot, IgnoreNeighbor, TooFarFromSink, Abort
<1>7. ASSUME NEW f \in air, f.to = Sink, SINK_handleNicDiscoveryMsg(f)
      PROVE  EntriesOK'
  BY <1>1, <1>5, <1>7, Zenon
     DEF SINK_handleNicDiscoveryMsg, NoMoreArea, IgnoreAdvert, Abort
<1>8. CASE (\E n \in Sensors : SelfInitialization(n)) \/ SINK_SelfInitialization
           \/ (\E p \in scheduled : SendNic(p))
  BY <1>1, <1>8 DEF SelfInitialization, SINK_SelfInitialization, SendNic
<1> QED BY <1>6, <1>7, <1>8, Zenon DEF Next, Receive

\* What the inductive invariant says of the tables.
LEMMA EntriesImply ==
    ASSUME TypeOK, EntriesOK
    PROVE  NeighborsGenuine /\ UnspecifiedShadowed
<1>1. NeighborsGenuine
  BY Zenon DEF EntriesOK, EntryOK, NeighborsGenuine
<1>2. ASSUME NEW n \in Sensors, NEW k \in DOMAIN neighborList[n],
             neighborList[n][k] = UNSPECIFIED
      PROVE  \E j \in DOMAIN neighborList[n] : j < k /\ neighborList[n][j] = Sink
  <2>1. n \in Nodes /\ n # Sink /\ k \in UINT16
    BY Zenon DEF Sensors, TypeOK, TablesOK
  <2>2. EntryOK(n, k, UNSPECIFIED)
    BY <1>2, <2>1, Zenon DEF EntriesOK
  <2>3. ~ firstSinkMsg[n] /\ SinkID(0) < k
    BY <2>1, <2>2, SinkIDValue DEF EntryOK
  <2> QED BY <2>1, <2>3, Zenon DEF EntriesOK, SinkHeld
<1> QED BY <1>1, <1>2, Zenon DEF UnspecifiedShadowed

-----------------------------------------------------------------------------
(* Parents and areas.                                                        *)

\* Neighbour m under key k is a parent of n.
IsParent(n, k, m) ==
    /\ m # UNSPECIFIED /\ Identified(m)
    /\ getSinkDistance(myID[n]) = getSinkDistance(myID[m]) + 1
    /\ m # Sink => myID[m] = k /\ getArea(myID[n]) = getArea(k)

\* Identifiers are kept, so a parent stays a parent.
LEMMA ParentStays ==
    ASSUME IdentityKept, NEW n \in Sensors, Identified(n), NEW k, NEW m \in Nodes,
           IsParent(n, k, m)
    PROVE  IsParent(n, k, m)'
BY Zenon DEF IdentityKept, IsParent, Sensors

\* No step removes a neighbour of a sensor or moves it to another key.
LEMMA ListGrows ==
    ASSUME ~ NDEBUG, IdentityInv, KindsOK, EntriesOK, Next,
           NEW n \in Sensors, NEW k \in DOMAIN neighborList[n],
           neighborList[n][k] # UNSPECIFIED
    PROVE  k \in DOMAIN neighborList'[n] /\ neighborList'[n][k] = neighborList[n][k]
<1>0. /\ TablesOK /\ n \in Nodes /\ n # Sink
      /\ DOMAIN neighborList = Nodes
  BY Zenon DEF IdentityInv, TypeOK, TablesOK, Sensors
<1> USE <1>0 DEF statics
<1>1. CASE UNCHANGED neighborList
  BY <1>1, Zenon
<1>2. ASSUME NEW f \in air, f.to # Sink,
             addNeighbor(f.to, f.pkt.src, f.pkt.Id, f.pkt.bloom)
      PROVE  k \in DOMAIN neighborList'[n] /\ neighborList'[n][k] = neighborList[n][k]
  <2>1. neighborList' = [neighborList EXCEPT ![f.to] = MapPut(@, f.pkt.Id, f.pkt.src)]
    BY <1>2, Zenon DEF addNeighbor
  <2>2. CASE f.to # n
    BY <2>1, <2>2, Zenon
  <2>3. CASE f.to = n
    <3>1. neighborList'[n] = MapPut(neighborList[n], f.pkt.Id, f.pkt.src)
      BY <2>1, <2>3, Zenon
    <3>2. getMACExt(k) = neighborList[n][k]
      BY Zenon DEF EntriesOK, EntryOK
    <3>3. getMACExt(f.pkt.Id) = f.pkt.src
      BY <1>2, SenderFacts, Zenon
    <3> QED BY <3>1, <3>2, <3>3, Zenon DEF MapPut
  <2> QED BY <2>2, <2>3, Zenon
<1>3. ASSUME NEW f \in air, TraceNeighbor(f.to, f.pkt.Id)
      PROVE  k \in DOMAIN neighborList'[n] /\ neighborList'[n][k] = neighborList[n][k]
  BY <1>1, <1>3 DEF TraceNeighbor, MapPut
<1>4. ASSUME NEW f \in air, f.to # Sink, handleNicDiscoveryMsg(f)
      PROVE  k \in DOMAIN neighborList'[n] /\ neighborList'[n][k] = neighborList[n][k]
  BY <1>1, <1>2, <1>3, <1>4, Zenon
     DEF handleNicDiscoveryMsg, AskForArea, NoAreaSlot, IgnoreSink, TakeIDFromSink,
         IgnoreNeighbor, RegisterNeighbor, TakeIDFromNeighbor, TooFarFromSink, Abort
<1>5. ASSUME NEW f \in air, SINK_handleNicDiscoveryMsg(f)
      PROVE  k \in DOMAIN neighborList'[n] /\ neighborList'[n][k] = neighborList[n][k]
  BY <1>1, <1>5, Zenon DEF SINK_handleNicDiscoveryMsg, GiveArea, NoMoreArea, IgnoreAdvert,
     Abort, addNeighbor
<1>6. CASE (\E x \in Sensors : SelfInitialization(x)) \/ SINK_SelfInitialization
           \/ (\E p \in scheduled : SendNic(p))
  BY <1>1, <1>6 DEF SelfInitialization, SINK_SelfInitialization, SendNic
<1> QED BY <1>4, <1>5, <1>6, Zenon DEF Next, Receive

\* The sensor that takes an identifier has its sender as parent.
LEMMA TakenFromParent ==
    ASSUME ~ NDEBUG, IdentityInv, KindsOK, EntriesOK, NEW f \in air, f.to # Sink,
           TakeIDFromSink(f) \/ TakeIDFromNeighbor(f), TypeOK'
    PROVE  \E k \in DOMAIN neighborList'[f.to] :
               IsParent(f.to, k, neighborList[f.to][k])'
<1>1. /\ MayTakeID(f.to) /\ TakeID(f.to, f.pkt.Id) /\ air' = air \ {f}
      /\ UNCHANGED initialized
  BY Zenon DEF TakeIDFromSink, TakeIDFromNeighbor
<1>2. /\ IdentityKept /\ Identified(f.pkt.src) /\ f.pkt.src \in Nodes
      /\ f.to \in Sensors /\ f.to \in Nodes
      /\ getSinkDistance(myID'[f.to]) = getSinkDistance(myID[f.pkt.src]) + 1
      /\ f.pkt.src # UNSPECIFIED
      /\ f.pkt.Id \in UINT16
  BY <1>1, TakeIDStep, SenderFacts, NodesAreExtensions, Zenon DEF Sensors
<1>3. /\ Identified(f.pkt.src)'
      /\ getSinkDistance(myID'[f.to]) = getSinkDistance(myID'[f.pkt.src]) + 1
  BY <1>2, Zenon DEF IdentityKept
<1>4. CASE TakeIDFromSink(f)
  <2>1. f.pkt.src = Sink /\ ~ firstSinkMsg[f.to]
    BY <1>4, FrameKinds, Zenon DEF TakeIDFromSink
  <2>2. SinkID(0) \in DOMAIN neighborList[f.to] /\ neighborList[f.to][SinkID(0)] = Sink
    BY <1>2, <2>1, Zenon DEF EntriesOK, SinkHeld
  <2>3. /\ SinkID(0) \in DOMAIN neighborList'[f.to]
        /\ neighborList'[f.to][SinkID(0)] = Sink
    <3>1. DOMAIN neighborList = Nodes
      BY Zenon DEF IdentityInv, TypeOK, TablesOK
    <3> QED BY <1>2, <1>4, <2>2, <3>1 DEF TakeIDFromSink, TraceNeighbor, MapPut
  <2>4. IsParent(f.to, SinkID(0), neighborList[f.to][SinkID(0)])'
    BY <1>2, <1>3, <2>1, <2>3, Zenon DEF IsParent
  <2> QED BY <2>3, <2>4, Zenon
<1>5. CASE TakeIDFromNeighbor(f)
  <2>1. /\ f.pkt.src \in Sensors /\ f.pkt.Id = myID[f.pkt.src]
    <3>1. f.pkt.src \in Sensors /\ f.pkt = Advert(f.pkt.src)
      BY <1>5, FrameKinds, Zenon DEF TakeIDFromNeighbor
    <3> QED BY <3>1, PacketFields
  <2>2. myID'[f.pkt.src] = f.pkt.Id
    BY <1>2, <2>1, Zenon DEF IdentityKept, Sensors
  <2>3. getArea(myID'[f.to]) = getArea(f.pkt.Id)
    <3>1. getSinkDistance(f.pkt.Id) + 1 < 16
      BY <1>1, Zenon DEF TakeID, SinkDistanceAssert
    <3>2. myID'[f.to] = DerivedID(f.to, f.pkt.Id)
      BY <1>1, <1>2, Zenon DEF TakeID, IdentityInv, TypeOK
    <3> QED BY <1>2, <3>1, <3>2, DerivedIDFields, Zenon
  <2>4. /\ f.pkt.Id \in DOMAIN neighborList'[f.to]
        /\ neighborList'[f.to][f.pkt.Id] = f.pkt.src
    <3>1. DOMAIN neighborList = Nodes
      BY Zenon DEF IdentityInv, TypeOK, TablesOK
    <3> QED BY <1>2, <1>5, <3>1, Zenon DEF TakeIDFromNeighbor, addNeighbor, MapPut
  <2>5. IsParent(f.to, f.pkt.Id, neighborList[f.to][f.pkt.Id])'
    BY <1>2, <1>3, <2>2, <2>3, <2>4, Zenon DEF IsParent
  <2> QED BY <2>4, <2>5, Zenon
<1> QED BY <1>4, <1>5, Zenon

\* Only the two steps that take an identifier identify a sensor.
LEMMA WhoIsIdentified ==
    ASSUME IdentityInv, Next, NEW n \in Sensors, ~ Identified(n), Identified(n)'
    PROVE  \E f \in air : /\ f.to = n /\ f.to # Sink
                          /\ TakeIDFromSink(f) \/ TakeIDFromNeighbor(f)
<1>0. myID \in [Nodes -> UINT16] /\ n \in Nodes /\ n # Sink
  BY Zenon DEF IdentityInv, TypeOK, Sensors
<1> USE <1>0 DEF statics
<1>1. myID'[n] # myID[n]
  BY Zenon DEF Identified
<1>2. ASSUME NEW f \in air, handleNicDiscoveryMsg(f)
      PROVE  f.to = n /\ (TakeIDFromSink(f) \/ TakeIDFromNeighbor(f))
  BY <1>1, <1>2, Zenon
     DEF handleNicDiscoveryMsg, AskForArea, NoAreaSlot, IgnoreSink, TakeIDFromSink,
         IgnoreNeighbor, RegisterNeighbor, TakeIDFromNeighbor, TooFarFromSink, Abort,
         TakeID
<1>3. ASSUME NEW f \in air, SINK_handleNicDiscoveryMsg(f) PROVE FALSE
  BY <1>1, <1>3, Zenon DEF SINK_handleNicDiscoveryMsg, GiveArea, NoMoreArea, IgnoreAdvert, Abort
<1>4. ASSUME (\E x \in Sensors : SelfInitialization(x)) \/ SINK_SelfInitialization
             \/ (\E p \in scheduled : SendNic(p))
      PROVE  FALSE
  BY <1>1, <1>4 DEF SelfInitialization, SINK_SelfInitialization, SendNic, AnnounceSink
<1> QED BY <1>2, <1>3, <1>4, Zenon DEF Next, Receive

\* Every step keeps parents.
LEMMA ParentsStep ==
    ASSUME ~ NDEBUG, IdentityInv, KindsOK, EntriesOK, ParentsOK, Next
    PROVE  ParentsOK'
<1>0. IdentityKept /\ TypeOK' /\ TypeOK
  BY InvariantStep, Zenon DEF IdentityInv
<1>1. ASSUME NEW n \in Sensors, Identified(n)'
      PROVE  \E k \in DOMAIN neighborList'[n] : IsParent(n, k, neighborList[n][k])'
  <2>1. CASE Identified(n)
    <3>1. PICK k \in DOMAIN neighborList[n] : IsParent(n, k, neighborList[n][k])
      BY <2>1, Zenon DEF ParentsOK, IsParent
    <3>2. PICK m : m = neighborList[n][k]
      BY Zenon
    <3>3. m # UNSPECIFIED /\ m \in Nodes
      BY <1>0, <3>1, <3>2, Zenon DEF IsParent, TypeOK, TablesOK, Sensors
    <3>4. k \in DOMAIN neighborList'[n] /\ neighborList'[n][k] = m
      BY <3>2, <3>3, ListGrows, Zenon
    <3>5. IsParent(n, k, m)'
      BY <1>0, <2>1, <3>1, <3>2, <3>3, ParentStays, Zenon
    <3> QED BY <3>4, <3>5, Zenon
  <2>2. CASE ~ Identified(n)
    BY <1>0, <1>1, <2>2, WhoIsIdentified, TakenFromParent, Zenon
  <2> QED BY <2>1, <2>2, Zenon
<1> QED BY <1>1, Zenon DEF ParentsOK, IsParent

\* The sensors at distance one.
FirstLevel == {n \in Sensors : Identified(n) /\ getSinkDistance(myID[n]) = 1}

\* A step that answers no request and leaves the first level alone.
LEMMA AreasUntouched ==
    ASSUME AreasOK, UNCHANGED areaNumber, FirstLevel' \subseteq FirstLevel,
           \A n \in FirstLevel : myID'[n] = myID[n],
           \A p \in InTransit' : IsReply(p) => p \in InTransit
    PROVE  AreasOK'
<1>1. /\ areaNumber' <= 4
      /\ \A p \in InTransit' : IsReply(p) =>
           /\ getArea(p.Id) < areaNumber'
           /\ \A q \in InTransit' :
                IsReply(q) /\ getArea(q.Id) = getArea(p.Id) => q.dest = p.dest
  BY Zenon DEF AreasOK
<1>2. ASSUME NEW n \in FirstLevel'
      PROVE  /\ getArea(myID'[n]) < areaNumber'
             /\ \A p \in InTransit' :
                  IsReply(p) /\ getArea(p.Id) = getArea(myID'[n]) => p.dest = n
  BY <1>2, Zenon DEF AreasOK, FirstLevel
<1>3. ASSUME NEW m \in FirstLevel', NEW n \in FirstLevel', m # n
      PROVE  getArea(myID'[m]) # getArea(myID'[n])
  BY <1>3, Zenon DEF AreasOK, AreasDistinct, FirstLevel
<1>4. \A p : IsReply(p)' <=> IsReply(p)
  BY Zenon DEF IsReply
<1> QED BY <1>1, <1>2, <1>3, <1>4, Zenon DEF AreasOK, AreasDistinct, FirstLevel

\* The sink answers a request with an area that no reply has carried yet.
LEMMA AreasGive ==
    ASSUME ~ NDEBUG, IdentityInv, KindsOK, AreasOK, NEW f \in air, f.to = Sink,
           GiveArea(f)
    PROVE  AreasOK'
<1>0. PICK id, q : /\ id = setArea(myID[Sink], areaNumber)
                   /\ q = Packet("Q_REPLY", Sink, f.pkt.src, id, NoBloom)
  BY Zenon
<1>1. areaNumber \in 0..3 /\ myID[Sink] \in UINT16 /\ myID \in [Nodes -> UINT16]
  <2>1. areaNumber \in UINT16 /\ myID \in [Nodes -> UINT16] /\ Sink \in Nodes
    BY NodesAssumption, Zenon DEF IdentityInv, TypeOK
  <2>2. AreaAssert(areaNumber)
    BY Zenon DEF GiveArea
  <2> QED BY <2>1, <2>2 DEF AreaAssert, UINT16
<1>2. areaNumber' = areaNumber + 1 /\ areaNumber' <= 4
  <2>1. areaNumber' = NextArea(areaNumber)
    BY Zenon DEF GiveArea
  <2> QED BY <1>1, <2>1 DEF NextArea
<1>3. q.Id = id /\ getArea(id) = areaNumber
  BY <1>0, <1>1, SetAreaFields, PacketFields
<1>4. InTransit' \subseteq InTransit \cup {q}
  BY <1>0, Zenon DEF GiveArea, scheduleMsgToSendNic, InTransit
<1>5. \A n \in Sensors : myID'[n] = myID[n]
  BY <1>1, Zenon DEF GiveArea, Sensors
<1>6. \A p \in InTransit : IsReply(p) => getArea(p.Id) < areaNumber
  BY Zenon DEF AreasOK
<1>7. \A n \in FirstLevel : getArea(myID[n]) < areaNumber
  BY Zenon DEF AreasOK, FirstLevel
<1>8. FirstLevel' = FirstLevel /\ \A n \in FirstLevel : myID'[n] = myID[n]
  BY <1>5, Zenon DEF FirstLevel, Identified
<1>9. ASSUME NEW p \in InTransit', IsReply(p)
      PROVE  /\ getArea(p.Id) < areaNumber'
             /\ \A r \in InTransit' :
                  IsReply(r) /\ getArea(r.Id) = getArea(p.Id) => r.dest = p.dest
  <2>1. \A r \in InTransit : IsReply(r) /\ r # q => getArea(r.Id) # areaNumber
    BY <1>1, <1>6
  <2>2. CASE p = q
    BY <1>1, <1>2, <1>3, <1>4, <1>6, <2>1, <2>2
  <2>3. CASE p # q
    <3>1. p \in InTransit /\ getArea(p.Id) < areaNumber
      BY <1>4, <1>6, <1>9, <2>3, Zenon
    <3>2. getArea(p.Id) \in Int
      <4>1. p.Id \in UINT16
        BY <3>1, FrameFields, Zenon DEF InTransit, IdentityInv, TypeOK, Packets
      <4> QED BY <4>1 DEF getArea, UINT16
    <3>3. getArea(p.Id) < areaNumber' /\ getArea(p.Id) # areaNumber
      BY <1>1, <1>2, <3>1, <3>2
    <3>4. ASSUME NEW r \in InTransit', IsReply(r), getArea(r.Id) = getArea(p.Id)
          PROVE  r.dest = p.dest
      <4>1. r # q
        BY <1>3, <3>3, <3>4, Zenon
      <4> QED BY <1>4, <1>9, <3>1, <3>4, <4>1, Zenon DEF AreasOK
    <3> QED BY <3>3, <3>4, Zenon
  <2> QED BY <2>2, <2>3, Zenon
<1>10. ASSUME NEW n \in FirstLevel'
       PROVE  /\ getArea(myID'[n]) < areaNumber'
              /\ \A p \in InTransit' :
                   IsReply(p) /\ getArea(p.Id) = getArea(myID'[n]) => p.dest = n
  <2>1. n \in FirstLevel /\ myID'[n] = myID[n] /\ getArea(myID[n]) < areaNumber
    BY <1>7, <1>8, Zenon
  <2>2. getArea(myID[n]) \in Int
    BY <1>1, <2>1 DEF FirstLevel, Sensors, getArea, UINT16
  <2>3. getArea(myID[n]) < areaNumber' /\ getArea(myID[n]) # areaNumber
    BY <1>1, <1>2, <2>1, <2>2
  <2>4. ASSUME NEW p \in InTransit', IsReply(p), getArea(p.Id) = getArea(myID[n])
        PROVE  p.dest = n
    <3>1. p # q
      BY <1>3, <2>3, <2>4, Zenon
    <3> QED BY <1>4, <2>1, <2>4, <3>1, Zenon DEF AreasOK, FirstLevel
  <2> QED BY <2>1, <2>3, <2>4, Zenon
<1>11. ASSUME NEW m \in FirstLevel', NEW n \in FirstLevel', m # n
       PROVE  getArea(myID'[m]) # getArea(myID'[n])
  BY <1>8, <1>11, Zenon DEF AreasOK, AreasDistinct, FirstLevel
<1>12. \A p : IsReply(p)' <=> IsReply(p)
  BY Zenon DEF IsReply
<1> QED BY <1>2, <1>9, <1>10, <1>11, <1>12, Zenon DEF AreasOK, AreasDistinct, FirstLevel

\* A sensor takes the area that the sink has given it.
LEMMA AreasTakeFromSink ==
    ASSUME ~ NDEBUG, IdentityInv, KindsOK, AreasOK, NEW f \in air, f.to # Sink,
           TakeIDFromSink(f), TypeOK'
    PROVE  AreasOK'
<1> DEFINE n == f.to
           p == f.pkt
<1>1. /\ MayTakeID(n) /\ TakeID(n, p.Id) /\ air' = air \ {f}
      /\ UNCHANGED <<initialized, areaNumber>>
  BY Zenon DEF TakeIDFromSink
<1>2. /\ IsReply(p) /\ p.dest = n /\ p \in InTransit
      /\ n \in Sensors /\ n \in Nodes /\ p.Id \in UINT16
  BY FrameKinds, SenderFacts, Zenon DEF TakeIDFromSink, InTransit, Sensors
<1>3. \A m \in Nodes \ {n} : myID'[m] = myID[m]
  BY <1>1, TakeIDStep, Zenon
<1>4. getArea(myID'[n]) = getArea(p.Id)
  <2>1. getSinkDistance(p.Id) + 1 < 16
    BY <1>1, Zenon DEF TakeID, SinkDistanceAssert
  <2>2. myID'[n] = DerivedID(n, p.Id)
    BY <1>1, <1>2, Zenon DEF TakeID, IdentityInv, TypeOK
  <2> QED BY <1>2, <2>1, <2>2, DerivedIDFields, Zenon
<1>5. \A q \in InTransit' : IsReply(q) => q \in InTransit
  <2>1. PICK a : a = Packet("none", n, BROADCAST, DerivedID(n, p.Id), n)
    BY Zenon
  <2>2. InTransit' \subseteq InTransit \cup {a}
    BY <1>1, <2>1, Zenon DEF TakeID, scheduleMsgToSendNic, InTransit
  <2>3. ~ IsReply(a)
    BY <2>1, Zenon DEF IsReply, Packet
  <2> QED BY <2>2, <2>3, Zenon
<1>6. FirstLevel' \subseteq FirstLevel \cup {n}
      /\ \A m \in FirstLevel' \ {n} : m \in FirstLevel /\ myID'[m] = myID[m]
  BY <1>3, Zenon DEF FirstLevel, Identified, Sensors
<1> HIDE DEF n, p
<1>7. /\ getArea(p.Id) < areaNumber
      /\ \A q \in InTransit :
           IsReply(q) /\ getArea(q.Id) = getArea(p.Id) => q.dest = n
      /\ \A m \in FirstLevel : m # n => getArea(myID[m]) # getArea(p.Id)
  BY <1>2, Zenon DEF AreasOK, FirstLevel
<1>8. ASSUME NEW m \in FirstLevel'
      PROVE  /\ getArea(myID'[m]) < areaNumber'
             /\ \A q \in InTransit' :
                  IsReply(q) /\ getArea(q.Id) = getArea(myID'[m]) => q.dest = m
  <2>1. CASE m = n
    BY <1>1, <1>4, <1>5, <1>7, <2>1, Zenon
  <2>2. CASE m # n
    BY <1>1, <1>5, <1>6, <2>2, Zenon DEF AreasOK, FirstLevel
  <2> QED BY <2>1, <2>2, Zenon
<1>9. ASSUME NEW x \in FirstLevel', NEW y \in FirstLevel', x # y
      PROVE  getArea(myID'[x]) # getArea(myID'[y])
  <2>1. CASE x = n \/ y = n
    BY <1>4, <1>6, <1>7, <1>9, <2>1, Zenon
  <2>2. CASE x # n /\ y # n
    BY <1>6, <1>9, <2>2, Zenon DEF AreasOK, AreasDistinct, FirstLevel
  <2> QED BY <2>1, <2>2, Zenon
<1>10. /\ areaNumber' <= 4
       /\ \A q \in InTransit' : IsReply(q) =>
            /\ getArea(q.Id) < areaNumber'
            /\ \A r \in InTransit' :
                 IsReply(r) /\ getArea(r.Id) = getArea(q.Id) => r.dest = q.dest
  BY <1>1, <1>5, Zenon DEF AreasOK
<1>11. \A q : IsReply(q)' <=> IsReply(q)
  BY Zenon DEF IsReply
<1> QED BY <1>8, <1>9, <1>10, <1>11, Zenon DEF AreasOK, AreasDistinct, FirstLevel

\* A sensor that takes an identifier from a neighbour is not at distance one.
LEMMA AreasTakeFromNeighbor ==
    ASSUME ~ NDEBUG, IdentityInv, KindsOK, AreasOK, NEW f \in air, f.to # Sink,
           TakeIDFromNeighbor(f), TypeOK'
    PROVE  AreasOK'
<1>1. /\ MayTakeID(f.to) /\ TakeID(f.to, f.pkt.Id) /\ air' = air \ {f}
      /\ UNCHANGED <<initialized, areaNumber>> /\ ~ FromSink(f.pkt)
  BY Zenon DEF TakeIDFromNeighbor
<1>2. /\ \A m \in Nodes \ {f.to} : myID'[m] = myID[m]
      /\ ~ Identified(f.to)
      /\ getSinkDistance(myID'[f.to]) = getSinkDistance(f.pkt.Id) + 1
      /\ f.pkt.Id \in UINT16
  <2>1. /\ getSinkDistance(f.pkt.Id) = getSinkDistance(myID[f.pkt.src])
        /\ f.pkt.Id \in UINT16
    BY SenderFacts, Zenon
  <2>2. UNCHANGED initialized
    BY <1>1, Zenon
  <2>3. /\ \A m \in Nodes \ {f.to} : myID'[m] = myID[m]
        /\ ~ Identified(f.to)
        /\ getSinkDistance(myID'[f.to]) = getSinkDistance(myID[f.pkt.src]) + 1
    BY <1>1, <2>2, TakeIDStep, Zenon
  <2> QED BY <2>1, <2>3, Zenon
<1>3. getSinkDistance(myID'[f.to]) # 1
  <2>1. getSinkDistance(f.pkt.Id) \in 0..15 /\ getSinkDistance(f.pkt.Id) # 0
    BY <1>1, <1>2, DistanceType, Zenon DEF FromSink
  <2> QED BY <1>2, <2>1
<1>4. FirstLevel' \subseteq FirstLevel /\ \A n \in FirstLevel : myID'[n] = myID[n]
  BY <1>2, <1>3, Zenon DEF FirstLevel, Identified, Sensors
<1>5. \A q \in InTransit' : IsReply(q) => q \in InTransit
  <2>1. PICK a : a = Packet("none", f.to, BROADCAST, DerivedID(f.to, f.pkt.Id), f.to)
    BY Zenon
  <2>2. InTransit' \subseteq InTransit \cup {a}
    BY <1>1, <2>1, Zenon DEF TakeID, scheduleMsgToSendNic, InTransit
  <2>3. ~ IsReply(a)
    BY <2>1, Zenon DEF IsReply, Packet
  <2> QED BY <2>2, <2>3, Zenon
<1> QED BY <1>1, <1>4, <1>5, AreasUntouched, Zenon

\* Every step keeps areas distinct.
LEMMA AreasStep ==
    ASSUME ~ NDEBUG, IdentityInv, KindsOK, AreasOK, Next
    PROVE  AreasOK'
<1>0. TypeOK /\ TypeOK'
  BY TypeStep, Zenon DEF IdentityInv
<1> USE <1>0 DEF statics
<1>1. ASSUME UNCHANGED <<areaNumber, myID>>, NEW a, ~ IsReply(a),
             InTransit' \subseteq InTransit \cup {a}
      PROVE  AreasOK'
  <2>1. FirstLevel' = FirstLevel
    BY <1>1, Zenon DEF FirstLevel, Identified
  <2> QED BY <1>1, <2>1, AreasUntouched, Zenon
<1>2. ASSUME UNCHANGED <<areaNumber, myID, scheduled>>, air' \subseteq air
      PROVE  AreasOK'
  <2>1. InTransit' \subseteq InTransit
    BY <1>2, Zenon DEF InTransit
  <2>2. ~ IsReply(Announcement)
    BY Zenon DEF IsReply, Announcement, Packet
  <2> QED BY <1>1, <1>2, <2>1, <2>2, Zenon
<1>3. ASSUME NEW f \in air, f.to # Sink, AskForArea(f) PROVE AreasOK'
  <2>1. PICK a : a = Packet("Q_REQUEST", f.to, f.pkt.src, myID[f.to], f.to)
    BY Zenon
  <2>2. ~ IsReply(a)
    BY <2>1, Zenon DEF IsReply, Packet
  <2>3. InTransit' \subseteq InTransit \cup {a}
    BY <1>3, <2>1, Zenon DEF AskForArea, scheduleMsgToSendNic, InTransit
  <2> QED BY <1>1, <1>3, <2>2, <2>3, Zenon DEF AskForArea
<1>4. ASSUME NEW f \in air, f.to # Sink, handleNicDiscoveryMsg(f)
      PROVE  AreasOK'
  BY <1>2, <1>3, <1>4, AreasTakeFromSink, AreasTakeFromNeighbor, Zenon
     DEF handleNicDiscoveryMsg, NoAreaSlot, IgnoreSink, IgnoreNeighbor,
         RegisterNeighbor, TooFarFromSink, Abort
<1>5. ASSUME NEW f \in air, f.to = Sink, SINK_handleNicDiscoveryMsg(f)
      PROVE  AreasOK'
  BY <1>2, <1>5, AreasGive, Zenon
     DEF SINK_handleNicDiscoveryMsg, NoMoreArea, IgnoreAdvert, Abort
<1>6. ASSUME NEW n \in Sensors, SelfInitialization(n) PROVE AreasOK'
  BY <1>2, <1>6 DEF SelfInitialization
<1>7. CASE SINK_SelfInitialization
  <2>1. PICK g \in {0, 65535} : AnnounceSink(SinkID(g))
    BY <1>7 DEF SINK_SelfInitialization
  <2>2. PICK a : a = Packet("Q_REQUEST", Sink, BROADCAST, SinkID(g), Sink)
    OBVIOUS
  <2>3. ~ IsReply(a)
    BY <2>2 DEF IsReply, Packet
  <2>4. UNCHANGED <<areaNumber, air>> /\ scheduled' = scheduled \cup {a}
    BY <1>7, <2>1, <2>2 DEF SINK_SelfInitialization, AnnounceSink, scheduleMsgToSendNic
  <2>5. \A p \in InTransit' : IsReply(p) => p \in InTransit
    BY <2>3, <2>4 DEF InTransit
  <2>6. \A n \in Sensors : myID'[n] = myID[n]
    BY <2>1 DEF AnnounceSink, TypeOK, Sensors
  <2>7. FirstLevel' = FirstLevel /\ \A n \in FirstLevel : myID'[n] = myID[n]
    BY <2>6 DEF FirstLevel, Identified
  <2> QED BY <2>4, <2>5, <2>7, AreasUntouched
<1>8. ASSUME NEW p \in scheduled, SendNic(p) PROVE AreasOK'
  <2>1. PICK S \in Deliveries(p) : air' = air \cup S
    BY <1>8, Zenon DEF SendNic
  <2>2. \A f \in S : f.pkt = p
    BY DeliveriesFacts, Zenon DEF TypeOK
  <2>3. InTransit' \subseteq InTransit
    BY <1>8, <2>1, <2>2, Zenon DEF SendNic, InTransit
  <2>4. ~ IsReply(Announcement)
    BY Zenon DEF IsReply, Announcement, Packet
  <2> QED BY <1>1, <1>8, <2>3, <2>4, Zenon DEF SendNic
<1> QED BY <1>4, <1>5, <1>6, <1>7, <1>8, Zenon DEF Next, Receive

=============================================================================
