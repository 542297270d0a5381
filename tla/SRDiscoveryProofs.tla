------------------------- MODULE SRDiscoveryProofs -------------------------
(***************************************************************************)
(* Proofs about SRDiscovery, for every network: every set of nodes, every  *)
(* topology, any loss, any number of copies of a unicast frame.            *)
(***************************************************************************)
EXTENDS SRDiscovery, TLAPS

-----------------------------------------------------------------------------
(* What the accessors of IDBuilder return after the mutators, for every      *)
(* 16-bit identifier: each setter writes its own field and no other.         *)

\* An identifier put together from its MAC extension, distance and area.
MakeID(m, s, a) == 64 * m + 4 * s + a

\* The values of the three fields.
MACExts   == 0..1023
Distances == 0..15
Areas     == 0..3

\* How an identifier divides by 64, by 4 and by 16: the masks of the accessors.
LEMMA MakeIDParts ==
    ASSUME NEW m \in MACExts, NEW s \in Distances, NEW a \in Areas
    PROVE  /\ MakeID(m, s, a) \div 64 = m
           /\ MakeID(m, s, a) % 64 = 4 * s + a
           /\ MakeID(m, s, a) \div 4 = 16 * m + s
           /\ MakeID(m, s, a) % 4 = a
           /\ (16 * m + s) % 16 = s
<1>0. m \in Nat /\ s \in 0..15 /\ a \in 0..3
  BY DEF MACExts, Distances, Areas
<1>1. ASSUME NEW r \in 0..63
      PROVE  (64 * m + r) \div 64 = m /\ (64 * m + r) % 64 = r
  BY <1>0
<1>2. 4 * s + a \in 0..63 /\ MakeID(m, s, a) = 64 * m + (4 * s + a)
  BY <1>0 DEF MakeID
<1>3. ASSUME NEW q \in Nat
      PROVE  (4 * q + a) \div 4 = q /\ (4 * q + a) % 4 = a
  BY <1>0
<1>4. 16 * m + s \in Nat /\ MakeID(m, s, a) = 4 * (16 * m + s) + a
  BY <1>0 DEF MakeID
<1>5. (16 * m + s) % 16 = s
  BY <1>0
<1>6. MakeID(m, s, a) \div 64 = m /\ MakeID(m, s, a) % 64 = 4 * s + a
  BY <1>1, <1>2, Zenon
<1>7. MakeID(m, s, a) \div 4 = 16 * m + s /\ MakeID(m, s, a) % 4 = a
  BY <1>3, <1>4, Zenon
<1> QED BY <1>5, <1>6, <1>7, Zenon

\* The three accessors read back the three fields an identifier is made of.
LEMMA FieldsOfMakeID ==
    ASSUME NEW m \in MACExts, NEW s \in Distances, NEW a \in Areas
    PROVE  /\ MakeID(m, s, a) \in UINT16
           /\ getMACExt(MakeID(m, s, a)) = m
           /\ getSinkDistance(MakeID(m, s, a)) = s
           /\ getArea(MakeID(m, s, a)) = a
<1>1. m \in 0..1023 /\ s \in 0..15 /\ a \in 0..3
  BY DEF MACExts, Distances, Areas
<1>2. MakeID(m, s, a) \in UINT16
  BY <1>1 DEF MakeID, UINT16
<1>3. PICK x \in Nat : /\ x = MakeID(m, s, a)
                      /\ x \div 64 = m /\ x % 4 = a
                      /\ x \div 4 = 16 * m + s /\ (16 * m + s) % 16 = s
  <2>1. MakeID(m, s, a) \in Nat
    BY <1>2 DEF UINT16
  <2>2. /\ MakeID(m, s, a) \div 64 = m /\ MakeID(m, s, a) % 4 = a
        /\ MakeID(m, s, a) \div 4 = 16 * m + s /\ (16 * m + s) % 16 = s
    BY MakeIDParts
  <2> QED BY <2>1, <2>2, Zenon
<1>4. getMACExt(x) = m
  BY <1>3, Zenon DEF getMACExt
<1>5. getSinkDistance(x) = s
  BY <1>3, Zenon DEF getSinkDistance
<1>6. getArea(x) = a
  BY <1>3, Zenon DEF getArea
<1> QED BY <1>2, <1>3, <1>4, <1>5, <1>6, Zenon

\* Every 16-bit identifier is made of its three fields.
LEMMA MadeOfFields ==
    ASSUME NEW id \in UINT16
    PROVE  /\ getMACExt(id) \in MACExts
           /\ getSinkDistance(id) \in Distances
           /\ getArea(id) \in Areas
           /\ id = MakeID(getMACExt(id), getSinkDistance(id), getArea(id))
<1>1. PICK q \in Nat : q = id \div 4
  BY DEF UINT16
<1>2. PICK a \in 0..3 : a = id % 4
  BY DEF UINT16
<1>3. PICK m \in Nat : m = q \div 16
  OBVIOUS
<1>4. PICK s \in 0..15 : s = q % 16
  OBVIOUS
<1>5. q < 16384 /\ id = 4 * q + a
  BY <1>1, <1>2 DEF UINT16
<1>6. m < 1024 /\ q = 16 * m + s
  BY <1>3, <1>4, <1>5
<1>7. id = MakeID(m, s, a)
  BY <1>5, <1>6 DEF MakeID
<1>8. m \in MACExts /\ s \in Distances /\ a \in Areas
  BY <1>6 DEF MACExts, Distances, Areas
<1> QED BY <1>7, <1>8, FieldsOfMakeID, Zenon

\* The ranges of the three fields.
LEMMA MakeIDOfFields ==
    ASSUME NEW id \in UINT16
    PROVE  /\ getMACExt(id) \in 0..1023
           /\ getSinkDistance(id) \in 0..15
           /\ getArea(id) \in 0..3
BY MadeOfFields DEF MACExts, Distances, Areas

\* setSinkDistance writes the distance and keeps the MAC extension and area.
LEMMA SetSinkDistanceFields ==
    ASSUME NEW id \in UINT16, NEW d \in 0..15
    PROVE  /\ setSinkDistance(id, d) \in UINT16
           /\ getMACExt(setSinkDistance(id, d)) = getMACExt(id)
           /\ getSinkDistance(setSinkDistance(id, d)) = d
           /\ getArea(setSinkDistance(id, d)) = getArea(id)
<1>1. PICK m \in MACExts, a \in Areas : m = getMACExt(id) /\ a = getArea(id)
  BY MadeOfFields, Zenon
<1>2. d \in Distances
  BY Zenon DEF Distances
<1>3. setSinkDistance(id, d) = MakeID(m, d, a) % 65536
  BY <1>1 DEF setSinkDistance, getMACExt, getArea, MakeID
<1>4. MakeID(m, d, a) \in UINT16
  BY <1>2, FieldsOfMakeID, Zenon
<1>5. setSinkDistance(id, d) = MakeID(m, d, a)
  BY <1>3, <1>4 DEF UINT16
<1> QED BY <1>1, <1>2, <1>5, FieldsOfMakeID

\* setMACExt writes the MAC extension and keeps the distance and the area.
LEMMA SetMACExtFields ==
    ASSUME NEW id \in UINT16, NEW m \in MACExts
    PROVE  /\ setMACExt(id, m) \in UINT16
           /\ getMACExt(setMACExt(id, m)) = m
           /\ getSinkDistance(setMACExt(id, m)) = getSinkDistance(id)
           /\ getArea(setMACExt(id, m)) = getArea(id)
<1>1. PICK e \in MACExts, s \in Distances, a \in Areas :
        e = getMACExt(id) /\ s = getSinkDistance(id) /\ a = getArea(id)
  BY MadeOfFields, Zenon
<1>2. e \in Nat /\ m \in Nat /\ s \in 0..15 /\ a \in 0..3
  BY DEF MACExts, Distances, Areas
<1>3. id % 64 = 4 * s + a
  <2>1. MakeID(e, s, a) % 64 = 4 * s + a
    BY MakeIDParts
  <2> QED BY <1>1, <2>1, MadeOfFields, Zenon
<1>4. setMACExt(id, m) = MakeID(m, s, a)
  BY <1>2, <1>3 DEF setMACExt, MakeID
<1>5. /\ MakeID(m, s, a) \in UINT16
      /\ getMACExt(MakeID(m, s, a)) = m
      /\ getSinkDistance(MakeID(m, s, a)) = s
      /\ getArea(MakeID(m, s, a)) = a
  BY FieldsOfMakeID, Zenon
<1> QED BY <1>1, <1>4, <1>5, Zenon

\* setArea writes the area and keeps the MAC extension and the distance.
LEMMA SetAreaFields ==
    ASSUME NEW id \in UINT16, NEW a \in 0..3
    PROVE  /\ setArea(id, a) \in UINT16
           /\ getMACExt(setArea(id, a)) = getMACExt(id)
           /\ getSinkDistance(setArea(id, a)) = getSinkDistance(id)
           /\ getArea(setArea(id, a)) = a
<1>1. PICK m \in MACExts, s \in Distances, b \in Areas :
        m = getMACExt(id) /\ s = getSinkDistance(id) /\ id = MakeID(m, s, b)
  BY MadeOfFields, Zenon
<1>2. a \in Areas
  BY Zenon DEF Areas
<1>3. m \in Nat /\ s \in 0..15 /\ b \in 0..3
  BY DEF MACExts, Distances, Areas
<1>4. MakeID(m, s, b) \div 4 = 16 * m + s
  BY MakeIDParts
<1>5. setArea(id, a) = MakeID(m, s, a) % 65536
  BY <1>1, <1>3, <1>4 DEF setArea, MakeID
<1>6. /\ MakeID(m, s, a) \in UINT16
      /\ getMACExt(MakeID(m, s, a)) = m
      /\ getSinkDistance(MakeID(m, s, a)) = s
      /\ getArea(MakeID(m, s, a)) = a
  BY <1>2, FieldsOfMakeID, Zenon
<1>7. setArea(id, a) = MakeID(m, s, a)
  BY <1>5, <1>6 DEF UINT16
<1> QED BY <1>1, <1>6, <1>7, Zenon

-----------------------------------------------------------------------------
(* Identifiers. *)

\* An address is a MAC extension, and no address is that of the marker.
LEMMA NodesAreExtensions ==
    ASSUME NEW n \in Nodes
    PROVE  n \in MACExts /\ n \in Nat /\ n # 0 /\ n # BROADCAST /\ n # UNSPECIFIED
BY NodesAssumption DEF MACExts, BROADCAST, UNSPECIFIED

\* The marker of a node without identifier has no node's MAC extension.
LEMMA MarkerFields ==
    NOT_INITIALIZED \in UINT16 /\ \A n \in Nodes : getMACExt(NOT_INITIALIZED) # n
<1>1. NOT_INITIALIZED \in UINT16
  BY DEF NOT_INITIALIZED, UINT16
<1>2. getMACExt(NOT_INITIALIZED) = 1023
  BY DEF NOT_INITIALIZED, getMACExt
<1> QED BY <1>1, <1>2, NodesAssumption

\* A distance is a small natural number.
LEMMA DistanceType ==
    ASSUME NEW id \in UINT16
    PROVE  getSinkDistance(id) \in 0..15
BY MakeIDOfFields

\* setSinkDistance stays within 16 bits whatever the distance.
LEMMA SetSinkDistanceType ==
    ASSUME NEW id \in UINT16, NEW d \in Nat
    PROVE  setSinkDistance(id, d) \in UINT16
<1>1. 64 * (id \div 64) + 4 * d + (id % 4) \in Nat
  BY DEF UINT16
<1> QED BY <1>1 DEF setSinkDistance, UINT16

\* setArea stays within 16 bits whatever the area.
LEMMA SetAreaType ==
    ASSUME NEW id \in UINT16, NEW a \in Nat
    PROVE  setArea(id, a) \in UINT16
<1>1. 4 * (id \div 4) + a \in Nat
  BY DEF UINT16
<1> QED BY <1>1 DEF setArea, UINT16

\* A derived identifier fits in 16 bits.
LEMMA DerivedIDType ==
    ASSUME NEW id \in UINT16, NEW n \in Nodes
    PROVE  DerivedID(n, id) \in UINT16
<1>1. setMACExt(id, n) \in UINT16
  BY NodesAreExtensions, SetMACExtFields, Zenon
<1>2. getSinkDistance(id) + 1 \in Nat
  BY DistanceType
<1> QED BY <1>1, <1>2, SetSinkDistanceType, Zenon DEF DerivedID

\* While the distance fits in four bits, the derived identifier names its
\* owner, lies one hop further than the sender and in the sender's area.
LEMMA DerivedIDFields ==
    ASSUME NEW id \in UINT16, NEW n \in Nodes, getSinkDistance(id) + 1 < 16
    PROVE  /\ getMACExt(DerivedID(n, id)) = n
           /\ getSinkDistance(DerivedID(n, id)) = getSinkDistance(id) + 1
           /\ getArea(DerivedID(n, id)) = getArea(id)
           /\ DerivedID(n, id) # NOT_INITIALIZED
<1>1. PICK x \in UINT16 : /\ x = setMACExt(id, n)
                          /\ getMACExt(x) = n
                          /\ getArea(x) = getArea(id)
  BY NodesAreExtensions, SetMACExtFields, Zenon
<1>2. PICK d \in 0..15 : d = getSinkDistance(id) + 1
  BY DistanceType
<1>3. DerivedID(n, id) = setSinkDistance(x, d)
  BY <1>1, <1>2, Zenon DEF DerivedID
<1>4. /\ getMACExt(setSinkDistance(x, d)) = getMACExt(x)
      /\ getSinkDistance(setSinkDistance(x, d)) = d
      /\ getArea(setSinkDistance(x, d)) = getArea(x)
  BY SetSinkDistanceFields, Zenon
<1> QED BY <1>1, <1>2, <1>3, <1>4, MarkerFields, Zenon

\* The identifier the sink gives itself, whatever the builder held before.
LEMMA SinkIDFields ==
    ASSUME NEW g \in UINT16
    PROVE  /\ SinkID(g) \in UINT16
           /\ getMACExt(SinkID(g)) = Sink
           /\ getSinkDistance(SinkID(g)) = 0
           /\ SinkID(g) # NOT_INITIALIZED
<1>0. Sink \in Nodes
  BY NodesAssumption, Zenon
<1>1. PICK x \in UINT16 : x = setMACExt(g, Sink) /\ getMACExt(x) = Sink
  BY <1>0, NodesAreExtensions, SetMACExtFields, Zenon
<1>2. PICK y \in UINT16 : /\ y = setSinkDistance(x, 0)
                          /\ getMACExt(y) = Sink
                          /\ getSinkDistance(y) = 0
  BY <1>1, SetSinkDistanceFields
<1>3. PICK z \in UINT16 : /\ z = setArea(y, 0)
                          /\ getMACExt(z) = Sink
                          /\ getSinkDistance(z) = 0
  BY <1>2, SetAreaFields
<1> QED BY <1>0, <1>1, <1>2, <1>3, MarkerFields, Zenon DEF SinkID

-----------------------------------------------------------------------------
(* Type correctness. *)

\* A packet is built from typed fields.
LEMMA PacketType ==
    ASSUME NEW q \in {"none", "Q_REQUEST", "Q_REPLY"}, NEW a \in Nodes,
           NEW b \in Nodes \cup {BROADCAST}, NEW id \in UINT16,
           NEW w \in Nodes \cup {NoBloom}
    PROVE  Packet(q, a, b, id, w) \in Packets
BY Zenon DEF Packet, Packets

\* The frames that a packet can cause carry it from its sender to hearers.
LEMMA DeliveriesFacts ==
    ASSUME NEW p \in Packets, NEW S \in Deliveries(p), NEW f \in S
    PROVE  /\ f \in Frames
           /\ f.pkt = p
           /\ <<p.src, f.to>> \in Link
           /\ p.dest # BROADCAST => f.to = p.dest
<1>1. PICK m \in Hearers(p.src), c \in 1..MaxCopies :
        f = Frame(m, c, p) /\ (p.dest # BROADCAST => m = p.dest)
  <2>1. CASE p.dest = BROADCAST
    BY <2>1, NetworkAssumption DEF Deliveries
  <2>2. CASE p.dest # BROADCAST
    BY <2>2, NetworkAssumption DEF Deliveries
  <2> QED BY <2>1, <2>2, Zenon
<1> QED BY <1>1, Zenon DEF Frame, Frames, Hearers

\* Registering a typed neighbour keeps the tables typed.
LEMMA AddNeighborType ==
    ASSUME TablesOK, NEW n \in Nodes, NEW mac \in Nodes, NEW id \in UINT16,
           NEW filter \in Nodes \cup {NoBloom}, addNeighbor(n, mac, id, filter)
    PROVE  TablesOK'
<1>1. ASSUME NEW m \in Nodes
      PROVE  /\ DOMAIN neighborList'[m] \subseteq UINT16
             /\ \A k \in DOMAIN neighborList'[m] :
                  neighborList'[m][k] \in Nodes \cup {UNSPECIFIED}
  BY Zenon DEF addNeighbor, TablesOK, MapPut
<1>2. ASSUME NEW m \in Nodes
      PROVE  /\ DOMAIN NeighborsTable'[m] \subseteq Nodes
             /\ \A k \in DOMAIN NeighborsTable'[m] :
                  NeighborsTable'[m][k] \in Nodes \cup {NoBloom}
  BY Zenon DEF addNeighbor, TablesOK, MapPut
<1> QED BY <1>1, <1>2, Zenon DEF addNeighbor, TablesOK

\* Tracing a neighbour keeps the tables typed.
LEMMA TraceNeighborType ==
    ASSUME TablesOK, NEW n \in Nodes, NEW id \in UINT16, TraceNeighbor(n, id),
           UNCHANGED NeighborsTable
    PROVE  TablesOK'
<1>1. CASE neighborList' = neighborList
  BY <1>1, Zenon DEF TablesOK
<1>2. CASE neighborList' =
             [neighborList EXCEPT ![n] = MapPut(@, id, UNSPECIFIED)]
  <2>1. ASSUME NEW m \in Nodes
        PROVE  /\ DOMAIN neighborList'[m] \subseteq UINT16
               /\ \A k \in DOMAIN neighborList'[m] :
                    neighborList'[m][k] \in Nodes \cup {UNSPECIFIED}
    BY <1>2, Zenon DEF TablesOK, MapPut
  <2> QED BY <1>2, <2>1, Zenon DEF TablesOK
<1> QED BY <1>1, <1>2, Zenon DEF TraceNeighbor

\* The slot of the request generator and its bitmap stay typed.
LEMMA GenSlotType ==
    ASSUME TypeOK, NEW n \in Nodes, scheduleTimeToGenerateRequest(n)
    PROVE  /\ generatorBit0' \in BOOLEAN
           /\ genSlot' \in [Nodes -> GenSlots \cup {NoSlot}]
BY Zenon DEF TypeOK, scheduleTimeToGenerateRequest, PositionTaken

\* Taking an identifier keeps the variables it writes typed.
LEMMA TakeIDType ==
    ASSUME TypeOK, NEW n \in Nodes, NEW id \in UINT16, TakeID(n, id)
    PROVE  /\ myID' \in [Nodes -> UINT16]
           /\ scheduled' \subseteq Packets
           /\ hasSentAdvertMsg' \in [Nodes -> BOOLEAN]
           /\ numberSensorNotKnown' \in UINT16
           /\ sensorStatus' \in [Nodes -> {"STATUS_DISCO", "STATUS_NORMAL"}]
           /\ generatorBit0' \in BOOLEAN
           /\ genSlot' \in [Nodes -> GenSlots \cup {NoSlot}]
<1>1. DerivedID(n, id) \in UINT16
  BY DerivedIDType, Zenon
<1>2. Packet("none", n, BROADCAST, DerivedID(n, id), n) \in Packets
  BY <1>1, PacketType, Zenon
<1>3. scheduled' \subseteq Packets
  BY <1>2, Zenon DEF TypeOK, TakeID, scheduleMsgToSendNic
<1>4. numberSensorNotKnown' \in UINT16
  BY DEF TypeOK, TakeID, OneMoreKnown, UINT16
<1>5. /\ generatorBit0' \in BOOLEAN
      /\ genSlot' \in [Nodes -> GenSlots \cup {NoSlot}]
  BY GenSlotType, Zenon DEF TakeID
<1> QED BY <1>1, <1>3, <1>4, <1>5, Zenon DEF TypeOK, TakeID

\* The fields of a frame in the air.
LEMMA FrameFields ==
    ASSUME TypeOK, NEW f \in air
    PROVE  /\ f.to \in Nodes
           /\ f.pkt \in Packets
           /\ f.pkt.src \in Nodes
           /\ f.pkt.dest \in Nodes \cup {BROADCAST}
           /\ f.pkt.Id \in UINT16
           /\ f.pkt.bloom \in Nodes \cup {NoBloom}
           /\ f.pkt.queryType \in {"none", "Q_REQUEST", "Q_REPLY"}
           /\ (air \ {f}) \subseteq Frames
BY Zenon DEF TypeOK, Frames, Packets

\* The initial state is typed.
LEMMA TypeInit == Init => TypeOK
<1> SUFFICES ASSUME Init PROVE TypeOK
  BY Zenon
<1>1. TablesOK
  BY Zenon DEF Init, TablesOK, EmptyMap
<1>2. 0 \in UINT16 /\ NOT_INITIALIZED \in UINT16
  BY DEF UINT16, NOT_INITIALIZED
<1> QED BY <1>1, <1>2, Zenon DEF Init, TypeOK

\* Every step of discovery keeps the state typed.
LEMMA TypeStep == TypeOK /\ [Next]_vars => TypeOK'
<1> SUFFICES ASSUME TypeOK, [Next]_vars PROVE TypeOK'
  BY Zenon
<1> USE DEF statics
<1>u. CASE UNCHANGED vars
  BY <1>u, Zenon DEF vars, TypeOK, TablesOK
<1>a. ASSUME NEW reason, Abort(reason) PROVE TypeOK'
  BY <1>a, Zenon DEF Abort, TypeOK, TablesOK
<1>1. ASSUME NEW n \in Sensors, SelfInitialization(n) PROVE TypeOK'
  <2>1. numberSensorNotKnown' \in UINT16 /\ numberSensorInNetwork' \in UINT16
    BY <1>1 DEF SelfInitialization, TypeOK, UINT16
  <2> QED BY <1>1, <2>1 DEF SelfInitialization, Sensors, TypeOK, TablesOK
<1>2. CASE SINK_SelfInitialization
  <2>0. Sink \in Nodes
    BY NodesAssumption, Zenon
  <2>1. PICK g \in {0, 65535} : AnnounceSink(SinkID(g))
    BY <1>2 DEF SINK_SelfInitialization
  <2>2. g \in UINT16
    BY DEF UINT16
  <2>3. SinkID(g) \in UINT16
    BY <2>2, SinkIDFields
  <2>4. myID' \in [Nodes -> UINT16] /\ scheduled' \subseteq Packets
    <3>1. Packet("Q_REQUEST", Sink, BROADCAST, SinkID(g), Sink) \in Packets
      BY <2>0, <2>3, PacketType
    <3> QED BY <2>0, <2>1, <2>3, <3>1
            DEF TypeOK, AnnounceSink, scheduleMsgToSendNic
  <2>5. initialized' = [initialized EXCEPT ![Sink] = TRUE]
    BY <1>2 DEF SINK_SelfInitialization
  <2>6. sensorStatus' = [sensorStatus EXCEPT ![Sink] = "STATUS_NORMAL"]
    BY <1>2 DEF SINK_SelfInitialization
  <2>7. UNCHANGED <<neighborList, NeighborsTable, firstSinkMsg,
                    hasSentAdvertMsg, statics, areaSlot, genSlot, air, halted>>
    BY <1>2 DEF SINK_SelfInitialization
  <2> QED BY <2>0, <2>4, <2>5, <2>6, <2>7 DEF TypeOK, TablesOK
<1>3. ASSUME NEW p \in scheduled, SendNic(p) PROVE TypeOK'
  <2>1. p \in Packets
    BY Zenon DEF TypeOK
  <2>2. air' \subseteq Frames
    BY <1>3, <2>1, DeliveriesFacts, Zenon DEF SendNic, TypeOK
  <2> QED BY <1>3, <2>2, Zenon DEF SendNic, TypeOK, TablesOK
<1>4. ASSUME NEW f \in air, AskForArea(f) PROVE TypeOK'
  <2>1. TablesOK'
    <3>1. TablesOK /\ addNeighbor(f.to, f.pkt.src, f.pkt.Id, f.pkt.bloom)
      BY <1>4, Zenon DEF AskForArea, TypeOK
    <3>2. /\ f.to \in Nodes /\ f.pkt.src \in Nodes /\ f.pkt.Id \in UINT16
          /\ f.pkt.bloom \in Nodes \cup {NoBloom}
      BY FrameFields, Zenon
    <3> QED BY <3>1, <3>2, AddNeighborType, Zenon
  <2>2. Packet("Q_REQUEST", f.to, f.pkt.src, myID[f.to], f.to) \in Packets
    BY FrameFields, PacketType, Zenon DEF TypeOK
  <2>3. PICK pos \in AreaSlots : TakeAreaSlot(f.to, pos)
    BY <1>4, Zenon DEF AskForArea
  <2>4. areaBitmap' \in UINT16
    <3>1. Bit(pos) \in Nat
      BY SlotsAssumption DEF Bit
    <3> QED BY <2>3, <3>1 DEF TakeAreaSlot, TypeOK, UINT16
  <2>5. areaSlot' \in [Nodes -> AreaSlots \cup {NoSlot}]
    <3>1. areaSlot' = [areaSlot EXCEPT ![f.to] = pos]
      BY <2>3 DEF TakeAreaSlot
    <3> QED BY <3>1, Zenon DEF TypeOK
  <2> QED BY <1>4, <2>1, <2>2, <2>4, <2>5, FrameFields, Zenon
          DEF AskForArea, TypeOK, scheduleMsgToSendNic, SinkIsKnown
<1>5. ASSUME NEW f \in air, IgnoreSink(f) PROVE TypeOK'
  BY <1>5, FrameFields, TraceNeighborType, Zenon DEF IgnoreSink, TypeOK
<1>6. ASSUME NEW f \in air, TakeIDFromSink(f) PROVE TypeOK'
  BY <1>6, FrameFields, TraceNeighborType, TakeIDType, Zenon
     DEF TakeIDFromSink, TypeOK
<1>7. ASSUME NEW f \in air, IgnoreNeighbor(f) PROVE TypeOK'
  BY <1>7, FrameFields, Zenon DEF IgnoreNeighbor, TypeOK, TablesOK
<1>8. ASSUME NEW f \in air, RegisterNeighbor(f) PROVE TypeOK'
  BY <1>8, FrameFields, AddNeighborType, Zenon DEF RegisterNeighbor, TypeOK
<1>9. ASSUME NEW f \in air, TakeIDFromNeighbor(f) PROVE TypeOK'
  BY <1>9, FrameFields, AddNeighborType, TakeIDType, Zenon
     DEF TakeIDFromNeighbor, TypeOK
<1>10. ASSUME NEW f \in air, f.to = Sink, GiveArea(f) PROVE TypeOK'
  <2>0. Sink \in Nodes
    BY NodesAssumption, Zenon
  <2>1. TablesOK'
    BY <1>10, <2>0, FrameFields, AddNeighborType, Zenon DEF GiveArea, TypeOK
  <2>2. setArea(myID[Sink], areaNumber) \in UINT16
    <3>1. areaNumber \in Nat
      BY DEF TypeOK, UINT16
    <3> QED BY <2>0, <3>1, SetAreaType, Zenon DEF TypeOK
  <2>3. Packet("Q_REPLY", Sink, f.pkt.src, setArea(myID[Sink], areaNumber),
               NoBloom) \in Packets
    BY <2>0, <2>2, FrameFields, PacketType, Zenon
  <2>4. areaNumber' \in UINT16
    BY <1>10 DEF GiveArea, NextArea, TypeOK, UINT16
  <2> QED BY <1>10, <2>1, <2>2, <2>3, <2>4, FrameFields, Zenon
          DEF GiveArea, TypeOK, scheduleMsgToSendNic
<1>11. ASSUME NEW f \in air, IgnoreAdvert(f) PROVE TypeOK'
  BY <1>11, FrameFields, Zenon DEF IgnoreAdvert, TypeOK, TablesOK
<1> QED BY <1>u, <1>a, <1>1, <1>2, <1>3, <1>4, <1>5, <1>6, <1>7, <1>8, <1>9,
           Zenon, <1>10, <1>11
        DEF Next, Receive, handleNicDiscoveryMsg, SINK_handleNicDiscoveryMsg,
            NoAreaSlot, TooFarFromSink, NoMoreArea

\* Whatever is lost, repeated or reordered, and with or without assertions,
\* the variables of discovery keep their declared types.
THEOREM TypeCorrect == Spec => []TypeOK
BY TypeInit, TypeStep, PTL DEF Spec

-----------------------------------------------------------------------------
(* The inductive invariant. *)

\* No identifier is lost, none changes its distance, and that of a sensor
\* does not change at all.
IdentityKept ==
    \A n \in Nodes : Identified(n) =>
        /\ Identified(n)'
        /\ getSinkDistance(myID'[n]) = getSinkDistance(myID[n])
        /\ n # Sink => myID'[n] = myID[n]

\* A packet that is sound stays sound while identities are kept.
LEMMA PacketStaysOK ==
    ASSUME IdentityKept, NEW p \in Packets, PacketOK(p)
    PROVE  PacketOK(p)'
BY Zenon DEF IdentityKept, PacketOK, Packets

\* Messages stay sound when sound packets are scheduled and frames are taken.
LEMMA MessagesStayOK ==
    ASSUME TypeOK, MessagesOK, IdentityKept, NEW q, PacketOK(q)',
           scheduled' \subseteq scheduled \cup {q}, air' \subseteq air
    PROVE  MessagesOK'
<1>1. ASSUME NEW p \in scheduled' PROVE PacketOK(p)'
  BY PacketStaysOK, Zenon DEF MessagesOK, TypeOK
<1>2. ASSUME NEW f \in air'
      PROVE  /\ PacketOK(f.pkt)'
             /\ <<f.pkt.src, f.to>> \in Link
             /\ f.pkt.dest # BROADCAST => f.to = f.pkt.dest
  BY FrameFields, PacketStaysOK, Zenon DEF MessagesOK
<1> QED BY <1>1, <1>2, Zenon DEF MessagesOK

\* What a sensor that may take an identifier can rely on: the sender has one,
\* is heard, and is as far from the sink as its packet says.
LEMMA SenderFacts ==
    ASSUME IdentityInv, NEW f \in air, f.to # Sink
    PROVE  /\ f.to \in Sensors
           /\ f.pkt.src \in Nodes
           /\ Identified(f.pkt.src)
           /\ <<f.pkt.src, f.to>> \in Link
           /\ f.pkt.Id \in UINT16
           /\ getMACExt(f.pkt.Id) = f.pkt.src
           /\ getSinkDistance(f.pkt.Id) = getSinkDistance(myID[f.pkt.src])
           /\ FromSink(f.pkt) => f.pkt.src = Sink
<1>1. f.to \in Nodes /\ f.pkt.src \in Nodes /\ f.pkt.Id \in UINT16
  BY FrameFields, Zenon DEF IdentityInv
<1>2. f.pkt.dest # Sink
  <2>1. BROADCAST # Sink
    BY NodesAssumption, NodesAreExtensions, Zenon
  <2> QED BY <2>1, Zenon DEF IdentityInv, MessagesOK
<1>3. /\ Identified(f.pkt.src)
      /\ <<f.pkt.src, f.to>> \in Link
      /\ getMACExt(f.pkt.Id) = f.pkt.src
      /\ getSinkDistance(f.pkt.Id) = getSinkDistance(myID[f.pkt.src])
  BY <1>2, Zenon DEF IdentityInv, MessagesOK, PacketOK
<1>4. FromSink(f.pkt) => f.pkt.src = Sink
  BY <1>1, <1>3, Zenon DEF IdentityInv, IDFieldsOK, FromSink
<1> QED BY <1>1, <1>3, <1>4, Zenon DEF Sensors

\* A step that leaves identifiers and flags alone.
LEMMA QuietStep ==
    ASSUME IdentityInv, UNCHANGED <<initialized, myID, hasSentAdvertMsg>>,
           air # {} \/ air' = {}, TypeOK', MessagesOK'
    PROVE  IdentityInv'
BY Zenon DEF IdentityInv, IDFieldsOK, FlagsOK, DistanceSound, Identified

\* Taking an identifier from the sender of frame f.
LEMMA TakeIDStep ==
    ASSUME ~ NDEBUG, IdentityInv, NEW f \in air, f.to # Sink,
           MayTakeID(f.to), TakeID(f.to, f.pkt.Id), air' = air \ {f},
           UNCHANGED initialized, TypeOK'
    PROVE  /\ IdentityInv'
           /\ IdentityKept
           /\ ~ Identified(f.to)
           /\ Identified(f.to)'
           /\ getSinkDistance(myID'[f.to])
                = getSinkDistance(myID[f.pkt.src]) + 1
           /\ \A m \in Nodes \ {f.to} : myID'[m] = myID[m]
<1> DEFINE n == f.to
           m == f.pkt.src
           id == DerivedID(n, f.pkt.Id)
<1> HIDE DEF n, m, id
<1>1. /\ n \in Sensors /\ n \in Nodes /\ n # Sink
      /\ m \in Nodes /\ Identified(m) /\ <<m, n>> \in Link
      /\ f.pkt.Id \in UINT16
      /\ getSinkDistance(f.pkt.Id) = getSinkDistance(myID[m])
  BY SenderFacts, Zenon DEF n, m, Sensors
<1>2. ~ Identified(n)
  BY <1>1, Zenon DEF IdentityInv, FlagsOK, MayTakeID, n
<1>3. /\ myID' = [myID EXCEPT ![n] = id]
      /\ scheduled' = scheduled \cup {Packet("none", n, BROADCAST, id, n)}
      /\ hasSentAdvertMsg' = [hasSentAdvertMsg EXCEPT ![n] = TRUE]
      /\ getSinkDistance(f.pkt.Id) + 1 < 16
  BY Zenon DEF TakeID, scheduleMsgToSendNic, SinkDistanceAssert, n, id
<1>4. /\ getMACExt(id) = n
      /\ getSinkDistance(id) = getSinkDistance(myID[m]) + 1
      /\ id # NOT_INITIALIZED
  BY <1>1, <1>3, DerivedIDFields, Zenon DEF id
<1>5. myID \in [Nodes -> UINT16] /\ hasSentAdvertMsg \in [Nodes -> BOOLEAN]
  BY Zenon DEF IdentityInv, TypeOK
<1>6. myID'[n] = id /\ \A x \in Nodes \ {n} : myID'[x] = myID[x]
  BY <1>1, <1>3, <1>5, Zenon
<1>7. Identified(n)' /\ \A x \in Nodes \ {n} : Identified(x)' <=> Identified(x)
  BY <1>4, <1>6, Zenon DEF Identified
<1>8. IdentityKept
  BY <1>2, <1>6, <1>7, Zenon DEF IdentityKept
<1>9. getSinkDistance(myID[m]) \in Nat
  BY <1>1, <1>5, DistanceType
<1>10. IDFieldsOK'
  <2>1. getSinkDistance(id) # 0
    BY <1>4, <1>9
  <2>2. ASSUME NEW x \in Nodes, Identified(x)'
        PROVE  /\ getMACExt(myID'[x]) = x
               /\ getSinkDistance(myID'[x]) = 0 <=> x = Sink
    BY <1>1, <1>4, <1>6, <1>7, <2>1, <2>2, Zenon DEF IdentityInv, IDFieldsOK
  <2> QED BY <2>2, Zenon DEF IDFieldsOK
<1>11. FlagsOK'
  <2>1. \A x \in Sensors : hasSentAdvertMsg'[x] <=> Identified(x)'
    BY <1>1, <1>3, <1>5, <1>7, Zenon DEF IdentityInv, FlagsOK, Sensors
  <2>2. initialized'[Sink] <=> Identified(Sink)'
    BY <1>1, <1>7, NodesAssumption, Zenon DEF IdentityInv, FlagsOK
  <2>3. air' # {} => \A x \in Nodes : initialized'[x]
    BY Zenon DEF IdentityInv, FlagsOK
  <2> QED BY <2>1, <2>2, <2>3, Zenon DEF FlagsOK
<1>12. DistanceSound'
  <2>1. Hops[m] <= getSinkDistance(myID[m]) /\ Hops[n] <= Hops[m] + 1
    BY <1>1, HopsAssumption, Zenon DEF IdentityInv, DistanceSound
  <2>2. Hops[n] <= getSinkDistance(id)
    BY <1>1, <1>4, <1>9, <2>1, HopsAssumption
  <2>3. ASSUME NEW x \in Nodes, Identified(x)'
        PROVE  Hops[x] <= getSinkDistance(myID'[x])
    BY <1>6, <1>7, <2>2, <2>3, Zenon DEF IdentityInv, DistanceSound
  <2> QED BY <2>3, Zenon DEF DistanceSound
<1>13. MessagesOK'
  <2>1. PacketOK(Packet("none", n, BROADCAST, id, n))'
    BY <1>4, <1>6, <1>7, Zenon DEF PacketOK, Packet
  <2> QED BY <1>3, <1>8, <2>1, MessagesStayOK, Zenon DEF IdentityInv
<1> QED BY <1>2, <1>4, <1>6, <1>7, <1>8, <1>10, <1>11, <1>12, <1>13, Zenon
        DEF IdentityInv, n, m

\* Answering a request: the identifier of the sink moves to the next area.
LEMMA GiveAreaStep ==
    ASSUME ~ NDEBUG, IdentityInv, NEW f \in air, f.to = Sink, GiveArea(f),
           TypeOK'
    PROVE  IdentityInv' /\ IdentityKept
<1>0. PICK id : id = setArea(myID[Sink], areaNumber)
  BY Zenon
<1>1. Sink \in Nodes /\ Identified(Sink) /\ myID[Sink] \in UINT16
  BY NodesAssumption, Zenon DEF IdentityInv, FlagsOK, TypeOK
<1>2. areaNumber \in 0..3
  <2>1. areaNumber \in UINT16
    BY Zenon DEF IdentityInv, TypeOK
  <2>2. areaNumber < 4
    BY Zenon DEF GiveArea, AreaAssert
  <2> QED BY <2>1, <2>2 DEF UINT16
<1>3. getMACExt(id) = Sink /\ getSinkDistance(id) = 0 /\ id # NOT_INITIALIZED
  <2>1. getMACExt(myID[Sink]) = Sink /\ getSinkDistance(myID[Sink]) = 0
    BY <1>1, Zenon DEF IdentityInv, IDFieldsOK
  <2> QED BY <1>0, <1>1, <1>2, <2>1, SetAreaFields, MarkerFields
<1>4. /\ myID' = [myID EXCEPT ![Sink] = id]
      /\ scheduled' = scheduled \cup {Packet("Q_REPLY", Sink, f.pkt.src, id, NoBloom)}
      /\ air' = air \ {f}
      /\ UNCHANGED <<initialized, hasSentAdvertMsg>>
  BY <1>0, Zenon DEF GiveArea, scheduleMsgToSendNic
<1>5. myID'[Sink] = id /\ \A x \in Nodes \ {Sink} : myID'[x] = myID[x]
  BY <1>1, <1>4, Zenon DEF IdentityInv, TypeOK
<1>6. \A x \in Nodes : Identified(x)' <=> Identified(x)
  BY <1>1, <1>3, <1>5, Zenon DEF Identified
<1>7. IdentityKept
  BY <1>1, <1>3, <1>5, <1>6, Zenon DEF IdentityKept, IdentityInv, IDFieldsOK
<1>8. IDFieldsOK'
  BY <1>1, <1>3, <1>5, <1>6, Zenon DEF IdentityInv, IDFieldsOK
<1>9. FlagsOK'
  BY <1>1, <1>4, <1>6, Zenon DEF IdentityInv, FlagsOK, Sensors
<1>10. DistanceSound'
  <2>1. Hops[Sink] = 0
    BY HopsAssumption, Zenon
  <2>2. ASSUME NEW x \in Nodes, Identified(x)'
        PROVE  Hops[x] <= getSinkDistance(myID'[x])
    <3>1. CASE x = Sink
      BY <1>3, <1>5, <2>1, <3>1
    <3>2. CASE x # Sink
      BY <1>5, <1>6, <2>2, <3>2, Zenon DEF IdentityInv, DistanceSound
    <3> QED BY <3>1, <3>2, Zenon
  <2> QED BY <2>2, Zenon DEF DistanceSound
<1>11. MessagesOK'
  <2>1. PacketOK(Packet("Q_REPLY", Sink, f.pkt.src, id, NoBloom))'
    BY <1>1, <1>3, <1>5, <1>6, Zenon DEF PacketOK, Packet
  <2> QED BY <1>4, <1>7, <2>1, MessagesStayOK, Zenon DEF IdentityInv
<1> QED BY <1>7, <1>8, <1>9, <1>10, <1>11, Zenon DEF IdentityInv

\* The sink names and announces itself.
LEMMA SinkInitStep ==
    ASSUME IdentityInv, SINK_SelfInitialization, TypeOK'
    PROVE  /\ IdentityInv'
           /\ IdentityKept
           /\ ~ Identified(Sink)
           /\ Identified(Sink)'
           /\ getSinkDistance(myID'[Sink]) = 0
           /\ \A x \in Nodes \ {Sink} : myID'[x] = myID[x]
<1>1. Sink \in Nodes
  BY NodesAssumption, Zenon
<1>2. ~ initialized[Sink] /\ ~ Identified(Sink) /\ air = {}
  BY <1>1 DEF SINK_SelfInitialization, MyTurnToInitialize, IdentityInv, FlagsOK
<1>3. PICK g \in {0, 65535} : AnnounceSink(SinkID(g))
  BY DEF SINK_SelfInitialization
<1> DEFINE id == SinkID(g)
<1> HIDE DEF id
<1>4. getMACExt(id) = Sink /\ getSinkDistance(id) = 0 /\ id # NOT_INITIALIZED
  <2>1. g \in UINT16
    BY DEF UINT16
  <2> QED BY <2>1, SinkIDFields DEF id
<1>5. /\ myID' = [myID EXCEPT ![Sink] = id]
      /\ scheduled' = scheduled \cup {Packet("Q_REQUEST", Sink, BROADCAST, id, Sink)}
  BY <1>3 DEF AnnounceSink, scheduleMsgToSendNic, id
<1>6. /\ initialized' = [initialized EXCEPT ![Sink] = TRUE]
      /\ air' = air /\ hasSentAdvertMsg' = hasSentAdvertMsg
  BY DEF SINK_SelfInitialization
<1>7. myID'[Sink] = id /\ \A x \in Nodes \ {Sink} : myID'[x] = myID[x]
  <2>1. myID \in [Nodes -> UINT16]
    BY DEF IdentityInv, TypeOK
  <2> QED BY <1>1, <1>5, <2>1
<1>8. /\ Identified(Sink)'
      /\ \A x \in Nodes \ {Sink} : Identified(x)' <=> Identified(x)
  BY <1>4, <1>7 DEF Identified
<1>9. IdentityKept
  BY <1>2, <1>7, <1>8 DEF IdentityKept
<1>10. IDFieldsOK'
  BY <1>1, <1>4, <1>7, <1>8 DEF IdentityInv, IDFieldsOK
<1>11. FlagsOK'
  <2>1. initialized \in [Nodes -> BOOLEAN]
    BY DEF IdentityInv, TypeOK
  <2>2. initialized'[Sink] = TRUE
    BY <1>1, <1>6, <2>1
  <2>3. initialized'[Sink] <=> Identified(Sink)'
    BY <1>8, <2>2
  <2>4. \A x \in Sensors : hasSentAdvertMsg'[x] <=> Identified(x)'
    <3>1. \A x \in Sensors : hasSentAdvertMsg[x] <=> Identified(x)
      BY DEF IdentityInv, FlagsOK
    <3>2. \A x \in Sensors : Identified(x)' <=> Identified(x)
      BY <1>8 DEF Sensors
    <3> QED BY <1>6, <3>1, <3>2
  <2> QED BY <1>2, <1>6, <2>3, <2>4 DEF FlagsOK
<1>12. DistanceSound'
  <2>1. Hops[Sink] = 0
    BY HopsAssumption
  <2>2. ASSUME NEW x \in Nodes, Identified(x)'
        PROVE  Hops[x] <= getSinkDistance(myID'[x])
    <3>1. CASE x = Sink
      BY <1>4, <1>7, <2>1, <3>1
    <3>2. CASE x # Sink
      BY <1>7, <1>8, <2>2, <3>2 DEF IdentityInv, DistanceSound
    <3> QED BY <3>1, <3>2
  <2> QED BY <2>2 DEF DistanceSound
<1>13. MessagesOK'
  <2>1. PacketOK(Packet("Q_REQUEST", Sink, BROADCAST, id, Sink))'
    <3> DEFINE p == Packet("Q_REQUEST", Sink, BROADCAST, id, Sink)
    <3>1. p.src = Sink /\ p.Id = id
      BY DEF Packet
    <3> HIDE DEF p
    <3>2. Identified(p.src)' /\ getMACExt(p.Id) = p.src
      BY <1>4, <1>8, <3>1
    <3>3. getSinkDistance(p.Id) = getSinkDistance(myID'[p.src])
      BY <1>7, <3>1
    <3>4. PacketOK(p)'
      BY <3>1, <3>2, <3>3 DEF PacketOK
    <3> QED BY <3>4 DEF p
  <2> QED BY <1>5, <1>6, <1>9, <2>1, MessagesStayOK DEF IdentityInv
<1> QED BY <1>2, <1>4, <1>7, <1>8, <1>9, <1>10, <1>11, <1>12, <1>13
        DEF IdentityInv

\* Handing a packet to the radio.
LEMMA SendStep ==
    ASSUME IdentityInv, NEW p \in scheduled, SendNic(p), TypeOK'
    PROVE  IdentityInv'
<1>1. PICK S \in Deliveries(p) : air' = air \cup S
  BY Zenon DEF SendNic
<1>2. p \in Packets /\ PacketOK(p)
  BY Zenon DEF IdentityInv, TypeOK, MessagesOK
<1>3. \A f \in S : /\ f.pkt = p
                   /\ <<p.src, f.to>> \in Link
                   /\ p.dest # BROADCAST => f.to = p.dest
  BY <1>2, DeliveriesFacts
<1>4. /\ UNCHANGED <<initialized, myID, hasSentAdvertMsg>>
      /\ scheduled' \subseteq scheduled
      /\ \A n \in Nodes : initialized[n]
  BY Zenon DEF SendNic
<1>5. \A q : PacketOK(q)' <=> PacketOK(q)
  BY <1>4, Zenon DEF PacketOK, Identified
<1>6. MessagesOK'
  BY <1>1, <1>2, <1>3, <1>4, <1>5, Zenon DEF IdentityInv, MessagesOK
<1> QED BY <1>4, <1>6, Zenon DEF IdentityInv, IDFieldsOK, FlagsOK, DistanceSound,
                          Identified

\* A sensor asks the sink, and nobody else, for an area.
LEMMA AskStep ==
    ASSUME IdentityInv, NEW f \in air, f.to # Sink, AskForArea(f), TypeOK'
    PROVE  IdentityInv'
<1> DEFINE q == Packet("Q_REQUEST", f.to, f.pkt.src, myID[f.to], f.to)
<1>1. f.pkt.src = Sink
  BY SenderFacts, Zenon DEF AskForArea
<1>2. PacketOK(q)'
  BY <1>1, Zenon DEF PacketOK, Packet
<1>3. /\ UNCHANGED <<initialized, myID, hasSentAdvertMsg>>
      /\ scheduled' = scheduled \cup {q}
      /\ air' = air \ {f}
  BY Zenon DEF AskForArea, scheduleMsgToSendNic
<1>4. IdentityKept
  BY <1>3, Zenon DEF IdentityKept, Identified
<1>5. MessagesOK'
  BY <1>2, <1>3, <1>4, MessagesStayOK, Zenon DEF IdentityInv
<1> QED BY <1>3, <1>5, QuietStep, Zenon

\* A step that sends nothing, takes a frame or not, and leaves identities.
LEMMA SilentStep ==
    ASSUME IdentityInv, TypeOK',
           UNCHANGED <<initialized, myID, hasSentAdvertMsg, scheduled>>,
           air' \subseteq air
    PROVE  IdentityInv' /\ IdentityKept
<1>1. IdentityKept
  BY Zenon DEF IdentityKept, Identified
<1>2. MessagesOK'
  <2>1. \A q : PacketOK(q)' <=> PacketOK(q)
    BY Zenon DEF PacketOK, Identified
  <2> QED BY <2>1, Zenon DEF IdentityInv, MessagesOK
<1> QED BY <1>1, <1>2, Zenon
        DEF IdentityInv, IDFieldsOK, FlagsOK, DistanceSound, Identified

\* Every step keeps the invariant and the identities, and either leaves the
\* levels of the tree alone or takes one step of DistanceTree.
LEMMA InvariantStep ==
    ASSUME ~ NDEBUG, IdentityInv, Next
    PROVE  IdentityInv' /\ IdentityKept
<1>0. TypeOK'
  BY TypeStep, Zenon DEF IdentityInv
<1> USE <1>0 DEF statics
<1>a. ASSUME NEW reason, Abort(reason) PROVE IdentityInv' /\ IdentityKept
  BY <1>a, SilentStep, Zenon DEF Abort
<1>1. ASSUME NEW n \in Sensors, SelfInitialization(n)
      PROVE  IdentityInv' /\ IdentityKept
  <2>1. n # Sink /\ n \in Nodes /\ air = {}
    BY <1>1 DEF SelfInitialization, MyTurnToInitialize, IdentityInv, FlagsOK,
                Sensors
  <2>2. /\ UNCHANGED <<myID, hasSentAdvertMsg, scheduled, air>>
        /\ initialized' = [initialized EXCEPT ![n] = TRUE]
    BY <1>1 DEF SelfInitialization
  <2>3. initialized'[Sink] = initialized[Sink]
    BY <2>1, <2>2, NodesAssumption, Zenon DEF IdentityInv, TypeOK
  <2>4. FlagsOK'
    BY <2>1, <2>2, <2>3, Zenon DEF IdentityInv, FlagsOK, Identified
  <2>5. MessagesOK'
    BY <2>2, Zenon DEF IdentityInv, MessagesOK, PacketOK, Identified
  <2>6. IdentityKept
    BY <2>2, Zenon DEF IdentityKept, Identified
  <2> QED BY <2>2, <2>4, <2>5, <2>6, Zenon
          DEF IdentityInv, IDFieldsOK, DistanceSound, Identified
<1>2. CASE SINK_SelfInitialization
  BY <1>2, SinkInitStep, Zenon
<1>3. ASSUME NEW p \in scheduled, SendNic(p)
      PROVE  IdentityInv' /\ IdentityKept
  BY <1>3, SendStep, Zenon DEF SendNic, IdentityKept, Identified
<1>4. ASSUME NEW f \in air, f.to = Sink, SINK_handleNicDiscoveryMsg(f)
      PROVE  IdentityInv' /\ IdentityKept
  <2>1. CASE GiveArea(f)
    BY <1>4, <2>1, GiveAreaStep, Zenon
  <2>2. CASE NoMoreArea(f)
    BY <1>a, <2>2, Zenon DEF NoMoreArea
  <2>3. CASE IgnoreAdvert(f)
    BY <2>3, SilentStep, Zenon DEF IgnoreAdvert
  <2> QED BY <1>4, <2>1, <2>2, <2>3, Zenon DEF SINK_handleNicDiscoveryMsg
<1>5. ASSUME NEW f \in air, f.to # Sink, handleNicDiscoveryMsg(f)
      PROVE  IdentityInv' /\ IdentityKept
  <2>1. CASE AskForArea(f)
    BY <1>5, <2>1, AskStep, Zenon DEF AskForArea, IdentityKept, Identified
  <2>2. CASE NoAreaSlot(f) \/ TooFarFromSink(f)
    BY <1>a, <2>2, Zenon DEF NoAreaSlot, TooFarFromSink
  <2>3. CASE IgnoreSink(f)
    BY <2>3, SilentStep, Zenon DEF IgnoreSink
  <2>4. CASE TakeIDFromSink(f)
    BY <1>5, <2>4, TakeIDStep, Zenon DEF TakeIDFromSink
  <2>5. CASE IgnoreNeighbor(f)
    BY <2>5, SilentStep, Zenon DEF IgnoreNeighbor
  <2>6. CASE RegisterNeighbor(f)
    BY <2>6, SilentStep, Zenon DEF RegisterNeighbor
  <2>7. CASE TakeIDFromNeighbor(f)
    BY <1>5, <2>7, TakeIDStep, Zenon DEF TakeIDFromNeighbor
  <2> QED BY <1>5, <2>1, <2>2, <2>3, <2>4, <2>5, <2>6, <2>7, Zenon
          DEF handleNicDiscoveryMsg
<1> QED BY <1>1, <1>2, <1>3, <1>4, <1>5, Zenon DEF Next, Receive

\* The initial state satisfies the invariant.
LEMMA InvariantInit == Init => IdentityInv
<1> SUFFICES ASSUME Init PROVE IdentityInv
  BY Zenon
<1>1. TypeOK
  BY TypeInit, Zenon
<1>2. \A n \in Nodes : ~ Identified(n)
  BY Zenon DEF Init, Identified
<1>3. FlagsOK
  BY <1>2, NodesAssumption, Zenon DEF Init, FlagsOK, Sensors
<1> QED BY <1>1, <1>2, <1>3, Zenon
        DEF IdentityInv, IDFieldsOK, MessagesOK, DistanceSound, Init

\* With the assertions on, the invariant always holds.
THEOREM InvariantHolds ==
    ASSUME ~ NDEBUG
    PROVE  Spec => []IdentityInv
<1>1. IdentityInv /\ [Next]_vars => IdentityInv'
  <2> SUFFICES ASSUME IdentityInv, [Next]_vars PROVE IdentityInv'
    BY Zenon
  <2>1. CASE Next
    BY <2>1, InvariantStep, Zenon
  <2>2. CASE UNCHANGED vars
    BY <2>2, SilentStep, TypeStep, Zenon DEF vars, IdentityInv
  <2> QED BY <2>1, <2>2, Zenon
<1> QED BY <1>1, InvariantInit, PTL DEF Spec

\* With the assertions on, no identifier understates the number of hops to the
\* sink (SR.cc:525, 597), in any topology and whatever is lost or repeated.
THEOREM DistanceSoundAlways ==
    ASSUME ~ NDEBUG
    PROVE  Spec => []DistanceSound
<1>1. IdentityInv => DistanceSound
  BY Zenon DEF IdentityInv
<1> QED BY <1>1, InvariantHolds, PTL

\* With the assertions on, no two nodes hold one identifier (SR.h:37).
THEOREM UniqueIDsAlways ==
    ASSUME ~ NDEBUG
    PROVE  Spec => []UniqueIDs
<1>1. IdentityInv => UniqueIDs
  BY Zenon DEF IdentityInv, IDFieldsOK, UniqueIDs
<1> QED BY <1>1, InvariantHolds, PTL

\* With the assertions on, only the sink is at the distance by which its
\* messages are recognised (SR.cc:512).
THEOREM SinkAloneAtZeroAlways ==
    ASSUME ~ NDEBUG
    PROVE  Spec => []SinkAloneAtZero
<1>1. IdentityInv => SinkAloneAtZero
  BY Zenon DEF IdentityInv, IDFieldsOK, SinkAloneAtZero, Sensors
<1> QED BY <1>1, InvariantHolds, PTL

\* With the assertions on, a sensor keeps the identifier it has taken
\* (SR.cc:519, 591).
THEOREM IDStableAlways ==
    ASSUME ~ NDEBUG
    PROVE  Spec => IDStable
<1>1. IdentityInv /\ [Next]_vars
        => [\A n \in Sensors : Identified(n) => myID'[n] = myID[n]]_vars
  <2> SUFFICES ASSUME IdentityInv, Next
               PROVE  \A n \in Sensors : Identified(n) => myID'[n] = myID[n]
    BY Zenon
  <2> QED BY InvariantStep, Zenon DEF IdentityKept, Sensors
<1> QED BY <1>1, InvariantHolds, PTL DEF Spec, IDStable

-----------------------------------------------------------------------------
(* Discovery implements DistanceTree. *)

\* A node that takes the identifier of distance one more than its sender's
\* joins the tree below that sender.
LEMMA TakeIDJoins ==
    ASSUME ~ NDEBUG, IdentityInv, NEW f \in air, f.to # Sink,
           MayTakeID(f.to), TakeID(f.to, f.pkt.Id), air' = air \ {f},
           UNCHANGED initialized, TypeOK'
    PROVE  Tree!Next
<1>1. PICK n \in Nodes \ {Sink}, m \in Nodes :
        /\ n = f.to /\ m = f.pkt.src
        /\ Identified(m) /\ <<m, n>> \in Link
  BY SenderFacts, Zenon DEF Sensors
<1>2. /\ ~ Identified(n)
      /\ Identified(n)'
      /\ getSinkDistance(myID'[n]) = getSinkDistance(myID[m]) + 1
      /\ \A x \in Nodes \ {n} : myID'[x] = myID[x]
  BY <1>1, TakeIDStep, Zenon
<1>3. Level[n] = -1 /\ Level[m] = getSinkDistance(myID[m])
  BY <1>1, <1>2, Zenon DEF Level
<1>4. Level[m] # -1
  <2>1. myID[m] \in UINT16
    BY Zenon DEF IdentityInv, TypeOK
  <2> QED BY <1>3, <2>1, DistanceType
<1>5. Level' = [Level EXCEPT ![n] = Level[m] + 1]
  <2>1. ASSUME NEW x \in Nodes
        PROVE  Level'[x] = [Level EXCEPT ![n] = Level[m] + 1][x]
    BY <1>1, <1>2, <1>3, Zenon DEF Level, Identified
  <2>2. DOMAIN Level' = Nodes /\ DOMAIN Level = Nodes
    BY Zenon DEF Level
  <2> QED BY <2>1, <2>2, Zenon DEF Level
<1>6. Tree!Join(n)
  BY <1>1, <1>3, <1>4, <1>5, Zenon DEF Tree!Join, Tree!NotJoined
<1> QED BY <1>1, <1>6, Zenon DEF Tree!Next

\* A step that keeps every identifier's presence and distance.
LEMMA LevelUnchanged ==
    ASSUME \A n \in Nodes : /\ Identified(n)' <=> Identified(n)
                            /\ Identified(n) => getSinkDistance(myID'[n])
                                                  = getSinkDistance(myID[n])
    PROVE  Level' = Level
BY Zenon DEF Level

\* The sink's initialisation plants the root.
LEMMA SinkInitIsRoot ==
    ASSUME IdentityInv, SINK_SelfInitialization, TypeOK'
    PROVE  Tree!Next
<1>1. /\ Sink \in Nodes /\ ~ Identified(Sink) /\ Identified(Sink)'
      /\ getSinkDistance(myID'[Sink]) = 0
      /\ \A x \in Nodes \ {Sink} : myID'[x] = myID[x]
  BY SinkInitStep, NodesAssumption, Zenon
<1>2. Level[Sink] = -1
  BY <1>1, Zenon DEF Level
<1>3. Level' = [Level EXCEPT ![Sink] = 0]
  <2>1. ASSUME NEW x \in Nodes
        PROVE  Level'[x] = [Level EXCEPT ![Sink] = 0][x]
    BY <1>1, Zenon DEF Level, Identified
  <2> QED BY <2>1, Zenon DEF Level
<1> QED BY <1>2, <1>3, Zenon DEF Tree!Next, Tree!Root, Tree!NotJoined

\* Every step of discovery is a step of the tree or leaves it alone.
LEMMA TreeStep ==
    ASSUME ~ NDEBUG, IdentityInv, [Next]_vars
    PROVE  Tree!Next \/ Level' = Level
<1>0. TypeOK'
  BY TypeStep, Zenon DEF IdentityInv
<1> USE <1>0
<1>1. CASE myID' = myID
  BY <1>1, LevelUnchanged, Zenon DEF Identified
<1>2. CASE SINK_SelfInitialization
  BY <1>2, SinkInitIsRoot, Zenon
<1>3. ASSUME NEW f \in air, f.to # Sink, TakeIDFromSink(f) \/ TakeIDFromNeighbor(f)
      PROVE  Tree!Next
  BY <1>3, TakeIDJoins, Zenon DEF TakeIDFromSink, TakeIDFromNeighbor
<1>4. ASSUME NEW f \in air, f.to = Sink, GiveArea(f)
      PROVE  Level' = Level
  <2>1. IdentityKept
    BY <1>4, GiveAreaStep, Zenon
  <2>2. \A n \in Nodes : n # Sink => myID'[n] = myID[n]
    BY <1>4, Zenon DEF GiveArea, IdentityInv, TypeOK
  <2>3. Identified(Sink)
    BY NodesAssumption, <1>4, Zenon DEF IdentityInv, FlagsOK
  <2> QED BY <2>1, <2>2, <2>3, LevelUnchanged, Zenon DEF IdentityKept, Identified
<1>5. ASSUME NEW f \in air, f.to = Sink, SINK_handleNicDiscoveryMsg(f)
      PROVE  myID' = myID \/ Level' = Level
  BY <1>4, <1>5, Zenon DEF SINK_handleNicDiscoveryMsg, NoMoreArea, IgnoreAdvert, Abort
<1>6. ASSUME NEW f \in air, f.to # Sink, handleNicDiscoveryMsg(f)
      PROVE  myID' = myID \/ Tree!Next
  BY <1>3, <1>6, Zenon DEF handleNicDiscoveryMsg, AskForArea, NoAreaSlot, IgnoreSink,
     IgnoreNeighbor, RegisterNeighbor, TooFarFromSink, Abort
<1>7. ASSUME NEW n \in Sensors, SelfInitialization(n) PROVE myID' = myID
  BY <1>7 DEF SelfInitialization
<1>8. ASSUME NEW p \in scheduled, SendNic(p) PROVE myID' = myID
  BY <1>8, Zenon DEF SendNic
<1>9. CASE UNCHANGED vars
  BY <1>1, <1>9, Zenon DEF vars
<1> QED BY <1>1, <1>2, <1>5, <1>6, <1>7, <1>8, <1>9, Zenon DEF Next, Receive

\* With the assertions on, discovery implements DistanceTree: its identifiers
\* always describe a tree rooted at the sink that only grows.
THEOREM DiscoveryRefinesTree ==
    ASSUME ~ NDEBUG
    PROVE  Spec => RefinesDistanceTree
<1>1. Init => Tree!Init
  BY Zenon DEF Init, Tree!Init, Tree!NotJoined, Level, Identified
<1>2. IdentityInv /\ [Next]_vars => [Tree!Next]_Level
  BY TreeStep, Zenon
<1> QED BY <1>1, <1>2, InvariantHolds, PTL
        DEF Spec, RefinesDistanceTree, Tree!Spec

=============================================================================
