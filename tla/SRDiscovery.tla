---------------------------- MODULE SRDiscovery ----------------------------
(***************************************************************************)
(* The discovery phase of SR.cc: the sink announces itself, its neighbours *)
(* ask it for an area, it answers each of them with its own identifier in  *)
(* the next area, and every sensor derives its identifier from the first   *)
(* sender that lets it and advertises it once.                             *)
(*                                                                         *)
(* A failed assertion stops the simulation: it is a step that sets halted. *)
(* With NDEBUG the assertions are compiled out and the 16-bit arithmetic   *)
(* of IDBuilder wraps instead.                                             *)
(***************************************************************************)
EXTENDS SRNetwork, IDBuilder

CONSTANTS
    AreaSlots,  \* the positions rand() % 4 may give
    GenSlots    \* the positions rand() % 64 may give

ASSUME SlotsAssumption == AreaSlots \subseteq 0..3 /\ GenSlots \subseteq 0..63

VARIABLES
    initialized,           \* selfInitializationMsg has been handled
    myID,
    neighborList,          \* per node, a map from identifiers to addresses
    NeighborsTable,        \* per node, a map from addresses to Bloom filters
    firstSinkMsg,
    hasSentAdvertMsg,
    sensorStatus,
    numberSensorNotKnown,  \* static
    numberSensorInNetwork, \* static
    areaBitmap,            \* static
    generatorBit0,         \* static: bit 0 of generatorBitmap
    areaNumber,            \* of the sink
    areaSlot,              \* the position a sensor took in areaBitmap
    genSlot,               \* the position a sensor took in generatorBitmap
    scheduled,             \* packets waiting in the event queue to be sent
    air,                   \* frames the receivers have not handled yet
    halted                 \* the assertion that stopped the simulation

vars == <<initialized, myID, neighborList, NeighborsTable, firstSinkMsg,
          hasSentAdvertMsg, sensorStatus, numberSensorNotKnown,
          numberSensorInNetwork, areaBitmap, generatorBit0, areaNumber,
          areaSlot, genSlot, scheduled, air, halted>>

statics == <<numberSensorNotKnown, numberSensorInNetwork, areaBitmap,
             generatorBit0, areaNumber>>

NoSlot  == -1
Running == "no"

\* A Bloom filter is named by the node whose BloomPerso it copies (copies
\* share the bit array); NoBloom is the default-constructed one.
NoBloom == 0

\* The fields of an SRPacket with msgType MSG_DISCOVERY.
Packet(query, from, to, id, filter) ==
    [queryType |-> query, src |-> from, dest |-> to, Id |-> id, bloom |-> filter]

Init ==
    /\ initialized = [n \in Nodes |-> FALSE]
    /\ myID = [n \in Nodes |-> NOT_INITIALIZED]
    /\ neighborList = [n \in Nodes |-> EmptyMap]
    /\ NeighborsTable = [n \in Nodes |-> EmptyMap]
    /\ firstSinkMsg = [n \in Nodes |-> TRUE]
    /\ hasSentAdvertMsg = [n \in Nodes |-> FALSE]
    /\ sensorStatus = [n \in Nodes |-> "STATUS_DISCO"]
    /\ numberSensorNotKnown = 0
    /\ numberSensorInNetwork = 0
    /\ areaBitmap = 0
    /\ generatorBit0 = FALSE
    /\ areaNumber = 0
    /\ areaSlot = [n \in Nodes |-> NoSlot]
    /\ genSlot = [n \in Nodes |-> NoSlot]
    /\ scheduled = {}
    /\ air = {}
    /\ halted = Running

-----------------------------------------------------------------------------
(* Helpers. *)

\* scheduleMsgToSendNic: the packet waits in the event queue; the random
\* delay makes any order of sending possible.
scheduleMsgToSendNic(p) == scheduled' = scheduled \cup {p}

\* Slips of addNeighbor: one of the two overloads' effects without the other.
addNeighborFilterOnly(n, mac, id, filter) ==
    /\ NeighborsTable' = [NeighborsTable EXCEPT ![n] = MapPut(@, mac, filter)]
    /\ UNCHANGED neighborList

addNeighborListOnly(n, mac, id, filter) ==
    /\ UNCHANGED NeighborsTable
    /\ neighborList' = [neighborList EXCEPT ![n] = MapPut(@, id, mac)]

addNeighbor(n, mac, id, filter) ==
    /\ NeighborsTable' = [NeighborsTable EXCEPT ![n] = MapPut(@, mac, filter)]
    /\ neighborList' = [neighborList EXCEPT ![n] = MapPut(@, id, mac)]

\* The test of both slot loops, (bitmap & (1 << pos)) == 1: it can only be
\* true of the lowest bit.
PositionTaken(bit0, shift) == shift = 0 /\ bit0

\* An assertion fails: the simulation stops in the middle of the handler.
Abort(reason) ==
    /\ halted' = reason
    /\ UNCHANGED <<initialized, myID, neighborList, NeighborsTable,
                   firstSinkMsg, hasSentAdvertMsg, sensorStatus, statics,
                   areaSlot, genSlot, scheduled, air>>

\* 1 << pos on a 32-bit int: the shift count of the machine instruction is
\* taken modulo 32, which is what a pos of 32 or more gets.
ShiftCount(pos) == pos % 32

\* scheduleTimeToGenerateRequest: a position that PositionTaken does not
\* refuse, or, after 65 refusals, none.  Adding 1 << pos changes bit 0 only
\* when the shift count is 0.
scheduleTimeToGenerateRequest(n) ==
    \/ \E pos \in GenSlots :
         /\ ~ PositionTaken(generatorBit0, ShiftCount(pos))
         /\ generatorBit0' = (generatorBit0 \/ ShiftCount(pos) = 0)
         /\ genSlot' = [genSlot EXCEPT ![n] = pos]
    \/ /\ \E pos \in GenSlots : PositionTaken(generatorBit0, ShiftCount(pos))
       /\ UNCHANGED <<generatorBit0, genSlot>>

\* Slips of DerivedID: the distance is not incremented; the sender's MAC
\* extension is kept; the area is lost.
DerivedIDSameDistance(n, id) ==
    setSinkDistance(setMACExt(id, n), getSinkDistance(id))

DerivedIDSenderMAC(n, id) == setSinkDistance(id, getSinkDistance(id) + 1)

\* The identifier derived from the sender's.
DerivedID(n, id) ==
    setSinkDistance(setMACExt(id, n), getSinkDistance(id) + 1)

\* Slips of MayTakeID: every sensor may; only one that heard the sink may.
AnyoneMayTakeID(n) == TRUE

NeighborOfSinkMayTakeID(n) == ~ hasSentAdvertMsg[n] /\ ~ firstSinkMsg[n]

\* "have I already sent an advertisement message ?"
MayTakeID(n) == ~ hasSentAdvertMsg[n]

\* A slip of OneMoreKnown: the sensor is not counted as known.
CountForgotten == numberSensorNotKnown

\* numberSensorNotKnown-- on 16 bits.
OneMoreKnown == (numberSensorNotKnown - 1) % 65536

\* Lines 523-545 and 595-617: take an identifier, advertise it, count the
\* sensor as known and choose when to generate requests.
TakeID(n, id) ==
    /\ NDEBUG \/ SinkDistanceAssert(getSinkDistance(id) + 1)
    /\ myID' = [myID EXCEPT ![n] = DerivedID(n, id)]
    /\ scheduleMsgToSendNic(Packet("none", n, BROADCAST, DerivedID(n, id), n))
    /\ hasSentAdvertMsg' = [hasSentAdvertMsg EXCEPT ![n] = TRUE]
    /\ numberSensorNotKnown' = OneMoreKnown
    /\ sensorStatus' = [sensorStatus EXCEPT ![n] = "STATUS_NORMAL"]
    /\ scheduleTimeToGenerateRequest(n)

-----------------------------------------------------------------------------
(* Self messages. *)

\* Every node schedules its initialisation for 1 s, in the order in which the
\* modules are created and given their addresses; the simulator serves events
\* of equal time in that order.
MyTurnToInitialize(n) ==
    ~ initialized[n] /\ \A m \in Nodes : m < n => initialized[m]

\* handleSelfMsg on selfInitializationMsg.
SelfInitialization(n) ==
    /\ MyTurnToInitialize(n)
    /\ initialized' = [initialized EXCEPT ![n] = TRUE]
    /\ numberSensorNotKnown' = (numberSensorNotKnown + 1) % 65536
    /\ numberSensorInNetwork' = (numberSensorInNetwork + 1) % 65536
    /\ UNCHANGED <<myID, neighborList, NeighborsTable, firstSinkMsg,
                   hasSentAdvertMsg, sensorStatus, areaBitmap, generatorBit0,
                   areaNumber, areaSlot, genSlot, scheduled, air, halted>>

\* The identifier of the sink, in area 0 at distance 0.
SinkID(my_id) == setArea(setSinkDistance(setMACExt(my_id, Sink), 0), 0)

\* The DISCO-INIT packet.
AnnounceSink(id) ==
    /\ myID' = [myID EXCEPT ![Sink] = id]
    /\ scheduleMsgToSendNic(Packet("Q_REQUEST", Sink, BROADCAST, id, Sink))

\* SINK_handleSelfMsg on selfInitializationMsg.  The iDBuilder starts with an
\* uninitialised my_id; the three setters overwrite all of it.
SINK_SelfInitialization ==
    /\ MyTurnToInitialize(Sink)
    /\ initialized' = [initialized EXCEPT ![Sink] = TRUE]
    /\ \E my_id \in {0, 65535} : AnnounceSink(SinkID(my_id))
    /\ sensorStatus' = [sensorStatus EXCEPT ![Sink] = "STATUS_NORMAL"]
    /\ UNCHANGED <<neighborList, NeighborsTable, firstSinkMsg,
                   hasSentAdvertMsg, statics, areaSlot, genSlot, air, halted>>

\* handleSelfMsg and SINK_handleSelfMsg on a packet scheduled by the node.
\* Every node initialises itself at 1 s, no packet is sent before 7 s.
SendNic(p) ==
    /\ \A m \in Nodes : initialized[m]
    /\ scheduled' = scheduled \ {p}
    /\ \E delivered \in Deliveries(p) : air' = air \cup delivered
    /\ UNCHANGED <<initialized, myID, neighborList, NeighborsTable,
                   firstSinkMsg, hasSentAdvertMsg, sensorStatus, statics,
                   areaSlot, genSlot, halted>>

-----------------------------------------------------------------------------
(* handleNicDiscoveryMsg: sensor f.to receives packet f.pkt. *)

FromSink(p) == getSinkDistance(p.Id) = 0

\* 1 << pos, for the four positions of areaBitmap.
Bit(pos) == <<1, 2, 4, 8>>[pos + 1]

\* Lines 562-573: a position that the loop accepts.
TakeAreaSlot(n, pos) ==
    /\ ~ PositionTaken(areaBitmap % 2 = 1, pos)
    /\ areaBitmap' = (areaBitmap + Bit(pos)) % 65536
    /\ areaSlot' = [areaSlot EXCEPT ![n] = pos]

\* A slip of SinkIsKnown: the flag is not cleared.
SinkStaysUnknown(n) == UNCHANGED firstSinkMsg

\* firstSinkMsg = false
SinkIsKnown(n) == firstSinkMsg' = [firstSinkMsg EXCEPT ![n] = FALSE]

\* The first message of the sink: register it and ask for an area.
AskForArea(f) ==
    LET n == f.to  p == f.pkt IN
    /\ FromSink(p) /\ firstSinkMsg[n]
    /\ addNeighbor(n, p.src, p.Id, p.bloom)
    /\ \E pos \in AreaSlots : TakeAreaSlot(n, pos)
    /\ scheduleMsgToSendNic(Packet("Q_REQUEST", n, p.src, myID[n], n))
    /\ SinkIsKnown(n)
    /\ air' = air \ {f}
    /\ UNCHANGED <<initialized, myID, hasSentAdvertMsg, sensorStatus,
                   numberSensorNotKnown, numberSensorInNetwork, generatorBit0,
                   areaNumber, genSlot, halted>>

\* The same message when every drawn position is refused: ASSERT(false).
NoAreaSlot(f) ==
    /\ FromSink(f.pkt) /\ firstSinkMsg[f.to]
    /\ ~ NDEBUG
    /\ \E pos \in AreaSlots : PositionTaken(areaBitmap % 2 = 1, pos)
    /\ Abort("ASSERT(false)")

\* Tracing the sender's entry with operator[] inserts a default address when
\* the identifier is not a key; nothing happens when tracing is off.
TraceNeighbor(n, id) ==
    neighborList' \in
        {neighborList,
         IF id \in DOMAIN neighborList[n] THEN neighborList
         ELSE [neighborList EXCEPT ![n] = MapPut(@, id, UNSPECIFIED)]}

\* A later message of the sink, for a sensor that has advertised itself.
IgnoreSink(f) ==
    /\ FromSink(f.pkt) /\ ~ firstSinkMsg[f.to]
    /\ ~ MayTakeID(f.to)
    /\ TraceNeighbor(f.to, f.pkt.Id)
    /\ air' = air \ {f}
    /\ UNCHANGED <<initialized, myID, NeighborsTable, firstSinkMsg,
                   hasSentAdvertMsg, sensorStatus, statics, areaSlot, genSlot,
                   scheduled, halted>>

\* A later message of the sink, for a sensor with no identifier.
TakeIDFromSink(f) ==
    /\ FromSink(f.pkt) /\ ~ firstSinkMsg[f.to]
    /\ MayTakeID(f.to)
    /\ TraceNeighbor(f.to, f.pkt.Id)
    /\ TakeID(f.to, f.pkt.Id)
    /\ air' = air \ {f}
    /\ UNCHANGED <<initialized, NeighborsTable, firstSinkMsg,
                   numberSensorInNetwork, areaBitmap, areaNumber, areaSlot,
                   halted>>

\* A neighbour that is registered already.
IgnoreNeighbor(f) ==
    /\ ~ FromSink(f.pkt)
    /\ f.pkt.Id \in DOMAIN neighborList[f.to]
    /\ air' = air \ {f}
    /\ UNCHANGED <<initialized, myID, neighborList, NeighborsTable,
                   firstSinkMsg, hasSentAdvertMsg, sensorStatus, statics,
                   areaSlot, genSlot, scheduled, halted>>

\* A new neighbour, for a sensor that has advertised itself.
RegisterNeighbor(f) ==
    /\ ~ FromSink(f.pkt)
    /\ f.pkt.Id \notin DOMAIN neighborList[f.to]
    /\ ~ MayTakeID(f.to)
    /\ addNeighbor(f.to, f.pkt.src, f.pkt.Id, f.pkt.bloom)
    /\ air' = air \ {f}
    /\ UNCHANGED <<initialized, myID, firstSinkMsg, hasSentAdvertMsg,
                   sensorStatus, statics, areaSlot, genSlot, scheduled, halted>>

\* A new neighbour, for a sensor with no identifier.
TakeIDFromNeighbor(f) ==
    /\ ~ FromSink(f.pkt)
    /\ f.pkt.Id \notin DOMAIN neighborList[f.to]
    /\ MayTakeID(f.to)
    /\ addNeighbor(f.to, f.pkt.src, f.pkt.Id, f.pkt.bloom)
    /\ TakeID(f.to, f.pkt.Id)
    /\ air' = air \ {f}
    /\ UNCHANGED <<initialized, firstSinkMsg, numberSensorInNetwork,
                   areaBitmap, areaNumber, areaSlot, halted>>

\* assert(sinkDistance < 16) fails in setSinkDistance.
TooFarFromSink(f) ==
    /\ ~ FromSink(f.pkt)
    /\ f.pkt.Id \notin DOMAIN neighborList[f.to]
    /\ MayTakeID(f.to)
    /\ ~ NDEBUG /\ ~ SinkDistanceAssert(getSinkDistance(f.pkt.Id) + 1)
    /\ Abort("assert(sinkDistance < 16)")

-----------------------------------------------------------------------------
(* SINK_handleNicDiscoveryMsg: the sink receives packet f.pkt. *)

\* A slip of NextArea: the area number does not advance.
SameArea(area) == area

\* areaNumber++ on 16 bits.
NextArea(area) == (area + 1) % 65536

GiveArea(f) ==
    LET p  == f.pkt
        id == setArea(myID[Sink], areaNumber)
    IN
    /\ p.queryType = "Q_REQUEST"
    /\ NDEBUG \/ AreaAssert(areaNumber)
    /\ addNeighbor(Sink, p.src, p.Id, p.bloom)
    /\ myID' = [myID EXCEPT ![Sink] = id]
    /\ areaNumber' = NextArea(areaNumber)
    /\ scheduleMsgToSendNic(Packet("Q_REPLY", Sink, p.src, id, NoBloom))
    /\ air' = air \ {f}
    /\ UNCHANGED <<initialized, firstSinkMsg, hasSentAdvertMsg, sensorStatus,
                   numberSensorNotKnown, numberSensorInNetwork, areaBitmap,
                   generatorBit0, areaSlot, genSlot, halted>>

\* assert(area < 4) fails in setArea.
NoMoreArea(f) ==
    /\ f.pkt.queryType = "Q_REQUEST"
    /\ ~ NDEBUG /\ ~ AreaAssert(areaNumber)
    /\ Abort("assert(area < 4)")

\* An advertisement (its queryType was never set).
IgnoreAdvert(f) ==
    /\ f.pkt.queryType # "Q_REQUEST"
    /\ air' = air \ {f}
    /\ UNCHANGED <<initialized, myID, neighborList, NeighborsTable,
                   firstSinkMsg, hasSentAdvertMsg, sensorStatus, statics,
                   areaSlot, genSlot, scheduled, halted>>

-----------------------------------------------------------------------------
handleNicDiscoveryMsg(f) ==
    \/ AskForArea(f)
    \/ NoAreaSlot(f)
    \/ IgnoreSink(f)
    \/ TakeIDFromSink(f)
    \/ IgnoreNeighbor(f)
    \/ RegisterNeighbor(f)
    \/ TakeIDFromNeighbor(f)
    \/ TooFarFromSink(f)

SINK_handleNicDiscoveryMsg(f) == GiveArea(f) \/ NoMoreArea(f) \/ IgnoreAdvert(f)

\* The copies of a frame are the same packet: they are taken in a fixed order.
NextCopy(f) == [f EXCEPT !.copy = @ + 1] \notin air

Receive(f) ==
    IF f.to = Sink THEN SINK_handleNicDiscoveryMsg(f)
                   ELSE handleNicDiscoveryMsg(f)

Next ==
    /\ halted = Running
    /\ \/ \E n \in Sensors : SelfInitialization(n)
       \/ SINK_SelfInitialization
       \/ \E p \in scheduled : SendNic(p)
       \/ \E f \in air : NextCopy(f) /\ Receive(f)

Spec == Init /\ [][Next]_vars

\* The event queue of the simulator is served in time order, so nothing that
\* is scheduled or received waits for ever.
FairSpec == Spec /\ WF_vars(Next)

-----------------------------------------------------------------------------
(* Properties. *)

Identified(n) == myID[n] # NOT_INITIALIZED

Packets ==
    [queryType : {"none", "Q_REQUEST", "Q_REPLY"}, src : Nodes,
     dest : Nodes \cup {BROADCAST}, Id : UINT16, bloom : Nodes \cup {NoBloom}]

Frames == [to : Nodes, copy : 1..MaxCopies, pkt : Packets]

TablesOK ==
    /\ DOMAIN neighborList = Nodes
    /\ \A n \in Nodes : /\ DOMAIN neighborList[n] \subseteq UINT16
                        /\ \A k \in DOMAIN neighborList[n] :
                             neighborList[n][k] \in Nodes \cup {UNSPECIFIED}
    /\ DOMAIN NeighborsTable = Nodes
    /\ \A n \in Nodes : /\ DOMAIN NeighborsTable[n] \subseteq Nodes
                        /\ \A m \in DOMAIN NeighborsTable[n] :
                             NeighborsTable[n][m] \in Nodes \cup {NoBloom}

\* Every variable of SR.h keeps the type it is declared with, and the maps
\* hold addresses and filters of nodes.
TypeOK ==
    /\ initialized \in [Nodes -> BOOLEAN]
    /\ myID \in [Nodes -> UINT16]
    /\ TablesOK
    /\ firstSinkMsg \in [Nodes -> BOOLEAN]
    /\ hasSentAdvertMsg \in [Nodes -> BOOLEAN]
    /\ sensorStatus \in [Nodes -> {"STATUS_DISCO", "STATUS_NORMAL"}]
    /\ numberSensorNotKnown \in UINT16
    /\ numberSensorInNetwork \in UINT16
    /\ areaBitmap \in UINT16
    /\ generatorBit0 \in BOOLEAN
    /\ areaNumber \in UINT16
    /\ areaSlot \in [Nodes -> AreaSlots \cup {NoSlot}]
    /\ genSlot \in [Nodes -> GenSlots \cup {NoSlot}]
    /\ scheduled \subseteq Packets
    /\ air \subseteq Frames

\* The distance field of an identifier is never smaller than the number of
\* hops that separate its owner from the sink (SR.cc:525, 597), whatever is
\* lost, duplicated or reordered.
DistanceSound ==
    \A n \in Nodes : Identified(n) => Hops[n] <= getSinkDistance(myID[n])

\* "The unique identifier of a node on the whole network" (SR.h:37): no two
\* identified nodes hold the same identifier, even though each derives it
\* from a message alone.
UniqueIDs ==
    \A m, n \in Nodes :
        m # n /\ Identified(m) /\ Identified(n) => myID[m] # myID[n]

\* What addNeighbor has stored is genuine (SR.cc:186-198): an entry of
\* neighborList names a node that this node can hear, under the identifier
\* that node sent, apart from the unspecified addresses made by tracing
\* (SR.cc:517); and the filter kept for a neighbour is that neighbour's own,
\* never the uninitialised one of a DISCO-REPLY (SR.cc:1028-1032).
NeighborsGenuine ==
    \A n \in Nodes :
        /\ \A k \in DOMAIN neighborList[n] :
             LET m == neighborList[n][k] IN
             m # UNSPECIFIED => /\ <<m, n>> \in Link
                                /\ k # NOT_INITIALIZED => getMACExt(k) = m
        /\ \A m \in DOMAIN NeighborsTable[n] : NeighborsTable[n][m] = m

\* An identified sensor has registered a neighbour that is one hop closer to
\* the sink, and below the first level it lies in that neighbour's area.
ParentKnown ==
    \A n \in Sensors : Identified(n) =>
        \E k \in DOMAIN neighborList[n] :
            LET m == neighborList[n][k] IN
            /\ m # UNSPECIFIED
            /\ getSinkDistance(myID[n]) = getSinkDistance(myID[m]) + 1
            /\ m # Sink => myID[m] = k /\ getArea(myID[n]) = getArea(k)

\* The sensors at distance one are in different areas: the sink answers each
\* request with the next area (SR.cc:1021-1024).
AreasDistinct ==
    \A m, n \in Sensors :
        /\ m # n /\ Identified(m) /\ Identified(n)
        /\ getSinkDistance(myID[m]) = 1 /\ getSinkDistance(myID[n]) = 1
        => getArea(myID[m]) # getArea(myID[n])

\* numberSensorNotKnown, incremented by one handler and decremented by two
\* others, counts the initialised sensors that have no identifier.
NotKnownExact ==
    numberSensorNotKnown =
        Cardinality({n \in Sensors : initialized[n] /\ ~ Identified(n)})

\* An unspecified address in a sensor's neighborList comes after the sink in
\* the order of the map, so a traversal that stops at the first usable
\* neighbour (SR.cc:774-782) never reaches it.
UnspecifiedShadowed ==
    \A n \in Sensors : \A k \in DOMAIN neighborList[n] :
        neighborList[n][k] = UNSPECIFIED =>
            \E j \in DOMAIN neighborList[n] : j < k /\ neighborList[n][j] = Sink

\* "As long as that position is already set, I chose another one" (SR.cc:343,
\* 566): no two sensors hold the same position of areaBitmap, whose requests
\* would leave in the same second, or of generatorBitmap, whose requests would
\* be generated in the same slot.
PositionsExclusive ==
    \A m, n \in Sensors : m # n =>
        /\ areaSlot[m] # NoSlot => areaSlot[m] # areaSlot[n]
        /\ genSlot[m] # NoSlot => genSlot[m] # genSlot[n]

\* A sensor that has an identifier keeps it: no later message of the sink or
\* of a neighbour replaces it (SR.cc:519, 591).
IDStable ==
    [][\A n \in Sensors : Identified(n) => myID'[n] = myID[n]]_vars

\* The level of a node in the tree is the distance field of its identifier.
Level == [n \in Nodes |-> IF Identified(n) THEN getSinkDistance(myID[n]) ELSE -1]

Tree == INSTANCE DistanceTree WITH level <- Level

\* Discovery builds a tree: with its assertions on, each sensor joins once,
\* one level below a node it hears that has joined already.
RefinesDistanceTree == Tree!Spec

Quiescent == scheduled = {} /\ air = {} /\ \A n \in Nodes : initialized[n]

\* Only the sink is ever at distance 0, the value by which its messages are
\* recognised (SR.cc:512): the four bits of the distance never wrap.
SinkAloneAtZero ==
    \A n \in Sensors : Identified(n) => getSinkDistance(myID[n]) # 0

\* When no frame is lost and discovery has come to rest, every node has
\* stored the filter of every node it hears.
NeighborsComplete ==
    ~ Lossy /\ Quiescent =>
        \A n \in Nodes : \A m \in Nodes :
            <<m, n>> \in Link => m \in DOMAIN NeighborsTable[n]

\* When no frame is lost, discovery comes to rest with an identifier at every
\* sensor, unless an assertion has stopped the simulation.
DiscoveryCompletes ==
    <>[](\/ halted # Running
         \/ Quiescent /\ \A n \in Sensors : Identified(n))

-----------------------------------------------------------------------------
(* The inductive invariant from which the safety properties are proved. *)

\* The identifier of a node names the node, and says 0 hops of the sink only.
IDFieldsOK ==
    \A n \in Nodes : Identified(n) =>
        /\ getMACExt(myID[n]) = n
        /\ (getSinkDistance(myID[n]) = 0 <=> n = Sink)

\* The flags say who has an identifier; frames fly once all are initialised.
FlagsOK ==
    /\ \A n \in Sensors : hasSentAdvertMsg[n] <=> Identified(n)
    /\ initialized[Sink] <=> Identified(Sink)
    /\ air # {} => \A n \in Nodes : initialized[n]

\* A packet asks the sink for an area, or it carries an identifier of its
\* sender that is as far from the sink as the sender still is.
PacketOK(p) ==
    \/ p.queryType = "Q_REQUEST" /\ p.src # Sink /\ p.dest = Sink
    \/ /\ Identified(p.src)
       /\ getMACExt(p.Id) = p.src
       /\ getSinkDistance(p.Id) = getSinkDistance(myID[p.src])
       /\ p.src # Sink => p.Id = myID[p.src]

\* Packets are sound wherever they are, and frames follow the links.
MessagesOK ==
    /\ \A p \in scheduled : PacketOK(p)
    /\ \A f \in air : /\ PacketOK(f.pkt)
                      /\ <<f.pkt.src, f.to>> \in Link
                      /\ f.pkt.dest # BROADCAST => f.to = f.pkt.dest

\* While the assertions are on, what nodes hold and what messages say about
\* them agree (SR.cc:503-622, 1004-1041).
IdentityInv ==
    TypeOK /\ IDFieldsOK /\ FlagsOK /\ MessagesOK /\ DistanceSound

InTransit == scheduled \cup {f.pkt : f \in air}

\* The packets that the handlers build.
Announcement == Packet("Q_REQUEST", Sink, BROADCAST, SinkID(0), Sink)

Advert(n) == Packet("none", n, BROADCAST, myID[n], n)

IsRequest(p) == p.queryType = "Q_REQUEST" /\ p.src # Sink

IsReply(p) == p.queryType = "Q_REPLY"

\* Whoever asks the sink, or is answered by it, has heard it announced; only
\* a reply of the sink carries another filter than that of its sender.
KindOK(p) ==
    \/ p = Announcement
    \/ /\ IsRequest(p) /\ p.dest = Sink
       /\ ~ firstSinkMsg[p.src]
       /\ p.Id # NOT_INITIALIZED => getMACExt(p.Id) = p.src
       /\ p.bloom = p.src
    \/ /\ IsReply(p) /\ p.src = Sink
       /\ p.dest \in Sensors /\ ~ firstSinkMsg[p.dest]
    \/ p.src # Sink /\ p = Advert(p.src)

\* The sink is announced once, and every sensor hears of it once.
AnnouncedOnce ==
    /\ ~ initialized[Sink] => Announcement \notin scheduled
    /\ ~ initialized[Sink] \/ Announcement \in scheduled =>
         /\ \A n \in Nodes : firstSinkMsg[n]
         /\ \A f \in air : f.pkt # Announcement
    /\ \A f \in air : f.pkt = Announcement => firstSinkMsg[f.to] /\ f.copy = 1

KindsOK == (\A p \in InTransit : KindOK(p)) /\ AnnouncedOnce

\* Node n may hold address m under identifier k: an unspecified address under
\* a later identifier of the sink, or a node it hears, which it has a filter of.
EntryOK(n, k, m) ==
    IF m = UNSPECIFIED
    THEN n # Sink /\ ~ firstSinkMsg[n] /\ getMACExt(k) = Sink /\ k # SinkID(0)
    ELSE /\ <<m, n>> \in Link /\ m \in DOMAIN NeighborsTable[n]
         /\ n # Sink \/ k # NOT_INITIALIZED => getMACExt(k) = m
         /\ n # Sink /\ m # Sink => Identified(n)

\* A sensor that has heard of the sink holds it under the identifier announced.
SinkHeld(n) ==
    SinkID(0) \in DOMAIN neighborList[n] /\ neighborList[n][SinkID(0)] = Sink

\* The tables hold what was heard.
EntriesOK ==
    \A n \in Nodes :
        /\ \A k \in DOMAIN neighborList[n] : EntryOK(n, k, neighborList[n][k])
        /\ \A m \in DOMAIN NeighborsTable[n] : NeighborsTable[n][m] = m
        /\ n # Sink /\ ~ firstSinkMsg[n] => SinkHeld(n)

\* A sensor has an identified neighbour as in ParentKnown.
ParentsOK ==
    \A n \in Sensors : Identified(n) =>
        \E k \in DOMAIN neighborList[n] :
            LET m == neighborList[n][k] IN
            /\ m # UNSPECIFIED /\ Identified(m)
            /\ getSinkDistance(myID[n]) = getSinkDistance(myID[m]) + 1
            /\ m # Sink => myID[m] = k /\ getArea(myID[n]) = getArea(k)

\* An area below areaNumber has been given to one sensor, in one reply.
AreasOK ==
    /\ areaNumber <= 4
    /\ \A p \in InTransit : IsReply(p) =>
         /\ getArea(p.Id) < areaNumber
         /\ \A q \in InTransit :
              IsReply(q) /\ getArea(q.Id) = getArea(p.Id) => q.dest = p.dest
    /\ \A n \in Sensors : Identified(n) /\ getSinkDistance(myID[n]) = 1 =>
         /\ getArea(myID[n]) < areaNumber
         /\ \A p \in InTransit :
              IsReply(p) /\ getArea(p.Id) = getArea(myID[n]) => p.dest = n
    /\ AreasDistinct

\* A bit that a position stands for is set when a sensor has taken it.
SlotsOK ==
    /\ \A n \in Sensors : areaSlot[n] = 0 => areaBitmap % 2 = 1
    /\ \A n \in Sensors : genSlot[n] \in {0, 32} => generatorBit0

\* The counter is exact, and only initialised sensors have taken identifiers.
KnownOK ==
    /\ \A n \in Sensors : Identified(n) => initialized[n]
    /\ NotKnownExact

\* When no frame is lost, the sink's announcement is on its way to everybody
\* who has not heard of it.
AnnounceProgress ==
    initialized[Sink] =>
        \/ Announcement \in scheduled
        \/ \A n \in Hearers(Sink) :
             Frame(n, 1, Announcement) \in air \/ ~ firstSinkMsg[n]

\* The request of a sensor that has heard of the sink is on its way to the
\* sink, or the sink has registered the sensor and its reply is on its way.
AreaProgress(n) ==
    ~ firstSinkMsg[n] /\ <<n, Sink>> \in Link =>
        \/ \E p \in scheduled : IsRequest(p) /\ p.src = n
        \/ \E f \in air : IsRequest(f.pkt) /\ f.pkt.src = n /\ f.to = Sink
        \/ /\ n \in DOMAIN NeighborsTable[Sink]
           /\ \/ Identified(n)
              \/ \E p \in scheduled : IsReply(p) /\ p.dest = n
              \/ \E f \in air : IsReply(f.pkt) /\ f.to = n

\* The advertisement of an identified sensor is on its way to the sensors
\* that have not registered it.
AdvertProgress(m) ==
    Identified(m) =>
        \/ Advert(m) \in scheduled
        \/ \A n \in Hearers(m) \ {Sink} :
             \/ Frame(n, 1, Advert(m)) \in air
             \/ m \in DOMAIN NeighborsTable[n] /\ Identified(n)

ProgressOK ==
    AnnounceProgress /\ \A n \in Sensors : AreaProgress(n) /\ AdvertProgress(n)

\* While the assertions are on, what messages, tables and counters say about
\* each other agrees (SR.cc:503-622, 1004-1041).
DiscoveryInv ==
    /\ IdentityInv
    /\ KindsOK
    /\ EntriesOK
    /\ ParentsOK
    /\ AreasOK
    /\ SlotsOK
    /\ KnownOK
    /\ ~ Lossy => ProgressOK

=============================================================================
