# Verification of srwsn: semantic routing in a wireless sensor network

srwsn is an OMNeT++/INET simulation of a sensor network in which requests are
routed by what nodes measure. This directory holds TLA+ models of its protocol
code, configurations that check them with TLC, and proofs checked by TLAPS.
Paths such as `SR.cc:687` are relative to `src/inet/src/srwsn/networklayer/`;
`MAC:` stands for `src/inet/src/srwsn/linklayer/mac/srwsn802154MAC.cc` and `PHY:` for
`src/inet/src/underTest2/underTest/linklayer/ieee802154/phyLayer/Ieee802154Phy.cc`.

## The system

| part | state | operations | what makes it hard |
|---|---|---|---|
| Discovery (`SR.cc`) | identifier, neighbour lists and filters per node; static counters and bitmaps shared by all nodes | self initialisation, sink announcement, DISCO-REQUEST, DISCO-REPLY, advertisement | every message is sent after a random delay, may be lost, repeated or reordered, and nothing is retried |
| Identifiers (`IDBuilder`) | 16 bits: MAC extension (10), distance to the sink (4), area (2) | getters and setters with assertions | overflow; assertions vanish in release builds |
| Requests (`SR.cc`) | current stamp, `RecordTable`, learned peers | generate, forward, flood, record, answer, pass the reply back | requests of several sensors overlap; maps are read with `operator[]`, which inserts |
| TableRARE | counts of answers per query and peer, similarity of queries, a retry counter | `UpdateTable`, `LearningPeerSelection`, `increaseSimilarity` | recursion, random choice, state that survives a call |
| Bloom filters | one bit array per node, shared by the copies | `Add`, `Check`, `AddFilter`, `GetNextHop` | arrays are not cleared; false positives |
| GTS allocation (MAC) | device and GTS lists, final CAP slot; per device start slot and last superframe heard | beacon, association, GTS request | lost beacons; unsigned arithmetic; seven descriptors |
| GTS transfer (MAC) | timers, pending data, ACK state, duplicate list | GTS timers, data, ACK, timeout, IFS, superframe end | timers that race each other and frames on the air |
| CSMA-CA and direct transfer (MAC) | back-off state, task step, pending ACK, timers, duplicate list | back-off, CCA, transmission, ACK, timeout, beacon, superframe end | an ACK interrupts CSMA-CA at any step; late ACKs; missed beacons; answers of the radio to requests that are out of date |
| Radio (PHY) | state, pending state, turnaround, frame being received, noise | state requests, CCA, sending, receiving | a request may be delayed by a frame or a turnaround, and cancels the one before |
| Alerts (`SR.cc`) | | | unreachable: `isAlertAllowed` returns false |

SR sits on a network interface. The example networks use INET's 802.11 NIC or
the 802.15.4 MAC of this repository. `SRNetwork` abstracts both to what SR can
observe: any frame may be lost, a unicast may be handed up more than once,
frames arrive in any order.

## Modules

| module | role |
|---|---|
| `SRTypes` | `std::map` as a function with put and get, the unspecified address |
| `SRNetwork` | topology, loss and duplication (external) |
| `IDBuilder` | the identifier's fields with their 16-bit arithmetic |
| `SRDiscovery` | discovery; one action per handler, a failed assertion sets `halted` |
| `DistanceTree` | what discovery promises: each node joins once, one level below a node it hears that has joined |
| `SRRequest`, `SRRequestSettled` | the request phase, over tables of which only what discovery guarantees is assumed |
| `RAREPeers`, `TableRARE` | the pure operators of TableRARE, and the table with its recursive selection taken call by call |
| `BloomTable` | filters and the table of neighbours' filters |
| `GTSTiming` | durations in symbols, length of a GTS in slots |
| `GTSAllocation` | beacons, association, GTS requests |
| `GTSTransfer` | data in GTSs, on top of `GTSAllocation`, in symbol time |
| `RadioPHY` | the radio: each handler as an operator from its members to its members and messages |
| `SlottedCSMA` | slotted CSMA-CA, likewise |
| `DirectMac` | the other handlers of the MAC for data in the CAP |
| `DirectTransfer` | MACs and radios of a star, the messages between them, and the channel |
| `PacketTransfer` | what the MAC promises in both modes: a packet is indicated at most once, and confirmed only if the receiver has it |
| `*Proofs` | theorems about the module of that name; `SRTablesProofs` and `SRCompletenessProofs` continue `SRDiscoveryProofs` |
| `MC*` | topologies, payloads and words for TLC |

Variables and operators keep the names of the code. Definitions called a slip
are plausible mistakes in one definition; they are used by no specification and
serve to test that a property notices the mistake.

### How actions correspond to code

Handlers are atomic, as in the simulator: an event is handled to its end before
the next one. A packet that `scheduleMsgToSendNic` gives to the event queue
waits in `scheduled` (`sending` in `SRRequest`), and because its delay is random
any order of sending is possible. `SendNic` moves it to the frames that
receivers will handle. `Receive` and `handleNicNormalMsg` are the handlers.
`LearningPeerSelection` recurses, so a call is a series of steps; only its own
steps can run during a call.

In `GTSTransfer` a timer is the moment at which it fires. `Tick` moves time to
the next such moment when nothing is left to do at this one. Events of the same
moment are taken in any order, which includes the kernel's.

`DirectTransfer` keeps the kernel's order where it matters. MAC and radio talk by
messages without delay, so a handler of one finds the other as it was left by
the messages before. `queue` holds the messages of a node in the order of sending.
Timers that are due come first (they were scheduled earlier), then these
messages, then frames, which need time to propagate. Timers of one node that are
due at the same moment come in any order. Nodes do not affect each other within a
moment before a frame starts, so `Turn` lets them act in one fixed order. A
handler is an operator on the record of its node's members (`mac[n]`, `phy[n]`);
`MacTimer`, `MacMessage`, `RadioTimer` and `RadioMessage` apply it and put what it
has sent into the queue. A failed assertion sets `error`, and so do reading a
frame that has been deleted and an error of the radio; after that nothing happens.

### Abstractions

- A node is the last byte of its MAC address. Numeric order stands for the order
  in which the maps iterate.
- The words of a Bloom filter are the sets of positions that the hashes give;
  in TLC's instance every word shares a bit with another.
- HUMIDITY is the only query SR asks (`SR.cc:860`), so `SRRequest` has one query;
  `TableRARE` is checked with three.
- A stamp is constant for a sensor, because it generates its requests LIVETIME
  apart and stamps them modulo LIVETIME (`SR.cc:847`, `899`).
- Tables in `SRRequestSettled` are constants. Discovery and requests overlapping
  in time is on the plan.
- In `GTSTransfer` propagation takes no time, the beacon order exceeds the
  superframe order, an ACK starts 12 symbols after its data, and only GTS traffic
  is on the channel. Sequence numbers do not wrap within `MaxData`. A device turns its
  receiver on ahead of each beacon (`handleBcnRxTimer`), and leaves it on when it
  misses the beacon.
- In `DirectTransfer` the superframe has no GTSs, the receiver stays on when idle
  (`macRxOnWhenIdle`), battery life extension is off, and time is counted from the
  last beacon. A frame reaches all nodes in `Hears` at sufficient strength.
  Whether a frame survives another one that overlaps it depends on signal strength,
  so it may (`capture`). `fades` are the nodes that may miss a frame anyway.
- Cutting one's own frame short (`PHY:667`) is treated as an error of the radio;
  `NoError` shows that it does not happen.
- An ACK meets an unassigned `i` in the duplicate test (`MAC:674`). In
  `DirectTransfer` every ACK may be dropped by it. In `GTSTransfer` the settings with
  losses include that outcome; the reliable ones do not.
- History variables (`handled`, `answered`, `overlapped`, `faults`, `delivered`,
  `succeeded`, `deaf`, `word`, `asked`) are read by properties only, apart from bounds.

## Runs

The properties are explained where they are defined.

| run | instance | properties |
|---|---|---|
| `discovery_lossy` | sink and two sensors, all in range of each other; frames lost, unicasts also delivered twice | `DistanceSound`, `ParentKnown`, `NotKnownExact`, `NeighborsGenuine`, `UnspecifiedShadowed`, `IDStable`, `RefinesDistanceTree`, `AreasDistinct` |
| `discovery_reliable` | sink, two neighbours, one sensor behind them; no losses | `UniqueIDs`, `DiscoveryInv`, `NeighborsComplete`, `DiscoveryCompletes` |
| `discovery_line` | a line of 17, one hop more than four bits count; one request delivered up to five times, once more than there are areas | `SinkAloneAtZero` |
| `same_position` | sink and two sensors; expected to be violated, see below | `PositionsExclusive` |
| `rare` | two peers, three queries, two of them related | `HumidityEnds`, `SelectionSound`, `NothingUnlearned` |
| `requests` | two requesters, one request each at any moment; one frame may be lost or repeated | `RequestInv`, `RepliesFindTheWay`, `NoReplyCycle`, `FallsSilent`, `RepliesArrive`, `ProviderAnswers` |
| `repeat_dropped` | one requester; expected to be violated, see below | `OnlyCopiesDropped` |
| `copy_passed_on` | two requesters; expected to be violated, see below | `CopiesDestroyed` |
| `bloom_shared` | three nodes, any initial bits, words that share bits | `NoFalseNegative`, `StaysFound` |
| `transfer` | seven networks of one to four devices, with a receive GTS, with and without losses | `CapBeforeGTS`, `GTSsDisjoint`, `GTSsAgree`, `NoCollision`, `NoTimeout`, `TaskInItsGts`, `TimingErrors`, `RefinesTransfer`, `TaskEnds` |
| `direct` | two devices and the coordinator in one cell: two senders, both directions, or a fading channel | `NoError`, `AckUndisturbed`, `TransactionsEndInCap`, `RefinesTransfer`, `TaskEnds` |
| `second_frame` | two senders, one with a long frame; expected to be violated, see below | `AckBeforeNextData` |

Requests. Nothing keeps requests apart, so the model generates them at any moment.
`RequestInv`, `RepliesFindTheWay` and `ProviderAnswers` hold however they overlap.
`NoReplyCycle`, `FallsSilent` and `RepliesArrive` are about behaviours in which no
request was generated while another was under way (`overlapped`), and need this: the
stamp that recognises a copy is that of the last request only. With overlap, records
of one requester may form a cycle, and two requests may be passed around for ever.

GTS transfer. `TimingErrors` says when the simulation stops. Outside of its GTS the
coordinator never gets data that it must not get at this time (`MAC:573-587`). A
device with a receive GTS that misses a beacon does: its receiver is on since
`handleBcnRxTimer`, its timers for the superframe are not started, and the data that
the coordinator sends in the GTS raises "the device is not supposed to receive this DATA
pkt at this time!". Both `RefinesTransfer` say that a transfer implements
`PacketTransfer`: retries, lost and late ACKs and the duplicate list never make a
packet reach the upper layer twice or confirm one that the receiver does not have.

Direct transfer. `AckUndisturbed` is about nodes that have heard the last beacon and
whose receivers were on when the data of this superframe started. TLC shows that it
needs both. A device that missed the beacon has its radio off during the back-off,
does not notice a frame that starts then, and finds the channel idle in the middle of
it. A node that starts to send together with another does not notice the other's
frame either; when that is the longer one (36 bytes of payload against 1), the node
assesses the channel before the ACK and sends over it. `NoError` covers every
assertion and radio error but the assertion of `constructACK`, which may fail in two
ways, see below.

Bounds. `MaxCopies` 2 is the least that repeats a message. In `requests` one frame is
lost or repeated (`MaxFaults`), in any place of the exchange; `repeat_dropped` uses
`MaxRequests` 2, which lets a request meet the traces of an earlier one of the same
sensor. `MaxCount` is high enough that learning is not cut short where it matters.
In `same_position` `AreaSlots` are the four positions of the code and `GenSlots` three
of the 64, position 0, another one, and one beyond 31, where the shift is undefined; in
`discovery_reliable` there is position 0, the only one the code's test notices, and one
more; elsewhere positions do not matter and there is one. The kite of
`discovery_reliable` and of the request runs has a sensor out of the sink's range
and a cycle for requests. The line of `discovery_line` is heard in both directions
between the sink and the first sensor, whose request is what the sink answers, and
outwards beyond: what comes back there only adds a neighbour to a node that has its
identifier. There `LineConstraint` bounds what is under way at a time to one packet in
the event queue and two frames, so that the walk down the line is not multiplied with
what is left of the first exchange. `MaxTypes` bounds the
bits that `increaseSimilarity` may add. In
`transfer`, `Arrivals` adds one moment in the middle of a GTS to those at which a
timer fires or a frame ends, so that data is handed down before, in and after
GTSs. A second packet meets the duplicate list and the retry counter left by the
first. `gtsList` has three places instead of seven, so that four devices meet the
refusal by a full list. The refusal by a CAP that would become too short needs more
slots than these networks ask for; the theorems cover it. `BeaconInterval` is twice the
active period, the least that a beacon order above the superframe order gives.

In `direct` the superframe is the shortest one (960 symbols, superframe order 0),
and the beacon interval is twice as long. `Arrivals` are a moment
behind the beacon and one so late that the transaction does not fit into the CAP.
The payload is 1 byte for one device. The other device has 46 bytes, whose frame
outlasts the short one and leaves room for one assessment between data and ACK; the
coordinator has 45, with which its task can fail while it has an ACK to send. The
properties have also been checked with 1, 20, 40, 51, 60, 75 and 100 bytes in both
places. `Draws` are the random numbers modulo 2^BE that a node may draw: 0 and 2 for one
device and 0 for the other nodes give back-offs that end together, one behind
the other, and during the other's frame. Five lost beacons in a row, one more than
`aMaxLostBeacons`, are counted; more make no difference.

Transfers without ACKs (`Ack4Gts` FALSE) are part of the model but of no run, and so
are the channels with 8 symbols a byte.

Deadlock is not checked where the system may stop: discovery ends, requests end,
tables fill. The two transfers run for ever and are checked for deadlock.

Fairness. The kernel executes every scheduled event, which is weak fairness of
the steps of the event queue. It is assumed for `SRDiscovery!Next`, for sending
and handling in `SRRequest`, for the next step of `GTSTransfer` and of
`DirectTransfer` (stated as infinitely many steps unless an error has stopped the
program, which is the same where a step is always possible, and cheaper to check), and for the steps of a running call in
`TableRARE`. Generating a request and handing down data are not
fair on their own: nobody has to do it, and it happens finitely often. Losses are not excluded by fairness, so liveness of
delivery is only claimed where nothing is lost. `TaskEnds` is about the end of a task,
by success or by giving up, at nodes that hear a beacon again and again.

## Where code and comments disagree

`repeat_dropped` checks what the trace at `SR.cc:688` says of a destroyed request,
"I Already have sent this request". TLC finds a behaviour in which the second
request of a sensor, which carries the stamp of its first, is destroyed as a copy.

`second_frame` checks the comment of the assertion at `MAC:1405`, "it's impossilbe to
receive the second packet before the Ack has been sent out." Two devices send at
the same moment and the coordinator receives the shorter frame in spite of the
longer one. The ACK has to wait until the radio is no longer busy with the longer
frame. Meanwhile the first device times out. It was sending when the longer frame
started, so its radio did not notice that frame and finds the channel idle. Its
second copy arrives before the ACK has left. The same assertion fails in the setting of
`direct` in which a device and the coordinator send to each other: the last timeout of
the coordinator's own data comes while its transmitter is being switched on for an ACK,
`resetTRX` (`MAC:3133`) switches the receiver on instead, the ACK stays behind, and
the device repeats its data. `NoError` therefore leaves this assertion out.

`copy_passed_on` checks the same trace at `SR.cc:688` from the other side: a copy of a
request that a node has sent is destroyed. "Only one request at the time on the
network" (`SR.h:81`), but `generaterRandomRequest` goes on when `iCanSendRequest` is
false (`SR.cc:833`). The request of a second sensor replaces the stamp of the first
(`SR.cc:693`), and a copy of the first is then taken as new.

`same_position` checks the comment of the loops that look for a free position, "As long
as that position is already set, I chose another one" (`SR.cc:343`, `566`). They compare a
masked bit with 1 and so notice position 0 only; other positions are taken twice.

Other places where the code does not do what a comment says, met while modelling.
The models follow the code:

- `areaNumber` "should not exceed 4" (`SR.h:40`), but a fifth request raises it
  (`SR.cc:1024`); the assertion of `IDBuilder.cc:42` stops a debug build only.
- A DISCO-REQUEST carries the identifier 65535, so the sink keeps only the last
  requester in `neighborList` (`SR.cc:1018`).
- A flood meant for neighbours "different from the sender" compares with the
  destination address (`SR.cc:777`), so it may go back.
- The random choice of TableRARE never draws the last row and divides by zero
  when there is one row (`TableRARE.cc:136`); with queries other than HUMIDITY it
  may not return. Retries of an earlier call count in a later one
  (`TableRARE.cc:131`). While HUMIDITY has the only row, as SR leaves it, the
  random choice is not reached, which is what `HumidityEnds` shows.
- The array of a Bloom filter is not cleared (`BloomFilter.cc:26`), so filters may
  claim what nobody added.
- On channels 0 to 10 a GTS request longer than the CAP wraps an unsigned
  difference and is granted (`MAC:3699`), and the ACK timeout is shorter than an
  ACK (`MAC:2554`). The example uses channel 11.
- Without ACKs, a transaction that fills its slots to the last symbol is still in
  its IFS when the next transmit GTS starts early (`MAC:3558`).

## What is proved

Proofs hold for every set of nodes, topology, bound and payload that the named
assumptions allow.

**Identifiers.** `SRDiscoveryProofs` begins with these lemmas: setting one field
leaves the others alone and the three fields determine the identifier.

**Discovery.** Assumptions: addresses are distinct bytes, `Hops` is a lower bound
on the distance in hops. `TypeCorrect` holds with or without assertions. The others are stated for builds with assertions (`~ NDEBUG`),
since without them the distance and the area wrap.

`DistanceSound` is not inductive: a step may take its distance from a message sent
long ago. `IdentityInv` adds that each packet that carries an identifier agrees with
its sender's present distance, that an identifier names its owner, and that flags
say who has one. One lemma per kind of step (`TakeIDStep`, `GiveAreaStep`,
`SinkInitStep`, `SendStep`, `AskStep`, `SilentStep`) preserves it. From it follow
`DistanceSoundAlways`, `UniqueIDsAlways`, `SinkAloneAtZeroAlways`, `IDStableAlways`,
and `DiscoveryRefinesTree`, by which discovery implements `DistanceTree`.

`DiscoveryInv` extends it to everything else that the runs check of discovery; it is
an invariant of these runs too. Its parts, and what they are for:

| part | says | gives |
|---|---|---|
| `KindsOK` | which packets there are, and that a sensor handles the announcement of the sink once | needed by the others |
| `EntriesOK` | an entry of `neighborList` is a node that is heard, with its filter, or an unspecified address under a later identifier of the sink | `NeighborsGenuineAlways`, `UnspecifiedShadowedAlways` |
| `ParentsOK` | the node that an identifier was taken from is held, and still has the identifier it sent | `ParentKnownAlways` |
| `AreasOK` | an area below `areaNumber` is in the replies to one sensor only, or in the identifier of that sensor | `AreasDistinctAlways` |
| `SlotsOK` | a position that is held has its bit set | part of `DiscoveryInvAlways` |
| `KnownOK` | the counter is the number of sensors it stands for | `NotKnownExactAlways` |
| `ProgressOK` | without loss, what a sensor has not got yet is on its way to it | `NeighborsCompleteAlways` |

`SRTablesProofs` has one lemma per part and handler for the first five,
`SRCompletenessProofs` those for the last two and the theorems. For
`NeighborsCompleteAlways` the identified nodes at rest are shown to be closed under
links: the sink is one of them, so they are all the nodes, if every sensor is
reached from the sink (`Reachable`) and whoever hears the sink is heard by it
(`SinkHeardBack`). Both are needed: a sensor that the sink does not hear never gets
an area. `SlotHoldersNamedAlways` says of discovery what the theorems on requests
assume of requesters.

**Requests.** Assumption: `SettledAssumption`, what discovery's tables look like.
That a reply is never sent to nowhere depends on the requests that made the
records, so `RequestInv` also says that the sender of each request on its way
knows the way back, and that frames follow links. `RepliesFindTheWayAlways` and
`PeersAreHeardAlways` follow, under loss, repetition and overlap.

`CopiesDestroyedAlways` and `NoReplyCycleAlways` are about the time before a request
overlaps another (`~ overlapped`; `copy_passed_on` shows the first failing afterwards)
and need the hypothesis that no other node has a requester's identifier
(`RequestersNamed`). That records form no cycle says nothing of the packets that
change records, so `RoundInv` adds: all packets belong to one request, whoever sent
a copy of it has handled it, and whoever has handled it has its stamp and, unless it
is the requester, a record that leads to a node that has handled it. A node that takes
a record has not handled the request, so no record leads to it, and the new
record closes no cycle.

**GTS allocation.** Hypothesis `Fits`: no transaction is longer than the least
CAP, true for payloads up to 102 bytes at 2.4 GHz and needed, since a
longer one wraps `t_cap` (`MAC:3699`). `AllocInv` adds that the CAP left is long enough, and that a GTS lies behind
the CAP of the next beacon and of any beacon its device may still receive: this
is why lost beacons do no harm. `GTSsDisjointAlways`, `GTSsAgreeAlways` and
`CapBeforeGTSAlways` follow.

`GTSTransferProofs` carries these results over to the transfer
(`AllocationSafeInTransfer`): a step of it sends a beacon, receives one, ends the
simulation, or leaves the variables of `AllocInv` alone.

**TableRARE.** `SelectionSoundAlways` and `NothingUnlearnedAlways`, for any queries,
relation of queries and choices. `RAREInv` says that rows are well-formed, and that a
call for a query that has been answered never leaves it for a similar or a random
one. The lemma behind both is `BestPeerIsBest`: `BestPeer` is the first of the peers
with the highest count.

**Bloom filters.** `NoFalseNegativeAlways` and `StaysFoundAlways`, for any hash positions and
any initial bits. `BloomInv` ties the bits of an array to the measure its node has
taken; since bits are never cleared and copies share the array, a lookup that
succeeds goes on succeeding.

Only model-checked: every liveness property (out of the prover's reach), the timing of GTS transfer
(`NoCollision`, `TaskInItsGts`, `RefinesTransfer`), and direct transfer, whose
invariants would have to say where every timer stands at every step.

## Not modelled

- Alerts: no node ever enters the alert state and no alert is sent.
- Statistics, display, hop counts, `iAmTheLast`, `stopSim`: written for traces;
  `iCanSendRequest` is tested, but both outcomes continue in the same way.
- Unslotted CSMA-CA (beacon order 15; the coordinator of the example sends beacons)
  and indirect transfer, which is compiled out.
- Coordinators that are devices of another coordinator: "now only star topology"
  (`MAC:385`).
- MAC commands: the handler carries none of them out; association and GTS
  requests are direct calls.
- Signal strength and bit errors: numeric. Energy detection and channel switching of
  the radio: no module asks for them.
- Generated packet classes and NED files: no behaviour of their own.

- The rest of INET under `src/inet/`: a library that this code is built into, used by
  it as frames, queues, mobility and the 802.11 NIC, which the models see as loss,
  repetition and reordering.

## Open questions

- Discovery and requests at the same time, with requests generated while other nodes
  have no identifier yet, in place of `SettledAssumption`.
- Hidden nodes in direct transfer: `Hears` allows them, the run uses one cell.
- A proof of `NoCollision` and `TaskInItsGts`, under a hypothesis that excludes exact
  fits without ACKs.
