----------------------------- MODULE IDBuilder -----------------------------
(***************************************************************************)
(* The 16-bit sensor identifier of IDBuilder.cc: ten bits of MAC           *)
(* extension, four bits of distance to the sink, two bits of area.  The    *)
(* bit masks of the source are written as quotients and remainders.        *)
(***************************************************************************)
EXTENDS Integers

\* Unsigned 16-bit identifiers.
UINT16 == {x \in Nat : x < 65536}

\* The value of myID before a node has been given an identifier.
NOT_INITIALIZED == 65535

getMACExt(id) == id \div 64

getSinkDistance(id) == (id \div 4) % 16

getArea(id) == id % 4

\* my_id &= 63; my_id += ext << 6, under assert(ext < 1024).
setMACExt(id, ext) == (id % 64) + 64 * ext

\* A slip of setSinkDistance: the old distance is not erased.
addSinkDistance(id, sinkDistance) == (id + 4 * sinkDistance) % 65536

\* my_id &= 65475; my_id += sinkDistance << 2, under SinkDistanceAssert.
setSinkDistance(id, sinkDistance) ==
    (64 * (id \div 64) + 4 * sinkDistance + (id % 4)) % 65536

\* A slip of SinkDistanceAssert: an off-by-one.
SinkDistanceAtMost16(sinkDistance) == sinkDistance <= 16

SinkDistanceAssert(sinkDistance) == sinkDistance < 16

\* my_id &= 65532; my_id += area, under AreaAssert.
setArea(id, area) == (4 * (id \div 4) + area) % 65536

AreaAssert(area) == area < 4

=============================================================================
