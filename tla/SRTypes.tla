------------------------------ MODULE SRTypes ------------------------------
(***************************************************************************)
(* Library types that the modules of SR share.  A MAC address is the last  *)
(* byte of the address, the only one in which the nodes differ.            *)
(***************************************************************************)
EXTENDS Integers

\* MACAddress::UNSPECIFIED_ADDRESS and MACAddress::BROADCAST_ADDRESS.
UNSPECIFIED == 0
BROADCAST   == 256

\* m[k] = v on a std::map.
MapPut(m, k, v) == [x \in DOMAIN m \cup {k} |-> IF x = k THEN v ELSE m[x]]

\* A std::map with no entry.
EmptyMap == [x \in {} |-> x]

\* m[k] read on a std::map of values whose default is d.
MapGet(m, k, d) == IF k \in DOMAIN m THEN m[k] ELSE d

=============================================================================
