----------------------------- MODULE SRNetwork -----------------------------
(***************************************************************************)
(* The radio network below SR.  A node is named by the last byte of its    *)
(* MAC address, so the numeric order of nodes is the order of the MAC      *)
(* strings that the maps of SR, BloomTable and TableRARE iterate in.       *)
(* The network interface is external (the IEEE 802.11 NIC of the example   *)
(* network): it may lose any frame, and it may hand a unicast frame up     *)
(* more than once, because a retransmission after a lost acknowledgement   *)
(* is not recognised as a duplicate.  Frames are delivered in any order.   *)
(***************************************************************************)
EXTENDS SRTypes, FiniteSets

CONSTANTS
    Nodes,      \* the last bytes of the MAC addresses
    Sink,       \* the node whose parameter isSink is set
    Link,       \* <<a, b>> \in Link: b hears a
    Lossy,      \* whether frames may be lost
    MaxCopies,  \* bound on the deliveries of one unicast frame
    Hops,       \* a lower bound on the number of hops from the sink
    NDEBUG      \* whether assert and ASSERT are compiled out

ASSUME NodesAssumption == Nodes \subseteq 1..255 /\ Sink \in Nodes
ASSUME LinkAssumption  == /\ Link \subseteq Nodes \X Nodes
                          /\ \A n \in Nodes : <<n, n>> \notin Link
ASSUME NetworkAssumption == /\ Lossy \in BOOLEAN
                            /\ NDEBUG \in BOOLEAN
                            /\ MaxCopies \in Nat \ {0}

ASSUME HopsAssumption ==
    /\ Hops \in [Nodes -> Nat]
    /\ Hops[Sink] = 0
    /\ \A a, b \in Nodes : <<a, b>> \in Link => Hops[b] <= Hops[a] + 1

Sensors == Nodes \ {Sink}

Hearers(n) == {m \in Nodes : <<n, m>> \in Link}

Frame(m, c, p) == [to |-> m, copy |-> c, pkt |-> p]

\* The frames that the receivers' NICs hand up when nothing goes wrong.
Intended(p) ==
    {Frame(m, 1, p) : m \in IF p.dest = BROADCAST THEN Hearers(p.src)
                            ELSE Hearers(p.src) \cap {p.dest}}

\* The sets of frames that sending packet p can make the receivers' NICs
\* hand up.  A broadcast is not acknowledged, so it is never repeated; a
\* frame to an address that nobody in range has reaches nobody.
Deliveries(p) ==
    IF p.dest = BROADCAST
    THEN {{Frame(m, 1, p) : m \in R} :
            R \in IF Lossy THEN SUBSET Hearers(p.src) ELSE {Hearers(p.src)}}
    ELSE {{Frame(m, c, p) : m \in Hearers(p.src) \cap {p.dest}, c \in 1..k} :
            k \in (IF Lossy THEN 0 ELSE 1)..MaxCopies}

=============================================================================
