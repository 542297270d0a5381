----------------------------- MODULE BloomTable -----------------------------
(***************************************************************************)
(* BloomTable.cc and BloomFilter.cc: every node adds to its own filter     *)
(* what it measures, hands copies of the filter to its neighbours, and     *)
(* looks up which neighbour claims a measure.  Copying a BloomFilter       *)
(* copies the pointer to its array, so a stored filter is named by the     *)
(* node that owns the array.  Words are abstracted to the positions that   *)
(* the hash functions give them.                                           *)
(***************************************************************************)
EXTENDS SRTypes, FiniteSets, FiniteSetsExt

CONSTANTS
    Nodes,      \* addresses
    Sink,
    Bits,       \* the positions of a filter, 0 .. tailleFiltre - 1
    Types,      \* the measures
    Positions,  \* the positions of the word for each measure and for "SINK"
    Garbage     \* the contents that new char[] may find

ASSUME BloomAssumption ==
    /\ Nodes \subseteq 1..255 /\ Sink \in Nodes
    /\ Positions \in [Types \cup {"SINK"} -> SUBSET Bits]
    /\ Garbage \subseteq SUBSET Bits

\* No measure has the name that stands for none.
ASSUME TypesAssumption == "none" \notin Types

VARIABLES
    a,              \* the array of each node's BloomPerso: the bits that are set
    word,           \* history: the word a node has added to BloomPerso
    NeighborsTable  \* per node, a map from addresses to owners of arrays

vars == <<a, word, NeighborsTable>>

\* The constructor of BloomPerso does not clear the array.
Init ==
    /\ a \in [Nodes -> Garbage]
    /\ word = [n \in Nodes |-> "none"]
    /\ NeighborsTable = [n \in Nodes |-> EmptyMap]

\* A slip of Add: only one bit is set.
AddFirst(filter, w) == filter \cup {Min(Positions[w])}

\* BloomFilter::Add
Add(filter, w) == filter \cup Positions[w]

\* BloomFilter::Check
Check(filter, w) == Positions[w] \subseteq filter

selectRandomType(n) ==
    /\ n # Sink /\ word[n] = "none"
    /\ \E w \in Types : /\ a' = [a EXCEPT ![n] = Add(@, w)]
                        /\ word' = [word EXCEPT ![n] = w]
    /\ UNCHANGED NeighborsTable

\* AddToBloomPerso("SINK")
AddToBloomPerso ==
    /\ word[Sink] = "none"
    /\ a' = [a EXCEPT ![Sink] = Add(@, "SINK")]
    /\ word' = [word EXCEPT ![Sink] = "SINK"]
    /\ UNCHANGED NeighborsTable

\* A slip of AddFilter: the neighbour's filter replaces the whole table.
AddOnlyFilter(n, m) ==
    /\ word[m] # "none"
    /\ NeighborsTable' = [NeighborsTable EXCEPT ![n] = MapPut(EmptyMap, m, m)]
    /\ UNCHANGED <<a, word>>

\* Node n stores the filter that node m has sent after its initialisation.
AddFilter(n, m) ==
    /\ word[m] # "none"
    /\ NeighborsTable' = [NeighborsTable EXCEPT ![n] = MapPut(@, m, m)]
    /\ UNCHANGED <<a, word>>

Next ==
    \/ \E n \in Nodes : selectRandomType(n)
    \/ AddToBloomPerso
    \/ \E n, m \in Nodes : n # m /\ AddFilter(n, m)

Spec == Init /\ [][Next]_vars

GetNextHop(n, w, Source) ==
    LET claim == {m \in DOMAIN NeighborsTable[n] : Check(a[NeighborsTable[n][m]], w)}
    IN  IF ~ Source /\ Check(a[n], w) THEN n
        ELSE IF claim # {} THEN Min(claim) ELSE UNSPECIFIED

-----------------------------------------------------------------------------
(* Properties. *)

\* A measure that a node or one of its registered neighbours takes is never
\* overlooked, whatever the array held when it was allocated, whatever other
\* words share its bits and in whatever order filters are stored
\* (BloomTable.cc:70-97): a node that takes it answers itself, and a search
\* among the neighbours ends at one that takes it or at an earlier one.
NoFalseNegative ==
    \A n \in Nodes : \A w \in Types :
        /\ word[n] = w => GetNextHop(n, w, FALSE) = n
        /\ \A m \in DOMAIN NeighborsTable[n] : word[m] = w =>
             GetNextHop(n, w, TRUE) \in DOMAIN NeighborsTable[n] \cap 1..m

\* What a node has learned of its neighbours it does not forget: a measure
\* that it finds now, it finds after every step.
StaysFound ==
    [][\A n \in Nodes : \A w \in Types :
         GetNextHop(n, w, TRUE) # UNSPECIFIED
             => GetNextHop(n, w, TRUE)' # UNSPECIFIED]_vars

=============================================================================
