----------------------------- MODULE RAREPeers -----------------------------
(***************************************************************************)
(* What TableRARE.cc computes from its tables: the peer that answered a    *)
(* query most often, the row an answer updates and the query that is most  *)
(* similar to another one.  A similarity bitmap is the set of its bits.    *)
(***************************************************************************)
EXTENDS SRTypes, FiniteSets, FiniteSetsExt

\* The kinds of sensors, enum SensoType.
HUMIDITY    == 0
LIGTH       == 1
PRESSURE    == 2
SONG        == 3
TEMPERATURE == 4
SINK_TYPE   == 5

SensoType == 0..5

\* queriesSimilarity as TableRARE::initialize fills it.
InitialSimilarity ==
    [q \in SensoType |-> CASE q = HUMIDITY    -> {0}
                           [] q = LIGTH       -> {1, 2}
                           [] q = PRESSURE    -> {3}
                           [] q = SINK_TYPE   -> {}
                           [] q = SONG        -> {0, 1}
                           [] q = TEMPERATURE -> {0, 2, 3}]

\* A slip of Answered: the row is replaced by one for mac alone.
AnsweredAlone(row, mac) == [m \in {mac} |-> 1]

\* One more answer from mac in a row of learningTable.
Answered(row, mac) == MapPut(row, mac, MapGet(row, mac, 0) + 1)

\* A slip of BestPeer: the comparison is not strict, the last maximum wins.
LastBestPeer(row) ==
    Max({m \in DOMAIN row : \A k \in DOMAIN row : row[k] <= row[m]})

\* The peer with the largest count; the strict comparison keeps the first of
\* several in the order of the map.
BestPeer(row) ==
    Min({m \in DOMAIN row : \A k \in DOMAIN row : row[k] <= row[m]})

\* The number of types two queries share.  The other query's bitmap passes
\* through a 16-bit variable.
SharedTypes(sim, q, r) == Cardinality(sim[q] \cap sim[r] \cap 0..15)

\* The query that shares most types with q, the first of several; q itself
\* when no other query shares any.
QueryRelaxation(sim, q) ==
    LET related == {r \in DOMAIN sim \ {q} : SharedTypes(sim, q, r) > 0}
        closest == {r \in related : \A s \in related :
                        SharedTypes(sim, q, s) <= SharedTypes(sim, q, r)}
    IN  IF q \in DOMAIN sim /\ related # {} THEN Min(closest) ELSE q

=============================================================================
