----------------------------- MODULE TableRARE -----------------------------
(***************************************************************************)
(* TableRARE.cc: the table in which a node learns which neighbour brings   *)
(* answers to which query, and the recursive choice of a peer.  A call of  *)
(* LearningPeerSelection is a sequence of steps, because it may draw       *)
(* random rows for ever or divide by zero.                                 *)
(***************************************************************************)
EXTENDS RAREPeers

CONSTANTS
    Peers,                   \* addresses of the neighbours
    Queries,                 \* the queries that are asked and answered
    QueryRelaxationMaxRetry,
    MaxCount,                \* bound on the answers of one peer to one query
    MaxTypes                 \* bound on the bits of queriesSimilarity

ASSUME RAREAssumption ==
    /\ Peers \subseteq 1..255
    /\ Queries \subseteq SensoType
    /\ QueryRelaxationMaxRetry \in Nat
    /\ MaxCount \in Nat /\ MaxTypes \in Nat

VARIABLES
    learningTable,             \* rows 0 .. size - 1 of a std::vector
    queriesSimilarity,
    QueryRelaxationRetryTime,
    pc,                        \* where the current call is
    QueryId,                   \* argument of the innermost call
    answer,                    \* what the last call returned
    asked                      \* history: argument of the outermost call

vars == <<learningTable, queriesSimilarity, QueryRelaxationRetryTime, pc,
          QueryId, answer, asked>>

call == <<pc, QueryId, answer, asked>>

Size   == Cardinality(DOMAIN learningTable)
Row(q) == MapGet(learningTable, q, EmptyMap)
Filled(q) == DOMAIN Row(q) # {}

Init ==
    /\ learningTable = EmptyMap
    /\ queriesSimilarity = InitialSimilarity
    /\ QueryRelaxationRetryTime = 0
    /\ pc = "idle"
    /\ QueryId = HUMIDITY
    /\ answer = UNSPECIFIED
    /\ asked = HUMIDITY

\* A row is created with every row before it; an existing one is updated.
UpdateTable(q, mac) ==
    /\ pc = "idle"
    /\ MapGet(Row(q), mac, 0) < MaxCount
    /\ learningTable' = [r \in DOMAIN learningTable \cup 0..q |->
                            IF r = q THEN Answered(Row(q), mac) ELSE Row(r)]
    /\ UNCHANGED <<queriesSimilarity, QueryRelaxationRetryTime, call>>

\* pos + 1 where pos has the bits of every query: as those are the lowest
\* ones, the sum is the first bit that is free.
FreeType(bits) == Min((0..MaxTypes) \ bits)

\* Nothing in the repository calls it.
increaseSimilarity(q1, q2) ==
    LET bits == UNION {queriesSimilarity[q] : q \in SensoType} IN
    /\ pc = "idle"
    /\ Cardinality(bits) < MaxTypes
    /\ queriesSimilarity' =
         [q \in SensoType |-> queriesSimilarity[q] \cup
                                IF q \in {q1, q2} THEN {FreeType(bits)} ELSE {}]
    /\ UNCHANGED <<learningTable, QueryRelaxationRetryTime, call>>

-----------------------------------------------------------------------------
(* LearningPeerSelection. *)

CallSelection(q) ==
    /\ pc = "idle"
    /\ pc' = "select"
    /\ QueryId' = q /\ asked' = q
    /\ UNCHANGED <<learningTable, queriesSimilarity, QueryRelaxationRetryTime,
                   answer>>

ReturnPeer ==
    /\ pc = "select" /\ Filled(QueryId)
    /\ pc' = "idle"
    /\ answer' = BestPeer(Row(QueryId))
    /\ UNCHANGED <<learningTable, queriesSimilarity, QueryRelaxationRetryTime,
                   QueryId, asked>>

MayRelax(q) ==
    /\ QueryRelaxation(queriesSimilarity, q) # q
    /\ QueryRelaxationRetryTime < QueryRelaxationMaxRetry

\* The recursive call with the closest query.
Relax ==
    /\ pc = "select" /\ ~ Filled(QueryId) /\ MayRelax(QueryId)
    /\ QueryRelaxationRetryTime' = QueryRelaxationRetryTime + 1
    /\ QueryId' = QueryRelaxation(queriesSimilarity, QueryId)
    /\ UNCHANGED <<learningTable, queriesSimilarity, pc, answer, asked>>

\* A slip of NobodyKnown: an empty table is not noticed.
RandomWhenEmpty ==
    /\ pc = "select" /\ ~ Filled(QueryId) /\ ~ MayRelax(QueryId)
    /\ QueryRelaxationRetryTime' = 0
    /\ pc' = "random"
    /\ UNCHANGED <<learningTable, queriesSimilarity, QueryId, answer, asked>>

\* Only here are the retries forgotten: those of a call that ends in ReturnPeer
\* count against the next.
NobodyKnown ==
    /\ pc = "select" /\ ~ Filled(QueryId) /\ ~ MayRelax(QueryId)
    /\ QueryRelaxationRetryTime' = 0
    /\ IF Size > 0 THEN pc' = "random" /\ UNCHANGED answer
                   ELSE pc' = "idle" /\ answer' = UNSPECIFIED
    /\ UNCHANGED <<learningTable, queriesSimilarity, QueryId, asked>>

\* rand() % (size - 1) gives a row that has a peer: the recursive call.
DrawRow(q) ==
    /\ pc = "random" /\ Size > 1
    /\ q \in 0..(Size - 2) /\ Filled(q)
    /\ pc' = "select"
    /\ QueryId' = q
    /\ UNCHANGED <<learningTable, queriesSimilarity, QueryRelaxationRetryTime,
                   answer, asked>>

\* It gives a row that has no peer: the loop goes on.
DrawAgain(q) ==
    /\ pc = "random" /\ Size > 1
    /\ q \in 0..(Size - 2) /\ ~ Filled(q)
    /\ UNCHANGED vars

\* rand() % 0 when the table has one row.
DivideByZero ==
    /\ pc = "random" /\ Size = 1
    /\ pc' = "killed"
    /\ UNCHANGED <<learningTable, queriesSimilarity, QueryRelaxationRetryTime,
                   QueryId, answer, asked>>

LearningPeerSelection ==
    \/ ReturnPeer
    \/ Relax
    \/ NobodyKnown
    \/ \E q \in DOMAIN learningTable : DrawRow(q) \/ DrawAgain(q)
    \/ DivideByZero

Next ==
    \/ \E q \in Queries, mac \in Peers : UpdateTable(q, mac)
    \/ \E q1, q2 \in Queries : increaseSimilarity(q1, q2)
    \/ \E q \in Queries : CallSelection(q)
    \/ LearningPeerSelection

Spec == Init /\ [][Next]_vars

\* A call runs to its end; rand() does not avoid the rows that have a peer.
FairSpec == Spec /\ WF_vars(LearningPeerSelection)

-----------------------------------------------------------------------------
(* Properties. *)

\* Whatever relaxation and chance do (TableRARE.cc:100-146), a call returns a
\* peer that has answered some query; it returns the unspecified address only
\* when nobody has answered any; and it prefers, for a query that has been
\* answered, the first of the peers that answered it most often.
SelectionSound ==
    [][pc # "idle" /\ pc' = "idle" =>
         IF Filled(asked)
         THEN \A m \in DOMAIN Row(asked) :
                \/ Row(asked)[m] < Row(asked)[answer']
                \/ Row(asked)[m] = Row(asked)[answer'] /\ answer' <= m
         ELSE IF Size = 0 THEN answer' = UNSPECIFIED
              ELSE \E q \in DOMAIN learningTable :
                     answer' \in DOMAIN learningTable[q]]_vars

\* HUMIDITY is the only query that SR asks (SR.cc:860).  A call for it returns,
\* whatever retries earlier calls have left behind, as long as no other query
\* has a row: the random choice (TableRARE.cc:135-141), which may never end or
\* divide by zero, is not reached.
HumidityEnds == pc = "select" /\ asked = HUMIDITY /\ Size <= 1 ~> pc = "idle"

\* What has been learned is not unlearned: no count decreases when a row is
\* added or replaced (TableRARE.cc:57-83).
NothingUnlearned ==
    [][\A q \in DOMAIN learningTable : \A m \in DOMAIN learningTable[q] :
         MapGet(learningTable'[q], m, 0) >= learningTable[q][m]]_vars

=============================================================================
