-------------------------- MODULE TableRAREProofs --------------------------
(***************************************************************************)
(* Proofs about TableRARE, for any peers, queries and bounds.  While a     *)
(* call runs the table does not change, and a call whose own query has     *)
(* been answered never leaves it for another one.                          *)
(***************************************************************************)
EXTENDS TableRARE, TLAPS, FiniteSetTheorems

(* The peer that answered most often. *)

\* A set of natural numbers that is not empty has a least element.
LEMMA MinOfSet ==
    ASSUME NEW S, S \subseteq Nat, S # {}
    PROVE  Min(S) \in S /\ \A y \in S : Min(S) <= y
<1>1. PICK x \in S : \A y \in S : ~ (<<y, x>> \in OpToRel(<, Nat))
  BY NatLessThanWellFounded, WFMin
<1>2. ASSUME NEW y \in S, y < x
      PROVE  <<y, x>> \in OpToRel(<, Nat)
  BY <1>2, Zenon DEF OpToRel
<1>3. \A y \in S : ~ (y < x)
  BY <1>1, <1>2, Zenon
<1>4. \A y \in S : x <= y
  BY <1>3
<1> QED
  BY <1>4 DEF Min

\* The strict comparison of LearningPeerSelection keeps the first of the peers
\* with the largest count.
LEMMA BestPeerIsBest ==
    ASSUME NEW row, NEW bound \in Nat, DOMAIN row \subseteq Nat, DOMAIN row # {},
           \A m \in DOMAIN row : row[m] \in 0..bound
    PROVE  /\ BestPeer(row) \in DOMAIN row
           /\ \A m \in DOMAIN row :
                \/ row[m] < row[BestPeer(row)]
                \/ row[m] = row[BestPeer(row)] /\ BestPeer(row) <= m
<1> DEFINE best == {m \in DOMAIN row : \A k \in DOMAIN row : row[k] <= row[m]}
           gaps == {bound - row[m] : m \in DOMAIN row}
<1>1. gaps \subseteq Nat /\ gaps # {}
  <2>1. ASSUME NEW m \in DOMAIN row PROVE bound - row[m] \in Nat
    OBVIOUS
  <2> QED
    BY <2>1
<1>2. Min(gaps) \in gaps /\ \A h \in gaps : Min(gaps) <= h
  <2> HIDE DEF gaps
  <2> QED
    BY <1>1, MinOfSet
<1>3. PICK m \in DOMAIN row : Min(gaps) = bound - row[m]
  BY <1>2
<1>4. ASSUME NEW k \in DOMAIN row PROVE row[k] <= row[m]
  <2>1. bound - row[m] <= bound - row[k]
    BY <1>2, <1>3
  <2>2. row[k] \in 0..bound /\ row[m] \in 0..bound
    OBVIOUS
  <2> QED
    BY <2>1, <2>2
<1>5. best # {} /\ best \subseteq Nat
  BY <1>4
<1>6. Min(best) \in best /\ \A k \in best : Min(best) <= k
  <2> HIDE DEF best
  <2> QED
    BY <1>5, MinOfSet
<1>7. BestPeer(row) = Min(best)
  BY DEF BestPeer
<1>8. ASSUME NEW k \in DOMAIN row
      PROVE  \/ row[k] < row[Min(best)]
             \/ row[k] = row[Min(best)] /\ Min(best) <= k
  <2>1. row[k] <= row[Min(best)] /\ row[k] \in 0..bound /\ row[Min(best)] \in 0..bound
    BY <1>6
  <2>2. CASE row[k] = row[Min(best)]
    <3>1. \A j \in DOMAIN row : row[j] <= row[k]
      BY <1>6, <2>2
    <3>2. k \in best
      BY <3>1
    <3> QED
      BY <2>2, <3>2, <1>6
  <2>3. CASE row[k] # row[Min(best)]
    BY <2>1, <2>3
  <2> QED
    BY <2>2, <2>3
<1> QED
  BY <1>6, <1>7, <1>8

-----------------------------------------------------------------------------
(* The learning table. *)

\* The rows and their counts.
TableOK ==
    /\ IsFiniteSet(DOMAIN learningTable)
    /\ \A q \in DOMAIN learningTable :
         /\ DOMAIN learningTable[q] \subseteq Peers
         /\ \A m \in DOMAIN learningTable[q] : learningTable[q][m] \in 0..MaxCount

\* A call for a query that has been answered is still at that query.
AtItsQuery == pc # "idle" /\ Filled(asked) => pc = "select" /\ QueryId = asked

RAREInv == TableOK /\ AtItsQuery

LEMMA RowOK ==
    ASSUME TableOK, NEW q
    PROVE  /\ DOMAIN Row(q) \subseteq Peers
           /\ \A m \in DOMAIN Row(q) : Row(q)[m] \in 0..MaxCount
           /\ Filled(q) => q \in DOMAIN learningTable /\ Row(q) = learningTable[q]
BY DEF TableOK, Row, Filled, MapGet, EmptyMap

\* One more answer: the count grows and the others stay.
LEMMA AnsweredRow ==
    ASSUME TableOK, NEW q, NEW mac \in Peers, MapGet(Row(q), mac, 0) < MaxCount
    PROVE  /\ DOMAIN Answered(Row(q), mac) \subseteq Peers
           /\ DOMAIN Row(q) \subseteq DOMAIN Answered(Row(q), mac)
           /\ \A m \in DOMAIN Answered(Row(q), mac) :
                Answered(Row(q), mac)[m] \in 0..MaxCount
           /\ \A m \in DOMAIN Row(q) : Answered(Row(q), mac)[m] >= Row(q)[m]
<1> DEFINE row == Row(q)
<1>1. /\ DOMAIN row \subseteq Peers
      /\ \A m \in DOMAIN row : row[m] \in 0..MaxCount
  BY RowOK
<1>2. MapGet(row, mac, 0) \in 0..MaxCount
  BY <1>1, RAREAssumption DEF MapGet
<1>3. MapGet(row, mac, 0) + 1 \in 0..MaxCount
  BY <1>2, RAREAssumption
<1>4. mac \in DOMAIN row => MapGet(row, mac, 0) = row[mac]
  BY DEF MapGet
<1> HIDE DEF row
<1>5. /\ DOMAIN Answered(row, mac) = DOMAIN row \cup {mac}
      /\ Answered(row, mac)[mac] = MapGet(row, mac, 0) + 1
      /\ \A m \in DOMAIN row : m # mac => Answered(row, mac)[m] = row[m]
  BY DEF Answered, MapPut
<1>6. ASSUME NEW m \in DOMAIN row PROVE Answered(row, mac)[m] >= row[m]
  <2>1. CASE m = mac
    BY <2>1, <1>1, <1>4, <1>5
  <2>2. CASE m # mac
    BY <2>2, <1>1, <1>5
  <2> QED
    BY <2>1, <2>2
<1>7. ASSUME NEW m \in DOMAIN Answered(row, mac) PROVE Answered(row, mac)[m] \in 0..MaxCount
  <2>1. CASE m = mac
    BY <2>1, <1>3, <1>5
  <2>2. CASE m # mac
    BY <2>2, <1>1, <1>5, <1>7
  <2> QED
    BY <2>1, <2>2
<1> QED
  BY <1>1, <1>5, <1>6, <1>7 DEF row

LEMMA RAREInit == Init => RAREInv
<1> SUFFICES ASSUME Init PROVE RAREInv
  OBVIOUS
<1>1. DOMAIN learningTable = {}
  BY DEF Init, EmptyMap
<1> QED
  BY <1>1, FS_EmptySet DEF Init, RAREInv, TableOK, AtItsQuery

\* The rows after UpdateTable.
LEMMA UpdatedRows ==
    ASSUME NEW q \in Queries, NEW mac \in Peers, UpdateTable(q, mac)
    PROVE  /\ DOMAIN learningTable' = DOMAIN learningTable \cup 0..q
           /\ q \in DOMAIN learningTable'
           /\ \A r \in DOMAIN learningTable' :
                learningTable'[r] = IF r = q THEN Answered(Row(q), mac) ELSE Row(r)
<1>1. q \in 0..q
  BY RAREAssumption DEF SensoType
<1> QED
  BY <1>1 DEF UpdateTable

LEMMA UpdateKeeps ==
    ASSUME NEW q \in Queries, NEW mac \in Peers, RAREInv, UpdateTable(q, mac)
    PROVE  RAREInv'
<1>1. IsFiniteSet(DOMAIN learningTable')
  <2>1. q \in Int
    BY RAREAssumption DEF SensoType
  <2>2. IsFiniteSet(0..q)
    BY <2>1, FS_Interval
  <2>3. IsFiniteSet(DOMAIN learningTable)
    BY DEF RAREInv, TableOK
  <2>4. IsFiniteSet(DOMAIN learningTable \cup 0..q)
    BY <2>2, <2>3, FS_Union
  <2>5. DOMAIN learningTable' = DOMAIN learningTable \cup 0..q
    BY UpdatedRows
  <2> QED
    BY <2>4, <2>5
<1>2. ASSUME NEW r \in DOMAIN learningTable'
      PROVE  /\ DOMAIN learningTable'[r] \subseteq Peers
             /\ \A m \in DOMAIN learningTable'[r] : learningTable'[r][m] \in 0..MaxCount
  <2>1. CASE r = q
    <3>1. learningTable'[r] = Answered(Row(q), mac)
      BY <2>1, UpdatedRows
    <3>2. MapGet(Row(q), mac, 0) < MaxCount
      BY DEF UpdateTable
    <3> QED
      BY <3>1, <3>2, AnsweredRow DEF RAREInv
  <2>2. CASE r # q
    <3>1. learningTable'[r] = Row(r)
      BY <2>2, UpdatedRows
    <3> QED
      BY <3>1, RowOK DEF RAREInv
  <2> QED
    BY <2>1, <2>2
<1>3. AtItsQuery'
  BY DEF UpdateTable, call, AtItsQuery
<1> QED
  BY <1>1, <1>2, <1>3 DEF RAREInv, TableOK

\* All other steps leave the table alone.
LEMMA CallKeeps ==
    ASSUME RAREInv, UNCHANGED learningTable, AtItsQuery'
    PROVE  RAREInv'
BY DEF RAREInv, TableOK

LEMMA SelectionKeeps ==
    ASSUME RAREInv, LearningPeerSelection
    PROVE  RAREInv'
<1>1. UNCHANGED <<learningTable, asked>>
  BY DEF LearningPeerSelection, ReturnPeer, Relax, NobodyKnown, DrawRow, DrawAgain,
         DivideByZero, vars
<1>2. Filled(asked)' = Filled(asked)
  BY <1>1 DEF Filled, Row, MapGet
<1>3. AtItsQuery'
  <2>1. CASE ReturnPeer
    BY <2>1 DEF ReturnPeer, AtItsQuery
  <2>2. CASE Relax \/ NobodyKnown
    BY <2>2, <1>1, <1>2 DEF Relax, NobodyKnown, RAREInv, AtItsQuery
  <2>3. ASSUME NEW q, DrawRow(q) PROVE AtItsQuery'
    BY <2>3, <1>1, <1>2 DEF DrawRow, RAREInv, AtItsQuery
  <2>4. ASSUME NEW q, DrawAgain(q) PROVE AtItsQuery'
    BY <2>4, <1>1, <1>2 DEF DrawAgain, RAREInv, AtItsQuery, vars
  <2>5. CASE DivideByZero
    BY <2>5, <1>1, <1>2 DEF DivideByZero, RAREInv, AtItsQuery
  <2> QED
    BY <2>1, <2>2, <2>3, <2>4, <2>5 DEF LearningPeerSelection
<1> QED
  BY <1>1, <1>3, CallKeeps

LEMMA RAREStep == RAREInv /\ [Next]_vars => RAREInv'
<1> SUFFICES ASSUME RAREInv, [Next]_vars PROVE RAREInv'
  OBVIOUS
<1>1. ASSUME NEW q \in Queries, NEW mac \in Peers, UpdateTable(q, mac) PROVE RAREInv'
  BY <1>1, UpdateKeeps
<1>2. ASSUME NEW q1, NEW q2, increaseSimilarity(q1, q2) PROVE RAREInv'
  <2>1. UNCHANGED learningTable /\ pc = "idle" /\ pc' = "idle"
    BY <1>2 DEF increaseSimilarity, call
  <2> QED
    BY <2>1, CallKeeps DEF AtItsQuery
<1>3. ASSUME NEW q, CallSelection(q) PROVE RAREInv'
  BY <1>3, CallKeeps DEF CallSelection, AtItsQuery
<1>4. CASE LearningPeerSelection
  BY <1>4, SelectionKeeps
<1>5. CASE UNCHANGED vars
  BY <1>5 DEF vars, RAREInv, TableOK, AtItsQuery, Filled, Row, MapGet
<1> QED
  BY <1>1, <1>2, <1>3, <1>4, <1>5 DEF Next

LEMMA RAREInvHolds == Spec => []RAREInv
BY RAREInit, RAREStep, PTL DEF Spec

-----------------------------------------------------------------------------
\* What a call returns, given the invariant.
Sound ==
    IF Filled(asked)
    THEN \A m \in DOMAIN Row(asked) :
           \/ Row(asked)[m] < Row(asked)[answer']
           \/ Row(asked)[m] = Row(asked)[answer'] /\ answer' <= m
    ELSE IF Size = 0 THEN answer' = UNSPECIFIED
         ELSE \E q \in DOMAIN learningTable : answer' \in DOMAIN learningTable[q]

LEMMA ReturnSound ==
    ASSUME RAREInv, ReturnPeer
    PROVE  Sound
<1>1. /\ DOMAIN Row(QueryId) \subseteq Nat /\ DOMAIN Row(QueryId) # {}
      /\ \A m \in DOMAIN Row(QueryId) : Row(QueryId)[m] \in 0..MaxCount
      /\ QueryId \in DOMAIN learningTable /\ Row(QueryId) = learningTable[QueryId]
  <2>1. TableOK /\ Filled(QueryId)
    BY DEF RAREInv, ReturnPeer
  <2>2. DOMAIN Row(QueryId) # {}
    BY <2>1 DEF Filled
  <2>3. /\ DOMAIN Row(QueryId) \subseteq Peers
        /\ \A m \in DOMAIN Row(QueryId) : Row(QueryId)[m] \in 0..MaxCount
        /\ QueryId \in DOMAIN learningTable /\ Row(QueryId) = learningTable[QueryId]
    BY <2>1, RowOK
  <2>4. Peers \subseteq Nat
    BY RAREAssumption
  <2>5. DOMAIN Row(QueryId) \subseteq Nat
    BY <2>3, <2>4, Zenon
  <2> QED
    BY <2>2, <2>3, <2>5, Zenon
<1>2. answer' = BestPeer(Row(QueryId))
  BY DEF ReturnPeer
<1>3. /\ answer' \in DOMAIN Row(QueryId)
      /\ \A m \in DOMAIN Row(QueryId) :
           \/ Row(QueryId)[m] < Row(QueryId)[answer']
           \/ Row(QueryId)[m] = Row(QueryId)[answer'] /\ answer' <= m
  BY <1>1, <1>2, BestPeerIsBest, RAREAssumption
<1>4. CASE Filled(asked)
  <2>1. QueryId = asked
    BY <1>4 DEF RAREInv, AtItsQuery, ReturnPeer
  <2> QED
    BY <1>3, <1>4, <2>1 DEF Sound
<1>5. CASE ~ Filled(asked)
  <2>1. Size # 0
    BY <1>1, FS_EmptySet DEF Size, RAREInv, TableOK
  <2> QED
    BY <1>1, <1>3, <1>5, <2>1 DEF Sound
<1> QED
  BY <1>4, <1>5

LEMMA NobodySound ==
    ASSUME RAREInv, NobodyKnown, pc' = "idle"
    PROVE  Sound
<1>1. ~ Filled(asked)
  BY DEF RAREInv, AtItsQuery, NobodyKnown
<1>2. Size \in Nat
  BY FS_CardinalityType DEF RAREInv, TableOK, Size
<1>3. ~ (Size > 0) /\ answer' = UNSPECIFIED
  BY DEF NobodyKnown
<1> QED
  BY <1>1, <1>2, <1>3 DEF Sound

\* Whatever relaxation and chance do, a call returns a peer that has answered, the
\* best one if its own query was answered, and the unspecified address only when
\* nobody has answered anything (TableRARE.cc:100-146).
THEOREM SelectionSoundAlways == Spec => SelectionSound
<1>1. RAREInv /\ [Next]_vars => [pc # "idle" /\ pc' = "idle" => Sound]_vars
  <2> SUFFICES ASSUME RAREInv, Next, pc # "idle", pc' = "idle" PROVE Sound
    OBVIOUS
  <2>1. ReturnPeer \/ NobodyKnown
    BY DEF Next, UpdateTable, increaseSimilarity, CallSelection, LearningPeerSelection,
           Relax, DrawRow, DrawAgain, DivideByZero, call, vars
  <2> QED
    BY <2>1, ReturnSound, NobodySound
<1> QED
  BY <1>1, RAREInvHolds, PTL DEF Spec, SelectionSound, Sound

\* No count is lost when UpdateTable rebuilds the vector (TableRARE.cc:57-83).
THEOREM NothingUnlearnedAlways == Spec => NothingUnlearned
<1> DEFINE Kept == \A q \in DOMAIN learningTable : \A m \in DOMAIN learningTable[q] :
                       MapGet(learningTable'[q], m, 0) >= learningTable[q][m]
<1>1. ASSUME RAREInv, UNCHANGED learningTable PROVE Kept
  BY <1>1 DEF RAREInv, TableOK, MapGet
<1>2. ASSUME RAREInv, NEW q \in Queries, NEW mac \in Peers, UpdateTable(q, mac) PROVE Kept
  <2> SUFFICES ASSUME NEW r \in DOMAIN learningTable, NEW m \in DOMAIN learningTable[r]
               PROVE  MapGet(learningTable'[r], m, 0) >= learningTable[r][m]
    OBVIOUS
  <2>1. r \in DOMAIN learningTable' /\ Row(r) = learningTable[r]
    BY <1>2, UpdatedRows DEF Row, MapGet
  <2>2. CASE r = q
    <3>1. learningTable'[r] = Answered(Row(r), mac)
      BY <1>2, <2>1, <2>2, UpdatedRows
    <3>2. /\ m \in DOMAIN Answered(Row(r), mac)
          /\ Answered(Row(r), mac)[m] >= Row(r)[m]
      BY <1>2, <2>1, <2>2, AnsweredRow DEF UpdateTable, RAREInv
    <3> QED
      BY <2>1, <3>1, <3>2 DEF MapGet
  <2>3. CASE r # q
    <3>1. learningTable'[r] = learningTable[r]
      BY <1>2, <2>1, <2>3, UpdatedRows
    <3> QED
      BY <1>2, <3>1 DEF MapGet, RAREInv, TableOK
  <2> QED
    BY <2>2, <2>3
<1>3. ASSUME Next, ~ UNCHANGED learningTable
      PROVE  \E q \in Queries, mac \in Peers : UpdateTable(q, mac)
  BY <1>3 DEF Next, increaseSimilarity, CallSelection, LearningPeerSelection, ReturnPeer,
              Relax, NobodyKnown, DrawRow, DrawAgain, DivideByZero, vars
<1>4. RAREInv /\ [Next]_vars => [Kept]_vars
  BY <1>1, <1>2, <1>3 DEF vars
<1> QED
  BY <1>4, RAREInvHolds, PTL DEF Spec, NothingUnlearned

=============================================================================
