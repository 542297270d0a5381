------------------------- MODULE BloomTableProofs --------------------------
(***************************************************************************)
(* Proofs about BloomTable, for any network, any hash functions and any    *)
(* contents that the arrays start with.                                    *)
(***************************************************************************)
EXTENDS BloomTable, TLAPS, WellFoundedInduction

\* A set of natural numbers that is not empty has a least element.
LEMMA MinOfSet ==
    ASSUME NEW S, S \subseteq Nat, S # {}
    PROVE  Min(S) \in S /\ \A y \in S : Min(S) <= y
<1>1. PICK x \in S : \A y \in S : ~ (<<y, x>> \in OpToRel(<, Nat))
  BY NatLessThanWellFounded, WFMin
<1>2. ASSUME NEW y \in S, y < x
      PROVE  <<y, x>> \in OpToRel(<, Nat)
  BY <1>2, Zenon DEF OpToRel
<1>3. \A y \in S : ~ (y < x)
  BY <1>1, <1>2, Zenon
<1>4. \A y \in S : x <= y
  BY <1>3
<1> QED
  BY <1>4 DEF Min

\* A node's array has the bits of the word the node has added, and a stored filter is
\* the one of the neighbour that it is stored for.
BloomInv ==
    /\ a \in [Nodes -> SUBSET Bits]
    /\ word \in [Nodes -> Types \cup {"SINK", "none"}]
    /\ DOMAIN NeighborsTable = Nodes
    /\ \A n \in Nodes : word[n] \in Types => Check(a[n], word[n])
    /\ \A n \in Nodes : \A m \in DOMAIN NeighborsTable[n] :
          m \in Nodes /\ NeighborsTable[n][m] = m

\* Addresses are numbers, and the unspecified one is no node's.
LEMMA NodesAreNumbers == \A m \in Nodes : m \in Nat /\ m >= 1 /\ m # UNSPECIFIED
<1>1. Nodes \subseteq 1..255
  BY Zenon, BloomAssumption
<1> QED
  BY <1>1 DEF UNSPECIFIED

LEMMA BloomInit == Init => BloomInv
<1> SUFFICES ASSUME Init PROVE BloomInv
  OBVIOUS
<1>1. a \in [Nodes -> SUBSET Bits]
  BY BloomAssumption DEF Init
<1>2. \A n \in Nodes : DOMAIN NeighborsTable[n] = {}
  BY DEF Init, EmptyMap
<1> QED
  BY <1>1, <1>2, TypesAssumption DEF Init, BloomInv

\* Add sets every bit that Check reads and clears none.
LEMMA AddFacts ==
    ASSUME NEW filter \in SUBSET Bits, NEW w \in Types \cup {"SINK"}
    PROVE  /\ Add(filter, w) \in SUBSET Bits
           /\ Check(Add(filter, w), w)
           /\ filter \subseteq Add(filter, w)
BY BloomAssumption DEF Add, Check

\* A node adds its word.
LEMMA AddKeeps ==
    ASSUME BloomInv, NEW n \in Nodes, NEW w \in Types \cup {"SINK"},
           a' = [a EXCEPT ![n] = Add(@, w)], word' = [word EXCEPT ![n] = w],
           UNCHANGED NeighborsTable
    PROVE  BloomInv'
<1>1. /\ a' \in [Nodes -> SUBSET Bits]
      /\ word' \in [Nodes -> Types \cup {"SINK", "none"}]
  BY AddFacts DEF BloomInv
<1>2. ASSUME NEW m \in Nodes, word'[m] \in Types PROVE Check(a'[m], word'[m])
  <2>1. CASE m = n
    BY <2>1, AddFacts DEF BloomInv
  <2>2. CASE m # n
    BY <2>2, <1>2 DEF BloomInv
  <2> QED
    BY <2>1, <2>2
<1>3. \A m \in Nodes : \A k \in DOMAIN NeighborsTable'[m] :
         k \in Nodes /\ NeighborsTable'[m][k] = k
  BY DEF BloomInv
<1> QED
  BY <1>1, <1>2, <1>3 DEF BloomInv

LEMMA FilterKeeps ==
    ASSUME BloomInv, NEW n \in Nodes, NEW m \in Nodes, AddFilter(n, m)
    PROVE  BloomInv'
BY DEF BloomInv, AddFilter, MapPut

LEMMA BloomStep == BloomInv /\ [Next]_vars => BloomInv'
<1> SUFFICES ASSUME BloomInv, [Next]_vars PROVE BloomInv'
  OBVIOUS
<1>1. ASSUME NEW n \in Nodes, selectRandomType(n) PROVE BloomInv'
  BY <1>1, AddKeeps DEF selectRandomType
<1>2. CASE AddToBloomPerso
  BY <1>2, AddKeeps, BloomAssumption DEF AddToBloomPerso
<1>3. ASSUME NEW n \in Nodes, NEW m \in Nodes, AddFilter(n, m) PROVE BloomInv'
  BY <1>3, FilterKeeps
<1>4. CASE UNCHANGED vars
  BY <1>4 DEF vars, BloomInv
<1> QED
  BY <1>1, <1>2, <1>3, <1>4 DEF Next

LEMMA BloomInvHolds == Spec => []BloomInv
BY BloomInit, BloomStep, PTL DEF Spec

-----------------------------------------------------------------------------
\* The neighbours whose filters claim a measure.
Claims(n, w) == {m \in DOMAIN NeighborsTable[n] : Check(a[NeighborsTable[n][m]], w)}

\* GetNextHop among the neighbours finds the first claim.
LEMMA FirstClaim ==
    ASSUME BloomInv, NEW n \in Nodes, NEW w
    PROVE  /\ Claims(n, w) \subseteq Nodes
           /\ IF Claims(n, w) = {} THEN GetNextHop(n, w, TRUE) = UNSPECIFIED
              ELSE /\ GetNextHop(n, w, TRUE) \in Claims(n, w)
                   /\ GetNextHop(n, w, TRUE) # UNSPECIFIED
                   /\ \A m \in Claims(n, w) : GetNextHop(n, w, TRUE) <= m
<1>1. Claims(n, w) \subseteq Nodes
  BY DEF BloomInv, Claims
<1>2. Claims(n, w) \subseteq Nat /\ UNSPECIFIED \notin Claims(n, w)
  BY <1>1, NodesAreNumbers, Zenon
<1>3. GetNextHop(n, w, TRUE) = IF Claims(n, w) # {} THEN Min(Claims(n, w)) ELSE UNSPECIFIED
  BY DEF GetNextHop, Claims
<1>4. CASE Claims(n, w) = {}
  BY <1>1, <1>3, <1>4
<1>5. CASE Claims(n, w) # {}
  <2>1. /\ Min(Claims(n, w)) \in Claims(n, w)
        /\ \A m \in Claims(n, w) : Min(Claims(n, w)) <= m
    BY <1>2, <1>5, MinOfSet
  <2> QED
    BY <1>1, <1>2, <1>3, <1>5, <2>1
<1> QED
  BY <1>4, <1>5

\* A measure that a node or a registered neighbour takes is never overlooked
\* (BloomTable.cc:56-98), whatever else the arrays hold.
THEOREM NoFalseNegativeAlways == Spec => []NoFalseNegative
<1>1. ASSUME BloomInv PROVE NoFalseNegative
  <2>1. ASSUME NEW n \in Nodes, NEW w \in Types, word[n] = w
        PROVE  GetNextHop(n, w, FALSE) = n
    BY <1>1, <2>1 DEF BloomInv, GetNextHop
  <2>2. ASSUME NEW n \in Nodes, NEW w \in Types, NEW m \in DOMAIN NeighborsTable[n],
               word[m] = w
        PROVE  GetNextHop(n, w, TRUE) \in DOMAIN NeighborsTable[n] \cap 1..m
    <3>1. m \in Nodes /\ m \in Claims(n, w)
      BY <1>1, <2>2 DEF BloomInv, Claims
    <3>2. /\ GetNextHop(n, w, TRUE) \in Claims(n, w) /\ Claims(n, w) \subseteq Nodes
          /\ GetNextHop(n, w, TRUE) <= m
      BY <1>1, <3>1, FirstClaim
    <3>3. GetNextHop(n, w, TRUE) \in 1..m
      <4> DEFINE g == GetNextHop(n, w, TRUE)
      <4>1. g \in Nat /\ g >= 1 /\ m \in Nat /\ g <= m
        BY <3>1, <3>2, NodesAreNumbers, Zenon
      <4> HIDE DEF g
      <4>2. g \in 1..m
        BY <4>1
      <4> QED
        BY <4>2, Zenon DEF g
    <3> QED
      BY <3>2, <3>3 DEF Claims
  <2> QED
    BY <2>1, <2>2 DEF NoFalseNegative
<1> QED
  BY <1>1, BloomInvHolds, PTL

\* Arrays only gain bits and tables only gain entries, so what a node finds it goes
\* on finding.
LEMMA ClaimsGrow ==
    ASSUME BloomInv, Next, NEW n \in Nodes, NEW w
    PROVE  Claims(n, w) \subseteq Claims(n, w)'
<1>1. ASSUME NEW m \in Nodes PROVE a[m] \subseteq a'[m]
  BY <1>1 DEF BloomInv, Next, selectRandomType, AddToBloomPerso, AddFilter, Add
<1>2. ASSUME NEW m \in DOMAIN NeighborsTable[n]
      PROVE  m \in DOMAIN NeighborsTable'[n] /\ NeighborsTable'[n][m] = NeighborsTable[n][m]
  <2>1. CASE UNCHANGED NeighborsTable
    BY <1>2, <2>1
  <2>2. ASSUME NEW k \in Nodes, NEW l \in Nodes, AddFilter(k, l)
        PROVE  m \in DOMAIN NeighborsTable'[n] /\ NeighborsTable'[n][m] = NeighborsTable[n][m]
    <3>1. CASE n = k
      <4>1. NeighborsTable'[n] = MapPut(NeighborsTable[n], l, l)
        BY <2>2, <3>1 DEF AddFilter, BloomInv
      <4>2. NeighborsTable[n][m] = m
        BY <1>2 DEF BloomInv
      <4> QED
        BY <1>2, <4>1, <4>2 DEF MapPut
    <3>2. CASE n # k
      BY <1>2, <2>2, <3>2 DEF AddFilter, BloomInv
    <3> QED
      BY <3>1, <3>2
  <2> QED
    BY <2>1, <2>2 DEF Next, selectRandomType, AddToBloomPerso
<1> QED
  BY <1>1, <1>2 DEF BloomInv, Claims, Check

THEOREM StaysFoundAlways == Spec => StaysFound
<1> DEFINE Stays == \A n \in Nodes : \A w \in Types :
                        GetNextHop(n, w, TRUE) # UNSPECIFIED
                            => GetNextHop(n, w, TRUE)' # UNSPECIFIED
<1>1. BloomInv /\ BloomInv' /\ [Next]_vars => [Stays]_vars
  <2> SUFFICES ASSUME BloomInv, BloomInv', Next, NEW n \in Nodes, NEW w \in Types,
                      GetNextHop(n, w, TRUE) # UNSPECIFIED
               PROVE  GetNextHop(n, w, TRUE)' # UNSPECIFIED
    OBVIOUS
  <2>1. Claims(n, w) # {}
    BY FirstClaim
  <2>2. Claims(n, w)' # {}
    BY <2>1, ClaimsGrow
  <2>3. GetNextHop(n, w, TRUE)' = Min(Claims(n, w)')
    BY <2>2 DEF GetNextHop, Claims
  <2>4. Claims(n, w)' \subseteq Nodes
    BY DEF BloomInv, Claims
  <2>5. Claims(n, w)' \subseteq Nat /\ UNSPECIFIED \notin Claims(n, w)'
    BY <2>4, NodesAreNumbers, Zenon
  <2>6. Min(Claims(n, w)') \in Claims(n, w)'
    BY <2>2, <2>5, MinOfSet
  <2> QED
    BY <2>3, <2>5, <2>6
<1> QED
  BY <1>1, BloomInvHolds, PTL DEF Spec, StaysFound

=============================================================================
