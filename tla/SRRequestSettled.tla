-------------------------- MODULE SRRequestSettled --------------------------
(***************************************************************************)
(* Requests in a network in which discovery is over: its tables are        *)
(* constants of which only what discovery guarantees is assumed.           *)
(***************************************************************************)
EXTENDS SRRequest

CONSTANTS
    IDs,        \* the identifiers
    Neighbors,  \* every node's neighborList
    Filters     \* every node's NeighborsTable

ASSUME SettledAssumption ==
    /\ IDs \in [Nodes -> UINT16]
    /\ DOMAIN Neighbors = Nodes
    /\ \A n \in Nodes :
         /\ DOMAIN Neighbors[n] \subseteq UINT16
         /\ \A k \in DOMAIN Neighbors[n] : Neighbors[n][k] \in Nodes \cup {UNSPECIFIED}
    /\ DOMAIN Filters = Nodes
    /\ \A n \in Nodes : DOMAIN Filters[n] \subseteq Nodes

TablesSettled ==
    /\ myID = IDs
    /\ neighborList = Neighbors
    /\ NeighborsTable = Filters

\* selectRandomType and the contents of the Bloom filters decide who claims
\* to measure humidity.
Init ==
    /\ TablesSettled
    /\ provides \in SUBSET Nodes
    /\ RequestInit

Next == RequestNext

Spec == Init /\ [][Next]_vars

\* The event queue is served in time order: nothing that is scheduled or
\* received waits for ever.  Requests need not be generated.
FairSpec ==
    /\ Spec
    /\ WF_vars(\E p \in BagToSet(sending) : SendNic(p))
    /\ WF_vars(\E f \in BagToSet(flying) : handleNicNormalMsg(f))

=============================================================================
