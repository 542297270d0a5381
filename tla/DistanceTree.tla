---------------------------- MODULE DistanceTree ----------------------------
(***************************************************************************)
(* What discovery promises: a tree rooted at the sink.  The sink is at     *)
(* level 0; a node joins once, one level below a node it hears that has    *)
(* joined already, and its level never changes.                            *)
(***************************************************************************)
EXTENDS Integers

CONSTANTS Nodes, Sink, Link

VARIABLE level

NotJoined == -1

Init == level = [n \in Nodes |-> NotJoined]

Root ==
    /\ level[Sink] = NotJoined
    /\ level' = [level EXCEPT ![Sink] = 0]

Join(n) ==
    /\ level[n] = NotJoined
    /\ \E m \in Nodes :
         /\ <<m, n>> \in Link
         /\ level[m] # NotJoined
         /\ level' = [level EXCEPT ![n] = level[m] + 1]

Next == Root \/ \E n \in Nodes \ {Sink} : Join(n)

Spec == Init /\ [][Next]_level

=============================================================================
