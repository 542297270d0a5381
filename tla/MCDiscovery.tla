---------------------------- MODULE MCDiscovery ----------------------------
(***************************************************************************)
(* Instances of SRDiscovery for TLC.                                       *)
(***************************************************************************)
EXTENDS SRDiscovery, TLC

Both(edges) == edges \cup {<<e[2], e[1]>> : e \in edges}

\* Sensors 1 and 3 hear the sink 2 and each other; 4 hears only 3.
LinkKite == Both({<<2, 1>>, <<2, 3>>, <<1, 3>>, <<3, 4>>})
HopsKite == (1 :> 1) @@ (2 :> 0) @@ (3 :> 1) @@ (4 :> 2)

\* Two sensors around the sink 2 that hear each other.
LinkTriangle == Both({<<2, 1>>, <<2, 3>>, <<1, 3>>})
HopsTriangle == (1 :> 1) @@ (2 :> 0) @@ (3 :> 1)

\* A line of seventeen nodes, one hop longer than four bits can count.  Behind
\* the first sensor, no node hears the one behind it.
LinkLine == Both({<<1, 2>>}) \cup {<<i, i + 1>> : i \in 2..16}
HopsLine == [i \in 1..17 |-> i - 1]

\* The copies of requests and replies between the sink and the first sensor
\* are followed in every order until the third node is identified; from then
\* on, only with one packet scheduled and two frames in the air.
LineConstraint ==
    Identified(3) => Cardinality(scheduled) <= 1 /\ Cardinality(air) <= 2

=============================================================================
