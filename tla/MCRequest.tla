----------------------------- MODULE MCRequest -----------------------------
(***************************************************************************)
(* Instances of SRRequestSettled for TLC: the tables that discovery builds *)
(* when no frame is lost.                                                  *)
(***************************************************************************)
EXTENDS SRRequestSettled, TLC

Both(edges) == edges \cup {<<e[2], e[1]>> : e \in edges}

\* Sensors 1 and 3 hear the sink 2 and each other; 4 hears only 3.
LinkKite == Both({<<2, 1>>, <<2, 3>>, <<1, 3>>, <<3, 4>>})
HopsKite == 1 :> 1 @@ 2 :> 0 @@ 3 :> 1 @@ 4 :> 2
AreaKite == 1 :> 0 @@ 2 :> 1 @@ 3 :> 1 @@ 4 :> 1

\* The identifier of node n at the given distance and in the given area.
MakeID(n, distance, area) == setArea(setSinkDistance(setMACExt(0, n), distance), area)

IDsKite == [n \in Nodes |-> MakeID(n, HopsKite[n], AreaKite[n])]

\* A sensor lists every node it hears, the sink under its first identifier;
\* the sink lists the last sensor that asked it, under NOT_INITIALIZED.
KeyOf(m) == IF m = Sink THEN MakeID(Sink, 0, 0) ELSE IDsKite[m]

NeighborsKite ==
    [n \in Nodes |->
        IF n = Sink THEN NOT_INITIALIZED :> 3
        ELSE [k \in {KeyOf(m) : m \in Hearers(n)} |-> getMACExt(k)]]

FiltersKite == [n \in Nodes |-> [m \in Hearers(n) |-> m]]

StampsKite == [n \in Requesters |-> 4096 * n]

=============================================================================
