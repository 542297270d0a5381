------------------------------ MODULE MCDirect ------------------------------
(***************************************************************************)
(* Instances of DirectTransfer for TLC.                                    *)
(***************************************************************************)
EXTENDS DirectTransfer

CONSTANTS d1, d2, coord

\* Every node hears every other.
OneCell == [n \in Nodes |-> Nodes \ {n}]

\* The data of d1 is as short as can be.
Bytes(b) == [n \in Nodes |-> IF n = d1 THEN 1 ELSE b]

TwoDevices(b) ==
    [links |-> Devices \X {Coord}, data |-> 1, payload |-> Bytes(b),
     fades |-> {}, capture |-> TRUE]
BothWays(b) ==
    [links |-> {<<d1, Coord>>, <<Coord, d1>>}, data |-> 1, payload |-> Bytes(b),
     fades |-> {}, capture |-> TRUE]
Fading ==
    [links |-> {<<d1, Coord>>}, data |-> 2, payload |-> Bytes(1),
     fades |-> {d1, Coord}, capture |-> TRUE]

\* 46 bytes leave time for one idle assessment before the ACK.  45 bytes of the
\* coordinator end such that its task can fail when it has an ACK to send; 100 outlast
\* the wait for an ACK.
AllSettings == {TwoDevices(46), BothWays(45), Fading}
OneSetting == {TwoDevices(100)}

OneDraws == [n \in Nodes |-> IF n = d1 THEN {0, 2} ELSE {0}]

=============================================================================
