------------------------------ MODULE MCBloom ------------------------------
(***************************************************************************)
(* Instances of BloomTable for TLC: two measures and the word of the sink. *)
(***************************************************************************)
EXTENDS BloomTable, TLC

\* Every word shares a bit with another one.
SharedBits == "humidity" :> {0, 1} @@ "light" :> {1, 2} @@ "SINK" :> {2, 0}

AnyBits == SUBSET Bits

=============================================================================
