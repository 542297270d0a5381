--------------------------- MODULE PacketTransfer ---------------------------
(***************************************************************************)
(* What srwsn802154MAC.cc promises its upper layers, in a guaranteed time  *)
(* slot as well as in the contention access period: data is indicated at   *)
(* most once, and only data that the receiver has is confirmed.            *)
(***************************************************************************)
CONSTANT Packets

VARIABLES
    sender,     \* of each packet: "out" of the MAC, "taken" or "confirmed"
    receiver    \* of each packet: "no", "held" (rxData) or "indicated"

Init ==
    /\ sender = [p \in Packets |-> "out"]
    /\ receiver = [p \in Packets |-> "no"]

\* The upper layer hands down a packet.
Take(p) ==
    /\ sender[p] = "out"
    /\ sender' = [sender EXCEPT ![p] = "taken"]
    /\ UNCHANGED receiver

\* The first frame of the packet that arrives; others are repetitions.
Accept(p) ==
    /\ sender[p] = "taken" /\ receiver[p] = "no"
    /\ receiver' = [receiver EXCEPT ![p] = "held"]
    /\ UNCHANGED sender

\* MCPS_DATA_indication
Indicate(p) ==
    /\ receiver[p] = "held"
    /\ receiver' = [receiver EXCEPT ![p] = "indicated"]
    /\ UNCHANGED sender

\* taskSuccess
Confirm(p) ==
    /\ sender[p] = "taken" /\ receiver[p] # "no"
    /\ sender' = [sender EXCEPT ![p] = "confirmed"]
    /\ UNCHANGED receiver

\* taskFailed.  The receiver may have the packet all the same.
Fail(p) ==
    /\ sender[p] = "taken"
    /\ sender' = [sender EXCEPT ![p] = "out"]
    /\ UNCHANGED receiver

Next == \E p \in Packets : Take(p) \/ Accept(p) \/ Indicate(p) \/ Confirm(p) \/ Fail(p)

Spec == Init /\ [][Next]_<<sender, receiver>>

=============================================================================
