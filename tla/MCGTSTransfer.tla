--------------------------- MODULE MCGTSTransfer ---------------------------
(***************************************************************************)
(* Instances of GTSTransfer for TLC.                                       *)
(***************************************************************************)
EXTENDS GTSTransfer, TLC

CONSTANTS d1, d2, d3, d4, coord

\* In slots of 240 symbols d1 has room for two transactions in its one slot, d2
\* needs two slots, d3 and d4 one.
Mixed == [d \in Devices |-> CASE d = d1 -> 5 [] d = d2 -> 102 [] d \in {d3, d4} -> 50]

\* A lossy channel: two devices (one of them receives, or none) and a packet for
\* each node, or one device and two packets.  A reliable one: three devices and a
\* packet for each node, or two devices and two packets.  At last four devices, one
\* more than gtsList has room for here.
SmallNetworks ==
    {[on |-> {d1, d2}, data |-> 1, lossy |-> TRUE],
     [on |-> {d1, d3}, data |-> 1, lossy |-> TRUE],
     [on |-> {d1}, data |-> 2, lossy |-> TRUE],
     [on |-> {d2}, data |-> 2, lossy |-> TRUE],
     [on |-> {d1, d2, d3}, data |-> 1, lossy |-> FALSE],
     [on |-> {d1, d2}, data |-> 2, lossy |-> FALSE],
     [on |-> Devices, data |-> 0, lossy |-> TRUE]}

=============================================================================
