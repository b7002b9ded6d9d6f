------------------------- MODULE MCDistributedServer -------------------------
(* Every other node connects to node 0, whose TCPServer then has two      *)
(* connections when there are three nodes.  Node 1 has the guests.        *)
EXTENDS DistributedServer

StarPeers == [n \in Node |-> IF n = 0 THEN <<>> ELSE <<0>>]

GuestsOfOne == [n \in Node |-> IF n = 1 THEN Guest ELSE {}]
=============================================================================
