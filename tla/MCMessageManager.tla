-------------------------- MODULE MCMessageManager --------------------------
(* Model values for MessageManager: two nodes. *)
EXTENDS MessageManager, TLC

CONSTANTS c1, a1, b1, b2

MCNode == {0, 1}

(* The client and the b workers belong to node 1, the a worker to node 0. *)
MCHome == [t \in Client \cup Worker |-> IF t = a1 THEN 0 ELSE 1]

(* Node 1 has two messages to send, the calls of its client or heartbeats. *)
MCTwoCalls == [n \in Node |-> IF n = 0 THEN 0 ELSE 2]

(* Each node has one message to send. *)
MCOneEach == [n \in Node |-> 1]
=============================================================================
