---------------------------- MODULE MCPgasSlots ----------------------------
(* Model values for PgasSlots: the clients share one slot.                 *)
EXTENDS PgasSlots

CONSTANTS c1, c2, w1, w2

SharedSlot == [c \in Client |-> 0]
=============================================================================
