----------------------------- MODULE MCShmRing -----------------------------
(* Model values for ShmRing. *)
EXTENDS ShmRing
=============================================================================
