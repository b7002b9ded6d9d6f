------------------------- MODULE MCCXLMemExpander -------------------------
(* Model values for CXLMemExpander. *)
EXTENDS CXLMemExpander, TLC

WorkerSymmetry == Permutations(Worker)
=============================================================================
