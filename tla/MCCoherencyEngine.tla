------------------------- MODULE MCCoherencyEngine --------------------------
(* Instances of CoherencyEngine with one local and two remote nodes, so that *)
(* a line can be owned locally, owned remotely and shared at the same time.  *)
EXTENDS CoherencyEngine, TLC

\* remote nodes, lines and heads are interchangeable
EngineSymmetry ==
  Permutations(Node \ {LocalNode}) \cup Permutations(Line) \cup Permutations(Head)
=============================================================================
