---------------------------- MODULE MCMainServer ----------------------------
(* MainServer on small instances; threads and workers are interchangeable.  *)
EXTENDS MainServer, TLC

ServerSymmetry == Permutations(Worker) \cup Permutations(Thread)
=============================================================================
