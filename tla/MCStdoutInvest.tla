---------------------------- MODULE MCStdoutInvest ----------------------------
(* StdoutInvest on small instances; the threads are alike. *)
EXTENDS StdoutInvest

Symmetry == Permutations(Thread)
=============================================================================
