--------------------------- MODULE MCEmailIntents ---------------------------
(* EmailIntents for TLC: the threads are alike. *)
EXTENDS EmailIntents, TLC

Symmetry == Permutations(Threads)
=============================================================================
