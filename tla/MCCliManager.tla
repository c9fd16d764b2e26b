---------------------------- MODULE MCCliManager ----------------------------
(* Two or three callers, two process identities, wrap-around of generations. *)
EXTENDS CliManager, TLC

Symmetry == Permutations(Tasks) \cup Permutations(Pids)
=============================================================================
