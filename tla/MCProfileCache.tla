---------------------------- MODULE MCProfileCache ---------------------------
(* ProfileCache with interchangeable threads. *)
EXTENDS ProfileCache, TLC

ThreadSymmetry == Permutations(Thread)
==============================================================================
