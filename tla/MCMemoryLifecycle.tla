-------------------------- MODULE MCMemoryLifecycle --------------------------
(* A small instance of MemoryLifecycle. *)
EXTENDS MemoryLifecycle, TLC

CONSTANTS p1, p2, k1

Symmetry == Permutations(Writers)
=============================================================================
