--------------------------- MODULE MCContentIndex ---------------------------
(* Small instances of ContentIndex. *)
EXTENDS ContentIndex, TLC

CONSTANTS p1, p2, a, b, c

(* A message of two parts: the first is a, both together are b. *)
TwoParts == {<<a, b>>}

Symmetry == Permutations(Processes)
=============================================================================
