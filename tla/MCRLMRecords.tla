---------------------------- MODULE MCRLMRecords ----------------------------
(* Small instances of RLMRecords. *)
EXTENDS RLMRecords, TLC

CONSTANTS w1, w2

Symmetry == Permutations(Workers)
=============================================================================
