---------------------------- MODULE MCDirectory ----------------------------
(* Instances of Directory for TLC. *)
EXTENDS Directory, TLC

CONSTANTS n1, n2, n3, n4

Symmetry == Permutations(Name)
=============================================================================
