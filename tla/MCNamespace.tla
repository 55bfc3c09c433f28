---------------------------- MODULE MCNamespace ----------------------------
(* Instances of Namespace for TLC. *)
EXTENDS Namespace, TLC

CONSTANTS p1, p2, n1, n2

Symmetry == Permutations(Name)
=============================================================================
