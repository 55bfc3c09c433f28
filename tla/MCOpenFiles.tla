---------------------------- MODULE MCOpenFiles ----------------------------
(* An instance of OpenFiles for TLC. *)
EXTENDS OpenFiles, TLC

CONSTANTS p1, p2, f1

Symmetry == Permutations({p1, p2})
=============================================================================
