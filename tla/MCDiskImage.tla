---------------------------- MODULE MCDiskImage ----------------------------
(* An instance of DiskImage for TLC. *)
EXTENDS DiskImage, TLC

CONSTANTS n1, n2, x1, y1

Symmetry == Permutations({n1, n2}) \cup Permutations({x1, y1})
=============================================================================
