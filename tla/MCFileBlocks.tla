---------------------------- MODULE MCFileBlocks ----------------------------
(* Instances of FileBlocks for TLC. *)
EXTENDS FileBlocks, TLC

CONSTANTS f1, f2

Symmetry == Permutations(File)
=============================================================================
