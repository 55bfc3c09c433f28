-------------------------------- MODULE Tree --------------------------------
(***************************************************************************)
(* What the system calls on paths promise: a tree of directories with      *)
(* files at its leaves.  A call adds one path below a directory, removes   *)
(* one path that has nothing below it, or changes nothing.                 *)
(***************************************************************************)
EXTENDS Naturals, Sequences, SequencesExt

CONSTANTS Path,  \* sequences of names, with every prefix of a member
          NULL

VARIABLE tree    \* "dir" or "file" at each path, NULL where nothing is

Init == tree = [p \in Path |-> IF p = <<>> THEN "dir" ELSE NULL]

OnlyAt(p) ==
    tree'[p] # tree[p] /\ \A q \in Path \ {p} : tree'[q] = tree[q]

AddLeaf(p) ==
    /\ p # <<>> /\ tree[p] = NULL /\ tree[Front(p)] = "dir"
    /\ OnlyAt(p)

RemoveLeaf(p) ==
    /\ p # <<>> /\ tree[p] # NULL /\ tree'[p] = NULL
    /\ \A q \in Path : IsStrictPrefix(p, q) => tree[q] = NULL
    /\ OnlyAt(p)

Next == \E p \in Path : AddLeaf(p) \/ RemoveLeaf(p)

Spec == Init /\ [][Next]_tree
=============================================================================
