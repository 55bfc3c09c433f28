-------------------------------- MODULE Heap --------------------------------
(***************************************************************************)
(* What sys_malloc() and sys_free() promise their callers: the regions     *)
(* that are handed out are never empty and never overlap, and a region is  *)
(* its caller's until he gives it back.                                    *)
(***************************************************************************)
EXTENDS Naturals

CONSTANT Address

VARIABLE regions   \* the regions handed out

Init == regions = {}

Malloc == \E r \in SUBSET Address :
    /\ r # {} /\ r \cap UNION regions = {}
    /\ regions' = regions \cup {r}

Free == \E r \in regions : regions' = regions \ {r}

Next == Malloc \/ Free

Spec == Init /\ [][Next]_regions
=============================================================================
