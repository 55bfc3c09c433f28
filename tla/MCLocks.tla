------------------------------ MODULE MCLocks ------------------------------
(* An instance of Locks for TLC: each tick of the timer ends the time slice. *)
EXTENDS Locks

CONSTANTS p1, p2, main, idle

ThreadsUsed == {p1, p2, main, idle}
NoSlice == [t \in Thread |-> 0]
=============================================================================
