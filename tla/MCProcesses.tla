---------------------------- MODULE MCProcesses ----------------------------
(* An instance of Processes for TLC: each tick ends the time slice. *)
EXTENDS Processes

CONSTANTS i, m, idle, c1, c2, c3

ThreadsUsed == {i, m, idle, c1, c2, c3}
NoSlice == [t \in Thread |-> 0]
=============================================================================
