----------------------------- MODULE MCIoQueue -----------------------------
(* An instance of IoQueue for TLC: each tick ends the time slice. *)
EXTENDS IoQueue

CONSTANTS r1, r2, idle

ThreadsUsed == Reader \cup {idle}
NoSlice == [t \in Thread |-> 0]
=============================================================================
