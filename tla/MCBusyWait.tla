----------------------------- MODULE MCBusyWait -----------------------------
(* Instances of BusyWait for TLC. *)
EXTENDS BusyWait

CONSTANTS p1, p2, p3, idle

ThreadsUsed == Worker \cup {idle}
Slice == [t \in Thread |-> 1]
=============================================================================
