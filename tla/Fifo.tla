-------------------------------- MODULE Fifo --------------------------------
(***************************************************************************)
(* What an ioqueue promises its users: a queue of at most Capacity         *)
(* characters that come out once each, in the order they went in.          *)
(***************************************************************************)
EXTENDS Naturals, Sequences

CONSTANTS Reader, Char, Capacity, NULL

VARIABLES queue, \* the characters in the queue, oldest first
          got    \* what each reader was given last

vars == <<queue, got>>

Init == queue = <<>> /\ got = [r \in Reader |-> NULL]

Put(c) == /\ Len(queue) < Capacity
          /\ queue' = Append(queue, c)
          /\ UNCHANGED got

Get(r) == /\ queue # <<>>
          /\ got' = [got EXCEPT ![r] = Head(queue)]
          /\ queue' = Tail(queue)

Next == (\E c \in Char : Put(c)) \/ (\E r \in Reader : Get(r))

Spec == Init /\ [][Next]_vars
=============================================================================
