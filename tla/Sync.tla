-------------------------------- MODULE Sync --------------------------------
(***************************************************************************)
(* The binary semaphores of Winx (src/src/thread/sync.c) as operators.  A  *)
(* semaphore is its value and its list of waiters, which is linked through *)
(* the same general_tag as the ready list.  sema_down() and sema_up() run  *)
(* with interrupts disabled; sema_down() is cut only where it blocks, so   *)
(* its loop is one test of "value" per visit, either taking the semaphore  *)
(* or going to sleep and testing again when it is scheduled next.          *)
(***************************************************************************)
EXTENDS Threads

SemaState == [value : Nat, waiters : Seq(Thread)]

sema_init(value) == [value |-> value, waiters |-> <<>>]

\* sema_down() finds the semaphore taken: the caller joins the waiters and
\* blocks.
Enqueue(sema, t) == [sema EXCEPT !.waiters = Append(@, t)]

SleepOn(s, sema) ==
    thread_block(Check(s, s.cur \notin Elements(sema.waiters), "sync.c:23"), "BLOCKED")

\* sema_down() finds the semaphore free.
Take(sema) == [sema EXCEPT !.value = @ - 1]

TakeCheck(s, sema) == Check(s, sema.value = 1, "sync.c:34")

\* Mutant: the waiter is looked at with the list's head, not popped.
Signalled_Peeks(sema) == [sema EXCEPT !.value = @ + 1]

\* sema_up(): the first waiter, if any, is made ready before value grows; the
\* semaphore is not handed over, the woken thread has to win it.
Signalled(sema) ==
    [value |-> sema.value + 1,
     waiters |-> IF sema.waiters = <<>> THEN <<>> ELSE Tail(sema.waiters)]

\* Mutant: sema_up() forgets the waiter.
Signal_NoWake(s, sema) == Check(s, sema.value = 0, "sync.c:41")

Signal(s, sema) ==
    LET c == Check(s, sema.value = 0, "sync.c:41")
    IN  IF sema.waiters = <<>> THEN c ELSE thread_unblock(c, Head(sema.waiters))
=============================================================================
