------------------------------- MODULE Mutex -------------------------------
(***************************************************************************)
(* What the locks of Winx promise (sync.c lock_acquire, lock_release),     *)
(* without semaphores, lists or a scheduler: a lock has at most one        *)
(* holder, whoever holds it gives it back, and a lock that is free while   *)
(* somebody waits is taken.  It does not promise that a given waiter ever  *)
(* gets it: sema_up() does not hand the semaphore to the thread it wakes.  *)
(***************************************************************************)
CONSTANTS Thread, Lock

VARIABLES holders,  \* the threads between acquire and release, by lock
          waiting   \* the threads that are acquiring, by lock

vars == <<holders, waiting>>

Init == /\ holders = [l \in Lock |-> {}]
        /\ waiting = [l \in Lock |-> {}]

Request(t, l) ==
    /\ \A m \in Lock : t \notin holders[m] \cup waiting[m]
    /\ waiting' = [waiting EXCEPT ![l] = @ \cup {t}]
    /\ UNCHANGED holders

Acquire(t, l) ==
    /\ t \in waiting[l] /\ holders[l] = {}
    /\ holders' = [holders EXCEPT ![l] = {t}]
    /\ waiting' = [waiting EXCEPT ![l] = @ \ {t}]

Release(t, l) ==
    /\ holders[l] = {t}
    /\ holders' = [holders EXCEPT ![l] = {}]
    /\ UNCHANGED waiting

Next == \E t \in Thread, l \in Lock : Request(t, l) \/ Acquire(t, l) \/ Release(t, l)

Spec == Init /\ [][Next]_vars

=============================================================================
