------------------------------ MODULE IoQueue ------------------------------
(***************************************************************************)
(* The keyboard's ring buffer (src/src/device/ioqueue.c): readers that     *)
(* call ioq_getchar() in a system call, and the keyboard's interrupt       *)
(* handler that calls ioq_putchar().                                       *)
(*                                                                         *)
(* Both run with interrupts disabled, so a reader's call is cut only where *)
(* it blocks: on the queue's lock, held by a reader that sleeps, or in     *)
(* ioq_wait().  The handler puts a character only after testing that the   *)
(* queue is not full, so it never waits and ioq->producer stays NULL; the  *)
(* other callers, pipe_read() and pipe_write(), are called by nobody.      *)
(* The holder of the lock is that of Locks and is left out.                *)
(***************************************************************************)
EXTENDS Sync, FiniteSets

CONSTANTS
    Reader,   \* the processes that read the keyboard
    Char,
    bufsize,  \* length of the ring
    NULL

ASSUME IoQueueAssumption ==
    /\ Thread = Reader \cup {idle_thread} /\ idle_thread \notin Reader
    /\ IsFiniteSet(Reader)
    /\ bufsize \in Nat \ {0, 1}
    /\ NULL \notin Thread \cup Char

VARIABLES
    k,         \* the scheduler state of Threads
    lock,      \* ioq->lock, its semaphore
    consumer,  \* ioq->consumer: who sleeps in ioq_wait(), NULL when nobody
    buf, head, tail,
    got,       \* what ioq_getchar() returned last, by reader
    pc         \* user; queued: in lock_acquire(); asleep: in ioq_wait(); loop, hlt

vars == <<k, lock, consumer, buf, head, tail, got, pc>>

TypeOK ==
    /\ k \in SchedState
    /\ lock \in SemaState
    /\ consumer \in Reader \cup {NULL}
    /\ buf \in [0..bufsize - 1 -> Char \cup {NULL}]
    /\ head \in 0..bufsize - 1 /\ tail \in 0..bufsize - 1
    /\ got \in [Reader -> Char \cup {NULL}]
    /\ pc \in [Thread -> {"user", "queued", "asleep", "loop", "hlt"}]

\* ioqueue_init(), with the idle thread and some of the readers started; the
\* others take no part.
Init ==
    /\ \E live \in SUBSET Reader : \E r \in live, ready \in [1..Cardinality(live) -> Thread] :
         /\ Elements(ready) = (live \cup {idle_thread}) \ {r}
         /\ k = [cur |-> r, ready |-> ready,
                 status |-> [t \in Thread |-> CASE t = r -> "RUNNING"
                                                [] t \in Reader \ live -> "DIED"
                                                [] OTHER -> "READY"],
                 ticks |-> Priority, fault |-> "none"]
    /\ lock = sema_init(1)
    /\ consumer = NULL
    /\ buf = [i \in 0..bufsize - 1 |-> NULL] /\ head = 0 /\ tail = 0
    /\ got = [r \in Reader |-> NULL]
    /\ pc = [t \in Thread |-> IF t = idle_thread THEN "loop" ELSE "user"]

----------------------------------------------------------------------------
next_pos(pos) == (pos + 1) % bufsize
ioq_full == next_pos(head) = tail
ioq_empty == head = tail
ioq_length == IF head >= tail THEN head - tail ELSE bufsize - (tail - head)

Runs(t, where) == k.fault = "none" /\ k.cur = t /\ pc[t] = where

Goto(t, where) == pc' = [pc EXCEPT ![t] = where]

\* The body of the loop of ioq_getchar(), from scheduler state s and lock m:
\* take the lock and sleep in ioq_wait(), or queue for the lock.
Wait(t, s, m) ==
    \/ /\ m.value # 0
       /\ lock' = Take(m)
       /\ consumer' = t
       /\ k' = thread_block(Check(TakeCheck(s, m), consumer = NULL, "ioqueue.c:26"), "BLOCKED")
       /\ Goto(t, "asleep")
    \/ /\ m.value = 0
       /\ lock' = Enqueue(m, t)
       /\ k' = SleepOn(s, m)
       /\ Goto(t, "queued")
       /\ UNCHANGED consumer

\* The test of the loop, and what follows it when there is a character.
Get(t, s, m) ==
    \/ /\ ioq_empty
       /\ Wait(t, s, m)
       /\ UNCHANGED <<buf, head, tail, got>>
    \/ /\ ~ioq_empty
       /\ got' = [got EXCEPT ![t] = buf[tail]]
       /\ tail' = next_pos(tail)
       /\ k' = s /\ lock' = m
       /\ Goto(t, "user")
       /\ UNCHANGED <<consumer, buf, head>>

ioq_getchar(t) == Runs(t, "user") /\ Get(t, k, lock)

\* Back from sema_down()'s thread_block(): the semaphore is tested again, the
\* queue is not (ioqueue.c:41-42).
TryLock(t) ==
    /\ Runs(t, "queued") /\ Wait(t, k, lock)
    /\ UNCHANGED <<buf, head, tail, got>>

\* Mutant: the lock is not released after ioq_wait().
Awake_KeepsLock(t) == Runs(t, "asleep") /\ Get(t, k, lock)

\* Back from ioq_wait(): lock_release(), then the test of the loop.
Awake(t) == Runs(t, "asleep") /\ Get(t, Signal(k, lock), Signalled(lock))

----------------------------------------------------------------------------
IF_on == pc[k.cur] \in {"user", "loop", "hlt"}

EndHalt == pc' = IF k.cur = idle_thread THEN [pc EXCEPT ![idle_thread] = "loop"] ELSE pc

\* The keyboard's handler with a character to deliver: dropped when the queue is
\* full, else ioq_putchar(), which wakes the reader that sleeps.
Drop(c) ==
    /\ k.fault = "none" /\ IF_on
    /\ ioq_full
    /\ EndHalt
    /\ UNCHANGED <<k, lock, consumer, buf, head, tail, got>>

\* buf[head] = c, in the keyboard's interrupt.
PutInto(c) == /\ k.fault = "none" /\ IF_on
              /\ buf' = [buf EXCEPT ![head] = c]
              /\ head' = next_pos(head)
              /\ EndHalt
              /\ UNCHANGED <<lock, tail, got>>

\* Mutant: nobody tests that there is room.
ioq_putchar_NoTest(c) ==
    /\ PutInto(c)
    /\ IF consumer # NULL
       THEN k' = thread_unblock(k, consumer) /\ consumer' = NULL
       ELSE UNCHANGED <<k, consumer>>

\* Mutant: the reader is not woken.
ioq_putchar_NoWake(c) == ~ioq_full /\ PutInto(c) /\ UNCHANGED <<k, consumer>>

ioq_putchar(c) ==
    /\ ~ioq_full /\ PutInto(c)
    /\ IF consumer # NULL
       THEN k' = thread_unblock(k, consumer) /\ consumer' = NULL
       ELSE UNCHANGED <<k, consumer>>

Timer ==
    /\ k.fault = "none" /\ IF_on
    /\ k' = intr_timer_handler(k)
    /\ EndHalt
    /\ UNCHANGED <<lock, consumer, buf, head, tail, got>>

IdleBlock ==
    /\ Runs(idle_thread, "loop")
    /\ k' = thread_block(k, "BLOCKED")
    /\ Goto(idle_thread, "hlt")
    /\ UNCHANGED <<lock, consumer, buf, head, tail, got>>

Key == \E c \in Char : ioq_putchar(c) \/ Drop(c)

Next ==
    \/ \E t \in Reader : ioq_getchar(t) \/ TryLock(t) \/ Awake(t)
    \/ Key \/ Timer \/ IdleBlock

Spec == Init /\ [][Next]_vars

\* The CPU gets on with a call it has begun and the timer ticks; keys need not
\* be pressed and readers need not read.
Fairness ==
    /\ \A t \in Reader : SF_vars(TryLock(t)) /\ SF_vars(Awake(t))
    /\ SF_vars(Timer) /\ SF_vars(IdleBlock)

FairSpec == Spec /\ Fairness

----------------------------------------------------------------------------
\* The ring implements a queue of bufsize - 1 characters: none is lost, repeated
\* or overwritten before it is read, across the wrap of head and tail.
Queue == [i \in 1..ioq_length |-> buf[(tail + i - 1) % bufsize]]

F == INSTANCE Fifo WITH queue <- Queue, Capacity <- bufsize - 1

IsFifo == F!Spec

\* Readers that sleep are never out of reach: either ioq->consumer names one, so
\* the next key wakes it, or one is awake and will pass the lock on.
SleepersReachable ==
    (\E t \in Reader : k.status[t] = "BLOCKED") =>
      \/ consumer # NULL
      \/ \E t \in Reader : pc[t] # "user" /\ k.status[t] \in {"READY", "RUNNING"}

Alone(t) == \A u \in Reader \ {t} : k.status[u] = "DIED"

\* A key ends the sleep of a single reader.
ReaderServed ==
    \A t \in Reader : (Alone(t) /\ pc[t] # "user" /\ ~ioq_empty) ~> pc[t] = "user"
=============================================================================
