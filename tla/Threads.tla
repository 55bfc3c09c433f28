------------------------------ MODULE Threads ------------------------------
(***************************************************************************)
(* The scheduler of Winx (src/src/thread/thread.c) as operators on one     *)
(* record, the scheduler state:                                            *)
(*                                                                         *)
(*   cur     the thread the one CPU runs, running_thread()                 *)
(*   ready   thread_ready_list, linked through general_tag                 *)
(*   status  task_struct.status of every thread                            *)
(*   ticks   task_struct.ticks, what is left of the thread's time slice    *)
(*   fault   the first ASSERT or PANIC that failed, "none" before that     *)
(*                                                                         *)
(* Each operator is what the C function does with interrupts disabled, so  *)
(* a module that models a caller applies it within one action.  A failing  *)
(* ASSERT stops the machine (debug.c: cli, then an endless loop): it is    *)
(* recorded in "fault", and the callers' actions all require "none".       *)
(***************************************************************************)
EXTENDS Naturals, Sequences

CONSTANTS
    Thread,      \* every task_struct, the idle thread included
    idle_thread, \* the thread schedule() falls back to
    Priority     \* task_struct.priority of every thread

ASSUME ThreadsAssumption ==
    /\ idle_thread \in Thread
    /\ Priority \in [Thread -> Nat]

Status == {"RUNNING", "READY", "BLOCKED", "WAITING", "HANGING", "DIED"}

\* The states thread_block() accepts and thread_unblock() expects.
Blocked == {"BLOCKED", "WAITING", "HANGING"}

\* The ASSERTs of the scheduler and of the modules built on it.
Site == {"thread.c:142", "thread.c:153", "thread.c:203", "thread.c:207", "thread.c:220",
         "sync.c:23", "sync.c:34", "sync.c:41", "sync.c:57", "sync.c:65", "sync.c:71",
         "ioqueue.c:26", "wait_exit.c:129", "wait_exit.c:137", "thread.c:321"}

SchedState ==
    [cur : Thread, ready : Seq(Thread), status : [Thread -> Status],
     ticks : [Thread -> Nat], fault : Site \cup {"none"}]

Elements(list) == {list[i] : i \in 1..Len(list)}

\* PANIC, and ASSERT, which panics unless cond holds.
Panic(s, line) == IF s.fault = "none" THEN [s EXCEPT !.fault = line] ELSE s

Check(s, cond, line) == IF cond THEN s ELSE Panic(s, line)

thread_unblock(s, t) ==
    IF s.status[t] \notin Blocked THEN Panic(s, "thread.c:203")
    ELSE IF t \in Elements(s.ready) THEN Panic(s, "thread.c:207")
    ELSE [s EXCEPT !.ready = <<t>> \o @, !.status[t] = "READY"]

\* The first half of schedule(): a thread that is still RUNNING has used up
\* its slice and goes to the tail of the ready list.
Requeue(s) ==
    IF s.status[s.cur] # "RUNNING" THEN s
    ELSE IF s.cur \in Elements(s.ready) THEN Panic(s, "thread.c:142")
    ELSE [s EXCEPT !.ready = Append(@, s.cur),
                   !.ticks[s.cur] = Priority[s.cur],
                   !.status[s.cur] = "READY"]

\* The second half: the idle thread when nothing else is ready, then the head
\* of the ready list becomes the running thread.
WakeIdle(s) == IF s.ready = <<>> THEN thread_unblock(s, idle_thread) ELSE s

Dispatch(s) ==
    IF s.ready = <<>> THEN Panic(s, "thread.c:153")
    ELSE [s EXCEPT !.cur = Head(s.ready),
                   !.ready = Tail(s.ready),
                   !.status[Head(s.ready)] = "RUNNING"]

schedule(s) == Dispatch(WakeIdle(Requeue(s)))

thread_block(s, stat) == schedule([s EXCEPT !.status[s.cur] = stat])

thread_yield(s) ==
    IF s.cur \in Elements(s.ready) THEN Panic(s, "thread.c:220")
    ELSE schedule([s EXCEPT !.ready = Append(@, s.cur), !.status[s.cur] = "READY"])

intr_timer_handler(s) ==
    IF s.ticks[s.cur] = 0 THEN schedule(s) ELSE [s EXCEPT !.ticks[s.cur] = @ - 1]
=============================================================================
