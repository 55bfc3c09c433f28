------------------------------ MODULE BusyWait ------------------------------
(***************************************************************************)
(* busy_wait() in ide.c: a thread that has sent a command polls the drive, *)
(* and between two polls sleeps with mtime_sleep(), which yields the CPU   *)
(* until the timer has ticked often enough.                                *)
(*                                                                         *)
(* The poller is a process in a system call, so interrupts are disabled    *)
(* while it has the CPU, and stay so in thread_yield(): ticks only moves   *)
(* while another thread runs with interrupts enabled.  The other processes *)
(* are in user mode or asleep in the kernel until a key is pressed.        *)
(***************************************************************************)
EXTENDS Threads, FiniteSets

CONSTANTS
    Worker,      \* the processes
    TimeLimit,   \* how often the drive is polled before busy_wait() gives up
    SleepTicks,  \* the ticks of one mtime_sleep(10)
    NULL

ASSUME BusyWaitAssumption ==
    /\ Thread = Worker \cup {idle_thread} /\ idle_thread \notin Worker
    /\ IsFiniteSet(Worker) /\ NULL \notin Thread
    /\ TimeLimit \in Nat \ {0} /\ SleepTicks \in Nat \ {0}

VARIABLES
    k,       \* the scheduler state of Threads
    pc,      \* user, poll, sleep (in mtime_sleep), blocked; loop, awake, hlt
    poller,  \* the process that uses the drive, it has the channel's lock
    busy,    \* the BSY bit of the drive
    left,    \* time_limit
    slept,   \* the ticks of the present mtime_sleep(), SleepTicks at most
    waited   \* the ticks since the command was sent, as far as they matter

vars == <<k, pc, poller, busy, left, slept, waited>>

MaxWait == TimeLimit * SleepTicks

TypeOK ==
    /\ k \in [cur : Thread, ready : Seq(Thread), status : [Thread -> Status],
              ticks : [Thread -> Nat], fault : Site \cup {"ide.c:162", "none"}]
    /\ pc \in [Thread -> {"user", "poll", "sleep", "blocked", "loop", "awake", "hlt"}]
    /\ poller \in Worker \cup {NULL}
    /\ busy \in BOOLEAN
    /\ left \in 0..TimeLimit /\ slept \in 0..SleepTicks /\ waited \in 0..MaxWait

Init ==
    /\ \E t \in Worker, ready \in [1..Cardinality(Thread) - 1 -> Thread] :
         /\ Elements(ready) = Thread \ {t}
         /\ k = [cur |-> t, ready |-> ready,
                 status |-> [u \in Thread |-> IF u = t THEN "RUNNING" ELSE "READY"],
                 ticks |-> Priority, fault |-> "none"]
    /\ pc = [t \in Thread |-> IF t = idle_thread THEN "loop" ELSE "user"]
    /\ poller = NULL /\ busy = FALSE
    /\ left = 0 /\ slept = 0 /\ waited = 0

----------------------------------------------------------------------------
IF_on == pc[k.cur] = "user" \/ k.cur = idle_thread

Runs(t, where) == k.fault = "none" /\ k.cur = t /\ pc[t] = where

Goto(t, where) == pc' = [pc EXCEPT ![t] = where]

\* ide_write() sends its command; the drive takes its time, or does not.
cmd_out(t) ==
    /\ Runs(t, "user") /\ poller = NULL
    /\ poller' = t
    /\ busy' \in BOOLEAN
    /\ left' = TimeLimit /\ slept' = 0 /\ waited' = 0
    /\ Goto(t, "poll")
    /\ UNCHANGED k

\* One round of busy_wait(): "time_limit -= 10 >= 0" takes one away.
PollReady(t) ==
    /\ Runs(t, "poll") /\ left > 1 /\ ~busy
    /\ poller' = NULL
    /\ left' = 0 /\ slept' = 0 /\ waited' = 0
    /\ Goto(t, "user")
    /\ UNCHANGED <<k, busy>>

\* Mutant of PollBusy: the limit is not counted down.
PollBusy_Forever(t) ==
    /\ Runs(t, "poll") /\ left > 1 /\ busy
    /\ slept' = 0
    /\ Goto(t, "sleep")
    /\ UNCHANGED <<k, poller, busy, left, waited>>

PollBusy(t) ==
    /\ Runs(t, "poll") /\ left > 1 /\ busy
    /\ left' = left - 1
    /\ slept' = 0
    /\ Goto(t, "sleep")
    /\ UNCHANGED <<k, poller, busy, waited>>

\* ide_read() and ide_write() panic when the limit is reached.
GiveUp(t) ==
    /\ Runs(t, "poll") /\ left = 1
    /\ left' = 0
    /\ k' = Panic(k, "ide.c:162")
    /\ UNCHANGED <<pc, poller, busy, slept, waited>>

\* Mutant of Sleep: the CPU is given up once, whatever the ticks.
Sleep_Once(t) ==
    /\ Runs(t, "sleep")
    /\ k' = thread_yield(k)
    /\ Goto(t, "poll")
    /\ UNCHANGED <<poller, busy, left, slept, waited>>

\* ticks_to_sleep(): yield until enough ticks have passed.
Sleep(t) ==
    /\ Runs(t, "sleep")
    /\ \/ /\ slept < SleepTicks
          /\ k' = thread_yield(k)
          /\ UNCHANGED pc
       \/ /\ slept = SleepTicks
          /\ Goto(t, "poll")
          /\ UNCHANGED k
    /\ UNCHANGED <<poller, busy, left, slept, waited>>

\* Another process waits for a key in a system call.
Block(t) ==
    /\ Runs(t, "user")
    /\ Goto(t, "blocked")
    /\ k' = thread_block(k, "BLOCKED")
    /\ UNCHANGED <<poller, busy, left, slept, waited>>

Return(t) ==
    /\ Runs(t, "blocked")
    /\ Goto(t, "user")
    /\ UNCHANGED <<k, poller, busy, left, slept, waited>>

IdleBlock ==
    /\ Runs(idle_thread, "loop")
    /\ k' = thread_block(k, "BLOCKED")
    /\ Goto(idle_thread, "awake")
    /\ UNCHANGED <<poller, busy, left, slept, waited>>

IdleHalt ==
    /\ Runs(idle_thread, "awake")
    /\ Goto(idle_thread, "hlt")
    /\ UNCHANGED <<k, poller, busy, left, slept, waited>>

----------------------------------------------------------------------------
EndHalt ==
    pc' = IF k.cur = idle_thread /\ pc[idle_thread] = "hlt"
          THEN [pc EXCEPT ![idle_thread] = "loop"] ELSE pc

Interrupt == k.fault = "none" /\ IF_on /\ EndHalt

\* intr_timer_handler().
Tick ==
    /\ Interrupt
    /\ k' = intr_timer_handler(k)
    /\ slept' = IF poller # NULL /\ pc[poller] = "sleep" /\ slept < SleepTicks
                THEN slept + 1 ELSE slept
    /\ waited' = IF poller # NULL /\ waited < MaxWait THEN waited + 1 ELSE waited
    /\ UNCHANGED <<poller, busy, left>>

\* A key wakes a process that waits for one.
Key(t) ==
    /\ Interrupt
    /\ pc[t] = "blocked" /\ k.status[t] = "BLOCKED"
    /\ k' = thread_unblock(k, t)
    /\ UNCHANGED <<poller, busy, left, slept, waited>>

\* The drive is done with the command, without asking the CPU.
DriveReady ==
    /\ k.fault = "none" /\ busy
    /\ busy' = FALSE
    /\ UNCHANGED <<k, pc, poller, left, slept, waited>>

Kernel(t) == PollReady(t) \/ PollBusy(t) \/ GiveUp(t) \/ Sleep(t) \/ Return(t)

Idle == IdleBlock \/ IdleHalt

Next == \/ \E t \in Worker : cmd_out(t) \/ Kernel(t) \/ Block(t) \/ Key(t)
        \/ Idle \/ Tick \/ DriveReady

Spec == Init /\ [][Next]_vars

\* The CPU goes on with what the kernel does.  The timer's interrupt is latched
\* while interrupts are disabled, so it is served when it can be again and again.
Fairness == WF_vars((\E t \in Worker : Kernel(t)) \/ Idle) /\ SF_vars(Tick)

FairSpec == Spec /\ Fairness

----------------------------------------------------------------------------
Polls(t) == pc[t] \in {"poll", "sleep"}

\* Another process than t is in user mode and can be run.
Company(t) == \E u \in Worker \ {t} : pc[u] = "user" /\ k.status[u] # "BLOCKED"

\* busy_wait() gives up only on a drive that has kept it waiting for the whole
\* limit, and no process is ever both at the drive and asleep.
Patient ==
    /\ k.fault = "ide.c:162" => waited >= (TimeLimit - 1) * SleepTicks
    /\ \A t \in Worker : Polls(t) => poller = t /\ k.status[t] \in {"RUNNING", "READY"}

\* Either the drive answers or ide_write() panics, as long as some other process
\* keeps interrupts enabled from time to time.
PollEnds ==
    \A t \in Worker : []<>Company(t) => (Polls(t) ~> (pc[t] = "user" \/ k.fault # "none"))
=============================================================================
