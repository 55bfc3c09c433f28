------------------------------- MODULE Locks -------------------------------
(***************************************************************************)
(* Threads that contend for the kernel's locks and sleep inside them.      *)
(*                                                                         *)
(* The client is the most general one the kernel has, ide_read() and       *)
(* ide_write() on a channel: it takes the channel's lock (possibly again   *)
(* while it holds it), sends a command and waits for the disk's interrupt  *)
(* on the channel's disk_done semaphore, and yields the CPU while it polls *)
(* the drive.  A lock of another subsystem (a memory pool, the console,    *)
(* the pid pool) is the same lock whose holder does less.                  *)
(*                                                                         *)
(* There is one CPU.  A process enters the kernel through an interrupt     *)
(* gate, so its system call runs with interrupts disabled until it blocks; *)
(* a kernel thread (main, while it runs ide_init() and filesys_init())     *)
(* runs the same code with interrupts enabled and can be preempted between *)
(* any two of its steps.  pc names the next step of a thread:              *)
(*                                                                         *)
(*   user     outside the locks                                            *)
(*   acq      in lock_acquire(), about to compare the holder (sync.c:54)   *)
(*   down     about to call sema_down(sema[<<lk, on>>])                    *)
(*   recheck  asleep in, or just back from, the thread_block() of          *)
(*            sema_down(): will test the semaphore's value again           *)
(*   own      has the semaphore, holder not yet set (sync.c:56)            *)
(*   count    holder set, holder_repeat_nr not yet 1 (sync.c:58)           *)
(*   crit     between lock_acquire() and lock_release()                    *)
(*   disown   in lock_release(), holder not yet NULL (sync.c:73)           *)
(*   uncount  holder_repeat_nr not yet 0 (sync.c:75)                       *)
(*   up       about to call sema_up() (sync.c:76)                          *)
(*   more     a process, in the middle of a system call that has released  *)
(*            lk and will acquire it again: between two disk transfers     *)
(*   loop, awake, hlt   the idle thread: about to block; back from         *)
(*            thread_block(); halted until an interrupt                    *)
(***************************************************************************)
EXTENDS Sync, FiniteSets

CONSTANTS
    Lock,       \* the locks, one disk_done semaphore with each
    Process,    \* threads whose kernel code runs with interrupts disabled
    Kthread,    \* threads whose kernel code runs with interrupts enabled
    MaxWork,    \* bound: what a thread does between acquire and release
    NULL

ASSUME LocksAssumption ==
    /\ Thread = Process \cup Kthread \cup {idle_thread}
    /\ Process \cap Kthread = {}
    /\ idle_thread \notin Process \cup Kthread
    /\ IsFiniteSet(Thread)
    /\ NULL \notin Thread \cup Lock
    /\ MaxWork \in Nat

VARIABLES
    k,          \* the scheduler state of Threads
    sema,       \* the semaphores: <<l, "mutex">> and <<l, "done">> of lock l
    holder,     \* lock.holder
    repeat,     \* lock.holder_repeat_nr
    expecting,  \* ide_channel.expecting_intr: a command is in flight
    pc,         \* next step of every thread
    lk,         \* the lock a thread is at, NULL in "user"
    served,     \* the system call of the thread has already released lk
    on,         \* which semaphore of lk it downs: "mutex" or "done"
    work        \* what is left of MaxWork

vars == <<k, sema, holder, repeat, expecting, pc, lk, served, on, work>>

Sema == Lock \X {"mutex", "done"}

Worker == Process \cup Kthread

WorkerPc == {"user", "acq", "down", "recheck", "own", "count", "crit",
             "disown", "uncount", "up", "more"}
IdlePc == {"loop", "awake", "hlt"}

TypeOK ==
    /\ k \in SchedState
    /\ sema \in [Sema -> SemaState]
    /\ holder \in [Lock -> Thread \cup {NULL}]
    /\ repeat \in [Lock -> Nat]
    /\ expecting \in [Lock -> BOOLEAN]
    /\ pc \in [Thread -> WorkerPc \cup IdlePc]
    /\ lk \in [Thread -> Lock \cup {NULL}]
    /\ served \in [Thread -> BOOLEAN]
    /\ on \in [Thread -> {"mutex", "done"}]
    /\ work \in [Thread -> 0..MaxWork]

\* The kernel just after init_all() enabled interrupts (init.c:25): main runs,
\* the other threads are in the ready list, every lock is free.
Init ==
    /\ \E main \in Kthread, ready \in [1..Cardinality(Thread) - 1 -> Thread] :
         /\ Elements(ready) = Thread \ {main}
         /\ k = [cur |-> main, ready |-> ready,
                 status |-> [t \in Thread |-> IF t = main THEN "RUNNING" ELSE "READY"],
                 ticks |-> Priority, fault |-> "none"]
    /\ sema = [x \in Sema |-> sema_init(IF x[2] = "mutex" THEN 1 ELSE 0)]
    /\ holder = [l \in Lock |-> NULL]
    /\ repeat = [l \in Lock |-> 0]
    /\ expecting = [l \in Lock |-> FALSE]
    /\ pc = [t \in Thread |-> IF t = idle_thread THEN "loop" ELSE "user"]
    /\ lk = [t \in Thread |-> NULL]
    /\ served = [t \in Thread |-> FALSE]
    /\ on = [t \in Thread |-> "mutex"]
    /\ work = [t \in Thread |-> 0]

----------------------------------------------------------------------------
\* Mutant: system calls enter through a trap gate, which leaves interrupts on.
IF_on_TrapGate == pc[k.cur] # "recheck"

\* Interrupts are enabled: in user mode, in the idle thread, and in a kernel
\* thread except where sema_down() has it between cli and its return.
IF_on == \/ pc[k.cur] = "user"
         \/ k.cur = idle_thread
         \/ k.cur \in Kthread /\ pc[k.cur] # "recheck"

Runs(t, where) == k.fault = "none" /\ k.cur = t /\ pc[t] = where

Goto(t, where) == pc' = [pc EXCEPT ![t] = where]

\* A thread calls into the kernel and starts to acquire l.
Enter(t, l) ==
    /\ Runs(t, "user")
    /\ lk' = [lk EXCEPT ![t] = l]
    /\ work' = [work EXCEPT ![t] = MaxWork]
    /\ Goto(t, "acq")
    /\ UNCHANGED <<k, sema, holder, repeat, expecting, on, served>>

\* lock_acquire(): the holder counts once more, anyone else downs the semaphore.
AcquireAgain(t) ==
    /\ Runs(t, "acq") /\ holder[lk[t]] = t
    /\ repeat' = [repeat EXCEPT ![lk[t]] = @ + 1]
    /\ Goto(t, "crit")
    /\ UNCHANGED <<k, sema, holder, expecting, lk, on, work, served>>

AcquireFirst(t) ==
    /\ Runs(t, "acq") /\ holder[lk[t]] # t
    /\ on' = [on EXCEPT ![t] = "mutex"]
    /\ Goto(t, "down")
    /\ UNCHANGED <<k, sema, holder, repeat, expecting, lk, work, served>>

\* sema_down(), on the first visit of its loop or a later one.
DownBlocks(t) ==
    LET x == <<lk[t], on[t]>>
    IN  /\ Runs(t, "down") \/ Runs(t, "recheck")
        /\ sema[x].value = 0
        /\ sema' = [sema EXCEPT ![x] = Enqueue(@, t)]
        /\ k' = SleepOn(k, sema[x])
        /\ Goto(t, "recheck")
        /\ UNCHANGED <<holder, repeat, expecting, lk, on, work, served>>

\* Mutant: sema_down() tests once ("if" for "while").
DownTakes_NoRetest(t) ==
    LET x == <<lk[t], on[t]>>
    IN  /\ Runs(t, "recheck") \/ (Runs(t, "down") /\ sema[x].value # 0)
        /\ sema' = [sema EXCEPT ![x] = Take(@)]
        /\ k' = TakeCheck(k, sema[x])
        /\ Goto(t, IF on[t] = "mutex" THEN "own" ELSE "crit")
        /\ UNCHANGED <<holder, repeat, expecting, lk, on, work, served>>

DownTakes(t) ==
    LET x == <<lk[t], on[t]>>
    IN  /\ Runs(t, "down") \/ Runs(t, "recheck")
        /\ sema[x].value # 0
        /\ sema' = [sema EXCEPT ![x] = Take(@)]
        /\ k' = TakeCheck(k, sema[x])
        /\ Goto(t, IF on[t] = "mutex" THEN "own" ELSE "crit")
        /\ UNCHANGED <<holder, repeat, expecting, lk, on, work, served>>

\* The rest of lock_acquire().
SetHolder(t) ==
    /\ Runs(t, "own")
    /\ holder' = [holder EXCEPT ![lk[t]] = t]
    /\ k' = Check(k, repeat[lk[t]] = 0, "sync.c:57")
    /\ Goto(t, "count")
    /\ UNCHANGED <<sema, repeat, expecting, lk, on, work, served>>

SetRepeat(t) ==
    /\ Runs(t, "count")
    /\ repeat' = [repeat EXCEPT ![lk[t]] = 1]
    /\ Goto(t, "crit")
    /\ UNCHANGED <<k, sema, holder, expecting, lk, on, work, served>>

----------------------------------------------------------------------------
\* Inside the lock: what a holder may do before it releases.
Spend(t) == work[t] > 0 /\ work' = [work EXCEPT ![t] = @ - 1]

\* A function that holds the lock calls another that acquires it.
Reenter(t) ==
    /\ Runs(t, "crit") /\ Spend(t)
    /\ Goto(t, "acq")
    /\ UNCHANGED <<k, sema, holder, repeat, expecting, lk, on, served>>

\* cmd_out(): a command is in flight, then the holder waits for disk_done.
cmd_out(t) ==
    /\ Runs(t, "crit") /\ Spend(t)
    /\ expecting' = [expecting EXCEPT ![lk[t]] = TRUE]
    /\ on' = [on EXCEPT ![t] = "done"]
    /\ Goto(t, "down")
    /\ UNCHANGED <<k, sema, holder, repeat, lk, served>>

\* busy_wait() finds the drive busy and sleeps: one thread_yield() of
\* ticks_to_sleep(), after the interrupt (ide_read) or before sema_down()
\* (ide_write).  MaxWork bounds the polls; what happens when they do not end by
\* themselves is the subject of BusyWait.
Yield(t) ==
    /\ Runs(t, "crit") \/ (Runs(t, "down") /\ on[t] = "done")
    /\ Spend(t)
    /\ k' = thread_yield(k)
    /\ UNCHANGED <<sema, holder, repeat, expecting, pc, lk, on, served>>

\* lock_release(): the outermost release clears the lock and ups the semaphore.
ReleaseInner(t) ==
    /\ Runs(t, "crit") /\ repeat[lk[t]] > 1
    /\ k' = Check(k, holder[lk[t]] = t, "sync.c:65")
    /\ repeat' = [repeat EXCEPT ![lk[t]] = @ - 1]
    /\ UNCHANGED <<sema, holder, expecting, pc, lk, on, work, served>>

ReleaseOuter(t) ==
    /\ Runs(t, "crit") /\ repeat[lk[t]] <= 1
    /\ k' = Check(Check(k, holder[lk[t]] = t, "sync.c:65"),
                  repeat[lk[t]] = 1, "sync.c:71")
    /\ Goto(t, "disown")
    /\ UNCHANGED <<sema, holder, repeat, expecting, lk, on, work, served>>

ClearHolder(t) ==
    /\ Runs(t, "disown")
    /\ holder' = [holder EXCEPT ![lk[t]] = NULL]
    /\ Goto(t, "uncount")
    /\ UNCHANGED <<k, sema, repeat, expecting, lk, on, work, served>>

\* Mutant: lock_release() leaves holder_repeat_nr.
ClearRepeat_Keeps(t) ==
    /\ Runs(t, "uncount")
    /\ Goto(t, "up")
    /\ UNCHANGED <<k, sema, holder, repeat, expecting, lk, on, work, served>>

ClearRepeat(t) ==
    /\ Runs(t, "uncount")
    /\ repeat' = [repeat EXCEPT ![lk[t]] = 0]
    /\ Goto(t, "up")
    /\ UNCHANGED <<k, sema, holder, expecting, lk, on, work, served>>

\* sema_up(); a process may acquire the lock again for the next transfer of its
\* system call.
Up(t) ==
    LET x == <<lk[t], "mutex">>
    IN  /\ Runs(t, "up")
        /\ sema' = [sema EXCEPT ![x] = Signalled(@)]
        /\ k' = Signal(k, sema[x])
        /\ \/ /\ Goto(t, "user")
              /\ lk' = [lk EXCEPT ![t] = NULL]
              /\ work' = [work EXCEPT ![t] = 0]
              /\ served' = [served EXCEPT ![t] = FALSE]
           \/ /\ t \in Process /\ Spend(t)
              /\ Goto(t, "more")
              /\ served' = [served EXCEPT ![t] = TRUE]
              /\ UNCHANGED lk
        /\ UNCHANGED <<holder, repeat, expecting, on>>

Again(t) ==
    /\ Runs(t, "more")
    /\ Goto(t, "acq")
    /\ UNCHANGED <<k, sema, holder, repeat, expecting, lk, served, on, work>>

----------------------------------------------------------------------------
\* idle(): thread_block(), back from it, sti; hlt until an interrupt.
IdleBlock ==
    /\ Runs(idle_thread, "loop")
    /\ k' = thread_block(k, "BLOCKED")
    /\ Goto(idle_thread, "awake")
    /\ UNCHANGED <<sema, holder, repeat, expecting, lk, on, work, served>>

IdleHalt ==
    /\ Runs(idle_thread, "awake")
    /\ Goto(idle_thread, "hlt")
    /\ UNCHANGED <<k, sema, holder, repeat, expecting, lk, on, work, served>>

\* Any interrupt ends the hlt of the running idle thread.
EndHalt ==
    pc' = IF k.cur = idle_thread /\ pc[idle_thread] = "hlt"
          THEN [pc EXCEPT ![idle_thread] = "loop"] ELSE pc

Timer ==
    /\ k.fault = "none" /\ IF_on
    /\ k' = intr_timer_handler(k)
    /\ EndHalt
    /\ UNCHANGED <<sema, holder, repeat, expecting, lk, on, work, served>>

\* Mutant: the handler leaves expecting_intr.
intr_hd_handler_Keeps(l) ==
    LET x == <<l, "done">>
    IN  /\ k.fault = "none" /\ IF_on
        /\ expecting[l]
        /\ sema' = [sema EXCEPT ![x] = Signalled(@)]
        /\ k' = Signal(k, sema[x])
        /\ EndHalt
        /\ UNCHANGED <<holder, repeat, expecting, lk, on, work, served>>

\* The disk finishes the command in flight on the channel of l.
intr_hd_handler(l) ==
    LET x == <<l, "done">>
    IN  /\ k.fault = "none" /\ IF_on
        /\ expecting[l]
        /\ expecting' = [expecting EXCEPT ![l] = FALSE]
        /\ sema' = [sema EXCEPT ![x] = Signalled(@)]
        /\ k' = Signal(k, sema[x])
        /\ EndHalt
        /\ UNCHANGED <<holder, repeat, lk, on, work, served>>

\* The steps a thread inside the kernel takes without waiting for anyone.
Advance(t) ==
    \/ AcquireAgain(t) \/ AcquireFirst(t)
    \/ DownBlocks(t) \/ DownTakes(t)
    \/ SetHolder(t) \/ SetRepeat(t)
    \/ Reenter(t) \/ cmd_out(t) \/ Yield(t)
    \/ ReleaseInner(t) \/ ReleaseOuter(t)
    \/ ClearHolder(t) \/ ClearRepeat(t) \/ Up(t) \/ Again(t)

Idle == IdleBlock \/ IdleHalt

Next ==
    \/ \E t \in Worker : Advance(t) \/ \E l \in Lock : Enter(t, l)
    \/ Idle
    \/ Timer
    \/ \E l \in Lock : intr_hd_handler(l)

Spec == Init /\ [][Next]_vars

(***************************************************************************)
(* Fairness.  The CPU executes the thread it runs, and a time slice is     *)
(* many instructions: a thread that gets the CPU again and again gets on.  *)
(* The timer's and the disk's requests stay latched in the 8259A until     *)
(* interrupts are enabled, so neither is missed forever.  Nothing is       *)
(* assumed of user mode: a process need never enter the kernel.            *)
(***************************************************************************)
Fairness ==
    /\ \A t \in Worker : SF_vars(Advance(t))
    /\ SF_vars(Idle)
    /\ SF_vars(Timer)
    /\ \A l \in Lock : SF_vars(intr_hd_handler(l))

FairSpec == Spec /\ Fairness

----------------------------------------------------------------------------
\* No ASSERT or PANIC of thread.c and sync.c ever fires, whatever the order of
\* preemptions, sleeps, wakeups and interrupts.
NoPanic == k.fault = "none"

\* Where t is queued: <<x, i>> for the i-th of the waiters of x, or of the
\* ready list.
Ready == <<NULL, "ready">>

Places(t) ==
    (UNION {{<<x, i>> : i \in {j \in 1..Len(sema[x].waiters) : sema[x].waiters[j] = t}} :
               x \in Sema})
      \cup {<<Ready, i>> : i \in {j \in 1..Len(k.ready) : k.ready[j] = t}}

\* general_tag links a thread into one list at most, and its status says which:
\* the running thread and a blocked idle thread are in none, a READY thread is
\* in the ready list, any other blocked thread waits for the semaphore that its
\* sema_down() is at.  (A thread in two lists corrupts both, list.c links it
\* through the same two pointers.)
OneList ==
    \A t \in Thread :
      /\ (t = k.cur) <=> (k.status[t] = "RUNNING")
      /\ Cardinality(Places(t)) <= 1
      /\ {p[1] : p \in Places(t)} =
            CASE k.status[t] = "RUNNING" -> {}
              [] k.status[t] = "READY" -> {Ready}
              [] k.status[t] = "BLOCKED" /\ t = idle_thread -> {}
              [] OTHER -> {<<lk[t], on[t]>>}
      /\ k.status[t] = "BLOCKED" /\ t \in Worker => pc[t] = "recheck"

\* t is between the sema_down() of lock_acquire(l) and the sema_up() of
\* lock_release(l).
Owns(t, l) ==
    /\ lk[t] = l
    /\ \/ pc[t] \in {"own", "count", "crit", "disown", "uncount", "up"}
       \/ pc[t] = "acq" /\ holder[l] = t
       \/ pc[t] \in {"down", "recheck"} /\ on[t] = "done"

\* Two threads are never both inside one lock, although lock_acquire() reads
\* and writes the holder with interrupts enabled, and the semaphore is free
\* exactly when nobody is inside.
MutualExclusion ==
    \A l \in Lock :
      /\ \A t, u \in Thread : Owns(t, l) /\ Owns(u, l) => t = u
      /\ \/ sema[<<l, "mutex">>].value = 0 /\ \E t \in Thread : Owns(t, l)
         \/ sema[<<l, "mutex">>].value = 1 /\ \A t \in Thread : ~Owns(t, l)

\* The inductive strengthening of MutualExclusion.  A thread is at a lock
\* exactly while it is not in user mode; lock.holder is NULL or the thread
\* inside; and it is that thread wherever lock_acquire() or lock_release() would
\* take the wrong branch on a stale holder.
AtLock ==
    /\ pc[idle_thread] \in IdlePc /\ lk[idle_thread] = NULL
    /\ \A t \in Worker : pc[t] \in WorkerPc /\ (lk[t] = NULL <=> pc[t] = "user")

HolderInside ==
    \A l \in Lock : holder[l] # NULL =>
      Owns(holder[l], l) /\ pc[holder[l]] \notin {"own", "uncount", "up"}

InsideHolds ==
    \A t \in Worker :
      \/ pc[t] \in {"count", "crit", "disown"}
      \/ pc[t] \in {"down", "recheck"} /\ on[t] = "done"
      => holder[lk[t]] = t

LockInv == AtLock /\ HolderInside /\ InsideHolds /\ MutualExclusion

\* The transfers of one system call are not interleaved with another's: from its
\* first to its last, no other thread is inside the lock when the process is
\* not, and the process never waits to get in again.  sema_up() wakes a waiter
\* without yielding to it, and nothing else runs until the process sleeps for
\* the disk, which it does inside.
Serialized ==
    \A t \in Process :
      served[t] => /\ \A u \in Thread \ {t} : ~Owns(u, lk[t])
                   /\ pc[t] = "recheck" => on[t] = "done"

\* Its inductive strengthening: between its transfers the process is the one
\* that runs, interrupts are off, and the lock is free.
ServedRuns ==
    \A t \in Process :
      served[t] =>
        /\ lk[t] \in Lock
        /\ ~Owns(t, lk[t]) => /\ k.cur = t /\ pc[t] \in {"more", "acq", "down"}
                              /\ sema[<<lk[t], "mutex">>].value = 1

\* A semaphore is never up with a thread asleep on it unless a thread that was
\* woken for it is on its way to test it again: no sema_up() is lost.
NoLostWakeup ==
    \A x \in Sema :
      sema[x].value > 0 /\ sema[x].waiters # <<>> =>
        \E t \in Worker : /\ pc[t] = "recheck" /\ <<lk[t], on[t]>> = x
                          /\ k.status[t] \in {"READY", "RUNNING"}

\* One completion per command: while a holder waits for the disk exactly one of
\* the interrupt and the semaphore's unit is outstanding, and none is left over
\* for the next command of the channel otherwise.
OneCompletion ==
    \A l \in Lock :
      (IF expecting[l] THEN 1 ELSE 0) + sema[<<l, "done">>].value =
        IF \E t \in Worker : /\ lk[t] = l /\ on[t] = "done"
                             /\ pc[t] \in {"down", "recheck"} THEN 1 ELSE 0

\* The locks implement Mutex: each step of the kernel is a step of Mutex or
\* changes neither who is inside a lock nor who is waiting for it.
Holders == [l \in Lock |-> {t \in Thread : Owns(t, l)}]
Waiting == [l \in Lock |-> {t \in Thread : lk[t] = l /\ pc[t] # "more" /\ ~Owns(t, l)}]

M == INSTANCE Mutex WITH holders <- Holders, waiting <- Waiting

\* Steps that change who holds or awaits a lock are those of Mutex.
ImplementsMutex == M!Spec

\* Every thread that gets into a lock leaves it, if the drive is not busy for
\* ever: its command completes and it is scheduled again, whatever the others do.
LockReturned ==
    \A t \in Worker, l \in Lock : t \in Holders[l] ~> t \notin Holders[l]

=============================================================================
