----------------------------- MODULE Processes -----------------------------
(***************************************************************************)
(* The life of a process in Winx: fork.c, wait_exit.c, the pid pool and    *)
(* thread_exit() of thread.c, over the scheduler of Threads.               *)
(*                                                                         *)
(* A system call runs with interrupts disabled, so sys_fork(), sys_exit()  *)
(* and one round of the loop of sys_wait() are one action each; the only   *)
(* place where one of them stops half-way is thread_block().  init() forks *)
(* the shell and then waits forever; any other process forks, waits and    *)
(* exits as it likes.  main boots and calls thread_exit() on itself.       *)
(*                                                                         *)
(* A PCB is a page: Slot is the set of pages that fork can get for one.    *)
(* Kernel pages are counted, not named; the pages and page tables of the   *)
(* user image are left out.                                                *)
(***************************************************************************)
EXTENDS Threads, Integers, FiniteSets, SequencesExt

CONSTANTS
    init, main,   \* the PCBs of process_execute(init) and make_main_thread()
    Slot,         \* bound: the PCB pages of forked processes
    KernelPages,  \* free pages of the kernel pool after boot
    PG_SIZE,      \* bytes in a page
    BtmpLen       \* bytes in a process's virtual address bitmap

ASSUME ProcessesAssumption ==
    /\ Thread = {init, main, idle_thread} \cup Slot
    /\ IsFiniteSet(Thread)
    /\ Cardinality(Thread) = 3 + Cardinality(Slot)
    /\ KernelPages \in Nat /\ PG_SIZE \in Nat \ {0} /\ BtmpLen \in Nat
    /\ BtmpLen >= PG_SIZE

VARIABLES
    k,       \* the scheduler state of Threads
    all,     \* thread_all_list
    pid,     \* task_struct.pid
    ppid,    \* task_struct.parent_pid
    pids,    \* the pids that pid_pool has handed out
    pcbs,    \* the PCB pages in use
    free,    \* free pages of the kernel pool
    pc       \* user, wait (in sys_wait), exit (in sys_exit), boot; loop, hlt

vars == <<k, all, pid, ppid, pids, pcbs, free, pc>>

TypeOK ==
    /\ k \in SchedState
    /\ all \in Seq(Thread)
    /\ pid \in [Thread -> Nat]
    /\ ppid \in [Thread -> Nat \cup {-1}]
    /\ pids \in SUBSET (Nat \ {0})
    /\ pcbs \in SUBSET Thread
    /\ free \in 0..KernelPages
    /\ pc \in [Thread -> {"user", "wait", "exit", "boot", "loop", "hlt"}]

\* thread_init(): init gets pid 1, main 2, idle 3; main is running.
Init ==
    /\ k = [cur |-> main, ready |-> <<init, idle_thread>>,
            status |-> [t \in Thread |-> CASE t = main -> "RUNNING"
                                           [] t \in {init, idle_thread} -> "READY"
                                           [] OTHER -> "DIED"],
            ticks |-> Priority, fault |-> "none"]
    /\ all = <<init, main, idle_thread>>
    /\ pid = [t \in Thread |-> CASE t = init -> 1 [] t = main -> 2
                                 [] t = idle_thread -> 3 [] OTHER -> 0]
    /\ ppid = [t \in Thread |-> -1]
    /\ pids = {1, 2, 3}
    /\ pcbs = {init, main, idle_thread}
    /\ free = KernelPages
    /\ pc = [t \in Thread |-> CASE t = main -> "boot" [] t = idle_thread -> "loop"
                                [] OTHER -> "user"]

----------------------------------------------------------------------------
Runs(t, where) == k.fault = "none" /\ k.cur = t /\ pc[t] = where

\* Pages of the bitmap of user virtual addresses: what fork allocates, and what
\* release_prog_resource() gives back.
BitmapPagesAllocated == (BtmpLen + PG_SIZE - 1) \div PG_SIZE
BitmapPagesReleased == BtmpLen \div PG_SIZE

\* allocate_pid(): the first clear bit of the pool, whose bit 0 is pid 1.
FreePid == CHOOSE n \in 1..Cardinality(pids) + 1 :
             n \notin pids /\ \A m \in 1..n - 1 : m \in pids

\* list_traversal() of thread_all_list: the first of the threads that a callback
\* accepts.
FirstOf(accepted) == {all[i] : i \in {j \in 1..Len(all) :
                        all[j] \in accepted /\ \A h \in 1..j - 1 : all[h] \notin accepted}}

pid2thread(n) == FirstOf({t \in Thread : pid[t] = n})
find_child(n) == FirstOf({t \in Thread : ppid[t] = n})
find_hanging_child(n) ==
    FirstOf({t \in Thread : ppid[t] = n /\ k.status[t] = "HANGING"})

----------------------------------------------------------------------------
\* sys_fork().  It needs a page for the PCB, a buffer page, the child's bitmap
\* and its page directory, in this order, and gives the buffer back at the end.
ForkCost == 3 + BitmapPagesAllocated

\* Mutant: the child is not put into thread_all_list.
ForkSucceeds_NotListed(p, c) ==
    /\ Runs(p, "user") /\ c \in Slot \ pcbs
    /\ free >= ForkCost
    /\ free' = free - ForkCost + 1
    /\ pcbs' = pcbs \cup {c}
    /\ pid' = [pid EXCEPT ![c] = FreePid]
    /\ pids' = pids \cup {FreePid}
    /\ ppid' = [ppid EXCEPT ![c] = pid[p]]
    /\ k' = [k EXCEPT !.ready = Append(@, c), !.status[c] = "READY",
                      !.ticks[c] = Priority[c]]
    /\ pc' = [pc EXCEPT ![c] = "user"]
    /\ UNCHANGED all

ForkSucceeds(p, c) ==
    /\ Runs(p, "user") /\ c \in Slot \ pcbs
    /\ free >= ForkCost
    /\ free' = free - ForkCost + 1
    /\ pcbs' = pcbs \cup {c}
    /\ pid' = [pid EXCEPT ![c] = FreePid]
    /\ pids' = pids \cup {FreePid}
    /\ ppid' = [ppid EXCEPT ![c] = pid[p]]
    /\ k' = [k EXCEPT !.ready = Append(@, c), !.status[c] = "READY",
                      !.ticks[c] = Priority[c]]
    /\ all' = Append(all, c)
    /\ pc' = [pc EXCEPT ![c] = "user"]

\* Out of pages: fork returns -1 and keeps what it had, the PCB page, the
\* buffer, what malloc_page() had got of the bitmap, and the pid if it got so
\* far (fork.c:16).
ForkFails(p) ==
    /\ Runs(p, "user") /\ free < ForkCost
    /\ free' = 0
    /\ pids' = IF free >= 2 THEN pids \cup {FreePid} ELSE pids
    /\ IF free >= 1 THEN \E c \in Slot \ pcbs : pcbs' = pcbs \cup {c}
       ELSE pcbs' = pcbs
    /\ UNCHANGED <<k, all, pid, ppid, pc>>

\* sys_exit() with its adoption and its wake-up of the parent as parameters, for
\* the mutants below.
ExitWith(p, adopted, woken) ==
    /\ Runs(p, "user") /\ p # init
    /\ ppid' = adopted
    /\ free' = free + BitmapPagesReleased
    /\ k' = thread_block(woken, "HANGING")
    /\ pc' = [pc EXCEPT ![p] = "exit"]
    /\ UNCHANGED <<all, pid, pids, pcbs>>

Adopted(p) == [t \in Thread |->
                 IF t \in Elements(all) /\ ppid[t] = pid[p] THEN 1 ELSE ppid[t]]
WakeWaiting(p) ==
    LET wakes == {q \in pid2thread(ppid[p]) : k.status[q] = "WAITING"}
    IN  IF wakes = {} THEN k ELSE thread_unblock(k, CHOOSE q \in wakes : TRUE)

\* Mutant: the parent is not woken.
sys_exit_NoWake(p) == ExitWith(p, Adopted(p), k)
\* Mutant: the parent is woken whether it waits or not.
sys_exit_WakesAny(p) ==
    \E q \in pid2thread(ppid[p]) : ExitWith(p, Adopted(p), thread_unblock(k, q))
\* Mutant: the children keep their parent.
sys_exit_NoAdopt(p) == ExitWith(p, ppid, WakeWaiting(p))

\* sys_exit(): children go to init, the address space and the files go, the
\* parent is woken if it waits, and the process hangs until it is reaped.
sys_exit(p) ==
    LET parent == pid2thread(ppid[p])
        asserted == Check(Check(k, ppid[p] # -1, "wait_exit.c:129"),
                          parent # {}, "wait_exit.c:137")
        woken == IF parent # {} /\ k.status[CHOOSE q \in parent : TRUE] = "WAITING"
                 THEN thread_unblock(asserted, CHOOSE q \in parent : TRUE)
                 ELSE asserted
    IN  /\ Runs(p, "user") /\ p # init
        /\ ppid' = [t \in Thread |->
                      IF t \in Elements(all) /\ ppid[t] = pid[p] THEN 1 ELSE ppid[t]]
        /\ free' = free + BitmapPagesReleased
        /\ k' = thread_block(woken, "HANGING")
        /\ pc' = [pc EXCEPT ![p] = "exit"]
        /\ UNCHANGED <<all, pid, pids, pcbs>>

\* Mutant: the parent's pid is released for the child's.
WaitReaps_WrongPid(p) ==
    \E c \in find_hanging_child(pid[p]) :
      /\ Runs(p, "user") \/ Runs(p, "wait")
      /\ k' = [k EXCEPT !.ready = RemoveFirst(@, c), !.status[c] = "DIED"]
      /\ free' = free + 2
      /\ all' = RemoveFirst(all, c)
      /\ pcbs' = pcbs \ {c}
      /\ pids' = pids \ {pid[p]}
      /\ pid' = [pid EXCEPT ![c] = 0]
      /\ ppid' = [ppid EXCEPT ![c] = -1]
      /\ pc' = [pc EXCEPT ![p] = "user", ![c] = "user"]

\* sys_wait() finds a child that hangs: thread_exit(child, false) frees its page
\* directory, its PCB and its pid.
WaitReaps(p) ==
    \E c \in find_hanging_child(pid[p]) :
      /\ Runs(p, "user") \/ Runs(p, "wait")
      /\ k' = [k EXCEPT !.ready = RemoveFirst(@, c), !.status[c] = "DIED"]
      /\ free' = free + 2
      /\ all' = RemoveFirst(all, c)
      /\ pcbs' = pcbs \ {c}
      /\ pids' = pids \ {pid[c]}
      /\ pid' = [pid EXCEPT ![c] = 0]
      /\ ppid' = [ppid EXCEPT ![c] = -1]
      /\ pc' = [pc EXCEPT ![p] = "user", ![c] = "user"]

\* release_pid(thread_over->pid) reads a PCB whose page has just been unmapped
\* (thread.c:318-321).  page_table_pte_remove() invalidates another address, so
\* the read works as long as the TLB keeps the old entry, as in WaitReaps; when
\* it does not, the read is a page fault and the machine stops.
ReapFaults(p) ==
    /\ Runs(p, "user") \/ Runs(p, "wait")
    /\ find_hanging_child(pid[p]) # {}
    /\ k' = Panic(k, "thread.c:321")
    /\ UNCHANGED <<all, pid, ppid, pids, pcbs, free, pc>>

\* It finds only children that live: it blocks, to look again when woken.
WaitBlocks(p) ==
    /\ Runs(p, "user") \/ Runs(p, "wait")
    /\ find_hanging_child(pid[p]) = {} /\ find_child(pid[p]) # {}
    /\ k' = thread_block(k, "WAITING")
    /\ pc' = [pc EXCEPT ![p] = "wait"]
    /\ UNCHANGED <<all, pid, ppid, pids, pcbs, free>>

\* It finds no child at all and returns -1.
WaitNoChild(p) ==
    /\ Runs(p, "user") \/ Runs(p, "wait")
    /\ find_child(pid[p]) = {}
    /\ pc' = [pc EXCEPT ![p] = "user"]
    /\ UNCHANGED <<k, all, pid, ppid, pids, pcbs, free>>

\* main() ends with thread_exit(running_thread(), true): its pid is free again,
\* its PCB page is not.
MainExits ==
    /\ Runs(main, "boot")
    /\ k' = schedule([k EXCEPT !.status[main] = "DIED"])
    /\ all' = RemoveFirst(all, main)
    /\ pids' = pids \ {pid[main]}
    /\ pid' = [pid EXCEPT ![main] = 0]
    /\ UNCHANGED <<ppid, pcbs, free, pc>>

IdleBlock ==
    /\ Runs(idle_thread, "loop")
    /\ k' = thread_block(k, "BLOCKED")
    /\ pc' = [pc EXCEPT ![idle_thread] = "hlt"]
    /\ UNCHANGED <<all, pid, ppid, pids, pcbs, free>>

\* Interrupts are enabled in user mode, while main boots and in idle().
Timer ==
    /\ k.fault = "none" /\ pc[k.cur] \in {"user", "boot", "loop", "hlt"}
    /\ k' = intr_timer_handler(k)
    /\ pc' = IF k.cur = idle_thread THEN [pc EXCEPT ![idle_thread] = "loop"] ELSE pc
    /\ UNCHANGED <<all, pid, ppid, pids, pcbs, free>>

sys_fork(p) == ForkFails(p) \/ \E c \in Slot : ForkSucceeds(p, c)
sys_wait(p) == WaitReaps(p) \/ WaitBlocks(p) \/ WaitNoChild(p) \/ ReapFaults(p)

Process == {init} \cup Slot

Next ==
    \/ \E p \in Process : sys_fork(p) \/ sys_exit(p) \/ sys_wait(p)
    \/ MainExits \/ IdleBlock \/ Timer

Spec == Init /\ [][Next]_vars

\* A process that gets the CPU uses it, main comes to its end, the timer ticks.
\* Nothing makes a process fork, exit or start to wait.
Fairness ==
    /\ \A p \in Process : SF_vars(pc[p] = "wait" /\ sys_wait(p))
    /\ SF_vars(MainExits) /\ SF_vars(IdleBlock) /\ SF_vars(Timer)

FairSpec == Spec /\ Fairness

----------------------------------------------------------------------------
\* No ASSERT fires and no pointer that is followed is NULL: the ready list is
\* never empty in schedule(), only blocked threads are woken, and the process
\* that exits has a parent to look at (sys_exit() follows pid2thread()'s result
\* unchecked).  The one exception is the read of the unmapped PCB.
NoPanic == k.fault \in {"none", "thread.c:321"}

\* The ready list holds exactly the READY threads, once each, and all of them
\* are registered: no dead or hanging PCB can be scheduled.
ReadyList ==
    /\ Cardinality(Elements(k.ready)) = Len(k.ready)
    /\ Elements(k.ready) = {t \in Thread : k.status[t] = "READY"}
    /\ Elements(k.ready) \subseteq Elements(all)

\* Registered threads have distinct pids, all of them handed out: a pid that is
\* released on reaping is not that of another thread.
PidsUnique ==
    \A t \in Elements(all) :
      /\ pid[t] \in pids
      /\ \A u \in Elements(all) : pid[t] = pid[u] => t = u

\* Every process but init has a parent that is registered and has not exited,
\* although pids are reused and parents exit before their children.
ParentAlive ==
    k.fault = "none" =>
      \A t \in Elements(all) \ {init, main, idle_thread} :
        \E q \in Elements(all) \ {t} :
          pid[q] = ppid[t] /\ k.status[q] \notin {"HANGING", "DIED"}

\* A process other than init that waits gets the status of a child that exits,
\* unless the machine stops.  PCB pages are alike: one stands for all.
WaitReturns ==
    LET p == CHOOSE q \in Slot : TRUE
    IN  (pc[p] = "wait" /\ find_hanging_child(pid[p]) # {}) ~>
          (pc[p] # "wait" \/ k.fault # "none")
=============================================================================
