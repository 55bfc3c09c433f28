---------------------------- MODULE LocksProofs ----------------------------
(***************************************************************************)
(* Theorems about Locks for every set of threads, processes and locks.     *)
(***************************************************************************)
EXTENDS Locks, ThreadsProofs, FiniteSetTheorems, TLAPS

(***************************************************************************)
(* The operators of Threads keep the scheduler state well formed.          *)
(***************************************************************************)

\* A recorded PANIC changes the scheduler state in nothing else.
LEMMA PanicType ==
    ASSUME NEW s \in SchedState, NEW line \in Site
    PROVE  /\ Panic(s, line) \in SchedState
           /\ Panic(s, line).cur = s.cur
  BY DEF Panic, SchedState

\* A recorded ASSERT changes the scheduler state in nothing else.
LEMMA CheckType ==
    ASSUME NEW s \in SchedState, NEW cond, NEW line \in Site
    PROVE  /\ Check(s, cond, line) \in SchedState
           /\ Check(s, cond, line).cur = s.cur
  BY PanicType DEF Check

\* thread_unblock() keeps the types and who is running.
LEMMA UnblockType ==
    ASSUME NEW s \in SchedState, NEW t \in Thread
    PROVE  /\ thread_unblock(s, t) \in SchedState
           /\ thread_unblock(s, t).cur = s.cur
<1>1. /\ Panic(s, "thread.c:203") \in SchedState
      /\ Panic(s, "thread.c:207") \in SchedState
      /\ Panic(s, "thread.c:203").cur = s.cur
      /\ Panic(s, "thread.c:207").cur = s.cur
  BY PanicType DEF Site
<1>2. <<t>> \o s.ready \in Seq(Thread)
  BY DEF SchedState
<1>3. [s EXCEPT !.ready = <<t>> \o @, !.status[t] = "READY"] \in SchedState
  BY <1>2 DEF SchedState, Status
<1> QED BY <1>1, <1>3 DEF thread_unblock, SchedState

\* schedule() keeps the types, in each of its three parts.
LEMMA RequeueType ==
    ASSUME NEW s \in SchedState
    PROVE  Requeue(s) \in SchedState
<1>1. Panic(s, "thread.c:142") \in SchedState
  BY PanicType DEF Site
<1>2. Append(s.ready, s.cur) \in Seq(Thread)
  BY DEF SchedState
<1>3. [s EXCEPT !.ready = Append(@, s.cur), !.ticks[s.cur] = Priority[s.cur],
                !.status[s.cur] = "READY"] \in SchedState
  BY <1>2, ThreadsAssumption DEF SchedState, Status
<1> QED BY <1>1, <1>3 DEF Requeue

LEMMA WakeIdleType ==
    ASSUME NEW s \in SchedState
    PROVE  WakeIdle(s) \in SchedState
  BY UnblockType, ThreadsAssumption DEF WakeIdle

LEMMA DispatchType ==
    ASSUME NEW s \in SchedState
    PROVE  Dispatch(s) \in SchedState
<1>1. CASE s.ready = <<>>
  BY <1>1, PanicType DEF Dispatch, Site
<1>2. CASE s.ready # <<>>
  <2>1. Head(s.ready) \in Thread /\ Tail(s.ready) \in Seq(Thread)
    BY <1>2 DEF SchedState
  <2>2. [s EXCEPT !.cur = Head(s.ready), !.ready = Tail(s.ready),
                  !.status[Head(s.ready)] = "RUNNING"] \in SchedState
    BY <2>1 DEF SchedState, Status
  <2> QED BY <1>2, <2>2 DEF Dispatch
<1> QED BY <1>1, <1>2

LEMMA ScheduleType ==
    ASSUME NEW s \in SchedState
    PROVE  schedule(s) \in SchedState
  BY RequeueType, WakeIdleType, DispatchType DEF schedule

LEMMA BlockType ==
    ASSUME NEW s \in SchedState, NEW stat \in Status
    PROVE  thread_block(s, stat) \in SchedState
<1>1. [s EXCEPT !.status[s.cur] = stat] \in SchedState
  BY DEF SchedState
<1> QED BY <1>1, ScheduleType DEF thread_block

LEMMA YieldType ==
    ASSUME NEW s \in SchedState
    PROVE  thread_yield(s) \in SchedState
<1>1. Append(s.ready, s.cur) \in Seq(Thread)
  BY DEF SchedState
<1>2. [s EXCEPT !.ready = Append(@, s.cur), !.status[s.cur] = "READY"] \in SchedState
  BY <1>1 DEF SchedState, Status
<1>3. Panic(s, "thread.c:220") \in SchedState
  BY PanicType DEF Site
<1> QED BY <1>2, <1>3, ScheduleType DEF thread_yield

LEMMA TimerType ==
    ASSUME NEW s \in SchedState
    PROVE  intr_timer_handler(s) \in SchedState
<1>1. CASE s.ticks[s.cur] = 0
  BY <1>1, ScheduleType DEF intr_timer_handler
<1>2. CASE s.ticks[s.cur] # 0
  <2>1. s.ticks[s.cur] - 1 \in Nat
    BY <1>2 DEF SchedState
  <2>2. [s EXCEPT !.ticks[s.cur] = @ - 1] \in SchedState
    BY <2>1 DEF SchedState
  <2> QED BY <1>2, <2>2 DEF intr_timer_handler
<1> QED BY <1>1, <1>2

(***************************************************************************)
(* The operators of Sync, and what they leave alone.                       *)
(***************************************************************************)
LEMMA SemaType ==
    ASSUME NEW s \in SchedState, NEW m \in SemaState
    PROVE  /\ s.cur \in Thread => SleepOn(s, m) \in SchedState
           /\ TakeCheck(s, m) \in SchedState
           /\ Signal(s, m) \in SchedState
           /\ \A t \in Thread : Enqueue(m, t) \in SemaState
           /\ m.value # 0 => Take(m) \in SemaState
           /\ Signalled(m) \in SemaState
<1>1. SleepOn(s, m) \in SchedState
  <2>1. Check(s, s.cur \notin Elements(m.waiters), "sync.c:23") \in SchedState
    BY PanicType DEF Check, Site
  <2> QED BY <2>1, BlockType DEF SleepOn, Status
<1>2. TakeCheck(s, m) \in SchedState
  BY PanicType DEF TakeCheck, Check, Site
<1>3. Signal(s, m) \in SchedState
  <2>1. Check(s, m.value = 0, "sync.c:41") \in SchedState
    BY PanicType DEF Check, Site
  <2>2. m.waiters # <<>> => Head(m.waiters) \in Thread
    BY DEF SemaState
  <2> QED BY <2>1, <2>2, UnblockType DEF Signal
<1>4. \A t \in Thread : Enqueue(m, t) \in SemaState
  BY DEF Enqueue, SemaState
<1>5. m.value # 0 => Take(m) \in SemaState
  BY DEF Take, SemaState
<1>6. Signalled(m) \in SemaState
  BY DEF Signalled, SemaState
<1> QED BY <1>1, <1>2, <1>3, <1>4, <1>5, <1>6

----------------------------------------------------------------------------
(***************************************************************************)
(* Type correctness.                                                       *)
(***************************************************************************)
LEMMA InitType == Init => TypeOK
<1> SUFFICES ASSUME Init PROVE TypeOK
  OBVIOUS
<1>1. k \in SchedState
  <2>1. PICK main \in Kthread, ready \in [1..Cardinality(Thread) - 1 -> Thread] :
           k = [cur |-> main, ready |-> ready,
                status |-> [t \in Thread |-> IF t = main THEN "RUNNING" ELSE "READY"],
                ticks |-> Priority, fault |-> "none"]
    BY DEF Init
  <2>2. Cardinality(Thread) - 1 \in Nat
    <3>1. Cardinality(Thread) \in Nat /\ Cardinality(Thread) # 0
      BY LocksAssumption, ThreadsAssumption, FS_CardinalityType, FS_EmptySet
    <3> QED BY <3>1
  <2>3. ready \in Seq(Thread)
    BY <2>2
  <2>4. main \in Thread
    BY LocksAssumption
  <2> QED BY <2>1, <2>3, <2>4, ThreadsAssumption DEF SchedState, Status
<1>2. sema \in [Sema -> SemaState]
  BY DEF Init, sema_init, SemaState
<1>3. pc \in [Thread -> WorkerPc \cup IdlePc]
  BY DEF Init, WorkerPc, IdlePc
<1>4. work \in [Thread -> 0..MaxWork]
  BY LocksAssumption DEF Init
<1> QED BY <1>1, <1>2, <1>3, <1>4 DEF Init, TypeOK

LEMMA InitAtLock == Init => AtLock
  BY LocksAssumption DEF Init, AtLock, Worker, WorkerPc, IdlePc

\* Types alone do not survive a step: sema_down() needs a thread inside the
\* kernel to be at a lock.
LEMMA NextType == TypeOK /\ AtLock /\ [Next]_vars => TypeOK' /\ AtLock'
<1> SUFFICES ASSUME TypeOK, AtLock, [Next]_vars PROVE TypeOK' /\ AtLock'
  OBVIOUS
<1> USE LocksAssumption, ThreadsAssumption DEF TypeOK, AtLock, Worker
<1>a. k.cur \in Thread
  BY DEF SchedState
<1>1. ASSUME NEW t \in Worker, NEW l \in Lock, Enter(t, l)
      PROVE  TypeOK' /\ AtLock'
  BY <1>1 DEF Enter, Runs, Goto, WorkerPc, IdlePc
<1>2. ASSUME NEW t \in Worker, Advance(t)
      PROVE  TypeOK' /\ AtLock'
  <2>a. t \in Thread /\ pc[t] \in WorkerPc /\ t # idle_thread
    OBVIOUS
  <2>b. pc[t] # "user" => lk[t] \in Lock
    OBVIOUS
  <2>c. pc[t] # "user" => <<lk[t], on[t]>> \in Sema /\ <<lk[t], "mutex">> \in Sema
    BY <2>b DEF Sema
  <2>1. CASE AcquireAgain(t)
    BY <2>1, <2>a, <2>b DEF AcquireAgain, Runs, Goto, WorkerPc, IdlePc
  <2>2. CASE AcquireFirst(t)
    BY <2>2, <2>a, <2>b DEF AcquireFirst, Runs, Goto, WorkerPc, IdlePc
  <2>3. CASE DownBlocks(t)
    <3> DEFINE x == <<lk[t], on[t]>>
    <3>1. x \in Sema
      BY <2>3, <2>c DEF DownBlocks, Runs
    <3>2. k' \in SchedState /\ sema' \in [Sema -> SemaState]
      <4>1. sema[x] \in SemaState
        BY <3>1
      <4>2. SleepOn(k, sema[x]) \in SchedState /\ Enqueue(sema[x], t) \in SemaState
        BY <4>1, <1>a, <2>a, SemaType
      <4> QED BY <2>3, <3>1, <4>2 DEF DownBlocks
    <3> QED BY <2>3, <2>a, <3>2 DEF DownBlocks, Runs, Goto, WorkerPc, IdlePc
  <2>4. CASE DownTakes(t)
    <3> DEFINE x == <<lk[t], on[t]>>
    <3>1. x \in Sema
      BY <2>4, <2>c DEF DownTakes, Runs
    <3>2. k' \in SchedState /\ sema' \in [Sema -> SemaState]
      <4>1. sema[x] \in SemaState
        BY <3>1
      <4>2. TakeCheck(k, sema[x]) \in SchedState
        BY <4>1, SemaType
      <4>3. Take(sema[x]) \in SemaState
        BY <4>1, <2>4, SemaType DEF DownTakes
      <4> QED BY <2>4, <3>1, <4>2, <4>3 DEF DownTakes
    <3> QED BY <2>4, <2>a, <3>2 DEF DownTakes, Runs, Goto, WorkerPc, IdlePc
  <2>5. CASE SetHolder(t)
    <3>1. k' \in SchedState
      BY <2>5, PanicType DEF SetHolder, Check, Site
    <3> QED BY <2>5, <3>1, <2>a DEF SetHolder, Runs, Goto, WorkerPc, IdlePc
  <2>6. CASE SetRepeat(t)
    BY <2>6, <2>a DEF SetRepeat, Runs, Goto, WorkerPc, IdlePc
  <2>7. CASE Reenter(t)
    BY <2>7, <2>a DEF Reenter, Spend, Runs, Goto, WorkerPc, IdlePc
  <2>8. CASE cmd_out(t)
    BY <2>8, <2>a DEF cmd_out, Spend, Runs, Goto, WorkerPc, IdlePc
  <2>9. CASE Yield(t)
    <3>1. k' \in SchedState
      BY <2>9, YieldType DEF Yield
    <3> QED BY <2>9, <3>1, <2>a DEF Yield, Spend, Runs, Goto
  <2>10. CASE ReleaseInner(t)
    <3>1. k' \in SchedState
      BY <2>10, PanicType DEF ReleaseInner, Check, Site
    <3> QED BY <2>10, <3>1, <2>a, <2>b DEF ReleaseInner, Runs
  <2>11. CASE ReleaseOuter(t)
    <3>1. Check(k, holder[lk[t]] = t, "sync.c:65") \in SchedState
      BY PanicType DEF Check, Site
    <3>2. k' \in SchedState
      BY <2>11, <3>1, PanicType DEF ReleaseOuter, Check, Site
    <3> QED BY <2>11, <3>2, <2>a DEF ReleaseOuter, Runs, Goto, WorkerPc, IdlePc
  <2>12. CASE ClearHolder(t)
    BY <2>12, <2>a DEF ClearHolder, Runs, Goto, WorkerPc, IdlePc
  <2>13. CASE ClearRepeat(t)
    BY <2>13, <2>a DEF ClearRepeat, Runs, Goto, WorkerPc, IdlePc
  <2>14. CASE Up(t)
    <3> DEFINE x == <<lk[t], "mutex">>
    <3>1. x \in Sema
      BY <2>14, <2>c DEF Up, Runs
    <3>2. k' \in SchedState /\ sema' \in [Sema -> SemaState]
      BY <2>14, <3>1, SemaType DEF Up
    <3>3. UNCHANGED <<holder, repeat, expecting, on>> /\ 0 \in 0..MaxWork
      BY <2>14 DEF Up
    <3>4. CASE pc' = [pc EXCEPT ![t] = "user"] /\ lk' = [lk EXCEPT ![t] = NULL]
                 /\ work' = [work EXCEPT ![t] = 0] /\ served' = [served EXCEPT ![t] = FALSE]
      BY <3>2, <3>3, <3>4, <2>a DEF WorkerPc, IdlePc
    <3>5. CASE pc' = [pc EXCEPT ![t] = "more"] /\ lk' = lk /\ pc[t] = "up"
                 /\ work[t] > 0 /\ work' = [work EXCEPT ![t] = @ - 1]
                 /\ served' = [served EXCEPT ![t] = TRUE]
      <4>1. work[t] - 1 \in 0..MaxWork
        BY <3>5, <2>a
      <4> QED BY <3>2, <3>3, <3>5, <4>1, <2>a, <2>b DEF WorkerPc, IdlePc
    <3> QED BY <2>14, <3>4, <3>5 DEF Up, Runs, Goto, Spend
  <2>15. CASE Again(t)
    BY <2>15, <2>a, <2>b DEF Again, Runs, Goto, WorkerPc, IdlePc
  <2> QED BY <1>2, <2>1, <2>2, <2>3, <2>4, <2>5, <2>6, <2>7, <2>8, <2>9, <2>10,
             <2>11, <2>12, <2>13, <2>14, <2>15 DEF Advance
<1>3. CASE Idle
  <2>1. CASE IdleBlock
    <3>1. k' \in SchedState
      BY <2>1, BlockType DEF IdleBlock, Status
    <3> QED BY <2>1, <3>1 DEF IdleBlock, Goto, IdlePc
  <2>2. CASE IdleHalt
    BY <2>2 DEF IdleHalt, Goto, IdlePc
  <2> QED BY <1>3, <2>1, <2>2 DEF Idle
<1>b. EndHalt => /\ pc' \in [Thread -> WorkerPc \cup IdlePc]
                 /\ pc'[idle_thread] \in IdlePc
                 /\ \A t \in Worker : pc'[t] = pc[t]
  BY DEF EndHalt, IdlePc
<1>4. CASE Timer
  <2>1. k' \in SchedState
    BY <1>4, TimerType DEF Timer
  <2> QED BY <1>4, <1>b, <2>1 DEF Timer
<1>5. ASSUME NEW l \in Lock, intr_hd_handler(l)
      PROVE  TypeOK' /\ AtLock'
  <2> DEFINE x == <<l, "done">>
  <2>1. x \in Sema
    BY DEF Sema
  <2>2. k' \in SchedState /\ sema' \in [Sema -> SemaState]
    BY <1>5, <2>1, SemaType DEF intr_hd_handler
  <2> QED BY <1>5, <1>b, <2>2 DEF intr_hd_handler
<1>6. CASE UNCHANGED vars
  BY <1>6 DEF vars
<1> QED BY <1>1, <1>2, <1>3, <1>4, <1>5, <1>6 DEF Next

\* Every reachable state is well typed, for any number of threads and locks.
THEOREM TypeCorrect == Spec => [](TypeOK /\ AtLock)
<1>1. Init => TypeOK /\ AtLock
  BY InitType, InitAtLock
<1> QED BY <1>1, NextType, PTL DEF Spec

----------------------------------------------------------------------------
(***************************************************************************)
(* Mutual exclusion.  LockInv ties three things together that the code     *)
(* updates at different moments, the semaphore's value, lock.holder and    *)
(* the place a thread has reached: a thread inside keeps the value at 0,   *)
(* so nobody else takes the semaphore, and holder is written only inside,  *)
(* so that the comparison of sync.c:54 is right about the thread itself    *)
(* even when it is preempted there.                                        *)
(***************************************************************************)
Inv == TypeOK /\ LockInv

LEMMA InitInv == Init => Inv
<1> SUFFICES ASSUME Init PROVE Inv
  OBVIOUS
<1> USE LocksAssumption DEF Init
<1>1. \A t \in Thread, l \in Lock : ~Owns(t, l)
  BY DEF Owns
<1>2. HolderInside
  BY DEF HolderInside
<1>3. InsideHolds
  BY DEF InsideHolds, Worker
<1>4. MutualExclusion
  BY <1>1 DEF MutualExclusion, Sema, sema_init
<1> QED BY <1>2, <1>3, <1>4, InitType, InitAtLock DEF Inv, LockInv

\* A step of t moves only t: it changes neither the place of another thread
\* nor, when it leaves the holder alone, whether that thread is inside.
LEMMA OthersKeep ==
    ASSUME TypeOK, NEW t \in Thread,
           \A u \in Thread \ {t} : pc'[u] = pc[u] /\ lk'[u] = lk[u] /\ on'[u] = on[u],
           \A u \in Thread \ {t}, l \in Lock : holder'[l] = u <=> holder[l] = u
    PROVE  \A u \in Thread \ {t}, l \in Lock : Owns(u, l)' <=> Owns(u, l)
  BY DEF Owns

\* The mutex values and the insides of the locks move together when neither
\* changes.
LEMMA ExclusionKept ==
    ASSUME MutualExclusion,
           \A u \in Thread, l \in Lock : Owns(u, l)' <=> Owns(u, l),
           \A l \in Lock : sema'[<<l, "mutex">>].value = sema[<<l, "mutex">>].value
    PROVE  MutualExclusion'
  BY DEF MutualExclusion

\* A step of a worker preserves the invariant: under each action, t's own
\* entries change, the others stay inside or outside as they were.
LEMMA AdvanceInv ==
    ASSUME Inv, TypeOK', AtLock', NEW t \in Worker, Advance(t)
    PROVE  LockInv'
<1> USE DEF Inv, LockInv
<1>a. t \in Thread /\ t # idle_thread /\ t # NULL
  BY LocksAssumption DEF Worker
<1>b. \A u \in Thread \ {t} : pc'[u] = pc[u] /\ lk'[u] = lk[u] /\ on'[u] = on[u]
  BY <1>a DEF Advance, AcquireAgain, AcquireFirst, DownBlocks, DownTakes, SetHolder,
       SetRepeat, Reenter, cmd_out, Yield, ReleaseInner, ReleaseOuter, ClearHolder,
       ClearRepeat, Up, Again, Goto, TypeOK
<1>c. \A l \in Lock : lk[t] = l => <<l, "mutex">> \in Sema
  BY DEF Sema
<1>1. CASE AcquireAgain(t)
  <2>1. \A u \in Thread, l \in Lock : Owns(u, l)' <=> Owns(u, l)
    BY <1>1, <1>a, <1>b DEF AcquireAgain, Runs, Goto, Owns, TypeOK, InsideHolds, AtLock, Worker
  <2>2. MutualExclusion'
    BY <1>1, <2>1, ExclusionKept DEF AcquireAgain
  <2>3. HolderInside'
    BY <1>1, <1>a, <1>b, <2>1 DEF AcquireAgain, Runs, Goto, HolderInside, TypeOK
  <2>4. InsideHolds'
    BY <1>1, <1>a, <1>b DEF AcquireAgain, Runs, Goto, InsideHolds, TypeOK, Worker
  <2> QED BY <2>2, <2>3, <2>4
<1>2. CASE AcquireFirst(t)
  <2>1. \A u \in Thread, l \in Lock : Owns(u, l)' <=> Owns(u, l)
    BY <1>2, <1>a, <1>b DEF AcquireFirst, Runs, Goto, Owns, TypeOK, InsideHolds, AtLock, Worker
  <2>2. MutualExclusion'
    BY <1>2, <2>1, ExclusionKept DEF AcquireFirst
  <2>3. HolderInside'
    BY <1>2, <1>a, <1>b, <2>1 DEF AcquireFirst, Runs, Goto, HolderInside, TypeOK
  <2>4. InsideHolds'
    BY <1>2, <1>a, <1>b DEF AcquireFirst, Runs, Goto, InsideHolds, TypeOK, Worker
  <2> QED BY <2>2, <2>3, <2>4
<1>3. CASE DownBlocks(t)
  <2>1. \A u \in Thread, l \in Lock : Owns(u, l)' <=> Owns(u, l)
    BY <1>3, <1>a, <1>b DEF DownBlocks, Runs, Goto, Owns, TypeOK
  <2>2. \A l \in Lock : sema'[<<l, "mutex">>].value = sema[<<l, "mutex">>].value
    BY <1>3 DEF DownBlocks, Enqueue, TypeOK, SemaState, Sema
  <2>3. MutualExclusion'
    BY <2>1, <2>2, ExclusionKept
  <2>4. HolderInside'
    BY <1>3, <1>a, <1>b, <2>1 DEF DownBlocks, Runs, Goto, HolderInside, TypeOK
  <2>5. InsideHolds'
    BY <1>3, <1>a, <1>b DEF DownBlocks, Runs, Goto, InsideHolds, TypeOK, Worker
  <2> QED BY <2>3, <2>4, <2>5
<1>4. CASE DownTakes(t)
  <2>a. lk[t] \in Lock /\ lk' = lk /\ on' = on /\ holder' = holder
    BY <1>4, <1>a DEF DownTakes, Runs, AtLock, TypeOK
  <2>1. CASE on[t] = "mutex"
    <3>1. \A u \in Thread : ~Owns(u, lk[t])
      BY <1>4, <2>a, <2>1 DEF DownTakes, MutualExclusion
    <3>2. \A u \in Thread, l \in Lock : Owns(u, l)' <=> Owns(u, l) \/ (u = t /\ l = lk[t])
      BY <1>4, <1>a, <1>b, <2>a, <2>1 DEF DownTakes, Runs, Goto, Owns, TypeOK
    <3>3. \A l \in Lock : sema'[<<l, "mutex">>].value =
                          IF l = lk[t] THEN 0 ELSE sema[<<l, "mutex">>].value
      <4>1. sema[<<lk[t], "mutex">>].value = 1
        BY <2>a, <3>1 DEF MutualExclusion
      <4>2. sema' = [sema EXCEPT ![<<lk[t], "mutex">>] = Take(@)]
        BY <1>4, <2>1 DEF DownTakes
      <4> QED BY <2>a, <4>1, <4>2 DEF Take, TypeOK, SemaState, Sema
    <3>4. MutualExclusion'
      <4> SUFFICES ASSUME NEW l \in Lock
                   PROVE  /\ \A u, v \in Thread : Owns(u, l)' /\ Owns(v, l)' => u = v
                          /\ \/ /\ sema'[<<l, "mutex">>].value = 0
                                /\ \E u \in Thread : Owns(u, l)'
                             \/ /\ sema'[<<l, "mutex">>].value = 1
                                /\ \A u \in Thread : ~Owns(u, l)'
        BY DEF MutualExclusion
      <4>1. CASE l = lk[t]
        BY <1>a, <3>1, <3>2, <3>3, <4>1
      <4>2. CASE l # lk[t]
        BY <3>2, <3>3, <4>2 DEF MutualExclusion
      <4> QED BY <4>1, <4>2
    <3>5. HolderInside'
      <4>1. \A l \in Lock : holder[l] # NULL => l # lk[t] /\ holder[l] # t
        BY <1>a, <2>a, <3>1, LocksAssumption DEF HolderInside, Owns, TypeOK
      <4> QED BY <1>4, <1>a, <1>b, <2>a, <4>1, <3>2 DEF DownTakes, Goto, HolderInside, TypeOK
    <3>6. InsideHolds'
      BY <1>4, <1>a, <1>b, <2>a, <2>1 DEF DownTakes, Runs, Goto, InsideHolds, TypeOK, Worker
    <3> QED BY <3>4, <3>5, <3>6
  <2>2. CASE on[t] = "done"
    <3>1. \A u \in Thread, l \in Lock : Owns(u, l)' <=> Owns(u, l)
      BY <1>4, <1>a, <1>b, <2>a, <2>2 DEF DownTakes, Runs, Goto, Owns, TypeOK
    <3>2. \A l \in Lock : sema'[<<l, "mutex">>].value = sema[<<l, "mutex">>].value
      BY <1>4, <2>2 DEF DownTakes, Take, TypeOK, SemaState, Sema
    <3>3. MutualExclusion'
      BY <3>1, <3>2, ExclusionKept
    <3>4. HolderInside'
      BY <1>4, <1>a, <1>b, <2>a, <2>2, <3>1 DEF DownTakes, Runs, Goto, HolderInside, TypeOK
    <3>5. InsideHolds'
      BY <1>4, <1>a, <1>b, <2>a, <2>2 DEF DownTakes, Runs, Goto, InsideHolds, TypeOK, Worker
    <3> QED BY <3>3, <3>4, <3>5
  <2> QED BY <2>1, <2>2, <1>a DEF TypeOK
<1>5. CASE SetHolder(t)
  <2>a. lk[t] \in Lock /\ Owns(t, lk[t])
    BY <1>5, <1>a DEF SetHolder, Runs, AtLock, TypeOK, Owns
  <2>b. holder[lk[t]] = NULL
    <3>1. SUFFICES ASSUME holder[lk[t]] # NULL PROVE FALSE
      OBVIOUS
    <3>2. Owns(holder[lk[t]], lk[t]) /\ pc[holder[lk[t]]] # "own"
      BY <2>a, <3>1 DEF HolderInside
    <3>3. holder[lk[t]] = t
      BY <1>a, <2>a, <3>1, <3>2 DEF MutualExclusion, TypeOK
    <3> QED BY <1>5, <3>2, <3>3 DEF SetHolder, Runs
  <2>1. \A u \in Thread, l \in Lock : Owns(u, l)' <=> Owns(u, l)
    BY <1>5, <1>a, <1>b, <2>a, <2>b, LocksAssumption DEF SetHolder, Runs, Goto, Owns, TypeOK
  <2>2. MutualExclusion'
    BY <1>5, <2>1, ExclusionKept DEF SetHolder
  <2>3. HolderInside'
    BY <1>5, <1>a, <1>b, <2>a, <2>1 DEF SetHolder, Runs, Goto, HolderInside, TypeOK
  <2>4. InsideHolds'
    <3>1. \A u \in Worker : u # t /\ lk[u] = lk[t] => ~Owns(u, lk[t])
      BY <2>a, <1>a, LocksAssumption DEF MutualExclusion, Worker
    <3> QED BY <1>5, <1>a, <1>b, <2>a, <3>1 DEF SetHolder, Runs, Goto, InsideHolds, TypeOK,
              Worker, Owns
  <2> QED BY <2>2, <2>3, <2>4
<1>6. CASE SetRepeat(t)
  <2>1. \A u \in Thread, l \in Lock : Owns(u, l)' <=> Owns(u, l)
    BY <1>6, <1>a, <1>b DEF SetRepeat, Runs, Goto, Owns, TypeOK, InsideHolds, AtLock, Worker
  <2>2. MutualExclusion'
    BY <1>6, <2>1, ExclusionKept DEF SetRepeat
  <2>3. HolderInside'
    BY <1>6, <1>a, <1>b, <2>1 DEF SetRepeat, Runs, Goto, HolderInside, TypeOK
  <2>4. InsideHolds'
    BY <1>6, <1>a, <1>b DEF SetRepeat, Runs, Goto, InsideHolds, TypeOK, Worker
  <2> QED BY <2>2, <2>3, <2>4
<1>7. CASE Reenter(t)
  <2>1. \A u \in Thread, l \in Lock : Owns(u, l)' <=> Owns(u, l)
    BY <1>7, <1>a, <1>b DEF Reenter, Spend, Runs, Goto, Owns, TypeOK, InsideHolds, AtLock, Worker
  <2>2. MutualExclusion'
    BY <1>7, <2>1, ExclusionKept DEF Reenter
  <2>3. HolderInside'
    BY <1>7, <1>a, <1>b, <2>1 DEF Reenter, Spend, Runs, Goto, HolderInside, TypeOK
  <2>4. InsideHolds'
    BY <1>7, <1>a, <1>b DEF Reenter, Spend, Runs, Goto, InsideHolds, TypeOK, Worker
  <2> QED BY <2>2, <2>3, <2>4
<1>8. CASE cmd_out(t)
  <2>1. \A u \in Thread, l \in Lock : Owns(u, l)' <=> Owns(u, l)
    BY <1>8, <1>a, <1>b DEF cmd_out, Spend, Runs, Goto, Owns, TypeOK, InsideHolds, AtLock, Worker
  <2>2. MutualExclusion'
    BY <1>8, <2>1, ExclusionKept DEF cmd_out
  <2>3. HolderInside'
    BY <1>8, <1>a, <1>b, <2>1 DEF cmd_out, Spend, Runs, Goto, HolderInside, TypeOK
  <2>4. InsideHolds'
    BY <1>8, <1>a, <1>b DEF cmd_out, Spend, Runs, Goto, InsideHolds, TypeOK, Worker
  <2> QED BY <2>2, <2>3, <2>4
<1>9. CASE Yield(t)
  <2>1. \A u \in Thread, l \in Lock : Owns(u, l)' <=> Owns(u, l)
    BY <1>9, <1>a, <1>b DEF Yield, Spend, Runs, Goto, Owns, TypeOK, InsideHolds, AtLock, Worker
  <2>2. MutualExclusion'
    BY <1>9, <2>1, ExclusionKept DEF Yield
  <2>3. HolderInside'
    BY <1>9, <1>a, <1>b, <2>1 DEF Yield, Spend, Runs, Goto, HolderInside, TypeOK
  <2>4. InsideHolds'
    BY <1>9, <1>a, <1>b DEF Yield, Spend, Runs, Goto, InsideHolds, TypeOK, Worker
  <2> QED BY <2>2, <2>3, <2>4
<1>10. CASE ReleaseInner(t)
  <2>1. \A u \in Thread, l \in Lock : Owns(u, l)' <=> Owns(u, l)
    BY <1>10, <1>a, <1>b DEF ReleaseInner, Runs, Goto, Owns, TypeOK, InsideHolds, AtLock, Worker
  <2>2. MutualExclusion'
    BY <1>10, <2>1, ExclusionKept DEF ReleaseInner
  <2>3. HolderInside'
    BY <1>10, <1>a, <1>b, <2>1 DEF ReleaseInner, Runs, Goto, HolderInside, TypeOK
  <2>4. InsideHolds'
    BY <1>10, <1>a, <1>b DEF ReleaseInner, Runs, Goto, InsideHolds, TypeOK, Worker
  <2> QED BY <2>2, <2>3, <2>4
<1>11. CASE ReleaseOuter(t)
  <2>1. \A u \in Thread, l \in Lock : Owns(u, l)' <=> Owns(u, l)
    BY <1>11, <1>a, <1>b DEF ReleaseOuter, Runs, Goto, Owns, TypeOK, InsideHolds, AtLock, Worker
  <2>2. MutualExclusion'
    BY <1>11, <2>1, ExclusionKept DEF ReleaseOuter
  <2>3. HolderInside'
    BY <1>11, <1>a, <1>b, <2>1 DEF ReleaseOuter, Runs, Goto, HolderInside, TypeOK
  <2>4. InsideHolds'
    BY <1>11, <1>a, <1>b DEF ReleaseOuter, Runs, Goto, InsideHolds, TypeOK, Worker
  <2> QED BY <2>2, <2>3, <2>4
<1>12. CASE ClearHolder(t)
  <2>a. lk[t] \in Lock /\ Owns(t, lk[t]) /\ holder[lk[t]] = t
    BY <1>12, <1>a DEF ClearHolder, Runs, AtLock, TypeOK, Owns, InsideHolds
  <2>1. \A u \in Thread, l \in Lock : Owns(u, l)' <=> Owns(u, l)
    BY <1>12, <1>a, <1>b, <2>a, LocksAssumption DEF ClearHolder, Runs, Goto, Owns, TypeOK
  <2>2. MutualExclusion'
    BY <1>12, <2>1, ExclusionKept DEF ClearHolder
  <2>3. HolderInside'
    <3>1. \A l \in Lock \ {lk[t]} : holder[l] # t
      BY <1>12, <1>a, <2>a DEF HolderInside, Owns
    <3> QED BY <1>12, <1>a, <1>b, <2>a, <2>1, <3>1 DEF ClearHolder, Runs, Goto, HolderInside, TypeOK
  <2>4. InsideHolds'
    <3>1. \A u \in Worker : u # t /\ lk[u] = lk[t] => ~Owns(u, lk[t])
      BY <2>a, <1>a, LocksAssumption DEF MutualExclusion, Worker
    <3> QED BY <1>12, <1>a, <1>b, <2>a, <3>1 DEF ClearHolder, Runs, Goto, InsideHolds, TypeOK,
              Worker, Owns
  <2> QED BY <2>2, <2>3, <2>4
<1>13. CASE ClearRepeat(t)
  <2>1. \A u \in Thread, l \in Lock : Owns(u, l)' <=> Owns(u, l)
    BY <1>13, <1>a, <1>b DEF ClearRepeat, Runs, Goto, Owns, TypeOK, InsideHolds, AtLock, Worker
  <2>2. MutualExclusion'
    BY <1>13, <2>1, ExclusionKept DEF ClearRepeat
  <2>3. HolderInside'
    BY <1>13, <1>a, <1>b, <2>1 DEF ClearRepeat, Runs, Goto, HolderInside, TypeOK
  <2>4. InsideHolds'
    BY <1>13, <1>a, <1>b DEF ClearRepeat, Runs, Goto, InsideHolds, TypeOK, Worker
  <2> QED BY <2>2, <2>3, <2>4
<1>14. CASE Up(t)
  <2>a. lk[t] \in Lock /\ Owns(t, lk[t]) /\ holder' = holder
    BY <1>14, <1>a DEF Up, Runs, AtLock, TypeOK, Owns
  <2>1. \A u \in Thread, l \in Lock : Owns(u, l)' <=> Owns(u, l) /\ u # t
    BY <1>14, <1>a, <1>b, <2>a, LocksAssumption DEF Up, Runs, Goto, Owns, TypeOK
  <2>2. \A l \in Lock : sema'[<<l, "mutex">>].value =
                        IF l = lk[t] THEN 1 ELSE sema[<<l, "mutex">>].value
    <3>1. sema[<<lk[t], "mutex">>].value = 0
      BY <1>a, <2>a DEF MutualExclusion
    <3>2. sema' = [sema EXCEPT ![<<lk[t], "mutex">>] = Signalled(@)]
      BY <1>14 DEF Up
    <3>3. Signalled(sema[<<lk[t], "mutex">>]).value = 1
      BY <3>1 DEF Signalled
    <3>4. <<lk[t], "mutex">> \in Sema /\ sema \in [Sema -> SemaState]
      BY <2>a DEF Sema, TypeOK
    <3> QED BY <3>2, <3>3, <3>4 DEF Sema
  <2>3. \A l \in Lock : Owns(t, l) => l = lk[t]
    BY DEF Owns
  <2>4. MutualExclusion'
    <3> SUFFICES ASSUME NEW l \in Lock
                 PROVE  /\ \A u, v \in Thread : Owns(u, l)' /\ Owns(v, l)' => u = v
                        /\ \/ /\ sema'[<<l, "mutex">>].value = 0
                              /\ \E u \in Thread : Owns(u, l)'
                           \/ /\ sema'[<<l, "mutex">>].value = 1
                              /\ \A u \in Thread : ~Owns(u, l)'
      BY DEF MutualExclusion
    <3>1. CASE l = lk[t]
      BY <1>a, <2>a, <2>1, <2>2, <3>1 DEF MutualExclusion
    <3>2. CASE l # lk[t]
      <4>1. \A u \in Thread : Owns(u, l)' <=> Owns(u, l)
        BY <2>1, <2>3, <3>2
      <4> QED BY <2>2, <3>2, <4>1 DEF MutualExclusion
    <3> QED BY <3>1, <3>2
  <2>5. HolderInside'
    BY <1>14, <1>a, <1>b, <2>a, <2>1 DEF Up, Runs, Goto, HolderInside, TypeOK
  <2>6. InsideHolds'
    <3>1. pc'[t] \in {"user", "more"}
      BY <1>14, <1>a DEF Up, Goto, TypeOK
    <3>2. \A u \in Worker \ {t} : pc'[u] = pc[u] /\ lk'[u] = lk[u] /\ on'[u] = on[u]
      BY <1>b, LocksAssumption DEF Worker
    <3> SUFFICES ASSUME NEW u \in Worker,
                        \/ pc'[u] \in {"count", "crit", "disown"}
                        \/ pc'[u] \in {"down", "recheck"} /\ on'[u] = "done"
                 PROVE  holder'[lk'[u]] = u
      BY DEF InsideHolds
    <3>3. u # t
      BY <3>1
    <3>4. pc'[u] = pc[u] /\ lk'[u] = lk[u] /\ on'[u] = on[u]
      BY <3>2, <3>3
    <3>5. holder[lk[u]] = u
      BY <3>4 DEF InsideHolds
    <3> QED BY <2>a, <3>4, <3>5
  <2> QED BY <2>4, <2>5, <2>6
<1>15. CASE Again(t)
  <2>a. lk[t] \in Lock /\ ~Owns(t, lk[t]) /\ \A l \in Lock : holder[l] # t
    BY <1>15, <1>a DEF Again, Runs, AtLock, TypeOK, Owns, HolderInside
  <2>1. \A u \in Thread, l \in Lock : Owns(u, l)' <=> Owns(u, l)
    BY <1>15, <1>a, <1>b, <2>a DEF Again, Runs, Goto, Owns, TypeOK
  <2>2. MutualExclusion'
    BY <1>15, <2>1, ExclusionKept DEF Again
  <2>3. HolderInside'
    BY <1>15, <1>a, <1>b, <2>a, <2>1 DEF Again, Runs, Goto, HolderInside, TypeOK
  <2>4. InsideHolds'
    BY <1>15, <1>a, <1>b DEF Again, Runs, Goto, InsideHolds, TypeOK, Worker
  <2> QED BY <2>2, <2>3, <2>4
<1> QED BY <1>1, <1>2, <1>3, <1>4, <1>5, <1>6, <1>7, <1>8, <1>9, <1>10, <1>11, <1>12,
           <1>13, <1>14, <1>15 DEF Advance

\* Steps of the idle thread and interrupts move nobody into or out of a lock.
LEMMA NextInv == Inv /\ [Next]_vars => Inv'
<1> SUFFICES ASSUME Inv, [Next]_vars PROVE Inv'
  OBVIOUS
<1>1. TypeOK' /\ AtLock'
  BY NextType DEF Inv, LockInv
<1>2. ASSUME NEW t \in Worker, Advance(t) PROVE LockInv'
  BY <1>1, <1>2, AdvanceInv
<1>3. ASSUME NEW t \in Worker, NEW l \in Lock, Enter(t, l) PROVE LockInv'
  <2>a. t \in Thread /\ t # NULL /\ lk[t] = NULL /\ holder' = holder /\ on' = on
    BY <1>3, LocksAssumption DEF Enter, Runs, Inv, LockInv, AtLock, Worker
  <2>b. \A m \in Lock : holder[m] # t /\ ~Owns(t, m)
    BY <2>a, LocksAssumption DEF Inv, LockInv, HolderInside, Owns
  <2>1. \A u \in Thread, m \in Lock : Owns(u, m)' <=> Owns(u, m)
    BY <1>3, <2>a, <2>b DEF Enter, Goto, Owns, Inv, TypeOK
  <2>2. MutualExclusion'
    BY <1>3, <2>1, ExclusionKept DEF Enter, Inv, LockInv
  <2>3. HolderInside'
    BY <1>3, <2>a, <2>b, <2>1 DEF Enter, Goto, HolderInside, Inv, LockInv, TypeOK
  <2>4. InsideHolds'
    BY <1>3, <2>a DEF Enter, Goto, InsideHolds, Inv, LockInv, TypeOK, Worker
  <2> QED BY <1>1, <2>2, <2>3, <2>4 DEF LockInv
<1>4. ASSUME \A u \in Worker : pc'[u] = pc[u],
             \A l \in Lock : sema'[<<l, "mutex">>].value = sema[<<l, "mutex">>].value,
             UNCHANGED <<holder, lk, on>>
      PROVE  LockInv'
  <2>1. \A u \in Thread, l \in Lock : Owns(u, l)' <=> Owns(u, l)
    <3>1. \A u \in Worker, l \in Lock : Owns(u, l)' <=> Owns(u, l)
      BY <1>4 DEF Owns
    <3>2. \A l \in Lock : ~Owns(idle_thread, l) /\ ~Owns(idle_thread, l)'
      BY <1>4, LocksAssumption DEF Owns, Inv, LockInv, AtLock
    <3> QED BY <3>1, <3>2, LocksAssumption DEF Worker
  <2>2. MutualExclusion'
    BY <1>4, <2>1, ExclusionKept DEF Inv, LockInv
  <2>3. HolderInside'
    <3>1. \A l \in Lock : holder[l] # NULL => holder[l] \in Worker
      BY LocksAssumption DEF HolderInside, Owns, Inv, LockInv, AtLock, TypeOK, Worker
    <3> QED BY <1>4, <2>1, <3>1, LocksAssumption DEF HolderInside, Inv, LockInv, TypeOK, Worker
  <2>4. InsideHolds'
    BY <1>4 DEF InsideHolds, Inv, LockInv
  <2> QED BY <1>1, <2>2, <2>3, <2>4 DEF LockInv
<1>5. CASE Idle
  <2>1. \A u \in Worker : pc'[u] = pc[u]
    BY <1>5, LocksAssumption DEF Idle, IdleBlock, IdleHalt, Goto, Worker, Inv, TypeOK
  <2>2. sema' = sema /\ UNCHANGED <<holder, lk, on>>
    BY <1>5 DEF Idle, IdleBlock, IdleHalt
  <2>3. \A l \in Lock : sema'[<<l, "mutex">>].value = sema[<<l, "mutex">>].value
    BY <2>2
  <2>4. /\ \A u \in Worker : pc'[u] = pc[u]
        /\ \A m \in Lock : sema'[<<m, "mutex">>].value = sema[<<m, "mutex">>].value
        /\ UNCHANGED <<holder, lk, on>>
    BY <2>1, <2>2, <2>3
  <2> QED BY <1>1, <1>4, <2>4 DEF Inv
<1>6. EndHalt => \A u \in Worker : pc'[u] = pc[u]
  BY LocksAssumption DEF EndHalt, Worker, Inv, TypeOK
<1>7. CASE Timer
  <2>1. sema' = sema /\ UNCHANGED <<holder, lk, on>> /\ EndHalt
    BY <1>7 DEF Timer
  <2>2. \A l \in Lock : sema'[<<l, "mutex">>].value = sema[<<l, "mutex">>].value
    BY <2>1
  <2>3. /\ \A u \in Worker : pc'[u] = pc[u]
        /\ \A m \in Lock : sema'[<<m, "mutex">>].value = sema[<<m, "mutex">>].value
        /\ UNCHANGED <<holder, lk, on>>
    BY <1>6, <2>1, <2>2
  <2> QED BY <1>1, <1>4, <2>3 DEF Inv
<1>8. ASSUME NEW l \in Lock, intr_hd_handler(l) PROVE LockInv'
  <2>1. \A m \in Lock : sema'[<<m, "mutex">>] = sema[<<m, "mutex">>]
    BY <1>8 DEF intr_hd_handler, Inv, TypeOK, Sema
  <2>2. UNCHANGED <<holder, lk, on>> /\ EndHalt
    BY <1>8 DEF intr_hd_handler
  <2>3. \A m \in Lock : sema'[<<m, "mutex">>].value = sema[<<m, "mutex">>].value
    BY <2>1
  <2>4. /\ \A u \in Worker : pc'[u] = pc[u]
        /\ \A m \in Lock : sema'[<<m, "mutex">>].value = sema[<<m, "mutex">>].value
        /\ UNCHANGED <<holder, lk, on>>
    BY <1>6, <2>2, <2>3
  <2> QED BY <1>1, <1>4, <2>4 DEF Inv
<1>9. CASE UNCHANGED vars
  <2>1. /\ \A u \in Worker : pc'[u] = pc[u]
        /\ \A l \in Lock : sema'[<<l, "mutex">>].value = sema[<<l, "mutex">>].value
        /\ UNCHANGED <<holder, lk, on>>
    BY <1>9 DEF vars
  <2> QED BY <1>1, <1>4, <2>1 DEF Inv
<1> QED BY <1>1, <1>2, <1>3, <1>5, <1>7, <1>8, <1>9 DEF Next, Inv

\* lock_acquire() and lock_release() keep two threads from ever being inside
\* the same lock, wherever they are preempted, for any number of threads.
THEOREM LocksExclude == Spec => []MutualExclusion
<1>1. Inv => MutualExclusion
  BY DEF Inv, LockInv
<1> QED BY InitInv, NextInv, <1>1, PTL DEF Spec

----------------------------------------------------------------------------
(***************************************************************************)
(* Serialization of system calls.  ServedRuns says why a process gets the  *)
(* lock again at once: from lock_release() to its next lock_acquire() it   *)
(* is the thread that runs and interrupts are disabled, so that no step    *)
(* but its own is possible, and it left the semaphore up.                  *)
(***************************************************************************)

\* A step of t neither takes another thread into a lock nor out of it: holder is
\* written only by the thread inside.
LEMMA OthersInside ==
    ASSUME Inv, NEW t \in Worker, Advance(t), NEW l \in Lock, NEW u \in Thread \ {t}
    PROVE  Owns(u, l)' <=> Owns(u, l)
<1>a. t \in Thread /\ (pc[t] # "user" => lk[t] \in Lock)
  BY LocksAssumption DEF Worker, Inv, LockInv, AtLock, TypeOK
<1>b. pc'[u] = pc[u] /\ lk'[u] = lk[u] /\ on'[u] = on[u]
  BY <1>a DEF Advance, AcquireAgain, AcquireFirst, DownBlocks, DownTakes, SetHolder,
       SetRepeat, Reenter, cmd_out, Yield, ReleaseInner, ReleaseOuter, ClearHolder,
       ClearRepeat, Up, Again, Goto, Inv, TypeOK
<1>1. CASE SetHolder(t) \/ ClearHolder(t)
  <2>1. Owns(t, lk[t]) /\ lk[t] \in Lock
    BY <1>a, <1>1 DEF SetHolder, ClearHolder, Runs, Owns
  <2>2. ~Owns(u, lk[t])
    BY <1>a, <2>1 DEF Inv, LockInv, MutualExclusion
  <2>3. holder' = [holder EXCEPT ![lk[t]] = t] \/ holder' = [holder EXCEPT ![lk[t]] = NULL]
    BY <1>1 DEF SetHolder, ClearHolder
  <2>4. CASE l = lk[t]
    <3>1. holder'[l] \in {t, NULL}
      BY <2>3, <2>4 DEF Inv, TypeOK
    <3> QED BY <1>b, <2>2, <2>4, <3>1, LocksAssumption DEF Owns
  <2>5. CASE l # lk[t]
    <3>1. holder'[l] = holder[l]
      BY <2>3, <2>5 DEF Inv, TypeOK
    <3> QED BY <1>b, <3>1 DEF Owns
  <2> QED BY <2>4, <2>5
<1>2. CASE ~SetHolder(t) /\ ~ClearHolder(t)
  <2>1. holder' = holder
    BY <1>2 DEF Advance, AcquireAgain, AcquireFirst, DownBlocks, DownTakes, SetRepeat,
       Reenter, cmd_out, Yield, ReleaseInner, ReleaseOuter, ClearRepeat, Up, Again
  <2> QED BY <1>b, <2>1 DEF Owns
<1> QED BY <1>1, <1>2

\* The semaphore of a lock is up only while nobody is inside.
LEMMA UpMeansFree ==
    ASSUME MutualExclusion, NEW l \in Lock, sema[<<l, "mutex">>].value = 1
    PROVE  \A u \in Thread : ~Owns(u, l)
  BY DEF MutualExclusion

\* sema_up() does not take the CPU from the thread that calls it.
LEMMA SignalKeepsCur ==
    ASSUME NEW s \in SchedState, NEW m \in SemaState
    PROVE  Signal(s, m).cur = s.cur
<1>1. /\ Check(s, m.value = 0, "sync.c:41") \in SchedState
      /\ Check(s, m.value = 0, "sync.c:41").cur = s.cur
  BY PanicType DEF Check, Site
<1>2. m.waiters # <<>> => Head(m.waiters) \in Thread
  BY DEF SemaState
<1> QED BY <1>1, <1>2, UnblockType DEF Signal

\* While a process is between two transfers no other thread takes a step.
LEMMA OnlyServedRuns ==
    ASSUME Inv, ServedRuns, Next, NEW t \in Process, served[t], ~Owns(t, lk[t])
    PROVE  Advance(t)
<1>1. k.cur = t /\ pc[t] \in {"more", "acq", "down"}
  BY DEF ServedRuns
<1>2. ~IF_on
  BY <1>1, LocksAssumption DEF IF_on
<1>3. ~Timer /\ \A l \in Lock : ~intr_hd_handler(l)
  BY <1>2 DEF Timer, intr_hd_handler
<1>4. ~Idle
  BY <1>1, LocksAssumption DEF Idle, IdleBlock, IdleHalt, Runs
<1>5. \A u \in Worker, l \in Lock : ~Enter(u, l)
  BY <1>1 DEF Enter, Runs
<1>6. \A u \in Worker : Advance(u) => u = t
  BY <1>1 DEF Advance, AcquireAgain, AcquireFirst, DownBlocks, DownTakes, SetHolder,
       SetRepeat, Reenter, cmd_out, Yield, ReleaseInner, ReleaseOuter, ClearHolder,
       ClearRepeat, Up, Again, Runs
<1> QED BY <1>3, <1>4, <1>5, <1>6 DEF Next

\* A step of the process itself that is not its sema_up() keeps it inside.
LEMMA InsideKept ==
    ASSUME Inv, NEW t \in Worker, Advance(t), ~Up(t), Owns(t, lk[t]), lk[t] \in Lock
    PROVE  Owns(t, lk[t])' /\ lk'[t] = lk[t]
<1> USE LocksAssumption DEF Inv, TypeOK, Owns, Runs, Goto, Worker
<1>1. CASE AcquireAgain(t) \/ AcquireFirst(t)
  BY <1>1 DEF AcquireAgain, AcquireFirst
<1>2. CASE DownBlocks(t)
  BY <1>2 DEF DownBlocks
<1>3. CASE DownTakes(t)
  BY <1>3 DEF DownTakes
<1>4. CASE SetHolder(t) \/ SetRepeat(t)
  BY <1>4 DEF SetHolder, SetRepeat
<1>5. CASE Reenter(t)
  BY <1>5 DEF Reenter, LockInv, InsideHolds
<1>6. CASE cmd_out(t) \/ Yield(t)
  BY <1>6 DEF cmd_out, Yield
<1>7. CASE ReleaseInner(t) \/ ReleaseOuter(t)
  BY <1>7 DEF ReleaseInner, ReleaseOuter
<1>8. CASE ClearHolder(t) \/ ClearRepeat(t)
  BY <1>8 DEF ClearHolder, ClearRepeat
<1>9. CASE Again(t)
  BY <1>9 DEF Again
<1> QED BY <1>1, <1>2, <1>3, <1>4, <1>5, <1>6, <1>7, <1>8, <1>9 DEF Advance

\* A step of another thread does not move t out of its lock: holder is written
\* only by the thread inside.
LEMMA InsideUndisturbed ==
    ASSUME Inv, NEW t \in Worker, NEW u \in Worker \ {t}, Advance(u),
           Owns(t, lk[t]), lk[t] \in Lock
    PROVE  Owns(t, lk[t])' /\ lk'[t] = lk[t]
<1>1. pc'[t] = pc[t] /\ lk'[t] = lk[t] /\ on'[t] = on[t]
  BY LocksAssumption DEF Advance, AcquireAgain, AcquireFirst, DownBlocks, DownTakes, SetHolder,
       SetRepeat, Reenter, cmd_out, Yield, ReleaseInner, ReleaseOuter, ClearHolder,
       ClearRepeat, Up, Again, Goto, Inv, TypeOK, Worker
<1>2. ~Owns(u, lk[t])
  BY LocksAssumption DEF Inv, LockInv, MutualExclusion, Worker
<1>3. holder'[lk[t]] = holder[lk[t]]
  <2>1. CASE SetHolder(u)
    BY <1>2, <2>1 DEF SetHolder, Runs, Owns, Inv, TypeOK
  <2>2. CASE ClearHolder(u)
    BY <1>2, <2>2 DEF ClearHolder, Runs, Owns, Inv, TypeOK
  <2>3. CASE ~SetHolder(u) /\ ~ClearHolder(u)
    BY <2>3 DEF Advance, AcquireAgain, AcquireFirst, DownBlocks, DownTakes, SetRepeat,
         Reenter, cmd_out, Yield, ReleaseInner, ReleaseOuter, ClearRepeat, Up, Again
  <2> QED BY <2>1, <2>2, <2>3
<1> QED BY <1>1, <1>3 DEF Owns

\* sema_up() between two transfers leaves the process running and the lock free.
LEMMA UpServes ==
    ASSUME Inv, NEW t \in Process, Up(t), served'[t]
    PROVE  /\ lk[t] \in Lock /\ lk'[t] = lk[t] /\ k'.cur = t /\ pc'[t] = "more"
           /\ sema'[<<lk[t], "mutex">>].value = 1
<1>a. t \in Worker /\ t \in Thread
  BY LocksAssumption DEF Worker
<1>b. k.cur = t /\ pc[t] = "up"
  BY DEF Up, Runs
<1>1. lk[t] \in Lock /\ Owns(t, lk[t])
  BY <1>a, <1>b DEF Inv, LockInv, AtLock, TypeOK, Owns
<1>2. <<lk[t], "mutex">> \in Sema /\ sema[<<lk[t], "mutex">>] \in SemaState
  BY <1>1 DEF Sema, Inv, TypeOK
<1>3. sema[<<lk[t], "mutex">>].value = 0
  BY <1>a, <1>1 DEF Inv, LockInv, MutualExclusion
<1>4. sema'[<<lk[t], "mutex">>].value = 1
  <2>1. sema'[<<lk[t], "mutex">>] = Signalled(sema[<<lk[t], "mutex">>])
    BY <1>2 DEF Up, Inv, TypeOK
  <2> QED BY <1>3, <2>1 DEF Signalled
<1>5. k'.cur = t
  BY <1>b, <1>2, SignalKeepsCur DEF Up, Inv, TypeOK
<1>6. lk' = lk /\ pc'[t] = "more"
  BY <1>a DEF Up, Goto, Inv, TypeOK
<1> QED BY <1>1, <1>4, <1>5, <1>6

LEMMA NextServed == Inv /\ ServedRuns /\ [Next]_vars => ServedRuns'
<1> SUFFICES ASSUME Inv, ServedRuns, [Next]_vars, NEW t \in Process, served'[t]
             PROVE  /\ lk'[t] \in Lock
                    /\ \/ Owns(t, lk[t])'
                       \/ /\ k'.cur = t /\ pc'[t] \in {"more", "acq", "down"}
                          /\ sema'[<<lk'[t], "mutex">>].value = 1
  BY DEF ServedRuns
<1>a. t \in Worker /\ t \in Thread
  BY LocksAssumption DEF Worker
<1>1. CASE Up(t)
  <2>1. /\ lk[t] \in Lock /\ lk'[t] = lk[t] /\ k'.cur = t /\ pc'[t] = "more"
        /\ sema'[<<lk[t], "mutex">>].value = 1
    BY <1>1, UpServes
  <2> QED BY <2>1
<1>2. CASE ~Up(t) /\ Next
  <2>1. served[t]
    <3>1. ASSUME NEW u \in Worker, Advance(u) PROVE served'[t] = served[t]
      <4>1. CASE Up(u)
        BY <1>2, <1>a, <4>1, LocksAssumption DEF Up, Inv, TypeOK, Worker
      <4>2. CASE ~Up(u)
        BY <3>1, <4>2 DEF Advance, AcquireAgain, AcquireFirst, DownBlocks, DownTakes,
          SetHolder, SetRepeat, Reenter, cmd_out, Yield, ReleaseInner, ReleaseOuter,
          ClearHolder, ClearRepeat, Again
      <4> QED BY <4>1, <4>2
    <3>2. (\E u \in Worker, l \in Lock : Enter(u, l)) \/ Idle \/ Timer
             \/ (\E l \in Lock : intr_hd_handler(l)) => served' = served
      BY DEF Enter, Idle, IdleBlock, IdleHalt, Timer, intr_hd_handler
    <3> QED BY <1>2, <3>1, <3>2 DEF Next
  <2>2. lk[t] \in Lock
    BY <2>1 DEF ServedRuns
  <2>3. CASE Owns(t, lk[t])
    <3>1. ASSUME NEW u \in Worker, Advance(u) PROVE Owns(t, lk[t])' /\ lk'[t] = lk[t]
      BY <1>2, <1>a, <2>2, <2>3, <3>1, InsideKept, InsideUndisturbed
    <3>2. pc[t] # "user"
      BY <2>3 DEF Owns
    <3>3. ASSUME NEW u \in Worker, NEW l \in Lock, Enter(u, l)
          PROVE  Owns(t, lk[t])' /\ lk'[t] = lk[t]
      BY <1>a, <2>3, <3>2, <3>3, LocksAssumption DEF Enter, Runs, Goto, Owns, Inv, TypeOK, Worker
    <3>4. CASE Idle
      <4>1. pc'[t] = pc[t] /\ lk' = lk /\ on' = on /\ holder' = holder
        BY <1>a, <3>4, LocksAssumption DEF Idle, IdleBlock, IdleHalt, Goto, Inv, TypeOK, Worker
      <4> QED BY <2>2, <2>3, <4>1 DEF Owns
    <3>5. CASE Timer \/ \E l \in Lock : intr_hd_handler(l)
      <4>1. EndHalt /\ lk' = lk /\ on' = on /\ holder' = holder
        BY <3>5 DEF Timer, intr_hd_handler
      <4>2. pc'[t] = pc[t]
        BY <1>a, <4>1, LocksAssumption DEF EndHalt, Inv, TypeOK, Worker
      <4> QED BY <2>2, <2>3, <4>1, <4>2 DEF Owns
    <3> QED BY <1>2, <2>2, <3>1, <3>3, <3>4, <3>5 DEF Next
  <2>4. CASE ~Owns(t, lk[t])
    <3>1. Advance(t)
      BY <1>2, <2>1, <2>4, OnlyServedRuns
    <3>2. /\ k.cur = t /\ pc[t] \in {"more", "acq", "down"}
          /\ sema[<<lk[t], "mutex">>].value = 1
      BY <2>1, <2>4 DEF ServedRuns
    <3>3. pc[t] = "down" => on[t] = "mutex"
      BY <1>a, <2>2, <2>4 DEF Owns, Inv, TypeOK
    <3>4. CASE AcquireFirst(t)
      BY <1>a, <2>2, <3>2, <3>4 DEF AcquireFirst, Goto, Inv, TypeOK
    <3>5. CASE Again(t)
      BY <1>a, <2>2, <3>2, <3>5 DEF Again, Goto, Inv, TypeOK
    <3>6. CASE DownTakes(t)
      BY <1>a, <2>2, <3>2, <3>3, <3>6 DEF DownTakes, Runs, Goto, Owns, Inv, TypeOK
    <3>7. ~AcquireAgain(t) /\ ~DownBlocks(t) /\ ~Yield(t)
      BY <2>2, <2>4, <3>2, <3>3 DEF AcquireAgain, DownBlocks, Yield, Runs, Owns
    <3>8. ~SetHolder(t) /\ ~SetRepeat(t) /\ ~Reenter(t) /\ ~cmd_out(t) /\ ~ReleaseInner(t)
          /\ ~ReleaseOuter(t) /\ ~ClearHolder(t) /\ ~ClearRepeat(t)
      BY <3>2 DEF SetHolder, SetRepeat, Reenter, cmd_out, ReleaseInner, ReleaseOuter,
         ClearHolder, ClearRepeat, Runs
    <3> QED BY <1>2, <3>1, <3>4, <3>5, <3>6, <3>7, <3>8 DEF Advance
  <2> QED BY <2>3, <2>4
<1>3. CASE UNCHANGED vars
  BY <1>3 DEF vars, ServedRuns, Owns
<1> QED BY <1>1, <1>2, <1>3

\* The disk transfers of a system call are not interleaved with those of any
\* other thread on the channel, for any number of processes: the file system,
\* which has no lock of its own, is protected by the drive's.
THEOREM CallsSerialized == Spec => []Serialized
<1>1. Init => ServedRuns
  BY LocksAssumption DEF Init, ServedRuns
<1>2. Inv /\ ServedRuns => Serialized
  <2> SUFFICES ASSUME Inv, ServedRuns, NEW t \in Process, served[t]
               PROVE  /\ \A u \in Thread \ {t} : ~Owns(u, lk[t])
                      /\ pc[t] = "recheck" => on[t] = "done"
    BY DEF Serialized
  <2>1. t \in Thread /\ lk[t] \in Lock
    BY LocksAssumption DEF ServedRuns
  <2>2. CASE Owns(t, lk[t])
    BY <2>1, <2>2 DEF Owns, Inv, LockInv, MutualExclusion
  <2>3. CASE ~Owns(t, lk[t])
    BY <2>1, <2>3, UpMeansFree DEF ServedRuns, Inv, LockInv
  <2> QED BY <2>2, <2>3
<1> QED BY InitInv, NextInv, NextServed, <1>1, <1>2, PTL DEF Spec
----------------------------------------------------------------------------
(***************************************************************************)
(* Completions.  Only the thread inside a lock waits for the drive of its  *)
(* channel, so the command it gives finds nothing outstanding, and the     *)
(* interrupt finds it waiting.                                             *)
(***************************************************************************)
Awaits(t, l) == lk[t] = l /\ on[t] = "done" /\ pc[t] \in {"down", "recheck"}

\* OneCompletion of one channel, by cases.
Completed(l) ==
    \/ /\ \E t \in Worker : Awaits(t, l)
       /\ \/ expecting[l] /\ sema[<<l, "done">>].value = 0
          \/ ~expecting[l] /\ sema[<<l, "done">>].value = 1
    \/ /\ \A t \in Worker : ~Awaits(t, l)
       /\ ~expecting[l] /\ sema[<<l, "done">>].value = 0

LEMMA CompletedMeans ==
    ASSUME TypeOK
    PROVE  OneCompletion <=> \A l \in Lock : Completed(l)
<1>1. \A l \in Lock : expecting[l] \in BOOLEAN /\ sema[<<l, "done">>].value \in Nat
  BY DEF TypeOK, Sema, SemaState
<1> SUFFICES ASSUME NEW l \in Lock
             PROVE  ((IF expecting[l] THEN 1 ELSE 0) + sema[<<l, "done">>].value =
                       IF \E t \in Worker : Awaits(t, l) THEN 1 ELSE 0) <=> Completed(l)
  BY DEF OneCompletion, Awaits
<1>2. CASE \E t \in Worker : Awaits(t, l)
  BY <1>1, <1>2 DEF Completed
<1>3. CASE \A t \in Worker : ~Awaits(t, l)
  BY <1>1, <1>3 DEF Completed
<1> QED BY <1>2, <1>3

\* A step that touches neither the flag nor the semaphore of a channel, nor who
\* waits for it, keeps its account.
LEMMA CompletedKept ==
    ASSUME NEW l \in Lock, Completed(l), expecting'[l] = expecting[l],
           sema'[<<l, "done">>].value = sema[<<l, "done">>].value,
           \A u \in Worker : Awaits(u, l)' <=> Awaits(u, l)
    PROVE  Completed(l)'
  BY DEF Completed

\* Two threads do not wait for one drive.
LEMMA OneAwaits ==
    ASSUME Inv, NEW l \in Lock, NEW t \in Worker, Owns(t, l)
    PROVE  \A u \in Worker \ {t} : ~Awaits(u, l)
  BY LocksAssumption DEF Inv, LockInv, MutualExclusion, Owns, Awaits, Worker

LEMMA AdvanceCompletes ==
    ASSUME Inv, NEW t \in Worker, Advance(t), NEW l \in Lock, Completed(l)
    PROVE  Completed(l)'
<1>a. t \in Thread /\ (pc[t] # "user" => lk[t] \in Lock)
  BY LocksAssumption DEF Worker, Inv, LockInv, AtLock, TypeOK
<1>b. \A u \in Worker \ {t} : Awaits(u, l)' <=> Awaits(u, l)
  BY <1>a, LocksAssumption DEF Advance, AcquireAgain, AcquireFirst, DownBlocks, DownTakes,
       SetHolder, SetRepeat, Reenter, cmd_out, Yield, ReleaseInner, ReleaseOuter, ClearHolder,
       ClearRepeat, Up, Again, Goto, Inv, TypeOK, Worker, Awaits
<1>1. CASE cmd_out(t)
  <2>1. CASE lk[t] = l
    <3>1. Owns(t, l) /\ ~Awaits(t, l) /\ Awaits(t, l)'
      BY <1>1, <1>a, <2>1 DEF cmd_out, Runs, Goto, Owns, Awaits, Inv, TypeOK
    <3>2. \A u \in Worker : ~Awaits(u, l)
      BY <3>1, OneAwaits
    <3>3. sema[<<l, "done">>].value = 0 /\ sema' = sema /\ expecting'[l]
      BY <1>1, <2>1, <3>2 DEF Completed, cmd_out, Inv, TypeOK
    <3> QED BY <3>1, <3>3 DEF Completed
  <2>2. CASE lk[t] # l
    <3>1. ~Awaits(t, l) /\ ~Awaits(t, l)' /\ sema' = sema /\ expecting'[l] = expecting[l]
      BY <1>1, <2>2 DEF cmd_out, Awaits, Inv, TypeOK
    <3> QED BY <1>b, <3>1, CompletedKept
  <2> QED BY <2>1, <2>2
<1>2. CASE DownTakes(t)
  <2>a. <<lk[t], on[t]>> \in Sema /\ expecting' = expecting /\ lk' = lk /\ on' = on
    BY <1>2, <1>a DEF DownTakes, Runs, Sema, Inv, TypeOK
  <2>b. ~Awaits(t, l)'
    BY <1>2, <1>a, <2>a DEF DownTakes, Goto, Awaits, Inv, TypeOK
  <2>1. CASE lk[t] = l /\ on[t] = "done"
    <3>1. Owns(t, l) /\ Awaits(t, l) /\ sema[<<l, "done">>].value # 0
      BY <1>2, <2>1 DEF DownTakes, Runs, Owns, Awaits
    <3>2. ~expecting[l] /\ sema[<<l, "done">>].value = 1
      BY <3>1 DEF Completed
    <3>3. sema'[<<l, "done">>].value = 0
      <4>1. sema'[<<l, "done">>] = Take(sema[<<l, "done">>])
        BY <1>2, <2>a, <2>1 DEF DownTakes, Inv, TypeOK
      <4>2. sema[<<l, "done">>] \in SemaState
        BY <2>a, <2>1 DEF Inv, TypeOK
      <4> QED BY <3>2, <4>1, <4>2 DEF Take, SemaState
    <3>4. \A u \in Worker : ~Awaits(u, l)'
      BY <1>b, <2>b, <3>1, OneAwaits
    <3> QED BY <2>a, <3>2, <3>3, <3>4 DEF Completed
  <2>2. CASE ~(lk[t] = l /\ on[t] = "done")
    <3>1. sema'[<<l, "done">>] = sema[<<l, "done">>]
      BY <1>2, <2>a, <2>2 DEF DownTakes, Inv, TypeOK, Sema
    <3>2. ~Awaits(t, l)
      BY <2>2 DEF Awaits
    <3> QED BY <1>b, <2>a, <2>b, <3>1, <3>2, CompletedKept
  <2> QED BY <2>1, <2>2
<1>3. CASE DownBlocks(t)
  <2>1. Awaits(t, l)' <=> Awaits(t, l)
    BY <1>3, <1>a DEF DownBlocks, Runs, Goto, Awaits, Inv, TypeOK
  <2>2. sema'[<<l, "done">>].value = sema[<<l, "done">>].value /\ expecting' = expecting
    BY <1>3 DEF DownBlocks, Enqueue, Inv, TypeOK, Sema, SemaState
  <2> QED BY <1>b, <2>1, <2>2, CompletedKept
<1>4. CASE Up(t)
  <2>1. ~Awaits(t, l) /\ ~Awaits(t, l)'
    BY <1>4, <1>a DEF Up, Runs, Goto, Awaits, Inv, TypeOK
  <2>2. sema'[<<l, "done">>] = sema[<<l, "done">>] /\ expecting' = expecting
    BY <1>4 DEF Up, Inv, TypeOK, Sema
  <2> QED BY <1>b, <2>1, <2>2, CompletedKept
<1>5. CASE Yield(t)
  <2>1. sema' = sema /\ expecting' = expecting /\ (Awaits(t, l)' <=> Awaits(t, l))
    BY <1>5 DEF Yield, Awaits
  <2> QED BY <1>b, <2>1, CompletedKept
<1>6. CASE AcquireAgain(t) \/ AcquireFirst(t) \/ SetHolder(t) \/ SetRepeat(t) \/ Reenter(t)
              \/ ReleaseInner(t) \/ ReleaseOuter(t) \/ ClearHolder(t) \/ ClearRepeat(t)
              \/ Again(t)
  <2>1. sema' = sema /\ expecting' = expecting
    BY <1>6 DEF AcquireAgain, AcquireFirst, SetHolder, SetRepeat, Reenter, ReleaseInner,
         ReleaseOuter, ClearHolder, ClearRepeat, Again
  <2>2. ~Awaits(t, l)
    BY <1>6 DEF AcquireAgain, AcquireFirst, SetHolder, SetRepeat, Reenter, ReleaseInner,
         ReleaseOuter, ClearHolder, ClearRepeat, Again, Runs, Awaits
  <2>3. ~Awaits(t, l)'
    <3>1. CASE AcquireFirst(t)
      BY <3>1, <1>a DEF AcquireFirst, Awaits, Inv, TypeOK
    <3>2. CASE ~AcquireFirst(t)
      BY <1>6, <1>a, <3>2 DEF AcquireAgain, SetHolder, SetRepeat, Reenter, ReleaseInner,
           ReleaseOuter, ClearHolder, ClearRepeat, Again, Runs, Goto, Awaits, Inv, TypeOK
    <3> QED BY <3>1, <3>2
  <2> QED BY <1>b, <2>1, <2>2, <2>3, CompletedKept
<1> QED BY <1>1, <1>2, <1>3, <1>4, <1>5, <1>6 DEF Advance

LEMMA NextCompletes ==
    ASSUME Inv, [Next]_vars, NEW l \in Lock, Completed(l)
    PROVE  Completed(l)'
<1>a. EndHalt => \A u \in Worker : pc'[u] = pc[u]
  BY LocksAssumption DEF EndHalt, Worker, Inv, TypeOK
<1>1. ASSUME NEW t \in Worker, Advance(t) PROVE Completed(l)'
  BY <1>1, AdvanceCompletes
<1>2. ASSUME NEW t \in Worker, NEW m \in Lock, Enter(t, m) PROVE Completed(l)'
  <2>1. \A u \in Worker : Awaits(u, l)' <=> Awaits(u, l)
    BY <1>2, LocksAssumption DEF Enter, Runs, Goto, Awaits, Inv, TypeOK, Worker
  <2> QED BY <1>2, <2>1, CompletedKept DEF Enter
<1>3. CASE Idle \/ Timer
  <2>1. \A u \in Worker : pc'[u] = pc[u]
    BY <1>3, <1>a, LocksAssumption DEF Idle, IdleBlock, IdleHalt, Timer, Goto, Worker, Inv, TypeOK
  <2>2. sema' = sema /\ expecting' = expecting /\ lk' = lk /\ on' = on
    BY <1>3 DEF Idle, IdleBlock, IdleHalt, Timer
  <2> QED BY <2>1, <2>2, CompletedKept DEF Awaits
<1>4. ASSUME NEW m \in Lock, intr_hd_handler(m) PROVE Completed(l)'
  <2>1. \A u \in Worker : Awaits(u, l)' <=> Awaits(u, l)
    BY <1>4, <1>a DEF intr_hd_handler, Awaits
  <2>2. CASE m = l
    <3>1. expecting[l] /\ ~expecting'[l]
      BY <1>4, <2>2 DEF intr_hd_handler, Inv, TypeOK
    <3>2. (\E u \in Worker : Awaits(u, l)) /\ sema[<<l, "done">>].value = 0
      BY <3>1 DEF Completed
    <3>3. sema'[<<l, "done">>].value = 1
      <4>1. sema'[<<l, "done">>] = Signalled(sema[<<l, "done">>])
        BY <1>4, <2>2 DEF intr_hd_handler, Inv, TypeOK, Sema
      <4> QED BY <3>2, <4>1 DEF Signalled
    <3> QED BY <2>1, <3>1, <3>2, <3>3 DEF Completed
  <2>3. CASE m # l
    <3>1. sema'[<<l, "done">>] = sema[<<l, "done">>] /\ expecting'[l] = expecting[l]
      BY <1>4, <2>3 DEF intr_hd_handler, Inv, TypeOK, Sema
    <3> QED BY <2>1, <3>1, CompletedKept
  <2> QED BY <2>2, <2>3
<1>5. CASE UNCHANGED vars
  BY <1>5, CompletedKept DEF vars, Awaits
<1> QED BY <1>1, <1>2, <1>3, <1>4, <1>5 DEF Next

\* Each command of a channel is completed by exactly one interrupt, and none is
\* left over for the next command, whenever the interrupt comes and whoever
\* waits, for any number of threads and channels.
THEOREM CommandsComplete == Spec => []OneCompletion
<1> DEFINE CInv == Inv /\ \A l \in Lock : Completed(l)
<1>1. Init => CInv
  <2> SUFFICES ASSUME Init, NEW l \in Lock PROVE Completed(l)
    BY InitInv
  <2>1. \A t \in Worker : pc[t] = "user"
    BY LocksAssumption DEF Init, Worker
  <2>2. ~expecting[l] /\ sema[<<l, "done">>].value = 0
    BY DEF Init, Sema, sema_init
  <2> QED BY <2>1, <2>2 DEF Completed, Awaits
<1>2. CInv /\ [Next]_vars => CInv'
  <2> SUFFICES ASSUME CInv, [Next]_vars PROVE CInv'
    OBVIOUS
  <2>1. ASSUME NEW l \in Lock PROVE Completed(l)'
    BY NextCompletes
  <2> QED BY <2>1, NextInv
<1>3. CInv => OneCompletion
  BY CompletedMeans DEF Inv
<1> QED BY <1>1, <1>2, <1>3, PTL DEF Spec

----------------------------------------------------------------------------
(***************************************************************************)
(* Locks implements Mutex, for every set of threads and locks: sema_up()   *)
(* releases, the sema_down() that takes the semaphore of the lock acquires,*)
(* a thread that starts to acquire requests, every other step changes      *)
(* neither who is inside a lock nor who waits for it.                      *)
(***************************************************************************)

Waits(t, l) == lk[t] = l /\ pc[t] # "more" /\ ~Owns(t, l)

\* A step of t leaves every other thread inside or outside, waiting or not.
LEMMA OwnsOthers ==
    ASSUME Inv, NEW t \in Worker, Advance(t), NEW l \in Lock, NEW u \in Thread \ {t}
    PROVE  (Owns(u, l)' <=> Owns(u, l)) /\ (Waits(u, l)' <=> Waits(u, l))
<1>a. t \in Thread /\ (pc[t] # "user" => lk[t] \in Lock)
  BY LocksAssumption DEF Worker, Inv, LockInv, AtLock, TypeOK
<1>b. pc'[u] = pc[u] /\ lk'[u] = lk[u] /\ on'[u] = on[u]
  BY <1>a DEF Advance, AcquireAgain, AcquireFirst, DownBlocks, DownTakes, SetHolder,
       SetRepeat, Reenter, cmd_out, Yield, ReleaseInner, ReleaseOuter, ClearHolder,
       ClearRepeat, Up, Again, Goto, Inv, TypeOK
<1>1. Owns(u, l)' <=> Owns(u, l)
  BY OthersInside
<1> QED BY <1>b, <1>1 DEF Waits

\* Mutex's state, thread by thread.
LEMMA HoldersWaiting ==
    /\ \A l \in Lock : Holders[l] = {u \in Thread : Owns(u, l)}
    /\ \A l \in Lock : Waiting[l] = {u \in Thread : Waits(u, l)}
    /\ \A l \in Lock : Holders'[l] = {u \in Thread : Owns(u, l)'}
    /\ \A l \in Lock : Waiting'[l] = {u \in Thread : Waits(u, l)'}
    /\ Holders = [l \in Lock |-> Holders[l]] /\ Waiting = [l \in Lock |-> Waiting[l]]
    /\ Holders' = [l \in Lock |-> Holders'[l]] /\ Waiting' = [l \in Lock |-> Waiting'[l]]
  BY DEF Holders, Waiting, Waits

LEMMA Stutters ==
    ASSUME \A u \in Thread, l \in Lock : /\ Owns(u, l)' <=> Owns(u, l)
                                         /\ Waits(u, l)' <=> Waits(u, l)
    PROVE  UNCHANGED <<Holders, Waiting>>
<1>1. ASSUME NEW m \in Lock PROVE Holders'[m] = Holders[m] /\ Waiting'[m] = Waiting[m]
  <2>1. Holders[m] = {u \in Thread : Owns(u, m)} /\ Holders'[m] = {u \in Thread : Owns(u, m)'}
    BY HoldersWaiting
  <2>2. Waiting[m] = {u \in Thread : Waits(u, m)} /\ Waiting'[m] = {u \in Thread : Waits(u, m)'}
    BY HoldersWaiting
  <2> QED BY <2>1, <2>2
<1> QED BY <1>1, HoldersWaiting

LEMMA Requests ==
    ASSUME NEW t \in Thread, NEW l \in Lock,
           \A u \in Thread, m \in Lock : Owns(u, m)' <=> Owns(u, m),
           \A u \in Thread, m \in Lock : Waits(u, m)' <=> Waits(u, m) \/ (u = t /\ m = l),
           \A m \in Lock : ~Owns(t, m) /\ ~Waits(t, m)
    PROVE  M!Request(t, l)
<1>1. \A m \in Lock : t \notin Holders[m] \cup Waiting[m]
  BY HoldersWaiting
<1>2. Holders' = Holders
  <2>1. ASSUME NEW m \in Lock PROVE Holders'[m] = Holders[m]
    <3>1. Holders[m] = {u \in Thread : Owns(u, m)} /\ Holders'[m] = {u \in Thread : Owns(u, m)'}
      BY HoldersWaiting
    <3> QED BY <3>1
  <2> QED BY <2>1, HoldersWaiting
<1>3. Waiting' = [Waiting EXCEPT ![l] = @ \cup {t}]
  <2>1. ASSUME NEW m \in Lock PROVE Waiting'[m] = IF m = l THEN Waiting[m] \cup {t} ELSE Waiting[m]
    <3>1. Waiting[m] = {u \in Thread : Waits(u, m)} /\ Waiting'[m] = {u \in Thread : Waits(u, m)'}
      BY HoldersWaiting
    <3>2. \A u \in Thread : Waits(u, m)' <=> Waits(u, m) \/ (u = t /\ m = l)
      OBVIOUS
    <3> QED BY <3>1, <3>2
  <2> QED BY <2>1, HoldersWaiting
<1> QED BY <1>1, <1>2, <1>3 DEF M!Request

LEMMA Acquires ==
    ASSUME NEW t \in Thread, NEW l \in Lock,
           \A u \in Thread : ~Owns(u, l), Waits(t, l),
           \A u \in Thread, m \in Lock : Owns(u, m)' <=> Owns(u, m) \/ (u = t /\ m = l),
           \A u \in Thread, m \in Lock : Waits(u, m)' <=> Waits(u, m) /\ ~(u = t /\ m = l)
    PROVE  M!Acquire(t, l)
<1>1. t \in Waiting[l] /\ Holders[l] = {}
  BY HoldersWaiting
<1>2. Holders' = [Holders EXCEPT ![l] = {t}]
  <2>1. ASSUME NEW m \in Lock PROVE Holders'[m] = IF m = l THEN {t} ELSE Holders[m]
    <3>1. Holders[m] = {u \in Thread : Owns(u, m)} /\ Holders'[m] = {u \in Thread : Owns(u, m)'}
      BY HoldersWaiting
    <3>2. \A u \in Thread : Owns(u, m)' <=> Owns(u, m) \/ (u = t /\ m = l)
      OBVIOUS
    <3>3. m = l => \A u \in Thread : ~Owns(u, m)
      OBVIOUS
    <3> QED BY <3>1, <3>2, <3>3
  <2> QED BY <2>1, HoldersWaiting
<1>3. Waiting' = [Waiting EXCEPT ![l] = @ \ {t}]
  <2>1. ASSUME NEW m \in Lock PROVE Waiting'[m] = IF m = l THEN Waiting[m] \ {t} ELSE Waiting[m]
    <3>1. Waiting[m] = {u \in Thread : Waits(u, m)} /\ Waiting'[m] = {u \in Thread : Waits(u, m)'}
      BY HoldersWaiting
    <3>2. \A u \in Thread : Waits(u, m)' <=> Waits(u, m) /\ ~(u = t /\ m = l)
      OBVIOUS
    <3> QED BY <3>1, <3>2
  <2> QED BY <2>1, HoldersWaiting
<1> QED BY <1>1, <1>2, <1>3 DEF M!Acquire

LEMMA Releases ==
    ASSUME NEW t \in Thread, NEW l \in Lock,
           \A u \in Thread : Owns(u, l) <=> u = t,
           \A u \in Thread, m \in Lock : Owns(u, m)' <=> Owns(u, m) /\ ~(u = t /\ m = l),
           \A u \in Thread, m \in Lock : Waits(u, m)' <=> Waits(u, m)
    PROVE  M!Release(t, l)
<1>1. Holders[l] = {t}
  BY HoldersWaiting
<1>2. Holders' = [Holders EXCEPT ![l] = {}]
  <2>1. ASSUME NEW m \in Lock PROVE Holders'[m] = IF m = l THEN {} ELSE Holders[m]
    <3>1. Holders[m] = {u \in Thread : Owns(u, m)} /\ Holders'[m] = {u \in Thread : Owns(u, m)'}
      BY HoldersWaiting
    <3>2. \A u \in Thread : Owns(u, m)' <=> Owns(u, m) /\ ~(u = t /\ m = l)
      OBVIOUS
    <3>3. m = l => \A u \in Thread : Owns(u, m) <=> u = t
      OBVIOUS
    <3> QED BY <3>1, <3>2, <3>3
  <2> QED BY <2>1, HoldersWaiting
<1>3. Waiting' = Waiting
  <2>1. ASSUME NEW m \in Lock PROVE Waiting'[m] = Waiting[m]
    <3>1. Waiting[m] = {u \in Thread : Waits(u, m)} /\ Waiting'[m] = {u \in Thread : Waits(u, m)'}
      BY HoldersWaiting
    <3> QED BY <3>1
  <2> QED BY <2>1, HoldersWaiting
<1> QED BY <1>1, <1>2, <1>3 DEF M!Release

LEMMA AdvanceMutex ==
    ASSUME Inv, NEW t \in Worker, Advance(t)
    PROVE  M!Next \/ UNCHANGED <<Holders, Waiting>>
<1>a. t \in Thread /\ pc[t] # "user" /\ lk[t] \in Lock
  <2>1. pc[t] # "user"
    BY DEF Advance, AcquireAgain, AcquireFirst, DownBlocks, DownTakes, SetHolder,
       SetRepeat, Reenter, cmd_out, Yield, ReleaseInner, ReleaseOuter, ClearHolder,
       ClearRepeat, Up, Again, Runs
  <2> QED BY <2>1, LocksAssumption DEF Worker, Inv, LockInv, AtLock, TypeOK
<1>b. \A u \in Thread \ {t}, m \in Lock : /\ Owns(u, m)' <=> Owns(u, m)
                                          /\ Waits(u, m)' <=> Waits(u, m)
  BY OwnsOthers
<1>c. \A m \in Lock : m # lk[t] => ~Owns(t, m) /\ ~Waits(t, m)
  BY DEF Owns, Waits
<1>l. PICK l \in Lock : l = lk[t]
  BY <1>a
<1>1. CASE Up(t)
  <2>1. Owns(t, l) /\ ~Waits(t, l)
    BY <1>1, <1>a, <1>l DEF Up, Runs, Owns, Waits
  <2>2. \A u \in Thread : Owns(u, l) <=> u = t
    BY <1>a, <1>l, <2>1 DEF Inv, LockInv, MutualExclusion
  <2>3. lk'[t] = NULL \/ pc'[t] = "more"
    BY <1>1, <1>a, <1>l DEF Up, Goto, Inv, TypeOK
  <2>4. \A m \in Lock : ~Owns(t, m)' /\ ~Waits(t, m)'
    BY <2>3, LocksAssumption DEF Owns, Waits
  <2>5. M!Release(t, l)
    BY <1>a, <1>l, <1>b, <1>c, <2>1, <2>2, <2>4, Releases
  <2> QED BY <1>a, <1>l, <2>5 DEF M!Next
<1>2. CASE DownTakes(t) /\ on[t] = "mutex"
  <2>1. /\ \A u \in Thread : ~Owns(u, l)
        /\ pc[t] \in {"down", "recheck"}
    BY <1>2, <1>a, <1>l DEF DownTakes, Runs, Inv, LockInv, MutualExclusion
  <2>2. lk'[t] = l /\ pc'[t] = "own"
    BY <1>2, <1>a, <1>l DEF DownTakes, Goto, Inv, TypeOK
  <2>3. Waits(t, l) /\ Owns(t, l)' /\ ~Waits(t, l)'
    BY <1>a, <1>l, <2>1, <2>2 DEF Owns, Waits
  <2>4. \A m \in Lock : m # l => ~Owns(t, m)' /\ ~Waits(t, m)'
    BY <1>l, <2>2 DEF Owns, Waits
  <2>5. M!Acquire(t, l)
    <3>1. \A u \in Thread, m \in Lock : Owns(u, m)' <=> Owns(u, m) \/ (u = t /\ m = l)
      BY <1>l, <1>b, <1>c, <2>3, <2>4
    <3>2. \A u \in Thread, m \in Lock : Waits(u, m)' <=> Waits(u, m) /\ ~(u = t /\ m = l)
      BY <1>l, <1>b, <1>c, <2>3, <2>4
    <3> QED BY <1>a, <1>l, <2>1, <2>3, <3>1, <3>2, Acquires
  <2> QED BY <1>a, <1>l, <2>5 DEF M!Next
<1>3. CASE Again(t)
  <2>1. pc[t] = "more" /\ lk'[t] = l /\ pc'[t] = "acq" /\ holder' = holder
    BY <1>3, <1>a, <1>l DEF Again, Runs, Goto, Inv, TypeOK
  <2>2. ~Owns(t, l) /\ ~Waits(t, l)
    BY <1>l, <2>1 DEF Owns, Waits
  <2>3. holder[l] # t
    BY <1>a, <1>l, <2>2, LocksAssumption DEF Inv, LockInv, HolderInside
  <2>4. ~Owns(t, l)' /\ Waits(t, l)'
    BY <1>a, <1>l, <2>1, <2>3 DEF Owns, Waits
  <2>5. \A m \in Lock : m # l => ~Owns(t, m)' /\ ~Waits(t, m)'
    BY <1>l, <2>1 DEF Owns, Waits
  <2>6. M!Request(t, l)
    <3>1. \A u \in Thread, m \in Lock : Owns(u, m)' <=> Owns(u, m)
      BY <1>l, <1>b, <1>c, <2>2, <2>4, <2>5
    <3>2. \A u \in Thread, m \in Lock : Waits(u, m)' <=> Waits(u, m) \/ (u = t /\ m = l)
      BY <1>l, <1>b, <1>c, <2>2, <2>4, <2>5
    <3>3. \A m \in Lock : ~Owns(t, m) /\ ~Waits(t, m)
      BY <1>l, <1>c, <2>2
    <3> QED BY <1>a, <1>l, <3>1, <3>2, <3>3, Requests
  <2> QED BY <1>a, <1>l, <2>6 DEF M!Next
<1>4. CASE Owns(t, l) /\ ~Up(t)
  <2>1. Owns(t, l)' /\ lk'[t] = l
    BY <1>4, <1>a, <1>l, InsideKept
  <2>2. ~Waits(t, l) /\ ~Waits(t, l)'
    BY <1>4, <2>1 DEF Waits
  <2>3. \A m \in Lock : m # l => ~Owns(t, m)' /\ ~Waits(t, m)'
    BY <1>l, <2>1 DEF Owns, Waits
  <2> QED BY <1>4, <1>b, <1>c, <2>1, <2>2, <2>3, Stutters
<1>5. CASE ~Owns(t, l) /\ ~Again(t) /\ ~(DownTakes(t) /\ on[t] = "mutex")
  <2>1. AcquireFirst(t) \/ DownBlocks(t)
    BY <1>5, <1>a, <1>l DEF Advance, AcquireAgain, DownTakes, SetHolder, SetRepeat, Reenter,
       cmd_out, Yield, ReleaseInner, ReleaseOuter, ClearHolder, ClearRepeat, Up, Runs, Owns,
       Inv, TypeOK
  <2>2. lk'[t] = l /\ pc[t] # "more" /\ pc'[t] # "more" /\ ~Owns(t, l)'
    <3>1. CASE AcquireFirst(t)
      BY <3>1, <1>a, <1>l DEF AcquireFirst, Runs, Goto, Owns, Inv, TypeOK
    <3>2. CASE DownBlocks(t)
      BY <3>2, <1>5, <1>a, <1>l DEF DownBlocks, Runs, Goto, Owns, Inv, TypeOK
    <3> QED BY <2>1, <3>1, <3>2
  <2>3. Waits(t, l) /\ Waits(t, l)'
    BY <1>5, <1>l, <2>2 DEF Waits
  <2>4. \A m \in Lock : m # l => ~Owns(t, m)' /\ ~Waits(t, m)'
    BY <1>l, <2>2 DEF Owns, Waits
  <2> QED BY <1>5, <1>b, <1>c, <2>2, <2>3, <2>4, Stutters
<1> QED BY <1>1, <1>2, <1>3, <1>4, <1>5

LEMMA NextMutex ==
    ASSUME Inv, [Next]_vars
    PROVE  M!Next \/ UNCHANGED <<Holders, Waiting>>
<1>1. ASSUME NEW t \in Worker, Advance(t) PROVE M!Next \/ UNCHANGED <<Holders, Waiting>>
  BY <1>1, AdvanceMutex
<1>2. ASSUME NEW t \in Worker, NEW l \in Lock, Enter(t, l) PROVE M!Next
  <2>1. /\ t \in Thread /\ pc[t] = "user" /\ lk[t] = NULL /\ pc'[t] = "acq" /\ lk'[t] = l
        /\ holder' = holder
    BY <1>2, LocksAssumption DEF Enter, Runs, Goto, Inv, TypeOK, LockInv, AtLock, Worker
  <2>2. \A m \in Lock : ~Owns(t, m) /\ ~Waits(t, m)
    BY <2>1, LocksAssumption DEF Owns, Waits
  <2>3. holder[l] # t
    BY <2>2, LocksAssumption DEF Inv, LockInv, HolderInside, Worker
  <2>4. \A m \in Lock : ~Owns(t, m)' /\ (Waits(t, m)' <=> m = l)
    BY <2>1, <2>3 DEF Owns, Waits
  <2>5. \A u \in Thread \ {t}, m \in Lock : /\ Owns(u, m)' <=> Owns(u, m)
                                            /\ Waits(u, m)' <=> Waits(u, m)
    <3>1. \A u \in Thread \ {t} : pc'[u] = pc[u] /\ lk'[u] = lk[u] /\ on' = on
      BY <1>2 DEF Enter, Goto, Inv, TypeOK
    <3> QED BY <2>1, <3>1 DEF Owns, Waits
  <2>6. M!Request(t, l)
    BY <2>1, <2>2, <2>4, <2>5, Requests
  <2> QED BY <2>1, <2>6 DEF M!Next
<1>3. CASE Idle \/ Timer \/ \E l \in Lock : intr_hd_handler(l)
  <2>1. lk' = lk /\ on' = on /\ holder' = holder
    BY <1>3 DEF Idle, IdleBlock, IdleHalt, Timer, intr_hd_handler
  <2>2. \A u \in Thread \ {idle_thread} : pc'[u] = pc[u]
    BY <1>3 DEF Idle, IdleBlock, IdleHalt, Timer, intr_hd_handler, EndHalt, Goto, Inv, TypeOK
  <2>3. \A m \in Lock : lk[idle_thread] # m
    BY LocksAssumption DEF Inv, LockInv, AtLock
  <2>4. \A u \in Thread, m \in Lock : /\ Owns(u, m)' <=> Owns(u, m)
                                      /\ Waits(u, m)' <=> Waits(u, m)
    BY <2>1, <2>2, <2>3 DEF Owns, Waits
  <2> QED BY <2>4, Stutters
<1>4. CASE UNCHANGED vars
  BY <1>4, Stutters DEF vars, Owns, Waits
<1> QED BY <1>1, <1>2, <1>3, <1>4 DEF Next

\* The locks of the kernel implement Mutex for any number of threads and locks.
THEOREM MutexImplemented == Spec => ImplementsMutex
<1>1. Init => M!Init
  <2> SUFFICES ASSUME Init PROVE M!Init
    OBVIOUS
  <2>1. \A u \in Thread, l \in Lock : ~Owns(u, l) /\ ~Waits(u, l)
    BY LocksAssumption DEF Init, Owns, Waits
  <2> QED BY <2>1 DEF M!Init, Holders, Waiting, Waits
<1>2. Inv /\ [Next]_vars => [M!Next]_M!vars
  BY NextMutex DEF M!vars
<1> QED BY InitInv, NextInv, <1>1, <1>2, PTL DEF Spec, ImplementsMutex, M!Spec
----------------------------------------------------------------------------
(***************************************************************************)
(* Sleeping and waking: no ASSERT of thread.c or sync.c fires, no thread   *)
(* is in two lists and no sema_up() is lost.                               *)
(***************************************************************************)

\* The waiters of a semaphore are the threads that sleep in its sema_down(),
\* each once.
Queued ==
    \A x \in Sema :
      /\ Distinct(sema[x].waiters)
      /\ \A t \in Thread : t \in Elements(sema[x].waiters) <=>
                             t \in Asleep(k) /\ <<lk[t], on[t]>> = x

\* A thread sleeps nowhere but in sema_down().
SleepsInDown == \A t \in Asleep(k) : pc[t] = "recheck"

\* A thread that was woken for x and has not run since, or that was never put
\* to sleep there: it will test x again.
Retests(x) == \E t \in Worker : /\ pc[t] = "recheck" /\ <<lk[t], on[t]>> = x
                                /\ t \notin Asleep(k)

Woken == \A x \in Sema : sema[x].value > 0 /\ sema[x].waiters # <<>> => Retests(x)

\* holder_repeat_nr is 0 when lock_acquire() asserts it, and counts while the
\* holder may release.
RepeatOK ==
    \A l \in Lock :
      /\ (\A t \in Worker : ~Owns(t, l)) => repeat[l] = 0
      /\ \A t \in Worker : Owns(t, l) =>
           /\ pc[t] \in {"own", "count", "up"} => repeat[l] = 0
           /\ pc[t] \in {"acq", "crit", "down", "recheck"} => repeat[l] >= 1

SleepInv ==
    /\ Inv /\ \A l \in Lock : Completed(l)
    /\ SchedOK(k) /\ Queued /\ SleepsInDown /\ Woken /\ RepeatOK

----------------------------------------------------------------------------
(***************************************************************************)
(* The operators of Sync on a scheduler state in order.                    *)
(***************************************************************************)

\* sema_down() of a thread that is not yet among the waiters puts it to sleep.
LEMMA SleepOnOK ==
    ASSUME NEW s, SchedOK(s), NEW m, s.cur \notin Elements(m.waiters), s.cur # idle_thread
    PROVE  SchedOK(SleepOn(s, m)) /\ Asleep(SleepOn(s, m)) = Asleep(s) \cup {s.cur}
<1>1. SleepOn(s, m) = thread_block(s, "BLOCKED")
  BY DEF SleepOn, Check
<1>2. {s.cur} \ {idle_thread} = {s.cur}
  OBVIOUS
<1> QED BY <1>1, <1>2, BlockOK

\* The head of the waiters, whom sema_up() makes ready.
First(m) == IF m.waiters = <<>> THEN {} ELSE {Head(m.waiters)}

LEMMA SignalOK ==
    ASSUME NEW s, SchedOK(s), NEW m \in SemaState, m.value = 0,
           Elements(m.waiters) \subseteq Asleep(s)
    PROVE  SchedOK(Signal(s, m)) /\ Asleep(Signal(s, m)) = Asleep(s) \ First(m)
<1>1. CASE m.waiters = <<>>
  BY <1>1 DEF Signal, Check, First
<1>2. CASE m.waiters # <<>>
  <2> DEFINE h == Head(m.waiters)
             u == thread_unblock(s, h)
  <2>1. m.waiters \in Seq(Thread)
    BY DEF SemaState
  <2>2. h \in Elements(m.waiters) /\ h \in Thread
    BY <1>2, <2>1, TailElements
  <2>3. s.status[h] = "BLOCKED"
    BY <2>2 DEF Asleep
  <2>4. Signal(s, m) = u /\ First(m) = {h}
    BY <1>2 DEF Signal, Check, First
  <2> HIDE DEF h
  <2>5. ListOK(u) /\ u.cur = s.cur /\ u.status = [s.status EXCEPT ![h] = "READY"]
    BY <2>2, <2>3, UnblockOK DEF SchedOK, ListOK, Running
  <2> HIDE DEF u
  <2>6. \A t \in Thread : u.status[t] = IF t = h THEN "READY" ELSE s.status[t]
    BY <2>5 DEF SchedOK, Running, InOrder, Simple, SchedState
  <2>7. SchedOK(u)
    BY <2>3, <2>5, <2>6 DEF SchedOK, ListOK, Running
  <2>8. Asleep(u) = Asleep(s) \ {h}
    BY <2>6 DEF Asleep
  <2> QED BY <2>4, <2>7, <2>8
<1> QED BY <1>1, <1>2

----------------------------------------------------------------------------
(***************************************************************************)
(* What each step does to the scheduler state: only sema_down() adds a     *)
(* sleeper and only sema_up() removes one.                                 *)
(***************************************************************************)
LEMMA RunnerAwake ==
    ASSUME SchedOK(k)
    PROVE  k.cur \notin Asleep(k)
  BY DEF SchedOK, Running, InOrder, SchedState, Asleep

LEMMA WaitersAsleep ==
    ASSUME Queued, NEW x \in Sema, TypeOK
    PROVE  Elements(sema[x].waiters) \subseteq Asleep(k) /\ sema[x] \in SemaState
<1>1. sema[x] \in SemaState
  BY DEF TypeOK
<1>2. Elements(sema[x].waiters) \subseteq Thread
  BY <1>1 DEF Elements, SemaState
<1> QED BY <1>1, <1>2 DEF Queued

LEMMA BlocksSched ==
    ASSUME SleepInv, NEW t \in Worker, DownBlocks(t)
    PROVE  SchedOK(k') /\ Asleep(k') = Asleep(k) \cup {t}
<1>1. k.cur = t /\ pc[t] # "user"
  BY DEF DownBlocks, Runs
<1>2. t # idle_thread /\ t \in Thread
  BY LocksAssumption DEF Worker
<1>3. <<lk[t], on[t]>> \in Sema
  BY <1>1, <1>2 DEF SleepInv, Inv, LockInv, AtLock, TypeOK, Sema
<1>4. k.cur \notin Elements(sema[<<lk[t], on[t]>>].waiters)
  BY <1>3, WaitersAsleep, RunnerAwake DEF SleepInv, Inv
<1>5. k' = SleepOn(k, sema[<<lk[t], on[t]>>])
  BY DEF DownBlocks
<1> QED BY <1>1, <1>2, <1>4, <1>5, SleepOnOK DEF SleepInv

LEMMA UpSched ==
    ASSUME SleepInv, NEW t \in Worker, Up(t)
    PROVE  /\ <<lk[t], "mutex">> \in Sema
           /\ SchedOK(k') /\ Asleep(k') = Asleep(k) \ First(sema[<<lk[t], "mutex">>])
<1>1. t \in Thread /\ pc[t] = "up"
  BY LocksAssumption DEF Worker, Up, Runs
<1>2. lk[t] \in Lock /\ Owns(t, lk[t])
  BY <1>1 DEF SleepInv, Inv, LockInv, AtLock, TypeOK, Owns
<1>3. <<lk[t], "mutex">> \in Sema
  BY <1>2 DEF Sema
<1>4. sema[<<lk[t], "mutex">>].value = 0
  BY <1>1, <1>2 DEF SleepInv, Inv, LockInv, MutualExclusion
<1>5. k' = Signal(k, sema[<<lk[t], "mutex">>])
  BY DEF Up
<1> QED BY <1>3, <1>4, <1>5, WaitersAsleep, SignalOK DEF SleepInv, Inv

LEMMA IntrSched ==
    ASSUME SleepInv, NEW l \in Lock, intr_hd_handler(l)
    PROVE  /\ <<l, "done">> \in Sema
           /\ SchedOK(k') /\ Asleep(k') = Asleep(k) \ First(sema[<<l, "done">>])
<1>1. <<l, "done">> \in Sema
  BY DEF Sema
<1>2. sema[<<l, "done">>].value = 0
  BY DEF SleepInv, Completed, intr_hd_handler
<1>3. k' = Signal(k, sema[<<l, "done">>])
  BY DEF intr_hd_handler
<1> QED BY <1>1, <1>2, <1>3, WaitersAsleep, SignalOK DEF SleepInv, Inv

\* The ASSERTs of sema_down(), lock_acquire() and lock_release() hold, so the
\* other steps leave the scheduler as it is or call it in order.
LEMMA OtherSched ==
    ASSUME SleepInv, NEW t \in Worker, Advance(t), ~DownBlocks(t), ~Up(t)
    PROVE  SchedOK(k') /\ Asleep(k') = Asleep(k)
<1>a. t \in Thread /\ (pc[t] # "user" => lk[t] \in Lock)
  BY LocksAssumption DEF Worker, SleepInv, Inv, LockInv, AtLock, TypeOK
<1>1. CASE DownTakes(t)
  <2>1. pc[t] # "user" /\ sema[<<lk[t], on[t]>>].value # 0
    BY <1>1 DEF DownTakes, Runs
  <2>2. on[t] \in {"mutex", "done"}
    BY <1>a DEF SleepInv, Inv, TypeOK
  <2>3. sema[<<lk[t], "mutex">>].value \in {0, 1} /\ sema[<<lk[t], "done">>].value \in {0, 1}
    BY <1>a, <2>1 DEF SleepInv, Inv, LockInv, MutualExclusion, Completed
  <2>4. sema[<<lk[t], on[t]>>].value = 1
    BY <2>1, <2>2, <2>3
  <2> QED BY <1>1, <2>4 DEF DownTakes, TakeCheck, Check, SleepInv
<1>2. CASE SetHolder(t)
  <2>1. repeat[lk[t]] = 0
    BY <1>2, <1>a DEF SetHolder, Runs, SleepInv, RepeatOK, Owns
  <2> QED BY <1>2, <2>1 DEF SetHolder, Check, SleepInv
<1>3. CASE ReleaseInner(t)
  <2>1. holder[lk[t]] = t
    BY <1>3 DEF ReleaseInner, Runs, SleepInv, Inv, LockInv, InsideHolds
  <2> QED BY <1>3, <2>1 DEF ReleaseInner, Check, SleepInv
<1>4. CASE ReleaseOuter(t)
  <2>1. holder[lk[t]] = t
    BY <1>4 DEF ReleaseOuter, Runs, SleepInv, Inv, LockInv, InsideHolds
  <2>2. repeat[lk[t]] >= 1 /\ repeat[lk[t]] <= 1 /\ repeat[lk[t]] \in Nat
    BY <1>4, <1>a DEF ReleaseOuter, Runs, SleepInv, RepeatOK, Owns, Inv, TypeOK
  <2>3. repeat[lk[t]] = 1
    BY <2>2
  <2> QED BY <1>4, <2>1, <2>3 DEF ReleaseOuter, Check, SleepInv
<1>5. CASE Yield(t)
  BY <1>5, YieldOK DEF Yield, SleepInv
<1>6. CASE AcquireAgain(t) \/ AcquireFirst(t) \/ SetRepeat(t) \/ Reenter(t) \/ cmd_out(t)
             \/ ClearHolder(t) \/ ClearRepeat(t) \/ Again(t)
  BY <1>6 DEF AcquireAgain, AcquireFirst, SetRepeat, Reenter, cmd_out, ClearHolder,
     ClearRepeat, Again, SleepInv
<1> QED BY <1>1, <1>2, <1>3, <1>4, <1>5, <1>6 DEF Advance

\* The idle thread blocks, and the timer preempts, whoever runs.
LEMMA IdleTimerSched ==
    ASSUME SleepInv, Idle \/ Timer
    PROVE  SchedOK(k') /\ Asleep(k') = Asleep(k)
<1>1. CASE IdleBlock
  <2>1. k.cur = idle_thread /\ k' = thread_block(k, "BLOCKED")
    BY <1>1 DEF IdleBlock, Runs
  <2>2. Asleep(k) \cup ({k.cur} \ {idle_thread}) = Asleep(k)
    BY <2>1
  <2> QED BY <2>1, <2>2, BlockOK DEF SleepInv
<1>2. CASE IdleHalt
  BY <1>2 DEF IdleHalt, SleepInv
<1>3. CASE Timer
  BY <1>3, TimerOK DEF Timer, SleepInv
<1> QED BY <1>1, <1>2, <1>3 DEF Idle

----------------------------------------------------------------------------
(***************************************************************************)
(* The queues.                                                             *)
(***************************************************************************)
Stays(u) == pc'[u] = pc[u] /\ lk'[u] = lk[u] /\ on'[u] = on[u]

\* A step that wakes nobody and puts nobody to sleep, raises no semaphore and
\* moves no thread out of sema_down() except by taking its semaphore.
LEMMA QueuesKept ==
    ASSUME Queued, SleepsInDown, Woken,
           \A x \in Sema : /\ sema'[x].waiters = sema[x].waiters
                          /\ sema'[x].value \in {0, sema[x].value},
           Asleep(k') = Asleep(k),
           \A u \in Asleep(k) : Stays(u),
           \A u \in Worker : pc[u] = "recheck" =>
              Stays(u) \/ sema'[<<lk[u], on[u]>>].value = 0
    PROVE  Queued' /\ SleepsInDown' /\ Woken'
<1>1. Queued'
  BY DEF Queued, Stays
<1>2. SleepsInDown'
  BY DEF SleepsInDown, Stays
<1>3. ASSUME NEW x \in Sema, sema'[x].value > 0, sema'[x].waiters # <<>>
      PROVE  Retests(x)'
  <2>1. sema[x].value > 0 /\ sema[x].waiters # <<>>
    BY <1>3
  <2>2. PICK u \in Worker : pc[u] = "recheck" /\ <<lk[u], on[u]>> = x /\ u \notin Asleep(k)
    BY <2>1 DEF Woken, Retests
  <2>3. Stays(u)
    BY <1>3, <2>2
  <2> QED BY <2>2, <2>3 DEF Retests, Stays
<1> QED BY <1>1, <1>2, <1>3 DEF Woken

\* sema_up(x): the head of the waiters leaves the list and the sleepers, and
\* will test x again.
LEMMA QueuesSignalled ==
    ASSUME TypeOK, Queued, SleepsInDown, Woken, NEW x \in Sema,
           sema' = [sema EXCEPT ![x] = Signalled(@)],
           Asleep(k') = Asleep(k) \ First(sema[x]),
           \A u \in Worker : pc[u] = "recheck" => Stays(u)
    PROVE  Queued' /\ SleepsInDown' /\ Woken'
<1>a. Asleep(k) \subseteq Worker
  BY LocksAssumption DEF Asleep, Worker
<1>b. \A u \in Asleep(k) : Stays(u)
  BY <1>a DEF SleepsInDown
<1>c. sema[x] \in SemaState /\ sema[x].waiters \in Seq(Thread)
  BY DEF TypeOK, SemaState
<1>d. \A y \in Sema : sema'[y] = IF y = x THEN Signalled(sema[x]) ELSE sema[y]
  BY DEF TypeOK
<1>e. First(sema[x]) \subseteq Elements(sema[x].waiters)
  BY <1>c, TailElements DEF First
<1>1. /\ Distinct(sema'[x].waiters)
      /\ Elements(sema'[x].waiters) = Elements(sema[x].waiters) \ First(sema[x])
  <2>1. CASE sema[x].waiters = <<>>
    <3>1. sema'[x].waiters = <<>> /\ First(sema[x]) = {}
      BY <1>d, <2>1 DEF Signalled, First
    <3> QED BY <2>1, <3>1 DEF Elements, Distinct
  <2>2. CASE sema[x].waiters # <<>>
    <3>1. sema'[x].waiters = Tail(sema[x].waiters) /\ First(sema[x]) = {Head(sema[x].waiters)}
      BY <1>d, <2>2 DEF Signalled, First
    <3>2. Distinct(sema[x].waiters)
      BY DEF Queued
    <3> QED BY <1>c, <2>2, <3>1, <3>2, TailElements
  <2> QED BY <2>1, <2>2
<1>2. ASSUME NEW y \in Sema
      PROVE  /\ Distinct(sema'[y].waiters)
             /\ \A t \in Thread : t \in Elements(sema'[y].waiters) <=>
                                    t \in Asleep(k') /\ <<lk'[t], on'[t]>> = y
  <2>1. \A t \in Thread : t \in Asleep(k) => lk'[t] = lk[t] /\ on'[t] = on[t]
    BY <1>b DEF Stays
  <2>2. \A t \in Thread : t \in Elements(sema[y].waiters) <=>
                           t \in Asleep(k) /\ <<lk[t], on[t]>> = y
    BY DEF Queued
  <2>3. CASE y = x
    BY <1>1, <2>1, <2>2, <2>3
  <2>4. CASE y # x
    <3>1. \A t \in First(sema[x]) : <<lk[t], on[t]>> = x
      BY <1>c, <1>e DEF Queued, First, Elements
    <3>2. sema'[y] = sema[y]
      BY <1>d, <2>4
    <3> QED BY <2>1, <2>2, <2>4, <3>1, <3>2 DEF Queued
  <2> QED BY <2>3, <2>4
<1>3. SleepsInDown'
  BY <1>b DEF SleepsInDown, Stays
<1>4. ASSUME NEW y \in Sema, sema'[y].value > 0, sema'[y].waiters # <<>>
      PROVE  Retests(y)'
  <2>1. CASE y = x
    <3>1. sema[x].waiters # <<>>
      BY <1>4, <1>d, <2>1 DEF Signalled
    <3>2. PICK u \in First(sema[x]) : u \in Elements(sema[x].waiters) /\ u \in Thread
      BY <1>c, <1>e, <3>1, TailElements DEF First
    <3>3. u \in Asleep(k) /\ <<lk[u], on[u]>> = x
      BY <3>2 DEF Queued
    <3> QED BY <1>a, <1>b, <2>1, <3>3 DEF Retests, SleepsInDown, Stays
  <2>2. CASE y # x
    <3>1. Retests(y)
      BY <1>4, <1>d, <2>2 DEF Woken
    <3> QED BY <3>1 DEF Retests, Stays
  <2> QED BY <2>1, <2>2
<1> QED BY <1>2, <1>3, <1>4 DEF Queued, Woken

\* sema_down() that blocks: the runner joins the waiters and the sleepers.
LEMMA QueuesBlocked ==
    ASSUME SleepInv, NEW t \in Worker, DownBlocks(t)
    PROVE  Queued' /\ SleepsInDown' /\ Woken'
<1> DEFINE x == <<lk[t], on[t]>>
<1>a. /\ t \in Thread /\ k.cur = t /\ x \in Sema /\ sema[x].value = 0
      /\ lk' = lk /\ on' = on /\ pc' = [pc EXCEPT ![t] = "recheck"]
      /\ sema' = [sema EXCEPT ![x] = Enqueue(@, t)]
  BY LocksAssumption DEF DownBlocks, Runs, Goto, Worker, SleepInv, Inv, LockInv, AtLock,
     TypeOK, Sema
<1> HIDE DEF x
<1>b. t \notin Asleep(k) /\ Asleep(k') = Asleep(k) \cup {t}
  BY <1>a, RunnerAwake, BlocksSched DEF SleepInv
<1>c. sema[x] \in SemaState /\ sema[x].waiters \in Seq(Thread)
  BY <1>a DEF SleepInv, Inv, TypeOK, SemaState
<1>d. \A y \in Sema : /\ y # x => sema'[y] = sema[y]
                      /\ y = x => sema'[y].waiters = Append(sema[x].waiters, t)
                                 /\ sema'[y].value = 0
  BY <1>a, <1>c DEF SleepInv, Inv, TypeOK, Enqueue, SemaState
<1>e. \A u \in Thread : pc'[u] = IF u = t THEN "recheck" ELSE pc[u]
  BY <1>a DEF SleepInv, Inv, TypeOK
<1>1. ASSUME NEW y \in Sema
      PROVE  /\ Distinct(sema'[y].waiters)
             /\ \A u \in Thread : u \in Elements(sema'[y].waiters) <=>
                                    u \in Asleep(k') /\ <<lk'[u], on'[u]>> = y
  <2>1. /\ Distinct(sema[y].waiters)
        /\ \A u \in Thread : u \in Elements(sema[y].waiters) <=>
                              u \in Asleep(k) /\ <<lk[u], on[u]>> = y
    BY DEF SleepInv, Queued
  <2>2. CASE y = x
    <3>1. /\ Elements(sema'[y].waiters) = Elements(sema[y].waiters) \cup {t}
          /\ Distinct(sema'[y].waiters)
      <4>1. Distinct(sema[x].waiters) /\ t \notin Elements(sema[x].waiters)
        BY <1>a, <1>b, <2>1, <2>2
      <4>2. /\ Elements(Append(sema[x].waiters, t)) = Elements(sema[x].waiters) \cup {t}
            /\ Distinct(Append(sema[x].waiters, t))
        BY <1>a, <1>c, <4>1, AppendElements
      <4>3. sema'[y].waiters = Append(sema[y].waiters, t)
        BY <1>d, <2>2
      <4> QED BY <2>2, <4>2, <4>3
    <3>2. <<lk[t], on[t]>> = y
      BY <2>2 DEF x
    <3> QED BY <1>a, <1>b, <2>1, <3>1, <3>2
  <2>3. CASE y # x
    <3>1. <<lk[t], on[t]>> # y
      BY <2>3 DEF x
    <3> QED BY <1>a, <1>b, <1>d, <2>1, <2>3, <3>1
  <2> QED BY <2>2, <2>3
<1>2. SleepsInDown'
  BY <1>b, <1>e DEF SleepInv, SleepsInDown, Asleep
<1>3. ASSUME NEW y \in Sema, sema'[y].value > 0, sema'[y].waiters # <<>>
      PROVE  Retests(y)'
  <2>1. y # x
    BY <1>3, <1>d
  <2>2. PICK u \in Worker : pc[u] = "recheck" /\ <<lk[u], on[u]>> = y /\ u \notin Asleep(k)
    BY <1>3, <1>d, <2>1 DEF SleepInv, Woken, Retests
  <2>3. u # t /\ u \in Thread
    BY <2>1, <2>2, LocksAssumption DEF x, Worker
  <2> QED BY <1>a, <1>b, <1>e, <2>2, <2>3 DEF Retests
<1> QED BY <1>1, <1>2, <1>3 DEF Queued, Woken

----------------------------------------------------------------------------
(***************************************************************************)
(* holder_repeat_nr.                                                       *)
(***************************************************************************)

\* The clause of RepeatOK about one lock.
RepeatAt(l) ==
    /\ (\A t \in Worker : ~Owns(t, l)) => repeat[l] = 0
    /\ \A t \in Worker : Owns(t, l) =>
         /\ pc[t] \in {"own", "count", "up"} => repeat[l] = 0
         /\ pc[t] \in {"acq", "crit", "down", "recheck"} => repeat[l] >= 1

\* Only the thread inside a lock changes its count, and where it counts the
\* others are outside.
LEMMA AdvanceRepeat ==
    ASSUME Inv, RepeatOK, NEW t \in Worker, Advance(t), NEW l \in Lock
    PROVE  RepeatAt(l)'
<1>a. t \in Thread /\ (pc[t] # "user" => lk[t] \in Lock)
  BY LocksAssumption DEF Worker, Inv, LockInv, AtLock, TypeOK
<1>b. \A u \in Worker \ {t} : pc'[u] = pc[u] /\ lk'[u] = lk[u] /\ on'[u] = on[u]
  BY <1>a, LocksAssumption DEF Advance, AcquireAgain, AcquireFirst, DownBlocks, DownTakes,
       SetHolder, SetRepeat, Reenter, cmd_out, Yield, ReleaseInner, ReleaseOuter, ClearHolder,
       ClearRepeat, Up, Again, Goto, Inv, TypeOK, Worker
<1>c. \A u \in Worker \ {t} : Owns(u, l)' <=> Owns(u, l)
  BY OthersInside, LocksAssumption DEF Worker
<1>d. /\ (\A u \in Worker : ~Owns(u, l)) => repeat[l] = 0
      /\ \A u \in Worker : Owns(u, l) =>
           /\ pc[u] \in {"own", "count", "up"} => repeat[l] = 0
           /\ pc[u] \in {"acq", "crit", "down", "recheck"} => repeat[l] >= 1
  BY DEF RepeatOK
<1>e. pc[t] # "user" /\ repeat[l] \in Nat
  BY DEF Inv, TypeOK, Advance, AcquireAgain, AcquireFirst, DownBlocks, DownTakes, SetHolder,
       SetRepeat, Reenter, cmd_out, Yield, ReleaseInner, ReleaseOuter, ClearHolder,
       ClearRepeat, Up, Again, Runs
<1>1. CASE lk[t] # l
  <2>1. ~Owns(t, l) /\ ~Owns(t, l)'
    <3>1. lk'[t] \in {lk[t], NULL}
      BY <1>a DEF Advance, AcquireAgain, AcquireFirst, DownBlocks, DownTakes, SetHolder,
         SetRepeat, Reenter, cmd_out, Yield, ReleaseInner, ReleaseOuter, ClearHolder,
         ClearRepeat, Up, Again, Inv, TypeOK
    <3> QED BY <1>1, <3>1, LocksAssumption DEF Owns
  <2>2. repeat'[l] = repeat[l]
    BY <1>1 DEF Advance, AcquireAgain, AcquireFirst, DownBlocks, DownTakes, SetHolder,
       SetRepeat, Reenter, cmd_out, Yield, ReleaseInner, ReleaseOuter, ClearHolder,
       ClearRepeat, Up, Again, Inv, TypeOK
  <2> QED BY <1>b, <1>c, <1>d, <2>1, <2>2 DEF RepeatAt
<1>2. CASE lk[t] = l /\ Owns(t, l)
  <2>1. \A u \in Worker \ {t} : ~Owns(u, l)'
    BY <1>a, <1>c, <1>2, LocksAssumption DEF Inv, LockInv, MutualExclusion, Worker
  <2>2. ASSUME Owns(t, l)' \/ repeat'[l] = 0,
               pc'[t] \in {"own", "count", "up"} => repeat'[l] = 0,
               pc'[t] \in {"acq", "crit", "down", "recheck"} => repeat'[l] >= 1
        PROVE  RepeatAt(l)'
    BY <2>1, <2>2 DEF RepeatAt
  <2>3. /\ pc[t] \in {"own", "count", "up"} => repeat[l] = 0
        /\ pc[t] \in {"acq", "crit", "down", "recheck"} => repeat[l] >= 1
    BY <1>d, <1>2
  <2>4. CASE AcquireAgain(t) \/ SetRepeat(t) \/ ClearRepeat(t) \/ ReleaseInner(t)
    <3> USE <1>a, <1>e, <1>2, <2>3, <2>4 DEF Inv, TypeOK, Owns
    <3>1. CASE AcquireAgain(t)
      BY <2>2, <3>1 DEF AcquireAgain, Runs, Goto
    <3>2. CASE SetRepeat(t)
      BY <2>2, <3>2 DEF SetRepeat, Runs, Goto
    <3>3. CASE ClearRepeat(t)
      BY <2>2, <3>3 DEF ClearRepeat, Runs, Goto
    <3>4. CASE ReleaseInner(t)
      BY <2>2, <3>4 DEF ReleaseInner, Runs
    <3> QED BY <2>4, <3>1, <3>2, <3>3, <3>4
  <2>5. CASE ~(AcquireAgain(t) \/ SetRepeat(t) \/ ClearRepeat(t) \/ ReleaseInner(t) \/ Up(t))
    <3>1. Owns(t, l)'
      BY <1>2, <1>a, <1>e, <2>5, InsideKept
    <3>2. repeat' = repeat
      BY <2>5 DEF Advance, AcquireFirst, DownBlocks, DownTakes, SetHolder, Reenter, cmd_out,
         Yield, ReleaseOuter, ClearHolder, Again
    <3>3. /\ pc'[t] \in {"own", "count", "up"} => pc[t] \in {"own", "count", "up"}
          /\ pc'[t] \in {"acq", "crit", "down", "recheck"} =>
               pc[t] \in {"acq", "crit", "down", "recheck"}
      <4>1. CASE DownTakes(t)
        BY <1>2, <1>a, <4>1 DEF DownTakes, Runs, Goto, Owns, Inv, TypeOK
      <4>2. CASE ~DownTakes(t)
        BY <1>2, <1>a, <2>5, <4>2 DEF Advance, AcquireFirst, DownBlocks, SetHolder, Reenter,
           cmd_out, Yield, ReleaseOuter, ClearHolder, Again, Runs, Goto, Owns, Inv, TypeOK
      <4> QED BY <4>1, <4>2
    <3> QED BY <2>2, <2>3, <3>1, <3>2, <3>3
  <2>6. CASE Up(t)
    <3>1. repeat'[l] = 0
      BY <2>3, <2>6 DEF Up, Runs
    <3>2. pc'[t] \in {"user", "more"}
      BY <1>a, <2>6 DEF Up, Goto, Inv, TypeOK
    <3> QED BY <2>2, <3>1, <3>2
  <2> QED BY <2>4, <2>5, <2>6
<1>3. CASE lk[t] = l /\ ~Owns(t, l)
  <2>1. AcquireFirst(t) \/ DownBlocks(t) \/ DownTakes(t) \/ Again(t)
    BY <1>a, <1>e, <1>3 DEF Advance, AcquireAgain, SetHolder, SetRepeat, Reenter, cmd_out,
       Yield, ReleaseInner, ReleaseOuter, ClearHolder, ClearRepeat, Up, Runs, Owns
  <2>2. repeat' = repeat /\ holder' = holder /\ lk' = lk
    BY <2>1 DEF AcquireFirst, DownBlocks, DownTakes, Again
  <2>3. CASE DownTakes(t)
    <3>1. on[t] = "mutex"
      BY <1>a, <1>3, <2>3 DEF DownTakes, Runs, Owns, Inv, TypeOK
    <3>2. \A u \in Worker : ~Owns(u, l)
      BY <1>a, <1>e, <1>3, <2>3, <3>1, LocksAssumption
         DEF DownTakes, Inv, LockInv, MutualExclusion, Worker
    <3>3. pc'[t] = "own" /\ Owns(t, l)'
      BY <1>a, <1>3, <2>2, <2>3, <3>1 DEF DownTakes, Goto, Owns, Inv, TypeOK
    <3> QED BY <1>c, <1>d, <2>2, <3>2, <3>3 DEF RepeatAt
  <2>4. CASE AcquireFirst(t) \/ DownBlocks(t) \/ Again(t)
    <3>1. ~Owns(t, l)'
      <4>1. CASE AcquireFirst(t)
        BY <1>a, <1>3, <4>1 DEF AcquireFirst, Goto, Owns, Inv, TypeOK
      <4>2. CASE DownBlocks(t)
        BY <1>a, <1>3, <4>2 DEF DownBlocks, Runs, Goto, Owns, Inv, TypeOK
      <4>3. CASE Again(t)
        <5>1. holder[l] # t
          BY <1>a, <1>e, <1>3, <4>3, LocksAssumption
             DEF Again, Runs, Inv, LockInv, HolderInside, Worker
        <5> QED BY <1>a, <1>3, <4>3, <5>1 DEF Again, Goto, Owns, Inv, TypeOK
      <4> QED BY <2>4, <4>1, <4>2, <4>3
    <3> QED BY <1>b, <1>c, <1>d, <1>3, <2>2, <3>1 DEF RepeatAt
  <2> QED BY <2>1, <2>3, <2>4
<1> QED BY <1>1, <1>2, <1>3

LEMMA NextRepeat ==
    ASSUME Inv, RepeatOK, [Next]_vars
    PROVE  RepeatOK'
<1>1. (\A l \in Lock : RepeatAt(l)) <=> RepeatOK
  BY DEF RepeatOK, RepeatAt
<1>2. (\A l \in Lock : RepeatAt(l)') <=> RepeatOK'
  BY DEF RepeatOK, RepeatAt
<1>3. ASSUME NEW t \in Worker, Advance(t) PROVE RepeatOK'
  BY <1>2, <1>3, AdvanceRepeat
<1>4. ASSUME NEW t \in Worker, NEW l \in Lock, Enter(t, l) PROVE RepeatOK'
  <2>1. t \in Thread /\ lk[t] = NULL /\ pc[t] = "user"
    BY <1>4, LocksAssumption DEF Enter, Runs, Inv, LockInv, AtLock, Worker
  <2>2. ASSUME NEW m \in Lock, NEW u \in Worker
        PROVE  /\ Owns(u, m)' <=> Owns(u, m)
               /\ Owns(u, m) => pc'[u] = pc[u]
    <3>1. CASE u = t
      <4>1. holder[m] # t
        BY <2>1, LocksAssumption DEF Inv, LockInv, HolderInside, Owns, Worker
      <4> QED BY <1>4, <2>1, <3>1, <4>1, LocksAssumption DEF Enter, Goto, Owns, Inv, TypeOK
    <3>2. CASE u # t
      <4>1. pc'[u] = pc[u] /\ lk'[u] = lk[u] /\ on' = on /\ holder' = holder
        BY <1>4, <2>1, <3>2, LocksAssumption DEF Enter, Goto, Inv, TypeOK, Worker
      <4> QED BY <4>1 DEF Owns
    <3> QED BY <3>1, <3>2
  <2>3. repeat' = repeat
    BY <1>4 DEF Enter
  <2> QED BY <2>2, <2>3 DEF RepeatOK
<1>5. CASE Idle \/ Timer \/ \E l \in Lock : intr_hd_handler(l)
  <2>1. lk' = lk /\ on' = on /\ holder' = holder /\ repeat' = repeat
    BY <1>5 DEF Idle, IdleBlock, IdleHalt, Timer, intr_hd_handler
  <2>2. \A u \in Worker : pc'[u] = pc[u]
    BY <1>5, LocksAssumption DEF Idle, IdleBlock, IdleHalt, Timer, intr_hd_handler, EndHalt,
       Goto, Worker, Inv, TypeOK
  <2> QED BY <2>1, <2>2 DEF RepeatOK, Owns
<1>6. CASE UNCHANGED vars
  BY <1>6 DEF vars, RepeatOK, Owns
<1> QED BY <1>3, <1>4, <1>5, <1>6 DEF Next

----------------------------------------------------------------------------
(***************************************************************************)
(* The invariant.                                                          *)
(***************************************************************************)
LEMMA AdvanceQueues ==
    ASSUME SleepInv, NEW t \in Worker, Advance(t)
    PROVE  SchedOK(k') /\ Queued' /\ SleepsInDown' /\ Woken'
<1>a. t \in Thread /\ (pc[t] # "user" => lk[t] \in Lock) /\ Asleep(k) \subseteq Worker
  BY LocksAssumption DEF Worker, Asleep, SleepInv, Inv, LockInv, AtLock, TypeOK
<1>b. k.cur = t
  BY DEF Advance, AcquireAgain, AcquireFirst, DownBlocks, DownTakes, SetHolder, SetRepeat,
     Reenter, cmd_out, Yield, ReleaseInner, ReleaseOuter, ClearHolder, ClearRepeat, Up,
     Again, Runs
<1>c. \A u \in Worker \ {t} : Stays(u)
  BY <1>a, LocksAssumption DEF Advance, AcquireAgain, AcquireFirst, DownBlocks, DownTakes,
       SetHolder, SetRepeat, Reenter, cmd_out, Yield, ReleaseInner, ReleaseOuter, ClearHolder,
       ClearRepeat, Up, Again, Goto, SleepInv, Inv, TypeOK, Worker, Stays
<1>d. \A u \in Asleep(k) : Stays(u)
  BY <1>a, <1>b, <1>c, RunnerAwake DEF SleepInv
<1>1. CASE DownBlocks(t)
  BY <1>1, BlocksSched, QueuesBlocked
<1>2. CASE Up(t)
  <2>1. pc[t] = "up" /\ sema' = [sema EXCEPT ![<<lk[t], "mutex">>] = Signalled(@)]
    BY <1>2 DEF Up, Runs
  <2>2. /\ <<lk[t], "mutex">> \in Sema /\ SchedOK(k')
        /\ Asleep(k') = Asleep(k) \ First(sema[<<lk[t], "mutex">>])
    BY <1>2, UpSched
  <2>3. \A u \in Worker : pc[u] = "recheck" => Stays(u)
    BY <1>c, <2>1
  <2> QED BY <2>1, <2>2, <2>3, QueuesSignalled DEF SleepInv, Inv
<1>3. CASE DownTakes(t)
  <2> DEFINE x == <<lk[t], on[t]>>
  <2>1. x \in Sema /\ sema[x].value # 0 /\ sema' = [sema EXCEPT ![x] = Take(@)]
    BY <1>3, <1>a DEF DownTakes, Runs, Sema, SleepInv, Inv, TypeOK
  <2>2. sema[x].value = 1
    <3>1. CASE on[t] = "mutex"
      BY <1>3, <1>a, <2>1, <3>1 DEF DownTakes, Runs, SleepInv, Inv, LockInv, MutualExclusion
    <3>2. CASE on[t] = "done"
      BY <1>3, <1>a, <2>1, <3>2 DEF DownTakes, Runs, SleepInv, Completed
    <3> QED BY <1>a, <3>1, <3>2 DEF SleepInv, Inv, TypeOK
  <2>3. sema'[x].value = 0 /\ sema'[x].waiters = sema[x].waiters
    <3>1. sema'[x] = Take(sema[x]) /\ sema[x] \in SemaState
      BY <2>1 DEF SleepInv, Inv, TypeOK
    <3> QED BY <2>2, <3>1 DEF Take, SemaState
  <2>4. \A y \in Sema : y # x => sema'[y] = sema[y]
    BY <2>1 DEF SleepInv, Inv, TypeOK
  <2>5. SchedOK(k') /\ Asleep(k') = Asleep(k)
    <3>1. ~DownBlocks(t) /\ ~Up(t)
      BY <2>1, <1>3 DEF DownBlocks, Up, DownTakes, Runs
    <3> QED BY <3>1, OtherSched
  <2>6. \A y \in Sema : /\ sema'[y].waiters = sema[y].waiters
                        /\ sema'[y].value \in {0, sema[y].value}
    BY <2>3, <2>4
  <2>7. \A u \in Worker : pc[u] = "recheck" =>
           Stays(u) \/ sema'[<<lk[u], on[u]>>].value = 0
    BY <1>c, <2>3
  <2> QED BY <1>d, <2>5, <2>6, <2>7, QueuesKept DEF SleepInv
<1>4. CASE ~DownBlocks(t) /\ ~Up(t) /\ ~DownTakes(t)
  <2>1. SchedOK(k') /\ Asleep(k') = Asleep(k)
    BY <1>4, OtherSched
  <2>2. sema' = sema /\ pc[t] # "recheck"
    BY <1>4 DEF Advance, AcquireAgain, AcquireFirst, SetHolder, SetRepeat, Reenter, cmd_out,
       Yield, ReleaseInner, ReleaseOuter, ClearHolder, ClearRepeat, Again, Runs
  <2>3. \A u \in Worker : pc[u] = "recheck" => Stays(u)
    BY <1>c, <2>2
  <2> QED BY <1>d, <2>1, <2>2, <2>3, QueuesKept DEF SleepInv
<1> QED BY <1>1, <1>2, <1>3, <1>4

LEMMA NextQueues ==
    ASSUME SleepInv, [Next]_vars
    PROVE  SchedOK(k') /\ Queued' /\ SleepsInDown' /\ Woken'
<1>a. Asleep(k) \subseteq Worker
  BY LocksAssumption DEF Worker, Asleep
<1>b. (\A u \in Worker : pc[u] = "recheck" => Stays(u)) => \A u \in Asleep(k) : Stays(u)
  BY <1>a DEF SleepInv, SleepsInDown
<1>1. ASSUME NEW t \in Worker, Advance(t)
      PROVE  SchedOK(k') /\ Queued' /\ SleepsInDown' /\ Woken'
  BY <1>1, AdvanceQueues
<1>2. ASSUME NEW t \in Worker, NEW l \in Lock, Enter(t, l)
      PROVE  SchedOK(k') /\ Queued' /\ SleepsInDown' /\ Woken'
  <2>1. k' = k /\ sema' = sema
    BY <1>2 DEF Enter
  <2>2. \A u \in Worker : pc[u] = "recheck" => Stays(u)
    BY <1>2, LocksAssumption DEF Enter, Runs, Goto, Stays, SleepInv, Inv, TypeOK, Worker
  <2> QED BY <1>b, <2>1, <2>2, QueuesKept DEF SleepInv
<1>3. CASE Idle \/ Timer
  <2>1. SchedOK(k') /\ Asleep(k') = Asleep(k) /\ sema' = sema
    BY <1>3, IdleTimerSched DEF Idle, IdleBlock, IdleHalt, Timer
  <2>2. \A u \in Worker : Stays(u)
    BY <1>3, LocksAssumption DEF Idle, IdleBlock, IdleHalt, Timer, EndHalt, Goto, Stays,
       SleepInv, Inv, TypeOK, Worker
  <2> QED BY <1>b, <2>1, <2>2, QueuesKept DEF SleepInv
<1>4. ASSUME NEW l \in Lock, intr_hd_handler(l)
      PROVE  SchedOK(k') /\ Queued' /\ SleepsInDown' /\ Woken'
  <2>1. /\ <<l, "done">> \in Sema /\ SchedOK(k')
        /\ Asleep(k') = Asleep(k) \ First(sema[<<l, "done">>])
        /\ sema' = [sema EXCEPT ![<<l, "done">>] = Signalled(@)]
    BY <1>4, IntrSched DEF intr_hd_handler
  <2>2. \A u \in Worker : pc[u] = "recheck" => Stays(u)
    BY <1>4, LocksAssumption DEF intr_hd_handler, EndHalt, Stays, SleepInv, Inv, TypeOK, Worker
  <2> QED BY <2>1, <2>2, QueuesSignalled DEF SleepInv, Inv
<1>5. CASE UNCHANGED vars
  <2>1. k' = k /\ sema' = sema /\ \A u \in Worker : Stays(u)
    BY <1>5 DEF vars, Stays
  <2> QED BY <1>b, <2>1, QueuesKept DEF SleepInv
<1> QED BY <1>1, <1>2, <1>3, <1>4, <1>5 DEF Next

LEMMA NextSleep == SleepInv /\ [Next]_vars => SleepInv'
<1> SUFFICES ASSUME SleepInv, [Next]_vars PROVE SleepInv'
  OBVIOUS
<1>1. Inv' /\ RepeatOK'
  BY NextInv, NextRepeat DEF SleepInv
<1>2. ASSUME NEW l \in Lock PROVE Completed(l)'
  BY NextCompletes DEF SleepInv
<1>3. SchedOK(k') /\ Queued' /\ SleepsInDown' /\ Woken'
  BY NextQueues
<1> QED BY <1>1, <1>2, <1>3 DEF SleepInv

\* init_all() leaves each thread but main in the ready list once.
LEMMA InitSched == Init => SchedOK(k)
<1> SUFFICES ASSUME Init PROVE SchedOK(k)
  OBVIOUS
<1>1. PICK main \in Kthread, ready \in [1..Cardinality(Thread) - 1 -> Thread] :
        /\ Elements(ready) = Thread \ {main}
        /\ k = [cur |-> main, ready |-> ready,
                status |-> [t \in Thread |-> IF t = main THEN "RUNNING" ELSE "READY"],
                ticks |-> Priority, fault |-> "none"]
  BY DEF Init
<1> DEFINE n == Cardinality(Thread) - 1
           T == Thread \ {main}
<1>2. n \in Nat /\ main \in Thread
  <2>1. Cardinality(Thread) \in Nat /\ Cardinality(Thread) # 0
    BY LocksAssumption, ThreadsAssumption, FS_CardinalityType, FS_EmptySet
  <2> QED BY <2>1, LocksAssumption
<1>3. IsFiniteSet(T) /\ Cardinality(T) = n
  BY <1>2, LocksAssumption, FS_RemoveElement
<1> HIDE DEF n, T
<1>4. ready \in [1..n -> Thread] /\ Elements(ready) = T
  BY <1>1 DEF n, T
<1>7. ready \in Seq(Thread) /\ Distinct(ready)
  BY <1>2, <1>3, <1>4, ListedOnce
<1>8. k \in SchedState
  BY InitType DEF TypeOK
<1>9. /\ k.ready = ready /\ k.cur = main /\ k.fault = "none"
      /\ \A t \in Thread : k.status[t] = IF t = main THEN "RUNNING" ELSE "READY"
  BY <1>1
<1>10. \A t \in Thread : t \in Elements(k.ready) <=> k.status[t] = "READY"
  BY <1>1, <1>9
<1>11. InOrder(k)
  BY <1>7, <1>8, <1>9, <1>10, ThreadsAssumption DEF InOrder
<1>12. Simple(k)
  BY <1>9, <1>10 DEF Simple
<1> QED BY <1>9, <1>10, <1>11, <1>12 DEF SchedOK, Running

LEMMA InitSleep == Init => SleepInv
<1> SUFFICES ASSUME Init PROVE SleepInv
  OBVIOUS
<1>1. SchedOK(k) /\ Inv
  BY InitSched, InitInv
<1>2. Asleep(k) = {}
  <2>1. PICK main \in Kthread, ready \in [1..Cardinality(Thread) - 1 -> Thread] :
           k = [cur |-> main, ready |-> ready,
                status |-> [t \in Thread |-> IF t = main THEN "RUNNING" ELSE "READY"],
                ticks |-> Priority, fault |-> "none"]
    BY DEF Init
  <2>2. \A t \in Thread : k.status[t] \in {"RUNNING", "READY"}
    BY <2>1
  <2> QED BY <2>2 DEF Asleep
<1>3. \A x \in Sema : sema[x].waiters = <<>>
  BY DEF Init, sema_init
<1>4. Queued /\ Woken
  BY <1>2, <1>3 DEF Queued, Woken, Distinct, Elements
<1>5. SleepsInDown
  BY <1>2 DEF SleepsInDown
<1>6. \A t \in Worker, l \in Lock : ~Owns(t, l) /\ ~Awaits(t, l)
  BY LocksAssumption DEF Init, Worker, Owns, Awaits
<1>7. RepeatOK
  BY <1>6 DEF Init, RepeatOK
<1>8. ASSUME NEW l \in Lock PROVE Completed(l)
  <2>1. ~expecting[l] /\ sema[<<l, "done">>].value = 0
    BY DEF Init, Sema, sema_init
  <2> QED BY <1>6, <2>1 DEF Completed
<1> QED BY <1>1, <1>4, <1>5, <1>7, <1>8 DEF SleepInv

\* The list that a place names.
ListAt(y) == IF y = Ready THEN k.ready ELSE sema[y].waiters

LEMMA PlacesMean ==
    ASSUME NEW t \in Thread
    PROVE  \A p : p \in Places(t) <=>
              \E y \in Sema \cup {Ready} : \E i \in 1..Len(ListAt(y)) :
                 ListAt(y)[i] = t /\ p = <<y, i>>
<1>1. \A y \in Sema : ListAt(y) = sema[y].waiters
  BY LocksAssumption DEF Sema, Ready, ListAt
<1>2. ListAt(Ready) = k.ready
  BY DEF ListAt
<1> HIDE DEF ListAt
<1> SUFFICES ASSUME NEW p
             PROVE  p \in Places(t) <=>
                      \E y \in Sema \cup {Ready} : \E i \in 1..Len(ListAt(y)) :
                         ListAt(y)[i] = t /\ p = <<y, i>>
  OBVIOUS
<1>3. p \in Places(t) <=>
        \/ \E x \in Sema : \E i \in 1..Len(sema[x].waiters) :
             sema[x].waiters[i] = t /\ p = <<x, i>>
        \/ \E i \in 1..Len(k.ready) : k.ready[i] = t /\ p = <<Ready, i>>
  <2> DEFINE W(x) == {<<x, i>> : i \in {j \in 1..Len(sema[x].waiters) : sema[x].waiters[j] = t}}
             U == UNION {W(x) : x \in Sema}
             R == {<<Ready, i>> : i \in {j \in 1..Len(k.ready) : k.ready[j] = t}}
  <2>1. \A x \in Sema : p \in W(x) <=>
           \E i \in 1..Len(sema[x].waiters) : sema[x].waiters[i] = t /\ p = <<x, i>>
    OBVIOUS
  <2>2. p \in R <=> \E i \in 1..Len(k.ready) : k.ready[i] = t /\ p = <<Ready, i>>
    OBVIOUS
  <2>3. Places(t) = U \cup R
    BY DEF Places
  <2>4. p \in U <=> \E x \in Sema : p \in W(x)
    OBVIOUS
  <2> HIDE DEF W, U, R
  <2>5. (\E x \in Sema : p \in W(x)) <=>
          \E x \in Sema : \E i \in 1..Len(sema[x].waiters) :
             sema[x].waiters[i] = t /\ p = <<x, i>>
    BY <2>1
  <2>6. p \in Places(t) <=> p \in U \/ p \in R
    BY <2>3
  <2> QED BY <2>2, <2>4, <2>5, <2>6
<1> QED BY <1>1, <1>2, <1>3

LEMMA PlacesOne ==
    ASSUME NEW t \in Thread, NEW y \in Sema \cup {Ready}, Distinct(ListAt(y)),
           t \in Elements(ListAt(y)),
           \A z \in Sema \cup {Ready} : z # y => t \notin Elements(ListAt(z))
    PROVE  Cardinality(Places(t)) <= 1 /\ {p[1] : p \in Places(t)} = {y}
<1>1. PICK i \in 1..Len(ListAt(y)) : ListAt(y)[i] = t
  BY DEF Elements
<1>2. ASSUME NEW p, p \in Places(t) PROVE p = <<y, i>>
  <2>1. PICK z \in Sema \cup {Ready} : \E j \in 1..Len(ListAt(z)) :
           ListAt(z)[j] = t /\ p = <<z, j>>
    BY <1>2, PlacesMean
  <2>2. PICK j \in 1..Len(ListAt(z)) : ListAt(z)[j] = t /\ p = <<z, j>>
    BY <2>1
  <2>3. t \in Elements(ListAt(z))
    BY <2>2 DEF Elements
  <2>4. z = y
    BY <2>3
  <2> QED BY <1>1, <2>2, <2>4 DEF Distinct
<1>3. <<y, i>> \in Places(t)
  BY <1>1, PlacesMean
<1>4. Places(t) = {<<y, i>>}
  BY <1>2, <1>3
<1>5. Cardinality(Places(t)) = 1
  BY <1>4, FS_Singleton
<1>6. {p[1] : p \in Places(t)} = {y}
  BY <1>4
<1> QED BY <1>5, <1>6

LEMMA PlacesNone ==
    ASSUME NEW t \in Thread,
           \A z \in Sema \cup {Ready} : t \notin Elements(ListAt(z))
    PROVE  Cardinality(Places(t)) <= 1 /\ {p[1] : p \in Places(t)} = {}
<1>1. Places(t) = {}
  BY PlacesMean DEF Elements
<1> QED BY <1>1, FS_EmptySet

LEMMA SleepMeansOneList == SleepInv => OneList
<1> SUFFICES ASSUME SleepInv, NEW t \in Thread
             PROVE  /\ (t = k.cur) <=> (k.status[t] = "RUNNING")
                    /\ Cardinality(Places(t)) <= 1
                    /\ {p[1] : p \in Places(t)} =
                          CASE k.status[t] = "RUNNING" -> {}
                            [] k.status[t] = "READY" -> {Ready}
                            [] k.status[t] = "BLOCKED" /\ t = idle_thread -> {}
                            [] OTHER -> {<<lk[t], on[t]>>}
                    /\ k.status[t] = "BLOCKED" /\ t \in Worker => pc[t] = "recheck"
  BY DEF OneList
<1>1. (t = k.cur) <=> (k.status[t] = "RUNNING")
  BY DEF SleepInv, SchedOK, Running
<1>2. k.status[t] = "BLOCKED" /\ t \in Worker => pc[t] = "recheck"
  BY LocksAssumption DEF SleepInv, SleepsInDown, Asleep, Worker
<1>3. /\ Distinct(k.ready) /\ (t \in Elements(k.ready) <=> k.status[t] = "READY")
      /\ k.status[t] \in {"RUNNING", "READY", "BLOCKED"}
  BY DEF SleepInv, SchedOK, Running, InOrder, Simple
<1>4. /\ ListAt(Ready) = k.ready
      /\ \A x \in Sema : ListAt(x) = sema[x].waiters
      /\ Ready \notin Sema
  BY LocksAssumption DEF Sema, Ready, ListAt
<1>5. \A x \in Sema : /\ Distinct(sema[x].waiters)
                      /\ t \in Elements(sema[x].waiters) <=>
                           t # idle_thread /\ k.status[t] = "BLOCKED" /\ <<lk[t], on[t]>> = x
  BY DEF SleepInv, Queued, Asleep
<1>6. CASE k.status[t] = "READY"
  <2>1. Cardinality(Places(t)) <= 1 /\ {p[1] : p \in Places(t)} = {Ready}
    <3>1. \A z \in Sema \cup {Ready} : z # Ready => t \notin Elements(ListAt(z))
      BY <1>4, <1>5, <1>6
    <3>2. Distinct(ListAt(Ready)) /\ t \in Elements(ListAt(Ready))
      BY <1>3, <1>4, <1>6
    <3> HIDE DEF Ready
    <3>3. Ready \in Sema \cup {Ready}
      OBVIOUS
    <3> QED BY <3>1, <3>2, <3>3, PlacesOne
  <2>2. (CASE k.status[t] = "RUNNING" -> {}
            [] k.status[t] = "READY" -> {Ready}
            [] k.status[t] = "BLOCKED" /\ t = idle_thread -> {}
            [] OTHER -> {<<lk[t], on[t]>>}) = {Ready}
    BY <1>6
  <2> QED BY <1>1, <1>2, <2>1, <2>2
<1>7. CASE k.status[t] = "RUNNING" \/ (k.status[t] = "BLOCKED" /\ t = idle_thread)
  <2>1. Cardinality(Places(t)) <= 1 /\ {p[1] : p \in Places(t)} = {}
    BY <1>3, <1>4, <1>5, <1>7, PlacesNone
  <2> QED BY <1>1, <1>2, <1>7, <2>1
<1>8. CASE k.status[t] = "BLOCKED" /\ t # idle_thread
  <2>1. t \in Worker /\ pc[t] = "recheck"
    BY <1>2, <1>8, LocksAssumption DEF Worker
  <2>2. <<lk[t], on[t]>> \in Sema
    BY <2>1 DEF SleepInv, Inv, LockInv, AtLock, TypeOK, Sema
  <2>3. Cardinality(Places(t)) <= 1 /\ {p[1] : p \in Places(t)} = {<<lk[t], on[t]>>}
    BY <1>3, <1>4, <1>5, <1>8, <2>2, PlacesOne
  <2> QED BY <1>1, <1>2, <1>8, <2>3
<1> QED BY <1>3, <1>6, <1>7, <1>8

(***************************************************************************)
(* The theorems.                                                           *)
(***************************************************************************)

\* No ASSERT of thread.c or sync.c fires and schedule() never finds the ready
\* list empty, for any number of threads and locks, whatever the order of
\* preemptions, sleeps, wakeups and interrupts.
THEOREM NeverPanics == Spec => []NoPanic
<1>1. SleepInv => NoPanic
  BY DEF SleepInv, SchedOK, Running, InOrder, Simple, NoPanic
<1> QED BY InitSleep, NextSleep, <1>1, PTL DEF Spec

\* general_tag is in at most one list, the one that the thread's status names.
THEOREM ListsDisjoint == Spec => []OneList
<1> QED BY InitSleep, NextSleep, SleepMeansOneList, PTL DEF Spec

\* A semaphore that is up while threads sleep on it has a thread on its way to
\* test it: no sema_up() is lost although sema_up() hands nothing over.
THEOREM WakeupsKept == Spec => []NoLostWakeup
<1>1. SleepInv => NoLostWakeup
  <2> SUFFICES ASSUME SleepInv, NEW x \in Sema, sema[x].value > 0, sema[x].waiters # <<>>
               PROVE  \E t \in Worker : /\ pc[t] = "recheck" /\ <<lk[t], on[t]>> = x
                                        /\ k.status[t] \in {"READY", "RUNNING"}
    BY DEF NoLostWakeup
  <2>1. PICK t \in Worker : pc[t] = "recheck" /\ <<lk[t], on[t]>> = x /\ t \notin Asleep(k)
    BY DEF SleepInv, Woken, Retests
  <2>2. t \in Thread \ {idle_thread}
    BY LocksAssumption DEF Worker
  <2>3. k.status[t] \in {"READY", "RUNNING"}
    BY <2>1, <2>2 DEF SleepInv, SchedOK, Running, InOrder, Simple, Asleep
  <2> QED BY <2>1, <2>3
<1> QED BY InitSleep, NextSleep, <1>1, PTL DEF Spec
=============================================================================
