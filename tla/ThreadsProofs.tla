--------------------------- MODULE ThreadsProofs ---------------------------
(***************************************************************************)
(* The scheduler of Threads, called in a state that is in order, leaves    *)
(* one that is in order and fails no ASSERT, for any number of threads.    *)
(* What a caller is told besides is which threads are off: blocked in one  *)
(* of the three ways, or dead.                                             *)
(***************************************************************************)
EXTENDS Threads, FiniteSetTheorems, TLAPS

\* No thread stands in the list twice.
Distinct(list) == \A i, j \in 1..Len(list) : list[i] = list[j] => i = j

\* The ready list holds the READY threads, each once; the idle thread only ever
\* blocks; no ASSERT has failed.
InOrder(s) ==
    /\ s \in SchedState
    /\ Distinct(s.ready)
    /\ \A t \in Thread : t \in Elements(s.ready) <=> s.status[t] = "READY"
    /\ s.status[idle_thread] \in {"RUNNING", "READY", "BLOCKED"}
    /\ s.fault = "none"

\* Inside schedule() the thread that gives up the CPU may already be marked.
\* Outside it exactly that thread is RUNNING.
GivingUp(s) == InOrder(s) /\ \A t \in Thread : s.status[t] = "RUNNING" => t = s.cur
Running(s) == InOrder(s) /\ \A t \in Thread : s.status[t] = "RUNNING" <=> t = s.cur

Off == Blocked \cup {"DIED"}

\* In r the same threads are off as in s, but for those of set moved.
SameOffBut(moved, s, r) ==
    \A t \in Thread \ ({idle_thread} \cup moved), o \in Off :
      r.status[t] = o <=> s.status[t] = o

SameOff(s, r) == SameOffBut({}, s, r)

(***************************************************************************)
(* Lists without repetition.                                               *)
(***************************************************************************)
LEMMA AppendElements ==
    ASSUME NEW list \in Seq(Thread), NEW t \in Thread
    PROVE  /\ Append(list, t) \in Seq(Thread)
           /\ Elements(Append(list, t)) = Elements(list) \cup {t}
           /\ Distinct(list) /\ t \notin Elements(list) => Distinct(Append(list, t))
<1> DEFINE a == Append(list, t)
<1>1. /\ a \in Seq(Thread) /\ Len(a) = Len(list) + 1 /\ Len(list) \in Nat
      /\ \A i \in 1..Len(list) : a[i] = list[i]
      /\ a[Len(list) + 1] = t
  OBVIOUS
<1> HIDE DEF a
<1>2. 1..Len(a) = 1..Len(list) \cup {Len(list) + 1}
  BY <1>1
<1>3. Elements(a) = Elements(list) \cup {t}
  BY <1>1, <1>2 DEF Elements
<1>4. ASSUME Distinct(list), t \notin Elements(list) PROVE Distinct(a)
  BY <1>1, <1>2, <1>4 DEF Distinct, Elements
<1> QED BY <1>1, <1>3, <1>4 DEF a

LEMMA PushElements ==
    ASSUME NEW list \in Seq(Thread), NEW t \in Thread
    PROVE  /\ <<t>> \o list \in Seq(Thread)
           /\ <<t>> \o list # <<>>
           /\ Elements(<<t>> \o list) = Elements(list) \cup {t}
           /\ Distinct(list) /\ t \notin Elements(list) => Distinct(<<t>> \o list)
<1> DEFINE a == <<t>> \o list
<1>1. /\ a \in Seq(Thread) /\ Len(a) = Len(list) + 1 /\ Len(list) \in Nat
      /\ \A i \in 1..Len(list) : a[i + 1] = list[i]
      /\ a[1] = t
  OBVIOUS
<1> HIDE DEF a
<1>2. \A i \in 1..Len(a) : i = 1 \/ i - 1 \in 1..Len(list)
  BY <1>1
<1>3. Elements(a) = Elements(list) \cup {t}
  <2>1. ASSUME NEW i \in 1..Len(a) PROVE a[i] \in Elements(list) \cup {t}
    <3>1. CASE i = 1
      BY <1>1, <3>1
    <3>2. CASE i # 1
      <4>1. i - 1 \in 1..Len(list) /\ a[(i - 1) + 1] = list[i - 1]
        BY <1>1, <1>2, <3>2
      <4>2. (i - 1) + 1 = i
        BY <1>1
      <4> QED BY <4>1, <4>2 DEF Elements
    <3> QED BY <3>1, <3>2
  <2>2. t \in Elements(a)
    BY <1>1 DEF Elements
  <2>3. ASSUME NEW i \in 1..Len(list) PROVE list[i] \in Elements(a)
    <3>1. i + 1 \in 1..Len(a) /\ a[i + 1] = list[i]
      BY <1>1
    <3> QED BY <3>1 DEF Elements
  <2> QED BY <2>1, <2>2, <2>3 DEF Elements
<1>4. ASSUME Distinct(list), t \notin Elements(list) PROVE Distinct(a)
  <2> SUFFICES ASSUME NEW i \in 1..Len(a), NEW j \in 1..Len(a), a[i] = a[j] PROVE i = j
    BY DEF Distinct
  <2>1. \A m \in 1..Len(a) : m # 1 => m - 1 \in 1..Len(list) /\ a[m] = list[m - 1]
    <3> SUFFICES ASSUME NEW m \in 1..Len(a), m # 1
                 PROVE  m - 1 \in 1..Len(list) /\ a[m] = list[m - 1]
      OBVIOUS
    <3>1. m - 1 \in 1..Len(list) /\ a[(m - 1) + 1] = list[m - 1]
      BY <1>1, <1>2
    <3>2. (m - 1) + 1 = m
      BY <1>1
    <3> QED BY <3>1, <3>2
  <2>2. \A m \in 1..Len(list) : list[m] # t
    BY <1>4 DEF Elements
  <2>3. CASE i = 1
    BY <1>1, <2>1, <2>2, <2>3
  <2>4. CASE j = 1
    BY <1>1, <2>1, <2>2, <2>4
  <2>5. CASE i # 1 /\ j # 1
    <3>1. i - 1 = j - 1
      BY <1>4, <2>1, <2>5 DEF Distinct
    <3> QED BY <1>1, <3>1
  <2> QED BY <2>3, <2>4, <2>5
<1>5. a # <<>>
  BY <1>1
<1> QED BY <1>1, <1>3, <1>4, <1>5 DEF a

LEMMA TailElements ==
    ASSUME NEW list \in Seq(Thread), list # <<>>
    PROVE  /\ Head(list) \in Thread /\ Tail(list) \in Seq(Thread)
           /\ Head(list) \in Elements(list)
           /\ Distinct(list) => /\ Distinct(Tail(list))
                                /\ Elements(Tail(list)) = Elements(list) \ {Head(list)}
<1> DEFINE a == Tail(list)
<1>1. /\ a \in Seq(Thread) /\ Len(a) = Len(list) - 1 /\ Len(list) \in Nat \ {0}
      /\ \A i \in 1..Len(a) : a[i] = list[i + 1]
      /\ Head(list) = list[1] /\ list[1] \in Thread
  OBVIOUS
<1> HIDE DEF a
<1>2. Head(list) \in Elements(list)
  BY <1>1 DEF Elements
<1>3. ASSUME Distinct(list) PROVE Distinct(a)
  <2> SUFFICES ASSUME NEW i \in 1..Len(a), NEW j \in 1..Len(a), a[i] = a[j] PROVE i = j
    BY DEF Distinct
  <2>1. i + 1 \in 1..Len(list) /\ j + 1 \in 1..Len(list) /\ list[i + 1] = list[j + 1]
    BY <1>1
  <2>2. i + 1 = j + 1
    BY <1>3, <2>1 DEF Distinct
  <2> QED BY <1>1, <2>2
<1>4. ASSUME Distinct(list) PROVE Elements(a) = Elements(list) \ {Head(list)}
  <2>1. ASSUME NEW i \in 1..Len(a) PROVE a[i] \in Elements(list) \ {list[1]}
    <3>1. i + 1 \in 1..Len(list) /\ 1 \in 1..Len(list) /\ i + 1 # 1
      BY <1>1
    <3>2. a[i] = list[i + 1]
      BY <1>1
    <3> QED BY <1>4, <3>1, <3>2 DEF Distinct, Elements
  <2>2. ASSUME NEW i \in 1..Len(list), list[i] # list[1] PROVE list[i] \in Elements(a)
    <3>1. i - 1 \in 1..Len(a) /\ (i - 1) + 1 = i
      BY <1>1, <2>2
    <3>2. a[i - 1] = list[(i - 1) + 1]
      BY <1>1, <3>1
    <3> QED BY <3>1, <3>2 DEF Elements
  <2> QED BY <1>1, <2>1, <2>2 DEF Elements
<1> QED BY <1>1, <1>2, <1>3, <1>4 DEF a

\* A list as long as the set of its elements has each of them once.
LEMMA ListedOnce ==
    ASSUME NEW T, IsFiniteSet(T), NEW n \in Nat, Cardinality(T) = n,
           NEW list \in [1..n -> Thread], Elements(list) = T
    PROVE  list \in Seq(Thread) /\ Distinct(list)
<1>1. list \in Seq(Thread) /\ Len(list) = n
  OBVIOUS
<1>2. IsFiniteSet(1..n) /\ Cardinality(1..n) = n
  <2>1. IsFiniteSet(1..n) /\ Cardinality(1..n) = IF 1 > n THEN 0 ELSE n - 1 + 1
    BY FS_Interval
  <2> QED BY <2>1
<1>3. list \in Surjection(1..n, T)
  <2>1. \A i \in 1..n : list[i] \in T
    BY <1>1 DEF Elements
  <2>2. \A t \in T : \E i \in 1..n : list[i] = t
    BY <1>1 DEF Elements
  <2>3. list \in [1..n -> T]
    BY <2>1
  <2> QED BY <2>2, <2>3 DEF Surjection
<1>4. list \in Injection(1..n, T)
  BY <1>2, <1>3, FS_Surjection
<1> QED BY <1>1, <1>4 DEF Injection, IsInjective, Distinct

----------------------------------------------------------------------------
(***************************************************************************)
(* The parts of schedule(), then what calls it.                            *)
(***************************************************************************)

\* thread_unblock() of a blocked thread passes both its ASSERTs.
LEMMA UnblockKeeps ==
    ASSUME NEW s, InOrder(s), NEW t \in Thread, s.status[t] \in Blocked
    PROVE  /\ InOrder(thread_unblock(s, t))
           /\ thread_unblock(s, t).cur = s.cur
           /\ thread_unblock(s, t).ready # <<>>
           /\ thread_unblock(s, t).status = [s.status EXCEPT ![t] = "READY"]
<1> DEFINE u == thread_unblock(s, t)
<1>1. t \notin Elements(s.ready)
  BY DEF InOrder, Blocked
<1>2. u = [s EXCEPT !.ready = <<t>> \o @, !.status[t] = "READY"]
  BY <1>1 DEF thread_unblock
<1>3. /\ u.ready = <<t>> \o s.ready /\ u.status = [s.status EXCEPT ![t] = "READY"]
      /\ u.cur = s.cur /\ u.fault = "none"
  BY <1>2 DEF InOrder, SchedState
<1>4. s.ready \in Seq(Thread)
  BY DEF InOrder, SchedState
<1>5. /\ u.ready \in Seq(Thread) /\ u.ready # <<>>
      /\ Elements(u.ready) = Elements(s.ready) \cup {t} /\ Distinct(u.ready)
  BY <1>1, <1>3, <1>4, PushElements DEF InOrder
<1>6. u \in SchedState
  <2>1. <<t>> \o s.ready \in Seq(Thread)
    BY <1>3, <1>5
  <2>2. [s EXCEPT !.ready = <<t>> \o s.ready, !.status[t] = "READY"] \in SchedState
    BY <2>1 DEF InOrder, SchedState, Status
  <2> QED BY <1>2, <2>2
<1>7. \A v \in Thread : u.status[v] = IF v = t THEN "READY" ELSE s.status[v]
  BY <1>3 DEF InOrder, SchedState
<1>8. /\ \A v \in Thread : v \in Elements(u.ready) <=> u.status[v] = "READY"
      /\ u.status[idle_thread] \in {"RUNNING", "READY", "BLOCKED"}
  BY <1>5, <1>7, ThreadsAssumption DEF InOrder
<1> QED BY <1>3, <1>5, <1>6, <1>8 DEF InOrder

\* The running thread goes to the tail of the list, unless it has been marked.
LEMMA RequeueKeeps ==
    ASSUME NEW s, GivingUp(s)
    PROVE  /\ InOrder(Requeue(s))
           /\ \A t \in Thread : Requeue(s).status[t] # "RUNNING"
           /\ SameOff(s, Requeue(s))
<1> DEFINE r == Requeue(s)
<1>a. s.cur \in Thread /\ s \in SchedState /\ s.ready \in Seq(Thread)
  BY DEF GivingUp, InOrder, SchedState
<1>1. CASE s.status[s.cur] # "RUNNING"
  BY <1>1 DEF Requeue, GivingUp, SameOff, SameOffBut
<1>2. CASE s.status[s.cur] = "RUNNING"
  <2>1. s.cur \notin Elements(s.ready)
    BY <1>a, <1>2 DEF GivingUp, InOrder
  <2>2. r = [s EXCEPT !.ready = Append(@, s.cur), !.ticks[s.cur] = Priority[s.cur],
                      !.status[s.cur] = "READY"]
    BY <1>2, <2>1 DEF Requeue
  <2>3. /\ r.ready = Append(s.ready, s.cur) /\ r.status = [s.status EXCEPT ![s.cur] = "READY"]
        /\ r.fault = "none"
    BY <1>a, <2>2 DEF GivingUp, InOrder, SchedState
  <2>4. /\ r.ready \in Seq(Thread) /\ Elements(r.ready) = Elements(s.ready) \cup {s.cur}
        /\ Distinct(r.ready)
    BY <1>a, <2>1, <2>3, AppendElements DEF GivingUp, InOrder
  <2>5. r \in SchedState
    <3>1. Priority[s.cur] \in Nat
      BY <1>a, ThreadsAssumption
    <3>2. Append(s.ready, s.cur) \in Seq(Thread)
      BY <2>3, <2>4
    <3>3. [s EXCEPT !.ready = Append(s.ready, s.cur), !.ticks[s.cur] = Priority[s.cur],
                    !.status[s.cur] = "READY"] \in SchedState
      BY <1>a, <3>1, <3>2 DEF SchedState, Status
    <3> QED BY <2>2, <3>3
  <2>6. \A t \in Thread : r.status[t] = IF t = s.cur THEN "READY" ELSE s.status[t]
    BY <1>a, <2>3 DEF SchedState
  <2> HIDE DEF r
  <2>7. \A t \in Thread : t \in Elements(r.ready) <=> r.status[t] = "READY"
    BY <2>4, <2>6 DEF GivingUp, InOrder
  <2>8. InOrder(r)
    BY <2>3, <2>4, <2>5, <2>6, <2>7, ThreadsAssumption DEF GivingUp, InOrder
  <2>9. SameOff(s, r) /\ \A t \in Thread : r.status[t] # "RUNNING"
    BY <1>2, <2>6 DEF GivingUp, SameOff, SameOffBut, Off, Blocked
  <2> QED BY <2>8, <2>9 DEF r
<1> QED BY <1>1, <1>2

\* With nobody ready, the idle thread is blocked and can be woken.
LEMMA WakeIdleKeeps ==
    ASSUME NEW s, InOrder(s), \A t \in Thread : s.status[t] # "RUNNING"
    PROVE  /\ InOrder(WakeIdle(s))
           /\ WakeIdle(s).ready # <<>>
           /\ \A t \in Thread : WakeIdle(s).status[t] # "RUNNING"
           /\ SameOff(s, WakeIdle(s))
<1>1. CASE s.ready # <<>>
  BY <1>1 DEF WakeIdle, SameOff, SameOffBut
<1>2. CASE s.ready = <<>>
  <2>1. s.status[idle_thread] \in Blocked
    <3>1. idle_thread \notin Elements(s.ready)
      BY <1>2 DEF Elements
    <3> QED BY <3>1, ThreadsAssumption DEF InOrder, Blocked
  <2>2. WakeIdle(s) = thread_unblock(s, idle_thread)
    BY <1>2 DEF WakeIdle
  <2>3. /\ InOrder(WakeIdle(s)) /\ WakeIdle(s).ready # <<>>
        /\ WakeIdle(s).status = [s.status EXCEPT ![idle_thread] = "READY"]
    <3>1. idle_thread \in Thread
      BY ThreadsAssumption
    <3>2. /\ InOrder(thread_unblock(s, idle_thread))
          /\ thread_unblock(s, idle_thread).ready # <<>>
          /\ thread_unblock(s, idle_thread).status = [s.status EXCEPT ![idle_thread] = "READY"]
      BY <2>1, <3>1, UnblockKeeps
    <3> QED BY <2>2, <3>2
  <2>4. \A t \in Thread : WakeIdle(s).status[t] =
                            IF t = idle_thread THEN "READY" ELSE s.status[t]
    BY <2>3 DEF InOrder, SchedState
  <2> QED BY <2>3, <2>4 DEF SameOff, SameOffBut
<1> QED BY <1>1, <1>2

\* The head of the list becomes the running thread.
LEMMA DispatchKeeps ==
    ASSUME NEW s, InOrder(s), s.ready # <<>>, \A t \in Thread : s.status[t] # "RUNNING"
    PROVE  Running(Dispatch(s)) /\ SameOff(s, Dispatch(s))
<1> DEFINE d == Dispatch(s)
           h == Head(s.ready)
<1>a. s \in SchedState /\ s.ready \in Seq(Thread)
  BY DEF InOrder, SchedState
<1>1. /\ h \in Thread /\ Tail(s.ready) \in Seq(Thread) /\ h \in Elements(s.ready)
      /\ Distinct(Tail(s.ready)) /\ Elements(Tail(s.ready)) = Elements(s.ready) \ {h}
  BY <1>a, TailElements DEF InOrder
<1>2. d = [s EXCEPT !.cur = h, !.ready = Tail(s.ready), !.status[h] = "RUNNING"]
  BY DEF Dispatch
<1>3. /\ d.ready = Tail(s.ready) /\ d.cur = h /\ d.fault = "none"
      /\ d.status = [s.status EXCEPT ![h] = "RUNNING"]
  BY <1>a, <1>2 DEF InOrder, SchedState
<1> HIDE DEF h
<1>4. [s EXCEPT !.cur = h, !.ready = Tail(s.ready), !.status[h] = "RUNNING"] \in SchedState
  BY <1>a, <1>1 DEF SchedState, Status
<1> HIDE DEF d
<1>5. \A t \in Thread : d.status[t] = IF t = h THEN "RUNNING" ELSE s.status[t]
  BY <1>a, <1>3 DEF SchedState
<1>6. s.status[h] = "READY"
  BY <1>1 DEF InOrder
<1>7. \A t \in Thread : t \in Elements(d.ready) <=> d.status[t] = "READY"
  BY <1>1, <1>3, <1>5 DEF InOrder
<1>8. InOrder(d)
  BY <1>1, <1>2, <1>3, <1>4, <1>5, <1>7, ThreadsAssumption DEF InOrder
<1>9. Running(d) /\ SameOff(s, d)
  BY <1>3, <1>5, <1>6, <1>8 DEF Running, SameOff, SameOffBut, Off, Blocked
<1> QED BY <1>9 DEF d

LEMMA ScheduleKeeps ==
    ASSUME NEW s, GivingUp(s)
    PROVE  Running(schedule(s)) /\ SameOff(s, schedule(s))
<1> DEFINE r == Requeue(s)
           w == WakeIdle(r)
           d == Dispatch(w)
<1>1. InOrder(r) /\ SameOff(s, r) /\ \A t \in Thread : r.status[t] # "RUNNING"
  BY RequeueKeeps
<1> HIDE DEF r
<1>2. InOrder(w) /\ SameOff(r, w) /\ w.ready # <<>> /\ \A t \in Thread : w.status[t] # "RUNNING"
  BY <1>1, WakeIdleKeeps
<1> HIDE DEF w
<1>3. Running(d) /\ SameOff(w, d)
  BY <1>2, DispatchKeeps
<1>4. d = schedule(s)
  BY DEF d, w, r, schedule
<1> HIDE DEF d
<1>5. SameOff(s, d)
  BY <1>1, <1>2, <1>3 DEF SameOff, SameOffBut
<1> QED BY <1>3, <1>4, <1>5

\* A thread that gives up the CPU for good or until it is woken.
LEMMA LeaveKeeps ==
    ASSUME NEW s, Running(s), NEW stat \in Off, s.cur = idle_thread => stat = "BLOCKED"
    PROVE  LET r == schedule([s EXCEPT !.status[s.cur] = stat])
           IN  /\ Running(r)
               /\ SameOffBut({s.cur}, s, r)
               /\ s.cur # idle_thread => r.status[s.cur] = stat
<1> DEFINE b == [s EXCEPT !.status[s.cur] = stat]
<1>a. s \in SchedState /\ s.cur \in Thread /\ s.status[s.cur] = "RUNNING"
  BY DEF Running, InOrder, SchedState
<1>1. /\ b \in SchedState /\ b.ready = s.ready /\ b.cur = s.cur /\ b.fault = "none"
      /\ \A t \in Thread : b.status[t] = IF t = s.cur THEN stat ELSE s.status[t]
  BY <1>a DEF Running, InOrder, SchedState, Status, Off, Blocked
<1> HIDE DEF b
<1>2. GivingUp(b)
  BY <1>a, <1>1, ThreadsAssumption DEF Running, GivingUp, InOrder, Off, Blocked
<1>3. Running(schedule(b)) /\ SameOff(b, schedule(b))
  BY <1>2, ScheduleKeeps
<1>4. SameOffBut({s.cur}, s, schedule(b))
  BY <1>1, <1>3 DEF SameOff, SameOffBut
<1>5. ASSUME s.cur # idle_thread PROVE schedule(b).status[s.cur] = stat
  BY <1>a, <1>1, <1>3, <1>5 DEF SameOff, SameOffBut
<1> QED BY <1>3, <1>4, <1>5 DEF b

\* thread_block(): the running thread, and nobody else, is off.
LEMMA BlockKeeps ==
    ASSUME NEW s, Running(s), NEW stat \in Blocked, s.cur = idle_thread => stat = "BLOCKED"
    PROVE  LET r == thread_block(s, stat)
           IN  /\ Running(r)
               /\ SameOffBut({s.cur}, s, r)
               /\ s.cur # idle_thread => r.status[s.cur] = stat
  BY LeaveKeeps DEF thread_block, Off

\* thread_yield() and the timer change nothing for the threads that are off.
LEMMA YieldKeeps ==
    ASSUME NEW s, Running(s)
    PROVE  Running(thread_yield(s)) /\ SameOff(s, thread_yield(s))
<1> DEFINE y == [s EXCEPT !.ready = Append(@, s.cur), !.status[s.cur] = "READY"]
<1>a. /\ s \in SchedState /\ s.cur \in Thread /\ s.ready \in Seq(Thread)
      /\ s.status[s.cur] = "RUNNING" /\ s.cur \notin Elements(s.ready)
  BY DEF Running, InOrder, SchedState
<1>1. /\ Append(s.ready, s.cur) \in Seq(Thread) /\ Distinct(Append(s.ready, s.cur))
      /\ Elements(Append(s.ready, s.cur)) = Elements(s.ready) \cup {s.cur}
  BY <1>a, AppendElements DEF Running, InOrder
<1>2. /\ y.ready = Append(s.ready, s.cur) /\ y.cur = s.cur /\ y.fault = "none"
      /\ \A t \in Thread : y.status[t] = IF t = s.cur THEN "READY" ELSE s.status[t]
  BY <1>a DEF Running, InOrder, SchedState
<1>3. y \in SchedState
  BY <1>a, <1>1 DEF SchedState, Status
<1>b. thread_yield(s) = schedule(y)
  BY <1>a DEF thread_yield
<1> HIDE DEF y
<1>4. GivingUp(y)
  BY <1>a, <1>1, <1>2, <1>3, ThreadsAssumption DEF Running, GivingUp, InOrder
<1>5. SameOff(s, y)
  BY <1>a, <1>2 DEF SameOff, SameOffBut, Off, Blocked
<1>6. Running(schedule(y)) /\ SameOff(y, schedule(y))
  BY <1>4, ScheduleKeeps
<1>7. SameOff(s, schedule(y))
  BY <1>5, <1>6 DEF SameOff, SameOffBut
<1> QED BY <1>b, <1>6, <1>7

LEMMA TimerKeeps ==
    ASSUME NEW s, Running(s)
    PROVE  Running(intr_timer_handler(s)) /\ SameOff(s, intr_timer_handler(s))
<1>a. s \in SchedState /\ s.cur \in Thread
  BY DEF Running, InOrder, SchedState
<1>1. CASE s.ticks[s.cur] = 0
  BY <1>1, ScheduleKeeps DEF intr_timer_handler, Running, GivingUp
<1>2. CASE s.ticks[s.cur] # 0
  <2> DEFINE d == [s EXCEPT !.ticks[s.cur] = @ - 1]
  <2>1. s.ticks[s.cur] - 1 \in Nat
    BY <1>a, <1>2 DEF SchedState
  <2>2. /\ d \in SchedState /\ d.ready = s.ready /\ d.cur = s.cur /\ d.fault = s.fault
        /\ d.status = s.status
    BY <1>a, <2>1 DEF SchedState
  <2>3. intr_timer_handler(s) = d
    BY <1>2 DEF intr_timer_handler
  <2> HIDE DEF d
  <2> QED BY <2>2, <2>3 DEF Running, InOrder, SameOff, SameOffBut
<1> QED BY <1>1, <1>2

----------------------------------------------------------------------------
(***************************************************************************)
(* The same where threads only run, are ready or are blocked, as in the    *)
(* modules whose threads neither exit nor wait for children.               *)
(***************************************************************************)
Simple(s) == \A t \in Thread : s.status[t] \in {"RUNNING", "READY", "BLOCKED"}

ListOK(s) == InOrder(s) /\ Simple(s)
SchedOK(s) == Running(s) /\ Simple(s)

Asleep(s) == {t \in Thread \ {idle_thread} : s.status[t] = "BLOCKED"}

\* The scheduler itself puts no thread into another state.
LEMMA SimpleKept ==
    ASSUME NEW s, Simple(s), NEW r, InOrder(r), NEW moved, SameOffBut(moved, s, r),
           \A t \in (moved \cap Thread) \ {idle_thread} : r.status[t] \in {"READY", "BLOCKED"}
    PROVE  Simple(r)
<1> SUFFICES ASSUME NEW t \in Thread PROVE r.status[t] \in {"RUNNING", "READY", "BLOCKED"}
  BY DEF Simple
<1>1. r.status[t] \in Status
  BY DEF InOrder, SchedState
<1>2. CASE t = idle_thread
  BY <1>2 DEF InOrder
<1>3. CASE t # idle_thread /\ t \in moved
  BY <1>3
<1>4. CASE t # idle_thread /\ t \notin moved
  <2>1. \A o \in Off : r.status[t] = o <=> s.status[t] = o
    BY <1>4 DEF SameOffBut
  <2> QED BY <1>1, <2>1 DEF Simple, Status, Off, Blocked
<1> QED BY <1>2, <1>3, <1>4

LEMMA UnblockOK ==
    ASSUME NEW s, ListOK(s), NEW t \in Thread, s.status[t] = "BLOCKED"
    PROVE  /\ ListOK(thread_unblock(s, t))
           /\ thread_unblock(s, t).cur = s.cur
           /\ thread_unblock(s, t).ready # <<>>
           /\ thread_unblock(s, t).status = [s.status EXCEPT ![t] = "READY"]
<1> DEFINE u == thread_unblock(s, t)
<1>1. /\ InOrder(u) /\ u.cur = s.cur /\ u.ready # <<>>
      /\ u.status = [s.status EXCEPT ![t] = "READY"]
  BY UnblockKeeps DEF ListOK, Blocked
<1> HIDE DEF u
<1>2. Simple(u)
  BY <1>1 DEF ListOK, InOrder, SchedState, Simple
<1> QED BY <1>1, <1>2 DEF u, ListOK

\* thread_block(): the running thread, and nobody else, falls asleep.
LEMMA BlockOK ==
    ASSUME NEW s, SchedOK(s)
    PROVE  /\ SchedOK(thread_block(s, "BLOCKED"))
           /\ Asleep(thread_block(s, "BLOCKED")) = Asleep(s) \cup ({s.cur} \ {idle_thread})
<1> DEFINE b == thread_block(s, "BLOCKED")
<1>1. /\ Running(b) /\ SameOffBut({s.cur}, s, b)
      /\ s.cur # idle_thread => b.status[s.cur] = "BLOCKED"
  BY BlockKeeps DEF SchedOK, Blocked
<1>2. s.cur \in Thread
  BY DEF SchedOK, Running, InOrder, SchedState
<1> HIDE DEF b
<1>3. Simple(b)
  BY <1>1, SimpleKept DEF SchedOK, Running
<1>4. Asleep(b) = Asleep(s) \cup ({s.cur} \ {idle_thread})
  BY <1>1, <1>2 DEF Asleep, SameOffBut, Off, Blocked
<1> QED BY <1>1, <1>3, <1>4 DEF b, SchedOK

LEMMA SameOffOK ==
    ASSUME NEW s, SchedOK(s), NEW r, Running(r), SameOff(s, r)
    PROVE  SchedOK(r) /\ Asleep(r) = Asleep(s)
<1>1. Simple(r)
  BY SimpleKept DEF SchedOK, Running, SameOff
<1> QED BY <1>1 DEF SchedOK, Asleep, SameOff, SameOffBut, Off, Blocked

\* thread_yield() and the timer put nobody to sleep and wake nobody.
LEMMA YieldOK ==
    ASSUME NEW s, SchedOK(s)
    PROVE  SchedOK(thread_yield(s)) /\ Asleep(thread_yield(s)) = Asleep(s)
  BY YieldKeeps, SameOffOK DEF SchedOK

LEMMA TimerOK ==
    ASSUME NEW s, SchedOK(s)
    PROVE  SchedOK(intr_timer_handler(s)) /\ Asleep(intr_timer_handler(s)) = Asleep(s)
  BY TimerKeeps, SameOffOK DEF SchedOK
=============================================================================
