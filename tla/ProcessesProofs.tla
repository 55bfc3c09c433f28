-------------------------- MODULE ProcessesProofs --------------------------
(***************************************************************************)
(* Processes, for every number of PCBs and pages: pids are unique, every   *)
(* process has a living parent, neither the scheduler nor exit() fails an  *)
(* ASSERT, and no more pages are given back than were taken.               *)
(***************************************************************************)
EXTENDS Processes, ThreadsProofs, FiniteSetTheorems

\* The scheduler state apart from the fault of ReapFaults, which stops the machine
\* and leaves everything else as it was.
Sched == [k EXCEPT !.fault = "none"]

SchedInv == k \in SchedState /\ k.fault \in {"none", "thread.c:321"} /\ Running(Sched)

\* thread_all_list holds the threads that are not dead, each once, and their PCBs
\* are in use.
Registered ==
    /\ all \in Seq(Thread) /\ Distinct(all)
    /\ \A t \in Thread : t \in Elements(all) <=> k.status[t] # "DIED"
    /\ pcbs \subseteq Thread /\ Elements(all) \subseteq pcbs

Pids ==
    /\ pid \in [Thread -> Nat] /\ pids \in SUBSET (Nat \ {0}) /\ IsFiniteSet(pids)
    /\ PidsUnique
    /\ pid[init] = 1

\* init never exits, and the parent of every other process is a process that has
\* not exited.
Parents ==
    /\ ppid \in [Thread -> Nat \cup {-1}]
    /\ k.status[init] \notin {"HANGING", "DIED"}
    /\ \A t \in Elements(all) \cap Slot :
         \E q \in Elements(all) \cap Process :
           q # t /\ pid[q] = ppid[t] /\ k.status[q] \notin {"HANGING", "DIED"}

IInv == SchedInv /\ Registered /\ Pids /\ Parents

----------------------------------------------------------------------------
(***************************************************************************)
(* The operators: first elements, removal, the first free pid.             *)
(***************************************************************************)

\* A set of natural numbers has a least element.
LEMMA LeastNatural ==
    ASSUME NEW S, S \subseteq Nat, S # {}
    PROVE  \E n \in S : \A m \in S : n <= m
<1> DEFINE R == {p \in Nat \X Nat : p[1] < p[2]}
<1>1. IsWellFoundedOn(R, Nat)
  BY NatLessThanWellFounded DEF OpToRel
<1>2. PICK n \in S : \A m \in S : <<m, n>> \notin R
  <2> HIDE DEF R
  <2> QED BY <1>1, WFMin
<1>3. \A m \in S : ~(m < n)
  BY <1>2
<1> QED BY <1>3

\* list_traversal() finds a thread that the callback accepts if there is one.
LEMMA FirstOfFound ==
    ASSUME all \in Seq(Thread), NEW accepted
    PROVE  /\ FirstOf(accepted) \subseteq accepted \cap Elements(all)
           /\ accepted \cap Elements(all) # {} => FirstOf(accepted) # {}
<1>1. FirstOf(accepted) \subseteq accepted \cap Elements(all)
  BY DEF FirstOf, Elements
<1>2. ASSUME accepted \cap Elements(all) # {} PROVE FirstOf(accepted) # {}
  <2> DEFINE S == {j \in 1..Len(all) : all[j] \in accepted}
  <2>1. S # {} /\ S \subseteq Nat
    BY <1>2 DEF Elements
  <2>2. PICK n \in S : \A m \in S : n <= m
    BY <2>1, LeastNatural
  <2>3. n \in 1..Len(all) /\ all[n] \in accepted
    OBVIOUS
  <2>4. \A h \in 1..n - 1 : all[h] \notin accepted
    <3> SUFFICES ASSUME NEW h \in 1..n - 1, all[h] \in accepted PROVE FALSE
      OBVIOUS
    <3>1. h \in 1..Len(all) /\ ~(n <= h)
      BY <2>3
    <3> QED BY <2>2, <3>1
  <2>5. all[n] \in FirstOf(accepted)
    BY <2>3, <2>4 DEF FirstOf
  <2> QED BY <2>5
<1> QED BY <1>1, <1>2

LEMMA Concatenation ==
    ASSUME NEW a \in Seq(Thread), NEW b \in Seq(Thread)
    PROVE  /\ a \o b \in Seq(Thread) /\ Len(a \o b) = Len(a) + Len(b)
           /\ \A j \in 1..Len(a) + Len(b) :
                (a \o b)[j] = IF j <= Len(a) THEN a[j] ELSE b[j - Len(a)]
  OBVIOUS

\* list_remove() unlinks one element.
LEMMA RemoveElements ==
    ASSUME NEW list \in Seq(Thread), Distinct(list), NEW t \in Thread
    PROVE  /\ RemoveFirst(list, t) \in Seq(Thread) /\ Distinct(RemoveFirst(list, t))
           /\ Elements(RemoveFirst(list, t)) = Elements(list) \ {t}
<1>1. CASE t \notin Elements(list)
  <2>1. RemoveFirst(list, t) = list
    BY <1>1 DEF RemoveFirst, Elements
  <2> QED BY <1>1, <2>1
<1>2. CASE t \in Elements(list)
  <2>1. PICK i \in 1..Len(list) : list[i] = t
    BY <1>2 DEF Elements
  <2>2. {j \in 1..Len(list) : list[j] = t} = {i}
    BY <2>1 DEF Distinct
  <2>3. SelectInSeq(list, LAMBDA v : v = t) = i
    <3>1. Min({i}) = i
      BY DEF Min
    <3>2. SelectInSeq(list, LAMBDA v : v = t) =
            IF {j \in 1..Len(list) : list[j] = t} # {}
            THEN Min({j \in 1..Len(list) : list[j] = t}) ELSE 0
      BY DEF SelectInSeq
    <3> QED BY <2>2, <3>1, <3>2
  <2> DEFINE u == RemoveFirst(list, t)
             front == SubSeq(list, 1, i - 1)
             back == SubSeq(list, i + 1, Len(list))
  <2>4. u = front \o back
    BY <2>1, <2>3 DEF RemoveFirst, RemoveAt
  <2>5. /\ front \in Seq(Thread) /\ Len(front) = i - 1
        /\ \A j \in 1..i - 1 : front[j] = list[j]
    OBVIOUS
  <2>6. /\ back \in Seq(Thread) /\ Len(back) = Len(list) - i
        /\ \A j \in 1..Len(list) - i : back[j] = list[i + j]
    OBVIOUS
  <2> HIDE DEF front, back
  <2>7. /\ front \o back \in Seq(Thread) /\ Len(front \o back) = Len(list) - 1
        /\ \A j \in 1..i - 1 : (front \o back)[j] = list[j]
        /\ \A j \in i..Len(list) - 1 : (front \o back)[j] = back[j - (i - 1)]
    <3>1. /\ front \o back \in Seq(Thread)
          /\ Len(front \o back) = Len(front) + Len(back)
          /\ \A j \in 1..Len(front) + Len(back) :
               (front \o back)[j] = IF j <= Len(front) THEN front[j] ELSE back[j - Len(front)]
      BY <2>5, <2>6, Concatenation
    <3>2. Len(front \o back) = Len(list) - 1
      BY <2>5, <2>6, <3>1
    <3> HIDE DEF u
    <3> QED BY <2>5, <2>6, <3>1, <3>2
  <2>8. \A j \in i..Len(list) - 1 : back[j - (i - 1)] = list[j + 1]
    <3> SUFFICES ASSUME NEW j \in i..Len(list) - 1 PROVE back[j - (i - 1)] = list[j + 1]
      OBVIOUS
    <3>1. j - (i - 1) \in 1..Len(list) - i /\ i + (j - (i - 1)) = j + 1
      OBVIOUS
    <3> QED BY <2>6, <3>1
  <2> HIDE DEF u
  <2>9. /\ u \in Seq(Thread) /\ Len(u) = Len(list) - 1
        /\ \A j \in 1..i - 1 : u[j] = list[j]
        /\ \A j \in i..Len(u) : u[j] = list[j + 1]
    BY <2>4, <2>7, <2>8
  <2>10. Distinct(u)
    <3> SUFFICES ASSUME NEW a \in 1..Len(u), NEW b \in 1..Len(u), u[a] = u[b] PROVE a = b
      BY DEF Distinct
    <3>1. \A c \in 1..Len(u) : u[c] = list[IF c < i THEN c ELSE c + 1]
      BY <2>9
    <3> DEFINE p(c) == IF c < i THEN c ELSE c + 1
    <3>2. p(a) \in 1..Len(list) /\ p(b) \in 1..Len(list)
      BY <2>9
    <3>3. list[p(a)] = list[p(b)]
      BY <3>1
    <3>4. p(a) = p(b)
      <4> HIDE DEF p
      <4> QED BY <3>2, <3>3 DEF Distinct
    <3> QED BY <3>4
  <2>11. Elements(u) \subseteq Elements(list) \ {t}
    <3> SUFFICES ASSUME NEW c \in 1..Len(u) PROVE u[c] \in Elements(list) \ {t}
      BY DEF Elements
    <3>1. CASE c < i
      <4>1. c \in 1..Len(list) /\ u[c] = list[c] /\ c # i
        BY <2>9, <3>1
      <4> QED BY <2>2, <4>1 DEF Elements
    <3>2. CASE ~(c < i)
      <4>1. c + 1 \in 1..Len(list) /\ u[c] = list[c + 1] /\ c + 1 # i
        BY <2>9, <3>2
      <4> QED BY <2>2, <4>1 DEF Elements
    <3> QED BY <3>1, <3>2
  <2>12. Elements(list) \ {t} \subseteq Elements(u)
    <3> SUFFICES ASSUME NEW c \in 1..Len(list), list[c] # t PROVE list[c] \in Elements(u)
      BY DEF Elements
    <3>1. CASE c < i
      <4>1. c \in 1..Len(u) /\ u[c] = list[c]
        BY <2>9, <3>1
      <4> QED BY <4>1 DEF Elements
    <3>2. CASE ~(c < i)
      <4>1. c # i
        BY <2>1
      <4>2. c - 1 \in i..Len(u) /\ (c - 1) + 1 = c
        BY <2>9, <3>2, <4>1
      <4>3. u[c - 1] = list[(c - 1) + 1]
        BY <2>9, <4>2
      <4>4. c - 1 \in 1..Len(u)
        BY <4>2
      <4> QED BY <4>2, <4>3, <4>4 DEF Elements
    <3> QED BY <3>1, <3>2
  <2> QED BY <2>9, <2>10, <2>11, <2>12 DEF u
<1> QED BY <1>1, <1>2

\* allocate_pid() hands out a pid that is not in use.
LEMMA FreePidIsFree ==
    ASSUME IsFiniteSet(pids)
    PROVE  FreePid \in Nat \ {0} /\ FreePid \notin pids
<1> DEFINE n == Cardinality(pids)
           S == {j \in 1..n + 1 : j \notin pids}
<1>1. n \in Nat
  BY FS_CardinalityType
<1>2. S # {}
  <2> SUFFICES ASSUME 1..n + 1 \subseteq pids PROVE FALSE
    OBVIOUS
  <2>1. Cardinality(1..n + 1) <= n
    BY FS_Subset
  <2>2. Cardinality(1..n + 1) = n + 1
    BY <1>1, FS_Interval
  <2> HIDE DEF n
  <2> QED BY <1>1, <2>1, <2>2
<1>3. PICK j \in S : \A i \in S : j <= i
  <2>1. S \subseteq Nat
    BY <1>1
  <2> HIDE DEF S
  <2> QED BY <1>2, <2>1, LeastNatural
<1>4. \A i \in 1..j - 1 : i \in pids
  <2> SUFFICES ASSUME NEW i \in 1..j - 1, i \notin pids PROVE FALSE
    OBVIOUS
  <2>1. i \in 1..n + 1 /\ ~(j <= i)
    BY <1>1
  <2> QED BY <1>3, <2>1
<1>5. FreePid \in 1..n + 1 /\ FreePid \notin pids
  BY <1>3, <1>4 DEF FreePid
<1> QED BY <1>1, <1>5

----------------------------------------------------------------------------
(***************************************************************************)
(* What the actions need to know of a state that is in order.              *)
(***************************************************************************)

\* The first three PCBs are different ones, and none is a page that fork can get.
LEMMA FirstPCBs ==
    /\ init # main /\ init # idle_thread /\ main # idle_thread
    /\ {init, main, idle_thread} \cap Slot = {}
<1> DEFINE A == {init, main, idle_thread}
<1>a. IsFiniteSet(Thread) /\ Thread = A \cup Slot /\ Cardinality(Thread) = 3 + Cardinality(Slot)
  BY ProcessesAssumption
<1>1. IsFiniteSet(Slot) /\ Cardinality(Slot) \in Nat
  BY <1>a, FS_Subset, FS_CardinalityType
<1>2. \A x, y : IsFiniteSet({x, y}) /\ Cardinality({x, y}) <= 2
  <2> TAKE x, y
  <2>1. IsFiniteSet({x}) /\ Cardinality({x}) = 1
    BY FS_Singleton
  <2>2. {x, y} = {x} \cup {y}
    OBVIOUS
  <2>3. /\ IsFiniteSet({x} \cup {y})
        /\ Cardinality({x} \cup {y}) = IF y \in {x} THEN Cardinality({x}) ELSE Cardinality({x}) + 1
    BY <2>1, FS_AddElement
  <2>4. Cardinality({x} \cup {y}) <= 2
    BY <2>1, <2>3
  <2> QED BY <2>2, <2>3, <2>4
<1>3. IsFiniteSet(A) /\ Cardinality(A) \in Nat /\ Cardinality(A) <= 3
  <2>1. A = {init, main} \cup {idle_thread}
    OBVIOUS
  <2>2. IsFiniteSet({init, main}) /\ Cardinality({init, main}) <= 2
        /\ Cardinality({init, main}) \in Nat
    BY <1>2, FS_CardinalityType
  <2> DEFINE B == {init, main}
  <2>3. /\ IsFiniteSet(B \cup {idle_thread})
        /\ Cardinality(B \cup {idle_thread}) =
             IF idle_thread \in B THEN Cardinality(B) ELSE Cardinality(B) + 1
    BY <2>2, FS_AddElement
  <2>4. Cardinality(B \cup {idle_thread}) \in Nat
    BY <2>3, FS_CardinalityType
  <2>5. A = B \cup {idle_thread}
    OBVIOUS
  <2>6. Cardinality(B) <= 2 /\ Cardinality(B) \in Nat
    BY <2>2
  <2> HIDE DEF A, B
  <2> QED BY <2>3, <2>4, <2>5, <2>6
<1> HIDE DEF A
<1>4. /\ Cardinality(A \cup Slot) = Cardinality(A) + Cardinality(Slot) - Cardinality(A \cap Slot)
      /\ IsFiniteSet(A \cap Slot)
  BY <1>1, <1>3, FS_Union, FS_Intersection
<1>5. Cardinality(A \cap Slot) \in Nat
  BY <1>4, FS_CardinalityType
<1>6. Cardinality(A) = 3 /\ Cardinality(A \cap Slot) = 0
  BY <1>a, <1>1, <1>3, <1>4, <1>5
<1>7. A \cap Slot = {}
  BY <1>4, <1>6, FS_EmptySet
<1>8. \A x, y : A # {x, y}
  <2> SUFFICES ASSUME NEW x, NEW y, A = {x, y} PROVE FALSE
    OBVIOUS
  <2>1. Cardinality({x, y}) <= 2
    BY <1>2
  <2>2. Cardinality({x, y}) = 3
    BY <1>6
  <2> QED BY <2>1, <2>2
<1>9. init # main /\ init # idle_thread /\ main # idle_thread
  <2>1. CASE init = main
    BY <1>8, <2>1 DEF A
  <2>2. CASE init = idle_thread
    BY <1>8, <2>2 DEF A
  <2>3. CASE main = idle_thread
    BY <1>8, <2>3 DEF A
  <2> QED BY <2>1, <2>2, <2>3
<1> QED BY <1>7, <1>9 DEF A

LEMMA OfRunning ==
    ASSUME NEW s, Running(s)
    PROVE  s \in SchedState /\ s.fault = "none" /\ [s EXCEPT !.fault = "none"] = s
  BY DEF Running, InOrder, SchedState

\* While the machine runs, the thread that has the CPU is registered.
LEMMA Executing ==
    ASSUME IInv, k.fault = "none"
    PROVE  Running(k) /\ k.cur \in Elements(all) /\ k.cur \in Thread
<1>1. k \in SchedState /\ Sched = k
  BY DEF IInv, SchedInv, Sched, SchedState
<1>2. Running(k)
  BY <1>1 DEF IInv, SchedInv
<1>3. k.cur \in Thread /\ k.status[k.cur] = "RUNNING"
  BY <1>1, <1>2 DEF Running, SchedState
<1> QED BY <1>2, <1>3 DEF IInv, Registered

LEMMA ProcessThread ==
    ASSUME NEW p \in Process
    PROVE  p \in Thread /\ p # idle_thread /\ p # main /\ (p # init => p \in Slot)
  BY FirstPCBs, ProcessesAssumption DEF Process

\* A step lets nobody exit or die but the threads in moved.
SameFate(moved) ==
    \A t \in Thread \ moved, o \in {"HANGING", "DIED"} : k'.status[t] = o <=> k.status[t] = o

LEMMA Fates ==
    ASSUME IInv, Running(k'), NEW moved, SameOffBut(moved, k, k')
    PROVE  SameFate(moved)
<1>1. k.status[idle_thread] \in {"RUNNING", "READY", "BLOCKED"}
  BY DEF IInv, SchedInv, Running, InOrder, Sched, SchedState
<1>2. k'.status[idle_thread] \in {"RUNNING", "READY", "BLOCKED"}
  BY DEF Running, InOrder
<1> QED BY <1>1, <1>2 DEF SameFate, SameOffBut, Off, Blocked

\* A step that changes the scheduler state only, and in which nobody exits or dies.
LEMMA OnlySched ==
    ASSUME IInv, Running(k'), UNCHANGED <<all, pid, ppid, pids, pcbs>>, SameFate({})
    PROVE  IInv'
<1>1. SchedInv'
  BY OfRunning DEF SchedInv, Sched
<1>2. Registered'
  BY DEF IInv, Registered, SameFate
<1>3. Pids'
  BY DEF IInv, Pids, PidsUnique
<1>4. Parents'
  <2>1. k'.status[init] \notin {"HANGING", "DIED"}
    BY ProcessesAssumption DEF IInv, Parents, SameFate
  <2>2. \A q \in Process : k.status[q] \notin {"HANGING", "DIED"}
                             => k'.status[q] \notin {"HANGING", "DIED"}
    BY ProcessThread DEF SameFate
  <2> QED BY <2>1, <2>2 DEF IInv, Parents
<1> QED BY <1>1, <1>2, <1>3, <1>4 DEF IInv

----------------------------------------------------------------------------
(***************************************************************************)
(* fork().                                                                 *)
(***************************************************************************)
LEMMA ForkKeepsSched ==
    ASSUME IInv, NEW p \in Process, NEW c \in Slot, ForkSucceeds(p, c)
    PROVE  /\ Running(k')
           /\ k'.status = [k.status EXCEPT ![c] = "READY"]
           /\ c \in Thread /\ c \notin Elements(all)
<1>1. Running(k) /\ k \in SchedState
  BY Executing, OfRunning DEF ForkSucceeds, Runs
<1>2. c \in Thread /\ c # idle_thread /\ c \notin Elements(all) /\ Priority[c] \in Nat
  BY FirstPCBs, ProcessesAssumption, ThreadsAssumption DEF ForkSucceeds, IInv, Registered
<1>3. k.status[c] = "DIED" /\ c \notin Elements(k.ready)
  BY <1>1, <1>2 DEF IInv, Registered, Running, InOrder
<1>4. k' = [k EXCEPT !.ready = Append(@, c), !.status[c] = "READY", !.ticks[c] = Priority[c]]
  BY DEF ForkSucceeds
<1>5. /\ k'.ready = Append(k.ready, c) /\ k'.status = [k.status EXCEPT ![c] = "READY"]
      /\ k'.cur = k.cur /\ k'.fault = k.fault
  BY <1>1, <1>4 DEF SchedState
<1>6. k.ready \in Seq(Thread)
  BY <1>1 DEF SchedState
<1>7. /\ Append(k.ready, c) \in Seq(Thread) /\ Distinct(Append(k.ready, c))
      /\ Elements(Append(k.ready, c)) = Elements(k.ready) \cup {c}
  BY <1>1, <1>2, <1>3, <1>6, AppendElements DEF Running, InOrder
<1>8. k' \in SchedState
  <2>1. [k EXCEPT !.ready = Append(k.ready, c), !.status[c] = "READY",
                  !.ticks[c] = Priority[c]] \in SchedState
    BY <1>1, <1>2, <1>7 DEF SchedState, Status
  <2> QED BY <1>4, <2>1
<1>9. \A t \in Thread : k'.status[t] = IF t = c THEN "READY" ELSE k.status[t]
  BY <1>1, <1>5 DEF SchedState
<1>10. InOrder(k')
  BY <1>1, <1>2, <1>5, <1>7, <1>8, <1>9, ThreadsAssumption DEF Running, InOrder
<1>11. Running(k')
  BY <1>1, <1>3, <1>5, <1>9, <1>10 DEF Running
<1> QED BY <1>2, <1>5, <1>11

LEMMA ForkKeeps ==
    ASSUME IInv, NEW p \in Process, NEW c \in Slot, ForkSucceeds(p, c)
    PROVE  IInv'
<1>1. /\ Running(k') /\ c \in Thread /\ c \notin Elements(all)
      /\ k'.status = [k.status EXCEPT ![c] = "READY"]
  BY ForkKeepsSched
<1>2. /\ Running(k) /\ p \in Elements(all) /\ p \in Thread
      /\ k.status[p] = "RUNNING" /\ k \in SchedState
  BY Executing, OfRunning DEF ForkSucceeds, Runs, Running
<1>3. \A t \in Thread : k'.status[t] = IF t = c THEN "READY" ELSE k.status[t]
  BY <1>1, <1>2 DEF SchedState
<1>4. /\ all' \in Seq(Thread) /\ Distinct(all') /\ Elements(all') = Elements(all) \cup {c}
  BY <1>1, AppendElements DEF ForkSucceeds, IInv, Registered
<1>5. FreePid \in Nat \ {0} /\ FreePid \notin pids
  BY FreePidIsFree DEF IInv, Pids
<1>6. SchedInv'
  BY <1>1, OfRunning DEF SchedInv, Sched
<1>7. Registered'
  <2>1. pcbs' \subseteq Thread /\ Elements(all') \subseteq pcbs'
    BY <1>1, <1>4 DEF ForkSucceeds, IInv, Registered
  <2>2. \A t \in Thread : t \in Elements(all') <=> k'.status[t] # "DIED"
    BY <1>3, <1>4 DEF IInv, Registered
  <2> QED BY <1>4, <2>1, <2>2 DEF Registered
<1>8. /\ \A t \in Thread : pid'[t] = IF t = c THEN FreePid ELSE pid[t]
      /\ pid' \in [Thread -> Nat]
  BY <1>5 DEF ForkSucceeds, IInv, Pids
<1>9. Elements(all) \subseteq Thread /\ init \in Elements(all)
  BY <1>2, ProcessesAssumption DEF IInv, Registered, Parents, Elements
<1>10. Pids'
  <2>1. pids' = pids \cup {FreePid} /\ IsFiniteSet(pids') /\ pids' \in SUBSET (Nat \ {0})
    <3>1. pids' = pids \cup {FreePid} /\ IsFiniteSet(pids) /\ pids \in SUBSET (Nat \ {0})
      BY DEF ForkSucceeds, IInv, Pids
    <3> QED BY <1>5, <3>1, FS_AddElement
  <2>a. \A v \in Elements(all) : /\ v \in Thread /\ v # c /\ pid'[v] = pid[v]
                                  /\ pid[v] \in pids /\ pid'[v] # FreePid
    BY <1>1, <1>5, <1>8, <1>9 DEF IInv, Pids, PidsUnique
  <2>b. pid'[c] = FreePid
    BY <1>1, <1>8
  <2>2. \A t \in Elements(all') : pid'[t] \in pids'
    BY <1>4, <2>1, <2>a, <2>b
  <2>3. \A t, u \in Elements(all') : pid'[t] = pid'[u] => t = u
    <3> SUFFICES ASSUME NEW t \in Elements(all'), NEW u \in Elements(all'), pid'[t] = pid'[u]
                 PROVE  t = u
      OBVIOUS
    <3> QED BY <1>4, <2>a, <2>b DEF IInv, Pids, PidsUnique
  <2>4. pid'[init] = 1
    BY <1>1, <1>8, <1>9 DEF IInv, Pids
  <2> QED BY <1>8, <2>1, <2>2, <2>3, <2>4 DEF Pids, PidsUnique
<1>11. \A t \in Thread : ppid'[t] = IF t = c THEN pid[p] ELSE ppid[t]
  BY DEF ForkSucceeds, IInv, Parents
<1>12. Parents'
  <2>1. ppid' \in [Thread -> Nat \cup {-1}]
    BY <1>2 DEF ForkSucceeds, IInv, Pids, Parents
  <2>2. k'.status[init] \notin {"HANGING", "DIED"}
    BY <1>3, <1>9 DEF IInv, Parents
  <2>3. ASSUME NEW t \in Elements(all') \cap Slot
        PROVE  \E q \in Elements(all') \cap Process :
                 q # t /\ pid'[q] = ppid'[t] /\ k'.status[q] \notin {"HANGING", "DIED"}
    <3>1. CASE t = c
      <4>1. p \in Elements(all') /\ p # t /\ pid'[p] = ppid'[t] /\ k'.status[p] = "RUNNING"
        BY <1>1, <1>2, <1>3, <1>4, <1>8, <1>11, <3>1
      <4> QED BY <4>1
    <3>2. CASE t # c
      <4>1. PICK q \in Elements(all) \cap Process :
              q # t /\ pid[q] = ppid[t] /\ k.status[q] \notin {"HANGING", "DIED"}
        BY <1>4, <3>2 DEF IInv, Parents
      <4>2. /\ q \in Elements(all') /\ pid'[q] = pid[q] /\ ppid'[t] = ppid[t]
            /\ k'.status[q] = k.status[q]
        BY <1>1, <1>3, <1>4, <1>8, <1>9, <1>11, <3>2, <4>1
      <4> QED BY <4>1, <4>2
    <3> QED BY <3>1, <3>2
  <2> QED BY <2>1, <2>2, <2>3 DEF Parents
<1> QED BY <1>6, <1>7, <1>10, <1>12 DEF IInv

LEMMA ForkFailsKeeps ==
    ASSUME IInv, NEW p \in Process, ForkFails(p)
    PROVE  IInv'
<1>1. SchedInv' /\ Parents'
  BY DEF ForkFails, IInv, SchedInv, Sched, Parents
<1>2. Registered'
  BY ProcessesAssumption DEF ForkFails, IInv, Registered
<1>3. Pids'
  <2>1. FreePid \in Nat \ {0}
    BY FreePidIsFree DEF IInv, Pids
  <2>2. /\ pids \subseteq pids' /\ IsFiniteSet(pids') /\ pids' \in SUBSET (Nat \ {0})
        /\ pid' = pid /\ all' = all
    BY <2>1, FS_AddElement DEF ForkFails, IInv, Pids
  <2> QED BY <2>2 DEF IInv, Pids, PidsUnique
<1> QED BY <1>1, <1>2, <1>3 DEF IInv

----------------------------------------------------------------------------
(***************************************************************************)
(* exit().                                                                 *)
(***************************************************************************)

\* The parent that sys_exit() looks for is there, is one process, and has not
\* exited, so neither of its ASSERTs fires.
LEMMA ParentFound ==
    ASSUME IInv, NEW p \in Elements(all) \cap Slot
    PROVE  \E q \in Elements(all) \cap Process :
             /\ pid2thread(ppid[p]) = {q} /\ q # p /\ pid[q] = ppid[p]
             /\ k.status[q] \notin {"HANGING", "DIED"} /\ ppid[p] # -1
<1>1. PICK q \in Elements(all) \cap Process :
        q # p /\ pid[q] = ppid[p] /\ k.status[q] \notin {"HANGING", "DIED"}
  BY DEF IInv, Parents
<1>2. q \in Thread /\ pid[q] \in Nat
  BY <1>1, ProcessThread DEF IInv, Pids
<1> DEFINE S == {t \in Thread : pid[t] = ppid[p]}
<1>3. S \cap Elements(all) = {q}
  BY <1>1, <1>2 DEF IInv, Pids, PidsUnique
<1>4. FirstOf(S) \subseteq {q} /\ FirstOf(S) # {}
  <2>1. all \in Seq(Thread)
    BY DEF IInv, Registered
  <2> HIDE DEF S
  <2> QED BY <1>3, <2>1, FirstOfFound
<1>5. pid2thread(ppid[p]) = {q}
  BY <1>4 DEF pid2thread
<1> QED BY <1>1, <1>2, <1>5

\* The scheduler state after exit(): the process hangs, its parent may have been
\* woken, and for everybody else nothing has changed.
LEMMA ExitKeepsSched ==
    ASSUME IInv, NEW p \in Process, sys_exit(p)
    PROVE  /\ Running(k') /\ p \in Elements(all) \cap Slot
           /\ k'.status[p] = "HANGING"
           /\ SameFate({p})
<1>1. /\ Running(k) /\ k \in SchedState /\ k.fault = "none" /\ p = k.cur
      /\ p \in Elements(all) /\ p \in Thread /\ p # idle_thread /\ p \in Slot
  BY Executing, OfRunning, ProcessThread DEF sys_exit, Runs
<1>2. PICK q \in Elements(all) \cap Process :
        /\ pid2thread(ppid[p]) = {q} /\ q # p /\ pid[q] = ppid[p]
        /\ k.status[q] \notin {"HANGING", "DIED"} /\ ppid[p] # -1
  BY <1>1, ParentFound
<1>3. q \in Thread /\ q # idle_thread
  BY ProcessThread
<1> DEFINE w == IF k.status[q] = "WAITING" THEN thread_unblock(k, q) ELSE k
<1>4. k' = thread_block(w, "HANGING")
  <2>1. (CHOOSE x \in {q} : TRUE) = q
    OBVIOUS
  <2>2. Check(Check(k, ppid[p] # -1, "wait_exit.c:129"), {q} # {}, "wait_exit.c:137") = k
    BY <1>2 DEF Check
  <2> QED BY <1>2, <2>1, <2>2 DEF sys_exit
<1>5. /\ Running(w) /\ w.cur = p
      /\ \A t \in Thread, o \in {"HANGING", "DIED"} : w.status[t] = o <=> k.status[t] = o
  <2>1. CASE k.status[q] # "WAITING"
    BY <1>1, <2>1
  <2>2. CASE k.status[q] = "WAITING"
    <3>1. w = thread_unblock(k, q)
      BY <2>2
    <3>2. InOrder(w) /\ w.cur = k.cur /\ w.status = [k.status EXCEPT ![q] = "READY"]
      BY <1>1, <1>3, <2>2, <3>1, UnblockKeeps DEF Running, Blocked
    <3> HIDE DEF w
    <3>3. \A t \in Thread : w.status[t] = IF t = q THEN "READY" ELSE k.status[t]
      BY <1>1, <3>2 DEF SchedState
    <3> QED BY <1>1, <1>2, <2>2, <3>2, <3>3 DEF Running
  <2> QED BY <2>1, <2>2
<1> HIDE DEF w
<1>6. Running(k') /\ SameOffBut({p}, w, k') /\ k'.status[p] = "HANGING"
  BY <1>1, <1>4, <1>5, BlockKeeps DEF Blocked
<1>7. \A t \in Thread \ {p}, o \in {"HANGING", "DIED"} : k'.status[t] = o <=> w.status[t] = o
  BY <1>5, <1>6 DEF Running, InOrder, SameOffBut, Off, Blocked
<1> QED BY <1>1, <1>5, <1>6, <1>7 DEF SameFate

LEMMA ExitKeeps ==
    ASSUME IInv, NEW p \in Process, sys_exit(p)
    PROVE  IInv'
<1>1. /\ Running(k') /\ p \in Elements(all) \cap Slot
      /\ k'.status[p] = "HANGING"
      /\ SameFate({p})
  BY ExitKeepsSched
<1>2. /\ p \in Thread /\ p # init /\ init \in Thread
      /\ UNCHANGED <<all, pid, pids, pcbs>>
      /\ ppid' = [t \in Thread |-> IF t \in Elements(all) /\ ppid[t] = pid[p] THEN 1 ELSE ppid[t]]
  BY ProcessThread, ProcessesAssumption DEF sys_exit
<1>3. SchedInv'
  BY <1>1, OfRunning DEF SchedInv, Sched
<1>4. Registered'
  <2>1. k.status[p] # "DIED"
    BY <1>1, <1>2 DEF IInv, Registered
  <2> QED BY <1>1, <1>2, <2>1 DEF IInv, Registered, SameFate
<1>5. Pids'
  BY <1>2 DEF IInv, Pids, PidsUnique
<1>6. init \in Elements(all) /\ pid[init] = 1 /\ k'.status[init] \notin {"HANGING", "DIED"}
  BY <1>1, <1>2 DEF IInv, Registered, Parents, Pids, SameFate
<1>7. Parents'
  <2>1. ppid' \in [Thread -> Nat \cup {-1}]
    BY <1>2 DEF IInv, Parents
  <2>2. ASSUME NEW t \in Elements(all) \cap Slot
        PROVE  \E q \in Elements(all) \cap Process :
                 q # t /\ pid[q] = ppid'[t] /\ k'.status[q] \notin {"HANGING", "DIED"}
    <3>1. t \in Thread /\ t # init /\ init \in Process
      BY FirstPCBs, ProcessesAssumption DEF Process
    <3>2. CASE ppid[t] = pid[p]
      <4>1. ppid'[t] = 1
        BY <1>2, <3>1, <3>2
      <4> QED BY <1>6, <3>1, <4>1
    <3>3. CASE ppid[t] # pid[p]
      <4>1. PICK q \in Elements(all) \cap Process :
              q # t /\ pid[q] = ppid[t] /\ k.status[q] \notin {"HANGING", "DIED"}
        BY DEF IInv, Parents
      <4>2. q # p /\ q \in Thread /\ ppid'[t] = ppid[t]
        BY <1>2, <3>1, <3>3, <4>1, ProcessThread
      <4>3. k'.status[q] \notin {"HANGING", "DIED"}
        BY <1>1, <4>1, <4>2 DEF SameFate
      <4> QED BY <4>1, <4>2, <4>3
    <3> QED BY <3>2, <3>3
  <2> QED BY <1>2, <1>6, <2>1, <2>2 DEF Parents
<1> QED BY <1>3, <1>4, <1>5, <1>7 DEF IInv

----------------------------------------------------------------------------
(***************************************************************************)
(* thread_exit(), of a process that has been waited for and of main.       *)
(***************************************************************************)

\* A thread that leaves thread_all_list with its pid, and was nobody's parent.
LEMMA UnregisterKeeps ==
    ASSUME IInv, NEW c \in Elements(all), c # init,
           c \in Process => k.status[c] = "HANGING",
           Running(k'), k'.status[c] = "DIED",
           SameFate({c}),
           all' = RemoveFirst(all, c), pids' = pids \ {pid[c]},
           pid' = [pid EXCEPT ![c] = 0], ppid' = ppid \/ ppid' = [ppid EXCEPT ![c] = -1],
           pcbs' = pcbs \/ pcbs' = pcbs \ {c}
    PROVE  IInv'
<1>1. Elements(all) \subseteq Thread /\ c \in Thread
  BY DEF IInv, Registered, Elements
<1>2. all' \in Seq(Thread) /\ Distinct(all') /\ Elements(all') = Elements(all) \ {c}
  BY <1>1, RemoveElements DEF IInv, Registered
<1>3. SchedInv'
  BY OfRunning DEF SchedInv, Sched
<1>4. Registered'
  BY <1>1, <1>2 DEF IInv, Registered, SameFate
<1>5. /\ pid' \in [Thread -> Nat] /\ pids' \in SUBSET (Nat \ {0}) /\ IsFiniteSet(pids')
      /\ \A t \in Thread : pid'[t] = IF t = c THEN 0 ELSE pid[t]
  <2>1. IsFiniteSet(pids \ {pid[c]})
    BY FS_RemoveElement DEF IInv, Pids
  <2> QED BY <1>1, <2>1 DEF IInv, Pids
<1>6. \A t \in Elements(all') : /\ t \in Thread /\ t # c /\ t \in Elements(all)
                                /\ pid'[t] = pid[t] /\ pid[t] \in pids'
  BY <1>1, <1>2, <1>5 DEF IInv, Pids, PidsUnique
<1>7. init \in Thread /\ init \in Elements(all')
  BY <1>2, ProcessesAssumption DEF IInv, Registered, Parents
<1>8. Pids'
  BY <1>5, <1>6, <1>7 DEF IInv, Pids, PidsUnique
<1>9. Parents'
  <2>1. /\ ppid' \in [Thread -> Nat \cup {-1}]
        /\ \A t \in Thread \ {c} : ppid'[t] = ppid[t]
    BY DEF IInv, Parents
  <2>2. k'.status[init] \notin {"HANGING", "DIED"}
    BY <1>7 DEF IInv, Parents, SameFate
  <2>3. ASSUME NEW t \in Elements(all') \cap Slot
        PROVE  \E q \in Elements(all') \cap Process :
                 q # t /\ pid'[q] = ppid'[t] /\ k'.status[q] \notin {"HANGING", "DIED"}
    <3>1. PICK q \in Elements(all) \cap Process :
            q # t /\ pid[q] = ppid[t] /\ k.status[q] \notin {"HANGING", "DIED"}
      BY <1>6 DEF IInv, Parents
    <3>2. q # c /\ q \in Thread /\ q \in Elements(all')
      BY <1>1, <1>2, <3>1
    <3>3. pid'[q] = pid[q] /\ ppid'[t] = ppid[t] /\ k'.status[q] \notin {"HANGING", "DIED"}
      BY <1>6, <2>1, <3>1, <3>2 DEF SameFate
    <3> QED BY <3>1, <3>2, <3>3
  <2> QED BY <2>1, <2>2, <2>3 DEF Parents
<1> QED BY <1>3, <1>4, <1>8, <1>9 DEF IInv

LEMMA WaitReapsKeeps ==
    ASSUME IInv, NEW p \in Process, WaitReaps(p)
    PROVE  /\ IInv'
           /\ \E c \in Thread : k.status[c] = "HANGING" /\ k'.status[c] = "DIED" /\ SameFate({c})
<1>1. PICK c \in find_hanging_child(pid[p]) :
        /\ Runs(p, "user") \/ Runs(p, "wait")
        /\ k' = [k EXCEPT !.ready = RemoveFirst(@, c), !.status[c] = "DIED"]
        /\ all' = RemoveFirst(all, c) /\ pcbs' = pcbs \ {c} /\ pids' = pids \ {pid[c]}
        /\ pid' = [pid EXCEPT ![c] = 0] /\ ppid' = [ppid EXCEPT ![c] = -1]
  BY DEF WaitReaps
<1>2. Running(k) /\ k \in SchedState
  BY <1>1, Executing, OfRunning DEF Runs
<1>3. c \in Elements(all) /\ c \in Thread /\ k.status[c] = "HANGING"
  <2> DEFINE S == {t \in Thread : ppid[t] = pid[p] /\ k.status[t] = "HANGING"}
  <2>1. c \in FirstOf(S)
    BY <1>1 DEF find_hanging_child
  <2>2. FirstOf(S) \subseteq S \cap Elements(all)
    <3>1. all \in Seq(Thread)
      BY DEF IInv, Registered
    <3> HIDE DEF S
    <3> QED BY <3>1, FirstOfFound
  <2> QED BY <2>1, <2>2
<1>4. c # init /\ c # idle_thread /\ c # k.cur /\ c \notin Elements(k.ready)
  BY <1>2, <1>3 DEF IInv, Parents, Running, InOrder
<1>5. k' = [k EXCEPT !.status[c] = "DIED"]
  <2>1. RemoveFirst(k.ready, c) = k.ready
    BY <1>4 DEF RemoveFirst, Elements
  <2> QED BY <1>1, <1>2, <2>1 DEF SchedState
<1>6. /\ k' \in SchedState /\ k'.ready = k.ready /\ k'.cur = k.cur /\ k'.fault = k.fault
      /\ \A t \in Thread : k'.status[t] = IF t = c THEN "DIED" ELSE k.status[t]
  BY <1>2, <1>3, <1>5 DEF SchedState, Status
<1>7. Running(k')
  BY <1>2, <1>3, <1>4, <1>6, ThreadsAssumption DEF Running, InOrder
<1>8. SameFate({c}) /\ k'.status[c] = "DIED"
  BY <1>3, <1>6 DEF SameFate
<1> QED BY <1>1, <1>3, <1>4, <1>7, <1>8, UnregisterKeeps

LEMMA MainExitsKeeps ==
    ASSUME IInv, MainExits
    PROVE  IInv' /\ SameFate({main}) /\ k'.status[main] = "DIED"
<1>1. /\ Running(k) /\ k.cur = main /\ main \in Elements(all) /\ main \in Thread
      /\ main # init /\ main # idle_thread /\ main \notin Process
  BY Executing, FirstPCBs DEF MainExits, Runs, Process
<1>2. k' = schedule([k EXCEPT !.status[k.cur] = "DIED"])
  BY <1>1 DEF MainExits
<1>3. Running(k') /\ SameOffBut({main}, k, k') /\ k'.status[main] = "DIED"
  BY <1>1, <1>2, LeaveKeeps DEF Off
<1>4. SameFate({main})
  BY <1>3, Fates
<1> QED BY <1>1, <1>3, <1>4, UnregisterKeeps DEF MainExits

----------------------------------------------------------------------------
(***************************************************************************)
(* The other steps of wait(), the idle thread and the timer.               *)
(***************************************************************************)
LEMMA WaitBlocksKeeps ==
    ASSUME IInv, NEW p \in Process, WaitBlocks(p)
    PROVE  IInv' /\ SameFate({})
<1>1. Running(k) /\ k.cur = p /\ p \in Thread /\ p # idle_thread
  BY Executing, ProcessThread DEF WaitBlocks, Runs
<1>2. k' = thread_block(k, "WAITING") /\ UNCHANGED <<all, pid, ppid, pids, pcbs>>
  BY DEF WaitBlocks
<1>3. Running(k') /\ SameOffBut({p}, k, k') /\ k'.status[p] = "WAITING"
  BY <1>1, <1>2, BlockKeeps DEF Blocked
<1>4. SameFate({p})
  BY <1>3, Fates
<1>5. k.status[p] = "RUNNING"
  BY <1>1 DEF Running
<1>6. SameFate({})
  BY <1>3, <1>4, <1>5 DEF SameFate
<1> QED BY <1>2, <1>3, <1>6, OnlySched

LEMMA ReapFaultsKeeps ==
    ASSUME IInv, NEW p \in Process, ReapFaults(p)
    PROVE  IInv' /\ SameFate({})
<1>1. /\ k \in SchedState /\ k.fault = "none" /\ k' = [k EXCEPT !.fault = "thread.c:321"]
      /\ UNCHANGED <<all, pid, ppid, pids, pcbs>>
  BY DEF ReapFaults, Runs, Panic, IInv, SchedInv
<1>2. k' \in SchedState /\ Sched' = Sched /\ k'.fault = "thread.c:321" /\ k'.status = k.status
  BY <1>1 DEF SchedState, Site, Sched
<1>3. SchedInv'
  BY <1>2 DEF IInv, SchedInv
<1> QED BY <1>1, <1>2, <1>3 DEF IInv, Registered, Pids, PidsUnique, Parents, SameFate

LEMMA IdleBlockKeeps ==
    ASSUME IInv, IdleBlock
    PROVE  IInv' /\ SameFate({})
<1>1. Running(k) /\ k.cur = idle_thread
  BY Executing DEF IdleBlock, Runs
<1>2. k' = thread_block(k, "BLOCKED") /\ UNCHANGED <<all, pid, ppid, pids, pcbs>>
  BY DEF IdleBlock
<1>3. Running(k') /\ SameOffBut({idle_thread}, k, k')
  BY <1>1, <1>2, BlockKeeps DEF Blocked
<1>4. SameOffBut({}, k, k')
  BY <1>3 DEF SameOffBut
<1>5. SameFate({})
  BY <1>3, <1>4, Fates
<1> QED BY <1>2, <1>3, <1>5, OnlySched

LEMMA TimerKeepsInv ==
    ASSUME IInv, Timer
    PROVE  IInv' /\ SameFate({})
<1>1. /\ Running(k) /\ k' = intr_timer_handler(k)
      /\ UNCHANGED <<all, pid, ppid, pids, pcbs>>
  BY Executing DEF Timer
<1>2. Running(k') /\ SameOffBut({}, k, k')
  BY <1>1, TimerKeeps DEF SameOff
<1>3. SameFate({})
  BY <1>2, Fates
<1> QED BY <1>1, <1>2, <1>3, OnlySched

----------------------------------------------------------------------------
LEMMA InitIInv == Init => IInv
<1> SUFFICES ASSUME Init PROVE IInv
  OBVIOUS
<1>a. /\ init \in Thread /\ main \in Thread /\ idle_thread \in Thread
      /\ init # main /\ init # idle_thread /\ main # idle_thread
      /\ Slot \cap {init, main, idle_thread} = {}
      /\ Thread = {init, main, idle_thread} \cup Slot /\ Priority \in [Thread -> Nat]
  BY FirstPCBs, ProcessesAssumption, ThreadsAssumption
<1>1. /\ k.cur = main /\ k.ready = <<init, idle_thread>> /\ k.fault = "none"
      /\ k.status \in [Thread -> Status] /\ k.ticks = Priority
      /\ \A t \in Thread : k.status[t] = CASE t = main -> "RUNNING"
                                           [] t \in {init, idle_thread} -> "READY"
                                           [] OTHER -> "DIED"
  BY <1>a DEF Init, Status
<1>2. k \in SchedState
  BY <1>a, <1>1 DEF Init, SchedState
<1>3. Elements(k.ready) = {init, idle_thread} /\ Distinct(k.ready)
  BY <1>a, <1>1 DEF Elements, Distinct
<1>4. Running(k)
  BY <1>a, <1>1, <1>2, <1>3 DEF Running, InOrder
<1>5. SchedInv
  BY <1>4, OfRunning DEF SchedInv, Sched
<1>6. all = <<init, main, idle_thread>> /\ all \in Seq(Thread)
  BY <1>a DEF Init
<1>7. Elements(all) = {init, main, idle_thread} /\ Distinct(all)
  BY <1>a, <1>6 DEF Elements, Distinct
<1>8. Registered
  BY <1>a, <1>1, <1>6, <1>7 DEF Init, Registered
<1>9. /\ pid \in [Thread -> Nat] /\ pid[init] = 1 /\ pid[main] = 2 /\ pid[idle_thread] = 3
      /\ pids = {1, 2, 3}
  BY <1>a DEF Init
<1>10. IsFiniteSet(pids)
  <2>1. pids = 1..3
    BY <1>9
  <2>2. \A a, b \in Int : IsFiniteSet(a..b)
    BY FS_Interval
  <2>3. 1 \in Int /\ 3 \in Int
    OBVIOUS
  <2>4. IsFiniteSet(1..3)
    BY <2>2, <2>3, Zenon
  <2> QED BY <2>1, <2>4
<1>11. Pids
  BY <1>7, <1>9, <1>10 DEF Pids, PidsUnique
<1>12. Parents
  BY <1>a, <1>1, <1>7 DEF Init, Parents
<1> QED BY <1>5, <1>8, <1>11, <1>12 DEF IInv

LEMMA NextIInv == IInv /\ [Next]_vars => IInv'
<1> SUFFICES ASSUME IInv, [Next]_vars PROVE IInv'
  OBVIOUS
<1>1. ASSUME NEW p \in Process, sys_fork(p) PROVE IInv'
  BY <1>1, ForkKeeps, ForkFailsKeeps DEF sys_fork
<1>2. ASSUME NEW p \in Process, sys_exit(p) PROVE IInv'
  BY <1>2, ExitKeeps
<1>3. ASSUME NEW p \in Process, sys_wait(p) PROVE IInv'
  <2>1. CASE WaitNoChild(p)
    BY <2>1 DEF WaitNoChild, IInv, SchedInv, Sched, Registered, Pids, PidsUnique, Parents
  <2> QED BY <1>3, <2>1, WaitReapsKeeps, WaitBlocksKeeps, ReapFaultsKeeps DEF sys_wait
<1>4. CASE MainExits \/ IdleBlock \/ Timer
  BY <1>4, MainExitsKeeps, IdleBlockKeeps, TimerKeepsInv
<1>5. CASE UNCHANGED vars
  BY <1>5 DEF vars, IInv, SchedInv, Sched, Registered, Pids, PidsUnique, Parents
<1> QED BY <1>1, <1>2, <1>3, <1>4, <1>5 DEF Next

LEMMA AlwaysIInv == Spec => []IInv
<1>1. Init => IInv
  BY InitIInv
<1>2. IInv /\ [Next]_vars => IInv'
  BY NextIInv
<1> QED BY <1>1, <1>2, PTL DEF Spec

----------------------------------------------------------------------------
(***************************************************************************)
(* Pages of the kernel pool: what fork() takes covers what exit() and      *)
(* wait() give back, so there are never more free pages than at the start. *)
(***************************************************************************)
Living == {t \in Slot : k.status[t] \notin {"HANGING", "DIED"}}
Hanging == {t \in Slot : k.status[t] = "HANGING"}

\* A living process holds at least two pages and the pages of its bitmap that exit()
\* releases; one that hangs holds two.
PagesInv ==
    /\ \A t \in Thread : k.status[t] = "HANGING" => t \in Slot
    /\ free \in Nat
    /\ free + (2 + BitmapPagesReleased) * Cardinality(Living) + 2 * Cardinality(Hanging)
         <= KernelPages

\* exit() rounds down where fork() rounds up.
LEMMA BitmapPages ==
    /\ BitmapPagesReleased \in Nat /\ BitmapPagesAllocated \in Nat
    /\ BitmapPagesReleased <= BitmapPagesAllocated
<1> DEFINE n == PG_SIZE
           q == BtmpLen \div n
           u == (BtmpLen + n - 1) \div n
<1>1. n \in Nat /\ n > 0 /\ BtmpLen \in Nat
  BY ProcessesAssumption
<1> HIDE DEF n
<1>2. q \in Nat /\ n * q <= BtmpLen
  BY <1>1
<1>3. u \in Nat /\ BtmpLen + n - 1 < n * u + n
  BY <1>1
<1> HIDE DEF q, u
<1>4. n * q < n * u + n
  <2>1. n * q \in Nat /\ n * u \in Nat
    BY <1>1, <1>2, <1>3
  <2> QED BY <1>1, <1>2, <1>3, <2>1
<1>5. q <= u
  <2> SUFFICES ASSUME q >= u + 1 PROVE FALSE
    BY <1>2, <1>3
  <2>1. n * q >= n * (u + 1)
    BY <1>1, <1>2, <1>3
  <2>2. n * (u + 1) = n * u + n
    BY <1>1, <1>3
  <2>3. n * q \in Nat /\ n * u \in Nat
    BY <1>1, <1>2, <1>3
  <2> QED BY <1>1, <1>4, <2>1, <2>2, <2>3
<1> QED BY <1>2, <1>3, <1>5 DEF q, u, n, BitmapPagesReleased, BitmapPagesAllocated

LEMMA Counted ==
    /\ IsFiniteSet(Living) /\ Cardinality(Living) \in Nat
    /\ IsFiniteSet(Hanging) /\ Cardinality(Hanging) \in Nat
<1>1. IsFiniteSet(Slot)
  BY ProcessesAssumption, FS_Subset
<1>2. Living \subseteq Slot /\ Hanging \subseteq Slot
  BY DEF Living, Hanging
<1> QED BY <1>1, <1>2, FS_Subset, FS_CardinalityType

\* A step that ends nobody's life gives back no page.
LEMMA PagesSame ==
    ASSUME PagesInv, NEW moved, SameFate(moved), moved \cap Slot = {},
           \A t \in moved : k'.status[t] # "HANGING",
           free' \in Nat, free' <= free
    PROVE  PagesInv'
<1>1. Slot \subseteq Thread
  BY ProcessesAssumption
<1>2. Living' = Living /\ Hanging' = Hanging
  BY <1>1 DEF SameFate, Living, Hanging
<1>3. /\ (2 + BitmapPagesReleased) * Cardinality(Living) \in Nat
      /\ 2 * Cardinality(Hanging) \in Nat
  BY Counted, BitmapPages
<1>4. BitmapPagesReleased' = BitmapPagesReleased
  BY DEF BitmapPagesReleased
<1>5. /\ free' \in Nat
      /\ free' + (2 + BitmapPagesReleased) * Cardinality(Living) + 2 * Cardinality(Hanging)
           <= KernelPages
  <2> DEFINE a == (2 + BitmapPagesReleased) * Cardinality(Living)
             b == 2 * Cardinality(Hanging)
  <2>1. a \in Nat /\ b \in Nat /\ free \in Nat /\ free + a + b <= KernelPages
    BY <1>3 DEF PagesInv
  <2>2. free' \in Nat /\ free' <= free /\ KernelPages \in Nat
    BY ProcessesAssumption
  <2> HIDE DEF a, b
  <2>a. \A x, y, u, v, m \in Nat : y <= x /\ x + u + v <= m => y + u + v <= m
    OBVIOUS
  <2>3. free' + a + b <= KernelPages
    BY <2>1, <2>2, <2>a
  <2> QED BY <2>2, <2>3 DEF a, b
<1>6. \A t \in Thread : k'.status[t] = "HANGING" => t \in Slot
  BY DEF SameFate, PagesInv
<1> QED BY <1>2, <1>4, <1>5, <1>6 DEF PagesInv

LEMMA PagesFork ==
    ASSUME IInv, PagesInv, NEW p \in Process, NEW c \in Slot, ForkSucceeds(p, c)
    PROVE  PagesInv'
<1> DEFINE r == BitmapPagesReleased
           n == Cardinality(Living)
           b == 2 * Cardinality(Hanging)
<1>1. /\ c \in Thread /\ c \notin Elements(all) /\ k \in SchedState
      /\ k'.status = [k.status EXCEPT ![c] = "READY"]
  BY ForkKeepsSched DEF IInv, SchedInv
<1>2. \A t \in Thread : k'.status[t] = IF t = c THEN "READY" ELSE k.status[t]
  BY <1>1 DEF SchedState
<1>3. k.status[c] = "DIED"
  BY <1>1 DEF IInv, Registered
<1>4. Slot \subseteq Thread
  BY ProcessesAssumption
<1>5. Living' = Living \cup {c} /\ Hanging' = Hanging /\ c \notin Living
  BY <1>2, <1>3, <1>4 DEF Living, Hanging
<1>6. Cardinality(Living') = n + 1 /\ n \in Nat /\ b \in Nat
  <2>1. Cardinality(Living \cup {c}) = n + 1
    BY <1>5, Counted, FS_AddElement
  <2> QED BY <1>5, <2>1, Counted
<1>7. r \in Nat /\ r <= BitmapPagesAllocated /\ BitmapPagesAllocated \in Nat
  BY BitmapPages
<1>8. /\ free \in Nat /\ free' = free - 2 - BitmapPagesAllocated /\ free' \in Nat
      /\ free + (2 + r) * n + b <= KernelPages /\ KernelPages \in Nat
  BY <1>7, ProcessesAssumption DEF ForkSucceeds, ForkCost, PagesInv
<1>9. r' = r
  BY DEF BitmapPagesReleased
<1>10. b' = b
  BY <1>5
<1>11. (2 + r) * (n + 1) = (2 + r) * n + 2 + r /\ (2 + r) * n \in Nat
  BY <1>6, <1>7
<1>12. \A t \in Thread : k'.status[t] = "HANGING" => t \in Slot
  BY <1>2 DEF PagesInv
<1> HIDE DEF r, n, b
<1>13. free' + (2 + r) * (n + 1) + b <= KernelPages
  <2> DEFINE m == (2 + r) * n
  <2>1. m \in Nat /\ (2 + r) * (n + 1) = m + 2 + r /\ free + m + b <= KernelPages
    BY <1>8, <1>11
  <2> HIDE DEF m
  <2> QED BY <1>6, <1>7, <1>8, <2>1
<1>14. free' + (2 + r) * Cardinality(Living') + b <= KernelPages
  BY <1>6, <1>13
<1> QED BY <1>8, <1>9, <1>10, <1>12, <1>14 DEF PagesInv, r, b

LEMMA PagesExit ==
    ASSUME IInv, PagesInv, NEW p \in Process, sys_exit(p)
    PROVE  PagesInv'
<1> DEFINE r == BitmapPagesReleased
           n == Cardinality(Living)
           h == Cardinality(Hanging)
<1>1. p \in Slot /\ k'.status[p] = "HANGING" /\ SameFate({p}) /\ p \in Thread
  BY ExitKeepsSched, ProcessThread
<1>2. k.status[p] = "RUNNING"
  BY Executing DEF sys_exit, Runs, Running
<1>3. Slot \subseteq Thread
  BY ProcessesAssumption
<1>4. Living' = Living \ {p} /\ Hanging' = Hanging \cup {p} /\ p \in Living /\ p \notin Hanging
  BY <1>1, <1>2, <1>3 DEF Living, Hanging, SameFate
<1>5. Cardinality(Living') = n - 1 /\ Cardinality(Hanging') = h + 1 /\ n \in Nat /\ h \in Nat
  BY <1>4, Counted, FS_AddElement, FS_RemoveElement
<1>6. r \in Nat /\ r' = r
  BY BitmapPages DEF BitmapPagesReleased
<1>7. n # 0
  BY <1>4, Counted, FS_EmptySet
<1>8. free' = free + r /\ free \in Nat /\ free + (2 + r) * n + 2 * h <= KernelPages
  BY DEF sys_exit, PagesInv
<1>9. \A t \in Thread : k'.status[t] = "HANGING" => t \in Slot
  BY <1>1 DEF PagesInv, SameFate
<1> HIDE DEF r, n, h
<1>10. (2 + r) * n = (2 + r) * (n - 1) + 2 + r /\ (2 + r) * (n - 1) \in Nat
  BY <1>5, <1>6, <1>7
<1>11. free' + (2 + r) * (n - 1) + 2 * (h + 1) <= KernelPages /\ free' \in Nat
  <2> DEFINE m == (2 + r) * (n - 1)
  <2>1. m \in Nat /\ free + (m + 2 + r) + 2 * h <= KernelPages
    BY <1>8, <1>10
  <2> HIDE DEF m
  <2>2. free' + m + 2 * (h + 1) <= KernelPages
    BY <1>5, <1>6, <1>8, <2>1, ProcessesAssumption
  <2> QED BY <1>6, <1>8, <2>2 DEF m
<1>12. free' + (2 + r) * Cardinality(Living') + 2 * Cardinality(Hanging') <= KernelPages
  BY <1>5, <1>11
<1> QED BY <1>6, <1>9, <1>11, <1>12 DEF PagesInv, r

LEMMA PagesReap ==
    ASSUME IInv, PagesInv, NEW p \in Process, WaitReaps(p)
    PROVE  PagesInv'
<1> DEFINE r == BitmapPagesReleased
           a == (2 + r) * Cardinality(Living)
           h == Cardinality(Hanging)
<1>1. PICK c \in Thread : k.status[c] = "HANGING" /\ k'.status[c] = "DIED" /\ SameFate({c})
  BY WaitReapsKeeps
<1>2. c \in Slot /\ Slot \subseteq Thread
  BY <1>1, ProcessesAssumption DEF PagesInv
<1>3. Living' = Living /\ Hanging' = Hanging \ {c} /\ c \in Hanging
  BY <1>1, <1>2 DEF Living, Hanging, SameFate
<1>4. Cardinality(Hanging') = h - 1 /\ h \in Nat
  BY <1>3, Counted, FS_RemoveElement
<1>5. h # 0
  BY <1>3, Counted, FS_EmptySet
<1>6. r' = r /\ a \in Nat
  BY Counted, BitmapPages DEF BitmapPagesReleased
<1>7. free' = free + 2 /\ free \in Nat /\ free + a + 2 * h <= KernelPages
  BY DEF WaitReaps, PagesInv
<1>8. \A t \in Thread : k'.status[t] = "HANGING" => t \in Slot
  BY <1>1 DEF PagesInv, SameFate
<1>9. a' = a
  BY <1>3, <1>6
<1> HIDE DEF a, h
<1>10. free' \in Nat /\ free' + a + 2 * Cardinality(Hanging') <= KernelPages
  BY <1>4, <1>5, <1>6, <1>7, ProcessesAssumption
<1> QED BY <1>8, <1>9, <1>10 DEF PagesInv, a

LEMMA InitPages == Init => PagesInv
<1> SUFFICES ASSUME Init PROVE PagesInv
  OBVIOUS
<1>a. /\ Slot \cap {init, main, idle_thread} = {} /\ Slot \subseteq Thread
      /\ KernelPages \in Nat
  BY FirstPCBs, ProcessesAssumption
<1>1. \A t \in Thread : /\ k.status[t] # "HANGING"
                        /\ t \in Slot => k.status[t] = "DIED"
  BY <1>a DEF Init
<1>2. Living = {} /\ Hanging = {} /\ free = KernelPages
  BY <1>a, <1>1 DEF Init, Living, Hanging
<1>3. Cardinality(Living) = 0 /\ Cardinality(Hanging) = 0
  BY <1>2, FS_EmptySet
<1>4. (2 + BitmapPagesReleased) * 0 = 0
  BY BitmapPages
<1>5. free + (2 + BitmapPagesReleased) * 0 + 2 * 0 <= KernelPages
  BY <1>a, <1>2, <1>4
<1> QED BY <1>a, <1>1, <1>2, <1>3, <1>5 DEF PagesInv

LEMMA NextPages == IInv /\ PagesInv /\ [Next]_vars => PagesInv'
<1> SUFFICES ASSUME IInv, PagesInv, [Next]_vars PROVE PagesInv'
  OBVIOUS
<1>a. free \in Nat
  BY DEF PagesInv
<1>1. ASSUME NEW p \in Process, sys_fork(p) PROVE PagesInv'
  <2>1. CASE ForkFails(p)
    <3>1. SameFate({}) /\ free' = 0
      BY <2>1 DEF ForkFails, SameFate
    <3> QED BY <1>a, <3>1, PagesSame
  <2> QED BY <1>1, <2>1, PagesFork DEF sys_fork
<1>2. ASSUME NEW p \in Process, sys_exit(p) PROVE PagesInv'
  BY <1>2, PagesExit
<1>3. ASSUME NEW p \in Process, sys_wait(p) PROVE PagesInv'
  <2>1. CASE WaitNoChild(p)
    <3>1. SameFate({}) /\ free' = free
      BY <2>1 DEF WaitNoChild, SameFate
    <3> QED BY <1>a, <3>1, PagesSame
  <2>2. CASE WaitBlocks(p) \/ ReapFaults(p)
    <3>1. SameFate({}) /\ free' = free
      BY <2>2, WaitBlocksKeeps, ReapFaultsKeeps DEF WaitBlocks, ReapFaults
    <3> QED BY <1>a, <3>1, PagesSame
  <2> QED BY <1>3, <2>1, <2>2, PagesReap DEF sys_wait
<1>4. CASE MainExits
  <2>1. /\ SameFate({main}) /\ k'.status[main] # "HANGING" /\ {main} \cap Slot = {}
        /\ free' = free
    BY <1>4, MainExitsKeeps, FirstPCBs DEF MainExits
  <2> QED BY <1>a, <2>1, PagesSame
<1>5. CASE IdleBlock \/ Timer
  <2>1. SameFate({}) /\ free' = free
    BY <1>5, IdleBlockKeeps, TimerKeepsInv DEF IdleBlock, Timer
  <2> QED BY <1>a, <2>1, PagesSame
<1>6. CASE UNCHANGED vars
  <2>1. SameFate({}) /\ free' = free
    BY <1>6 DEF vars, SameFate
  <2> QED BY <1>a, <2>1, PagesSame
<1> QED BY <1>1, <1>2, <1>3, <1>4, <1>5, <1>6 DEF Next

Places == pc \in [Thread -> {"user", "wait", "exit", "boot", "loop", "hlt"}]

LEMMA PlacesKept == Places /\ [Next]_vars => Places'
<1> SUFFICES ASSUME Places, [Next]_vars PROVE Places'
  OBVIOUS
<1>1. ASSUME NEW p \in Process, sys_fork(p) \/ sys_exit(p) \/ sys_wait(p) PROVE Places'
  BY <1>1 DEF Places, sys_fork, ForkFails, ForkSucceeds, sys_exit, sys_wait, WaitReaps,
              WaitBlocks, WaitNoChild, ReapFaults
<1>2. CASE MainExits \/ IdleBlock \/ Timer \/ UNCHANGED vars
  BY <1>2 DEF Places, MainExits, IdleBlock, Timer, vars
<1> QED BY <1>1, <1>2 DEF Next

\* The state has its type; for the free pages of the kernel pool this says that no
\* sequence of fork(), exit() and wait() gives back more than was taken.
THEOREM ProcessesTypeCorrect == Spec => []TypeOK
<1>1. Init => PagesInv /\ Places
  <2>1. Init => Places
    BY DEF Init, Places
  <2> QED BY <2>1, InitPages
<1>2. IInv /\ PagesInv /\ Places /\ [Next]_vars => PagesInv' /\ Places'
  BY NextPages, PlacesKept
<1>3. IInv /\ PagesInv /\ Places => TypeOK
  <2> SUFFICES ASSUME IInv, PagesInv, Places PROVE TypeOK
    OBVIOUS
  <2>1. free \in 0..KernelPages
    <3>1. /\ (2 + BitmapPagesReleased) * Cardinality(Living) \in Nat
          /\ 2 * Cardinality(Hanging) \in Nat
      BY Counted, BitmapPages
    <3>2. \A x, a, b, m \in Nat : x + a + b <= m => x \in 0..m
      OBVIOUS
    <3> QED BY <3>1, <3>2, ProcessesAssumption DEF PagesInv
  <2> QED BY <2>1 DEF TypeOK, IInv, SchedInv, Registered, Pids, Parents, Places
<1> QED BY <1>1, <1>2, <1>3, AlwaysIInv, PTL DEF Spec

----------------------------------------------------------------------------
\* Neither schedule() nor thread_unblock() nor exit() fails an ASSERT: only the
\* read of a PCB that is no longer mapped can stop the machine.
THEOREM ProcessesNeverPanic == Spec => []NoPanic
<1>1. IInv => NoPanic
  BY DEF IInv, SchedInv, NoPanic
<1> QED BY <1>1, AlwaysIInv, PTL

\* The pid of a registered thread is in use and its own, however often pids are
\* released and handed out again (allocate_pid(), release_pid()).
THEOREM PidsStayUnique == Spec => []PidsUnique
<1>1. IInv => PidsUnique
  BY DEF IInv, Pids
<1> QED BY <1>1, AlwaysIInv, PTL

\* Every process but init has a registered parent that has not exited: the children
\* of one that exits go to init (init_adopt_a_child()).
THEOREM ParentsLive == Spec => []ParentAlive
<1>1. IInv => ParentAlive
  <2> SUFFICES ASSUME IInv, NEW t \in Elements(all) \ {init, main, idle_thread}
               PROVE  \E q \in Elements(all) \ {t} :
                        pid[q] = ppid[t] /\ k.status[q] \notin {"HANGING", "DIED"}
    BY DEF ParentAlive
  <2>1. t \in Slot
    BY ProcessesAssumption DEF IInv, Registered, Elements
  <2> QED BY <2>1 DEF IInv, Parents
<1> QED BY <1>1, AlwaysIInv, PTL

\* thread_ready_list is the set of READY threads, each once and registered: no
\* thread that hangs or has been reaped can be scheduled.
THEOREM ReadyListKept == Spec => []ReadyList
<1>1. IInv => ReadyList
  <2> SUFFICES ASSUME IInv PROVE ReadyList
    OBVIOUS
  <2>1. /\ k.ready \in Seq(Thread) /\ Distinct(k.ready)
        /\ \A t \in Thread : t \in Elements(k.ready) <=> k.status[t] = "READY"
    BY DEF IInv, SchedInv, Running, InOrder, Sched, SchedState
  <2>2. Elements(k.ready) \subseteq Thread
    BY <2>1 DEF Elements
  <2>3. Cardinality(Elements(k.ready)) = Len(k.ready)
    <3>1. Len(k.ready) \in Nat /\ DOMAIN k.ready = 1..Len(k.ready)
      BY <2>1
    <3>2. k.ready \in Surjection(1..Len(k.ready), Elements(k.ready))
      BY <2>1, <3>1 DEF Surjection, Elements
    <3>3. k.ready \in Injection(1..Len(k.ready), Elements(k.ready))
      BY <2>1, <3>2 DEF Surjection, Injection, IsInjective, Distinct
    <3>4. IsFiniteSet(1..Len(k.ready)) /\ Cardinality(1..Len(k.ready)) = Len(k.ready)
      BY <3>1, FS_Interval
    <3> QED BY <3>2, <3>3, <3>4, FS_Surjection
  <2> QED BY <2>1, <2>2, <2>3 DEF ReadyList, IInv, Registered
<1> QED BY <1>1, AlwaysIInv, PTL
=============================================================================
