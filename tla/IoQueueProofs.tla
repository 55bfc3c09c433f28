--------------------------- MODULE IoQueueProofs ---------------------------
(***************************************************************************)
(* The keyboard's queue, for every length of the ring and every number of  *)
(* readers: it is a queue, no ASSERT fails while readers and keys wake and *)
(* block each other, and no reader sleeps out of reach.                    *)
(***************************************************************************)
EXTENDS IoQueue, ThreadsProofs

\* The scheduler s, the lock m, the consumer c and the places p fit together:
\*   - the lock's waiters are the readers that sleep in lock_acquire(), each once;
\*   - the lock is held by the one reader that is in ioq_wait(), asleep or not yet
\*     back from it, and that is the consumer as long as it sleeps;
\*   - a reader sleeps nowhere else.
Order(s, m, c, p) ==
    /\ Running(s)
    /\ m \in SemaState /\ m.value \in {0, 1} /\ Distinct(m.waiters)
    /\ c \in Reader \cup {NULL}
    /\ p \in [Thread -> {"user", "queued", "asleep", "loop", "hlt"}]
    /\ p[idle_thread] \in {"loop", "hlt"}
    /\ \A t \in Reader : p[t] \in {"user", "queued", "asleep"}
    /\ \A t \in Thread : t \in Elements(m.waiters) <=> p[t] = "queued" /\ s.status[t] = "BLOCKED"
    /\ m.value = 0 <=> \E t \in Reader : p[t] = "asleep"
    /\ \A t, u \in Reader : p[t] = "asleep" /\ p[u] = "asleep" => t = u
    /\ \A t \in Reader : c = t <=> p[t] = "asleep" /\ s.status[t] = "BLOCKED"
    /\ \A t \in Reader :
         /\ s.status[t] \notin {"WAITING", "HANGING"}
         /\ s.status[t] = "BLOCKED" => p[t] # "user"
         /\ p[t] # "user" => s.status[t] # "DIED"

\* Whoever waits for a lock that is free is not alone: another reader has been woken
\* and will try to take it.
Passed(s, m, p) ==
    m.value = 1 /\ m.waiters # <<>> =>
      \E t \in Reader : p[t] = "queued" /\ s.status[t] # "BLOCKED"

IInv == Order(k, lock, consumer, pc) /\ Passed(k, lock, pc)

QueueType ==
    /\ buf \in [0..bufsize - 1 -> Char \cup {NULL}]
    /\ head \in 0..bufsize - 1 /\ tail \in 0..bufsize - 1
    /\ got \in [Reader -> Char \cup {NULL}]

----------------------------------------------------------------------------
(***************************************************************************)
(* The lock and the wait, on a scheduler in order.                         *)
(***************************************************************************)

\* What Order says of the running reader: it is in no list and nobody's sleeper.
LEMMA RunnerFree ==
    ASSUME NEW s, NEW m, NEW c, NEW p, Order(s, m, c, p), NEW t \in Reader, s.cur = t
    PROVE  /\ t \in Thread /\ t # idle_thread /\ s.status[t] = "RUNNING"
           /\ t \notin Elements(m.waiters) /\ c # t
<1>1. t \in Thread /\ t # idle_thread
  BY IoQueueAssumption
<1>2. s.status[t] = "RUNNING"
  BY <1>1 DEF Order, Running
<1> QED BY <1>1, <1>2 DEF Order

\* The running reader takes the free lock and sleeps in ioq_wait(): nobody else can
\* be sleeping there, so the ASSERT of ioq_wait() holds.
LEMMA TakeOrder ==
    ASSUME NEW s, NEW m, NEW c, NEW p, Order(s, m, c, p), NEW t \in Reader, s.cur = t,
           p[t] = "user", m.value # 0,
           NEW r, r = thread_block(Check(TakeCheck(s, m), c = NULL, "ioqueue.c:26"), "BLOCKED")
    PROVE  /\ Order(r, Take(m), t, [p EXCEPT ![t] = "asleep"])
           /\ Take(m).value = 0
<1> DEFINE q == [p EXCEPT ![t] = "asleep"]
           n == Take(m)
<1>1. /\ t \in Thread /\ t # idle_thread /\ s.status[t] = "RUNNING"
      /\ t \notin Elements(m.waiters)
  BY RunnerFree
<1>2. m.value = 1 /\ \A u \in Reader : p[u] # "asleep"
  BY DEF Order
<1>3. c = NULL
  BY <1>2 DEF Order
<1>4. r = thread_block(s, "BLOCKED")
  BY <1>2, <1>3 DEF TakeCheck, Check
<1>5. Running(r) /\ SameOffBut({t}, s, r) /\ r.status[t] = "BLOCKED"
  BY <1>1, <1>4, BlockKeeps DEF Order, Blocked
<1>6. n \in SemaState /\ n.value = 0 /\ n.waiters = m.waiters
  BY <1>2 DEF Order, SemaState, Take
<1>7. /\ q \in [Thread -> {"user", "queued", "asleep", "loop", "hlt"}]
      /\ \A u \in Thread : q[u] = IF u = t THEN "asleep" ELSE p[u]
  BY <1>1 DEF Order
<1> HIDE DEF q, n
<1>8. \A u \in Reader \ {t} : u \in Thread \ ({idle_thread} \cup {t})
  BY IoQueueAssumption
<1>9. \A u \in Reader \ {t}, o \in Off : r.status[u] = o <=> s.status[u] = o
  BY <1>5, <1>8 DEF SameOffBut
<1>10. \A u \in Thread : u \in Elements(n.waiters) <=> q[u] = "queued" /\ r.status[u] = "BLOCKED"
  <2> SUFFICES ASSUME NEW u \in Thread
               PROVE  u \in Elements(n.waiters) <=> q[u] = "queued" /\ r.status[u] = "BLOCKED"
    OBVIOUS
  <2>1. u \in Elements(m.waiters) <=> p[u] = "queued" /\ s.status[u] = "BLOCKED"
    BY DEF Order
  <2>2. CASE u = t
    BY <1>1, <1>6, <1>7, <2>2
  <2>3. CASE u = idle_thread
    BY <1>1, <1>6, <1>7, <2>1, <2>3 DEF Order
  <2>4. CASE u \in Reader \ {t}
    BY <1>6, <1>7, <1>9, <2>1, <2>4 DEF Off, Blocked
  <2> QED BY <2>2, <2>3, <2>4, IoQueueAssumption
<1>11. \A u \in Reader :
         /\ t = u <=> q[u] = "asleep" /\ r.status[u] = "BLOCKED"
         /\ q[u] \in {"user", "queued", "asleep"}
         /\ r.status[u] \notin {"WAITING", "HANGING"}
         /\ r.status[u] = "BLOCKED" => q[u] # "user"
         /\ q[u] # "user" => r.status[u] # "DIED"
  <2> SUFFICES ASSUME NEW u \in Reader
               PROVE  /\ t = u <=> q[u] = "asleep" /\ r.status[u] = "BLOCKED"
                      /\ q[u] \in {"user", "queued", "asleep"}
                      /\ r.status[u] \notin {"WAITING", "HANGING"}
                      /\ r.status[u] = "BLOCKED" => q[u] # "user"
                      /\ q[u] # "user" => r.status[u] # "DIED"
    OBVIOUS
  <2>1. u \in Thread
    BY IoQueueAssumption
  <2>2. CASE u = t
    BY <1>5, <1>7, <2>1, <2>2
  <2>3. CASE u # t
    BY <1>2, <1>7, <1>9, <2>1, <2>3 DEF Order, Off, Blocked
  <2> QED BY <2>2, <2>3
<1>12. /\ n.value = 0 <=> \E u \in Reader : q[u] = "asleep"
       /\ \A u, v \in Reader : q[u] = "asleep" /\ q[v] = "asleep" => u = v
       /\ q[idle_thread] \in {"loop", "hlt"}
  BY <1>1, <1>2, <1>6, <1>7, IoQueueAssumption DEF Order
<1> QED BY <1>5, <1>6, <1>7, <1>10, <1>11, <1>12 DEF Order, q, n

\* The running reader finds the lock held and joins its waiters.
LEMMA QueueOrder ==
    ASSUME NEW s, NEW m, NEW c, NEW p, Order(s, m, c, p), NEW t \in Reader, s.cur = t,
           p[t] = "user", m.value = 0
    PROVE  /\ Order(SleepOn(s, m), Enqueue(m, t), c, [p EXCEPT ![t] = "queued"])
           /\ Enqueue(m, t).value = 0
<1> DEFINE q == [p EXCEPT ![t] = "queued"]
           n == Enqueue(m, t)
           r == SleepOn(s, m)
<1>1. /\ t \in Thread /\ t # idle_thread /\ s.status[t] = "RUNNING"
      /\ t \notin Elements(m.waiters) /\ c # t
  BY RunnerFree
<1>2. r = thread_block(s, "BLOCKED")
  BY <1>1 DEF SleepOn, Check
<1>3. Running(r) /\ SameOffBut({t}, s, r) /\ r.status[t] = "BLOCKED"
  BY <1>1, <1>2, BlockKeeps DEF Order, Blocked
<1>4. m.waiters \in Seq(Thread)
  BY DEF Order, SemaState
<1>5. /\ Append(m.waiters, t) \in Seq(Thread) /\ Distinct(Append(m.waiters, t))
      /\ Elements(Append(m.waiters, t)) = Elements(m.waiters) \cup {t}
  BY <1>1, <1>4, AppendElements DEF Order
<1>6. n \in SemaState /\ n.value = 0 /\ n.waiters = Append(m.waiters, t)
  BY <1>5 DEF Order, SemaState, Enqueue
<1>7. /\ q \in [Thread -> {"user", "queued", "asleep", "loop", "hlt"}]
      /\ \A u \in Thread : q[u] = IF u = t THEN "queued" ELSE p[u]
  BY <1>1 DEF Order
<1> HIDE DEF q, n, r
<1>8. \A u \in Reader \ {t} : u \in Thread \ ({idle_thread} \cup {t})
  BY IoQueueAssumption
<1>9. \A u \in Reader \ {t}, o \in Off : r.status[u] = o <=> s.status[u] = o
  BY <1>3, <1>8 DEF SameOffBut
<1>10. \A u \in Thread : u \in Elements(n.waiters) <=> q[u] = "queued" /\ r.status[u] = "BLOCKED"
  <2> SUFFICES ASSUME NEW u \in Thread
               PROVE  u \in Elements(n.waiters) <=> q[u] = "queued" /\ r.status[u] = "BLOCKED"
    OBVIOUS
  <2>1. u \in Elements(m.waiters) <=> p[u] = "queued" /\ s.status[u] = "BLOCKED"
    BY DEF Order
  <2>2. CASE u = t
    BY <1>3, <1>5, <1>6, <1>7, <2>2
  <2>3. CASE u = idle_thread
    BY <1>1, <1>5, <1>6, <1>7, <2>1, <2>3 DEF Order
  <2>4. CASE u \in Reader \ {t}
    BY <1>5, <1>6, <1>7, <1>9, <2>1, <2>4 DEF Off, Blocked
  <2> QED BY <2>2, <2>3, <2>4, IoQueueAssumption
<1>11. \A u \in Reader :
         /\ c = u <=> q[u] = "asleep" /\ r.status[u] = "BLOCKED"
         /\ q[u] \in {"user", "queued", "asleep"}
         /\ r.status[u] \notin {"WAITING", "HANGING"}
         /\ r.status[u] = "BLOCKED" => q[u] # "user"
         /\ q[u] # "user" => r.status[u] # "DIED"
  <2> SUFFICES ASSUME NEW u \in Reader
               PROVE  /\ c = u <=> q[u] = "asleep" /\ r.status[u] = "BLOCKED"
                      /\ q[u] \in {"user", "queued", "asleep"}
                      /\ r.status[u] \notin {"WAITING", "HANGING"}
                      /\ r.status[u] = "BLOCKED" => q[u] # "user"
                      /\ q[u] # "user" => r.status[u] # "DIED"
    OBVIOUS
  <2>1. u \in Thread
    BY IoQueueAssumption
  <2>2. CASE u = t
    BY <1>1, <1>3, <1>7, <2>1, <2>2
  <2>3. CASE u # t
    BY <1>7, <1>9, <2>1, <2>3 DEF Order, Off, Blocked
  <2> QED BY <2>2, <2>3
<1>12. \A u \in Reader : q[u] = "asleep" <=> p[u] = "asleep"
  BY <1>7, IoQueueAssumption
<1>13. /\ n.value = 0 <=> \E u \in Reader : q[u] = "asleep"
       /\ \A u, v \in Reader : q[u] = "asleep" /\ q[v] = "asleep" => u = v
       /\ q[idle_thread] \in {"loop", "hlt"}
       /\ c \in Reader \cup {NULL}
  BY <1>1, <1>6, <1>7, <1>12, IoQueueAssumption DEF Order
<1> QED BY <1>3, <1>5, <1>6, <1>7, <1>10, <1>11, <1>13 DEF Order, q, n, r

\* lock_release() of the reader that comes back from ioq_wait(): the head of the
\* waiters is woken and will test the lock.
LEMMA ReleaseOrder ==
    ASSUME NEW s, NEW m, NEW c, NEW p, Order(s, m, c, p), NEW t \in Reader, s.cur = t,
           p[t] = "asleep"
    PROVE  /\ Order(Signal(s, m), Signalled(m), c, [p EXCEPT ![t] = "user"])
           /\ Passed(Signal(s, m), Signalled(m), [p EXCEPT ![t] = "user"])
           /\ Signal(s, m).cur = t
<1> DEFINE q == [p EXCEPT ![t] = "user"]
           n == Signalled(m)
           r == Signal(s, m)
           First == IF m.waiters = <<>> THEN {} ELSE {Head(m.waiters)}
<1>1. /\ t \in Thread /\ t # idle_thread /\ s.status[t] = "RUNNING"
      /\ t \notin Elements(m.waiters) /\ c # t
  BY RunnerFree
<1>2. m.value = 0 /\ m.waiters \in Seq(Thread) /\ Distinct(m.waiters)
  BY DEF Order, SemaState
<1>3. /\ n \in SemaState /\ n.value = 1 /\ Distinct(n.waiters)
      /\ Elements(n.waiters) = Elements(m.waiters) \ First
      /\ First \subseteq Elements(m.waiters)
  <2>1. CASE m.waiters = <<>>
    <3>1. n.waiters = <<>> /\ n.value = 1 /\ First = {}
      BY <1>2, <2>1 DEF Signalled
    <3>2. n \in SemaState
      BY <1>2, <2>1 DEF Signalled, SemaState
    <3> HIDE DEF n, First
    <3> QED BY <1>2, <2>1, <3>1, <3>2
  <2>2. CASE m.waiters # <<>>
    <3>1. n.waiters = Tail(m.waiters) /\ n.value = 1 /\ First = {Head(m.waiters)}
      BY <1>2, <2>2 DEF Signalled
    <3>2. /\ Tail(m.waiters) \in Seq(Thread) /\ Distinct(Tail(m.waiters))
          /\ Elements(Tail(m.waiters)) = Elements(m.waiters) \ {Head(m.waiters)}
          /\ Head(m.waiters) \in Elements(m.waiters)
      BY <1>2, <2>2, TailElements
    <3>3. n \in SemaState
      BY <1>2, <2>2, <3>2 DEF Signalled, SemaState
    <3> HIDE DEF n, First
    <3> QED BY <3>1, <3>2, <3>3
  <2> QED BY <2>1, <2>2
<1>4. /\ Running(r) /\ r.cur = t
      /\ \A u \in Thread : r.status[u] = IF u \in First THEN "READY" ELSE s.status[u]
  <2>1. CASE m.waiters = <<>>
    BY <1>2, <2>1 DEF Signal, Check, Order
  <2>2. CASE m.waiters # <<>>
    <3> DEFINE h == Head(m.waiters)
    <3>1. r = thread_unblock(s, h) /\ First = {h}
      BY <1>2, <2>2 DEF Signal, Check
    <3>2. h \in Elements(m.waiters) /\ h \in Thread
      BY <1>2, <2>2, TailElements
    <3> HIDE DEF h, r, First
    <3>3. s.status[h] = "BLOCKED"
      BY <3>2 DEF Order
    <3>4. /\ InOrder(r) /\ r.cur = t /\ r.status = [s.status EXCEPT ![h] = "READY"]
      BY <3>1, <3>2, <3>3, UnblockKeeps DEF Order, Running, Blocked
    <3>5. \A u \in Thread : r.status[u] = IF u = h THEN "READY" ELSE s.status[u]
      BY <3>4 DEF Order, Running, InOrder, SchedState
    <3>6. Running(r)
      BY <3>3, <3>4, <3>5 DEF Order, Running
    <3> QED BY <3>1, <3>4, <3>5, <3>6
  <2> QED BY <2>1, <2>2
<1>5. /\ q \in [Thread -> {"user", "queued", "asleep", "loop", "hlt"}]
      /\ \A u \in Thread : q[u] = IF u = t THEN "user" ELSE p[u]
  BY <1>1 DEF Order
<1>6. \A u \in First : u \in Reader \ {t} /\ p[u] = "queued"
  <2> SUFFICES ASSUME NEW u \in First PROVE u \in Reader \ {t} /\ p[u] = "queued"
    OBVIOUS
  <2>1. u \in Thread /\ u \in Elements(m.waiters) /\ u # t
    BY <1>1, <1>2, <1>3 DEF Elements
  <2>2. p[u] = "queued"
    BY <2>1 DEF Order
  <2> QED BY <2>1, <2>2, IoQueueAssumption DEF Order
<1>7. n.waiters # <<>> => First # {}
  BY <1>2 DEF Signalled
<1> HIDE DEF q, n, r, First
<1>8. \A u \in Thread : u \in Elements(n.waiters) <=> q[u] = "queued" /\ r.status[u] = "BLOCKED"
  <2> SUFFICES ASSUME NEW u \in Thread
               PROVE  u \in Elements(n.waiters) <=> q[u] = "queued" /\ r.status[u] = "BLOCKED"
    OBVIOUS
  <2>1. u \in Elements(m.waiters) <=> p[u] = "queued" /\ s.status[u] = "BLOCKED"
    BY DEF Order
  <2>2. u \in Elements(n.waiters) <=> u \in Elements(m.waiters) /\ u \notin First
    BY <1>3
  <2>3. r.status[u] = "BLOCKED" <=> u \notin First /\ s.status[u] = "BLOCKED"
    BY <1>4
  <2>4. u # t => q[u] = p[u]
    BY <1>5
  <2> QED BY <1>1, <1>5, <2>1, <2>2, <2>3, <2>4
<1>9. \A u \in Reader : /\ q[u] # "asleep"
                        /\ c # u
  BY <1>1, <1>5, IoQueueAssumption DEF Order
<1>10. c = NULL
  BY <1>9 DEF Order
<1>11. \A u \in Reader :
         /\ c = u <=> q[u] = "asleep" /\ r.status[u] = "BLOCKED"
         /\ q[u] \in {"user", "queued", "asleep"}
         /\ r.status[u] \notin {"WAITING", "HANGING"}
         /\ r.status[u] = "BLOCKED" => q[u] # "user"
         /\ q[u] # "user" => r.status[u] # "DIED"
  <2> SUFFICES ASSUME NEW u \in Reader
               PROVE  /\ q[u] \in {"user", "queued"}
                      /\ r.status[u] \notin {"WAITING", "HANGING"}
                      /\ r.status[u] = "BLOCKED" => q[u] # "user"
                      /\ q[u] # "user" => r.status[u] # "DIED"
    BY <1>9
  <2>1. u \in Thread
    BY IoQueueAssumption
  <2> QED BY <1>1, <1>4, <1>5, <1>9, <2>1 DEF Order
<1>12. /\ n.value = 0 <=> \E u \in Reader : q[u] = "asleep"
       /\ \A u, v \in Reader : q[u] = "asleep" /\ q[v] = "asleep" => u = v
       /\ q[idle_thread] \in {"loop", "hlt"}
       /\ n.value \in {0, 1}
  BY <1>1, <1>3, <1>5, <1>9, IoQueueAssumption DEF Order
<1>13. Order(r, n, c, q)
  BY <1>3, <1>4, <1>5, <1>8, <1>10, <1>11, <1>12 DEF Order
<1>14. Passed(r, n, q)
  <2> SUFFICES ASSUME n.waiters # <<>>
               PROVE  \E u \in Reader : q[u] = "queued" /\ r.status[u] # "BLOCKED"
    BY DEF Passed
  <2>1. PICK u \in First : TRUE
    BY <1>7
  <2>2. u \in Reader /\ u \in Thread /\ u # t /\ p[u] = "queued"
    BY <1>6, IoQueueAssumption
  <2>3. q[u] = "queued" /\ r.status[u] = "READY"
    BY <1>4, <1>5, <2>2
  <2> QED BY <2>2, <2>3
<1> QED BY <1>4, <1>13, <1>14 DEF r, n, q

\* ioq_putchar() wakes the reader that sleeps in ioq_wait(); it still holds the lock.
LEMMA WakeOrder ==
    ASSUME NEW s, NEW m, NEW c \in Reader, NEW p, Order(s, m, c, p)
    PROVE  /\ Order(thread_unblock(s, c), m, NULL, p) /\ m.value = 0
           /\ thread_unblock(s, c).cur = s.cur
<1> DEFINE r == thread_unblock(s, c)
<1>1. c \in Thread /\ c # idle_thread /\ p[c] = "asleep" /\ s.status[c] = "BLOCKED"
  BY IoQueueAssumption DEF Order
<1>2. InOrder(r) /\ r.cur = s.cur /\ r.status = [s.status EXCEPT ![c] = "READY"]
  BY <1>1, UnblockKeeps DEF Order, Running, Blocked
<1> HIDE DEF r
<1>3. \A u \in Thread : r.status[u] = IF u = c THEN "READY" ELSE s.status[u]
  BY <1>2 DEF Order, Running, InOrder, SchedState
<1>4. Running(r)
  BY <1>1, <1>2, <1>3 DEF Order, Running
<1>5. m.value = 0 /\ \A u \in Reader : NULL # u
  BY <1>1, IoQueueAssumption DEF Order
<1>6. \A u \in Thread : u \in Elements(m.waiters) <=> p[u] = "queued" /\ r.status[u] = "BLOCKED"
  BY <1>1, <1>3 DEF Order
<1>7. \A u \in Reader :
         /\ ~(p[u] = "asleep" /\ r.status[u] = "BLOCKED")
         /\ r.status[u] \notin {"WAITING", "HANGING"}
         /\ r.status[u] = "BLOCKED" => p[u] # "user"
         /\ p[u] # "user" => r.status[u] # "DIED"
  BY <1>1, <1>3, IoQueueAssumption DEF Order
<1>8. Order(r, m, NULL, p)
  BY <1>4, <1>5, <1>6, <1>7 DEF Order
<1> QED BY <1>2, <1>5, <1>8 DEF r

\* The scheduler may run someone else, and a reader that runs may return to its
\* program.
LEMMA SameOrder ==
    ASSUME NEW s, NEW m, NEW c, NEW p, Order(s, m, c, p), Passed(s, m, p),
           NEW r, Running(r), SameOffBut({idle_thread}, s, r),
           NEW q \in [Thread -> {"user", "queued", "asleep", "loop", "hlt"}],
           \A u \in Reader : q[u] = p[u], q[idle_thread] \in {"loop", "hlt"}
    PROVE  Order(r, m, c, q) /\ Passed(r, m, q)
<1>1. \A u \in Reader, o \in Off : r.status[u] = o <=> s.status[u] = o
  BY IoQueueAssumption DEF SameOffBut
<1>2. \A u \in Thread : u \in Elements(m.waiters) <=> q[u] = "queued" /\ r.status[u] = "BLOCKED"
  <2> SUFFICES ASSUME NEW u \in Thread
               PROVE  u \in Elements(m.waiters) <=> q[u] = "queued" /\ r.status[u] = "BLOCKED"
    OBVIOUS
  <2>1. u \in Elements(m.waiters) <=> p[u] = "queued" /\ s.status[u] = "BLOCKED"
    BY DEF Order
  <2>2. CASE u = idle_thread
    BY <2>1, <2>2 DEF Order
  <2>3. CASE u \in Reader
    BY <1>1, <2>1, <2>3 DEF Off, Blocked
  <2> QED BY <2>2, <2>3, IoQueueAssumption
<1>3. \A u \in Reader :
         /\ c = u <=> q[u] = "asleep" /\ r.status[u] = "BLOCKED"
         /\ r.status[u] \notin {"WAITING", "HANGING"}
         /\ r.status[u] = "BLOCKED" => q[u] # "user"
         /\ q[u] # "user" => r.status[u] # "DIED"
  BY <1>1 DEF Order, Off, Blocked
<1>4. Order(r, m, c, q)
  BY <1>2, <1>3 DEF Order
<1>5. Passed(r, m, q)
  BY <1>1 DEF Passed, Off, Blocked
<1> QED BY <1>4, <1>5

----------------------------------------------------------------------------
(***************************************************************************)
(* The steps.                                                              *)
(***************************************************************************)
LEMMA WaitKeeps ==
    ASSUME NEW s, NEW m, NEW p, Order(s, m, consumer, p), NEW t \in Reader, s.cur = t,
           pc \in [Thread -> {"user", "queued", "asleep", "loop", "hlt"}],
           p = [pc EXCEPT ![t] = "user"], Wait(t, s, m)
    PROVE  IInv'
<1>1. t \in Thread /\ p[t] = "user"
  BY IoQueueAssumption
<1>2. CASE m.value # 0
  <2>1. /\ lock' = Take(m) /\ consumer' = t /\ pc' = [pc EXCEPT ![t] = "asleep"]
        /\ k' = thread_block(Check(TakeCheck(s, m), consumer = NULL, "ioqueue.c:26"), "BLOCKED")
    BY <1>2 DEF Wait, Goto
  <2>2. pc' = [p EXCEPT ![t] = "asleep"]
    BY <2>1
  <2>3. Order(k', lock', consumer', pc') /\ lock'.value = 0
    BY <1>1, <1>2, <2>1, <2>2, TakeOrder
  <2> QED BY <2>3 DEF IInv, Passed
<1>3. CASE m.value = 0
  <2>1. /\ lock' = Enqueue(m, t) /\ consumer' = consumer /\ pc' = [pc EXCEPT ![t] = "queued"]
        /\ k' = SleepOn(s, m)
    BY <1>3 DEF Wait, Goto
  <2>2. pc' = [p EXCEPT ![t] = "queued"]
    BY <2>1
  <2>3. Order(k', lock', consumer', pc') /\ lock'.value = 0
    BY <1>1, <1>3, <2>1, <2>2, QueueOrder
  <2> QED BY <2>3 DEF IInv, Passed
<1> QED BY <1>2, <1>3

\* The test of ioq_getchar()'s loop, reached by a reader at place p[t].
LEMMA GetKeeps ==
    ASSUME NEW s, NEW m, NEW p, Order(s, m, consumer, p), Passed(s, m, p),
           NEW t \in Reader, s.cur = t,
           pc \in [Thread -> {"user", "queued", "asleep", "loop", "hlt"}],
           p = [pc EXCEPT ![t] = "user"], Get(t, s, m)
    PROVE  IInv'
<1>1. CASE ioq_empty
  BY <1>1, WaitKeeps DEF Get
<1>2. CASE ~ioq_empty
  BY <1>2 DEF Get, Goto, IInv
<1> QED BY <1>1, <1>2

LEMMA ReaderKeeps ==
    ASSUME IInv, NEW t \in Reader, ioq_getchar(t) \/ TryLock(t) \/ Awake(t)
    PROVE  IInv'
<1> DEFINE p == [pc EXCEPT ![t] = "user"]
<1>1. /\ pc \in [Thread -> {"user", "queued", "asleep", "loop", "hlt"}]
      /\ k.cur = t /\ t \in Thread
  BY IoQueueAssumption DEF IInv, Order, ioq_getchar, TryLock, Awake, Runs
<1>2. CASE ioq_getchar(t)
  <2>1. p = pc
    BY <1>1, <1>2 DEF ioq_getchar, Runs
  <2>2. Order(k, lock, consumer, p) /\ Passed(k, lock, p)
    BY <2>1 DEF IInv
  <2> QED BY <1>1, <1>2, <2>2, GetKeeps DEF ioq_getchar
<1>3. CASE TryLock(t)
  <2>1. pc[t] = "queued" /\ Wait(t, k, lock)
    BY <1>3 DEF TryLock, Runs
  <2>2. k.status[t] = "RUNNING" /\ t \notin Elements(lock.waiters) /\ consumer # t
    BY <1>1, RunnerFree DEF IInv
  <2>3. /\ p \in [Thread -> {"user", "queued", "asleep", "loop", "hlt"}]
        /\ \A u \in Thread : p[u] = IF u = t THEN "user" ELSE pc[u]
    BY <1>1
  <2> HIDE DEF p
  <2>4. \A u \in Thread : u \in Elements(lock.waiters) <=>
                             p[u] = "queued" /\ k.status[u] = "BLOCKED"
    BY <2>2, <2>3 DEF IInv, Order
  <2>5. \A u \in Reader : p[u] = "asleep" <=> pc[u] = "asleep"
    BY <2>1, <2>3, IoQueueAssumption
  <2>6. \A u \in Reader :
          /\ p[u] \in {"user", "queued", "asleep"}
          /\ k.status[u] \notin {"WAITING", "HANGING"}
          /\ k.status[u] = "BLOCKED" => p[u] # "user"
          /\ p[u] # "user" => k.status[u] # "DIED"
    BY <2>2, <2>3, IoQueueAssumption DEF IInv, Order
  <2>7. Order(k, lock, consumer, p)
    BY <2>3, <2>4, <2>5, <2>6, IoQueueAssumption DEF IInv, Order
  <2> QED BY <1>1, <2>1, <2>7, WaitKeeps DEF p
<1>4. CASE Awake(t)
  <2>1. /\ Order(Signal(k, lock), Signalled(lock), consumer, p)
        /\ Passed(Signal(k, lock), Signalled(lock), p)
        /\ Signal(k, lock).cur = t
    <3>1. pc[t] = "asleep" /\ Order(k, lock, consumer, pc)
      BY <1>4 DEF IInv, Awake, Runs
    <3>2. k.cur = t
      BY <1>1
    <3> QED BY <3>1, <3>2, ReleaseOrder, Zenon
  <2>2. Get(t, Signal(k, lock), Signalled(lock))
    BY <1>4 DEF Awake
  <2> DEFINE s == Signal(k, lock)
             m == Signalled(lock)
  <2>3. Order(s, m, consumer, p) /\ Passed(s, m, p) /\ s.cur = t /\ Get(t, s, m)
    BY <2>1, <2>2
  <2>4. p = [pc EXCEPT ![t] = "user"]
    OBVIOUS
  <2> HIDE DEF s, m, p
  <2> QED BY <1>1, <2>3, <2>4, GetKeeps
<1> QED BY <1>2, <1>3, <1>4

LEMMA InterruptKeeps ==
    ASSUME IInv, Key \/ Timer \/ IdleBlock
    PROVE  IInv'
<1>1. /\ pc \in [Thread -> {"user", "queued", "asleep", "loop", "hlt"}]
      /\ pc[idle_thread] \in {"loop", "hlt"} /\ idle_thread \in Thread
      /\ idle_thread \notin Reader
      /\ Running(k) /\ k.cur \in Thread /\ SameOffBut({idle_thread}, k, k)
  BY IoQueueAssumption DEF IInv, Order, Running, InOrder, SchedState, SameOffBut
<1>2. ASSUME EndHalt
      PROVE  /\ pc' \in [Thread -> {"user", "queued", "asleep", "loop", "hlt"}]
             /\ pc'[idle_thread] \in {"loop", "hlt"}
             /\ \A u \in Reader : pc'[u] = pc[u]
  BY <1>1, <1>2, IoQueueAssumption DEF EndHalt
<1>3. ASSUME NEW c \in Char, ioq_putchar(c) PROVE IInv'
  <2>1. EndHalt /\ lock' = lock
    BY <1>3 DEF ioq_putchar, PutInto
  <2>2. CASE consumer = NULL
    <3>1. k' = k /\ consumer' = consumer
      BY <1>3, <2>2 DEF ioq_putchar
    <3> QED BY <1>1, <1>2, <2>1, <3>1, SameOrder DEF IInv
  <2>3. CASE consumer # NULL
    <3>1. k' = thread_unblock(k, consumer) /\ consumer' = NULL
      BY <1>3, <2>3 DEF ioq_putchar
    <3>2. consumer \in Reader
      BY <2>3 DEF IInv, Order
    <3>3. Order(k', lock, NULL, pc) /\ lock.value = 0
      BY <3>1, <3>2, WakeOrder DEF IInv
    <3>4. Passed(k', lock, pc)
      BY <3>3 DEF Passed
    <3>5. Running(k') /\ SameOffBut({idle_thread}, k', k')
      BY <3>3 DEF Order, SameOffBut
    <3> QED BY <1>1, <1>2, <2>1, <3>1, <3>3, <3>4, <3>5, SameOrder DEF IInv
  <2> QED BY <2>2, <2>3
<1>4. ASSUME NEW c \in Char, Drop(c) PROVE IInv'
  <2>1. EndHalt /\ lock' = lock /\ k' = k /\ consumer' = consumer
    BY <1>4 DEF Drop
  <2> QED BY <1>1, <1>2, <2>1, SameOrder DEF IInv
<1>5. CASE Timer
  <2>1. EndHalt /\ lock' = lock /\ k' = intr_timer_handler(k) /\ consumer' = consumer
    BY <1>5 DEF Timer
  <2>2. Running(k') /\ SameOffBut({idle_thread}, k, k')
    BY <1>1, <2>1, TimerKeeps DEF SameOff, SameOffBut
  <2> QED BY <1>1, <1>2, <2>1, <2>2, SameOrder DEF IInv
<1>6. CASE IdleBlock
  <2>1. /\ k.cur = idle_thread /\ lock' = lock /\ k' = thread_block(k, "BLOCKED")
        /\ consumer' = consumer /\ pc' = [pc EXCEPT ![idle_thread] = "hlt"]
    BY <1>6 DEF IdleBlock, Runs, Goto
  <2>2. Running(k') /\ SameOffBut({idle_thread}, k, k')
    BY <1>1, <2>1, BlockKeeps DEF Blocked
  <2>3. /\ pc' \in [Thread -> {"user", "queued", "asleep", "loop", "hlt"}]
        /\ pc'[idle_thread] \in {"loop", "hlt"}
        /\ \A u \in Reader : pc'[u] = pc[u]
    BY <1>1, <2>1
  <2>4. Order(k', lock, consumer, pc') /\ Passed(k', lock, pc')
    BY <2>2, <2>3, SameOrder DEF IInv
  <2> QED BY <2>1, <2>4 DEF IInv
<1> QED BY <1>3, <1>4, <1>5, <1>6 DEF Key

LEMMA NextIInv == IInv /\ [Next]_vars => IInv'
<1> SUFFICES ASSUME IInv, [Next]_vars PROVE IInv'
  OBVIOUS
<1>1. CASE \E t \in Reader : ioq_getchar(t) \/ TryLock(t) \/ Awake(t)
  BY <1>1, ReaderKeeps
<1>2. CASE Key \/ Timer \/ IdleBlock
  BY <1>2, InterruptKeeps
<1>3. CASE UNCHANGED vars
  BY <1>3 DEF vars, IInv, Order, Passed
<1> QED BY <1>1, <1>2, <1>3 DEF Next

\* The idle thread and the readers that were started are ready, each once, but for
\* the one that runs.
LEMMA InitIInv == Init => IInv
<1> SUFFICES ASSUME Init PROVE IInv
  OBVIOUS
<1>1. PICK live \in SUBSET Reader : \E r \in live, ready \in [1..Cardinality(live) -> Thread] :
         /\ Elements(ready) = (live \cup {idle_thread}) \ {r}
         /\ k = [cur |-> r, ready |-> ready,
                 status |-> [t \in Thread |-> CASE t = r -> "RUNNING"
                                                [] t \in Reader \ live -> "DIED"
                                                [] OTHER -> "READY"],
                 ticks |-> Priority, fault |-> "none"]
  BY DEF Init
<1>2. PICK r \in live, ready \in [1..Cardinality(live) -> Thread] :
         /\ Elements(ready) = (live \cup {idle_thread}) \ {r}
         /\ k = [cur |-> r, ready |-> ready,
                 status |-> [t \in Thread |-> CASE t = r -> "RUNNING"
                                                [] t \in Reader \ live -> "DIED"
                                                [] OTHER -> "READY"],
                 ticks |-> Priority, fault |-> "none"]
  BY <1>1
<1> DEFINE T == (live \cup {idle_thread}) \ {r}
           n == Cardinality(live)
           status == [t \in Thread |-> CASE t = r -> "RUNNING"
                                        [] t \in Reader \ live -> "DIED"
                                        [] OTHER -> "READY"]
<1>3. /\ live \subseteq Reader /\ idle_thread \notin live /\ r \in live
      /\ r # idle_thread /\ r \in Thread /\ idle_thread \in Thread
  BY IoQueueAssumption
<1>4. IsFiniteSet(live) /\ n \in Nat
  BY <1>3, IoQueueAssumption, FS_Subset, FS_CardinalityType
<1>5. IsFiniteSet(T) /\ Cardinality(T) = n
  <2> DEFINE W == live \cup {idle_thread}
  <2>1. IsFiniteSet(W) /\ Cardinality(W) = Cardinality(live) + 1
    BY <1>3, <1>4, FS_AddElement
  <2>2. r \in W
    BY <1>3
  <2> HIDE DEF W
  <2>3. IsFiniteSet(W \ {r}) /\ Cardinality(W \ {r}) = Cardinality(W) - 1
    BY <2>1, <2>2, FS_RemoveElement
  <2> QED BY <1>4, <2>1, <2>3 DEF W
<1>7. /\ k.ready = ready /\ k.cur = r /\ k.fault = "none" /\ k.ticks = Priority
      /\ k.status = status /\ Elements(ready) = T
  BY <1>2
<1>a. k = [cur |-> r, ready |-> ready, status |-> status, ticks |-> Priority, fault |-> "none"]
  BY <1>2
<1>b. /\ status \in [Thread -> Status]
      /\ \A t \in Thread : status[t] = IF t = r THEN "RUNNING"
                                       ELSE IF t \in Reader \ live THEN "DIED" ELSE "READY"
  BY DEF Status
<1>c. \A t \in Thread : t \in T <=> t # r /\ t \notin Reader \ live
  BY <1>3, IoQueueAssumption
<1> HIDE DEF n, status
<1> HIDE DEF T
<1>8. ready \in Seq(Thread) /\ Distinct(ready)
  BY <1>2, <1>4, <1>5, <1>7, ListedOnce DEF n
<1>10. k \in SchedState
  BY <1>3, <1>8, <1>a, <1>b, ThreadsAssumption DEF SchedState
<1>11. \A t \in Thread : t \in Elements(k.ready) <=> k.status[t] = "READY"
  BY <1>3, <1>7, <1>b, <1>c
<1>12. Running(k)
  BY <1>3, <1>7, <1>8, <1>10, <1>11, <1>b, IoQueueAssumption DEF Running, InOrder
<1>13. /\ lock.value = 1 /\ lock.waiters = <<>> /\ lock \in SemaState
       /\ Distinct(lock.waiters) /\ Elements(lock.waiters) = {}
  BY DEF Init, sema_init, SemaState, Distinct, Elements
<1>14. /\ pc \in [Thread -> {"user", "queued", "asleep", "loop", "hlt"}]
       /\ pc[idle_thread] = "loop" /\ \A t \in Reader : pc[t] = "user"
       /\ \A t \in Thread : pc[t] # "queued"
  BY IoQueueAssumption DEF Init
<1>15. consumer = NULL /\ \A t \in Reader : NULL # t
  BY IoQueueAssumption DEF Init
<1>16. \A t \in Reader : k.status[t] \in {"RUNNING", "READY", "DIED"}
  BY <1>7, <1>b, IoQueueAssumption
<1> QED BY <1>12, <1>13, <1>14, <1>15, <1>16 DEF IInv, Order, Passed

(***************************************************************************)
(* The theorems about readers.                                             *)
(***************************************************************************)

\* Whatever the number of readers and the order of keys, preemptions and wakeups, a
\* reader that sleeps on the queue or on its lock can be reached: ioq->consumer
\* names one, or one is awake and will release the lock.
THEOREM ReadersReachable == Spec => []SleepersReachable
<1>1. IInv => SleepersReachable
  <2> SUFFICES ASSUME IInv, NEW t \in Reader, k.status[t] = "BLOCKED", consumer = NULL
               PROVE  \E u \in Reader : pc[u] # "user" /\ k.status[u] \in {"READY", "RUNNING"}
    BY DEF SleepersReachable
  <2>1. \A u \in Reader : u \in Thread /\ NULL # u
    BY IoQueueAssumption
  <2>2. ASSUME NEW u \in Reader, pc[u] # "user", k.status[u] # "BLOCKED"
        PROVE  k.status[u] \in {"READY", "RUNNING"}
    BY <2>1, <2>2 DEF IInv, Order, Running, InOrder, SchedState, Status
  <2>3. pc[t] = "queued"
    BY <2>1 DEF IInv, Order
  <2>4. t \in Elements(lock.waiters)
    BY <2>1, <2>3 DEF IInv, Order
  <2>5. lock.waiters # <<>>
    BY <2>4 DEF Elements
  <2>6. CASE lock.value = 1
    <3>1. PICK u \in Reader : pc[u] = "queued" /\ k.status[u] # "BLOCKED"
      BY <2>5, <2>6 DEF IInv, Passed
    <3> QED BY <2>2, <3>1
  <2>7. CASE lock.value = 0
    <3>1. PICK u \in Reader : pc[u] = "asleep"
      BY <2>7 DEF IInv, Order
    <3>2. k.status[u] # "BLOCKED"
      BY <2>1, <3>1 DEF IInv, Order
    <3> QED BY <2>2, <3>1, <3>2
  <2> QED BY <2>6, <2>7 DEF IInv, Order
<1> QED BY InitIInv, NextIInv, <1>1, PTL DEF Spec

\* No ASSERT fails: in particular ioq_wait() never finds a second sleeper, the woken
\* thread is blocked, and the lock is held when it is released.
THEOREM QueueNeverPanics == Spec => [](k.fault = "none")
<1>1. IInv => k.fault = "none"
  BY DEF IInv, Order, Running, InOrder
<1> QED BY InitIInv, NextIInv, <1>1, PTL DEF Spec

----------------------------------------------------------------------------
(***************************************************************************)
(* The ring is a queue.                                                    *)
(***************************************************************************)

\* Places in the ring: one step past the end is the start.
LEMMA RingMod ==
    ASSUME NEW a \in 0..(2 * bufsize - 1)
    PROVE  a % bufsize = IF a < bufsize THEN a ELSE a - bufsize
  BY IoQueueAssumption

LEMMA NextPos ==
    ASSUME NEW i \in 0..(bufsize - 1)
    PROVE  /\ next_pos(i) \in 0..(bufsize - 1)
           /\ next_pos(i) = IF i = bufsize - 1 THEN 0 ELSE i + 1
<1>1. i + 1 \in 0..(2 * bufsize - 1) /\ bufsize \in Nat /\ bufsize >= 2
  BY IoQueueAssumption
<1>2. next_pos(i) = IF i + 1 < bufsize THEN i + 1 ELSE i + 1 - bufsize
  BY <1>1, RingMod DEF next_pos
<1> QED BY <1>1, <1>2

LEMMA FromPlaces ==
    ASSUME NEW i \in 0..(bufsize - 1), NEW n \in 0..(bufsize - 1), NEW j \in 1..n
    PROVE  /\ (i + j - 1) % bufsize \in 0..(bufsize - 1)
           /\ (i + j - 1) % bufsize =
                IF i + j - 1 < bufsize THEN i + j - 1 ELSE i + j - 1 - bufsize
<1>1. i + j - 1 \in 0..(2 * bufsize - 1) /\ bufsize \in Nat
  BY IoQueueAssumption
<1>2. (i + j - 1) % bufsize =
        IF i + j - 1 < bufsize THEN i + j - 1 ELSE i + j - 1 - bufsize
  BY <1>1, RingMod
<1> QED BY <1>1, <1>2

LEMMA LengthRange ==
    ASSUME QueueType
    PROVE  /\ ioq_length \in 0..(bufsize - 1)
           /\ ioq_length = 0 <=> ioq_empty
           /\ ioq_length = bufsize - 1 <=> ioq_full
           /\ (tail + ioq_length) % bufsize = head
<1>1. bufsize \in Nat /\ bufsize >= 2 /\ head \in Nat /\ tail \in Nat
  BY IoQueueAssumption DEF QueueType
<1>2. head < bufsize /\ tail < bufsize
  BY <1>1 DEF QueueType
<1>3. /\ ioq_length \in 0..(bufsize - 1)
      /\ ioq_length = 0 <=> head = tail
  BY <1>1, <1>2 DEF ioq_length
<1>4. ioq_length = bufsize - 1 <=> ioq_full
  BY <1>1, <1>2, NextPos DEF ioq_length, ioq_full
<1>5. (tail + ioq_length) % bufsize = head
  <2> DEFINE a == tail + ioq_length
  <2>1. /\ a \in 0..(2 * bufsize - 1)
        /\ head = IF a < bufsize THEN a ELSE a - bufsize
    BY <1>1, <1>2, <1>3 DEF ioq_length
  <2> HIDE DEF a
  <2>2. a % bufsize = IF a < bufsize THEN a ELSE a - bufsize
    BY <2>1, RingMod
  <2> QED BY <2>1, <2>2 DEF a
<1> QED BY <1>3, <1>4, <1>5 DEF ioq_empty

\* The n characters from place i on.
Chars(b, i, n) == [j \in 1..n |-> b[(i + j - 1) % bufsize]]

LEMMA CharsSequence ==
    ASSUME NEW b, NEW C, b \in [0..bufsize - 1 -> C], NEW i \in 0..(bufsize - 1),
           NEW n \in 0..(bufsize - 1)
    PROVE  /\ Chars(b, i, n) \in Seq(C) /\ Len(Chars(b, i, n)) = n
           /\ \A j \in 1..n : Chars(b, i, n)[j] = b[(i + j - 1) % bufsize]
<1>1. \A j \in 1..n : b[(i + j - 1) % bufsize] \in C
  BY FromPlaces
<1>2. Chars(b, i, n) \in [1..n -> C]
  BY <1>1 DEF Chars
<1>3. n \in Nat
  BY IoQueueAssumption
<1>4. \A j \in 1..n : Chars(b, i, n)[j] = b[(i + j - 1) % bufsize]
  BY DEF Chars
<1> DEFINE q == Chars(b, i, n)
<1>5. q \in [1..n -> C]
  BY <1>2
<1> HIDE DEF q
<1>6. q \in Seq(C) /\ Len(q) = n
  BY <1>3, <1>5
<1> QED BY <1>4, <1>6 DEF q

\* ioq_putchar() appends.
LEMMA PutAppends ==
    ASSUME QueueType, NEW c \in Char, PutInto(c), ~ioq_full
    PROVE  QueueType' /\ F!Put(c)
<1> DEFINE n == ioq_length
<1>1. /\ bufsize \in Nat /\ bufsize >= 2 /\ n \in 0..(bufsize - 1) /\ n # bufsize - 1
      /\ (tail + n) % bufsize = head
  BY LengthRange, IoQueueAssumption
<1>2. /\ buf' = [buf EXCEPT ![head] = c] /\ head' = next_pos(head)
      /\ tail' = tail /\ got' = got
  BY DEF PutInto
<1>3. QueueType'
  BY <1>2, NextPos DEF QueueType
<1>4. ioq_length' = n + 1
  <2>1. /\ head' \in 0..(bufsize - 1) /\ head' = IF head = bufsize - 1 THEN 0 ELSE head + 1
    BY <1>2, NextPos DEF QueueType
  <2>2. head' # tail
    BY <1>2 DEF ioq_full
  <2>3. ioq_length' = IF head' >= tail THEN head' - tail ELSE bufsize - (tail - head')
    BY <1>2 DEF ioq_length
  <2>4. n = IF head >= tail THEN head - tail ELSE bufsize - (tail - head)
    BY DEF ioq_length
  <2>5. /\ head \in Nat /\ tail \in Nat /\ head < bufsize /\ tail < bufsize
        /\ head' \in Nat
    BY <1>1, <2>1 DEF QueueType
  <2> HIDE DEF n
  <2> QED BY <1>1, <2>1, <2>2, <2>3, <2>4, <2>5
<1>5. /\ Queue \in Seq(Char \cup {NULL}) /\ Len(Queue) = n
      /\ \A j \in 1..n : Queue[j] = buf[(tail + j - 1) % bufsize]
  <2>1. Queue = Chars(buf, tail, n)
    BY DEF Queue, Chars
  <2> QED BY <1>1, <2>1, CharsSequence DEF QueueType
<1>6. /\ Queue' \in Seq(Char \cup {NULL}) /\ Len(Queue') = n + 1
      /\ \A j \in 1..(n + 1) : Queue'[j] = buf'[(tail + j - 1) % bufsize]
  <2>1. Queue' = Chars(buf', tail', ioq_length')
    BY DEF Queue, Chars
  <2>2. n + 1 \in 0..(bufsize - 1)
    BY <1>1
  <2>3. Queue' = Chars(buf', tail, n + 1)
    BY <1>2, <1>4, <2>1
  <2>4. buf' \in [0..bufsize - 1 -> Char \cup {NULL}] /\ tail \in 0..(bufsize - 1)
    BY <1>3 DEF QueueType
  <2> HIDE DEF n
  <2> QED BY <2>2, <2>3, <2>4, CharsSequence
<1> HIDE DEF n
<1>7. \A j \in 1..n : Queue'[j] = Queue[j]
  <2> SUFFICES ASSUME NEW j \in 1..n PROVE Queue'[j] = Queue[j]
    OBVIOUS
  <2> DEFINE i == (tail + j - 1) % bufsize
  <2>1. i \in 0..(bufsize - 1)
    BY <1>1, FromPlaces DEF QueueType
  <2>2. i # head
    <3>1. /\ i = IF tail + j - 1 < bufsize THEN tail + j - 1 ELSE tail + j - 1 - bufsize
          /\ tail \in Nat /\ head \in Nat /\ j \in Nat /\ n \in Nat
          /\ tail < bufsize /\ head < bufsize /\ j >= 1 /\ j <= n
      BY <1>1, FromPlaces DEF QueueType
    <3>2. n = IF head >= tail THEN head - tail ELSE bufsize - (tail - head)
      BY DEF n, ioq_length
    <3> HIDE DEF i
    <3> QED BY <1>1, <3>1, <3>2
  <2> HIDE DEF i
  <2>3. buf'[i] = buf[i]
    BY <1>2, <2>1, <2>2 DEF QueueType
  <2>4. Queue'[j] = buf'[i] /\ Queue[j] = buf[i]
    BY <1>1, <1>5, <1>6 DEF i
  <2> QED BY <2>3, <2>4
<1>8. Queue'[n + 1] = c
  <2>1. (tail + (n + 1) - 1) % bufsize = head
    <3>1. tail + (n + 1) - 1 = tail + n
      BY <1>1 DEF QueueType
    <3> QED BY <1>1, <3>1
  <2>2. Queue'[n + 1] = buf'[(tail + (n + 1) - 1) % bufsize]
    BY <1>1, <1>6
  <2>3. buf'[head] = c
    BY <1>2 DEF QueueType
  <2> QED BY <2>1, <2>2, <2>3
<1>9. Queue' = Append(Queue, c)
  BY <1>1, <1>5, <1>6, <1>7, <1>8
<1>10. Len(Queue) < bufsize - 1
  BY <1>1, <1>5
<1> QED BY <1>2, <1>3, <1>9, <1>10 DEF F!Put

\* ioq_getchar() takes the oldest.
LEMMA GetTakes ==
    ASSUME QueueType, NEW t \in Reader, ~ioq_empty,
           got' = [got EXCEPT ![t] = buf[tail]], tail' = next_pos(tail),
           UNCHANGED <<buf, head>>
    PROVE  QueueType' /\ F!Get(t)
<1> DEFINE n == ioq_length
<1>1. /\ bufsize \in Nat /\ bufsize >= 2 /\ n \in 0..(bufsize - 1) /\ n # 0
  BY LengthRange, IoQueueAssumption
<1>2. /\ tail \in 0..(bufsize - 1) /\ tail' \in 0..(bufsize - 1)
      /\ tail' = IF tail = bufsize - 1 THEN 0 ELSE tail + 1
      /\ buf[tail] \in Char \cup {NULL}
  BY NextPos DEF QueueType
<1>3. QueueType'
  BY <1>2 DEF QueueType
<1>4. ioq_length' = n - 1
  <2>1. /\ ioq_length' = IF head >= tail' THEN head - tail' ELSE bufsize - (tail' - head)
        /\ n = IF head >= tail THEN head - tail ELSE bufsize - (tail - head)
        /\ head # tail
    BY DEF ioq_length, ioq_empty
  <2>2. /\ head \in Nat /\ tail \in Nat /\ head < bufsize /\ tail < bufsize
        /\ tail' \in Nat
    BY <1>1, <1>2 DEF QueueType
  <2> HIDE DEF n
  <2> QED BY <1>1, <1>2, <2>1, <2>2
<1>5. /\ Queue \in Seq(Char \cup {NULL}) /\ Len(Queue) = n
      /\ \A j \in 1..n : Queue[j] = buf[(tail + j - 1) % bufsize]
  <2>1. Queue = Chars(buf, tail, n)
    BY DEF Queue, Chars
  <2> QED BY <1>1, <2>1, CharsSequence DEF QueueType
<1>6. /\ Queue' \in Seq(Char \cup {NULL}) /\ Len(Queue') = n - 1
      /\ \A j \in 1..(n - 1) : Queue'[j] = buf[(tail' + j - 1) % bufsize]
  <2>1. Queue' = Chars(buf', tail', ioq_length')
    BY DEF Queue, Chars
  <2>2. n - 1 \in 0..(bufsize - 1)
    BY <1>1
  <2>3. Queue' = Chars(buf, tail', n - 1)
    BY <1>4, <2>1
  <2>4. buf \in [0..bufsize - 1 -> Char \cup {NULL}]
    BY DEF QueueType
  <2> HIDE DEF n
  <2> QED BY <1>2, <2>2, <2>3, <2>4, CharsSequence
<1> HIDE DEF n
<1>7. ASSUME NEW j \in 1..(n - 1) PROVE Queue'[j] = Queue[j + 1]
  <2>1. j \in Nat /\ j >= 1 /\ j + 1 \in 1..n /\ n - 1 \in 0..(bufsize - 1)
    BY <1>1
  <2>2. (tail' + j - 1) % bufsize =
          IF tail' + j - 1 < bufsize THEN tail' + j - 1 ELSE tail' + j - 1 - bufsize
    BY <1>2, <2>1, FromPlaces
  <2>3. (tail + (j + 1) - 1) % bufsize =
          IF tail + (j + 1) - 1 < bufsize THEN tail + (j + 1) - 1
                                          ELSE tail + (j + 1) - 1 - bufsize
    BY <1>1, <1>2, <2>1, FromPlaces
  <2>4. (tail' + j - 1) % bufsize = (tail + (j + 1) - 1) % bufsize
    <3> DEFINE a == (tail' + j - 1) % bufsize
               b == (tail + (j + 1) - 1) % bufsize
    <3>1. /\ a = IF tail' + j - 1 < bufsize THEN tail' + j - 1 ELSE tail' + j - 1 - bufsize
          /\ b = IF tail + (j + 1) - 1 < bufsize THEN tail + (j + 1) - 1
                                                 ELSE tail + (j + 1) - 1 - bufsize
      BY <2>2, <2>3
    <3>2. /\ tail \in Nat /\ tail' \in Nat /\ tail < bufsize /\ j < bufsize
      BY <1>1, <1>2, <2>1
    <3> HIDE DEF a, b
    <3>3. a = b
      BY <1>1, <1>2, <2>1, <3>1, <3>2
    <3> QED BY <3>3 DEF a, b
  <2>5. Queue'[j] = buf[(tail' + j - 1) % bufsize]
    BY <1>6
  <2>6. Queue[j + 1] = buf[(tail + (j + 1) - 1) % bufsize]
    BY <1>5, <2>1
  <2> QED BY <2>4, <2>5, <2>6
<1>8. Head(Queue) = buf[tail] /\ Queue # <<>>
  <2>1. 1 \in 1..n
    BY <1>1
  <2>2. (tail + 1 - 1) % bufsize = tail
    <3>1. tail + 1 - 1 = tail
      BY <1>2
    <3>2. tail % bufsize = tail
      <4>1. tail \in 0..(2 * bufsize - 1) /\ tail < bufsize
        BY <1>1, <1>2
      <4> QED BY <4>1, RingMod
    <3> QED BY <3>1, <3>2
  <2>3. Queue[1] = buf[tail]
    BY <1>5, <2>1, <2>2
  <2> QED BY <1>1, <1>5, <2>3
<1>9. Queue' = Tail(Queue)
  <2> DEFINE q == Queue
             r == Queue'
  <2>1. /\ q \in Seq(Char \cup {NULL}) /\ Len(q) = n /\ r \in Seq(Char \cup {NULL})
        /\ Len(r) = n - 1 /\ \A j \in 1..(n - 1) : r[j] = q[j + 1]
    BY <1>5, <1>6, <1>7
  <2> HIDE DEF q, r
  <2>2. r = Tail(q)
    <3>1. Tail(q) \in Seq(Char \cup {NULL}) /\ Len(Tail(q)) = n - 1
      BY <1>1, <2>1
    <3>2. \A j \in 1..(n - 1) : Tail(q)[j] = q[j + 1]
      BY <1>1, <2>1
    <3> QED BY <1>1, <2>1, <3>1, <3>2
  <2> QED BY <2>2 DEF q, r
<1> QED BY <1>3, <1>8, <1>9 DEF F!Get

LEMMA NextFifo ==
    ASSUME QueueType, [Next]_vars
    PROVE  QueueType' /\ (F!Next \/ UNCHANGED <<Queue, got>>)
<1>a. ASSUME UNCHANGED <<buf, head, tail, got>>
      PROVE  QueueType' /\ UNCHANGED <<Queue, got>>
  BY <1>a DEF QueueType, Queue, ioq_length
<1>1. ASSUME NEW t \in Reader, NEW s, NEW m, Get(t, s, m)
      PROVE  QueueType' /\ (F!Next \/ UNCHANGED <<Queue, got>>)
  <2>1. CASE ioq_empty
    BY <1>1, <1>a, <2>1 DEF Get
  <2>2. CASE ~ioq_empty
    <3>1. got' = [got EXCEPT ![t] = buf[tail]] /\ tail' = next_pos(tail) /\ UNCHANGED <<buf, head>>
      BY <1>1, <2>2 DEF Get
    <3>2. QueueType' /\ F!Get(t)
      BY <2>2, <3>1, GetTakes
    <3> QED BY <3>2 DEF F!Next
  <2> QED BY <2>1, <2>2
<1>2. ASSUME NEW t \in Reader, ioq_getchar(t) \/ TryLock(t) \/ Awake(t)
      PROVE  QueueType' /\ (F!Next \/ UNCHANGED <<Queue, got>>)
  BY <1>1, <1>2, <1>a DEF ioq_getchar, TryLock, Awake
<1>3. ASSUME NEW c \in Char, ioq_putchar(c)
      PROVE  QueueType' /\ (F!Next \/ UNCHANGED <<Queue, got>>)
  BY <1>3, PutAppends DEF ioq_putchar, F!Next
<1>4. ASSUME NEW c \in Char, Drop(c)
      PROVE  QueueType' /\ (F!Next \/ UNCHANGED <<Queue, got>>)
  BY <1>4, <1>a DEF Drop
<1>5. CASE Timer \/ IdleBlock \/ UNCHANGED vars
  BY <1>5, <1>a DEF Timer, IdleBlock, vars
<1> QED BY <1>2, <1>3, <1>4, <1>5 DEF Next, Key

\* ioqueue_init() makes an empty queue.
LEMMA InitFifo == Init => QueueType /\ F!Init
<1> SUFFICES ASSUME Init PROVE QueueType /\ F!Init
  OBVIOUS
<1>1. QueueType
  BY IoQueueAssumption DEF Init, QueueType
<1>2. ioq_length = 0
  BY DEF Init, ioq_length
<1>3. Queue = <<>>
  BY <1>2 DEF Queue
<1> QED BY <1>1, <1>3 DEF Init, F!Init

\* For every length of the ring, what is put comes out once, in order and across the
\* wrap of head and tail, and at most bufsize - 1 characters are in the ring.
THEOREM QueueImplemented == Spec => IsFifo
<1>1. QueueType /\ [Next]_vars => QueueType'
  BY NextFifo
<1>2. QueueType /\ [Next]_vars => [F!Next]_F!vars
  BY NextFifo DEF F!vars
<1> QED BY InitFifo, <1>1, <1>2, PTL DEF Spec, IsFifo, F!Spec

\* Every variable keeps its type.
THEOREM QueueTypeCorrect == Spec => []TypeOK
<1>1. QueueType /\ [Next]_vars => QueueType'
  BY NextFifo
<1>2. IInv /\ QueueType => TypeOK
  BY DEF IInv, QueueType, Order, Running, InOrder, TypeOK
<1> QED BY InitFifo, InitIInv, NextIInv, <1>1, <1>2, PTL DEF Spec
=============================================================================
