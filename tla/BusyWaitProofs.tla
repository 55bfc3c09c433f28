--------------------------- MODULE BusyWaitProofs ---------------------------
(***************************************************************************)
(* Polling the drive, for every number of processes and every limit: only  *)
(* the process that has the channel polls, it is never asleep, and         *)
(* busy_wait() gives up on the drive no sooner than it should.             *)
(***************************************************************************)
EXTENDS BusyWait, ThreadsProofs

\* The scheduler state apart from the panic of GiveUp, which stops the machine and
\* leaves everything else as it was.
Sched == [k EXCEPT !.fault = "none"]

SchedInv ==
    /\ k \in [cur : Thread, ready : Seq(Thread), status : [Thread -> Status],
              ticks : [Thread -> Nat], fault : {"ide.c:162", "none"}]
    /\ SchedOK(Sched)

\* A process is at the drive as long as it has it, and sleeps nowhere but in the
\* system call that waits for a key.
Places ==
    /\ pc \in [Thread -> {"user", "poll", "sleep", "blocked", "loop", "awake", "hlt"}]
    /\ pc[idle_thread] \in {"loop", "awake", "hlt"}
    /\ poller \in Worker \cup {NULL}
    /\ \A t \in Worker : /\ pc[t] \in {"user", "poll", "sleep", "blocked"}
                         /\ Polls(t) <=> poller = t
                         /\ k.status[t] = "BLOCKED" => pc[t] = "blocked"

\* The ticks since the command cover the rounds that are over and the ticks of the
\* present mtime_sleep().
Rounds(t) ==
    /\ k.fault = "none" => left >= 1
    /\ k.fault # "none" => waited >= (TimeLimit - 1) * SleepTicks
    /\ k.fault = "none" /\ pc[t] = "poll" => waited >= (TimeLimit - left) * SleepTicks
    /\ k.fault = "none" /\ pc[t] = "sleep" =>
          waited >= (TimeLimit - left - 1) * SleepTicks + slept

Time ==
    /\ busy \in BOOLEAN
    /\ left \in 0..TimeLimit /\ slept \in 0..SleepTicks /\ waited \in 0..MaxWait
    /\ poller # NULL => Rounds(poller)
    /\ poller = NULL => k.fault = "none"

IInv == SchedInv /\ Places /\ Time

----------------------------------------------------------------------------
(***************************************************************************)
(* The scheduler.                                                          *)
(***************************************************************************)

\* Before the panic the two scheduler states are the same.
LEMMA NoFaultSched ==
    ASSUME NEW s
    PROVE  /\ SchedOK(s) =>
               /\ s \in [cur : Thread, ready : Seq(Thread), status : [Thread -> Status],
                         ticks : [Thread -> Nat], fault : {"ide.c:162", "none"}]
               /\ [s EXCEPT !.fault = "none"] = s
           /\ /\ s \in [cur : Thread, ready : Seq(Thread), status : [Thread -> Status],
                         ticks : [Thread -> Nat], fault : {"ide.c:162", "none"}]
              /\ s.fault = "none"
              => [s EXCEPT !.fault = "none"] = s
  BY DEF SchedOK, Running, InOrder, SchedState

LEMMA Runner ==
    ASSUME SchedInv, k.fault = "none"
    PROVE  SchedOK(k) /\ k.cur \in Thread /\ k.status[k.cur] = "RUNNING"
<1>1. SchedOK(k)
  BY NoFaultSched DEF SchedInv, Sched
<1> QED BY <1>1 DEF SchedOK, Running, InOrder, SchedState

LEMMA SchedAgain ==
    ASSUME SchedOK(k')
    PROVE  SchedInv' /\ k'.fault = "none"
<1>1. /\ k' \in [cur : Thread, ready : Seq(Thread), status : [Thread -> Status],
                 ticks : [Thread -> Nat], fault : {"ide.c:162", "none"}]
      /\ [k' EXCEPT !.fault = "none"] = k'
  BY NoFaultSched
<1>2. k'.fault = "none"
  BY DEF SchedOK, Running, InOrder
<1> QED BY <1>1, <1>2 DEF SchedInv, Sched

\* Who sleeps after a step.
Sleeps(t) == k.status[t] = "BLOCKED"

LEMMA SameSleepers ==
    ASSUME NEW s, NEW r, Asleep(r) = Asleep(s), NEW t \in Worker
    PROVE  r.status[t] = "BLOCKED" <=> s.status[t] = "BLOCKED"
<1>1. t \in Thread \ {idle_thread}
  BY BusyWaitAssumption
<1> QED BY <1>1 DEF Asleep

LEMMA YieldStep ==
    ASSUME SchedInv, k.fault = "none", k' = thread_yield(k) \/ k' = intr_timer_handler(k)
    PROVE  /\ SchedInv' /\ k'.fault = "none"
           /\ \A t \in Worker : Sleeps(t)' <=> Sleeps(t)
<1>1. SchedOK(k') /\ Asleep(k') = Asleep(k)
  BY Runner, YieldOK, TimerOK
<1> QED BY <1>1, SchedAgain, SameSleepers DEF Sleeps

LEMMA BlockStep ==
    ASSUME SchedInv, k.fault = "none", k' = thread_block(k, "BLOCKED")
    PROVE  /\ SchedInv' /\ k'.fault = "none"
           /\ \A t \in Worker : Sleeps(t)' => Sleeps(t) \/ t = k.cur
<1>1. SchedOK(k') /\ Asleep(k') = Asleep(k) \cup ({k.cur} \ {idle_thread})
  BY Runner, BlockOK
<1>2. ASSUME NEW t \in Worker, Sleeps(t)' PROVE Sleeps(t) \/ t = k.cur
  <2>1. t \in Thread \ {idle_thread}
    BY BusyWaitAssumption
  <2> QED BY <1>1, <1>2, <2>1 DEF Asleep, Sleeps
<1> QED BY <1>1, <1>2, SchedAgain

LEMMA KeyStep ==
    ASSUME SchedInv, k.fault = "none", NEW t \in Worker, k.status[t] = "BLOCKED",
           k' = thread_unblock(k, t)
    PROVE  /\ SchedInv' /\ k'.fault = "none"
           /\ \A u \in Worker : Sleeps(u)' => Sleeps(u)
<1>1. t \in Thread /\ SchedOK(k)
  BY Runner, BusyWaitAssumption
<1>2. ListOK(k') /\ k'.cur = k.cur /\ k'.status = [k.status EXCEPT ![t] = "READY"]
  BY <1>1, UnblockOK DEF SchedOK, ListOK, Running
<1>3. \A u \in Thread : k'.status[u] = IF u = t THEN "READY" ELSE k.status[u]
  BY <1>1, <1>2 DEF SchedOK, Running, InOrder, SchedState
<1>4. SchedOK(k')
  BY <1>1, <1>2, <1>3 DEF SchedOK, ListOK, Running
<1> QED BY <1>3, <1>4, SchedAgain, BusyWaitAssumption DEF Sleeps

----------------------------------------------------------------------------
(***************************************************************************)
(* Products with SleepTicks.                                               *)
(***************************************************************************)
LEMMA TickProducts ==
    ASSUME NEW n \in Nat
    PROVE  /\ n * SleepTicks \in Nat
           /\ (n + 1) * SleepTicks = n * SleepTicks + SleepTicks
           /\ n < TimeLimit => n * SleepTicks + SleepTicks <= MaxWait
<1>1. SleepTicks \in Nat /\ TimeLimit \in Nat
  BY BusyWaitAssumption
<1>2. n * SleepTicks \in Nat /\ (n + 1) * SleepTicks = n * SleepTicks + SleepTicks
  BY <1>1
<1>3. ASSUME n < TimeLimit PROVE n * SleepTicks + SleepTicks <= MaxWait
  <2> DEFINE d == TimeLimit - (n + 1)
  <2>1. d \in Nat /\ TimeLimit = d + (n + 1)
    BY <1>1, <1>3
  <2> HIDE DEF d
  <2>2. TimeLimit * SleepTicks = d * SleepTicks + (n + 1) * SleepTicks
    BY <1>1, <2>1
  <2>3. d * SleepTicks \in Nat
    BY <1>1, <2>1
  <2> QED BY <1>1, <1>2, <2>2, <2>3 DEF MaxWait
<1> QED BY <1>2, <1>3

----------------------------------------------------------------------------
(***************************************************************************)
(* The steps.                                                              *)
(***************************************************************************)
Steps == {"user", "poll", "sleep", "blocked", "loop", "awake", "hlt"}

\* The scheduler through every step; only GiveUp panics, and only Block puts a
\* process to sleep.
LEMMA SchedStep ==
    ASSUME SchedInv, [Next]_vars
    PROVE  /\ SchedInv'
           /\ (k'.fault = k.fault \/ \E t \in Worker : GiveUp(t))
           /\ \A u \in Worker : Sleeps(u)' => Sleeps(u) \/ Block(u)
<1>a. k' = k => SchedInv' /\ \A u \in Worker : Sleeps(u)' => Sleeps(u)
  BY DEF SchedInv, Sched, Sleeps
<1>1. ASSUME NEW t \in Worker, GiveUp(t)
      PROVE  SchedInv' /\ \A u \in Worker : Sleeps(u)' => Sleeps(u)
  <2>1. k.fault = "none" /\ k' = [k EXCEPT !.fault = "ide.c:162"]
    BY <1>1 DEF GiveUp, Runs, Panic
  <2>2. SchedOK(k) /\ [k' EXCEPT !.fault = "none"] = k /\ k'.status = k.status
    BY <2>1, Runner DEF SchedInv
  <2>3. k' \in [cur : Thread, ready : Seq(Thread), status : [Thread -> Status],
                ticks : [Thread -> Nat], fault : {"ide.c:162", "none"}]
    BY <2>1 DEF SchedInv
  <2> QED BY <2>2, <2>3 DEF SchedInv, Sched, Sleeps
<1>2. ASSUME NEW t \in Worker, cmd_out(t) \/ PollReady(t) \/ PollBusy(t) \/ Return(t)
      PROVE  k' = k
  BY <1>2 DEF cmd_out, PollReady, PollBusy, Return
<1>3. ASSUME NEW t \in Worker, Sleep(t)
      PROVE  SchedInv' /\ k'.fault = k.fault /\ \A u \in Worker : Sleeps(u)' => Sleeps(u)
  <2>1. CASE slept < SleepTicks
    <3>1. k.fault = "none" /\ (k' = thread_yield(k) \/ k' = k)
      BY <1>3 DEF Sleep, Runs
    <3> QED BY <1>a, <3>1, YieldStep
  <2>2. CASE ~(slept < SleepTicks)
    BY <1>3, <1>a, <2>2 DEF Sleep
  <2> QED BY <2>1, <2>2
<1>4. ASSUME NEW t \in Worker, Block(t)
      PROVE  SchedInv' /\ k'.fault = k.fault /\ \A u \in Worker : Sleeps(u)' => Sleeps(u) \/ Block(u)
  <2>1. k.fault = "none" /\ k.cur = t /\ k' = thread_block(k, "BLOCKED")
    BY <1>4 DEF Block, Runs
  <2> QED BY <1>4, <2>1, BlockStep
<1>5. ASSUME NEW t \in Worker, Key(t)
      PROVE  SchedInv' /\ k'.fault = k.fault /\ \A u \in Worker : Sleeps(u)' => Sleeps(u)
  <2>1. k.fault = "none" /\ k.status[t] = "BLOCKED" /\ k' = thread_unblock(k, t)
    BY <1>5 DEF Key, Interrupt
  <2> QED BY <2>1, KeyStep
<1>6. CASE IdleBlock
  <2>1. /\ k.fault = "none" /\ k.cur = idle_thread /\ k' = thread_block(k, "BLOCKED")
        /\ idle_thread \notin Worker
    BY <1>6, BusyWaitAssumption DEF IdleBlock, Runs
  <2> QED BY <2>1, BlockStep
<1>7. CASE IdleHalt \/ DriveReady \/ UNCHANGED vars
  BY <1>7, <1>a DEF IdleHalt, DriveReady, vars
<1>8. CASE Tick
  <2>1. k.fault = "none" /\ k' = intr_timer_handler(k)
    BY <1>8 DEF Tick, Interrupt
  <2> QED BY <2>1, YieldStep
<1> QED BY <1>a, <1>1, <1>2, <1>3, <1>4, <1>5, <1>6, <1>7, <1>8 DEF Next, Kernel, Idle

\* A process that can run is not asleep.
LEMMA RunnerWakes ==
    ASSUME SchedInv, NEW t \in Worker, NEW where, Runs(t, where)
    PROVE  ~Sleeps(t) /\ t \in Thread /\ t # idle_thread
  BY Runner, BusyWaitAssumption DEF Runs, Sleeps

\* The places of the processes, when t goes to place w and the drive to process c.
LEMMA PlacesMove ==
    ASSUME Places, NEW t \in Worker, ~Sleeps(t), NEW w \in {"user", "poll", "sleep", "blocked"},
           Goto(t, w), poller' \in Worker \cup {NULL},
           \A u \in Worker : Sleeps(u)' => Sleeps(u) \/ (u = t /\ w = "blocked"),
           (w \in {"poll", "sleep"}) <=> (poller' = t),
           \A u \in Worker \ {t} : (poller' = u) <=> (poller = u)
    PROVE  Places'
<1>1. t \in Thread /\ t # idle_thread /\ \A u \in Worker : u \in Thread /\ u # idle_thread
  BY BusyWaitAssumption
<1>2. /\ pc' \in [Thread -> Steps]
      /\ \A u \in Thread : pc'[u] = IF u = t THEN w ELSE pc[u]
  BY <1>1 DEF Places, Goto, Steps
<1>3. ASSUME NEW u \in Worker
      PROVE  /\ pc'[u] \in {"user", "poll", "sleep", "blocked"}
             /\ (pc'[u] \in {"poll", "sleep"}) <=> (poller' = u)
             /\ k'.status[u] = "BLOCKED" => pc'[u] = "blocked"
  BY <1>1, <1>2 DEF Places, Polls, Sleeps
<1> QED BY <1>1, <1>2, <1>3, BusyWaitAssumption DEF Places, Polls, Steps

LEMMA PlacesStay ==
    ASSUME Places, \A u \in Worker : Sleeps(u)' => Sleeps(u), poller' = poller,
           pc' \in [Thread -> Steps], \A u \in Worker : pc'[u] = pc[u],
           pc'[idle_thread] \in {"loop", "awake", "hlt"}
    PROVE  Places'
  BY DEF Places, Polls, Sleeps, Steps

LEMMA PlacesStep ==
    ASSUME SchedInv, Places, [Next]_vars
    PROVE  Places'
<1>a. \A u \in Worker : Sleeps(u)' => Sleeps(u) \/ Block(u)
  BY SchedStep
<1>b. idle_thread \in Thread /\ idle_thread \notin Worker /\ pc \in [Thread -> Steps]
  BY BusyWaitAssumption DEF Places, Steps
<1>c. \A t \in Worker : Block(t) => k.cur = t /\ pc[t] = "user"
  BY DEF Block, Runs
<1>1. ASSUME NEW t \in Worker, NEW where, Runs(t, where), where # "user"
      PROVE  ~Sleeps(t) /\ \A u \in Worker : Sleeps(u)' => Sleeps(u)
  BY <1>1, <1>a, <1>c, RunnerWakes DEF Runs
<1>2. ASSUME NEW t \in Worker, cmd_out(t) PROVE Places'
  <2>1. ~Sleeps(t) /\ Goto(t, "poll") /\ poller = NULL /\ poller' = t /\ k' = k
    BY <1>2, RunnerWakes DEF cmd_out
  <2> QED BY <2>1, PlacesMove, BusyWaitAssumption DEF Sleeps
<1>3. ASSUME NEW t \in Worker, PollReady(t) PROVE Places'
  <2>1. ~Sleeps(t) /\ Goto(t, "user") /\ pc[t] = "poll" /\ poller' = NULL /\ k' = k
    BY <1>3, RunnerWakes DEF PollReady, Runs
  <2>2. poller = t
    BY <2>1 DEF Places, Polls
  <2> QED BY <2>1, <2>2, PlacesMove, BusyWaitAssumption DEF Sleeps
<1>4. ASSUME NEW t \in Worker, PollBusy(t) PROVE Places'
  <2>1. ~Sleeps(t) /\ Goto(t, "sleep") /\ pc[t] = "poll" /\ poller' = poller /\ k' = k
    BY <1>4, RunnerWakes DEF PollBusy, Runs
  <2>2. poller = t
    BY <2>1 DEF Places, Polls
  <2> QED BY <2>1, <2>2, PlacesMove, BusyWaitAssumption DEF Sleeps
<1>5. ASSUME NEW t \in Worker, GiveUp(t) PROVE Places'
  <2>1. \A u \in Worker : Sleeps(u)' => Sleeps(u)
    BY <1>1, <1>5 DEF GiveUp
  <2>2. pc' = pc /\ poller' = poller
    BY <1>5 DEF GiveUp
  <2> QED BY <1>b, <2>1, <2>2, PlacesStay DEF Places
<1>6. ASSUME NEW t \in Worker, Sleep(t) PROVE Places'
  <2>1. /\ ~Sleeps(t) /\ pc[t] = "sleep" /\ poller' = poller
        /\ pc' = pc \/ Goto(t, "poll")
    BY <1>1, <1>6 DEF Sleep, Runs
  <2>2. \A u \in Worker : Sleeps(u)' => Sleeps(u)
    BY <1>1, <1>6 DEF Sleep
  <2>3. poller = t
    BY <2>1 DEF Places, Polls
  <2>4. CASE pc' = pc
    BY <1>b, <2>1, <2>2, <2>4, PlacesStay DEF Places
  <2>5. CASE Goto(t, "poll")
    BY <2>1, <2>2, <2>3, <2>5, PlacesMove, BusyWaitAssumption
  <2> QED BY <2>1, <2>4, <2>5
<1>7. ASSUME NEW t \in Worker, Block(t) PROVE Places'
  <2>1. ~Sleeps(t) /\ Goto(t, "blocked") /\ pc[t] = "user" /\ poller' = poller /\ k.cur = t
    BY <1>7, RunnerWakes DEF Block, Runs
  <2>2. poller # t
    BY <2>1 DEF Places, Polls
  <2>3. \A u \in Worker : Sleeps(u)' => Sleeps(u) \/ u = t
    BY <1>a, <1>c, <2>1
  <2> QED BY <2>1, <2>2, <2>3, PlacesMove, BusyWaitAssumption DEF Places
<1>8. ASSUME NEW t \in Worker, Return(t) PROVE Places'
  <2>1. ~Sleeps(t) /\ Goto(t, "user") /\ pc[t] = "blocked" /\ poller' = poller /\ k' = k
    BY <1>8, RunnerWakes DEF Return, Runs
  <2>2. poller # t
    BY <2>1 DEF Places, Polls
  <2> QED BY <2>1, <2>2, PlacesMove, BusyWaitAssumption DEF Sleeps, Places
<1>9. CASE Idle
  <2>1. /\ k.cur = idle_thread /\ poller' = poller
        /\ pc' = [pc EXCEPT ![idle_thread] = "awake"] \/ pc' = [pc EXCEPT ![idle_thread] = "hlt"]
    BY <1>9 DEF Idle, IdleBlock, IdleHalt, Runs, Goto
  <2>2. \A u \in Worker : Sleeps(u)' => Sleeps(u)
    BY <1>a, <1>b, <1>c, <2>1
  <2>3. /\ pc' \in [Thread -> Steps] /\ \A u \in Worker : pc'[u] = pc[u]
        /\ pc'[idle_thread] \in {"loop", "awake", "hlt"}
    BY <1>b, <2>1, BusyWaitAssumption DEF Steps
  <2> QED BY <2>1, <2>2, <2>3, PlacesStay
<1>10. ASSUME Interrupt, poller' = poller, \A u \in Worker : Sleeps(u)' => Sleeps(u)
       PROVE  Places'
  <2>1. /\ pc' \in [Thread -> Steps] /\ \A u \in Worker : pc'[u] = pc[u]
        /\ pc'[idle_thread] \in {"loop", "awake", "hlt"}
    BY <1>b, <1>10, BusyWaitAssumption DEF Interrupt, EndHalt, Places, Steps
  <2> QED BY <1>10, <2>1, PlacesStay
<1>11. CASE Tick
  <2>1. k.fault = "none" /\ k' = intr_timer_handler(k) /\ Interrupt /\ poller' = poller
    BY <1>11 DEF Tick, Interrupt
  <2> QED BY <1>10, <2>1, YieldStep
<1>12. ASSUME NEW t \in Worker, Key(t) PROVE Places'
  <2>1. /\ k.fault = "none" /\ k.status[t] = "BLOCKED" /\ k' = thread_unblock(k, t)
        /\ Interrupt /\ poller' = poller
    BY <1>12 DEF Key, Interrupt
  <2> QED BY <1>10, <2>1, KeyStep
<1>13. CASE DriveReady \/ UNCHANGED vars
  <2>1. pc' = pc /\ poller' = poller /\ k' = k
    BY <1>13 DEF DriveReady, vars
  <2> QED BY <2>1 DEF Places, Polls
<1> QED BY <1>2, <1>3, <1>4, <1>5, <1>6, <1>7, <1>8, <1>9, <1>11, <1>12, <1>13 DEF Next, Kernel

\* The rounds that are over, and the ticks that they took.
LEMMA RoundTicks ==
    ASSUME Time, k.fault = "none", poller # NULL
    PROVE  /\ left \in Nat /\ left >= 1 /\ left <= TimeLimit
           /\ slept \in Nat /\ waited \in Nat /\ slept <= SleepTicks /\ waited <= MaxWait
           /\ (TimeLimit - left) * SleepTicks \in Nat
           /\ (TimeLimit - left) * SleepTicks + SleepTicks <= MaxWait
           /\ left < TimeLimit =>
                /\ (TimeLimit - left - 1) * SleepTicks \in Nat
                /\ (TimeLimit - left - 1) * SleepTicks + SleepTicks =
                       (TimeLimit - left) * SleepTicks
           /\ (TimeLimit - left - 1) * SleepTicks + SleepTicks <= MaxWait
<1> DEFINE n == TimeLimit - left
           m == TimeLimit - left - 1
<1>1. /\ left \in Nat /\ left >= 1 /\ left <= TimeLimit /\ TimeLimit \in Nat
      /\ SleepTicks \in Nat
  BY BusyWaitAssumption DEF Time, Rounds
<1>2. MaxWait \in Nat
  BY <1>1 DEF MaxWait
<1>3. slept \in Nat /\ waited \in Nat /\ slept <= SleepTicks /\ waited <= MaxWait
  BY <1>1, <1>2 DEF Time
<1>4. n \in Nat /\ n < TimeLimit /\ m \in Int /\ m = n - 1
  BY <1>1
<1> HIDE DEF n, m
<1>5. n * SleepTicks \in Nat /\ n * SleepTicks + SleepTicks <= MaxWait
  BY <1>4, TickProducts
<1>6. CASE n = 0
  <2>1. m = -1 /\ m * SleepTicks = -SleepTicks
    <3>1. m = -1
      BY <1>4, <1>6
    <3> QED BY <1>1, <3>1
  <2>2. m * SleepTicks + SleepTicks <= MaxWait
    BY <1>1, <1>2, <2>1
  <2>3. ~(left < TimeLimit)
    BY <1>1, <1>6 DEF n
  <2> QED BY <1>1, <1>3, <1>5, <2>2, <2>3 DEF n, m
<1>7. CASE n # 0
  <2>1. m \in Nat /\ m + 1 = n
    BY <1>4, <1>7
  <2>2. m * SleepTicks \in Nat /\ m * SleepTicks + SleepTicks = n * SleepTicks
    BY <2>1, TickProducts
  <2>3. m * SleepTicks + SleepTicks <= MaxWait
    BY <1>1, <1>2, <1>5, <2>2
  <2> QED BY <1>1, <1>3, <1>5, <2>2, <2>3 DEF n, m
<1> QED BY <1>6, <1>7

LEMMA TimeStep ==
    ASSUME IInv, [Next]_vars
    PROVE  Time'
<1>a. /\ SleepTicks \in Nat /\ SleepTicks >= 1 /\ TimeLimit \in Nat /\ TimeLimit >= 1
      /\ MaxWait \in Nat
  BY BusyWaitAssumption DEF MaxWait
<1>b. /\ busy \in BOOLEAN
      /\ left \in 0..TimeLimit /\ slept \in 0..SleepTicks /\ waited \in 0..MaxWait
      /\ poller \in Worker \cup {NULL} /\ NULL \notin Worker
  BY BusyWaitAssumption DEF IInv, Time, Places
<1>c. k'.fault = k.fault \/ \E t \in Worker : GiveUp(t)
  BY SchedStep DEF IInv
\* Nothing about the poller changes.
<1>e. ASSUME UNCHANGED <<poller, busy, left, slept, waited>>, k'.fault = k.fault,
             poller # NULL => pc'[poller] = pc[poller]
      PROVE  Time'
  BY <1>e DEF IInv, Time, Rounds
<1>1. ASSUME NEW t \in Worker, cmd_out(t) PROVE Time'
  <2>1. /\ k' = k /\ k.fault = "none" /\ poller' = t /\ busy' \in BOOLEAN
        /\ left' = TimeLimit /\ slept' = 0 /\ waited' = 0 /\ pc'[t] = "poll"
    BY <1>1, BusyWaitAssumption DEF cmd_out, Runs, Goto, IInv, Places
  <2>2. (TimeLimit - TimeLimit) * SleepTicks = 0
    BY <1>a
  <2> QED BY <1>a, <1>b, <2>1, <2>2 DEF Time, Rounds
<1>2. ASSUME NEW t \in Worker, PollReady(t) PROVE Time'
  <2>1. /\ k' = k /\ k.fault = "none" /\ poller' = NULL /\ busy' = busy
        /\ left' = 0 /\ slept' = 0 /\ waited' = 0
    BY <1>2 DEF PollReady, Runs
  <2> QED BY <1>a, <1>b, <2>1 DEF Time
<1>3. ASSUME NEW t \in Worker, PollBusy(t) PROVE Time'
  <2>1. /\ k' = k /\ k.fault = "none" /\ poller' = poller /\ busy' = busy /\ pc[t] = "poll"
        /\ left > 1 /\ left' = left - 1 /\ slept' = 0 /\ waited' = waited /\ pc'[t] = "sleep"
    BY <1>3, BusyWaitAssumption DEF PollBusy, Runs, Goto, IInv, Places
  <2>2. poller = t /\ poller # NULL
    BY <1>b, <2>1 DEF IInv, Places, Polls
  <2>3. waited >= (TimeLimit - left) * SleepTicks
    BY <2>1, <2>2 DEF IInv, Time, Rounds
  <2>4. TimeLimit - left' - 1 = TimeLimit - left /\ left' \in 0..TimeLimit /\ left' >= 1
    BY <1>a, <1>b, <2>1
  <2>5. (TimeLimit - left' - 1) * SleepTicks + slept' = (TimeLimit - left) * SleepTicks
    <3>1. (TimeLimit - left) * SleepTicks \in Nat
      BY <2>1, <2>2, RoundTicks DEF IInv
    <3> QED BY <2>1, <2>4, <3>1
  <2> QED BY <1>a, <1>b, <2>1, <2>2, <2>3, <2>4, <2>5 DEF Time, Rounds
<1>4. ASSUME NEW t \in Worker, GiveUp(t) PROVE Time'
  <2>1. /\ k.fault = "none" /\ k'.fault = "ide.c:162" /\ poller' = poller /\ busy' = busy
        /\ pc[t] = "poll" /\ left = 1 /\ left' = 0 /\ slept' = slept /\ waited' = waited
    BY <1>4 DEF GiveUp, Runs, Panic, IInv, SchedInv
  <2>2. poller = t /\ poller # NULL
    BY <1>b, <2>1 DEF IInv, Places, Polls
  <2>3. waited >= (TimeLimit - 1) * SleepTicks
    BY <2>1, <2>2 DEF IInv, Time, Rounds
  <2> QED BY <1>a, <1>b, <2>1, <2>2, <2>3 DEF Time, Rounds
<1>5. ASSUME NEW t \in Worker, Sleep(t) PROVE Time'
  <2>1. /\ k.fault = "none" /\ UNCHANGED <<poller, busy, left, slept, waited>> /\ pc[t] = "sleep"
        /\ ~GiveUp(t)
    BY <1>5 DEF Sleep, Runs, GiveUp
  <2>2. poller = t /\ poller # NULL
    BY <1>b, <2>1 DEF IInv, Places, Polls
  <2>3. k'.fault = k.fault
    BY <1>5, <1>c, <2>1 DEF Sleep, Runs, GiveUp
  <2>4. CASE pc' = pc
    BY <1>e, <2>1, <2>3, <2>4
  <2>5. CASE slept = SleepTicks /\ Goto(t, "poll")
    <3>1. waited >= (TimeLimit - left - 1) * SleepTicks + slept
      BY <2>1, <2>2 DEF IInv, Time, Rounds
    <3>2. pc'[t] = "poll"
      BY <2>5, BusyWaitAssumption DEF Goto, IInv, Places
    <3>3. (TimeLimit - left - 1) * SleepTicks + SleepTicks = (TimeLimit - left) * SleepTicks
      <4>1. left \in Int /\ TimeLimit \in Int /\ SleepTicks \in Int
        BY <1>a, <1>b
      <4> QED BY <4>1
    <3>4. waited >= (TimeLimit - left) * SleepTicks
      BY <2>5, <3>1, <3>3
    <3>5. k.fault = "none" => left >= 1
      BY <2>2 DEF IInv, Time, Rounds
    <3> QED BY <1>b, <2>1, <2>2, <2>3, <3>2, <3>4, <3>5 DEF Time, Rounds
  <2> QED BY <1>5, <2>4, <2>5 DEF Sleep
<1>6. ASSUME NEW t \in Worker, Block(t) \/ Return(t) PROVE Time'
  <2>1. /\ UNCHANGED <<poller, busy, left, slept, waited>> /\ pc[t] \in {"user", "blocked"}
        /\ k.cur = t /\ \A w \in Worker : w # t => pc'[w] = pc[w]
    BY <1>6, BusyWaitAssumption DEF Block, Return, Runs, Goto, IInv, Places
  <2>2. poller # t
    BY <2>1 DEF IInv, Places, Polls
  <2>3. k'.fault = k.fault
    BY <1>c, <2>1 DEF GiveUp, Runs
  <2> QED BY <1>b, <1>e, <2>1, <2>2, <2>3
<1>7. CASE Idle
  <2>1. /\ UNCHANGED <<poller, busy, left, slept, waited>> /\ k.cur = idle_thread
        /\ \A w \in Worker : pc'[w] = pc[w]
    BY <1>7, BusyWaitAssumption DEF Idle, IdleBlock, IdleHalt, Runs, Goto, IInv, Places
  <2>2. k'.fault = k.fault
    BY <1>c, <2>1, BusyWaitAssumption DEF GiveUp, Runs
  <2> QED BY <1>b, <1>e, <2>1, <2>2
<1>8. ASSUME Interrupt PROVE k'.fault = k.fault /\ \A w \in Worker : pc'[w] = pc[w]
  <2>1. \A w \in Worker : pc'[w] = pc[w]
    BY <1>8, BusyWaitAssumption DEF Interrupt, EndHalt, IInv, Places
  <2>2. \A t \in Worker : ~GiveUp(t)
    BY <1>8, BusyWaitAssumption DEF Interrupt, IF_on, GiveUp, Runs
  <2> QED BY <1>c, <2>1, <2>2
<1>9. ASSUME NEW t \in Worker, Key(t) PROVE Time'
  BY <1>9, <1>8, <1>b, <1>e DEF Key
<1>10. CASE Tick
  <2>1. /\ k.fault = "none" /\ k'.fault = k.fault /\ \A w \in Worker : pc'[w] = pc[w]
        /\ UNCHANGED <<poller, busy, left>>
        /\ slept' = IF poller # NULL /\ pc[poller] = "sleep" /\ slept < SleepTicks
                    THEN slept + 1 ELSE slept
        /\ waited' = IF poller # NULL /\ waited < MaxWait THEN waited + 1 ELSE waited
    BY <1>10, <1>8 DEF Tick, Interrupt
  <2>2. slept' \in 0..SleepTicks /\ waited' \in 0..MaxWait
    BY <1>a, <1>b, <2>1
  <2>3. CASE poller = NULL
    BY <1>b, <2>1, <2>2, <2>3 DEF IInv, Time
  <2>4. CASE poller # NULL
    <3> DEFINE A == (TimeLimit - left) * SleepTicks
               B == (TimeLimit - left - 1) * SleepTicks
    <3>1. /\ slept \in Nat /\ waited \in Nat /\ slept <= SleepTicks /\ waited <= MaxWait
          /\ A \in Nat /\ A + SleepTicks <= MaxWait /\ B + SleepTicks <= MaxWait /\ left >= 1
      BY <2>1, <2>4, RoundTicks DEF IInv
    <3>2. B \in Int
      BY <1>a, <1>b
    <3>3. /\ pc[poller] = "poll" => waited >= A
          /\ pc[poller] = "sleep" => waited >= B + slept
      BY <2>1, <2>4 DEF IInv, Time, Rounds
    <3>4. pc'[poller] = pc[poller]
      BY <1>b, <2>1, <2>4
    <3> HIDE DEF A, B
    <3>5. pc[poller] = "poll" => waited' >= A
      BY <1>a, <2>1, <2>4, <3>1, <3>3
    <3>6. pc[poller] = "sleep" => waited' >= B + slept'
      <4> SUFFICES ASSUME pc[poller] = "sleep" PROVE waited' >= B + slept'
        OBVIOUS
      <4>1. waited >= B + slept
        BY <3>3
      <4>2. /\ slept' = IF slept < SleepTicks THEN slept + 1 ELSE slept
            /\ waited' = IF waited < MaxWait THEN waited + 1 ELSE waited
        BY <2>1, <2>4
      <4> QED BY <1>a, <3>1, <3>2, <4>1, <4>2
    <3>7. Rounds(poller)'
      BY <2>1, <3>1, <3>4, <3>5, <3>6 DEF Rounds, A, B
    <3> QED BY <1>b, <2>1, <2>2, <2>4, <3>7 DEF Time
  <2> QED BY <2>3, <2>4
<1>11. CASE DriveReady
  <2>1. /\ UNCHANGED <<k, pc, poller, left, slept, waited>> /\ busy' = FALSE
    BY <1>11 DEF DriveReady
  <2> QED BY <2>1 DEF IInv, Time, Rounds
<1>12. CASE UNCHANGED vars
  BY <1>12, <1>e DEF vars
<1> QED BY <1>1, <1>2, <1>3, <1>4, <1>5, <1>6, <1>7, <1>9, <1>10, <1>11, <1>12 DEF Next, Kernel

LEMMA NextIInv == IInv /\ [Next]_vars => IInv'
  BY SchedStep, PlacesStep, TimeStep DEF IInv

LEMMA InitIInv == Init => IInv
<1> SUFFICES ASSUME Init PROVE IInv
  OBVIOUS
<1>1. PICK t \in Worker, ready \in [1..Cardinality(Thread) - 1 -> Thread] :
         /\ Elements(ready) = Thread \ {t}
         /\ k = [cur |-> t, ready |-> ready,
                 status |-> [u \in Thread |-> IF u = t THEN "RUNNING" ELSE "READY"],
                 ticks |-> Priority, fault |-> "none"]
  BY DEF Init
<1> DEFINE n == Cardinality(Thread) - 1
           T == Thread \ {t}
<1>2. /\ t \in Thread /\ t # idle_thread /\ idle_thread \in Thread
      /\ IsFiniteSet(Worker) /\ Thread = Worker \cup {idle_thread} /\ idle_thread \notin Worker
  BY BusyWaitAssumption
<1>3. IsFiniteSet(Thread) /\ Cardinality(Thread) = Cardinality(Worker) + 1
  BY <1>2, FS_AddElement
<1>4. Cardinality(Worker) \in Nat
  BY <1>2, FS_CardinalityType
<1>5. n \in Nat
  BY <1>3, <1>4
<1>6. IsFiniteSet(T) /\ Cardinality(T) = n
  BY <1>2, <1>3, FS_RemoveElement
<1> HIDE DEF n, T
<1>7. ready \in [1..n -> Thread] /\ Elements(ready) = T
  BY <1>1 DEF n, T
<1>8. ready \in Seq(Thread) /\ Distinct(ready)
  BY <1>5, <1>6, <1>7, ListedOnce
<1>9. /\ k.ready = ready /\ k.cur = t /\ k.fault = "none"
      /\ \A u \in Thread : k.status[u] = IF u = t THEN "RUNNING" ELSE "READY"
  BY <1>1
<1>10. k \in SchedState
  BY <1>1, <1>2, <1>8, ThreadsAssumption DEF SchedState, Status
<1>11. \A u \in Thread : u \in Elements(k.ready) <=> k.status[u] = "READY"
  BY <1>7, <1>9 DEF T
<1>12. SchedOK(k)
  BY <1>2, <1>8, <1>9, <1>10, <1>11 DEF SchedOK, Running, InOrder, Simple
<1>13. SchedInv
  BY <1>12, NoFaultSched DEF SchedInv, Sched
<1>14. Places
  <2>1. \A u \in Worker : pc[u] = "user" /\ k.status[u] # "BLOCKED" /\ u # NULL
    BY <1>2, <1>9, BusyWaitAssumption DEF Init
  <2> QED BY <1>2, <2>1, BusyWaitAssumption DEF Init, Places, Polls
<1>15. Time
  <2>1. MaxWait \in Nat /\ TimeLimit \in Nat /\ SleepTicks \in Nat
    BY BusyWaitAssumption DEF MaxWait
  <2>2. poller = NULL /\ busy = FALSE /\ left = 0 /\ slept = 0 /\ waited = 0
    BY DEF Init
  <2>3. left \in 0..TimeLimit /\ slept \in 0..SleepTicks /\ waited \in 0..MaxWait
    BY <2>1, <2>2
  <2>4. busy \in BOOLEAN
    BY <2>2
  <2> QED BY <1>9, <2>2, <2>3, <2>4, Zenon DEF Time
<1> QED BY <1>13, <1>14, <1>15 DEF IInv

(***************************************************************************)
(* The theorems.                                                           *)
(***************************************************************************)

\* For every limit and every length of a sleep: busy_wait() panics only after
\* TimeLimit - 1 whole sleeps of the drive, and the process that polls keeps the
\* drive to itself and is never blocked.
THEOREM PollingPatient == Spec => []Patient
<1>1. IInv => Patient
  <2> SUFFICES ASSUME IInv PROVE Patient
    OBVIOUS
  <2>1. k.fault = "ide.c:162" => waited >= (TimeLimit - 1) * SleepTicks
    BY DEF IInv, Time, Rounds
  <2>2. ASSUME NEW t \in Worker, Polls(t)
        PROVE  poller = t /\ k.status[t] \in {"RUNNING", "READY"}
    <3>1. t \in Thread /\ k.status[t] # "BLOCKED" /\ poller = t
      BY <2>2, BusyWaitAssumption DEF IInv, Places, Polls
    <3>2. Sched.status = k.status
      BY DEF Sched, IInv, SchedInv
    <3> QED BY <3>1, <3>2 DEF IInv, SchedInv, SchedOK, Simple
  <2> QED BY <2>1, <2>2 DEF Patient
<1> QED BY InitIInv, NextIInv, <1>1, PTL DEF Spec

\* The scheduler fails no ASSERT while the drive is polled; the one panic is that of
\* busy_wait()'s callers.
THEOREM PollingTypeCorrect == Spec => [](TypeOK /\ k.fault \in {"ide.c:162", "none"})
<1>1. IInv => TypeOK /\ k.fault \in {"ide.c:162", "none"}
  BY DEF IInv, SchedInv, Places, Time, TypeOK
<1> QED BY InitIInv, NextIInv, <1>1, PTL DEF Spec
=============================================================================
