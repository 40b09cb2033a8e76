---------------------------- MODULE ThreadProofs ----------------------------
(***************************************************************************)
(* Every operation of Thread keeps the kernel state coherent.              *)
(***************************************************************************)
EXTENDS Thread, SequenceTheorems, WellFoundedInduction, TLAPS

\* A kernel state in which the CPU is being given away: nobody is RUNNING.
Vacant(k) ==
  /\ k \in KernelState
  /\ ReadyExact(k)
  /\ \A t \in Tasks : k.status[t] # "RUNNING"
  /\ k.status[Idle] \in {"READY", "BLOCKED"}
  /\ ~k.panic

-----------------------------------------------------------------------------
(* The list operations the scheduler uses, on lists without repetition *)

\* Pushing a task that is not on the list (listPush) keeps the list exact.
LEMMA PushList ==
  ASSUME NEW S, NEW s \in Seq(S), NEW e \in S, IsInjective(s), ~Contains(s, e)
  PROVE  /\ <<e>> \o s \in Seq(S)
         /\ IsInjective(<<e>> \o s)
         /\ \A x : Contains(<<e>> \o s, x) <=> x = e \/ Contains(s, x)
<1>1. /\ <<e>> \o s \in Seq(S)
      /\ Len(<<e>> \o s) = Len(s) + 1
      /\ \A i \in 1 .. Len(s) + 1 : (<<e>> \o s)[i] = IF i = 1 THEN e ELSE s[i - 1]
  OBVIOUS
<1>2. IsInjective(<<e>> \o s)
  BY <1>1 DEF IsInjective, Contains
<1>3. ASSUME NEW x, x = e \/ Contains(s, x)
      PROVE  Contains(<<e>> \o s, x)
  <2>1. CASE x = e
    BY <1>1, <2>1 DEF Contains
  <2>2. CASE Contains(s, x)
    <3>1. PICK i \in 1 .. Len(s) : s[i] = x
      BY <2>2 DEF Contains
    <3>2. i + 1 \in 1 .. Len(s) + 1 /\ (<<e>> \o s)[i + 1] = x
      BY <1>1, <3>1
    <3>3. QED
      BY <1>1, <3>2 DEF Contains
  <2>3. QED
    BY <1>3, <2>1, <2>2
<1>4. ASSUME NEW x, Contains(<<e>> \o s, x)
      PROVE  x = e \/ Contains(s, x)
  BY <1>1, <1>4 DEF Contains
<1>5. QED
  BY <1>1, <1>2, <1>3, <1>4

\* Appending a task that is not on the list (listAppend) keeps the list exact.
LEMMA AppendList ==
  ASSUME NEW S, NEW s \in Seq(S), NEW e \in S, IsInjective(s), ~Contains(s, e)
  PROVE  /\ Append(s, e) \in Seq(S)
         /\ IsInjective(Append(s, e))
         /\ \A x : Contains(Append(s, e), x) <=> x = e \/ Contains(s, x)
<1>1. /\ Append(s, e) \in Seq(S)
      /\ Len(Append(s, e)) = Len(s) + 1
      /\ \A i \in 1 .. Len(s) : Append(s, e)[i] = s[i]
      /\ Append(s, e)[Len(s) + 1] = e
  OBVIOUS
<1>2. IsInjective(Append(s, e))
  BY <1>1 DEF IsInjective, Contains
<1>3. \A x : Contains(Append(s, e), x) <=> x = e \/ Contains(s, x)
  BY <1>1 DEF Contains
<1>4. QED
  BY <1>1, <1>2, <1>3

\* Popping the head (listPop) removes that task and no other.
LEMMA PopList ==
  ASSUME NEW S, NEW s \in Seq(S), IsInjective(s), s # <<>>
  PROVE  /\ Head(s) \in S
         /\ Tail(s) \in Seq(S)
         /\ IsInjective(Tail(s))
         /\ Contains(s, Head(s))
         /\ \A x : Contains(Tail(s), x) <=> x # Head(s) /\ Contains(s, x)
<1>1. /\ Len(s) \in Nat \ {0}
      /\ Head(s) = s[1] /\ Head(s) \in S
      /\ Tail(s) \in Seq(S)
      /\ Len(Tail(s)) = Len(s) - 1
      /\ \A i \in 1 .. Len(s) - 1 : Tail(s)[i] = s[i + 1]
  OBVIOUS
<1>2. IsInjective(Tail(s)) /\ Contains(s, Head(s))
  BY <1>1 DEF IsInjective, Contains
<1>3. ASSUME NEW x, x # Head(s), Contains(s, x)
      PROVE  Contains(Tail(s), x)
  <2>1. PICK i \in 1 .. Len(s) : s[i] = x
    BY <1>3 DEF Contains
  <2>2. i - 1 \in 1 .. Len(s) - 1 /\ Tail(s)[i - 1] = x
    BY <1>1, <1>3, <2>1
  <2>3. QED
    BY <1>1, <2>2 DEF Contains
<1>4. ASSUME NEW x, Contains(Tail(s), x)
      PROVE  x # Head(s) /\ Contains(s, x)
  <2>1. PICK i \in 1 .. Len(s) - 1 : Tail(s)[i] = x
    BY <1>1, <1>4 DEF Contains
  <2>2. i + 1 \in 1 .. Len(s) /\ s[i + 1] = x
    BY <1>1, <2>1
  <2>3. QED
    BY <1>1, <2>2 DEF Contains, IsInjective
<1>5. QED
  BY <1>1, <1>2, <1>3, <1>4

-----------------------------------------------------------------------------
(* The operations *)

\* threadUnblock of a sleeping task: the new state, field by field.
LEMMA UnblockEffect ==
  ASSUME NEW k, k \in KernelState, ReadyExact(k), ~k.panic,
         NEW t \in Tasks, k.status[t] \in Asleep
  PROVE  /\ ThreadUnblock(k, t) \in KernelState
         /\ ReadyExact(ThreadUnblock(k, t))
         /\ ThreadUnblock(k, t).cur = k.cur
         /\ ThreadUnblock(k, t).status = [k.status EXCEPT ![t] = "READY"]
         /\ ThreadUnblock(k, t).ready = <<t>> \o k.ready
         /\ ~ThreadUnblock(k, t).panic
<1> DEFINE n == ThreadUnblock(k, t)
<1> HIDE DEF n
<1>1. ~Contains(k.ready, t)
  BY DEF ReadyExact, InReady, Asleep
<1>2. k.ready \in Seq(Tasks) /\ IsInjective(k.ready)
  BY DEF KernelState, ReadyExact
<1>3. n = [k EXCEPT !.status[t] = "READY", !.ready = <<t>> \o @]
  BY <1>1 DEF ThreadUnblock, InReady, n
<1>4. n = [cur |-> k.cur, status |-> [k.status EXCEPT ![t] = "READY"],
           ready |-> <<t>> \o k.ready, ticks |-> k.ticks,
           idle |-> k.idle, panic |-> k.panic]
  BY <1>3 DEF KernelState
<1>5. n \in KernelState
  BY <1>1, <1>2, <1>4, PushList DEF KernelState, TaskStatus
<1>6. ReadyExact(n)
  BY <1>1, <1>2, <1>4, PushList DEF ReadyExact, InReady, KernelState
<1>7. QED
  BY <1>4, <1>5, <1>6 DEF n

\* It keeps a coherent state coherent and a vacant one vacant.
LEMMA UnblockKeeps ==
  ASSUME NEW k, NEW t \in Tasks, k.status[t] \in Asleep
  PROVE  /\ Coherent(k) => Coherent(ThreadUnblock(k, t))
         /\ Vacant(k) => Vacant(ThreadUnblock(k, t)) /\ ThreadUnblock(k, t).ready # <<>>
<1> DEFINE n == ThreadUnblock(k, t)
           Effect == /\ n \in KernelState
                     /\ ReadyExact(n)
                     /\ n.cur = k.cur
                     /\ n.status = [k.status EXCEPT ![t] = "READY"]
                     /\ n.ready = <<t>> \o k.ready
                     /\ ~n.panic
<1>1. ASSUME k \in KernelState, ReadyExact(k), ~k.panic
      PROVE  Effect
  BY <1>1, UnblockEffect
<1> HIDE DEF n
<1>2. ASSUME Coherent(k) PROVE Coherent(n)
  <2>1. Effect
    BY <1>1, <1>2 DEF Coherent
  <2>2. RunningIsCur(n)
    BY <1>2, <2>1 DEF Coherent, RunningIsCur, Asleep, KernelState
  <2>3. n.status[Idle] \in {"RUNNING", "READY", "BLOCKED"}
    BY <1>2, <2>1 DEF Coherent, KernelState, Tasks
  <2>4. QED
    BY <2>1, <2>2, <2>3 DEF Coherent
<1>3. ASSUME Vacant(k) PROVE Vacant(n) /\ n.ready # <<>>
  <2>1. Effect
    BY <1>1, <1>3 DEF Vacant
  <2>2. \A u \in Tasks : n.status[u] # "RUNNING"
    BY <1>3, <2>1 DEF Vacant, KernelState
  <2>3. n.status[Idle] \in {"READY", "BLOCKED"}
    BY <1>3, <2>1 DEF Vacant, KernelState, Tasks
  <2>4. n.ready # <<>>
    BY <1>3, <2>1 DEF Vacant, KernelState
  <2>5. QED
    BY <2>1, <2>2, <2>3, <2>4 DEF Vacant
<1>4. QED
  BY <1>2, <1>3 DEF n

\* schedule from a state in which the current thread has given the CPU up.
LEMMA DispatchCoherent ==
  ASSUME NEW k, Vacant(k)
  PROVE  Coherent(Dispatch(k))
<1> DEFINE some == IF k.ready = <<>> THEN ThreadUnblock(k, Idle) ELSE k
           n == Dispatch(k)
<1>1. Vacant(some) /\ some.ready # <<>>
  <2>1. CASE k.ready = <<>>
    <3>1. k.status[Idle] \in Asleep
      BY <2>1 DEF Vacant, ReadyExact, InReady, Contains, Asleep, Tasks
    <3>2. QED
      BY <2>1, <3>1, UnblockKeeps DEF Vacant, Tasks
  <2>2. CASE k.ready # <<>>
    BY <2>2
  <2>3. QED
    BY <2>1, <2>2
<1> HIDE DEF some
<1> DEFINE h == Head(some.ready)
<1>2. n = [some EXCEPT !.cur = h, !.status[h] = "RUNNING", !.ready = Tail(@)]
  BY <1>1 DEF Dispatch, some, Vacant
<1>3. /\ some \in KernelState
      /\ some.ready \in Seq(Tasks) /\ IsInjective(some.ready)
  BY <1>1 DEF Vacant, KernelState, ReadyExact
<1>4. /\ h \in Tasks
      /\ Tail(some.ready) \in Seq(Tasks)
      /\ IsInjective(Tail(some.ready))
      /\ \A x : Contains(Tail(some.ready), x) <=> x # h /\ Contains(some.ready, x)
  BY <1>1, <1>3, PopList
<1> HIDE DEF h, n
<1>5. /\ n.cur = h
      /\ n.status = [some.status EXCEPT ![h] = "RUNNING"]
      /\ n.ready = Tail(some.ready)
      /\ n.panic = some.panic
      /\ n \in KernelState
  <2>1. n = [cur |-> h, status |-> [some.status EXCEPT ![h] = "RUNNING"],
             ready |-> Tail(some.ready), ticks |-> some.ticks,
             idle |-> some.idle, panic |-> some.panic]
    BY <1>2, <1>3 DEF KernelState
  <2>2. QED
    BY <2>1, <1>3, <1>4 DEF KernelState, TaskStatus
<1>6. some.status \in [Tasks -> TaskStatus]
  BY <1>3 DEF KernelState
<1>7. ReadyExact(n)
  BY <1>1, <1>4, <1>5, <1>6 DEF ReadyExact, InReady, Vacant
<1>8. RunningIsCur(n)
  BY <1>1, <1>4, <1>5, <1>6 DEF RunningIsCur, Vacant
<1>9. n.status[Idle] \in {"RUNNING", "READY", "BLOCKED"}
  BY <1>1, <1>4, <1>5, <1>6 DEF Vacant, Tasks
<1>10. QED
  BY <1>1, <1>5, <1>7, <1>8, <1>9 DEF Coherent, Vacant, n

\* A preempted thread goes to the back of the ready list.
LEMMA RequeueVacant ==
  ASSUME NEW k, Coherent(k)
  PROVE  Vacant(Requeue(k))
<1> DEFINE n == Requeue(k)
<1> HIDE DEF n
<1>1. /\ k.cur \in Tasks
      /\ k.status[k.cur] = "RUNNING"
      /\ ~Contains(k.ready, k.cur)
      /\ k.ready \in Seq(Tasks) /\ IsInjective(k.ready)
  BY DEF Coherent, KernelState, RunningIsCur, ReadyExact, InReady
<1>2. n = [k EXCEPT !.ready = Append(@, k.cur), !.ticks[k.cur] = Priority[k.cur],
                    !.status[k.cur] = "READY"]
  BY <1>1 DEF Requeue, InReady, n
<1>3. n = [cur |-> k.cur, status |-> [k.status EXCEPT ![k.cur] = "READY"],
           ready |-> Append(k.ready, k.cur),
           ticks |-> [k.ticks EXCEPT ![k.cur] = Priority[k.cur]],
           idle |-> k.idle, panic |-> k.panic]
  BY <1>2 DEF Coherent, KernelState
<1>4. n \in KernelState
  BY <1>1, <1>3, AppendList, SchedulerAssumption DEF Coherent, KernelState, TaskStatus
<1>5. ReadyExact(n)
  BY <1>1, <1>3, AppendList DEF Coherent, ReadyExact, InReady, KernelState
<1>6. QED
  BY <1>1, <1>3, <1>4, <1>5 DEF Vacant, Coherent, RunningIsCur, KernelState, Tasks, n

\* schedule of a running thread, as the timer calls it.
LEMMA ScheduleCoherent ==
  ASSUME NEW k, Coherent(k)
  PROVE  Coherent(Schedule(k))
BY RequeueVacant, DispatchCoherent DEF Schedule

\* schedule of a thread that has marked itself as not running.
LEMMA ScheduleVacant ==
  ASSUME NEW k, Vacant(k)
  PROVE  Coherent(Schedule(k))
<1>1. Requeue(k) = k
  BY DEF Vacant, Requeue, KernelState
<1>2. QED
  BY <1>1, DispatchCoherent DEF Schedule

\* threadBlock; only the idle thread's own loop puts it to sleep, as BLOCKED.
LEMMA BlockCoherent ==
  ASSUME NEW k, Coherent(k), NEW st \in Asleep, k.cur = Idle => st = "BLOCKED"
  PROVE  Coherent(ThreadBlock(k, st))
<1> DEFINE n == [k EXCEPT !.status[k.cur] = st]
<1>1. /\ k.cur \in Tasks
      /\ k.status[k.cur] = "RUNNING"
      /\ ~Contains(k.ready, k.cur)
  BY DEF Coherent, KernelState, RunningIsCur, ReadyExact, InReady
<1>2. Vacant(n)
  BY <1>1 DEF Vacant, Coherent, KernelState, TaskStatus, Asleep, ReadyExact, InReady,
              RunningIsCur, Tasks
<1> HIDE DEF n
<1>3. ThreadBlock(k, st) = Schedule(n)
  BY <1>1 DEF ThreadBlock, InReady, n
<1>4. QED
  BY <1>2, <1>3, ScheduleVacant

\* threadYield up to its call of schedule
LEMMA YieldVacant ==
  ASSUME NEW k, Coherent(k)
  PROVE  LET n == [k EXCEPT !.ready = Append(@, k.cur), !.status[k.cur] = "READY"]
         IN  /\ Vacant(n)
             /\ n.cur = k.cur
             /\ n.status = [k.status EXCEPT ![k.cur] = "READY"]
<1> DEFINE n == [k EXCEPT !.ready = Append(@, k.cur), !.status[k.cur] = "READY"]
<1>1. /\ k.cur \in Tasks
      /\ k.status[k.cur] = "RUNNING"
      /\ ~Contains(k.ready, k.cur)
      /\ k.ready \in Seq(Tasks) /\ IsInjective(k.ready)
  BY DEF Coherent, KernelState, RunningIsCur, ReadyExact, InReady
<1> HIDE DEF n
<1>2. n = [cur |-> k.cur, status |-> [k.status EXCEPT ![k.cur] = "READY"],
           ready |-> Append(k.ready, k.cur), ticks |-> k.ticks,
           idle |-> k.idle, panic |-> k.panic]
  <2>1. n = [k EXCEPT !.ready = Append(@, k.cur), !.status[k.cur] = "READY"]
    BY DEF n
  <2>2. QED
    BY <2>1 DEF Coherent, KernelState
<1>3. n \in KernelState
  BY <1>1, <1>2, AppendList DEF Coherent, KernelState, TaskStatus
<1>4. ReadyExact(n)
  BY <1>1, <1>2, AppendList DEF Coherent, ReadyExact, InReady, KernelState
<1>5. Vacant(n)
  BY <1>1, <1>2, <1>3, <1>4 DEF Vacant, Coherent, RunningIsCur, KernelState, Tasks
<1>6. QED
  BY <1>2, <1>5 DEF n

\* threadYield
LEMMA YieldCoherent ==
  ASSUME NEW k, Coherent(k)
  PROVE  Coherent(ThreadYield(k))
<1>1. ~InReady(k, k.cur)
  BY DEF Coherent, KernelState, RunningIsCur, ReadyExact
<1>2. QED
  BY <1>1, YieldVacant, ScheduleVacant DEF ThreadYield

\* threadStart of a task that has no PCB
LEMMA StartCoherent ==
  ASSUME NEW k, Coherent(k), NEW t \in Tasks, k.status[t] = "DIED"
  PROVE  Coherent(ThreadStart(k, t))
<1> DEFINE n == ThreadStart(k, t)
<1> HIDE DEF n
<1>1. /\ ~Contains(k.ready, t)
      /\ k.ready \in Seq(Tasks) /\ IsInjective(k.ready)
  BY DEF Coherent, KernelState, ReadyExact, InReady
<1>2. n = [k EXCEPT !.status[t] = "READY", !.ready = Append(@, t),
                    !.ticks[t] = Priority[t]]
  BY <1>1 DEF ThreadStart, InReady, n
<1>3. n = [cur |-> k.cur, status |-> [k.status EXCEPT ![t] = "READY"],
           ready |-> Append(k.ready, t), ticks |-> [k.ticks EXCEPT ![t] = Priority[t]],
           idle |-> k.idle, panic |-> k.panic]
  BY <1>2 DEF Coherent, KernelState
<1>4. n \in KernelState
  BY <1>1, <1>3, AppendList, SchedulerAssumption DEF Coherent, KernelState, TaskStatus
<1>5. ReadyExact(n)
  BY <1>1, <1>3, AppendList DEF Coherent, ReadyExact, InReady, KernelState
<1>6. RunningIsCur(n)
  BY <1>3 DEF Coherent, RunningIsCur, KernelState
<1>7. QED
  BY <1>3, <1>4, <1>5, <1>6 DEF Coherent, KernelState, Tasks, n

\* threadExit of the running thread, before it calls schedule
LEMMA RetireCurVacant ==
  ASSUME NEW k, Coherent(k), k.cur # Idle
  PROVE  Vacant(Retire(k, k.cur))
<1>1. /\ k.cur \in Tasks
      /\ k.status[k.cur] = "RUNNING"
      /\ ~InReady(k, k.cur)
  BY DEF Coherent, KernelState, RunningIsCur, ReadyExact
<1> DEFINE n == Retire(k, k.cur)
<1> HIDE DEF n
<1>2. n = [cur |-> k.cur, status |-> [k.status EXCEPT ![k.cur] = "DIED"],
           ready |-> k.ready, ticks |-> k.ticks, idle |-> k.idle, panic |-> k.panic]
  <2>1. n = [k EXCEPT !.status[k.cur] = "DIED", !.ready = @]
    BY <1>1 DEF Retire, n
  <2>2. QED
    BY <2>1 DEF Coherent, KernelState
<1>3. QED
  BY <1>1, <1>2 DEF Vacant, Coherent, KernelState, TaskStatus, ReadyExact, InReady,
                    RunningIsCur, Tasks, n

\* threadExit of a thread that sleeps (sysWait, on a child that has exited)
LEMMA RetireCoherent ==
  ASSUME NEW k, Coherent(k), NEW t \in Threads, k.status[t] \in Asleep
  PROVE  Coherent(Retire(k, t))
<1>1. /\ t \in Tasks /\ t # Idle /\ t # k.cur
      /\ ~InReady(k, t)
  BY SchedulerAssumption DEF Coherent, KernelState, RunningIsCur, ReadyExact, Tasks, Asleep
<1> DEFINE n == Retire(k, t)
<1> HIDE DEF n
<1>2. n = [cur |-> k.cur, status |-> [k.status EXCEPT ![t] = "DIED"],
           ready |-> k.ready, ticks |-> k.ticks, idle |-> k.idle, panic |-> k.panic]
  <2>1. n = [k EXCEPT !.status[t] = "DIED", !.ready = @]
    BY <1>1 DEF Retire, n
  <2>2. QED
    BY <2>1 DEF Coherent, KernelState
<1>3. QED
  BY <1>1, <1>2 DEF Coherent, KernelState, TaskStatus, ReadyExact, InReady,
                    RunningIsCur, Tasks, Asleep, n

\* An interrupt entry touches only the idle thread's place in its loop.
LEMMA InterruptedKeeps ==
  ASSUME NEW k, Coherent(k)
  PROVE  /\ Coherent(Interrupted(k))
         /\ Interrupted(k).status = k.status
<1>1. CASE k.cur = Idle /\ k.idle = "hlt"
  <2>1. Interrupted(k) = [k EXCEPT !.idle = "loop"]
    BY <1>1 DEF Interrupted
  <2>2. QED
    BY <2>1 DEF Coherent, KernelState, IdlePoint, ReadyExact, InReady, RunningIsCur
<1>2. CASE ~(k.cur = Idle /\ k.idle = "hlt")
  BY <1>2 DEF Interrupted
<1>3. QED
  BY <1>1, <1>2

\* intrTimerHandler
LEMMA TickCoherent ==
  ASSUME NEW k, Coherent(k)
  PROVE  Coherent(TimerTick(k))
<1>1. CASE k.ticks[k.cur] = 0
  BY <1>1, ScheduleCoherent DEF TimerTick
<1>2. CASE k.ticks[k.cur] # 0
  <2>1. TimerTick(k) = [k EXCEPT !.ticks[k.cur] = @ - 1]
    BY <1>2 DEF TimerTick
  <2>2. k.cur \in Tasks /\ k.ticks[k.cur] - 1 \in Nat
    BY <1>2 DEF Coherent, KernelState
  <2> DEFINE n == TimerTick(k)
  <2> HIDE DEF n
  <2>3. n = [cur |-> k.cur, status |-> k.status, ready |-> k.ready,
             ticks |-> [k.ticks EXCEPT ![k.cur] = @ - 1],
             idle |-> k.idle, panic |-> k.panic]
    BY <2>1 DEF Coherent, KernelState, n
  <2>4. n \in KernelState
    BY <2>2, <2>3 DEF Coherent, KernelState
  <2>5. QED
    BY <2>3, <2>4 DEF Coherent, ReadyExact, InReady, RunningIsCur, n
<1>3. QED
  BY <1>1, <1>2

\* a step of the idle thread
LEMMA IdleCoherent ==
  ASSUME NEW k, Coherent(k), k.cur = Idle, k.idle # "hlt"
  PROVE  Coherent(IdleStep(k))
<1>1. CASE k.idle = "loop"
  <2> DEFINE n == [k EXCEPT !.idle = "return"]
  <2>1. Coherent(n) /\ n.cur = Idle
    BY DEF Coherent, KernelState, IdlePoint, ReadyExact, InReady, RunningIsCur
  <2>2. IdleStep(k) = ThreadBlock(n, "BLOCKED")
    BY <1>1 DEF IdleStep
  <2> HIDE DEF n
  <2>3. QED
    BY <2>1, <2>2, BlockCoherent DEF Asleep
<1>2. CASE k.idle = "return"
  <2>1. IdleStep(k) = [k EXCEPT !.idle = "hlt"]
    BY <1>2 DEF IdleStep
  <2>2. QED
    BY <2>1 DEF Coherent, KernelState, IdlePoint, ReadyExact, InReady, RunningIsCur
<1>3. QED
  BY <1>1, <1>2 DEF Coherent, KernelState, IdlePoint

\* the state threadInit leaves
LEMMA KernelInitCoherent == Coherent(KernelInit)
<1> USE SchedulerAssumption DEF Tasks
<1>1. KernelInit \in KernelState
  BY DEF KernelInit, KernelState, TaskStatus, IdlePoint
<1>2. ReadyExact(KernelInit)
  BY DEF KernelInit, ReadyExact, InReady, Contains, IsInjective
<1>3. QED
  BY <1>1, <1>2 DEF Coherent, KernelInit, RunningIsCur

-----------------------------------------------------------------------------
(* Who sleeps after an operation: scheduling moves tasks between READY and *)
(* RUNNING, and wakes nobody but the idle thread.                          *)

Awake == {"READY", "RUNNING"}

SameSleep(k, n, T) ==
  \A u \in T : IF k.status[u] \in Awake THEN n.status[u] \in Awake
                                        ELSE n.status[u] = k.status[u]

\* Switching to the next thread puts nobody to sleep and wakes only the idle thread.
LEMMA DispatchSleep ==
  ASSUME NEW k, Vacant(k)
  PROVE  SameSleep(k, Dispatch(k), Threads)
<1> DEFINE some == IF k.ready = <<>> THEN ThreadUnblock(k, Idle) ELSE k
           n == Dispatch(k)
           h == Head(some.ready)
<1>1. /\ Vacant(some) /\ some.ready # <<>>
      /\ SameSleep(k, some, Threads)
  <2>1. CASE k.ready = <<>>
    <3>1. k.status[Idle] \in Asleep
      BY <2>1 DEF Vacant, ReadyExact, InReady, Contains, Asleep, Tasks
    <3>2. some = ThreadUnblock(k, Idle)
      BY <2>1
    <3>3. k \in KernelState /\ ReadyExact(k) /\ ~k.panic /\ Idle \in Tasks
      BY DEF Vacant, Tasks
    <3>4. some.status = [k.status EXCEPT ![Idle] = "READY"]
      BY <3>1, <3>2, <3>3, UnblockEffect
    <3>5. Vacant(some) /\ some.ready # <<>>
      BY <3>1, <3>2, <3>3, UnblockKeeps
    <3> HIDE DEF some
    <3>6. QED
      BY <3>3, <3>4, <3>5, SchedulerAssumption DEF SameSleep, KernelState, Tasks
  <2>2. CASE k.ready # <<>>
    BY <2>2 DEF SameSleep
  <2>3. QED
    BY <2>1, <2>2
<1> HIDE DEF some
<1>2. n = [some EXCEPT !.cur = h, !.status[h] = "RUNNING", !.ready = Tail(@)]
  BY <1>1 DEF Dispatch, some, Vacant
<1>3. h \in Tasks /\ some.status[h] = "READY" /\ some.status \in [Tasks -> TaskStatus]
  BY <1>1, PopList DEF Vacant, KernelState, ReadyExact, InReady
<1> HIDE DEF h, n
<1>4. n.status = [some.status EXCEPT ![h] = "RUNNING"]
  BY <1>1, <1>2 DEF Vacant, KernelState
<1> HIDE DEF SameSleep
<1>5. SameSleep(some, n, Threads)
  BY <1>3, <1>4 DEF SameSleep, Awake, Tasks
<1>6. QED
  BY <1>1, <1>5 DEF SameSleep, n

\* threadBlock puts the current thread to sleep and changes nobody else's.
LEMMA BlockSleep ==
  ASSUME NEW k, Coherent(k), k.cur \in Threads, NEW st \in Asleep
  PROVE  /\ ThreadBlock(k, st).status[k.cur] = st
         /\ SameSleep(k, ThreadBlock(k, st), Threads \ {k.cur})
<1> DEFINE n == [k EXCEPT !.status[k.cur] = st]
<1>1. /\ k.cur \in Tasks /\ k.cur # Idle
      /\ k.status[k.cur] = "RUNNING"
      /\ ~Contains(k.ready, k.cur)
  BY SchedulerAssumption DEF Coherent, KernelState, RunningIsCur, ReadyExact, InReady
<1>2. /\ Vacant(n)
      /\ n.status = [k.status EXCEPT ![k.cur] = st]
      /\ n.cur = k.cur
  BY <1>1 DEF Vacant, Coherent, KernelState, TaskStatus, Asleep, ReadyExact, InReady,
              RunningIsCur, Tasks
<1> HIDE DEF n
<1>3. n.status[n.cur] = st /\ st # "RUNNING"
  BY <1>1, <1>2 DEF Coherent, KernelState, Asleep
<1>4. Requeue(n) = n
  BY <1>3 DEF Requeue
<1>5. ThreadBlock(k, st) = Dispatch(n)
  BY <1>1, <1>4 DEF ThreadBlock, InReady, Schedule, n
<1>6. SameSleep(n, Dispatch(n), Threads)
  BY <1>2, DispatchSleep
<1>7. QED
  BY <1>1, <1>2, <1>5, <1>6 DEF SameSleep, Coherent, KernelState, Tasks, Awake, Asleep

\* Neither does schedule as a whole.
LEMMA ScheduleSleep ==
  ASSUME NEW k, Coherent(k)
  PROVE  SameSleep(k, Schedule(k), Threads)
<1>1. /\ k.cur \in Tasks
      /\ k.status[k.cur] = "RUNNING"
      /\ ~InReady(k, k.cur)
  BY DEF Coherent, KernelState, RunningIsCur, ReadyExact
<1>2. Requeue(k).status = [k.status EXCEPT ![k.cur] = "READY"]
  <2> DEFINE n == Requeue(k)
  <2> HIDE DEF n
  <2>1. n = [k EXCEPT !.ready = Append(@, k.cur), !.ticks[k.cur] = Priority[k.cur],
                      !.status[k.cur] = "READY"]
    BY <1>1 DEF Requeue, n
  <2>2. QED
    BY <2>1 DEF Coherent, KernelState, n
<1>3. SameSleep(Requeue(k), Schedule(k), Threads)
  BY RequeueVacant, DispatchSleep DEF Schedule
<1>4. QED
  BY <1>1, <1>2, <1>3 DEF SameSleep, Coherent, KernelState, Tasks, Awake

\* Neither does threadYield.
LEMMA YieldSleep ==
  ASSUME NEW k, Coherent(k)
  PROVE  SameSleep(k, ThreadYield(k), Threads)
<1> DEFINE n == [k EXCEPT !.ready = Append(@, k.cur), !.status[k.cur] = "READY"]
<1>1. /\ k.cur \in Tasks
      /\ k.status[k.cur] = "RUNNING"
      /\ ~InReady(k, k.cur)
  BY DEF Coherent, KernelState, RunningIsCur, ReadyExact
<1>2. ThreadYield(k) = Schedule(n)
  BY <1>1 DEF ThreadYield
<1>3. Vacant(n) /\ n.status = [k.status EXCEPT ![k.cur] = "READY"] /\ n.cur = k.cur
  BY <1>1, YieldVacant
<1> HIDE DEF n
<1>4. Requeue(n) = n
  BY <1>1, <1>3 DEF Requeue, Coherent, KernelState
<1>5. SameSleep(n, ThreadYield(k), Threads)
  BY <1>2, <1>3, <1>4, DispatchSleep DEF Schedule
<1>6. QED
  BY <1>1, <1>3, <1>5 DEF SameSleep, Coherent, KernelState, Tasks, Awake

\* Neither does the timer interrupt.
LEMMA TickSleep ==
  ASSUME NEW k, Coherent(k)
  PROVE  SameSleep(k, TimerTick(k), Threads)
<1>1. CASE k.ticks[k.cur] = 0
  BY <1>1, ScheduleSleep DEF TimerTick
<1>2. CASE k.ticks[k.cur] # 0
  <2> DEFINE n == TimerTick(k)
  <2> HIDE DEF n
  <2>1. n = [k EXCEPT !.ticks[k.cur] = @ - 1]
    BY <1>2 DEF TimerTick, n
  <2>2. n.status = k.status
    BY <2>1 DEF Coherent, KernelState
  <2>3. QED
    BY <2>2 DEF SameSleep, n
<1>3. QED
  BY <1>1, <1>2

\* A step of the idle thread moves no other thread in or out of sleep.
LEMMA IdleSleep ==
  ASSUME NEW k, Coherent(k), k.cur = Idle, k.idle # "hlt"
  PROVE  SameSleep(k, IdleStep(k), Threads)
<1>1. CASE k.idle = "loop"
  <2> DEFINE m == [k EXCEPT !.idle = "return"]
             n == [m EXCEPT !.status[m.cur] = "BLOCKED"]
  <2>1. Coherent(m) /\ m.cur = Idle /\ m.status = k.status
    BY DEF Coherent, KernelState, IdlePoint, ReadyExact, InReady, RunningIsCur
  <2>2. IdleStep(k) = ThreadBlock(m, "BLOCKED")
    BY <1>1 DEF IdleStep
  <2> HIDE DEF m
  <2>3. /\ m.cur \in Tasks
        /\ m.status[m.cur] = "RUNNING"
        /\ ~InReady(m, m.cur)
    BY <2>1 DEF Coherent, KernelState, RunningIsCur, ReadyExact
  <2>4. /\ Vacant(n)
        /\ n.status = [m.status EXCEPT ![m.cur] = "BLOCKED"]
        /\ n.cur = m.cur
    BY <2>1, <2>3 DEF Vacant, Coherent, KernelState, TaskStatus, Asleep, ReadyExact,
                      InReady, RunningIsCur, Tasks
  <2> HIDE DEF n
  <2>5. Requeue(n) = n
    BY <2>1, <2>3, <2>4 DEF Requeue, Coherent, KernelState
  <2>6. IdleStep(k) = Dispatch(n)
    BY <2>2, <2>3, <2>5 DEF ThreadBlock, Schedule, n
  <2>7. SameSleep(n, IdleStep(k), Threads)
    BY <2>4, <2>6, DispatchSleep
  <2>8. QED
    BY <2>1, <2>4, <2>7, SchedulerAssumption DEF SameSleep, Coherent, KernelState, Tasks
<1>2. CASE k.idle = "return"
  <2>1. IdleStep(k) = [k EXCEPT !.idle = "hlt"]
    BY <1>2 DEF IdleStep
  <2>2. IdleStep(k).status = k.status
    BY <2>1 DEF Coherent, KernelState
  <2>3. QED
    BY <2>2 DEF SameSleep
<1>3. QED
  BY <1>1, <1>2 DEF Coherent, KernelState, IdlePoint

-----------------------------------------------------------------------------
(* How sync.c wakes the threads of a list. *)

\* A set of naturals that is not empty has a smallest element.
LEMMA Smallest ==
  ASSUME NEW S \in SUBSET Nat, S # {}
  PROVE  \E n \in S : \A m \in S : n <= m
<1> DEFINE R == {p \in Nat \X Nat : p[1] < p[2]}
<1>1. IsWellFoundedOn(R, Nat)
  BY NatLessThanWellFounded DEF OpToRel
<1>2. \E n \in S : \A m \in S : ~(<<m, n>> \in R)
  <2> HIDE DEF R
  <2>1. QED
    BY <1>1, WFMin
<1>3. \A m, n \in S : ~(<<m, n>> \in R) => n <= m
  <2>1. TAKE m, n \in S
  <2>2. /\ <<m, n>> \in Nat \X Nat /\ <<m, n>>[1] = m /\ <<m, n>>[2] = n
        /\ m \in Nat /\ n \in Nat
    OBVIOUS
  <2>3. QED
    BY <2>2
<1>4. QED
  BY <1>2, <1>3

\* Whatever is on the blocked list, semaUp wakes at most one thread that is BLOCKED.
LEMMA WakeFirstAny ==
  ASSUME NEW k, Coherent(k), NEW list \in Seq(Threads)
  PROVE  /\ Coherent(WakeFirst(k, list))
         /\ DropFirst(k, list) \in Seq(Threads)
         /\ \A u \in Threads : \/ WakeFirst(k, list).status[u] = k.status[u]
                               \/ k.status[u] = "BLOCKED" /\ Contains(list, u)
<1>1. CASE BlockedAt(k, list) = {}
  <2>1. WakeFirst(k, list) = k /\ DropFirst(k, list) = <<>>
    BY <1>1 DEF WakeFirst, DropFirst
  <2>2. QED
    BY <2>1
<1>2. CASE BlockedAt(k, list) # {}
  <2> DEFINE i == FirstBlocked(k, list)
  <2>1. BlockedAt(k, list) \in SUBSET Nat
    BY DEF BlockedAt
  <2>2. \E n \in BlockedAt(k, list) : \A m \in BlockedAt(k, list) : n <= m
    BY <1>2, <2>1, Smallest
  <2>3. i \in BlockedAt(k, list)
    BY <2>2 DEF FirstBlocked
  <2> HIDE DEF i
  <2>4. /\ i \in 1 .. Len(list) /\ list[i] \in Threads /\ k.status[list[i]] = "BLOCKED"
        /\ Contains(list, list[i])
    BY <2>3 DEF BlockedAt, Contains
  <2>5. WakeFirst(k, list) = ThreadUnblock(k, list[i]) /\ DropFirst(k, list) = SubSeq(list, i + 1, Len(list))
    BY <1>2 DEF WakeFirst, DropFirst, i
  <2>6. DropFirst(k, list) \in Seq(Threads)
    BY <2>4, <2>5
  <2> DEFINE h == list[i]
  <2>7. h \in Threads /\ h \in Tasks /\ k.status[h] \in Asleep /\ k \in KernelState /\ ReadyExact(k) /\ ~k.panic
    BY <2>4 DEF Coherent, Tasks, Asleep
  <2> HIDE DEF h
  <2>8. Coherent(ThreadUnblock(k, h)) /\ ThreadUnblock(k, h).status = [k.status EXCEPT ![h] = "READY"]
    BY <2>7, UnblockKeeps, UnblockEffect
  <2>9. \A u \in Threads : u # h => ThreadUnblock(k, h).status[u] = k.status[u]
    BY <2>7, <2>8 DEF KernelState, Tasks
  <2>10. h = list[i] /\ k.status[h] = "BLOCKED" /\ Contains(list, h) /\ WakeFirst(k, list) = ThreadUnblock(k, h)
    BY <2>4, <2>5 DEF h
  <2> DEFINE n == ThreadUnblock(k, h)
  <2> HIDE DEF n
  <2>11. Coherent(n) /\ WakeFirst(k, list) = n /\ \A u \in Threads : u # h => n.status[u] = k.status[u]
    BY <2>8, <2>9, <2>10 DEF n
  <2>12. QED
    BY <2>6, <2>10, <2>11
<1>3. QED
  BY <1>1, <1>2

\* With every thread on the blocked list BLOCKED, semaUp wakes the first one.
LEMMA WakeFirstEffect ==
  ASSUME NEW k, Coherent(k), NEW list \in Seq(Threads), IsInjective(list),
         \A u \in Threads : Contains(list, u) <=> k.status[u] = "BLOCKED"
  PROVE  /\ Coherent(WakeFirst(k, list))
         /\ WakeFirst(k, list).cur = k.cur
         /\ DropFirst(k, list) \in Seq(Threads)
         /\ IsInjective(DropFirst(k, list))
         /\ list = <<>> => WakeFirst(k, list) = k /\ DropFirst(k, list) = <<>>
         /\ list # <<>> =>
              /\ Head(list) \in Threads
              /\ k.status[Head(list)] = "BLOCKED"
              /\ WakeFirst(k, list).status = [k.status EXCEPT ![Head(list)] = "READY"]
              /\ \A u : Contains(DropFirst(k, list), u)
                          <=> u # Head(list) /\ Contains(list, u)
<1>1. CASE list = <<>>
  <2>1. BlockedAt(k, list) = {}
    BY <1>1 DEF BlockedAt
  <2>2. QED
    BY <1>1, <2>1 DEF WakeFirst, DropFirst, IsInjective
<1>2. CASE list # <<>>
  <2>1. BlockedAt(k, list) = 1 .. Len(list) /\ 1 \in 1 .. Len(list)
    BY <1>2 DEF BlockedAt, Contains
  <2>2. FirstBlocked(k, list) = 1
    BY <2>1 DEF FirstBlocked
  <2>3. Head(list) = list[1] /\ Head(list) \in Threads /\ k.status[Head(list)] = "BLOCKED"
    BY <1>2, <2>1 DEF Contains
  <2>4. DropFirst(k, list) = Tail(list)
    BY <1>2, <2>1, <2>2, TailIsSubSeq DEF DropFirst
  <2>5. WakeFirst(k, list) = ThreadUnblock(k, Head(list))
    BY <2>1, <2>2, <2>3 DEF WakeFirst
  <2>6. k \in KernelState /\ ReadyExact(k) /\ ~k.panic
        /\ Head(list) \in Tasks /\ k.status[Head(list)] \in Asleep
    BY <2>3 DEF Coherent, Tasks, Asleep
  <2>7. Coherent(WakeFirst(k, list))
    BY <2>5, <2>6, UnblockKeeps
  <2>8. /\ WakeFirst(k, list).cur = k.cur
        /\ WakeFirst(k, list).status = [k.status EXCEPT ![Head(list)] = "READY"]
    <3> DEFINE h == Head(list)
    <3> HIDE DEF h
    <3>1. h \in Tasks /\ k.status[h] \in Asleep
      BY <2>6 DEF h
    <3>2. /\ ThreadUnblock(k, h).cur = k.cur
          /\ ThreadUnblock(k, h).status = [k.status EXCEPT ![h] = "READY"]
      BY <2>6, <3>1, UnblockEffect
    <3>3. QED
      BY <2>5, <3>2 DEF h
  <2>9. QED
    BY <1>2, <2>3, <2>4, <2>7, <2>8, PopList
<1>3. QED
  BY <1>1, <1>2

\* lockNotifyAll wakes every thread on a list of sleepers: the new kernel state.
LEMMA WakeAllEffect ==
  ASSUME NEW k, Coherent(k), NEW list \in Seq(Threads), IsInjective(list),
         \A u \in Threads : Contains(list, u) => k.status[u] \in Asleep
  PROVE  /\ Coherent(WakeAll(k, list))
         /\ WakeAll(k, list).status =
              [u \in Tasks |-> IF Contains(list, u) THEN "READY" ELSE k.status[u]]
<1> DEFINE n == WakeAll(k, list)
           rev == Reverse(list)
           all == rev \o k.ready
<1>1. /\ k.ready \in Seq(Tasks) /\ IsInjective(k.ready)
      /\ \A u \in Tasks : Contains(k.ready, u) <=> k.status[u] = "READY"
      /\ k.status \in [Tasks -> TaskStatus] /\ Threads \subseteq Tasks
  BY DEF Coherent, KernelState, ReadyExact, InReady, Tasks
<1>2. \A i \in 1 .. Len(list) : list[i] \in Threads /\ Contains(list, list[i])
  BY DEF Contains
<1>3. \A i \in DOMAIN list : ~InReady(k, list[i]) /\ k.status[list[i]] \in Asleep
  BY <1>1, <1>2 DEF InReady, Asleep
<1> HIDE DEF n
<1>4. n = [k EXCEPT !.status = [u \in Tasks |-> IF Contains(list, u) THEN "READY"
                                                ELSE k.status[u]],
                    !.ready = all]
  BY <1>3 DEF WakeAll, n
<1> HIDE DEF all
<1>5. n = [cur |-> k.cur,
           status |-> [u \in Tasks |-> IF Contains(list, u) THEN "READY" ELSE k.status[u]],
           ready |-> all, ticks |-> k.ticks, idle |-> k.idle, panic |-> k.panic]
  BY <1>4 DEF Coherent, KernelState
<1>6. /\ rev \in Seq(Tasks) /\ Len(rev) = Len(list)
      /\ \A i \in 1 .. Len(list) : rev[i] = list[Len(list) - i + 1]
  BY <1>1 DEF Reverse
<1> HIDE DEF rev
<1>7. /\ all \in Seq(Tasks)
      /\ Len(all) = Len(list) + Len(k.ready)
      /\ \A i \in 1 .. Len(list) + Len(k.ready) :
           all[i] = IF i <= Len(list) THEN rev[i] ELSE k.ready[i - Len(list)]
  <2>1. /\ rev \o k.ready \in Seq(Tasks)
        /\ Len(rev \o k.ready) = Len(rev) + Len(k.ready)
        /\ \A i \in 1 .. Len(rev) + Len(k.ready) :
             (rev \o k.ready)[i] = IF i <= Len(rev) THEN rev[i] ELSE k.ready[i - Len(rev)]
    <3>1. rev \in Seq(Tasks)
      BY <1>6
    <3>2. k.ready \in Seq(Tasks)
      BY <1>1
    <3>3. QED
      BY <3>1, <3>2, ConcatProperties
  <2>2. all = rev \o k.ready
    BY DEF all
  <2>3. QED
    BY <1>6, <2>1, <2>2, Zenon
<1>front. \A i \in 1 .. Len(list) : /\ Len(list) - i + 1 \in 1 .. Len(list)
                                   /\ all[i] = list[Len(list) - i + 1]
  <2>1. TAKE i \in 1 .. Len(list)
  <2>2. Len(list) \in Nat /\ Len(k.ready) \in Nat
    BY <1>1
  <2>3. /\ Len(list) - i + 1 \in 1 .. Len(list)
        /\ i <= Len(list) /\ i \in 1 .. Len(list) + Len(k.ready)
    BY <2>2
  <2>4. all[i] = rev[i]
    BY <1>7, <2>3, Zenon
  <2>5. rev[i] = list[Len(list) - i + 1]
    BY <1>6
  <2>6. QED
    BY <2>3, <2>4, <2>5
<1>back. \A i \in 1 .. Len(all) : i > Len(list) =>
            /\ i - Len(list) \in 1 .. Len(k.ready)
            /\ all[i] = k.ready[i - Len(list)]
  <2>1. TAKE i \in 1 .. Len(all)
  <2>2. HAVE i > Len(list)
  <2>3. Len(list) \in Nat /\ Len(k.ready) \in Nat
    BY <1>1
  <2>4. /\ i \in 1 .. Len(list) + Len(k.ready)
        /\ i - Len(list) \in 1 .. Len(k.ready) /\ ~(i <= Len(list))
    BY <1>7, <2>2, <2>3
  <2>5. all[i] = k.ready[i - Len(list)]
    BY <1>7, <2>4, Zenon
  <2>6. QED
    BY <2>4, <2>5
<1>8. \A u : Contains(all, u) <=> Contains(list, u) \/ Contains(k.ready, u)
  <2>1. ASSUME NEW u, Contains(all, u) PROVE Contains(list, u) \/ Contains(k.ready, u)
    <3>1. PICK i \in 1 .. Len(list) + Len(k.ready) : all[i] = u
      BY <1>7, <2>1 DEF Contains
    <3>2. CASE i <= Len(list)
      <4>1. Len(list) - i + 1 \in 1 .. Len(list) /\ list[Len(list) - i + 1] = u
        BY <1>front, <3>1, <3>2
      <4>2. QED
        BY <4>1 DEF Contains
    <3>3. CASE i > Len(list)
      <4>1. i - Len(list) \in 1 .. Len(k.ready) /\ k.ready[i - Len(list)] = u
        BY <1>7, <1>back, <3>1, <3>3
      <4>2. QED
        BY <4>1 DEF Contains
    <3>4. QED
      BY <3>1, <3>2, <3>3
  <2>2. ASSUME NEW u, Contains(list, u) PROVE Contains(all, u)
    <3>1. PICK i \in 1 .. Len(list) : list[i] = u
      BY <2>2 DEF Contains
    <3>2. Len(list) - i + 1 \in 1 .. Len(list)
      BY <3>1
    <3>3. rev[Len(list) - i + 1] = list[Len(list) - (Len(list) - i + 1) + 1]
      BY <1>6, <3>2
    <3>4. Len(list) - (Len(list) - i + 1) + 1 = i
      BY <3>1
    <3>5. all[Len(list) - i + 1] = u /\ Len(list) - i + 1 \in 1 .. Len(all)
      BY <1>1, <1>7, <3>1, <3>2, <3>3, <3>4
    <3>6. QED
      BY <3>5 DEF Contains
  <2>3. ASSUME NEW u, Contains(k.ready, u) PROVE Contains(all, u)
    <3>1. PICK i \in 1 .. Len(k.ready) : k.ready[i] = u
      BY <2>3 DEF Contains
    <3>2. all[Len(list) + i] = u /\ Len(list) + i \in 1 .. Len(all)
      <4>1. Len(list) \in Nat /\ Len(k.ready) \in Nat
        BY <1>1
      <4>2. /\ Len(list) + i \in 1 .. Len(list) + Len(k.ready)
            /\ ~(Len(list) + i <= Len(list))
            /\ (Len(list) + i) - Len(list) = i
        BY <4>1
      <4>3. all[Len(list) + i] = k.ready[(Len(list) + i) - Len(list)]
        BY <1>7, <4>2, Zenon
      <4>4. QED
        BY <1>7, <3>1, <4>2, <4>3
    <3>3. QED
      BY <3>2 DEF Contains
  <2>4. QED
    BY <2>1, <2>2, <2>3
<1>9. IsInjective(all)
  <2>1. SUFFICES ASSUME NEW i \in 1 .. Len(all), NEW j \in 1 .. Len(all), all[i] = all[j]
                 PROVE  i = j
    BY <1>7 DEF IsInjective
  <2>2. CASE i <= Len(list) /\ j <= Len(list)
    <3>1. list[Len(list) - i + 1] = list[Len(list) - j + 1]
      BY <1>front, <2>1, <2>2
    <3>2. Len(list) - i + 1 \in 1 .. Len(list) /\ Len(list) - j + 1 \in 1 .. Len(list)
      BY <1>front, <2>2
    <3>3. Len(list) - i + 1 = Len(list) - j + 1
      BY <3>1, <3>2 DEF IsInjective
    <3>4. QED
      BY <1>7, <3>3
  <2>3. CASE i > Len(list) /\ j > Len(list)
    <3>1. /\ i - Len(list) \in 1 .. Len(k.ready) /\ j - Len(list) \in 1 .. Len(k.ready)
          /\ k.ready[i - Len(list)] = k.ready[j - Len(list)]
      BY <1>back, <2>1, <2>3
    <3>2. i - Len(list) = j - Len(list)
      BY <1>1, <3>1 DEF IsInjective
    <3>3. QED
      BY <1>7, <3>2
  <2>4. ASSUME NEW p \in 1 .. Len(list), NEW q \in 1 .. Len(k.ready)
        PROVE  list[p] # k.ready[q]
    BY <1>1, <1>2, <1>3 DEF InReady, Contains
  <2>5. CASE i <= Len(list) /\ j > Len(list)
    <3>1. /\ i \in 1 .. Len(list)
          /\ Len(list) - i + 1 \in 1 .. Len(list)
          /\ j - Len(list) \in 1 .. Len(k.ready)
      BY <1>front, <1>back, <2>5
    <3>2. all[i] = list[Len(list) - i + 1]
      BY <1>front, <3>1
    <3>3. all[j] = k.ready[j - Len(list)]
      BY <1>back, <2>5
    <3>4. QED
      BY <2>1, <2>4, <3>1, <3>2, <3>3
  <2>6. CASE i > Len(list) /\ j <= Len(list)
    <3>1. /\ j \in 1 .. Len(list)
          /\ Len(list) - j + 1 \in 1 .. Len(list)
          /\ i - Len(list) \in 1 .. Len(k.ready)
      BY <1>front, <1>back, <2>6
    <3>2. all[j] = list[Len(list) - j + 1]
      BY <1>front, <3>1
    <3>3. all[i] = k.ready[i - Len(list)]
      BY <1>back, <2>6
    <3>4. QED
      BY <2>1, <2>4, <3>1, <3>2, <3>3
  <2>7. QED
    BY <1>7, <2>2, <2>3, <2>5, <2>6
<1>10. \A u \in Tasks : Contains(list, u) => u \in Threads /\ k.status[u] \in Asleep
  BY <1>2 DEF Contains
<1>11. n \in KernelState
  BY <1>1, <1>5, <1>7 DEF Coherent, KernelState, TaskStatus
<1>12. ReadyExact(n)
  BY <1>1, <1>5, <1>8, <1>9, <1>10 DEF ReadyExact, InReady, Asleep
<1>13. RunningIsCur(n)
  BY <1>1, <1>5, <1>10 DEF Coherent, RunningIsCur, Asleep
<1>14. n.status[Idle] \in {"RUNNING", "READY", "BLOCKED"}
  BY <1>5 DEF Coherent, Tasks
<1>15. QED
  BY <1>5, <1>11, <1>12, <1>13, <1>14 DEF Coherent, n


-----------------------------------------------------------------------------
(* Whatever the state, even after a failed ASSERT, an operation leaves a   *)
(* kernel state.                                                           *)

\* An ASSERT changes nothing but the panic flag.
LEMMA AssertedTyped ==
  ASSUME NEW k \in KernelState, NEW cond
  PROVE  Panicked(k) \in KernelState /\ Asserted(cond, k) \in KernelState
BY DEF Asserted, Panicked, KernelState

\* threadUnblock
LEMMA UnblockTyped ==
  ASSUME NEW k \in KernelState, NEW t \in Tasks
  PROVE  /\ ThreadUnblock(k, t) \in KernelState
         /\ ~ThreadUnblock(k, t).panic => ThreadUnblock(k, t).ready # <<>>
<1> DEFINE n == ThreadUnblock(k, t)
<1>1. CASE InReady(k, t) \/ k.status[t] \notin Asleep
  <2>1. ThreadUnblock(k, t) = Panicked(k)
    BY <1>1 DEF ThreadUnblock
  <2>2. QED
    BY <2>1 DEF Panicked, KernelState
<1>2. CASE ~(InReady(k, t) \/ k.status[t] \notin Asleep)
  <2>1. n = [k EXCEPT !.status[t] = "READY", !.ready = <<t>> \o @]
    BY <1>2 DEF ThreadUnblock
  <2> HIDE DEF n
  <2>2. n = [cur |-> k.cur, status |-> [k.status EXCEPT ![t] = "READY"],
             ready |-> <<t>> \o k.ready, ticks |-> k.ticks,
             idle |-> k.idle, panic |-> k.panic]
    BY <2>1 DEF KernelState
  <2>3. /\ <<t>> \o k.ready \in Seq(Tasks) /\ <<t>> \o k.ready # <<>>
        /\ [k.status EXCEPT ![t] = "READY"] \in [Tasks -> TaskStatus]
    BY DEF KernelState, TaskStatus
  <2>4. QED
    BY <2>2, <2>3 DEF KernelState, n
<1>3. QED
  BY <1>1, <1>2

\* the two halves of schedule
LEMMA ScheduleTyped ==
  ASSUME NEW k \in KernelState
  PROVE  Schedule(k) \in KernelState
<1>1. Requeue(k) \in KernelState
  <2>1. CASE k.status[k.cur] # "RUNNING"
    BY <2>1 DEF Requeue
  <2>2. CASE k.status[k.cur] = "RUNNING" /\ InReady(k, k.cur)
    <3>1. Requeue(k) = Panicked(k)
      BY <2>2 DEF Requeue
    <3>2. QED
      BY <3>1, AssertedTyped
  <2>3. CASE k.status[k.cur] = "RUNNING" /\ ~InReady(k, k.cur)
    <3>1. Requeue(k) = [k EXCEPT !.ready = Append(@, k.cur),
                                 !.ticks[k.cur] = Priority[k.cur],
                                 !.status[k.cur] = "READY"]
      BY <2>3 DEF Requeue
    <3>2. Requeue(k) = [cur |-> k.cur, status |-> [k.status EXCEPT ![k.cur] = "READY"],
                        ready |-> Append(k.ready, k.cur),
                        ticks |-> [k.ticks EXCEPT ![k.cur] = Priority[k.cur]],
                        idle |-> k.idle, panic |-> k.panic]
      BY <3>1 DEF KernelState
    <3>3. QED
      BY <3>2, SchedulerAssumption DEF KernelState, TaskStatus
  <2>4. QED
    BY <2>1, <2>2, <2>3
<1> DEFINE r == Requeue(k)
           some == IF r.ready = <<>> THEN ThreadUnblock(r, Idle) ELSE r
           h == Head(some.ready)
<1> HIDE DEF r
<1>2. r \in KernelState
  BY <1>1 DEF r
<1>3. some \in KernelState /\ (~some.panic => some.ready # <<>>)
  BY <1>2, UnblockTyped DEF Tasks
<1>4. Dispatch(r) = IF some.panic THEN some
                    ELSE [some EXCEPT !.cur = h, !.status[h] = "RUNNING", !.ready = Tail(@)]
  BY DEF Dispatch
<1> HIDE DEF some
<1>5. CASE some.panic
  BY <1>3, <1>4, <1>5 DEF Schedule, r
<1>6. CASE ~some.panic
  <2>1. some.ready \in Seq(Tasks) /\ some.ready # <<>>
    BY <1>3, <1>6 DEF KernelState
  <2>2. h \in Tasks /\ Tail(some.ready) \in Seq(Tasks)
    BY <2>1
  <2> HIDE DEF h
  <2>3. Dispatch(r) = [cur |-> h, status |-> [some.status EXCEPT ![h] = "RUNNING"],
                       ready |-> Tail(some.ready), ticks |-> some.ticks,
                       idle |-> some.idle, panic |-> some.panic]
    BY <1>3, <1>4, <1>6 DEF KernelState
  <2>4. Dispatch(r) \in KernelState
    BY <1>3, <2>2, <2>3 DEF KernelState, TaskStatus
  <2>5. QED
    BY <2>4 DEF Schedule, r
<1>7. QED
  BY <1>5, <1>6

\* threadBlock
LEMMA BlockTyped ==
  ASSUME NEW k \in KernelState, NEW st \in Asleep
  PROVE  ThreadBlock(k, st) \in KernelState
<1> DEFINE n == [k EXCEPT !.status[k.cur] = st]
<1>1. n \in KernelState
  BY DEF KernelState, TaskStatus, Asleep
<1> HIDE DEF n
<1>2. ThreadBlock(k, st) = IF InReady(k, k.cur) THEN Panicked(k) ELSE Schedule(n)
  BY DEF ThreadBlock, n
<1>3. QED
  BY <1>1, <1>2, AssertedTyped, ScheduleTyped

\* threadStart
LEMMA StartTyped ==
  ASSUME NEW k \in KernelState, NEW t \in Tasks
  PROVE  ThreadStart(k, t) \in KernelState
<1>1. CASE InReady(k, t)
  BY <1>1, AssertedTyped DEF ThreadStart
<1>2. CASE ~InReady(k, t)
  <2>1. ThreadStart(k, t) = [k EXCEPT !.status[t] = "READY", !.ready = Append(@, t),
                                      !.ticks[t] = Priority[t]]
    BY <1>2 DEF ThreadStart
  <2>2. ThreadStart(k, t) = [cur |-> k.cur, status |-> [k.status EXCEPT ![t] = "READY"],
                             ready |-> Append(k.ready, t),
                             ticks |-> [k.ticks EXCEPT ![t] = Priority[t]],
                             idle |-> k.idle, panic |-> k.panic]
    BY <2>1 DEF KernelState
  <2>3. QED
    BY <2>2, SchedulerAssumption DEF KernelState, TaskStatus
<1>3. QED
  BY <1>1, <1>2

\* the wakeup of a whole list
LEMMA WakeAllTyped ==
  ASSUME NEW k \in KernelState, NEW list \in Seq(Tasks)
  PROVE  WakeAll(k, list) \in KernelState
<1> DEFINE all == Reverse(list) \o k.ready
           status == [t \in Tasks |-> IF Contains(list, t) THEN "READY" ELSE k.status[t]]
           woken == [k EXCEPT !.status = status, !.ready = all]
<1>1. Reverse(list) \in Seq(Tasks)
  BY DEF Reverse
<1>2. all \in Seq(Tasks)
  BY <1>1, ConcatProperties DEF KernelState
<1>3. status \in [Tasks -> TaskStatus]
  BY DEF KernelState, TaskStatus
<1>4. WakeAll(k, list) \in {Panicked(k), woken}
  BY DEF WakeAll
<1> HIDE DEF all, status
<1>5. woken \in KernelState
  BY <1>2, <1>3 DEF KernelState
<1>6. QED
  BY <1>4, <1>5, AssertedTyped

\* the interrupts and the idle loop
LEMMA TickTyped ==
  ASSUME NEW k \in KernelState
  PROVE  Interrupted(k) \in KernelState /\ TimerTick(k) \in KernelState
<1>1. Interrupted(k) \in KernelState
  BY DEF Interrupted, KernelState, IdlePoint
<1>2. CASE k.ticks[k.cur] = 0
  BY <1>1, <1>2, ScheduleTyped DEF TimerTick
<1>3. CASE k.ticks[k.cur] # 0
  <2>1. TimerTick(k) = [k EXCEPT !.ticks[k.cur] = @ - 1]
    BY <1>3 DEF TimerTick
  <2>2. k.ticks[k.cur] - 1 \in Nat
    BY <1>3 DEF KernelState
  <2>3. TimerTick(k) = [cur |-> k.cur, status |-> k.status, ready |-> k.ready,
                        ticks |-> [k.ticks EXCEPT ![k.cur] = @ - 1],
                        idle |-> k.idle, panic |-> k.panic]
    BY <2>1 DEF KernelState
  <2>4. QED
    BY <1>1, <2>2, <2>3 DEF KernelState
<1>4. QED
  BY <1>2, <1>3

\* the idle thread's loop
LEMMA IdleTyped ==
  ASSUME NEW k \in KernelState, k.idle # "hlt"
  PROVE  IdleStep(k) \in KernelState
<1>1. CASE k.idle = "loop"
  <2>1. [k EXCEPT !.idle = "return"] \in KernelState
    BY DEF KernelState, IdlePoint
  <2>2. IdleStep(k) = ThreadBlock([k EXCEPT !.idle = "return"], "BLOCKED")
    BY <1>1 DEF IdleStep
  <2>3. QED
    BY <2>1, <2>2, BlockTyped DEF Asleep
<1>2. CASE k.idle = "return"
  <2>1. IdleStep(k) = [k EXCEPT !.idle = "hlt"]
    BY <1>2 DEF IdleStep
  <2>2. QED
    BY <2>1 DEF KernelState, IdlePoint
<1>3. QED
  BY <1>1, <1>2 DEF KernelState, IdlePoint
=============================================================================
