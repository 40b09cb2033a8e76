------------------------------ MODULE Thread --------------------------------
(***************************************************************************)
(* The threads of gogoos and their scheduling: kernel/thread/thread.c, the *)
(* timer interrupt of device/timer.c and the TaskStruct of thread.h.       *)
(*                                                                         *)
(* One CPU, one ready list.  Everything that touches the ready list runs   *)
(* with interrupts off, so each operation is one step; it is written as an *)
(* operator from a kernel state to a kernel state so that the modules of   *)
(* the synchronisation primitives and of the drivers can compose several   *)
(* of them in one interrupts-off region, as the code does.                 *)
(*                                                                         *)
(* A kernel state is a record                                              *)
(*   cur     the thread on the CPU (getCurrentThread)                      *)
(*   status  TaskStruct.status of every task; a task without a PCB is DIED *)
(*   ready   threadReadyList, head first                                   *)
(*   ticks   TaskStruct.ticks                                              *)
(*   idle    where the idle thread is in its loop                          *)
(*   panic   an ASSERT or a PANIC was hit: the machine spins for ever      *)
(***************************************************************************)
EXTENDS Integers, Sequences, SequencesExt

CONSTANTS Threads,    \* the threads other than the idle thread
          Idle,       \* idleThread
          Main,       \* mainThread, the thread the kernel boots in
          Priority    \* TaskStruct.priority of every task

Tasks == Threads \cup {Idle}

ASSUME SchedulerAssumption ==
  /\ Idle \notin Threads
  /\ Main \in Threads
  /\ Priority \in [Tasks -> Nat]

TaskStatus == {"RUNNING", "READY", "BLOCKED", "WAITING", "HANGING", "DIED"}

\* the statuses threadBlock accepts and threadUnblock expects
Asleep == {"BLOCKED", "WAITING", "HANGING"}

\* idleThreadFunc: about to call threadBlock; back from it with interrupts
\* on; halted
IdlePoint == {"loop", "return", "hlt"}

KernelState == [cur: Tasks, status: [Tasks -> TaskStatus], ready: Seq(Tasks),
                ticks: [Tasks -> Nat], idle: IdlePoint, panic: BOOLEAN]

Panicked(k) == [k EXCEPT !.panic = TRUE]

\* ASSERT(cond): k if it holds, the end of the machine otherwise
Asserted(cond, k) == IF cond THEN k ELSE Panicked(k)

InReady(k, t) == Contains(k.ready, t)

-----------------------------------------------------------------------------
(* The operations, on kernel states *)

\* threadUnblock: the woken thread goes to the FRONT of the ready list
ThreadUnblock(k, t) ==
  IF InReady(k, t) \/ k.status[t] \notin Asleep
  THEN Panicked(k)
  ELSE [k EXCEPT !.status[t] = "READY", !.ready = <<t>> \o @]

\* mutants of Requeue: the preempted thread keeps its status; the list is
\* pushed instead of appended
RequeueRunning(k) ==
  IF k.status[k.cur] # "RUNNING" THEN k
  ELSE [k EXCEPT !.ready = Append(@, k.cur), !.ticks[k.cur] = Priority[k.cur]]

RequeueFront(k) ==
  IF k.status[k.cur] # "RUNNING" THEN k
  ELSE [k EXCEPT !.ready = <<k.cur>> \o @,
                 !.ticks[k.cur] = Priority[k.cur],
                 !.status[k.cur] = "READY"]

\* the first half of schedule: a thread that is preempted, not blocked, goes
\* to the back of the list with a new time slice
Requeue(k) ==
  IF k.status[k.cur] # "RUNNING" THEN k
  ELSE IF InReady(k, k.cur) THEN Panicked(k)
  ELSE [k EXCEPT !.ready = Append(@, k.cur),
                 !.ticks[k.cur] = Priority[k.cur],
                 !.status[k.cur] = "READY"]

\* the second half: wake the idle thread when nothing is ready, switch
Dispatch(k) ==
  LET some == IF k.ready = <<>> THEN ThreadUnblock(k, Idle) ELSE k
  IN IF some.panic THEN some
     ELSE [some EXCEPT !.cur = Head(some.ready),
                       !.status[Head(some.ready)] = "RUNNING",
                       !.ready = Tail(@)]

Schedule(k) == Dispatch(Requeue(k))

ThreadBlock(k, st) ==
  IF InReady(k, k.cur) THEN Panicked(k)
  ELSE Schedule([k EXCEPT !.status[k.cur] = st])

\* threadYield does not refill the time slice: only schedule does, and it
\* sees a thread that is already READY
ThreadYield(k) ==
  IF InReady(k, k.cur) THEN Panicked(k)
  ELSE Schedule([k EXCEPT !.ready = Append(@, k.cur),
                          !.status[k.cur] = "READY"])

\* the ASSERT of threadStart on a new PCB, whose memory threadCreate cleared
ThreadStart(k, t) ==
  IF InReady(k, t) THEN Panicked(k)
  ELSE [k EXCEPT !.status[t] = "READY", !.ready = Append(@, t),
                 !.ticks[t] = Priority[t]]

\* threadExit up to its optional call of schedule
Retire(k, t) == [k EXCEPT !.status[t] = "DIED",
                          !.ready = IF InReady(k, t)
                                    THEN RemoveAt(@, CHOOSE i \in DOMAIN @ : @[i] = t)
                                    ELSE @]

\* an interrupt ends the hlt of the idle thread, which then goes round its loop
Interrupted(k) ==
  IF k.cur = Idle /\ k.idle = "hlt" THEN [k EXCEPT !.idle = "loop"] ELSE k

\* intrTimerHandler, seen from the scheduler
TimerTick(k) ==
  IF k.ticks[k.cur] = 0 THEN Schedule(k) ELSE [k EXCEPT !.ticks[k.cur] = @ - 1]

\* one round of idleThreadFunc.  Interrupts are already on when threadBlock
\* returns, so an interrupt can come before the hlt as well as during it.
IdleStep(k) ==
  CASE k.idle = "loop"   -> ThreadBlock([k EXCEPT !.idle = "return"], "BLOCKED")
    [] k.idle = "return" -> [k EXCEPT !.idle = "hlt"]

\* after threadInit: main is running and the idle thread has just been started
KernelInit ==
  [cur |-> Main,
   status |-> [t \in Tasks |-> CASE t = Main -> "RUNNING"
                                 [] t = Idle -> "READY"
                                 [] OTHER -> "DIED"],
   ready |-> <<Idle>>,
   ticks |-> Priority,
   idle |-> "loop",
   panic |-> FALSE]

-----------------------------------------------------------------------------
(* How sync.c wakes threads.                                               *)

\* semaUp wakes the first thread of the blocked list that is still BLOCKED and
\* drops those in front of it

BlockedAt(k, list) == {i \in DOMAIN list : k.status[list[i]] = "BLOCKED"}

FirstBlocked(k, list) ==
  CHOOSE i \in BlockedAt(k, list) : \A j \in BlockedAt(k, list) : i <= j

WakeFirst(k, list) ==
  IF BlockedAt(k, list) = {} THEN k
  ELSE ThreadUnblock(k, list[FirstBlocked(k, list)])

DropFirst(k, list) ==
  IF BlockedAt(k, list) = {} THEN <<>>
  ELSE SubSeq(list, FirstBlocked(k, list) + 1, Len(list))

\* lockNotifyAll pops the list from its head, and threadUnblock pushes each
\* thread in front of the ready list: the last to wait is the first to run
WakeAll(k, list) ==
  IF \E i \in DOMAIN list : InReady(k, list[i]) \/ k.status[list[i]] \notin Asleep
  THEN Panicked(k)
  ELSE [k EXCEPT !.status = [t \in Tasks |-> IF Contains(list, t) THEN "READY"
                                             ELSE k.status[t]],
                 !.ready = Reverse(list) \o @]

-----------------------------------------------------------------------------
(* What every operation preserves *)

ReadyExact(k) ==
  /\ IsInjective(k.ready)
  /\ \A t \in Tasks : InReady(k, t) <=> k.status[t] = "READY"

RunningIsCur(k) == \A t \in Tasks : k.status[t] = "RUNNING" <=> t = k.cur

\* The inductive invariant of a kernel state between two operations.
Coherent(k) ==
  /\ k \in KernelState
  /\ ReadyExact(k)
  /\ RunningIsCur(k)
  /\ k.status[Idle] \in {"RUNNING", "READY", "BLOCKED"}
  /\ ~k.panic
=============================================================================
