----------------------------- MODULE Scheduler -----------------------------
(***************************************************************************)
(* The scheduler on its own: the operations of Thread, called by the       *)
(* running thread and by the interrupt handlers in any order their callers *)
(* allow.                                                                  *)
(***************************************************************************)
EXTENDS Thread

VARIABLE sched

Running(t) == ~sched.panic /\ sched.cur = t

\* a thread puts itself to sleep: semaDown, lockWait, sysWait, sysExit
Block(t) == /\ Running(t)
            /\ \E st \in Asleep : sched' = ThreadBlock(sched, st)

YieldCpu(t) == /\ Running(t)
               /\ sched' = ThreadYield(sched)

\* the running thread wakes u: semaUp, lockNotify, sysExit; a HANGING thread
\* has exited and is not on any list they take a thread from
Wake(t, u) == /\ Running(t)
              /\ sched.status[u] \in {"BLOCKED", "WAITING"}
              /\ sched' = ThreadUnblock(sched, u)

\* threadStart of a task that has no PCB yet, or none any more
Start(t, u) == /\ Running(t)
               /\ sched.status[u] = "DIED"
               /\ sched' = ThreadStart(sched, u)

\* threadExit(self, true)
Exit(t) == /\ Running(t)
           /\ sched' = Schedule(Retire(sched, t))

\* threadExit(child, false), by sysWait on a child that hangs
Reap(t, u) == /\ Running(t)
              /\ sched.status[u] = "HANGING"
              /\ sched' = Retire(sched, u)

IdleTurn == /\ Running(Idle)
            /\ sched.idle # "hlt"
            /\ sched' = IdleStep(sched)

\* a device interrupt that wakes a thread blocked on it (intrHdHandler)
DeviceIntr == /\ ~sched.panic
              /\ \E u \in Threads : /\ sched.status[u] = "BLOCKED"
                                    /\ sched' = ThreadUnblock(Interrupted(sched), u)

ClockIntr == /\ ~sched.panic
             /\ sched' = TimerTick(Interrupted(sched))

SchedInit == sched = KernelInit

SchedNext == \/ \E t \in Threads :
                  \/ Block(t) \/ YieldCpu(t) \/ Exit(t)
                  \/ \E u \in Threads : Wake(t, u) \/ Start(t, u) \/ Reap(t, u)
             \/ IdleTurn \/ DeviceIntr \/ ClockIntr

\* The timer is programmed to interrupt at 100 Hz and never stopped; the idle
\* thread executes its next instruction.
SchedFairness == WF_sched(ClockIntr) /\ WF_sched(IdleTurn)

SchedSpec == SchedInit /\ [][SchedNext]_sched /\ SchedFairness

-----------------------------------------------------------------------------
(* Properties *)

\* The ready list holds exactly the READY tasks, each once, whatever the order
\* of the calls of schedule, threadBlock, threadUnblock, threadYield and
\* threadExit: a task on the list twice would run after it blocked, a READY one
\* that is not on it would never run again.
ReadyListExact == ReadyExact(sched)

\* No ASSERT of thread.c fails; in particular schedule always finds a task to
\* run, because the idle thread sleeps whenever it is not running or ready.
NoPanic == ~sched.panic

\* No starvation: a READY thread gets the CPU, although threadUnblock lets
\* woken threads jump the queue for ever.
ReadyRuns == \A t \in Threads : sched.status[t] = "READY" ~> sched.cur = t

\* The inductive invariant.
SchedInv == Coherent(sched)
=============================================================================
