------------------------------- MODULE Sync --------------------------------
(***************************************************************************)
(* The semaphore, the lock and the monitor of kernel/thread/sync.c: one    *)
(* Lock, its Semaphore, and threads that use them in any legal order.      *)
(*                                                                         *)
(* A kernel thread runs with interrupts on, so the timer can preempt it    *)
(* between any two of the steps below; each step is a region in which the  *)
(* code has turned interrupts off, or a single access.  A user process     *)
(* takes its locks inside a system call, behind an interrupt gate: it is   *)
(* never preempted before the call ends, but it gives the CPU away when it *)
(* blocks or yields.                                                       *)
(*                                                                         *)
(* pc[t] is where thread t is:                                             *)
(*   "run"     in its own code, with or without the lock                   *)
(*   "down"    in lockLock, before semaDown                                *)
(*   "woken"   in semaDown, to look at the value again (interrupts off)    *)
(*   "own"     in lockLock, after semaDown, before it becomes the holder   *)
(*   "up"      in lockUnlock, no longer the holder, before semaUp          *)
(*   "relock"  in lockWait, asleep or notified, before lockLock            *)
(***************************************************************************)
EXTENDS Scheduler

CONSTANTS KernelThreads,  \* the threads that run with interrupts on
          MaxRepeat,      \* bound: how often a thread takes a lock it holds
          WaitDepth,      \* bound: the deepest a lock is taken at a lockWait
          NoThread        \* the NULL of Lock.holder

ASSUME SyncAssumption ==
  /\ KernelThreads \subseteq Threads
  /\ MaxRepeat \in Nat \ {0}
  /\ WaitDepth \in Nat \ {0}
  /\ NoThread \notin Tasks

\* beside sched, the kernel state of Scheduler
VARIABLES value,          \* Semaphore.value
          blockedList,    \* Semaphore.blockedList, head first
          waitingList,    \* Semaphore.waitingList, head first
          holder,         \* Lock.holder
          repeat,         \* Lock.holderRepeatTimes
          pc

vars == <<sched, value, blockedList, waitingList, holder, repeat, pc>>
lockVars == <<value, blockedList, waitingList, holder, repeat>>

Points == {"run", "down", "woken", "own", "up", "relock"}

Goto(t, p) == pc' = [pc EXCEPT ![t] = p]

\* the IF flag of the running task; the idle thread is always in its own code
IntrOn == \/ sched.cur \in KernelThreads /\ pc[sched.cur] # "woken"
          \/ pc[sched.cur] = "run" /\ holder # sched.cur

-----------------------------------------------------------------------------
(* The operations.  A failed ASSERT stops the machine.                     *)

\* lockLock, up to the call of semaDown; also the end of lockWait
LockLock(t) ==
  /\ Running(t)
  /\ pc[t] \in {"run", "relock"}
  /\ IF holder # t
     THEN Goto(t, "down") /\ UNCHANGED repeat
     ELSE /\ pc[t] = "relock" \/ repeat < MaxRepeat
          /\ repeat' = repeat + 1
          /\ Goto(t, "run")
  /\ UNCHANGED <<sched, value, blockedList, waitingList, holder>>

\* semaDown finds the value at 0: the thread queues and sleeps
SemaDownBlock(t) ==
  /\ Running(t)
  /\ pc[t] \in {"down", "woken"}
  /\ value = 0
  /\ blockedList' = Append(blockedList, t)
  /\ sched' = Asserted(~Contains(blockedList, t), ThreadBlock(sched, "BLOCKED"))
  /\ Goto(t, "woken")
  /\ UNCHANGED <<value, waitingList, holder, repeat>>

\* mutant of SemaDownTake: the value is tested with an if, not again after a
\* sleep
SemaDownTakeOnce(t) ==
  /\ Running(t)
  /\ pc[t] \in {"down", "woken"}
  /\ pc[t] = "down" => value # 0
  /\ value' = 0
  /\ Goto(t, "own")
  /\ UNCHANGED <<sched, blockedList, waitingList, holder, repeat>>

\* semaDown takes the semaphore
SemaDownTake(t) ==
  /\ Running(t)
  /\ pc[t] \in {"down", "woken"}
  /\ value # 0
  /\ value' = value - 1
  /\ sched' = Asserted(value = 1, sched)
  /\ Goto(t, "own")
  /\ UNCHANGED <<blockedList, waitingList, holder, repeat>>

\* the end of lockLock
BecomeHolder(t) ==
  /\ Running(t)
  /\ pc[t] = "own"
  /\ holder' = t
  /\ repeat' = 1
  /\ Goto(t, "run")
  /\ UNCHANGED <<sched, value, blockedList, waitingList>>

\* lockUnlock, up to the call of semaUp
LockUnlock(t) ==
  /\ Running(t)
  /\ pc[t] = "run"
  /\ holder = t
  /\ IF repeat > 1
     THEN repeat' = repeat - 1 /\ UNCHANGED <<sched, holder, pc>>
     ELSE /\ sched' = Asserted(repeat = 1, sched)
          /\ repeat' = 0
          /\ holder' = NoThread
          /\ Goto(t, "up")
  /\ UNCHANGED <<value, blockedList, waitingList>>

\* mutant of SemaUp: nobody is woken
SemaUpSilent(t) ==
  /\ Running(t)
  /\ pc[t] = "up"
  /\ value' = value + 1
  /\ Goto(t, "run")
  /\ UNCHANGED <<sched, blockedList, waitingList, holder, repeat>>

\* semaUp at the end of lockUnlock
SemaUp(t) ==
  /\ Running(t)
  /\ pc[t] = "up"
  /\ sched' = Asserted(value = 0, WakeFirst(sched, blockedList))
  /\ blockedList' = DropFirst(sched, blockedList)
  /\ value' = value + 1
  /\ Goto(t, "run")
  /\ UNCHANGED <<waitingList, holder, repeat>>

\* mutant of LockWait: the lock is not given up
LockWaitHolding(t) ==
  /\ Running(t)
  /\ pc[t] = "run"
  /\ holder = t
  /\ waitingList' = Append(waitingList, t)
  /\ sched' = ThreadBlock(sched, "WAITING")
  /\ Goto(t, "relock")
  /\ UNCHANGED <<value, blockedList, holder, repeat>>

\* lockWait, up to its sleep, with interrupts off throughout: queue, unlock
\* (semaUp included), sleep.  A lock taken more than once is not given up.
LockWait(t) ==
  /\ Running(t)
  /\ pc[t] = "run"
  /\ holder = t
  /\ repeat <= WaitDepth
  /\ waitingList' = Append(waitingList, t)
  /\ LET legal == ~Contains(waitingList, t) /\ ~Contains(blockedList, t)
     IN IF repeat > 1
        THEN /\ repeat' = repeat - 1
             /\ sched' = Asserted(legal, ThreadBlock(sched, "WAITING"))
             /\ UNCHANGED <<value, blockedList, holder>>
        ELSE /\ repeat' = 0
             /\ holder' = NoThread
             /\ value' = value + 1
             /\ blockedList' = DropFirst(sched, blockedList)
             /\ sched' = Asserted(legal /\ repeat = 1 /\ value = 0,
                                 ThreadBlock(WakeFirst(sched, blockedList), "WAITING"))
  /\ Goto(t, "relock")

LockNotify(t) ==
  /\ Running(t)
  /\ pc[t] = "run"
  /\ holder = t
  /\ waitingList # <<>>
  /\ sched' = ThreadUnblock(sched, Head(waitingList))
  /\ waitingList' = Tail(waitingList)
  /\ UNCHANGED <<value, blockedList, holder, repeat, pc>>

\* mutant of LockNotifyAll: the list is walked, not popped
LockNotifyAllKept(t) ==
  /\ Running(t)
  /\ pc[t] = "run"
  /\ holder = t
  /\ sched' = WakeAll(sched, waitingList)
  /\ UNCHANGED <<value, blockedList, waitingList, holder, repeat, pc>>

LockNotifyAll(t) ==
  /\ Running(t)
  /\ pc[t] = "run"
  /\ holder = t
  /\ sched' = WakeAll(sched, waitingList)
  /\ waitingList' = <<>>
  /\ UNCHANGED <<value, blockedList, holder, repeat, pc>>

\* the running thread starts another (threadStart)
StartThread(t, u) ==
  /\ Running(t)
  /\ pc[t] = "run"
  /\ sched.status[u] = "DIED"
  /\ sched' = ThreadStart(sched, u)
  /\ UNCHANGED <<lockVars, pc>>

\* threadYield in the thread's own code, with or without the lock (sleepMs)
Yield(t) ==
  /\ Running(t)
  /\ pc[t] = "run"
  /\ sched' = ThreadYield(sched)
  /\ UNCHANGED <<lockVars, pc>>

IdleLoop ==
  /\ Running(Idle)
  /\ sched.idle # "hlt"
  /\ sched' = IdleStep(sched)
  /\ UNCHANGED <<lockVars, pc>>

TimerIntr ==
  /\ ~sched.panic
  /\ IntrOn
  /\ sched' = TimerTick(Interrupted(sched))
  /\ UNCHANGED <<lockVars, pc>>

Init == /\ sched = KernelInit
        /\ value = 1
        /\ blockedList = <<>>
        /\ waitingList = <<>>
        /\ holder = NoThread
        /\ repeat = 0
        /\ pc = [t \in Tasks |-> "run"]

Next == \/ \E t \in Threads :
             \/ LockLock(t) \/ SemaDownBlock(t) \/ SemaDownTake(t) \/ BecomeHolder(t)
             \/ LockUnlock(t) \/ SemaUp(t)
             \/ LockWait(t) \/ LockNotify(t) \/ LockNotifyAll(t) \/ Yield(t)
             \/ \E u \in Threads : StartThread(t, u)
        \/ IdleLoop \/ TimerIntr

\* A thread inside sync.c executes its next instruction when it has the CPU,
\* a thread that holds the lock releases it in the end, the idle thread goes
\* round its loop.  The timer request stays latched in the 8259A while
\* interrupts are off, so it is served if they are turned on again and again.
ThreadStep(t) == \/ pc[t] # "run" /\ LockLock(t)
                 \/ SemaDownBlock(t) \/ SemaDownTake(t) \/ BecomeHolder(t)
                 \/ LockUnlock(t) \/ SemaUp(t)

Fairness == /\ \A t \in Threads : SF_vars(ThreadStep(t))
            /\ WF_vars(IdleLoop)
            /\ SF_vars(TimerIntr)

Spec == Init /\ [][Next]_vars

FairSpec == Spec /\ Fairness

-----------------------------------------------------------------------------
(* Properties *)

TypeOK == /\ sched \in KernelState
          /\ value \in {0, 1}
          /\ blockedList \in Seq(Threads)
          /\ waitingList \in Seq(Threads)
          /\ holder \in Threads \cup {NoThread}
          /\ repeat \in Nat
          /\ pc \in [Tasks -> Points]

\* The owners of the lock, from the end of semaDown to the start of semaUp:
\* the holder field is set late and cleared early.
Owns(t) == pc[t] \in {"own", "up"} \/ holder = t

\* Two threads never own the lock, not even in the windows of lockLock and
\* lockUnlock in which holder is NULL; and the semaphore is 1 exactly when
\* nobody does, so it is never lost either.
MutualExclusion ==
  /\ \A t, u \in Threads : Owns(t) /\ Owns(u) => t = u
  /\ value = 1 <=> \A t \in Threads : ~Owns(t)

\* lockTag is one list node for both lists: a thread is on the blocked list
\* exactly while it sleeps in semaDown, on the waiting list exactly while it
\* sleeps in lockWait, and on either at most once.
OneListPerSleeper ==
  /\ IsInjective(blockedList) /\ IsInjective(waitingList)
  /\ \A t \in Threads :
       /\ Contains(blockedList, t) <=> sched.status[t] = "BLOCKED"
       /\ Contains(waitingList, t) <=> sched.status[t] = "WAITING"
       /\ sched.status[t] = "BLOCKED" => pc[t] = "woken"
       /\ sched.status[t] = "WAITING" => pc[t] = "relock"

\* semaUp wakes one thread, which may find the semaphore taken again and
\* sleeps once more.  Whenever the semaphore is free while threads sleep for
\* it, one that was woken is on its way to take it.
NoLostWakeup ==
  value = 1 /\ blockedList # <<>> =>
    \E t \in Threads : pc[t] = "woken" /\ sched.status[t] \in {"READY", "RUNNING"}

\* The fields of the lock agree with where the threads are: the count is 0
\* exactly while holder is NULL, only a thread between two calls, or asleep in
\* a lockWait of a lock it took more than once, is the holder, and a thread
\* not yet started, or the idle thread, is in no call.
LockFields ==
  /\ holder = NoThread <=> repeat = 0
  /\ \A t \in Threads : holder = t => pc[t] \in {"run", "relock"}
  /\ \A t \in Threads : sched.status[t] = "DIED" => pc[t] = "run" /\ holder # t
  /\ pc[Idle] = "run"

\* The inductive invariant; SchedInv and NoPanic are the scheduler's, under the
\* use sync.c makes of it.
SyncInv == TypeOK /\ SchedInv /\ LockFields /\ MutualExclusion
           /\ OneListPerSleeper /\ NoLostWakeup

\* A free semaphore with sleepers is taken by somebody.
LockProgress == value = 1 /\ blockedList # <<>> ~> value = 0

\* The lock is a monitor: who owns it and who waits change only as Monitor says.
Owner == IF \E t \in Threads : Owns(t) THEN CHOOSE t \in Threads : Owns(t) ELSE NoThread

AbstractMonitor == INSTANCE Monitor WITH owner <- Owner,
                                         waiters <- {t \in Threads : Contains(waitingList, t)}

ImplementsMonitor == AbstractMonitor!Spec
=============================================================================
