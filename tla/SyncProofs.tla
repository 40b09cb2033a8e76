----------------------------- MODULE SyncProofs -----------------------------
(***************************************************************************)
(* The scheduler, the lock and the monitor of sync.c, and the ring queue   *)
(* built on them, for every set of threads and every priority.             *)
(***************************************************************************)
EXTENDS IoQueue, ThreadProofs

\* The thread on the CPU is RUNNING, so it is on neither list.
LEMMA RunningFacts ==
  ASSUME SyncInv, NEW t \in Threads, Running(t)
  PROVE  /\ t \in Tasks /\ t # Idle /\ t # NoThread
         /\ sched.status[t] = "RUNNING"
         /\ ~Contains(blockedList, t) /\ ~Contains(waitingList, t)
         /\ Coherent(sched) /\ sched.cur = t
         /\ sched.status \in [Tasks -> TaskStatus]
BY SchedulerAssumption, SyncAssumption
   DEF SyncInv, SchedInv, Coherent, RunningIsCur, Running, OneListPerSleeper, Tasks,
       KernelState

-----------------------------------------------------------------------------
(* One lemma per action *)

\* lockLock before semaDown, first or repeated.
LEMMA LockLockStep ==
  ASSUME SyncInv, NEW t \in Threads, LockLock(t)
  PROVE  SyncInv'
<1>1. Running(t) /\ UNCHANGED <<sched, value, blockedList, waitingList, holder>>
  BY DEF LockLock
<1>2. /\ sched.status[t] = "RUNNING" /\ t \in Tasks /\ t # Idle /\ t # NoThread
  BY <1>1, RunningFacts
<1>3. CASE holder # t
  <2>1. pc' = [pc EXCEPT ![t] = "down"] /\ repeat' = repeat /\ pc[t] \in {"run", "relock"}
    BY <1>3 DEF LockLock, Goto
  <2>2. TypeOK'
    BY <1>1, <1>2, <2>1 DEF SyncInv, TypeOK, Points
  <2>3. SchedInv'
    BY <1>1 DEF SyncInv, SchedInv
  <2>4. LockFields'
    BY <1>1, <1>2, <1>3, <2>1 DEF SyncInv, LockFields, TypeOK
  <2>5. MutualExclusion'
    BY <1>1, <1>2, <1>3, <2>1 DEF SyncInv, MutualExclusion, Owns, TypeOK
  <2>6. OneListPerSleeper'
    BY <1>1, <1>2, <2>1 DEF SyncInv, OneListPerSleeper, TypeOK
  <2>7. NoLostWakeup'
    BY <1>1, <1>2, <2>1 DEF SyncInv, NoLostWakeup, TypeOK
  <2>8. QED
    BY <2>2, <2>3, <2>4, <2>5, <2>6, <2>7 DEF SyncInv
<1>4. CASE holder = t
  <2>1. pc' = [pc EXCEPT ![t] = "run"] /\ repeat' = repeat + 1 /\ pc[t] \in {"run", "relock"}
    BY <1>4 DEF LockLock, Goto
  <2>2. TypeOK'
    BY <1>1, <1>2, <2>1 DEF SyncInv, TypeOK, Points
  <2>3. SchedInv'
    BY <1>1 DEF SyncInv, SchedInv
  <2>4. LockFields'
    BY <1>1, <1>2, <1>4, <2>1 DEF SyncInv, LockFields, TypeOK
  <2>5. MutualExclusion'
    BY <1>1, <1>2, <1>4, <2>1 DEF SyncInv, MutualExclusion, Owns, TypeOK
  <2>6. OneListPerSleeper'
    BY <1>1, <1>2, <2>1 DEF SyncInv, OneListPerSleeper, TypeOK
  <2>7. NoLostWakeup'
    BY <1>1, <1>2, <2>1 DEF SyncInv, NoLostWakeup, TypeOK
  <2>8. QED
    BY <2>2, <2>3, <2>4, <2>5, <2>6, <2>7 DEF SyncInv
<1>5. QED
  BY <1>3, <1>4

\* semaDown that sleeps: the thread joins the blocked list as it becomes BLOCKED.
LEMMA SemaDownBlockStep ==
  ASSUME SyncInv, NEW t \in Threads, SemaDownBlock(t)
  PROVE  SyncInv'
<1>1. /\ Running(t) /\ value = 0 /\ pc[t] \in {"down", "woken"}
      /\ UNCHANGED <<value, waitingList, holder, repeat>>
      /\ pc' = [pc EXCEPT ![t] = "woken"]
      /\ blockedList' = Append(blockedList, t)
  BY DEF SemaDownBlock, Goto
<1>2. /\ sched.status[t] = "RUNNING" /\ t \in Tasks /\ t # Idle /\ t # NoThread
      /\ ~Contains(blockedList, t) /\ ~Contains(waitingList, t)
      /\ Coherent(sched) /\ sched.cur = t
  BY <1>1, RunningFacts
<1>3. sched' = ThreadBlock(sched, "BLOCKED")
  BY <1>2 DEF SemaDownBlock, Asserted
<1>4. Coherent(sched')
  BY <1>2, <1>3, BlockCoherent DEF Asleep
<1>5. /\ sched'.status[t] = "BLOCKED"
      /\ SameSleep(sched, sched', Threads \ {t})
  BY <1>2, <1>3, BlockSleep DEF Asleep
<1>6. /\ blockedList' \in Seq(Threads)
      /\ IsInjective(blockedList')
      /\ \A u : Contains(blockedList', u) <=> u = t \/ Contains(blockedList, u)
  BY <1>1, <1>2, AppendList DEF SyncInv, TypeOK, OneListPerSleeper
<1>7. TypeOK'
  BY <1>1, <1>2, <1>4, <1>6 DEF SyncInv, TypeOK, Points, Coherent
<1>8. SchedInv'
  BY <1>4 DEF SchedInv, Coherent, KernelState, ReadyExact, RunningIsCur, InReady
<1>9. LockFields'
  <2>1. LockFields /\ holder' = holder /\ repeat' = repeat /\ pc \in [Tasks -> Points]
    BY <1>1 DEF SyncInv, TypeOK
  <2>2. holder # t
    BY <1>1, <2>1 DEF LockFields
  <2>3. \A u \in Threads : u # t => pc'[u] = pc[u]
    BY <1>1, <2>1 DEF Tasks
  <2>4. pc'[Idle] = "run"
    BY <1>1, <1>2, <2>1 DEF LockFields, Tasks
  <2>5. ASSUME NEW u \in Threads, sched'.status[u] = "DIED"
        PROVE  u # t /\ sched.status[u] = "DIED"
    BY <1>5, <2>5 DEF SameSleep, Awake
  <2>6. QED
    BY <2>1, <2>2, <2>3, <2>4, <2>5 DEF LockFields
<1>10. MutualExclusion'
  BY <1>1, <1>2 DEF SyncInv, MutualExclusion, Owns, TypeOK
<1>11. OneListPerSleeper'
  BY <1>1, <1>2, <1>5, <1>6 DEF SyncInv, OneListPerSleeper, TypeOK, SameSleep, Awake
<1>12. NoLostWakeup'
  BY <1>1 DEF NoLostWakeup
<1>13. QED
  BY <1>7, <1>8, <1>9, <1>10, <1>11, <1>12 DEF SyncInv

\* semaDown that takes the semaphore: its caller becomes the owner.
LEMMA SemaDownTakeStep ==
  ASSUME SyncInv, NEW t \in Threads, SemaDownTake(t)
  PROVE  SyncInv'
<1>1. /\ Running(t) /\ value = 1 /\ pc[t] \in {"down", "woken"}
      /\ UNCHANGED <<blockedList, waitingList, holder, repeat>>
      /\ pc' = [pc EXCEPT ![t] = "own"]
      /\ value' = 0
      /\ sched' = sched
  BY DEF SemaDownTake, Goto, Asserted, SyncInv, TypeOK
<1>2. /\ sched.status[t] = "RUNNING" /\ t \in Tasks /\ t # Idle /\ t # NoThread
      /\ Coherent(sched)
  BY <1>1, RunningFacts
<1>3. TypeOK'
  BY <1>1, <1>2 DEF SyncInv, TypeOK, Points
<1>4. SchedInv'
  BY <1>1 DEF SyncInv, SchedInv
<1>5. LockFields'
  BY <1>1, <1>2 DEF SyncInv, LockFields, TypeOK, MutualExclusion, Owns
<1>6. MutualExclusion'
  BY <1>1, <1>2 DEF SyncInv, MutualExclusion, Owns, TypeOK
<1>7. OneListPerSleeper'
  BY <1>1, <1>2 DEF SyncInv, OneListPerSleeper, TypeOK
<1>8. NoLostWakeup'
  BY <1>1 DEF NoLostWakeup
<1>9. QED
  BY <1>3, <1>4, <1>5, <1>6, <1>7, <1>8 DEF SyncInv

\* The owner writes its name into the lock.
LEMMA BecomeHolderStep ==
  ASSUME SyncInv, NEW t \in Threads, BecomeHolder(t)
  PROVE  SyncInv'
<1>1. /\ Running(t) /\ pc[t] = "own"
      /\ UNCHANGED <<sched, value, blockedList, waitingList>>
      /\ pc' = [pc EXCEPT ![t] = "run"]
      /\ holder' = t /\ repeat' = 1
  BY DEF BecomeHolder, Goto
<1>2. /\ sched.status[t] = "RUNNING" /\ t \in Tasks /\ t # Idle /\ t # NoThread
  BY <1>1, RunningFacts
<1>3. holder = NoThread
  BY <1>1 DEF SyncInv, MutualExclusion, Owns, LockFields, TypeOK
<1>4. TypeOK'
  BY <1>1, <1>2 DEF SyncInv, TypeOK, Points
<1>5. SchedInv'
  BY <1>1 DEF SyncInv, SchedInv
<1>6. LockFields'
  BY <1>1, <1>2, <1>3 DEF SyncInv, LockFields, TypeOK
<1>7. MutualExclusion'
  BY <1>1, <1>2, <1>3 DEF SyncInv, MutualExclusion, Owns, TypeOK, Tasks
<1>8. OneListPerSleeper'
  BY <1>1, <1>2 DEF SyncInv, OneListPerSleeper, TypeOK
<1>9. NoLostWakeup'
  BY <1>1, <1>2 DEF SyncInv, NoLostWakeup, TypeOK
<1>10. QED
  BY <1>4, <1>5, <1>6, <1>7, <1>8, <1>9 DEF SyncInv

\* lockUnlock before semaUp: the owner stays the owner, but is no longer the holder.
LEMMA LockUnlockStep ==
  ASSUME SyncInv, NEW t \in Threads, LockUnlock(t)
  PROVE  SyncInv'
<1>1. /\ Running(t) /\ pc[t] = "run" /\ holder = t
      /\ UNCHANGED <<value, blockedList, waitingList>>
  BY DEF LockUnlock
<1>2. /\ sched.status[t] = "RUNNING" /\ t \in Tasks /\ t # Idle /\ t # NoThread
  BY <1>1, RunningFacts
<1>3. CASE repeat > 1
  <2>1. UNCHANGED <<sched, holder, pc>> /\ repeat' = repeat - 1
    BY <1>3 DEF LockUnlock
  <2>2. TypeOK'
    BY <1>1, <1>3, <2>1 DEF SyncInv, TypeOK
  <2>3. SchedInv'
    BY <2>1 DEF SyncInv, SchedInv
  <2>4. LockFields'
    BY <1>1, <1>3, <2>1 DEF SyncInv, LockFields, TypeOK
  <2>5. MutualExclusion' /\ OneListPerSleeper' /\ NoLostWakeup'
    BY <1>1, <2>1 DEF SyncInv, MutualExclusion, Owns, OneListPerSleeper, NoLostWakeup
  <2>6. QED
    BY <2>2, <2>3, <2>4, <2>5 DEF SyncInv
<1>4. CASE ~(repeat > 1)
  <2>1. repeat = 1
    BY <1>1, <1>2, <1>4 DEF SyncInv, LockFields, TypeOK
  <2>2. /\ sched' = sched /\ repeat' = 0 /\ holder' = NoThread
        /\ pc' = [pc EXCEPT ![t] = "up"]
    BY <1>4, <2>1 DEF LockUnlock, Goto, Asserted
  <2>3. TypeOK'
    BY <1>1, <1>2, <2>2 DEF SyncInv, TypeOK, Points
  <2>4. SchedInv'
    BY <2>2 DEF SyncInv, SchedInv
  <2>5. LockFields'
    BY <1>1, <1>2, <2>2, SyncAssumption DEF SyncInv, LockFields, TypeOK, Tasks
  <2>6. MutualExclusion'
    BY <1>1, <1>2, <2>2, SyncAssumption DEF SyncInv, MutualExclusion, Owns, TypeOK, Tasks
  <2>7. OneListPerSleeper'
    BY <1>1, <1>2, <2>2 DEF SyncInv, OneListPerSleeper, TypeOK
  <2>8. NoLostWakeup'
    BY <1>1, <1>2, <2>2 DEF SyncInv, NoLostWakeup, TypeOK
  <2>9. QED
    BY <2>3, <2>4, <2>5, <2>6, <2>7, <2>8 DEF SyncInv
<1>5. QED
  BY <1>3, <1>4

\* semaUp: the owner gives the semaphore back and wakes a sleeper for it.
LEMMA SemaUpStep ==
  ASSUME SyncInv, NEW t \in Threads, SemaUp(t)
  PROVE  SyncInv'
<1>1. /\ Running(t) /\ pc[t] = "up"
      /\ UNCHANGED <<waitingList, holder, repeat>>
      /\ pc' = [pc EXCEPT ![t] = "run"]
      /\ blockedList' = DropFirst(sched, blockedList)
      /\ value' = value + 1
  BY DEF SemaUp, Goto
<1>2. /\ sched.status[t] = "RUNNING" /\ t \in Tasks /\ t # Idle /\ t # NoThread
      /\ Coherent(sched)
  BY <1>1, RunningFacts
<1>3. value = 0 /\ holder # t
  BY <1>1 DEF SyncInv, MutualExclusion, Owns, TypeOK, LockFields
<1>4. value' = 1 /\ sched' = WakeFirst(sched, blockedList)
  BY <1>1, <1>3 DEF SemaUp, Asserted
<1> DEFINE h == Head(blockedList)
<1>5. /\ blockedList \in Seq(Threads) /\ IsInjective(blockedList)
      /\ \A u \in Threads : Contains(blockedList, u) <=> sched.status[u] = "BLOCKED"
  BY DEF SyncInv, TypeOK, OneListPerSleeper
<1>6. /\ Coherent(sched')
      /\ blockedList' \in Seq(Threads)
      /\ IsInjective(blockedList')
      /\ blockedList = <<>> => sched' = sched /\ blockedList' = <<>>
      /\ blockedList # <<>> =>
           /\ h \in Threads
           /\ sched.status[h] = "BLOCKED"
           /\ sched'.status = [sched.status EXCEPT ![h] = "READY"]
           /\ \A u : Contains(blockedList', u) <=> u # h /\ Contains(blockedList, u)
  BY <1>1, <1>2, <1>4, <1>5, WakeFirstEffect
<1> HIDE DEF h
<1>7. sched.status \in [Tasks -> TaskStatus] /\ Threads \subseteq Tasks
  BY <1>2 DEF Coherent, KernelState, Tasks
<1>8. TypeOK'
  BY <1>1, <1>2, <1>4, <1>6 DEF SyncInv, TypeOK, Points, Coherent
<1>9. SchedInv'
  BY <1>6 DEF SchedInv, Coherent, KernelState, ReadyExact, RunningIsCur, InReady
<1>10. LockFields'
  BY <1>1, <1>2, <1>6, <1>7 DEF SyncInv, LockFields, TypeOK
<1>11. MutualExclusion'
  BY <1>1, <1>2, <1>3, <1>4 DEF SyncInv, MutualExclusion, Owns, TypeOK
<1>12. OneListPerSleeper'
  <2>1. CASE blockedList = <<>>
    BY <1>1, <1>2, <1>6, <2>1 DEF SyncInv, OneListPerSleeper, TypeOK
  <2>2. CASE blockedList # <<>>
    BY <1>1, <1>2, <1>6, <1>7, <2>2 DEF SyncInv, OneListPerSleeper, TypeOK
  <2>3. QED
    BY <2>1, <2>2
<1>13. NoLostWakeup'
  <2>1. CASE blockedList = <<>>
    BY <1>6, <2>1 DEF NoLostWakeup
  <2>2. CASE blockedList # <<>>
    <3>1. pc[h] = "woken" /\ h # t
      BY <1>1, <1>6, <2>2 DEF SyncInv, OneListPerSleeper
    <3>2. pc'[h] = "woken" /\ sched'.status[h] = "READY" /\ h \in Threads
      BY <1>1, <1>6, <1>7, <2>2, <3>1 DEF SyncInv, TypeOK
    <3>3. QED
      BY <3>2 DEF NoLostWakeup
  <2>3. QED
    BY <2>1, <2>2
<1>14. QED
  BY <1>8, <1>9, <1>10, <1>11, <1>12, <1>13 DEF SyncInv

\* lockWait: the owner gives the lock up and sleeps, in one region.
LEMMA LockWaitStep ==
  ASSUME SyncInv, NEW t \in Threads, LockWait(t)
  PROVE  SyncInv'
<1>1. /\ Running(t) /\ pc[t] = "run" /\ holder = t
      /\ waitingList' = Append(waitingList, t)
      /\ pc' = [pc EXCEPT ![t] = "relock"]
  BY DEF LockWait, Goto
<1>2. /\ sched.status[t] = "RUNNING" /\ t \in Tasks /\ t # Idle /\ t # NoThread
      /\ Coherent(sched) /\ sched.cur = t
      /\ ~Contains(blockedList, t) /\ ~Contains(waitingList, t)
  BY <1>1, RunningFacts
<1>3. /\ waitingList' \in Seq(Threads)
      /\ IsInjective(waitingList')
      /\ \A u : Contains(waitingList', u) <=> u = t \/ Contains(waitingList, u)
  BY <1>1, <1>2, AppendList DEF SyncInv, TypeOK, OneListPerSleeper
<1>4. CASE repeat > 1
  <2>1. /\ sched' = ThreadBlock(sched, "WAITING")
        /\ repeat' = repeat - 1
        /\ UNCHANGED <<value, blockedList, holder>>
    BY <1>2, <1>4 DEF LockWait, Asserted
  <2>2. /\ Coherent(sched')
        /\ sched'.status[t] = "WAITING"
        /\ SameSleep(sched, sched', Threads \ {t})
    BY <1>2, <2>1, BlockCoherent, BlockSleep DEF Asleep
  <2>3. TypeOK'
    BY <1>1, <1>2, <1>3, <1>4, <2>1, <2>2 DEF SyncInv, TypeOK, Points, Coherent
  <2>4. SchedInv'
    BY <2>2 DEF SchedInv, Coherent, KernelState, ReadyExact, RunningIsCur, InReady
  <2>5. LockFields'
    BY <1>1, <1>2, <1>4, <2>1, <2>2 DEF SyncInv, LockFields, TypeOK, SameSleep, Awake
  <2>6. MutualExclusion'
    BY <1>1, <1>2, <2>1 DEF SyncInv, MutualExclusion, Owns, TypeOK
  <2>7. OneListPerSleeper'
    BY <1>1, <1>2, <1>3, <2>1, <2>2
       DEF SyncInv, OneListPerSleeper, TypeOK, SameSleep, Awake
  <2>8. NoLostWakeup'
    BY <1>1, <2>1 DEF SyncInv, MutualExclusion, Owns, NoLostWakeup
  <2>9. QED
    BY <2>3, <2>4, <2>5, <2>6, <2>7, <2>8 DEF SyncInv
<1>5. CASE ~(repeat > 1)
  <2> DEFINE h == Head(blockedList)
             k == WakeFirst(sched, blockedList)
  <2>1. repeat = 1 /\ value = 0
    BY <1>1, <1>2, <1>5 DEF SyncInv, LockFields, TypeOK, MutualExclusion, Owns
  <2>2. /\ sched' = ThreadBlock(k, "WAITING")
        /\ repeat' = 0 /\ holder' = NoThread /\ value' = 1
        /\ blockedList' = DropFirst(sched, blockedList)
    BY <1>2, <1>5, <2>1 DEF LockWait, Asserted
  <2>3. /\ blockedList \in Seq(Threads) /\ IsInjective(blockedList)
        /\ \A u \in Threads : Contains(blockedList, u) <=> sched.status[u] = "BLOCKED"
    BY DEF SyncInv, TypeOK, OneListPerSleeper
  <2>4. /\ Coherent(k) /\ k.cur = t
        /\ blockedList' \in Seq(Threads)
        /\ IsInjective(blockedList')
        /\ blockedList = <<>> => k = sched /\ blockedList' = <<>>
        /\ blockedList # <<>> =>
             /\ h \in Threads
             /\ sched.status[h] = "BLOCKED"
             /\ k.status = [sched.status EXCEPT ![h] = "READY"]
             /\ \A u : Contains(blockedList', u) <=> u # h /\ Contains(blockedList, u)
    BY <1>2, <2>2, <2>3, WakeFirstEffect
  <2> HIDE DEF h, k
  <2>5. /\ Coherent(sched')
        /\ sched'.status[t] = "WAITING"
        /\ SameSleep(k, sched', Threads \ {t})
    BY <1>2, <2>2, <2>4, BlockCoherent, BlockSleep DEF Asleep
  <2>6. sched.status \in [Tasks -> TaskStatus] /\ Threads \subseteq Tasks
    BY <1>2 DEF Coherent, KernelState, Tasks
  <2>7. TypeOK'
    BY <1>1, <1>2, <1>3, <2>2, <2>4, <2>5 DEF SyncInv, TypeOK, Points, Coherent
  <2>8. SchedInv'
    BY <2>5 DEF SchedInv, Coherent, KernelState, ReadyExact, RunningIsCur, InReady
  <2>9. \A u \in Threads \ {t} : sched'.status[u] = "DIED" => sched.status[u] = "DIED"
    BY <2>4, <2>5, <2>6 DEF SameSleep, Awake
  <2>10. LockFields'
    BY <1>1, <1>2, <2>2, <2>5, <2>9, SyncAssumption DEF SyncInv, LockFields, TypeOK, Tasks
  <2>11. MutualExclusion'
    BY <1>1, <1>2, <2>2, SyncAssumption DEF SyncInv, MutualExclusion, Owns, TypeOK, Tasks
  <2>12. \A u \in Threads :
           /\ Contains(blockedList', u) <=> sched'.status[u] = "BLOCKED"
           /\ sched'.status[u] = "BLOCKED" => sched.status[u] = "BLOCKED"
           /\ u # t => (sched'.status[u] = "WAITING" <=> sched.status[u] = "WAITING")
    <3>1. CASE blockedList = <<>>
      BY <1>2, <2>3, <2>4, <2>5, <2>6, <3>1 DEF SameSleep, Awake
    <3>2. CASE blockedList # <<>>
      BY <1>2, <2>3, <2>4, <2>5, <2>6, <3>2 DEF SameSleep, Awake
    <3>3. QED
      BY <3>1, <3>2
  <2>13. OneListPerSleeper'
    BY <1>1, <1>2, <1>3, <2>4, <2>5, <2>12 DEF SyncInv, OneListPerSleeper, TypeOK
  <2>14. NoLostWakeup'
    <3>1. CASE blockedList = <<>>
      BY <2>4, <3>1 DEF NoLostWakeup
    <3>2. CASE blockedList # <<>>
      <4>1. pc[h] = "woken" /\ h # t /\ h \in Threads
        BY <1>1, <2>4, <3>2 DEF SyncInv, OneListPerSleeper
      <4>2. k.status[h] = "READY"
        BY <2>4, <2>6, <3>2
      <4>3. pc'[h] = "woken" /\ sched'.status[h] \in {"READY", "RUNNING"}
        BY <1>1, <2>5, <4>1, <4>2 DEF SyncInv, TypeOK, SameSleep, Awake, Tasks
      <4>4. QED
        BY <4>1, <4>3 DEF NoLostWakeup
    <3>3. QED
      BY <3>1, <3>2
  <2>15. QED
    BY <2>7, <2>8, <2>10, <2>11, <2>13, <2>14 DEF SyncInv
<1>6. QED
  BY <1>4, <1>5

\* lockNotify: the first waiter leaves the list as it becomes READY.
LEMMA LockNotifyStep ==
  ASSUME SyncInv, NEW t \in Threads, LockNotify(t)
  PROVE  SyncInv'
<1> DEFINE h == Head(waitingList)
<1>1. /\ Running(t) /\ pc[t] = "run" /\ holder = t
      /\ waitingList # <<>>
      /\ sched' = ThreadUnblock(sched, h)
      /\ waitingList' = Tail(waitingList)
      /\ UNCHANGED <<value, blockedList, holder, repeat, pc>>
  BY DEF LockNotify
<1>2. Coherent(sched)
  BY DEF SyncInv, SchedInv
<1>3. /\ h \in Threads
      /\ Contains(waitingList, h)
      /\ waitingList' \in Seq(Threads)
      /\ IsInjective(waitingList')
      /\ \A u : Contains(waitingList', u) <=> u # h /\ Contains(waitingList, u)
  BY <1>1, PopList DEF SyncInv, TypeOK, OneListPerSleeper
<1> HIDE DEF h
<1>4. /\ sched.status[h] = "WAITING" /\ h \in Tasks
      /\ sched.status \in [Tasks -> TaskStatus] /\ Threads \subseteq Tasks
  BY <1>2, <1>3 DEF SyncInv, OneListPerSleeper, Tasks, Coherent, KernelState
<1>5. sched.status[h] \in Asleep
  BY <1>4 DEF Asleep
<1>6. Coherent(sched')
  BY <1>1, <1>2, <1>4, <1>5, UnblockKeeps
<1>7. sched \in KernelState /\ ReadyExact(sched) /\ ~sched.panic
  BY <1>2 DEF Coherent
<1>8. sched'.status = [sched.status EXCEPT ![h] = "READY"]
  BY <1>1, <1>4, <1>5, <1>7, UnblockEffect
<1>9. TypeOK'
  BY <1>1, <1>3, <1>6 DEF SyncInv, TypeOK, Coherent
<1>10. SchedInv'
  BY <1>6 DEF SchedInv, Coherent, KernelState, ReadyExact, RunningIsCur, InReady
<1>11. LockFields' /\ MutualExclusion'
  BY <1>1, <1>4, <1>8 DEF SyncInv, LockFields, MutualExclusion, Owns
<1>12. OneListPerSleeper'
  BY <1>1, <1>3, <1>4, <1>8 DEF SyncInv, OneListPerSleeper, TypeOK
<1>13. NoLostWakeup'
  BY <1>1 DEF SyncInv, MutualExclusion, Owns, NoLostWakeup
<1>14. QED
  BY <1>9, <1>10, <1>11, <1>12, <1>13 DEF SyncInv

\* lockNotifyAll: all waiters leave the list as they become READY.
LEMMA LockNotifyAllStep ==
  ASSUME SyncInv, NEW t \in Threads, LockNotifyAll(t)
  PROVE  SyncInv'
<1>1. /\ Running(t) /\ pc[t] = "run" /\ holder = t
      /\ sched' = WakeAll(sched, waitingList)
      /\ waitingList' = <<>>
      /\ UNCHANGED <<value, blockedList, holder, repeat, pc>>
  BY DEF LockNotifyAll
<1>2. /\ Coherent(sched)
      /\ waitingList \in Seq(Threads) /\ IsInjective(waitingList)
      /\ \A u \in Threads : Contains(waitingList, u) <=> sched.status[u] = "WAITING"
      /\ Threads \subseteq Tasks
  BY DEF SyncInv, SchedInv, TypeOK, OneListPerSleeper, Tasks
<1>3. /\ Coherent(sched')
      /\ sched'.status = [u \in Tasks |-> IF Contains(waitingList, u) THEN "READY"
                                          ELSE sched.status[u]]
  <2>1. \A u \in Threads : Contains(waitingList, u) => sched.status[u] \in Asleep
    BY <1>2 DEF Asleep
  <2>2. QED
    BY <1>1, <1>2, <2>1, WakeAllEffect
<1>4. TypeOK'
  BY <1>1, <1>3 DEF SyncInv, TypeOK, Coherent
<1>5. SchedInv'
  BY <1>3 DEF SchedInv, Coherent, KernelState, ReadyExact, RunningIsCur, InReady
<1>6. LockFields' /\ MutualExclusion'
  BY <1>1, <1>2, <1>3 DEF SyncInv, LockFields, MutualExclusion, Owns
<1>7. OneListPerSleeper'
  <2>1. IsInjective(<<>>) /\ \A u : ~Contains(<<>>, u)
    BY DEF IsInjective, Contains
  <2>2. QED
    BY <1>1, <1>2, <1>3, <2>1 DEF SyncInv, OneListPerSleeper
<1>8. NoLostWakeup'
  BY <1>1 DEF SyncInv, MutualExclusion, Owns, NoLostWakeup
<1>9. QED
  BY <1>4, <1>5, <1>6, <1>7, <1>8 DEF SyncInv

\* A thread that starts is on no list of the lock and in none of its calls.
LEMMA StartThreadStep ==
  ASSUME SyncInv, NEW t \in Threads, NEW u \in Threads, StartThread(t, u)
  PROVE  SyncInv'
<1>1. /\ sched.status[u] = "DIED" /\ sched' = ThreadStart(sched, u)
      /\ UNCHANGED <<value, blockedList, waitingList, holder, repeat, pc>>
  BY DEF StartThread, lockVars
<1>2. /\ Coherent(sched) /\ u \in Tasks /\ Threads \subseteq Tasks
      /\ sched.status \in [Tasks -> TaskStatus]
  BY DEF SyncInv, SchedInv, Coherent, KernelState, Tasks
<1>3. Coherent(sched')
  BY <1>1, <1>2, StartCoherent
<1>4. sched'.status = [sched.status EXCEPT ![u] = "READY"]
  <2>1. sched' = [sched EXCEPT !.status[u] = "READY", !.ready = Append(@, u),
                               !.ticks[u] = Priority[u]]
    BY <1>1, <1>2 DEF ThreadStart, Coherent, ReadyExact
  <2>2. QED
    BY <1>2, <2>1 DEF Coherent, KernelState
<1>5. TypeOK'
  BY <1>1, <1>3 DEF SyncInv, TypeOK, Coherent
<1>6. SchedInv'
  BY <1>3 DEF SchedInv, Coherent, KernelState, ReadyExact, RunningIsCur, InReady
<1>7. LockFields' /\ MutualExclusion'
  BY <1>1, <1>2, <1>4 DEF SyncInv, LockFields, MutualExclusion, Owns
<1>8. OneListPerSleeper' /\ NoLostWakeup'
  BY <1>1, <1>2, <1>4 DEF SyncInv, OneListPerSleeper, NoLostWakeup
<1>9. QED
  BY <1>5, <1>6, <1>7, <1>8 DEF SyncInv

\* A step that only moves tasks between READY and RUNNING.
LEMMA SwitchStep ==
  ASSUME SyncInv, Coherent(sched'), SameSleep(sched, sched', Threads),
         UNCHANGED <<value, blockedList, waitingList, holder, repeat, pc>>
  PROVE  SyncInv'
<1>1. TypeOK'
  BY DEF SyncInv, TypeOK, Coherent
<1>2. SchedInv'
  BY DEF SchedInv, Coherent, KernelState, ReadyExact, RunningIsCur, InReady
<1>3. LockFields' /\ MutualExclusion'
  BY DEF SyncInv, LockFields, MutualExclusion, Owns, SameSleep, Awake
<1>4. OneListPerSleeper' /\ NoLostWakeup'
  BY DEF SyncInv, OneListPerSleeper, NoLostWakeup, SameSleep, Awake
<1>5. QED
  BY <1>1, <1>2, <1>3, <1>4 DEF SyncInv

-----------------------------------------------------------------------------
(* The invariant *)

\* The lock lockInit makes, before the other threads exist.
LEMMA SyncInit == Init => SyncInv
<1> SUFFICES ASSUME Init PROVE SyncInv
  OBVIOUS
<1> USE SchedulerAssumption, SyncAssumption DEF Init
<1>1. SchedInv
  BY KernelInitCoherent DEF SchedInv
<1>2. TypeOK
  BY <1>1 DEF TypeOK, SchedInv, Coherent, Points
<1>3. LockFields /\ MutualExclusion
  BY DEF LockFields, MutualExclusion, Owns, Tasks
<1>4. OneListPerSleeper
  BY DEF OneListPerSleeper, IsInjective, Contains, KernelInit, Tasks
<1>5. NoLostWakeup
  BY DEF NoLostWakeup
<1>6. QED
  BY <1>1, <1>2, <1>3, <1>4, <1>5 DEF SyncInv

\* Every step keeps the invariant.
LEMMA SyncStep == SyncInv /\ [Next]_vars => SyncInv'
<1> SUFFICES ASSUME SyncInv, [Next]_vars
             PROVE  SyncInv'
  OBVIOUS
<1>1. ASSUME NEW t \in Threads, LockLock(t) PROVE SyncInv'
  BY <1>1, LockLockStep
<1>2. ASSUME NEW t \in Threads, SemaDownBlock(t) PROVE SyncInv'
  BY <1>2, SemaDownBlockStep
<1>3. ASSUME NEW t \in Threads, SemaDownTake(t) PROVE SyncInv'
  BY <1>3, SemaDownTakeStep
<1>4. ASSUME NEW t \in Threads, BecomeHolder(t) PROVE SyncInv'
  BY <1>4, BecomeHolderStep
<1>5. ASSUME NEW t \in Threads, LockUnlock(t) PROVE SyncInv'
  BY <1>5, LockUnlockStep
<1>6. ASSUME NEW t \in Threads, SemaUp(t) PROVE SyncInv'
  BY <1>6, SemaUpStep
<1>7. ASSUME NEW t \in Threads, LockWait(t) PROVE SyncInv'
  BY <1>7, LockWaitStep
<1>8. ASSUME NEW t \in Threads, LockNotify(t) PROVE SyncInv'
  BY <1>8, LockNotifyStep
<1>9. ASSUME NEW t \in Threads, LockNotifyAll(t) PROVE SyncInv'
  BY <1>9, LockNotifyAllStep
<1>10. ASSUME NEW t \in Threads, NEW u \in Threads, StartThread(t, u) PROVE SyncInv'
  BY <1>10, StartThreadStep
<1>11. Coherent(sched)
  BY DEF SyncInv, SchedInv
<1>12. ASSUME NEW t \in Threads, Yield(t) PROVE SyncInv'
  BY <1>11, <1>12, YieldCoherent, YieldSleep, SwitchStep DEF Yield, lockVars
<1>13. ASSUME IdleLoop PROVE SyncInv'
  BY <1>11, <1>13, IdleCoherent, IdleSleep, SwitchStep DEF IdleLoop, Running, lockVars
<1>14. ASSUME TimerIntr PROVE SyncInv'
  <2>1. Coherent(Interrupted(sched)) /\ Interrupted(sched).status = sched.status
    BY <1>11, InterruptedKeeps
  <2>2. Coherent(sched') /\ SameSleep(Interrupted(sched), sched', Threads)
    BY <1>14, <2>1, TickCoherent, TickSleep DEF TimerIntr
  <2>3. SameSleep(sched, sched', Threads)
    BY <2>1, <2>2 DEF SameSleep
  <2>4. QED
    BY <1>14, <2>2, <2>3, SwitchStep DEF TimerIntr, lockVars
<1>15. ASSUME UNCHANGED vars PROVE SyncInv'
  BY <1>15 DEF vars, SyncInv, TypeOK, SchedInv, LockFields, MutualExclusion, Owns,
               OneListPerSleeper, NoLostWakeup
<1>16. QED
  BY <1>1, <1>2, <1>3, <1>4, <1>5, <1>6, <1>7, <1>8, <1>9, <1>10, <1>12, <1>13,
     <1>14, <1>15 DEF Next

\* The inductive invariant holds at all times.
THEOREM SyncInvariant == Spec => []SyncInv
BY SyncInit, SyncStep, PTL DEF Spec

\* Two threads never own the lock, and a free semaphore has no owner.
THEOREM LockMutualExclusion == Spec => []MutualExclusion
<1>1. SyncInv => MutualExclusion
  BY DEF SyncInv
<1>2. QED
  BY <1>1, SyncInvariant, PTL

\* A thread sleeps on exactly one list, the one of the call it is in.
THEOREM LockOneListPerSleeper == Spec => []OneListPerSleeper
<1>1. SyncInv => OneListPerSleeper
  BY DEF SyncInv
<1>2. QED
  BY <1>1, SyncInvariant, PTL

\* A wakeup by semaUp is never lost.
THEOREM LockNoLostWakeup == Spec => []NoLostWakeup
<1>1. SyncInv => NoLostWakeup
  BY DEF SyncInv
<1>2. QED
  BY <1>1, SyncInvariant, PTL

\* No ASSERT of sync.c or thread.c fails.
THEOREM LockNoPanic == Spec => []NoPanic
<1>1. SyncInv => NoPanic
  BY DEF SyncInv, SchedInv, Coherent, NoPanic
<1>2. QED
  BY <1>1, SyncInvariant, PTL

-----------------------------------------------------------------------------
(* The refinement: the lock implements Monitor. *)


\* Who owns the lock in the monitor's terms: the one thread that does, if any.
LEMMA OwnerIs ==
  ASSUME MutualExclusion
  PROVE  /\ \A t \in Threads : Owns(t) => Owner = t
         /\ value = 1 => Owner = NoThread
<1>1. ASSUME NEW t \in Threads, Owns(t) PROVE Owner = t
  <2>1. \A u \in Threads : Owns(u) <=> u = t
    BY <1>1 DEF MutualExclusion
  <2>2. (CHOOSE u \in Threads : Owns(u)) = t
    BY <2>1
  <2>3. QED
    BY <1>1, <2>2 DEF Owner
<1>2. ASSUME value = 1 PROVE Owner = NoThread
  BY <1>2 DEF Owner, MutualExclusion
<1>3. QED
  BY <1>1, <1>2

\* The same of the next state.
LEMMA OwnerIsNext ==
  ASSUME MutualExclusion'
  PROVE  /\ \A t \in Threads : Owns(t)' => Owner' = t
         /\ value' = 1 => Owner' = NoThread
<1>1. ASSUME NEW t \in Threads, Owns(t)' PROVE Owner' = t
  <2>1. \A u \in Threads : Owns(u)' <=> u = t
    BY <1>1 DEF MutualExclusion
  <2>2. (CHOOSE u \in Threads : Owns(u)') = t
    BY <2>1
  <2>3. QED
    BY <1>1, <2>2 DEF Owner
<1>2. ASSUME value' = 1 PROVE Owner' = NoThread
  BY <1>2 DEF Owner, MutualExclusion
<1>3. QED
  BY <1>1, <1>2

\* A step in which no thread starts or stops owning the lock keeps the owner.
LEMMA OwnerSame ==
  ASSUME MutualExclusion, MutualExclusion', \A t \in Threads : Owns(t)' <=> Owns(t)
  PROVE  Owner' = Owner
<1>1. CASE \E t \in Threads : Owns(t)
  BY <1>1, OwnerIs, OwnerIsNext
<1>2. CASE ~\E t \in Threads : Owns(t)
  BY <1>2 DEF Owner
<1>3. QED
  BY <1>1, <1>2

\* The waiters of the monitor: the threads on the waiting list.
Waiters == {t \in Threads : Contains(waitingList, t)}

MonitorVars == <<Owner, Waiters>>

\* lockLock is a stutter of the monitor until semaDown succeeds.
LEMMA LockLockMaps ==
  ASSUME SyncInv, SyncInv', NEW t \in Threads, LockLock(t)
  PROVE  UNCHANGED MonitorVars
<1>1. /\ pc[t] \in {"run", "relock"} /\ holder' = holder /\ waitingList' = waitingList
      /\ pc' = [pc EXCEPT ![t] = IF holder # t THEN "down" ELSE "run"]
  BY DEF LockLock, Goto
<1>2. \A u \in Threads : Owns(u)' <=> Owns(u)
  BY <1>1 DEF Owns, SyncInv, TypeOK
<1>3. QED
  BY <1>1, <1>2, OwnerSame DEF MonitorVars, Waiters, SyncInv

\* So is a semaDown that sleeps.
LEMMA SemaDownBlockMaps ==
  ASSUME SyncInv, SyncInv', NEW t \in Threads, SemaDownBlock(t)
  PROVE  UNCHANGED MonitorVars
<1>1. /\ pc[t] \in {"down", "woken"} /\ holder' = holder /\ waitingList' = waitingList
      /\ pc' = [pc EXCEPT ![t] = "woken"]
  BY DEF SemaDownBlock, Goto
<1>2. \A u \in Threads : Owns(u)' <=> Owns(u)
  BY <1>1 DEF Owns, SyncInv, TypeOK
<1>3. QED
  BY <1>1, <1>2, OwnerSame DEF MonitorVars, Waiters, SyncInv

\* semaDown that takes the semaphore acquires the monitor.
LEMMA SemaDownTakeMaps ==
  ASSUME SyncInv, SyncInv', NEW t \in Threads, SemaDownTake(t)
  PROVE  AbstractMonitor!Acquire(t)
<1>1. /\ Running(t) /\ value = 1 /\ waitingList' = waitingList
      /\ pc' = [pc EXCEPT ![t] = "own"]
  BY DEF SemaDownTake, Goto, SyncInv, TypeOK
<1>2. Owner = NoThread
  BY <1>1, OwnerIs DEF SyncInv
<1>3. Owner' = t
  BY <1>1, OwnerIsNext DEF SyncInv, TypeOK, Owns, Tasks
<1>4. t \notin Waiters
  BY <1>1, RunningFacts DEF Waiters
<1>5. QED
  BY <1>1, <1>2, <1>3, <1>4 DEF AbstractMonitor!Acquire, Waiters

\* The holder field is written while its thread owns the lock already.
LEMMA BecomeHolderMaps ==
  ASSUME SyncInv, SyncInv', NEW t \in Threads, BecomeHolder(t)
  PROVE  UNCHANGED MonitorVars
<1>1. /\ pc[t] = "own" /\ holder' = t /\ waitingList' = waitingList
      /\ pc' = [pc EXCEPT ![t] = "run"]
  BY DEF BecomeHolder, Goto
<1>2. Owns(t) /\ Owns(t)'
  BY <1>1 DEF Owns
<1>3. QED
  BY <1>1, <1>2, OwnerIs, OwnerIsNext DEF MonitorVars, Waiters, SyncInv

\* lockUnlock clears it while its thread still owns the lock, until semaUp.
LEMMA LockUnlockMaps ==
  ASSUME SyncInv, SyncInv', NEW t \in Threads, LockUnlock(t)
  PROVE  UNCHANGED MonitorVars
<1>1. /\ holder = t /\ waitingList' = waitingList
      /\ \/ holder' = holder
         \/ pc' = [pc EXCEPT ![t] = "up"]
  BY DEF LockUnlock, Goto
<1>2. Owns(t) /\ Owns(t)'
  BY <1>1 DEF Owns, SyncInv, TypeOK, Tasks
<1>3. QED
  BY <1>1, <1>2, OwnerIs, OwnerIsNext DEF MonitorVars, Waiters, SyncInv

\* semaUp releases the monitor.
LEMMA SemaUpMaps ==
  ASSUME SyncInv, SyncInv', NEW t \in Threads, SemaUp(t)
  PROVE  AbstractMonitor!Release(t)
<1>1. /\ pc[t] = "up" /\ waitingList' = waitingList /\ value' = value + 1
  BY DEF SemaUp
<1>2. Owns(t) /\ value = 0
  BY <1>1 DEF Owns, SyncInv, TypeOK, MutualExclusion
<1>3. Owner = t /\ Owner' = NoThread
  BY <1>1, <1>2, OwnerIs, OwnerIsNext DEF SyncInv
<1>4. QED
  BY <1>1, <1>3 DEF AbstractMonitor!Release, Waiters

\* lockWait of a lock taken once gives the monitor up and waits.
LEMMA LockWaitMaps ==
  ASSUME SyncInv, SyncInv', NEW t \in Threads, LockWait(t), WaitDepth = 1
  PROVE  AbstractMonitor!Wait(t)
<1>1. /\ Running(t) /\ holder = t /\ repeat \in Nat /\ repeat <= 1
      /\ waitingList' = Append(waitingList, t)
  BY DEF LockWait, SyncInv, TypeOK
<1>2. Owns(t) /\ value = 0
  BY <1>1 DEF Owns, SyncInv, TypeOK, MutualExclusion
<1>3. value' = 1
  BY <1>1, <1>2 DEF LockWait
<1>4. Owner = t /\ Owner' = NoThread
  BY <1>2, <1>3, OwnerIs, OwnerIsNext DEF SyncInv
<1>5. \A u : Contains(waitingList', u) <=> u = t \/ Contains(waitingList, u)
  BY <1>1, RunningFacts, AppendList DEF SyncInv, TypeOK, OneListPerSleeper
<1>6. Waiters' = Waiters \cup {t}
  BY <1>5 DEF Waiters
<1>7. QED
  BY <1>4, <1>6 DEF AbstractMonitor!Wait, Waiters

\* lockNotify wakes one waiter.
LEMMA LockNotifyMaps ==
  ASSUME SyncInv, SyncInv', NEW t \in Threads, LockNotify(t)
  PROVE  AbstractMonitor!Notify(t)
<1>1. /\ holder = t /\ waitingList # <<>> /\ waitingList' = Tail(waitingList)
      /\ pc' = pc /\ holder' = holder
  BY DEF LockNotify
<1>2. Owner = t /\ Owner' = t
  BY <1>1, OwnerIs, OwnerIsNext DEF SyncInv, Owns
<1>3. \A u : Contains(waitingList', u) <=> u # Head(waitingList) /\ Contains(waitingList, u)
  BY <1>1, PopList DEF SyncInv, TypeOK, OneListPerSleeper
<1> DEFINE woken == {u \in Waiters : u = Head(waitingList)}
<1>4. woken \in SUBSET Waiters /\ Waiters' = Waiters \ woken
  BY <1>3 DEF Waiters
<1>5. QED
  BY <1>2, <1>4 DEF AbstractMonitor!Notify, Waiters

\* lockNotifyAll wakes them all.
LEMMA LockNotifyAllMaps ==
  ASSUME SyncInv, SyncInv', NEW t \in Threads, LockNotifyAll(t)
  PROVE  AbstractMonitor!Notify(t)
<1>1. /\ holder = t /\ waitingList' = <<>> /\ pc' = pc /\ holder' = holder
  BY DEF LockNotifyAll
<1>2. Owner = t /\ Owner' = t
  BY <1>1, OwnerIs, OwnerIsNext DEF SyncInv, Owns
<1>3. Waiters' = Waiters \ Waiters /\ Waiters \in SUBSET Waiters
  BY <1>1 DEF Waiters, Contains
<1>4. QED
  BY <1>2, <1>3 DEF AbstractMonitor!Notify, Waiters

\* The scheduler moves threads, not the lock.
LEMMA SwitchMaps ==
  ASSUME SyncInv, SyncInv', UNCHANGED <<lockVars, pc>>
  PROVE  UNCHANGED MonitorVars
<1>1. \A u \in Threads : Owns(u)' <=> Owns(u)
  BY DEF Owns, lockVars
<1>2. QED
  BY <1>1, OwnerSame DEF MonitorVars, Waiters, SyncInv, lockVars

\* The lock is a monitor: every step of every thread is a step of Monitor or
\* leaves owner and waiters alone.  Callers wait with the lock taken once: a
\* lock taken twice is not given up by lockWait.
THEOREM LockIsMonitor ==
  ASSUME WaitDepth = 1
  PROVE  Spec => ImplementsMonitor
<1>1. Init => AbstractMonitor!Init
  <2>1. SUFFICES ASSUME Init PROVE AbstractMonitor!Init
    OBVIOUS
  <2>2. value = 1 /\ waitingList = <<>> /\ MutualExclusion
    BY <2>1, SyncInit DEF Init, SyncInv
  <2>3. Owner = NoThread
    BY <2>2, OwnerIs
  <2>4. QED
    BY <2>2, <2>3 DEF AbstractMonitor!Init, Contains
<1>2. SyncInv /\ SyncInv' /\ [Next]_vars => [AbstractMonitor!Next]_MonitorVars
  <2> SUFFICES ASSUME SyncInv, SyncInv', [Next]_vars
               PROVE  [AbstractMonitor!Next]_MonitorVars
    OBVIOUS
  <2>1. ASSUME NEW t \in Threads,
               SemaDownTake(t) \/ SemaUp(t) \/ LockWait(t) \/ LockNotify(t) \/ LockNotifyAll(t)
        PROVE  AbstractMonitor!Next
    BY <2>1, SemaDownTakeMaps, SemaUpMaps, LockWaitMaps, LockNotifyMaps, LockNotifyAllMaps
       DEF AbstractMonitor!Next
  <2>2. ASSUME NEW t \in Threads,
               LockLock(t) \/ SemaDownBlock(t) \/ BecomeHolder(t) \/ LockUnlock(t)
        PROVE  UNCHANGED MonitorVars
    BY <2>2, LockLockMaps, SemaDownBlockMaps, BecomeHolderMaps, LockUnlockMaps
  <2>3. ASSUME NEW t \in Threads, Yield(t) \/ \E u \in Threads : StartThread(t, u)
        PROVE  UNCHANGED MonitorVars
    BY <2>3, SwitchMaps DEF Yield, StartThread
  <2>4. ASSUME IdleLoop \/ TimerIntr \/ UNCHANGED vars
        PROVE  UNCHANGED MonitorVars
    BY <2>4, SwitchMaps DEF IdleLoop, TimerIntr, vars, lockVars
  <2>5. QED
    BY <2>1, <2>2, <2>3, <2>4 DEF Next
<1>3. QED
  BY <1>1, <1>2, SyncInvariant, PTL
     DEF Spec, ImplementsMonitor, AbstractMonitor!Spec, MonitorVars, Waiters

-----------------------------------------------------------------------------
(* The scheduler on its own: the lemmas about the operations of Thread say   *)
(* that every step of Scheduler keeps the kernel state coherent.             *)

\* Every step of the running thread and of the interrupt handlers keeps the
\* kernel state coherent.
LEMMA SchedulerStep == SchedInv /\ [SchedNext]_sched => SchedInv'
<1> SUFFICES ASSUME Coherent(sched), [SchedNext]_sched
             PROVE  Coherent(sched')
  BY DEF SchedInv, Coherent, KernelState, ReadyExact, RunningIsCur, InReady
<1> DEFINE Runs(t) == ~sched.panic /\ sched.cur = t
<1>1. ASSUME NEW t \in Threads, Block(t) PROVE Coherent(sched')
  <2>1. Runs(t) /\ \E st \in Asleep : sched' = ThreadBlock(sched, st)
    BY <1>1 DEF Block, Running
  <2>2. QED
    BY <2>1, BlockCoherent, SchedulerAssumption
<1>2. ASSUME NEW t \in Threads, YieldCpu(t) PROVE Coherent(sched')
  BY <1>2, YieldCoherent DEF YieldCpu
<1>3. ASSUME NEW t \in Threads, Exit(t) PROVE Coherent(sched')
  <2>1. Runs(t) /\ sched' = Schedule(Retire(sched, t))
    BY <1>3 DEF Exit, Running
  <2>2. QED
    BY <2>1, RetireCurVacant, ScheduleVacant, SchedulerAssumption
<1>4. ASSUME NEW t \in Threads, NEW u \in Threads, Wake(t, u) PROVE Coherent(sched')
  BY <1>4, UnblockKeeps DEF Wake, Asleep, Tasks
<1>5. ASSUME NEW t \in Threads, NEW u \in Threads, Start(t, u) PROVE Coherent(sched')
  BY <1>5, StartCoherent DEF Start, Tasks
<1>6. ASSUME NEW t \in Threads, NEW u \in Threads, Reap(t, u) PROVE Coherent(sched')
  BY <1>6, RetireCoherent DEF Reap, Asleep
<1>7. CASE IdleTurn
  BY <1>7, IdleCoherent DEF IdleTurn, Running
<1>8. CASE DeviceIntr
  <2>1. PICK u \in Threads : /\ sched.status[u] = "BLOCKED"
                             /\ sched' = ThreadUnblock(Interrupted(sched), u)
    BY <1>8 DEF DeviceIntr
  <2>2. QED
    BY <2>1, InterruptedKeeps, UnblockKeeps DEF Asleep, Tasks
<1>9. CASE ClockIntr
  BY <1>9, InterruptedKeeps, TickCoherent DEF ClockIntr
<1>10. CASE UNCHANGED sched
  BY <1>10
<1>11. QED
  BY <1>1, <1>2, <1>3, <1>4, <1>5, <1>6, <1>7, <1>8, <1>9, <1>10 DEF SchedNext

\* SchedInv holds at all times: the ready list is exactly the set of READY
\* tasks without repetition, one task runs, no ASSERT of thread.c fails.
THEOREM SchedulerInvariant == SchedSpec => []SchedInv
<1>1. SchedInit => SchedInv
  BY KernelInitCoherent DEF SchedInit, SchedInv
<1>2. QED
  BY <1>1, SchedulerStep, PTL DEF SchedSpec

\* Each task is on the ready list exactly when it is READY, and only once.
THEOREM SchedulerReadyList == SchedSpec => []ReadyListExact
<1>1. SchedInv => ReadyListExact
  BY DEF SchedInv, Coherent, ReadyListExact
<1>2. QED
  BY <1>1, SchedulerInvariant, PTL

\* schedule always finds a task, and no task is queued or woken twice.
THEOREM SchedulerNoPanic == SchedSpec => []NoPanic
<1>1. SchedInv => NoPanic
  BY DEF SchedInv, Coherent, NoPanic
<1>2. QED
  BY <1>1, SchedulerInvariant, PTL

-----------------------------------------------------------------------------
(***************************************************************************)
(* The ring queue, for every use of the lock by producers and consumers    *)
(* and every size.                                                         *)
(***************************************************************************)

\* The arithmetic of nextPos and of the positions between tail and head.
LEMMA Wrap ==
  ASSUME NEW n \in Nat \ {0}, NEW x \in Int
  PROVE  /\ x \in 0 .. n - 1 => x % n = x
         /\ x \in n .. 2 * n - 1 => x % n = x - n
         /\ x \in -n .. -1 => x % n = x + n
<1>1. ASSUME NEW y \in Int, y \in 0 .. n - 1 PROVE y % n = y
  BY <1>1
<1>2. ASSUME NEW y \in Int, y \in n .. 2 * n - 1 PROVE y % n = y - n
  BY <1>2
<1>3. ASSUME NEW y \in Int, y \in -n .. -1 PROVE y % n = y + n
  BY <1>3
<1>4. QED
  BY <1>1, <1>2, <1>3

-----------------------------------------------------------------------------
(* The use of the lock: what ioqueue.c relies on                            *)

\* A holder owns the lock, so no other thread is at a point of owning it.
LEMMA HolderAlone ==
  ASSUME LockUse, NEW t \in Threads, Owns(t)
  PROVE  /\ value = 0
         /\ \A u \in Threads : Owns(u) => u = t
BY DEF LockUse, MutualExclusion

\* A step that changes neither the lock nor where its thread is.
LEMMA LockUseSame ==
  ASSUME LockUse, UNCHANGED <<value, holder, repeat, pc, op>>
  PROVE  LockUse'
BY DEF LockUse, MutualExclusion, Owns

\* A step of ioqueue.c inside the lock.
LEMMA LockUseInside ==
  ASSUME LockUse, NEW t \in Threads, pc[t] = "run", op[t] # "call",
         NEW p \in QueuePoints, p # "call", op' = [op EXCEPT ![t] = p],
         UNCHANGED <<value, holder, repeat, pc>>
  PROVE  LockUse'
BY DEF LockUse, MutualExclusion, Owns

\* lockLock
LEMMA CallUse ==
  ASSUME LockUse, NEW t \in Threads, Call(t)
  PROVE  LockUse'
<1>1. /\ pc[t] = "run" /\ op[t] = "call" /\ op' = [op EXCEPT ![t] = "test"]
      /\ holder # t
  BY DEF Call, At, MoveOn, LockUse
<1>2. pc' = [pc EXCEPT ![t] = "down"] /\ UNCHANGED <<value, holder, repeat>>
  BY <1>1 DEF Call, LockLock, Goto
<1>3. QED
  BY <1>1, <1>2 DEF LockUse, MutualExclusion, Owns, Points, QueuePoints

\* lockWait, of a lock taken once
LEMMA WaitUse ==
  ASSUME LockUse, NEW t \in Threads, Wait(t)
  PROVE  LockUse'
<1>1. pc[t] = "run" /\ op[t] = "test" /\ holder = t /\ repeat = 1 /\ op' = op
  BY DEF Wait, At, LockWait, LockUse
<1>2. value = 0 /\ \A u \in Threads : Owns(u) => u = t
  BY <1>1, HolderAlone DEF Owns
<1>3. /\ pc' = [pc EXCEPT ![t] = "relock"] /\ holder' = NoThread
      /\ value' = value + 1
  BY <1>1 DEF Wait, LockWait, Goto
<1>4. QED
  BY <1>1, <1>2, <1>3, SyncAssumption
     DEF Tasks, LockUse, MutualExclusion, Owns, Points

\* lockUnlock before semaUp, of a lock taken once
LEMMA UnlockUse ==
  ASSUME LockUse, NEW t \in Threads, Unlock(t)
  PROVE  LockUse'
<1>1. /\ pc[t] = "run" /\ op[t] = "unlock" /\ holder = t /\ repeat = 1
      /\ op' = [op EXCEPT ![t] = "call"]
  BY DEF Unlock, At, MoveOn, LockUnlock, LockUse
<1>2. value = 0 /\ \A u \in Threads : Owns(u) => u = t
  BY <1>1, HolderAlone DEF Owns
<1>3. pc' = [pc EXCEPT ![t] = "up"] /\ holder' = NoThread /\ value' = value
  BY <1>1 DEF Unlock, LockUnlock, Goto
<1>4. QED
  BY <1>1, <1>2, <1>3, SyncAssumption
     DEF Tasks, LockUse, MutualExclusion, Owns, Points, QueuePoints

\* the rest of lockLock, lockUnlock and lockWait, one step at a time
LEMMA InLockUse ==
  ASSUME LockUse, NEW t \in Threads, InLock(t)
  PROVE  LockUse'
<1>1. op' = op
  BY DEF InLock
<1>2. CASE pc[t] # "run" /\ LockLock(t)
  <2>1. pc[t] = "relock" /\ holder # t
    BY <1>2 DEF LockLock, LockUse
  <2>2. pc' = [pc EXCEPT ![t] = "down"] /\ UNCHANGED <<value, holder, repeat>>
    BY <1>2, <2>1 DEF LockLock, Goto
  <2>3. QED
    BY <1>1, <2>1, <2>2 DEF LockUse, MutualExclusion, Owns, Points
<1>3. CASE SemaDownBlock(t)
  <2>1. /\ pc[t] \in {"down", "woken"} /\ pc' = [pc EXCEPT ![t] = "woken"]
        /\ UNCHANGED <<value, holder, repeat>>
    BY <1>3 DEF SemaDownBlock, Goto
  <2>2. QED
    BY <1>1, <2>1 DEF LockUse, MutualExclusion, Owns, Points
<1>4. CASE SemaDownTake(t)
  <2>1. /\ pc[t] \in {"down", "woken"} /\ pc' = [pc EXCEPT ![t] = "own"]
        /\ value # 0 /\ value' = value - 1 /\ UNCHANGED <<holder, repeat>>
    BY <1>4 DEF SemaDownTake, Goto
  <2>2. QED
    BY <1>1, <2>1 DEF LockUse, MutualExclusion, Owns, Points
<1>5. CASE BecomeHolder(t)
  <2>1. /\ pc[t] = "own" /\ pc' = [pc EXCEPT ![t] = "run"]
        /\ holder' = t /\ repeat' = 1 /\ value' = value
    BY <1>5 DEF BecomeHolder, Goto
  <2>2. \A u \in Threads : Owns(u) => u = t
    BY <2>1, HolderAlone DEF Owns
  <2>3. QED
    BY <1>1, <2>1, <2>2 DEF LockUse, MutualExclusion, Owns, Points
<1>6. CASE SemaUp(t)
  <2>1. /\ pc[t] = "up" /\ pc' = [pc EXCEPT ![t] = "run"]
        /\ value' = value + 1 /\ UNCHANGED <<holder, repeat>>
    BY <1>6 DEF SemaUp, Goto
  <2>2. value = 0 /\ \A u \in Threads : Owns(u) => u = t
    BY <2>1, HolderAlone DEF Owns
  <2>3. QED
    BY <1>1, <2>1, <2>2 DEF LockUse, MutualExclusion, Owns, Points
<1>7. QED
  BY <1>2, <1>3, <1>4, <1>5, <1>6 DEF InLock

\* The lock as lockInit makes it.
LEMMA LockUseInit == QueueInit => LockUse
BY SchedulerAssumption, SyncAssumption
   DEF QueueInit, Init, Tasks, LockUse, MutualExclusion, Owns, Points,
       QueuePoints

\* Every step uses the lock so.
LEMMA LockUseStep == LockUse /\ [QueueNext]_queueVars => LockUse'
<1> SUFFICES ASSUME LockUse, [QueueNext]_queueVars PROVE LockUse'
  OBVIOUS
<1>1. ASSUME NEW t \in Threads, Proceed(t) \/ Copy(t) \/ AdvanceHead(t) \/ AdvanceTail(t)
      PROVE  LockUse'
  <2>1. PICK p \in {"copy", "advance", "notify"} : op' = [op EXCEPT ![t] = p]
    BY <1>1 DEF Proceed, Copy, AdvanceHead, AdvanceTail, MoveOn
  <2>2. /\ pc[t] = "run" /\ op[t] # "call" /\ UNCHANGED <<value, holder, repeat, pc>>
    BY <1>1 DEF Proceed, Copy, AdvanceHead, AdvanceTail, At, vars
  <2>3. QED
    BY <2>1, <2>2, LockUseInside DEF QueuePoints
<1>2. ASSUME NEW t \in Threads, NotifyAll(t) PROVE LockUse'
  BY <1>2, LockUseInside DEF NotifyAll, At, MoveOn, LockNotifyAll, QueuePoints
<1>3. ASSUME NEW t \in Threads, StartOther(t) PROVE LockUse'
  BY <1>3, LockUseSame DEF StartOther, StartThread, lockVars
<1>4. ASSUME Background PROVE LockUse'
  BY <1>4, LockUseSame DEF Background, IdleLoop, TimerIntr, lockVars
<1>5. ASSUME UNCHANGED queueVars PROVE LockUse'
  BY <1>5, LockUseSame DEF queueVars, vars
<1>6. QED
  BY <1>1, <1>2, <1>3, <1>4, <1>5, CallUse, WaitUse, UnlockUse, InLockUse DEF QueueNext, Step

-----------------------------------------------------------------------------
(* The ring as a sequence: the content of n slots from slot t on *)

Slots == 0 .. Size - 1

Slot(t, i) == (t + i - 1) % Size

Between(b, t, n) == [i \in 1 .. n |-> b[Slot(t, i)]]

\* how far slot h is behind slot t
Distance(h, t) == (h - t) % Size

\* The distance without the modulus.
LEMMA DistanceIs ==
  ASSUME NEW h \in Slots, NEW t \in Slots
  PROVE  Distance(h, t) = IF h >= t THEN h - t ELSE h - t + Size
<1> DEFINE x == h - t
<1>1. Size \in Nat \ {0} /\ h \in Int /\ t \in Int /\ x \in Int
  BY IoQueueAssumption DEF Slots
<1>2. CASE h >= t
  <2>1. x \in 0 .. Size - 1
    BY <1>1, <1>2 DEF Slots
  <2> HIDE DEF x
  <2>2. x % Size = x
    BY <1>1, <2>1, Wrap
  <2>3. QED
    BY <1>1, <1>2, <2>2 DEF Distance, x
<1>3. CASE h < t
  <2>1. x \in -Size .. -1
    BY <1>1, <1>3 DEF Slots
  <2> HIDE DEF x
  <2>2. x % Size = x + Size
    BY <1>1, <2>1, Wrap
  <2>3. x % Size = Distance(h, t)
    BY DEF Distance, x
  <2>4. Distance(h, t) = h - t + Size
    BY <2>2, <2>3 DEF x
  <2>5. QED
    BY <1>1, <1>3, <2>4
<1>4. QED
  BY <1>1, <1>2, <1>3

\* Neither has the i-th slot from slot t on.
LEMMA SlotIs ==
  ASSUME NEW t \in Slots, NEW i \in 1 .. Size
  PROVE  /\ Slot(t, i) \in Slots
         /\ Slot(t, i) = IF t + i - 1 < Size THEN t + i - 1 ELSE t + i - 1 - Size
<1> DEFINE x == t + i - 1
<1>1. Size \in Nat \ {0} /\ t \in Int /\ i \in Int /\ x \in Int
  BY IoQueueAssumption DEF Slots
<1>2. Slot(t, i) = x % Size
  BY DEF Slot
<1>3. CASE x < Size
  <2>1. x \in 0 .. Size - 1
    BY <1>1, <1>3 DEF Slots
  <2> HIDE DEF x
  <2>2. x % Size = x
    BY <1>1, <2>1, Wrap
  <2>3. Slot(t, i) = x /\ Slot(t, i) \in Slots
    BY <1>2, <2>1, <2>2 DEF Slots
  <2>4. QED
    BY <1>3, <2>3 DEF x
<1>4. CASE x >= Size
  <2>1. x \in Size .. 2 * Size - 1
    BY <1>1, <1>4 DEF Slots
  <2>2. x - Size \in 0 .. Size - 1
    BY <1>1, <2>1
  <2> HIDE DEF x
  <2>3. x % Size = x - Size
    BY <1>1, <2>1, Wrap
  <2>4. Slot(t, i) = x - Size /\ Slot(t, i) \in Slots /\ ~(x < Size)
    BY <1>1, <1>2, <1>4, <2>2, <2>3 DEF Slots
  <2>5. QED
    BY <1>1, <2>4 DEF x
<1>5. QED
  BY <1>1, <1>3, <1>4

\* nextPos goes round.
LEMMA NextPosIs ==
  ASSUME NEW p \in Slots
  PROVE  nextPos(p) \in Slots /\ nextPos(p) = IF p = Size - 1 THEN 0 ELSE p + 1
<1> DEFINE x == p + 1
<1>1. Size \in Nat \ {0} /\ p \in Int /\ x \in Int
  BY IoQueueAssumption DEF Slots
<1>2. CASE p = Size - 1
  <2>1. x \in Size .. 2 * Size - 1 /\ x - Size = 0
    BY <1>1, <1>2
  <2> HIDE DEF x
  <2>2. x % Size = 0
    BY <1>1, <2>1, Wrap
  <2>3. nextPos(p) = 0
    BY <2>2 DEF nextPos, x
  <2>4. QED
    BY <1>1, <1>2, <2>3 DEF Slots
<1>3. CASE p # Size - 1
  <2>1. x \in 0 .. Size - 1
    BY <1>1, <1>3 DEF Slots
  <2> HIDE DEF x
  <2>2. x % Size = x
    BY <1>1, <2>1, Wrap
  <2>3. nextPos(p) = p + 1
    BY <2>2 DEF nextPos, x
  <2>4. QED
    BY <1>1, <1>3, <2>1, <2>3 DEF Slots, x
<1>4. QED
  BY <1>2, <1>3

\* The content is a sequence.
LEMMA BetweenIs ==
  ASSUME NEW S, NEW b \in [Slots -> S], NEW t \in Slots, NEW n \in 0 .. Size
  PROVE  /\ Between(b, t, n) \in Seq(S)
         /\ Len(Between(b, t, n)) = n
         /\ \A i \in 1 .. n : Between(b, t, n)[i] = b[Slot(t, i)]
<1> DEFINE c == Between(b, t, n)
<1>1. Size \in Nat
  BY IoQueueAssumption
<1>2. \A i \in 1 .. n : b[Slot(t, i)] \in S
  BY <1>1, SlotIs
<1>3. c = [i \in 1 .. n |-> b[Slot(t, i)]]
  BY DEF Between
<1> HIDE DEF c
<1>4. c \in [1 .. n -> S] /\ n \in Nat
  BY <1>1, <1>2, <1>3
<1>5. c \in Seq(S) /\ Len(c) = n
  BY <1>4
<1>6. QED
  BY <1>3, <1>5 DEF c

\* A put: the next slot joins the content at its end.
LEMMA BetweenPut ==
  ASSUME NEW S, NEW b \in [Slots -> S], NEW t \in Slots, NEW n \in 0 .. Size - 1
  PROVE  Between(b, t, n + 1) = Append(Between(b, t, n), b[Slot(t, n + 1)])
<1> DEFINE c == Between(b, t, n)
           c2 == Between(b, t, n + 1)
           x == b[Slot(t, n + 1)]
<1>1. Size \in Nat /\ n + 1 \in 1 .. Size /\ n + 1 \in 0 .. Size /\ n \in 0 .. Size
  BY IoQueueAssumption
<1>2. x \in S
  BY <1>1, SlotIs
<1>3. c \in Seq(S) /\ Len(c) = n /\ \A i \in 1 .. n : c[i] = b[Slot(t, i)]
  BY <1>1, BetweenIs
<1>4. /\ c2 \in Seq(S) /\ Len(c2) = n + 1
      /\ \A i \in 1 .. n + 1 : c2[i] = b[Slot(t, i)]
  BY <1>1, BetweenIs
<1>5. c2[n + 1] = x
  BY <1>1, <1>4
<1> HIDE DEF c, c2, x
<1>6. /\ Append(c, x) \in Seq(S) /\ Len(Append(c, x)) = n + 1
      /\ \A i \in 1 .. n : Append(c, x)[i] = c[i]
      /\ Append(c, x)[n + 1] = x
  BY <1>2, <1>3
<1>7. \A i \in 1 .. n + 1 : c2[i] = Append(c, x)[i]
  <2>1. TAKE i \in 1 .. n + 1
  <2>2. CASE i = n + 1
    BY <1>5, <1>6, <2>2
  <2>3. CASE i \in 1 .. n
    BY <1>3, <1>4, <1>6, <2>3
  <2>4. i = n + 1 \/ i \in 1 .. n
    BY <1>1
  <2>5. QED
    BY <2>2, <2>3, <2>4
<1>8. c2 = Append(c, x)
  BY <1>4, <1>6, <1>7, SeqEqual
<1>9. QED
  BY <1>8 DEF c, c2, x

\* A get: the first slot leaves the content.
LEMMA BetweenGet ==
  ASSUME NEW S, NEW b \in [Slots -> S], NEW t \in Slots, NEW n \in 1 .. Size
  PROVE  /\ Between(b, t, n) # <<>>
         /\ Head(Between(b, t, n)) = b[t]
         /\ Tail(Between(b, t, n)) = Between(b, nextPos(t), n - 1)
<1> DEFINE t2 == nextPos(t)
           c == Between(b, t, n)
           c2 == Between(b, t2, n - 1)
<1>1. t2 \in Slots /\ t2 = IF t = Size - 1 THEN 0 ELSE t + 1
  BY NextPosIs
<1>2. Size \in Nat \ {0} /\ t \in 0 .. Size - 1 /\ n - 1 \in 0 .. Size /\ n \in 0 .. Size
  BY IoQueueAssumption DEF Slots
<1>range. n \in 0 .. Size /\ n - 1 \in 0 .. Size
  BY <1>2
<1>3. c \in Seq(S) /\ Len(c) = n /\ \A i \in 1 .. n : c[i] = b[Slot(t, i)]
  BY <1>range, BetweenIs
<1>4. /\ c2 \in Seq(S) /\ Len(c2) = n - 1
      /\ \A i \in 1 .. n - 1 : c2[i] = b[Slot(t2, i)]
  BY <1>1, <1>range, BetweenIs
<1>5. Slot(t, 1) = t
  BY <1>2, SlotIs
<1> HIDE DEF c, c2, t2
<1>6. \A i \in 1 .. n - 1 : Slot(t2, i) = Slot(t, i + 1)
  <2>1. TAKE i \in 1 .. n - 1
  <2>2. i \in 1 .. Size /\ i + 1 \in 1 .. Size
    BY <1>2
  <2>3. Slot(t2, i) = IF t2 + i - 1 < Size THEN t2 + i - 1 ELSE t2 + i - 1 - Size
    BY <1>1, <2>2, SlotIs
  <2>4. Slot(t, i + 1) = IF t + (i + 1) - 1 < Size THEN t + (i + 1) - 1
                         ELSE t + (i + 1) - 1 - Size
    BY <1>2, <2>2, SlotIs
  <2>5. QED
    BY <1>1, <1>2, <2>2, <2>3, <2>4
<1>7. c # <<>> /\ Head(c) = c[1] /\ c[1] = b[t]
  BY <1>2, <1>3, <1>5
<1>8. /\ Tail(c) \in Seq(S) /\ Len(Tail(c)) = n - 1
      /\ \A i \in 1 .. n - 1 : Tail(c)[i] = c[i + 1]
  BY <1>2, <1>3, <1>7
<1>9. \A i \in 1 .. n - 1 : Tail(c)[i] = c2[i]
  <2>1. TAKE i \in 1 .. n - 1
  <2>2. i + 1 \in 1 .. n
    BY <1>2
  <2>3. Tail(c)[i] = b[Slot(t, i + 1)]
    BY <1>3, <1>8, <2>2
  <2>4. QED
    BY <1>4, <1>6, <2>3
<1>10. Tail(c) = c2
  BY <1>4, <1>8, <1>9, SeqEqual
<1>11. QED
  BY <1>7, <1>10 DEF c, c2, t2

\* Writing the next slot is not seen in the content.
LEMMA BetweenWrite ==
  ASSUME NEW S, NEW b \in [Slots -> S], NEW t \in Slots, NEW n \in 0 .. Size - 1, NEW x
  PROVE  Between([b EXCEPT ![Slot(t, n + 1)] = x], t, n) = Between(b, t, n)
<1>1. Size \in Nat /\ n + 1 \in 1 .. Size /\ t \in 0 .. Size - 1
  BY IoQueueAssumption DEF Slots
<1>2. Slot(t, n + 1) = IF t + (n + 1) - 1 < Size THEN t + (n + 1) - 1
                       ELSE t + (n + 1) - 1 - Size
  BY <1>1, SlotIs
<1>3. \A i \in 1 .. n : Slot(t, i) \in Slots /\ Slot(t, i) # Slot(t, n + 1)
  <2>1. TAKE i \in 1 .. n
  <2>2. i \in 1 .. Size
    BY <1>1
  <2>3. /\ Slot(t, i) \in Slots
        /\ Slot(t, i) = IF t + i - 1 < Size THEN t + i - 1 ELSE t + i - 1 - Size
    BY <2>2, SlotIs
  <2>4. QED
    BY <1>1, <1>2, <2>2, <2>3
<1>4. \A i \in 1 .. n : [b EXCEPT ![Slot(t, n + 1)] = x][Slot(t, i)] = b[Slot(t, i)]
  BY <1>3
<1>5. QED
  BY <1>4 DEF Between

-----------------------------------------------------------------------------
(* The ring keeps its invariant *)

\* A thread between its test and its unlock holds the lock.
LEMMA InsideHolds ==
  /\ LockUse => \A t \in Threads : op[t] \in QueuePoints \ {"call", "test"} => holder = t
  /\ LockUse' => \A t \in Threads : op'[t] \in QueuePoints \ {"call", "test"} => holder' = t
BY DEF LockUse, Points, QueuePoints

\* A step that leaves the ring and the characters alone and starts no copy.
LEMMA RingSame ==
  ASSUME RingInv, LockUse', UNCHANGED <<ring, char>>,
         \A u \in Threads : /\ op'[u] \in {"copy", "advance"} => op'[u] = op[u]
                            /\ op'[u] # "call" => op[u] # "call"
  PROVE  RingInv'
<1>1. \A u \in Threads : op'[u] \in {"copy", "advance"} => holder' = u
  BY InsideHolds DEF QueuePoints
<1>2. TestStillHolds'
  BY <1>1 DEF RingInv, TestStillHolds, MustWait, ring
<1>3. QED
  BY <1>2 DEF RingInv, ring

\* A producer brings its character into ioQueuePutChar.
LEMMA CallRing ==
  ASSUME RingInv, LockUse, LockUse', NEW t \in Threads, Call(t)
  PROVE  RingInv'
<1>1. /\ op' = [op EXCEPT ![t] = "test"] /\ UNCHANGED ring
      /\ char' \in [Threads -> Items \cup {NoItem}]
      /\ \A u \in Threads : u # t => char'[u] = char[u]
      /\ t \in Producers => char'[t] \in Items
  BY DEF Call, MoveOn, RingInv, Consumers
<1>2. \A u \in Threads : op'[u] = IF u = t THEN "test" ELSE op[u]
  BY <1>1 DEF LockUse
<1>3. \A u \in Threads : op'[u] \in {"copy", "advance"} => holder' = u
  BY InsideHolds DEF QueuePoints
<1>4. TestStillHolds'
  BY <1>1, <1>2, <1>3 DEF RingInv, TestStillHolds, MustWait, ring
<1>5. \A u \in Threads :
        /\ u \in Producers /\ op'[u] # "call" => char'[u] \in Items
        /\ op'[u] = "advance" => char'[u] = buf[IF u \in Producers THEN head ELSE tail]
  BY <1>1, <1>2 DEF RingInv
<1>6. QED
  BY <1>1, <1>4, <1>5 DEF RingInv, ring

\* The holder finds the room or the item it needs.
LEMMA ProceedRing ==
  ASSUME RingInv, LockUse, LockUse', NEW t \in Threads, Proceed(t)
  PROVE  RingInv'
<1>1. /\ op' = [op EXCEPT ![t] = "copy"] /\ op[t] = "test" /\ ~MustWait(t)
      /\ UNCHANGED <<ring, char>>
  BY DEF Proceed, MoveOn, At
<1>2. \A u \in Threads : op'[u] = IF u = t THEN "copy" ELSE op[u]
  BY <1>1 DEF LockUse
<1>3. \A u \in Threads : op'[u] \in {"copy", "advance"} => holder' = u
  BY InsideHolds DEF QueuePoints
<1>4. TestStillHolds'
  BY <1>1, <1>2, <1>3 DEF RingInv, TestStillHolds, MustWait, ring
<1>5. QED
  BY <1>1, <1>2, <1>4 DEF RingInv, ring

\* The holder writes the slot at head, or reads the one at tail.
LEMMA CopyRing ==
  ASSUME RingInv, LockUse, LockUse', NEW t \in Threads, Copy(t)
  PROVE  RingInv'
<1>1. /\ op' = [op EXCEPT ![t] = "advance"] /\ op[t] = "copy"
      /\ UNCHANGED <<head, tail, isEmpty, isFull>>
      /\ head \in Slots /\ tail \in Slots
  BY DEF Copy, MoveOn, At, RingInv, Slots
<1>2. \A u \in Threads : op'[u] = IF u = t THEN "advance" ELSE op[u]
  BY <1>1 DEF LockUse
<1>3. \A u \in Threads : op[u] = "advance" => u = t
  BY <1>1, InsideHolds DEF QueuePoints
<1>4. \A u \in Threads : op'[u] \in {"copy", "advance"} => holder' = u
  BY InsideHolds DEF QueuePoints
<1>5. TestStillHolds'
  BY <1>1, <1>2, <1>4 DEF RingInv, TestStillHolds, MustWait
<1>6. CASE t \in Producers
  <2>1. buf' = [buf EXCEPT ![head] = char[t]] /\ char' = char
    BY <1>6 DEF Copy
  <2>2. buf' \in [Slots -> Items \cup {NoItem}] /\ buf'[head] = char[t]
    BY <1>1, <2>1 DEF RingInv, Slots
  <2>3. QED
    BY <1>1, <1>2, <1>3, <1>5, <1>6, <2>1, <2>2 DEF RingInv, Slots
<1>7. CASE t \notin Producers
  <2>1. char' = [char EXCEPT ![t] = buf[tail]] /\ buf' = buf
    BY <1>7 DEF Copy
  <2>2. /\ char' \in [Threads -> Items \cup {NoItem}] /\ char'[t] = buf[tail]
        /\ \A u \in Threads : u # t => char'[u] = char[u]
    BY <1>1, <2>1 DEF RingInv, Slots
  <2>3. QED
    BY <1>1, <1>2, <1>3, <1>5, <1>7, <2>1, <2>2 DEF RingInv
<1>8. QED
  BY <1>6, <1>7

\* No thread but the one that moves the ring is near it.
LEMMA MoverAlone ==
  ASSUME LockUse, NEW t \in Threads, op[t] = "advance", op' = [op EXCEPT ![t] = "notify"]
  PROVE  \A u \in Threads : /\ op'[u] \notin {"copy", "advance"}
                            /\ op'[u] # "call" => op[u] # "call"
BY InsideHolds DEF LockUse, QueuePoints

\* head goes round; the queue is full when it meets tail.
LEMMA AdvanceHeadRing ==
  ASSUME RingInv, LockUse, NEW t \in Threads, AdvanceHead(t)
  PROVE  RingInv'
<1>1. /\ op[t] = "advance" /\ op' = [op EXCEPT ![t] = "notify"] /\ ~isFull
      /\ head' = nextPos(head) /\ isEmpty' = FALSE /\ isFull' = (head' = tail)
      /\ UNCHANGED <<buf, tail, char>> /\ head \in Slots
  BY DEF AdvanceHead, At, MoveOn, RingInv, TestStillHolds, MustWait, Slots
<1>2. head' \in Slots
  BY <1>1, NextPosIs
<1>3. \A u \in Threads : /\ op'[u] \notin {"copy", "advance"}
                         /\ op'[u] # "call" => op[u] # "call"
  BY <1>1, MoverAlone
<1>4. QED
  BY <1>1, <1>2, <1>3 DEF RingInv, TestStillHolds, Slots

\* tail goes round; the queue is empty when it meets head.
LEMMA AdvanceTailRing ==
  ASSUME RingInv, LockUse, NEW t \in Threads, AdvanceTail(t)
  PROVE  RingInv'
<1>1. /\ op[t] = "advance" /\ op' = [op EXCEPT ![t] = "notify"] /\ ~isEmpty
      /\ tail' = nextPos(tail) /\ isFull' = FALSE /\ isEmpty' = (tail' = head)
      /\ UNCHANGED <<buf, head, char>> /\ tail \in Slots
  BY DEF AdvanceTail, At, MoveOn, RingInv, TestStillHolds, MustWait, Slots, Consumers
<1>2. tail' \in Slots
  BY <1>1, NextPosIs
<1>3. \A u \in Threads : /\ op'[u] \notin {"copy", "advance"}
                         /\ op'[u] # "call" => op[u] # "call"
  BY <1>1, MoverAlone
<1>4. QED
  BY <1>1, <1>2, <1>3 DEF RingInv, TestStillHolds, Slots

\* The ring ioQueueInit makes.
LEMMA RingInit == QueueInit => RingInv
<1> SUFFICES ASSUME QueueInit PROVE RingInv
  OBVIOUS
<1>1. /\ buf = [i \in 0 .. Size - 1 |-> NoItem] /\ head = 0 /\ tail = 0
      /\ isEmpty = TRUE /\ isFull = FALSE
      /\ char = [t \in Threads |-> NoItem] /\ op = [t \in Threads |-> "call"]
  BY DEF QueueInit
<1>2. 0 \in 0 .. Size - 1
  BY IoQueueAssumption
<1>3. buf \in [0 .. Size - 1 -> Items \cup {NoItem}] /\ char \in [Threads -> Items \cup {NoItem}]
  BY <1>1
<1>4. /\ isEmpty \in BOOLEAN /\ isFull \in BOOLEAN /\ ~(isEmpty /\ isFull)
      /\ (isEmpty \/ isFull <=> head = tail)
  BY <1>1
<1>5. \A t \in Threads : op[t] = "call"
  BY <1>1
<1>6. TestStillHolds
  BY <1>5 DEF TestStillHolds
<1>7. QED
  BY <1>1, <1>2, <1>3, <1>4, <1>5, <1>6 DEF RingInv

\* Every step keeps it.
LEMMA RingStep == RingInv /\ LockUse /\ LockUse' /\ [QueueNext]_queueVars => RingInv'
<1> SUFFICES ASSUME RingInv, LockUse, LockUse', [QueueNext]_queueVars PROVE RingInv'
  OBVIOUS
<1>1. ASSUME NEW t \in Threads, Wait(t) \/ InLock(t) \/ StartOther(t)
      PROVE  RingInv'
  BY <1>1, RingSame DEF Wait, InLock, StartOther
<1>2. ASSUME Background \/ UNCHANGED queueVars PROVE RingInv'
  BY <1>2, RingSame DEF Background, queueVars, ring
<1>3. ASSUME NEW t \in Threads, NotifyAll(t) \/ Unlock(t) PROVE RingInv'
  <2>1. PICK p \in {"call", "unlock"} : op' = [op EXCEPT ![t] = p]
    BY <1>3 DEF NotifyAll, Unlock, MoveOn
  <2>2. op[t] # "call" /\ UNCHANGED <<ring, char>>
    BY <1>3 DEF NotifyAll, Unlock, At
  <2>3. \A u \in Threads : /\ op'[u] \in {"copy", "advance"} => op'[u] = op[u]
                           /\ op'[u] # "call" => op[u] # "call"
    BY <2>1, <2>2 DEF LockUse
  <2>4. QED
    BY <2>2, <2>3, RingSame
<1>4. QED
  BY <1>1, <1>2, <1>3, CallRing, ProceedRing, CopyRing, AdvanceHeadRing, AdvanceTailRing
     DEF QueueNext, Step

\* Both invariants hold at all times.
THEOREM QueueInvariant == QueueSpec => [](LockUse /\ RingInv)
BY LockUseInit, LockUseStep, RingInit, RingStep, PTL DEF QueueSpec

\* A thread that copies or moves the ring holds the lock and still finds the
\* room or the item it tested for, whatever happened while it slept.
THEOREM QueueTestStillHolds == QueueSpec => []TestStillHolds
<1>1. RingInv => TestStillHolds
  BY DEF RingInv
<1>2. QED
  BY <1>1, QueueInvariant, PTL

-----------------------------------------------------------------------------
(* The refinement: the queue implements BoundedFifo *)

\* how many slots are used
Fill == IF isFull THEN Size ELSE Distance(head, tail)

\* The content of the ring in these terms, before and after a step.
LEMMA ContentIs ==
  /\ Content = Between(buf, tail, Fill)
  /\ Content' = Between(buf', tail', Fill')
BY DEF Content, Between, Slot, Fill, Distance

\* The flags, head and tail say how much is used and which slot is the next.
LEMMA FillIs ==
  ASSUME RingInv
  PROVE  /\ Fill \in 0 .. Size
         /\ isFull => Fill = Size
         /\ ~isFull => Fill \in 0 .. Size - 1 /\ Slot(tail, Fill + 1) = head
         /\ ~isEmpty => Fill \in 1 .. Size
<1>1. Size \in Nat \ {0} /\ head \in Slots /\ tail \in Slots
      /\ head \in 0 .. Size - 1 /\ tail \in 0 .. Size - 1
  BY IoQueueAssumption DEF RingInv, Slots
<1>2. CASE isFull
  BY <1>1, <1>2 DEF Fill
<1>3. CASE ~isFull
  <2>1. Fill = IF head >= tail THEN head - tail ELSE head - tail + Size
    BY <1>1, <1>3, DistanceIs DEF Fill
  <2>2. Fill \in 0 .. Size - 1 /\ Fill + 1 \in 1 .. Size
    BY <1>1, <2>1
  <2>3. Slot(tail, Fill + 1) = IF tail + (Fill + 1) - 1 < Size THEN tail + (Fill + 1) - 1
                               ELSE tail + (Fill + 1) - 1 - Size
    BY <1>1, <2>2, SlotIs
  <2>4. Slot(tail, Fill + 1) = head
    BY <1>1, <2>1, <2>2, <2>3
  <2>5. ~isEmpty => head # tail
    BY <1>3 DEF RingInv
  <2>6. ~isEmpty => Fill \in 1 .. Size
    BY <1>1, <2>1, <2>2, <2>5
  <2>7. QED
    BY <1>1, <1>3, <2>2, <2>4, <2>6
<1>4. QED
  BY <1>2, <1>3

\* Moving head is a put.
LEMMA AdvanceHeadMaps ==
  ASSUME RingInv, NEW t \in Threads, AdvanceHead(t)
  PROVE  Fifo!Put(char[t])
<1>1. /\ op[t] = "advance" /\ t \in Producers /\ ~isFull
      /\ head' = nextPos(head) /\ isFull' = (head' = tail)
      /\ buf' = buf /\ tail' = tail /\ last' = last /\ char[t] = buf[head]
  BY DEF AdvanceHead, At, RingInv, TestStillHolds, MustWait
<1>2. /\ Size \in Nat \ {0} /\ head \in Slots /\ tail \in Slots
      /\ buf \in [Slots -> Items \cup {NoItem}]
      /\ head \in 0 .. Size - 1 /\ tail \in 0 .. Size - 1
  BY IoQueueAssumption DEF RingInv, Slots
<1>3. /\ Fill \in 0 .. Size - 1 /\ Slot(tail, Fill + 1) = head
      /\ Fill = Distance(head, tail)
  BY <1>1, FillIs DEF Fill
<1>4. Fill' = Fill + 1
  <2>1. Fill = IF head >= tail THEN head - tail ELSE head - tail + Size
    BY <1>2, <1>3, DistanceIs
  <2>2. head' \in Slots /\ head' = IF head = Size - 1 THEN 0 ELSE head + 1
    BY <1>1, <1>2, NextPosIs
  <2>3. CASE head' = tail
    <3>1. Fill' = Size
      BY <1>1, <2>3 DEF Fill
    <3>2. QED
      BY <1>2, <2>1, <2>2, <2>3, <3>1
  <2>4. CASE head' # tail
    <3>1. Fill' = Distance(head', tail)
      BY <1>1, <2>4 DEF Fill
    <3>2. Distance(head', tail) = IF head' >= tail THEN head' - tail ELSE head' - tail + Size
      BY <1>2, <2>2, DistanceIs
    <3>3. QED
      BY <1>2, <2>1, <2>2, <2>4, <3>1, <3>2
  <2>5. QED
    BY <2>3, <2>4
<1>5. Content' = Append(Content, char[t])
  <2>1. Between(buf, tail, Fill + 1)
          = Append(Between(buf, tail, Fill), buf[Slot(tail, Fill + 1)])
    BY <1>2, <1>3, BetweenPut
  <2>2. Content' = Between(buf, tail, Fill + 1) /\ Content = Between(buf, tail, Fill)
    BY <1>1, <1>4, ContentIs
  <2>3. buf[Slot(tail, Fill + 1)] = char[t]
    BY <1>1, <1>3
  <2>4. QED
    BY <2>1, <2>2, <2>3
<1>6. Len(Content) = Fill
  <2>1. Fill \in 0 .. Size
    BY <1>2, <1>3
  <2>2. Len(Between(buf, tail, Fill)) = Fill
    BY <1>2, <2>1, BetweenIs
  <2>3. QED
    BY <2>2, ContentIs
<1>7. Len(Content) < Size
  BY <1>2, <1>3, <1>6
<1>8. QED
  BY <1>1, <1>5, <1>7 DEF Fifo!Put

\* Moving tail is a get.
LEMMA AdvanceTailMaps ==
  ASSUME RingInv, NEW t \in Threads, AdvanceTail(t)
  PROVE  Fifo!Get
<1>1. /\ op[t] = "advance" /\ t \notin Producers /\ ~isEmpty
      /\ tail' = nextPos(tail) /\ isFull' = FALSE
      /\ buf' = buf /\ head' = head /\ last' = char[t] /\ char[t] = buf[tail]
  BY DEF AdvanceTail, At, RingInv, TestStillHolds, MustWait, Consumers
<1>2. /\ Size \in Nat \ {0} /\ head \in Slots /\ tail \in Slots
      /\ buf \in [Slots -> Items \cup {NoItem}]
      /\ head \in 0 .. Size - 1 /\ tail \in 0 .. Size - 1
  BY IoQueueAssumption DEF RingInv, Slots
<1>3. Fill \in 1 .. Size
  BY <1>1, FillIs
<1>4. Fill' = Fill - 1
  <2>1. tail' \in Slots /\ tail' = IF tail = Size - 1 THEN 0 ELSE tail + 1
    BY <1>1, <1>2, NextPosIs
  <2>2. Fill' = Distance(head, tail')
    BY <1>1 DEF Fill
  <2>3. Distance(head, tail') = IF head >= tail' THEN head - tail' ELSE head - tail' + Size
    BY <1>2, <2>1, DistanceIs
  <2>4. CASE isFull
    <3>1. Fill = Size /\ head = tail
      BY <2>4 DEF Fill, RingInv
    <3>2. QED
      BY <1>2, <2>1, <2>2, <2>3, <3>1
  <2>5. CASE ~isFull
    <3>1. Fill = IF head >= tail THEN head - tail ELSE head - tail + Size
      BY <1>2, <2>5, DistanceIs DEF Fill
    <3>2. head # tail
      BY <1>1, <2>5 DEF RingInv
    <3>3. QED
      BY <1>2, <2>1, <2>2, <2>3, <3>1, <3>2
  <2>6. QED
    BY <2>4, <2>5
<1>5. /\ Content # <<>> /\ Head(Content) = buf[tail]
      /\ Tail(Content) = Between(buf, nextPos(tail), Fill - 1)
  BY <1>2, <1>3, BetweenGet, ContentIs
<1>6. Content' = Tail(Content)
  BY <1>1, <1>4, <1>5, ContentIs
<1>7. QED
  BY <1>1, <1>5, <1>6 DEF Fifo!Get

\* Copying is a stutter: the slot at head is not yet, the one at tail still
\* in the content.
LEMMA CopyMaps ==
  ASSUME RingInv, NEW t \in Threads, Copy(t)
  PROVE  UNCHANGED <<Content, last>>
<1>1. UNCHANGED <<head, tail, isFull, last>> /\ op[t] = "copy"
  BY DEF Copy, At
<1>2. Fill' = Fill
  BY <1>1 DEF Fill
<1>3. CASE t \in Producers
  <2>1. ~isFull /\ buf' = [buf EXCEPT ![head] = char[t]]
    BY <1>1, <1>3 DEF Copy, RingInv, TestStillHolds, MustWait
  <2>2. Fill \in 0 .. Size - 1 /\ Slot(tail, Fill + 1) = head
    BY <2>1, FillIs
  <2>3. tail \in Slots /\ buf \in [Slots -> Items \cup {NoItem}]
    BY DEF RingInv, Slots
  <2>4. Between([buf EXCEPT ![Slot(tail, Fill + 1)] = char[t]], tail, Fill)
          = Between(buf, tail, Fill)
    BY <2>2, <2>3, BetweenWrite
  <2>5. QED
    BY <1>1, <1>2, <2>1, <2>2, <2>4, ContentIs
<1>4. CASE t \notin Producers
  <2>1. buf' = buf
    BY <1>4 DEF Copy
  <2>2. QED
    BY <1>1, <1>2, <2>1, ContentIs
<1>5. QED
  BY <1>3, <1>4

\* Whatever the number of threads and their preemptions, and whatever the size
\* of the ring, ioqueue.c is a bounded first-in first-out queue: no character
\* is lost, repeated, overtaken or overwritten.
THEOREM QueueIsFifo == QueueSpec => ImplementsFifo
<1>1. QueueInit => Fifo!Init
  <2>1. SUFFICES ASSUME QueueInit PROVE Fifo!Init
    OBVIOUS
  <2>2. RingInv /\ isFull = FALSE /\ head = 0 /\ tail = 0 /\ last = NoItem
    BY <2>1, RingInit DEF QueueInit
  <2>3. Fill = 0 /\ tail \in Slots /\ buf \in [Slots -> Items \cup {NoItem}]
    <3>1. head \in Slots /\ tail \in Slots /\ buf \in [Slots -> Items \cup {NoItem}]
      BY <2>2 DEF RingInv, Slots
    <3>2. Distance(head, tail) = 0
      BY <2>2, <3>1, DistanceIs
    <3>3. QED
      BY <2>2, <3>1, <3>2 DEF Fill
  <2>4. Content = <<>>
    BY <2>3, ContentIs DEF Between
  <2>5. QED
    BY <2>2, <2>4 DEF Fifo!Init
<1>2. RingInv /\ [QueueNext]_queueVars => [Fifo!Next]_<<Content, last>>
  <2> SUFFICES ASSUME RingInv, [QueueNext]_queueVars PROVE [Fifo!Next]_<<Content, last>>
    OBVIOUS
  <2>1. ASSUME NEW t \in Threads, AdvanceHead(t) PROVE Fifo!Next
    <3>1. char[t] \in Items
      BY <2>1 DEF AdvanceHead, At, RingInv
    <3>2. QED
      BY <2>1, <3>1, AdvanceHeadMaps DEF Fifo!Next
  <2>2. ASSUME NEW t \in Threads, AdvanceTail(t) PROVE Fifo!Next
    BY <2>2, AdvanceTailMaps DEF Fifo!Next
  <2>3. ASSUME UNCHANGED <<ring, last>> PROVE UNCHANGED <<Content, last>>
    BY <2>3 DEF ring, Content
  <2>4. ASSUME NEW t \in Threads,
               \/ Call(t) \/ Wait(t) \/ Proceed(t) \/ NotifyAll(t) \/ Unlock(t) \/ InLock(t)
               \/ StartOther(t)
        PROVE  UNCHANGED <<ring, last>>
    BY <2>4 DEF Call, Wait, Proceed, NotifyAll, Unlock, InLock, StartOther
  <2>5. ASSUME Background \/ UNCHANGED queueVars PROVE UNCHANGED <<ring, last>>
    BY <2>5 DEF Background, queueVars
  <2>6. QED
    BY <2>1, <2>2, <2>3, <2>4, <2>5, CopyMaps DEF QueueNext, Step
<1>3. QED
  BY <1>1, <1>2, QueueInvariant, PTL DEF QueueSpec, ImplementsFifo, Fifo!Spec

-----------------------------------------------------------------------------
(* Not everybody sleeps: the lock's invariant holds under this use of it    *)

\* A step of the ring queue is a step of the lock, or none.
LEMMA StepsOfLock == [QueueNext]_queueVars => [Next]_vars
<1> SUFFICES ASSUME [QueueNext]_queueVars PROVE [Next]_vars
  OBVIOUS
<1>1. ASSUME NEW t \in Threads, Call(t) \/ Wait(t) \/ NotifyAll(t) \/ Unlock(t) \/ InLock(t)
      PROVE  Next
  BY <1>1 DEF Call, Wait, NotifyAll, Unlock, InLock, Next
<1>2. ASSUME NEW t \in Threads, StartOther(t) PROVE Next
  BY <1>2, SchedulerAssumption DEF StartOther, Next
<1>3. ASSUME Background PROVE Next
  BY <1>3 DEF Background, Next
<1>4. ASSUME NEW t \in Threads, Proceed(t) \/ Copy(t) \/ AdvanceHead(t) \/ AdvanceTail(t)
      PROVE  UNCHANGED vars
  BY <1>4 DEF Proceed, Copy, AdvanceHead, AdvanceTail
<1>5. ASSUME UNCHANGED queueVars PROVE UNCHANGED vars
  BY <1>5 DEF queueVars
<1>6. QED
  BY <1>1, <1>2, <1>3, <1>4, <1>5 DEF QueueNext, Step

\* The invariant of the lock.
LEMMA QueueLockInit == QueueInit => SyncInv
BY SyncInit DEF QueueInit

LEMMA QueueLockStep == SyncInv /\ [QueueNext]_queueVars => SyncInv'
BY StepsOfLock, SyncStep

\* Who is on the waiting list is asleep in lockWait.
LEMMA WaitersSleep ==
  ASSUME SyncInv
  PROVE  /\ waitingList \in Seq(Threads)
         /\ \A t \in Threads : Contains(waitingList, t) <=> sched.status[t] = "WAITING"
BY DEF SyncInv, TypeOK, OneListPerSleeper

-----------------------------------------------------------------------------
\* Only lockWait makes the list longer, and lockNotifyAll clears it.
LEMMA WaitingChange ==
  ASSUME [QueueNext]_queueVars
  PROVE  \/ waitingList' = waitingList
         \/ \E t \in Threads : Wait(t) /\ waitingList' = Append(waitingList, t)
         \/ \E t \in Threads : NotifyAll(t) /\ waitingList' = <<>>
<1>1. ASSUME NEW t \in Threads, Wait(t) PROVE waitingList' = Append(waitingList, t)
  BY <1>1 DEF Wait, LockWait
<1>2. ASSUME NEW t \in Threads, NotifyAll(t) PROVE waitingList' = <<>>
  BY <1>2 DEF NotifyAll, LockNotifyAll
<1>3. ASSUME NEW t \in Threads,
             Call(t) \/ Unlock(t) \/ InLock(t) \/ StartOther(t)
      PROVE  waitingList' = waitingList
  BY <1>3 DEF Call, Unlock, InLock, StartOther, LockLock, LockUnlock,
              SemaDownBlock, SemaDownTake, BecomeHolder, SemaUp,
              StartThread, lockVars
<1>4. ASSUME NEW t \in Threads, Proceed(t) \/ Copy(t) \/ AdvanceHead(t) \/ AdvanceTail(t)
      PROVE  waitingList' = waitingList
  BY <1>4 DEF Proceed, Copy, AdvanceHead, AdvanceTail, vars
<1>5. ASSUME Background PROVE waitingList' = waitingList
  BY <1>5 DEF Background, IdleLoop, TimerIntr, lockVars
<1>6. ASSUME UNCHANGED queueVars PROVE waitingList' = waitingList
  BY <1>6 DEF queueVars, vars
<1>7. QED
  BY <1>1, <1>2, <1>3, <1>4, <1>5, <1>6 DEF QueueNext, Step

\* Who is about to notify holds the lock.
LEMMA NotifierHolds ==
  ASSUME LockUse, NEW t \in Threads, op[t] = "notify"
  PROVE  holder = t /\ pc[t] = "run"
BY DEF LockUse, Points

\* The inductive step of SleepInv.
LEMMA SleepStep ==
  ASSUME SyncInv, LockUse, RingInv, SleepInv, [QueueNext]_queueVars
  PROVE  SleepInv'
<1>0. waitingList \in Seq(Threads) /\ op \in [Threads -> QueuePoints]
  BY WaitersSleep DEF LockUse
<1>1. ASSUME NEW t \in Threads, NotifyAll(t), waitingList' = <<>> PROVE SleepInv'
  BY <1>1 DEF SleepInv, Contains
<1>2. ASSUME NEW t \in Threads, Wait(t), waitingList' = Append(waitingList, t)
      PROVE  SleepInv'
  <2>1. MustWait(t) /\ UNCHANGED <<isEmpty, isFull, op>>
    BY <1>2 DEF Wait, ring
  <2>2. \A u \in Threads : Contains(waitingList', u) => u = t \/ Contains(waitingList, u)
    BY <1>0, <1>2 DEF Contains
  <2>3. QED
    BY <2>1, <2>2 DEF SleepInv, MustWait
<1>3. ASSUME waitingList' = waitingList, NEW t \in Threads, AdvanceHead(t) \/ AdvanceTail(t)
      PROVE  SleepInv'
  <2>1. op'[t] = "notify"
    BY <1>0, <1>3 DEF AdvanceHead, AdvanceTail, MoveOn
  <2>2. QED
    BY <2>1 DEF SleepInv
<1>4. ASSUME waitingList' = waitingList, UNCHANGED <<isEmpty, isFull>>,
             \A u \in Threads : op[u] = "notify" => op'[u] = "notify"
      PROVE  SleepInv'
  BY <1>4 DEF SleepInv, MustWait
<1>5. ASSUME NEW t \in Threads, Call(t) \/ Wait(t) \/ Proceed(t) \/ Copy(t) \/ Unlock(t)
      PROVE  /\ UNCHANGED <<isEmpty, isFull>>
             /\ \A u \in Threads : op[u] = "notify" => op'[u] = "notify"
  BY <1>0, <1>5 DEF Call, Wait, Proceed, Copy, Unlock, At, MoveOn, ring
<1>6. ASSUME \E t \in Threads : InLock(t) \/ StartOther(t)
      PROVE  UNCHANGED <<isEmpty, isFull, op>>
  BY <1>6 DEF InLock, StartOther, ring
<1>7. ASSUME Background \/ UNCHANGED queueVars
      PROVE  UNCHANGED <<isEmpty, isFull, op>>
  BY <1>7 DEF Background, queueVars, ring
<1>8. ASSUME NEW t \in Threads, NotifyAll(t) PROVE SleepInv'
  BY <1>1, <1>8 DEF NotifyAll, LockNotifyAll
<1>9. QED
  BY <1>2, <1>3, <1>4, <1>5, <1>6, <1>7, <1>8, WaitingChange DEF QueueNext, Step

\* Whoever goes to sleep leaves a thread of the other kind, and that one is awake.
LEMMA AwakeStep ==
  ASSUME Producers # {}, Consumers # {},
         SyncInv, LockUse, RingInv, SleepInv, [QueueNext]_queueVars,
         \E t \in Threads : ~Contains(waitingList, t)
  PROVE  \E t \in Threads : ~Contains(waitingList', t)
<1>0. waitingList \in Seq(Threads)
  BY WaitersSleep
<1>1. ASSUME NEW t \in Threads, Wait(t), waitingList' = Append(waitingList, t),
             \A u \in Threads : Contains(waitingList', u)
      PROVE  FALSE
  <2>1. holder = t /\ op[t] = "test" /\ MustWait(t)
    BY <1>1 DEF Wait, At, LockWait
  <2>2. \A u \in Threads : op[u] # "notify"
    BY <2>1, NotifierHolds
  <2>3. \A u \in Threads : u = t \/ Contains(waitingList, u)
    BY <1>0, <1>1 DEF Contains
  <2>4. \A u \in Threads : MustWait(u)
    BY <2>1, <2>2, <2>3 DEF SleepInv
  <2>5. isFull /\ isEmpty
    BY <2>4, IoQueueAssumption DEF MustWait, Consumers
  <2>6. QED
    BY <2>5 DEF RingInv
<1>2. CASE waitingList' = <<>>
  BY <1>2 DEF Contains
<1>3. QED
  BY <1>1, <1>2, WaitingChange

\* Not all threads sleep in lockWait, if there are producers and consumers.
THEOREM QueueNotAllWaiting ==
  ASSUME Producers # {}, Consumers # {}
  PROVE  QueueSpec => []NotAllWaiting
<1> DEFINE Some == \E t \in Threads : ~Contains(waitingList, t)
           Inv == SyncInv /\ LockUse /\ RingInv /\ SleepInv /\ Some
<1>1. QueueInit => Inv
  <2>1. QueueInit => waitingList = <<>>
    BY DEF QueueInit, Init
  <2>2. waitingList = <<>> => SleepInv /\ Some
    BY IoQueueAssumption DEF SleepInv, Contains
  <2>3. QED
    BY <2>1, <2>2, QueueLockInit, LockUseInit, RingInit
<1>2. Inv /\ [QueueNext]_queueVars => Inv'
  BY QueueLockStep, LockUseStep, RingStep, SleepStep, AwakeStep
<1>3. Inv => NotAllWaiting
  BY WaitersSleep DEF NotAllWaiting
<1> HIDE DEF Inv
<1>4. QED
  BY <1>1, <1>2, <1>3, PTL DEF QueueSpec
=============================================================================
