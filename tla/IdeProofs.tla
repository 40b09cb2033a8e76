----------------------------- MODULE IdeProofs ------------------------------
(***************************************************************************)
(* The disk driver, for every set of threads, every size of the disk, of   *)
(* its commands and of the requests.                                       *)
(***************************************************************************)
EXTENDS Ide, ThreadProofs

-----------------------------------------------------------------------------
(* Facts the steps share *)

\* sync.c and ide.c use the same operations on kernel states.
LEMMA LockOps ==
  ASSUME NEW k, NEW x, NEW c
  PROVE  /\ Lock!Tasks = Tasks /\ Lock!KernelState = KernelState
         /\ Lock!Asserted(c, k) = Asserted(c, k)
         /\ Lock!ThreadBlock(k, x) = ThreadBlock(k, x)
         /\ Lock!ThreadStart(k, x) = ThreadStart(k, x)
         /\ Lock!WakeFirst(k, x) = WakeFirst(k, x)
         /\ Lock!DropFirst(k, x) = DropFirst(k, x)
         /\ Lock!IdleStep(k) = IdleStep(k)
         /\ Lock!KernelInit = KernelInit
<1>1. Lock!Tasks = Tasks /\ Lock!Asleep = Asleep
  BY DEF Lock!Tasks, Tasks, Lock!Asleep, Asleep
<1>panic. \A a : Lock!Panicked(a) = Panicked(a)
  BY Zenon DEF Lock!Panicked, Panicked
<1>in. \A a, b : Lock!InReady(a, b) = InReady(a, b)
  BY Zenon DEF Lock!InReady, InReady, Lock!Contains, Contains
<1>assert. Lock!Asserted(c, k) = Asserted(c, k)
  BY <1>panic, Zenon DEF Lock!Asserted, Asserted
<1>init. Lock!KernelInit = KernelInit
  BY <1>1, Zenon DEF Lock!KernelInit, KernelInit
<1>2. Lock!KernelState = KernelState
  BY <1>1 DEF Lock!KernelState, KernelState, Lock!TaskStatus, TaskStatus, Lock!IdlePoint, IdlePoint
<1>3. \A a, b : Lock!ThreadUnblock(a, b) = ThreadUnblock(a, b)
  BY <1>1, <1>panic, <1>in, Zenon DEF Lock!ThreadUnblock, ThreadUnblock
<1>4. \A a : Lock!Schedule(a) = Schedule(a)
  <2>1. \A a : Lock!Requeue(a) = Requeue(a)
    BY <1>panic, <1>in, Zenon DEF Lock!Requeue, Requeue
  <2>2. \A a : Lock!Dispatch(a) = Dispatch(a)
    BY <1>3 DEF Lock!Dispatch, Dispatch
  <2>3. QED
    BY <2>1, <2>2 DEF Lock!Schedule, Schedule
<1>5. \A a, b : Lock!ThreadBlock(a, b) = ThreadBlock(a, b)
  BY <1>panic, <1>in, <1>4, Zenon DEF Lock!ThreadBlock, ThreadBlock
<1>6. Lock!ThreadStart(k, x) = ThreadStart(k, x)
  BY <1>panic, <1>in, Zenon DEF Lock!ThreadStart, ThreadStart
<1>7. Lock!BlockedAt(k, x) = BlockedAt(k, x)
  BY DEF Lock!BlockedAt, BlockedAt
<1>8. Lock!FirstBlocked(k, x) = FirstBlocked(k, x)
  BY <1>7 DEF Lock!FirstBlocked, FirstBlocked
<1>9. Lock!WakeFirst(k, x) = WakeFirst(k, x) /\ Lock!DropFirst(k, x) = DropFirst(k, x)
  BY <1>3, <1>7, <1>8 DEF Lock!WakeFirst, WakeFirst, Lock!DropFirst, DropFirst
<1>10. Lock!IdleStep(k) = IdleStep(k)
  BY <1>5 DEF Lock!IdleStep, IdleStep
<1>11. QED
  BY <1>1, <1>assert, <1>init, <1>2, <1>5, <1>6, <1>9, <1>10

\* The sector count register says what it is told, 256 included.
LEMMA CountIs ==
  ASSUME NEW n \in 1 .. Chunk
  PROVE  Count(Register(n)) = n
<1>1. Chunk \in Nat \ {0} /\ n \in Nat
  BY IdeAssumption
<1>2. CASE n < Chunk
  <2>1. n % Chunk = n
    BY <1>1, <1>2
  <2>2. QED
    BY <1>1, <2>1 DEF Count, Register
<1>3. CASE n = Chunk
  <2>1. n % Chunk = 0
    BY <1>1, <1>3
  <2>2. QED
    BY <1>3, <2>1 DEF Count, Register
<1>4. QED
  BY <1>1, <1>2, <1>3

\* A request, and what a command of it asks for.
LEMMA RequestIs ==
  ASSUME TypeOK, NEW t \in Threads
  PROVE  /\ req[t].kind \in {"read", "write"} /\ req[t].lba \in Nat /\ req[t].cnt \in Nat
         /\ req[t].cnt \in 1 .. MaxCnt /\ req[t].lba + req[t].cnt <= NSectors
         /\ secsDone[t] \in Nat /\ secsDone[t] \in 0 .. MaxCnt
         /\ NSectors \in Nat /\ Chunk \in Nat \ {0} /\ MaxCnt \in Nat
         /\ secsDone[t] < req[t].cnt =>
              /\ secsPerLoop(t) \in 1 .. Chunk
              /\ secsDone[t] + secsPerLoop(t) <= req[t].cnt
              /\ Count(Register(secsPerLoop(t))) = secsPerLoop(t)
<1>1. NSectors \in Nat /\ Chunk \in Nat \ {0} /\ MaxCnt \in Nat
  BY IdeAssumption
<1>2. req[t] \in Requests /\ secsDone[t] \in 0 .. MaxCnt
  BY DEF TypeOK
<1>3. /\ req[t].kind \in {"read", "write"} /\ req[t].lba \in Sectors
      /\ req[t].cnt \in 1 .. MaxCnt /\ req[t].lba + req[t].cnt <= NSectors
  BY <1>2 DEF Requests
<1>4. ASSUME secsDone[t] < req[t].cnt
      PROVE  secsPerLoop(t) \in 1 .. Chunk /\ secsDone[t] + secsPerLoop(t) <= req[t].cnt
  BY <1>1, <1>2, <1>3, <1>4 DEF secsPerLoop
<1>5. QED
  BY <1>1, <1>2, <1>3, <1>4, CountIs DEF Sectors

-----------------------------------------------------------------------------
(* The kernel state *)

\* sound until a PANIC
Sound(k) == k \in KernelState /\ (~k.panic => Coherent(k))

\* the threads asleep in a semaphore are the same in k and n
SameBlocked(k, n) == \A u \in Threads : n.status[u] = "BLOCKED" <=> k.status[u] = "BLOCKED"

\* An ASSERT leaves the machine stopped or unchanged.
LEMMA AssertedSound ==
  ASSUME NEW k, Coherent(k), NEW c
  PROVE  /\ Sound(Asserted(c, k))
         /\ Asserted(c, k).status = k.status
<1>1. k \in KernelState
  BY DEF Coherent
<1>2. Asserted(c, k) \in KernelState
  BY <1>1, AssertedTyped
<1>3. CASE c
  BY <1>1, <1>3 DEF Asserted, Sound
<1>4. CASE ~c
  <2>1. Asserted(c, k) = Panicked(k)
    BY <1>4 DEF Asserted
  <2>2. Panicked(k).panic = TRUE /\ Panicked(k).status = k.status
    BY <1>1 DEF Panicked, KernelState
  <2>3. QED
    BY <1>2, <2>1, <2>2 DEF Sound
<1>5. QED
  BY <1>3, <1>4

\* A thread that executes is RUNNING, in a sound kernel state.
LEMMA Runs ==
  ASSUME TypeOK, SchedInv, NEW t \in Threads, Lock!Running(t)
  PROVE  /\ Coherent(sched) /\ ~sched.panic /\ sched.cur = t /\ sched.status[t] = "RUNNING"
         /\ t \in Tasks /\ t # Idle /\ t # NoThread
<1>1. ~sched.panic /\ sched.cur = t
  BY DEF Lock!Running
<1>2. Coherent(sched)
  BY <1>1 DEF SchedInv
<1>3. t \in Tasks /\ t # Idle
  BY SchedulerAssumption DEF Tasks
<1>4. QED
  BY <1>1, <1>2, <1>3, IdeAssumption DEF Coherent, RunningIsCur

\* What scheduling does, in these terms.
LEMMA SleepBlocked ==
  ASSUME NEW k, NEW n, SameSleep(k, n, Threads)
  PROVE  SameBlocked(k, n)
BY DEF SameSleep, SameBlocked, Awake

\* A coherent state is sound.
LEMMA CoherentSound == ASSUME NEW k, Coherent(k) PROVE Sound(k)
BY DEF Sound, Coherent

\* Before every step.
LEMMA SoundNow == ASSUME TypeOK, SchedInv PROVE Sound(sched) /\ sched \in KernelState
<1>1. Lock!KernelState = KernelState
  BY LockOps
<1>2. sched \in KernelState
  BY <1>1 DEF TypeOK, Lock!TypeOK
<1>3. QED
  BY <1>2 DEF SchedInv, Sound

\* The steps that do not touch the kernel state.
LEMMA StillKernel ==
  ASSUME TypeOK, SchedInv, UNCHANGED sched
  PROVE  Sound(sched') /\ SameBlocked(sched, sched')
BY SoundNow DEF SameBlocked

\* semaDown(diskDone)
LEMMA DownKernel ==
  ASSUME TypeOK, SchedInv, NEW t \in Threads, Down(t)
  PROVE  /\ Sound(sched')
         /\ done # 0 => SameBlocked(sched, sched')
         /\ done = 0 => /\ sched'.status[t] = "BLOCKED"
                        /\ \A u \in Threads : u # t =>
                             (sched'.status[u] = "BLOCKED" <=> sched.status[u] = "BLOCKED")
<1>1. Lock!Running(t)
  BY DEF Down, At
<1>2. Coherent(sched) /\ sched.cur = t /\ sched.cur \in Threads /\ t # Idle
  BY <1>1, Runs
<1>3. CASE done # 0
  <2>1. sched' = Asserted(done = 1, sched)
    BY <1>3 DEF Down
  <2>2. Sound(sched') /\ sched'.status = sched.status
    BY <1>2, <2>1, AssertedSound
  <2>3. QED
    BY <1>3, <2>2 DEF SameBlocked
<1>4. CASE done = 0
  <2> DEFINE n == ThreadBlock(sched, "BLOCKED")
             c == ~Contains(doneList, t)
  <2>1. sched' = Asserted(c, n)
    BY <1>4 DEF Down
  <2>2. "BLOCKED" \in Asleep
    BY DEF Asleep
  <2>3. Coherent(n)
    BY <1>2, <2>2, BlockCoherent
  <2>4. n.status[t] = "BLOCKED" /\ SameSleep(sched, n, Threads \ {t})
    BY <1>2, <2>2, BlockSleep
  <2> HIDE DEF n, c
  <2>5. Sound(sched') /\ sched'.status = n.status
    BY <2>1, <2>3, AssertedSound
  <2>6. QED
    BY <1>4, <2>4, <2>5 DEF SameSleep, Awake
<1>5. QED
  BY <1>3, <1>4

\* semaDown of the lock
LEMMA LockDownKernel ==
  ASSUME TypeOK, SchedInv, NEW t \in Threads, Lock!SemaDownBlock(t)
  PROVE  /\ Sound(sched')
         /\ \A u \in Threads : u # t =>
              (sched'.status[u] = "BLOCKED" <=> sched.status[u] = "BLOCKED")
<1>1. Lock!Running(t)
  BY DEF Lock!SemaDownBlock
<1>2. Coherent(sched) /\ sched.cur = t /\ sched.cur \in Threads /\ t # Idle
  BY <1>1, Runs
<1> DEFINE n == ThreadBlock(sched, "BLOCKED")
<1>3. PICK c : sched' = Asserted(c, n)
  BY LockOps DEF Lock!SemaDownBlock
<1>4. "BLOCKED" \in Asleep
  BY DEF Asleep
<1>5. Coherent(n)
  BY <1>2, <1>4, BlockCoherent
<1>6. SameSleep(sched, n, Threads \ {t})
  BY <1>2, <1>4, BlockSleep
<1> HIDE DEF n
<1>7. Sound(sched') /\ sched'.status = n.status
  BY <1>3, <1>5, AssertedSound
<1>8. QED
  BY <1>6, <1>7 DEF SameSleep, Awake

\* semaUp of the lock
LEMMA LockUpKernel ==
  ASSUME TypeOK, SchedInv, NEW t \in Threads, Lock!SemaUp(t)
  PROVE  /\ Sound(sched')
         /\ blockedList' \in Seq(Threads)
<1>1. Lock!Running(t)
  BY DEF Lock!SemaUp
<1>2. Coherent(sched)
  BY <1>1, Runs
<1>3. blockedList \in Seq(Threads)
  BY DEF TypeOK, Lock!TypeOK
<1> DEFINE n == WakeFirst(sched, blockedList)
<1>4. Coherent(n) /\ DropFirst(sched, blockedList) \in Seq(Threads)
  BY <1>2, <1>3, WakeFirstAny
<1>5. Lock!WakeFirst(sched, blockedList) = n
  BY LockOps
<1>6. sched' = Lock!Asserted(value = 0, Lock!WakeFirst(sched, blockedList))
  BY DEF Lock!SemaUp
<1>7. Lock!Asserted(value = 0, n) = Asserted(value = 0, n)
  BY LockOps
<1>8. blockedList' = DropFirst(sched, blockedList)
  BY LockOps DEF Lock!SemaUp
<1> HIDE DEF n
<1>9. sched' = Asserted(value = 0, n)
  BY <1>5, <1>6, <1>7
<1>10. Sound(sched')
  BY <1>4, <1>9, AssertedSound
<1>11. QED
  BY <1>4, <1>8, <1>10

\* semaDown that takes the lock's semaphore, lockUnlock before semaUp, and the
\* ASSERT of busyWait
LEMMA AssertKernel ==
  ASSUME TypeOK, SchedInv, NEW t \in Threads,
         Lock!SemaDownTake(t) \/ Unlock(t) \/ Poll(t)
  PROVE  Sound(sched') /\ SameBlocked(sched, sched')
<1>1. Lock!Running(t)
  BY DEF Lock!SemaDownTake, Unlock, Poll, At
<1>2. Coherent(sched)
  BY <1>1, Runs
<1>3. sched' = sched \/ \E c : sched' = Asserted(c, sched)
  <2>1. CASE Lock!SemaDownTake(t)
    <3>1. sched' = Lock!Asserted(value = 1, sched)
      BY <2>1 DEF Lock!SemaDownTake
    <3>2. Lock!Asserted(value = 1, sched) = Asserted(value = 1, sched)
      BY LockOps
    <3>3. QED
      BY <3>1, <3>2
  <2>2. CASE Unlock(t)
    <3>1. sched' = sched \/ sched' = Lock!Asserted(repeat = 1, sched)
      BY <2>2 DEF Unlock, Lock!LockUnlock
    <3>2. Lock!Asserted(repeat = 1, sched) = Asserted(repeat = 1, sched)
      BY LockOps
    <3>3. QED
      BY <3>1, <3>2
  <2>3. CASE Poll(t)
    BY <2>3 DEF Poll
  <2>4. QED
    BY <2>1, <2>2, <2>3
<1>4. CASE sched' = sched
  BY <1>4, StillKernel
<1>5. ASSUME NEW c, sched' = Asserted(c, sched) PROVE Sound(sched') /\ SameBlocked(sched, sched')
  <2>1. Sound(sched') /\ sched'.status = sched.status
    BY <1>2, <1>5, AssertedSound
  <2>2. QED
    BY <2>1 DEF SameBlocked
<1>6. QED
  BY <1>3, <1>4, <1>5

\* sleepMs, the idle loop and the timer
LEMMA RoundKernel ==
  ASSUME TypeOK, SchedInv,
         (\E t \in Threads : Sleep(t)) \/ IdleLoop \/ TimerIntr
  PROVE  Sound(sched') /\ SameBlocked(sched, sched')
<1>1. CASE \E t \in Threads : Sleep(t)
  <2>1. PICK t \in Threads : Sleep(t)
    BY <1>1
  <2>2. Coherent(sched)
    BY <2>1, Runs DEF Sleep, At
  <2>3. CASE sched' = sched
    BY <2>3, StillKernel
  <2>4. CASE sched' = ThreadYield(sched)
    BY <2>2, <2>4, YieldCoherent, YieldSleep, CoherentSound, SleepBlocked
  <2>5. QED
    BY <2>1, <2>3, <2>4 DEF Sleep
<1>2. CASE IdleLoop
  <2>1. ~sched.panic /\ sched.cur = Idle /\ sched.idle # "hlt" /\ sched' = Lock!IdleStep(sched)
    BY <1>2 DEF IdleLoop, Lock!IdleLoop, Lock!Running
  <2>2. sched' = IdleStep(sched)
    BY <2>1, LockOps
  <2>3. Coherent(sched)
    BY <2>1 DEF SchedInv
  <2>4. Coherent(IdleStep(sched)) /\ SameSleep(sched, IdleStep(sched), Threads)
    BY <2>1, <2>3, IdleCoherent, IdleSleep
  <2>5. QED
    BY <2>2, <2>4, CoherentSound, SleepBlocked
<1>3. CASE TimerIntr
  <2> DEFINE k == Interrupted(sched)
  <2>1. Coherent(sched) /\ sched' = TimerTick(k)
    BY <1>3 DEF TimerIntr, IntrOn, SchedInv
  <2>2. Coherent(k) /\ k.status = sched.status
    BY <2>1, InterruptedKeeps
  <2> HIDE DEF k
  <2>3. Coherent(TimerTick(k)) /\ SameSleep(k, TimerTick(k), Threads)
    BY <2>2, TickCoherent, TickSleep
  <2>4. SameBlocked(k, TimerTick(k)) /\ Sound(TimerTick(k))
    BY <2>3, CoherentSound, SleepBlocked
  <2>5. QED
    BY <2>1, <2>2, <2>4 DEF SameBlocked
<1>4. QED
  BY <1>1, <1>2, <1>3

\* threadStart
LEMMA StartKernel ==
  ASSUME TypeOK, SchedInv, NEW t \in Threads, StartThread(t)
  PROVE  Sound(sched') /\ SameBlocked(sched, sched')
<1>1. /\ ~sched.panic /\ sched.status[t] = "DIED" /\ sched' = Lock!ThreadStart(sched, t)
  BY DEF StartThread, At, Lock!Running, Lock!StartThread
<1>2. sched' = ThreadStart(sched, t)
  BY <1>1, LockOps
<1>3. Coherent(sched) /\ t \in Tasks
  BY <1>1 DEF SchedInv, Tasks
<1>4. Coherent(ThreadStart(sched, t))
  BY <1>1, <1>3, StartCoherent
<1>5. sched.status \in [Tasks -> TaskStatus] /\ Threads \subseteq Tasks
  BY <1>3 DEF Coherent, KernelState, Tasks
<1>6. ThreadStart(sched, t).status = [sched.status EXCEPT ![t] = "READY"]
  <2>1. ~InReady(sched, t)
    BY <1>1, <1>3 DEF Coherent, ReadyExact
  <2>2. ThreadStart(sched, t) = [sched EXCEPT !.status[t] = "READY", !.ready = Append(@, t),
                                              !.ticks[t] = Priority[t]]
    BY <2>1 DEF ThreadStart
  <2>3. QED
    BY <1>3, <2>2 DEF Coherent, KernelState
<1>7. SameBlocked(sched, ThreadStart(sched, t))
  BY <1>1, <1>5, <1>6 DEF SameBlocked
<1>8. QED
  BY <1>2, <1>4, <1>7, CoherentSound

\* The disk's interrupt: semaUp(diskDone) wakes at most a thread on its list.
LEMMA HandlerKernel ==
  ASSUME TypeOK, SchedInv, intrHdHandler
  PROVE  /\ Sound(sched')
         /\ doneList' \in Seq(Threads)
         /\ Coherent(Interrupted(sched)) /\ Interrupted(sched).status = sched.status
<1> DEFINE k == Interrupted(sched)
<1>1. Coherent(sched)
  BY DEF intrHdHandler, IntrOn, SchedInv
<1>2. Coherent(k) /\ k.status = sched.status
  BY <1>1, InterruptedKeeps
<1>3. doneList \in Seq(Threads)
  BY DEF TypeOK
<1>4. /\ expecting => /\ sched' = Asserted(done = 0, WakeFirst(k, doneList))
                      /\ doneList' = DropFirst(k, doneList)
      /\ ~expecting => sched' = k /\ doneList' = doneList
  BY DEF intrHdHandler, semaphore
<1> HIDE DEF k
<1> DEFINE n == WakeFirst(k, doneList)
<1>5. Coherent(n) /\ DropFirst(k, doneList) \in Seq(Threads)
  BY <1>2, <1>3, WakeFirstAny
<1> HIDE DEF n
<1>6. CASE expecting
  <2>1. sched' = Asserted(done = 0, n)
    BY <1>4, <1>6 DEF n
  <2>2. Sound(sched')
    BY <1>5, <2>1, AssertedSound
  <2>3. QED
    BY <1>2, <1>4, <1>5, <1>6, <2>2 DEF k
<1>7. CASE ~expecting
  BY <1>2, <1>3, <1>4, <1>7, CoherentSound DEF k
<1>8. expecting \in BOOLEAN
  BY DEF TypeOK
<1>9. QED
  BY <1>6, <1>7, <1>8

\* Every step leaves a sound kernel state.
LEMMA KernelStep == TypeOK /\ SchedInv /\ [Next]_vars => Sound(sched') /\ SchedInv'
<1> SUFFICES ASSUME TypeOK, SchedInv, [Next]_vars PROVE Sound(sched') /\ SchedInv'
  OBVIOUS
<1>1. ASSUME NEW t \in Threads, Step(t) PROVE Sound(sched')
  <2>1. CASE Select(t) \/ Command(t) \/ ReadData(t) \/ WriteData(t)
    BY <2>1, StillKernel DEF Select, Command, ReadData, WriteData, lockState
  <2>2. CASE InLock(t)
    <3>1. CASE Lock!BecomeHolder(t)
      BY <3>1, StillKernel DEF Lock!BecomeHolder
    <3>2. QED
      BY <2>2, <3>1, LockDownKernel, AssertKernel, LockUpKernel DEF InLock
  <2>3. QED
    BY <1>1, <2>1, <2>2, DownKernel, AssertKernel, RoundKernel DEF Step
<1>2. ASSUME NEW t \in Threads, NEW r \in Requests, Call(t, r) PROVE Sound(sched')
  BY <1>2, StillKernel DEF Call, Lock!LockLock
<1>3. ASSUME DiskReady \/ DiskDone \/ UNCHANGED vars PROVE Sound(sched')
  BY <1>3, StillKernel DEF DiskReady, DiskDone, vars, lockState
<1>4. Sound(sched')
  BY <1>1, <1>2, <1>3, StartKernel, HandlerKernel, RoundKernel DEF Next
<1>5. QED
  BY <1>4 DEF Sound, SchedInv

-----------------------------------------------------------------------------
(* The use of the lock *)

\* Who owns the lock is alone with it.
LEMMA HolderAlone ==
  ASSUME TypeOK, LockUse, NEW t \in Threads, Lock!Owns(t)
  PROVE  /\ value = 0
         /\ \A u \in Threads : Lock!Owns(u) => u = t
<1>1. value \in {0, 1}
  BY DEF TypeOK, Lock!TypeOK
<1>2. QED
  BY <1>1 DEF LockUse, Lock!MutualExclusion

\* A step that changes neither the lock nor where its thread is.
LEMMA LockUseSame ==
  ASSUME LockUse, UNCHANGED <<value, holder, repeat, pc, op>>
  PROVE  LockUse'
BY DEF LockUse, Lock!MutualExclusion, Lock!Owns

\* A step of ide.c inside the lock: its thread is the holder, and stays it.
LEMMA LockUseInside ==
  ASSUME TypeOK, LockUse, NEW t \in Threads, pc[t] = "run", op[t] # "call",
         NEW p \in Points, p # "call", op' = [op EXCEPT ![t] = p],
         UNCHANGED <<value, holder, repeat, pc>>
  PROVE  LockUse' /\ holder = t
<1>1. t \in Tasks /\ t # Idle /\ Idle \in Tasks /\ op \in [Tasks -> Points]
  BY SchedulerAssumption DEF TypeOK, Tasks
<1>2. op'[t] = p /\ \A u \in Threads : u # t => op'[u] = op[u]
  BY <1>1
<1>3. op'[Idle] = op[Idle]
  BY <1>1
<1>4. QED
  BY <1>2, <1>3 DEF LockUse, Lock!MutualExclusion, Lock!Owns

\* lockLock
LEMMA CallUse ==
  ASSUME TypeOK, LockUse, NEW t \in Threads, NEW r \in Requests, Call(t, r)
  PROVE  /\ LockUse'
         /\ holder # t /\ UNCHANGED <<sched, value, blockedList, waitingList, holder, repeat>>
         /\ pc' = [pc EXCEPT ![t] = "down"] /\ op' = [op EXCEPT ![t] = "select"]
<1>1. /\ pc[t] = "run" /\ op[t] = "call" /\ op' = [op EXCEPT ![t] = "select"]
      /\ holder # t
  BY DEF Call, At, Goto, LockUse
<1>2. /\ pc' = [pc EXCEPT ![t] = "down"]
      /\ UNCHANGED <<sched, value, blockedList, waitingList, holder, repeat>>
  BY <1>1 DEF Call, Lock!LockLock, Lock!Goto
<1>3. t \in Tasks /\ t # Idle /\ Idle \in Tasks /\ op \in [Tasks -> Points] /\ pc \in [Tasks -> Lock!Points]
  BY LockOps, SchedulerAssumption DEF TypeOK, Lock!TypeOK, Tasks
<1>4. /\ op'[t] = "select" /\ op'[Idle] = op[Idle] /\ pc'[t] = "down"
      /\ \A u \in Threads : u # t => op'[u] = op[u] /\ pc'[u] = pc[u]
  BY <1>1, <1>2, <1>3
<1>5. QED
  BY <1>1, <1>2, <1>4 DEF LockUse, Lock!MutualExclusion, Lock!Owns

\* lockUnlock before semaUp
LEMMA UnlockUse ==
  ASSUME TypeOK, LockUse, NEW t \in Threads, Unlock(t)
  PROVE  /\ LockUse'
         /\ holder = t /\ op[t] = "unlock" /\ op' = [op EXCEPT ![t] = "call"]
         /\ holder' = NoThread /\ pc' = [pc EXCEPT ![t] = "up"] /\ repeat' = 0
         /\ UNCHANGED <<value, blockedList, waitingList>>
<1>1. /\ pc[t] = "run" /\ op[t] = "unlock" /\ holder = t /\ repeat = 1
      /\ op' = [op EXCEPT ![t] = "call"]
  BY DEF Unlock, At, Goto, Lock!LockUnlock, LockUse
<1>2. value = 0 /\ \A u \in Threads : Lock!Owns(u) => u = t
  BY <1>1, HolderAlone DEF Lock!Owns
<1>3. /\ pc' = [pc EXCEPT ![t] = "up"] /\ holder' = NoThread /\ repeat' = 0
      /\ UNCHANGED <<value, blockedList, waitingList>>
  BY <1>1 DEF Unlock, Lock!LockUnlock, Lock!Goto
<1>4. t \in Tasks /\ t # Idle /\ Idle \in Tasks /\ op \in [Tasks -> Points] /\ pc \in [Tasks -> Lock!Points]
  BY LockOps, SchedulerAssumption DEF TypeOK, Lock!TypeOK, Tasks
<1>5. /\ op'[t] = "call" /\ op'[Idle] = op[Idle] /\ pc'[t] = "up"
      /\ \A u \in Threads : u # t => op'[u] = op[u] /\ pc'[u] = pc[u]
  BY <1>1, <1>3, <1>4
<1>6. \A u \in Threads : u # NoThread
  BY IdeAssumption DEF Tasks
<1>7. QED
  BY <1>1, <1>2, <1>3, <1>5, <1>6 DEF LockUse, Lock!MutualExclusion, Lock!Owns

\* the rest of lockLock and lockUnlock, one step at a time
LEMMA InLockUse ==
  ASSUME TypeOK, LockUse, NEW t \in Threads, InLock(t)
  PROVE  LockUse'
<1>1. op' = op
  BY DEF InLock, call
<1>2. t \in Tasks /\ t # Idle /\ pc \in [Tasks -> Lock!Points]
  BY LockOps, SchedulerAssumption DEF TypeOK, Lock!TypeOK, Tasks
<1>3. ASSUME NEW p, pc' = [pc EXCEPT ![t] = p]
      PROVE  pc'[t] = p /\ \A u \in Threads : u # t => pc'[u] = pc[u]
  BY <1>2, <1>3
<1>4. CASE Lock!SemaDownBlock(t)
  <2>1. /\ pc[t] \in {"down", "woken"} /\ pc' = [pc EXCEPT ![t] = "woken"]
        /\ UNCHANGED <<value, holder, repeat>>
    BY <1>4 DEF Lock!SemaDownBlock, Lock!Goto
  <2>2. QED
    BY <1>1, <1>3, <2>1 DEF LockUse, Lock!MutualExclusion, Lock!Owns
<1>5. CASE Lock!SemaDownTake(t)
  <2>1. /\ pc[t] \in {"down", "woken"} /\ pc' = [pc EXCEPT ![t] = "own"]
        /\ value # 0 /\ value' = value - 1 /\ UNCHANGED <<holder, repeat>>
    BY <1>5 DEF Lock!SemaDownTake, Lock!Goto
  <2>2. value = 1 /\ value' = 0
    BY <2>1 DEF TypeOK, Lock!TypeOK
  <2>3. \A u \in Threads : ~Lock!Owns(u)
    BY <2>2 DEF LockUse, Lock!MutualExclusion
  <2>4. pc'[t] = "own" /\ op[t] = "select" /\ \A u \in Threads : u # t => pc'[u] = pc[u]
    BY <1>3, <2>1 DEF LockUse
  <2>5. holder # t
    BY <2>1 DEF LockUse
  <2>6. QED
    BY <1>1, <2>1, <2>2, <2>3, <2>4, <2>5 DEF LockUse, Lock!MutualExclusion, Lock!Owns
<1>6. CASE Lock!BecomeHolder(t)
  <2>1. /\ pc[t] = "own" /\ pc' = [pc EXCEPT ![t] = "run"]
        /\ holder' = t /\ repeat' = 1 /\ value' = value
    BY <1>6 DEF Lock!BecomeHolder, Lock!Goto
  <2>2. value = 0 /\ \A u \in Threads : Lock!Owns(u) => u = t
    BY <2>1, HolderAlone DEF Lock!Owns
  <2>3. QED
    BY <1>1, <1>3, <2>1, <2>2 DEF LockUse, Lock!MutualExclusion, Lock!Owns
<1>7. CASE Lock!SemaUp(t)
  <2>1. /\ pc[t] = "up" /\ pc' = [pc EXCEPT ![t] = "run"]
        /\ value' = value + 1 /\ UNCHANGED <<holder, repeat>>
    BY <1>7 DEF Lock!SemaUp, Lock!Goto
  <2>2. value = 0 /\ value' = 1 /\ \A u \in Threads : Lock!Owns(u) => u = t
    BY <2>1, HolderAlone DEF Lock!Owns
  <2>3. pc'[t] = "run" /\ op[t] = "call" /\ \A u \in Threads : u # t => pc'[u] = pc[u]
    BY <1>3, <2>1 DEF LockUse
  <2>4. holder # t
    BY <2>1 DEF LockUse
  <2>5. QED
    BY <1>1, <2>1, <2>2, <2>3, <2>4 DEF LockUse, Lock!MutualExclusion, Lock!Owns
<1>8. QED
  BY <1>4, <1>5, <1>6, <1>7 DEF InLock

-----------------------------------------------------------------------------
(* The disk and the data, while the lock is held and while it is not *)

\* A thread that does not hold the lock is outside, or on its way to it.
LEMMA Others ==
  ASSUME TypeOK, LockUse, NEW u \in Threads, holder # u
  PROVE  op[u] \in {"call", "select"}
<1>1. u \in Tasks /\ pc \in [Tasks -> Lock!Points] /\ op \in [Tasks -> Points]
  BY LockOps DEF TypeOK, Lock!TypeOK, Tasks
<1>2. pc[u] \in {"run", "down", "woken", "own", "up", "relock"}
  BY <1>1 DEF Lock!Points
<1>3. QED
  BY <1>2 DEF LockUse

\* A thread that executes inside the lock is the holder.
LEMMA Inside ==
  ASSUME TypeOK, SchedInv, LockUse, LinkInv, DataInv, NEW t \in Threads,
         NEW p \in Points, p # "call", At(t, p)
  PROVE  /\ holder = t /\ op[t] = p /\ pc[t] = "run"
         /\ LinkAt(t) /\ DataAt(t)
         /\ op \in [Tasks -> Points] /\ t \in Tasks
<1>1. pc[t] = "run" /\ op[t] = p
  BY DEF At
<1>2. holder = t
  BY <1>1 DEF LockUse
<1>3. QED
  BY <1>1, <1>2 DEF LinkInv, DataInv, TypeOK, Tasks

\* What is not touched stays as it is.
LEMMA LinkSame ==
  ASSUME NEW u, LinkAt(u),
         op'[u] = op[u], req'[u] = req[u], secsDone'[u] = secsDone[u],
         UNCHANGED <<dev, irq, expecting, done>>
  PROVE  LinkAt(u)'
<1>1. Link' = Link /\ dev' = dev
  BY DEF Link
<1>2. secsPerLoop(u)' = secsPerLoop(u)
  BY DEF secsPerLoop
<1>3. Takes(u)' = Takes(u)
  BY <1>1, <1>2 DEF Takes
<1>4. QED
  BY <1>1, <1>3 DEF LinkAt

\* The same for the data moved so far.
LEMMA DataSame ==
  ASSUME NEW u, DataAt(u),
         op'[u] = op[u], req'[u] = req[u], secsDone'[u] = secsDone[u], buf'[u] = buf[u],
         UNCHANGED <<disk, holder>>
  PROVE  DataAt(u)'
BY DEF DataAt

\* A thread without the lock has moved nothing yet, so the disk is not its concern.
LEMMA DataOutside ==
  ASSUME TypeOK, NEW u \in Threads, DataAt(u), holder # u,
         op'[u] = op[u], req'[u] = req[u], secsDone'[u] = secsDone[u],
         op[u] \in {"call", "select"}
  PROVE  DataAt(u)'
<1>1. secsDone[u] = 0 /\ secsDone'[u] = 0
  BY DEF DataAt
<1>2. secsDone'[u] - 1 < 0 /\ \A i \in 0..(secsDone'[u] - 1) : FALSE
  BY <1>1
<1>3. QED
  BY <1>1, <1>2 DEF DataAt

\* A step that touches neither the lock's holder, the call, nor the disk.
LEMMA FrameStep ==
  ASSUME LinkInv, DataInv, UNCHANGED <<op, req, buf, secsDone, dev, irq, disk, expecting, done, holder>>
  PROVE  LinkInv' /\ DataInv'
<1>1. Link' = Link
  BY DEF Link
<1>2. \A u \in Threads : DataAt(u)'
  BY DataSame DEF DataInv
<1>3. \A u \in Threads : holder' = u => LinkAt(u)'
  BY LinkSame DEF LinkInv
<1>4. QED
  BY <1>1, <1>2, <1>3 DEF LinkInv, DataInv

\* A step of the holder: what has to be shown is about itself.
LEMMA HolderStep ==
  ASSUME TypeOK, LockUse, DataInv, NEW t \in Threads, holder = t, holder' = t,
         \A u \in Threads : u # t => /\ op'[u] = op[u] /\ req'[u] = req[u]
                                     /\ secsDone'[u] = secsDone[u],
         LinkAt(t)', DataAt(t)'
  PROVE  LinkInv' /\ DataInv'
<1>1. t # NoThread
  BY IdeAssumption DEF Tasks
<1>2. LinkInv'
  BY <1>1 DEF LinkInv
<1>3. ASSUME NEW u \in Threads, u # t PROVE DataAt(u)'
  <2>1. holder # u /\ DataAt(u) /\ op[u] \in {"call", "select"}
    BY <1>3, Others DEF DataInv
  <2>2. QED
    BY <1>3, <2>1, DataOutside
<1>4. QED
  BY <1>2, <1>3 DEF DataInv

\* What a step of ide.c can rely on.
Kept == TypeOK /\ SchedInv /\ LockUse /\ LinkInv /\ DataInv

\* selectDisk and selectSector: from here the interrupt is expected.
LEMMA SelectLinks ==
  ASSUME Kept, NEW t \in Threads, Select(t)
  PROVE  LockUse' /\ LinkInv' /\ DataInv'
<1>1. /\ At(t, "select") /\ expecting' = TRUE /\ op' = [op EXCEPT ![t] = "command"]
      /\ UNCHANGED <<value, holder, repeat, pc, done, dev, irq, disk, req, buf, secsDone>>
  BY DEF Select, Goto, lockState, device
<1>2. /\ holder = t /\ op[t] = "select" /\ pc[t] = "run" /\ LinkAt(t) /\ DataAt(t)
      /\ op \in [Tasks -> Points] /\ t \in Tasks
  BY <1>1, Inside DEF Kept, Points
<1>3. op'[t] = "command" /\ \A u \in Threads : u # t => op'[u] = op[u]
  BY <1>1, <1>2 DEF Tasks
<1>4. LockUse'
  BY <1>1, <1>2, LockUseInside DEF Kept, Points
<1>5. Link' = <<"idle", FALSE, TRUE, 0>>
  BY <1>1, <1>2 DEF LinkAt, Link
<1>6. LinkAt(t)'
  BY <1>3, <1>5 DEF LinkAt
<1>7. DataAt(t)'
  BY <1>1, <1>2, <1>3 DEF DataAt
<1>8. QED
  BY <1>1, <1>2, <1>3, <1>4, <1>6, <1>7, HolderStep DEF Kept

\* The command is the one for the next sectors, and the idle disk takes it.
LEMMA CommandLinks ==
  ASSUME Kept, NEW t \in Threads, Command(t)
  PROVE  LockUse' /\ LinkInv' /\ DataInv'
<1> DEFINE p == IF req[t].kind = "read" THEN "down" ELSE "poll"
<1>1. /\ At(t, "command") /\ op' = [op EXCEPT ![t] = p]
      /\ UNCHANGED <<value, holder, repeat, pc, expecting, done, irq, disk, req, buf, secsDone>>
  BY DEF Command, Goto, lockState, semaphore
<1>2. /\ holder = t /\ op[t] = "command" /\ pc[t] = "run" /\ LinkAt(t) /\ DataAt(t)
      /\ op \in [Tasks -> Points] /\ t \in Tasks
  BY <1>1, Inside DEF Kept, Points
<1>3. op'[t] = p /\ \A u \in Threads : u # t => op'[u] = op[u]
  BY <1>1, <1>2 DEF Tasks
<1>4. LockUse'
  BY <1>1, <1>2, LockUseInside DEF Kept, Points
<1>5. Link = <<"idle", FALSE, TRUE, 0>>
  BY <1>2 DEF LinkAt
<1>6. dev' = [state |-> "busy", kind |-> req[t].kind, lba |-> req[t].lba + secsDone[t],
              cnt |-> Count(Register(secsPerLoop(t)))]
  BY <1>5 DEF Command, Link
<1>7. secsDone[t] < req[t].cnt /\ req[t].kind \in {"read", "write"}
  BY <1>2, RequestIs DEF DataAt, Kept
<1>8. Count(Register(secsPerLoop(t))) = secsPerLoop(t)
  BY <1>7, RequestIs DEF Kept
<1>9. secsPerLoop(t)' = secsPerLoop(t)
  BY <1>1 DEF secsPerLoop
<1>10. Takes(t)'
  BY <1>1, <1>6, <1>8, <1>9 DEF Takes
<1>11. Link' = <<"busy", FALSE, TRUE, 0>>
  BY <1>1, <1>5, <1>6 DEF Link
<1>12. LinkAt(t)'
  BY <1>1, <1>3, <1>7, <1>10, <1>11 DEF LinkAt
<1>13. DataAt(t)'
  BY <1>1, <1>2, <1>3, <1>7 DEF DataAt
<1>14. QED
  BY <1>1, <1>2, <1>3, <1>4, <1>12, <1>13, HolderStep DEF Kept

\* semaDown(diskDone) takes what the interrupt gave, or goes to sleep for it.
LEMMA DownLinks ==
  ASSUME Kept, NEW t \in Threads, Down(t)
  PROVE  LockUse' /\ LinkInv' /\ DataInv'
<1>1. PICK q \in {"down", "asleep"} : At(t, q)
  BY DEF Down
<1>2. /\ holder = t /\ op[t] \in {"down", "asleep"} /\ pc[t] = "run" /\ LinkAt(t) /\ DataAt(t)
      /\ op \in [Tasks -> Points] /\ t \in Tasks
  BY <1>1, Inside DEF Kept, Points
<1>3. UNCHANGED <<value, holder, repeat, pc, expecting, dev, irq, disk, req, buf, secsDone>>
  BY DEF Down, lockRest, device
<1>4. /\ req[t].kind \in {"read", "write"} /\ secsDone[t] \in Nat /\ req[t].cnt \in Nat
      /\ secsDone[t] <= req[t].cnt /\ (req[t].kind = "read" => secsDone[t] < req[t].cnt)
  BY <1>2, RequestIs DEF Kept, DataAt
<1>5. Takes(t)' = Takes(t)
  BY <1>3 DEF Takes, secsPerLoop
<1>6. CASE done = 0
  <2>1. op' = [op EXCEPT ![t] = "asleep"] /\ done' = done
    BY <1>6 DEF Down, Goto
  <2>2. op'[t] = "asleep" /\ \A u \in Threads : u # t => op'[u] = op[u]
    BY <1>2, <2>1 DEF Tasks
  <2>3. LockUse'
    BY <1>2, <1>3, <2>1, LockUseInside DEF Kept, Points
  <2>4. Link' = Link
    BY <1>3, <2>1 DEF Link
  <2>5. LinkAt(t)'
    BY <1>2, <1>3, <1>5, <2>2, <2>4 DEF LinkAt
  <2>6. DataAt(t)'
    BY <1>2, <1>3, <1>4, <2>2 DEF DataAt
  <2>7. QED
    BY <1>2, <1>3, <2>2, <2>3, <2>5, <2>6, HolderStep DEF Kept
<1>7. CASE done # 0
  <2> DEFINE p == AfterDown(t)
  <2>1. op' = [op EXCEPT ![t] = p] /\ done' = done - 1
    BY <1>7 DEF Down, Goto
  <2>2. p = IF req[t].kind = "read" THEN "poll"
            ELSE IF secsDone[t] < req[t].cnt THEN "select" ELSE "unlock"
    BY DEF AfterDown
  <2> HIDE DEF p
  <2>3. op'[t] = p /\ \A u \in Threads : u # t => op'[u] = op[u]
    BY <1>2, <2>1 DEF Tasks
  <2>4. p \in Points /\ p # "call"
    BY <2>2 DEF Points
  <2>5. LockUse'
    BY <1>2, <1>3, <2>1, <2>4, LockUseInside DEF Kept
  <2>6. CASE req[t].kind = "read"
    <3>1. Takes(t) /\ Link = <<"data", FALSE, FALSE, 1>>
      BY <1>2, <1>7, <2>6 DEF LinkAt, Link
    <3>2. Link' = <<"data", FALSE, FALSE, 0>>
      BY <1>3, <2>1, <3>1 DEF Link
    <3>3. LinkAt(t)'
      BY <1>3, <1>5, <2>2, <2>3, <2>6, <3>1, <3>2 DEF LinkAt
    <3>4. DataAt(t)'
      BY <1>2, <1>3, <1>4, <2>2, <2>3, <2>6 DEF DataAt
    <3>5. QED
      BY <1>2, <1>3, <2>3, <2>5, <3>3, <3>4, HolderStep DEF Kept
  <2>7. CASE req[t].kind = "write"
    <3>1. Link = <<"idle", FALSE, FALSE, 1>>
      BY <1>2, <1>7, <2>7 DEF LinkAt, Link
    <3>2. Link' = <<"idle", FALSE, FALSE, 0>>
      BY <1>3, <2>1, <3>1 DEF Link
    <3>3. p \in {"select", "unlock"}
      BY <2>2, <2>7
    <3>4. LinkAt(t)'
      BY <2>3, <3>2, <3>3 DEF LinkAt
    <3>5. (p = "select" => secsDone[t] < req[t].cnt) /\ (p = "unlock" => secsDone[t] = req[t].cnt)
      BY <1>4, <2>2, <2>7
    <3>6. DataAt(t)'
      BY <1>2, <1>3, <1>4, <2>3, <3>3, <3>5 DEF DataAt
    <3>7. QED
      BY <1>2, <1>3, <2>3, <2>5, <3>4, <3>6, HolderStep DEF Kept
  <2>8. QED
    BY <1>4, <2>6, <2>7
<1>8. QED
  BY <1>6, <1>7

\* busyWait finds the disk as it was and leaves it so.
LEMMA PollLinks ==
  ASSUME Kept, NEW t \in Threads, Poll(t) \/ Sleep(t)
  PROVE  LockUse' /\ LinkInv' /\ DataInv'
<1>1. PICK q \in {"poll", "sleep"} : At(t, q)
  BY DEF Poll, Sleep
<1>2. /\ holder = t /\ op[t] \in {"poll", "sleep"} /\ pc[t] = "run" /\ LinkAt(t) /\ DataAt(t)
      /\ op \in [Tasks -> Points] /\ t \in Tasks
  BY <1>1, Inside DEF Kept, Points
<1>3. UNCHANGED <<value, holder, repeat, pc, expecting, done, dev, irq, disk, req, buf, secsDone>>
  BY DEF Poll, Sleep, lockRest, device, semaphore
<1>4. PICK p \in {"poll", "sleep", "data"} : op' = [op EXCEPT ![t] = p]
  <2>1. CASE op' = op
    <3>1. op' = [op EXCEPT ![t] = op[t]]
      BY <1>2, <2>1
    <3>2. QED
      BY <1>2, <3>1
  <2>2. CASE op' # op
    BY <2>2 DEF Poll, Sleep, Goto
  <2>3. QED
    BY <2>1, <2>2
<1>5. op'[t] = p /\ \A u \in Threads : u # t => op'[u] = op[u]
  BY <1>2, <1>4 DEF Tasks
<1>6. LockUse'
  BY <1>2, <1>3, <1>4, LockUseInside DEF Kept, Points
<1>7. Link' = Link /\ Takes(t)' = Takes(t)
  BY <1>3 DEF Link, Takes, secsPerLoop
<1>8. LinkAt(t)'
  BY <1>2, <1>3, <1>5, <1>7 DEF LinkAt
<1>9. DataAt(t)'
  BY <1>2, <1>3, <1>5 DEF DataAt
<1>10. QED
  BY <1>2, <1>3, <1>5, <1>6, <1>8, <1>9, HolderStep DEF Kept

\* The sectors of one command arrive in the buffer.
LEMMA ReadDataLinks ==
  ASSUME Kept, NEW t \in Threads, ReadData(t)
  PROVE  LockUse' /\ LinkInv' /\ DataInv'
<1> DEFINE n == secsPerLoop(t)
           d == secsDone[t]
           p == IF d + n < req[t].cnt THEN "select" ELSE "unlock"
<1>1. /\ At(t, "data") /\ req[t].kind = "read" /\ op' = [op EXCEPT ![t] = p]
      /\ dev' = IdleDisk
      /\ secsDone' = [secsDone EXCEPT ![t] = d + n]
      /\ buf' = [buf EXCEPT ![t] = [i \in Offsets |->
                   IF d <= i /\ i < d + Count(Register(n)) /\ i < d + dev.cnt
                   THEN disk[dev.lba + i - d] ELSE buf[t][i]]]
      /\ UNCHANGED <<value, holder, repeat, pc, expecting, done, irq, disk, req>>
  BY DEF ReadData, Goto, lockState, semaphore
<1>2. /\ holder = t /\ op[t] = "data" /\ pc[t] = "run" /\ LinkAt(t) /\ DataAt(t)
      /\ op \in [Tasks -> Points] /\ t \in Tasks
  BY <1>1, Inside DEF Kept, Points
<1>3. /\ d \in Nat /\ req[t].cnt \in Nat /\ req[t].lba \in Nat /\ d < req[t].cnt
      /\ n \in 1 .. Chunk /\ d + n <= req[t].cnt /\ Count(Register(n)) = n
      /\ req[t].cnt \in 1 .. MaxCnt /\ MaxCnt \in Nat /\ Chunk \in Nat
  BY <1>2, RequestIs DEF Kept, DataAt
<1>4. dev.lba = req[t].lba + d /\ dev.cnt = n
  BY <1>1, <1>2 DEF LinkAt, Takes
<1>5. Link = <<"data", FALSE, FALSE, 0>>
  BY <1>1, <1>2 DEF LinkAt
<1>6. Link' = <<"idle", FALSE, FALSE, 0>>
  BY <1>1, <1>5 DEF Link, IdleDisk
<1>7. secsDone \in [Threads -> 0..MaxCnt] /\ buf \in [Threads -> [Offsets -> Contents]]
  BY DEF Kept, TypeOK
<1> HIDE DEF n, d, p
<1>8. /\ secsDone'[t] = d + n /\ op'[t] = p
      /\ \A u \in Threads : u # t => op'[u] = op[u] /\ secsDone'[u] = secsDone[u]
  BY <1>1, <1>2, <1>7 DEF Tasks
<1>9. p = IF d + n < req[t].cnt THEN "select" ELSE "unlock"
  BY DEF p
<1>10. p \in Points /\ p # "call"
  BY <1>9 DEF Points
<1>11. LockUse'
  BY <1>1, <1>2, <1>10, LockUseInside DEF Kept
<1>12. LinkAt(t)'
  BY <1>6, <1>8, <1>9 DEF LinkAt
<1>13. \A i \in 0..(secsDone'[t] - 1) : buf'[t][i] = disk'[req'[t].lba + i]
  <2>1. TAKE i \in 0..(secsDone'[t] - 1)
  <2>2. i \in Nat /\ i < d + n /\ i \in Offsets
    BY <1>3, <1>8, <2>1 DEF Offsets
  <2>3. buf'[t][i] = IF d <= i /\ i < d + n /\ i < d + n
                     THEN disk[dev.lba + i - d] ELSE buf[t][i]
    BY <1>1, <1>3, <1>4, <1>7, <2>2
  <2>4. CASE d <= i
    <3>1. buf'[t][i] = disk[dev.lba + i - d]
      BY <2>2, <2>3, <2>4
    <3>2. dev.lba + i - d = req[t].lba + i
      BY <1>3, <1>4, <2>2
    <3>3. QED
      BY <1>1, <3>1, <3>2
  <2>5. CASE i < d
    <3>1. buf'[t][i] = buf[t][i]
      BY <1>3, <2>2, <2>3, <2>5
    <3>2. i \in 0..(d - 1)
      BY <1>3, <2>2, <2>5
    <3>3. buf[t][i] = disk[req[t].lba + i]
      BY <1>2, <3>2 DEF DataAt, d
    <3>4. QED
      BY <1>1, <3>1, <3>3
  <2>6. QED
    BY <1>3, <2>2, <2>4, <2>5
<1>14. DataAt(t)'
  <2>1. req' = req /\ holder' = t /\ op'[t] \in {"select", "unlock"}
    BY <1>1, <1>2, <1>8, <1>9
  <2>2. (op'[t] = "select" => secsDone'[t] < req[t].cnt) /\ secsDone'[t] <= req[t].cnt
        /\ (op'[t] = "unlock" => secsDone'[t] = req[t].cnt)
    BY <1>3, <1>8, <1>9
  <2>3. QED
    BY <1>13, <2>1, <2>2 DEF DataAt
<1>15. QED
  BY <1>1, <1>2, <1>8, <1>11, <1>12, <1>14, HolderStep DEF Kept

\* The sectors of one command leave the buffer.
LEMMA WriteDataLinks ==
  ASSUME Kept, NEW t \in Threads, WriteData(t)
  PROVE  LockUse' /\ LinkInv' /\ DataInv'
<1> DEFINE n == secsPerLoop(t)
           d == secsDone[t]
<1>1. /\ At(t, "data") /\ req[t].kind = "write" /\ op' = [op EXCEPT ![t] = "down"]
      /\ dev' = [dev EXCEPT !.state = "flush"]
      /\ secsDone' = [secsDone EXCEPT ![t] = d + n]
      /\ disk' = [s \in Sectors |-> IF dev.lba <= s /\ s < dev.lba + dev.cnt
                                     THEN buf[t][d + s - dev.lba] ELSE disk[s]]
      /\ UNCHANGED <<value, holder, repeat, pc, expecting, done, irq, buf, req>>
  BY DEF WriteData, Goto, lockState, semaphore
<1>2. /\ holder = t /\ op[t] = "data" /\ pc[t] = "run" /\ LinkAt(t) /\ DataAt(t)
      /\ op \in [Tasks -> Points] /\ t \in Tasks
  BY <1>1, Inside DEF Kept, Points
<1>3. /\ d \in Nat /\ req[t].cnt \in Nat /\ req[t].lba \in Nat /\ d < req[t].cnt
      /\ n \in 1 .. Chunk /\ d + n <= req[t].cnt /\ Chunk \in Nat
      /\ req[t].lba + req[t].cnt <= NSectors /\ NSectors \in Nat
  BY <1>2, RequestIs DEF Kept, DataAt
<1>4. dev.lba = req[t].lba + d /\ dev.cnt = n
  BY <1>1, <1>2 DEF LinkAt, Takes
<1>5. irq = FALSE /\ expecting = TRUE /\ done = 0
  BY <1>1, <1>2 DEF LinkAt, Link
<1>6. Link' = <<"flush", FALSE, TRUE, 0>>
  <2>1. dev'.state = "flush"
    BY <1>1 DEF Kept, TypeOK
  <2>2. QED
    BY <1>1, <1>5, <2>1 DEF Link
<1>7. secsDone \in [Threads -> 0..MaxCnt]
  BY DEF Kept, TypeOK
<1> HIDE DEF n, d
<1>8. /\ secsDone'[t] = d + n /\ op'[t] = "down"
      /\ \A u \in Threads : u # t => op'[u] = op[u] /\ secsDone'[u] = secsDone[u]
  BY <1>1, <1>2, <1>7 DEF Tasks
<1>9. LockUse'
  BY <1>1, <1>2, LockUseInside DEF Kept, Points
<1>10. LinkAt(t)'
  BY <1>1, <1>6, <1>8 DEF LinkAt
<1>11. \A i \in 0..(secsDone'[t] - 1) : buf'[t][i] = disk'[req'[t].lba + i]
  <2>1. TAKE i \in 0..(secsDone'[t] - 1)
  <2> DEFINE s == req[t].lba + i
  <2>2. i \in Nat /\ i < d + n /\ s \in Sectors /\ s \in Nat
    BY <1>3, <1>8, <2>1 DEF Sectors
  <2>3. disk'[s] = IF dev.lba <= s /\ s < dev.lba + dev.cnt
                   THEN buf[t][d + s - dev.lba] ELSE disk[s]
    BY <1>1, <2>2
  <2>4. CASE d <= i
    <3>1. dev.lba <= s /\ s < dev.lba + dev.cnt /\ d + s - dev.lba = i
      BY <1>3, <1>4, <2>2, <2>4
    <3>2. disk'[s] = buf[t][i]
      BY <2>3, <3>1
    <3>3. QED
      BY <1>1, <3>2
  <2>5. CASE i < d
    <3>1. ~(dev.lba <= s)
      BY <1>3, <1>4, <2>2, <2>5
    <3>2. disk'[s] = disk[s]
      BY <2>3, <3>1
    <3>3. i \in 0..(d - 1)
      BY <1>3, <2>2, <2>5
    <3>4. buf[t][i] = disk[req[t].lba + i]
      BY <1>2, <3>3 DEF DataAt, d
    <3>5. QED
      BY <1>1, <3>2, <3>4
  <2>6. QED
    BY <1>3, <2>2, <2>4, <2>5
<1>12. DataAt(t)'
  <2>1. req' = req /\ holder' = t /\ op'[t] = "down" /\ req[t].kind # "read"
    BY <1>1, <1>2, <1>8
  <2>2. secsDone'[t] <= req[t].cnt
    BY <1>3, <1>8
  <2>3. QED
    BY <1>11, <2>1, <2>2 DEF DataAt
<1>13. QED
  BY <1>1, <1>2, <1>8, <1>9, <1>10, <1>12, HolderStep DEF Kept

\* The call is over, and nothing is left of it.
LEMMA UnlockLinks ==
  ASSUME Kept, NEW t \in Threads, Unlock(t)
  PROVE  LockUse' /\ LinkInv' /\ DataInv'
<1>1. /\ LockUse' /\ holder = t /\ op[t] = "unlock" /\ op' = [op EXCEPT ![t] = "call"]
      /\ holder' = NoThread
  BY UnlockUse DEF Kept
<1>2. /\ req' = [req EXCEPT ![t] = NoRequest] /\ secsDone' = [secsDone EXCEPT ![t] = 0]
      /\ UNCHANGED <<expecting, done, dev, irq, disk>>
  BY DEF Unlock, semaphore, device
<1>3. /\ op \in [Tasks -> Points] /\ t \in Tasks /\ req \in [Threads -> Requests]
      /\ secsDone \in [Threads -> 0..MaxCnt]
  BY DEF Kept, TypeOK, Tasks
<1>4. /\ op'[t] = "call" /\ req'[t] = NoRequest /\ secsDone'[t] = 0
      /\ \A u \in Threads : u # t => /\ op'[u] = op[u] /\ req'[u] = req[u]
                                     /\ secsDone'[u] = secsDone[u]
  BY <1>1, <1>2, <1>3 DEF Tasks
<1>5. Link = <<"idle", FALSE, FALSE, 0>>
  BY <1>1 DEF Kept, LinkInv, LinkAt
<1>6. Link' = Link
  BY <1>2 DEF Link
<1>7. \A u \in Threads : u # NoThread
  BY IdeAssumption DEF Tasks
<1>8. LinkInv'
  BY <1>1, <1>5, <1>6, <1>7 DEF LinkInv
<1>9. ASSUME NEW u \in Threads, u # t PROVE DataAt(u)'
  <2>1. holder # u /\ DataAt(u) /\ op[u] \in {"call", "select"} /\ TypeOK
    BY <1>1, <1>9, Others DEF Kept, DataInv
  <2>2. QED
    BY <1>4, <1>9, <2>1, DataOutside
<1>10. DataAt(t)'
  <2>1. secsDone'[t] - 1 < 0 /\ \A i \in 0..(secsDone'[t] - 1) : FALSE
    BY <1>4
  <2>2. QED
    BY <1>4, <2>1 DEF DataAt, NoRequest
<1>11. QED
  BY <1>1, <1>8, <1>9, <1>10 DEF DataInv

\* A new request waits for the lock.
LEMMA CallLinks ==
  ASSUME Kept, NEW t \in Threads, NEW r \in Requests, Call(t, r)
  PROVE  LockUse' /\ LinkInv' /\ DataInv'
<1>1. /\ LockUse' /\ holder # t /\ holder' = holder /\ op' = [op EXCEPT ![t] = "select"]
  BY CallUse DEF Kept
<1>2. /\ req' = [req EXCEPT ![t] = r] /\ secsDone' = [secsDone EXCEPT ![t] = 0]
      /\ \E b : buf' = [buf EXCEPT ![t] = b]
      /\ UNCHANGED <<expecting, done, dev, irq, disk>>
  BY DEF Call, semaphore, device
<1>3. /\ op \in [Tasks -> Points] /\ t \in Tasks /\ req \in [Threads -> Requests]
      /\ secsDone \in [Threads -> 0..MaxCnt] /\ buf \in [Threads -> [Offsets -> Contents]]
  BY DEF Kept, TypeOK, Tasks
<1>4. /\ op'[t] = "select" /\ req'[t] = r /\ secsDone'[t] = 0
      /\ \A u \in Threads : u # t => /\ op'[u] = op[u] /\ req'[u] = req[u]
                                     /\ secsDone'[u] = secsDone[u] /\ buf'[u] = buf[u]
  BY <1>1, <1>2, <1>3 DEF Tasks
<1>5. Link' = Link
  BY <1>2 DEF Link
<1>6. \A u \in Threads : holder' = u => LinkAt(u)'
  BY <1>1, <1>2, <1>4, LinkSame DEF Kept, LinkInv
<1>7. LinkInv'
  BY <1>1, <1>5, <1>6 DEF Kept, LinkInv
<1>8. ASSUME NEW u \in Threads, u # t PROVE DataAt(u)'
  BY <1>1, <1>2, <1>4, <1>8, DataSame DEF Kept, DataInv
<1>9. DataAt(t)'
  <2>1. secsDone'[t] - 1 < 0 /\ \A i \in 0..(secsDone'[t] - 1) : FALSE
    BY <1>4
  <2>2. r.cnt \in Nat /\ r.cnt > 0
    BY DEF Requests
  <2>3. QED
    BY <1>4, <2>1, <2>2 DEF DataAt
<1>10. QED
  BY <1>1, <1>7, <1>8, <1>9 DEF DataInv

\* The lock is acquired: the disk is idle and owes nobody an interrupt.
LEMMA InLockLinks ==
  ASSUME Kept, NEW t \in Threads, InLock(t)
  PROVE  LockUse' /\ LinkInv' /\ DataInv'
<1>1. LockUse' /\ UNCHANGED <<op, req, buf, secsDone, dev, irq, disk, expecting, done>>
  BY InLockUse DEF Kept, InLock, call, device, semaphore
<1>2. CASE holder' = holder
  BY <1>1, <1>2, FrameStep DEF Kept
<1>3. CASE Lock!BecomeHolder(t)
  <2>1. pc[t] = "own" /\ holder' = t
    BY <1>3 DEF Lock!BecomeHolder
  <2>2. \A u \in Threads : Lock!Owns(u) => u = t
    BY <2>1, HolderAlone DEF Lock!Owns, Kept
  <2>3. op[t] = "select" /\ holder # t
    BY <2>1 DEF Kept, LockUse
  <2>4. holder = NoThread
    BY <2>2, <2>3 DEF Kept, TypeOK, Lock!TypeOK, Lock!Owns
  <2>5. Link = <<"idle", FALSE, FALSE, 0>>
    BY <2>4 DEF Kept, LinkInv
  <2>6. Link' = Link /\ op' = op
    BY <1>1 DEF Link
  <2>7. t # NoThread
    BY IdeAssumption DEF Tasks
  <2>8. LinkAt(t)'
    BY <2>3, <2>5, <2>6 DEF LinkAt
  <2>9. LinkInv'
    BY <2>1, <2>7, <2>8 DEF LinkInv
  <2>10. ASSUME NEW u \in Threads PROVE DataAt(u)'
    <3>1. holder # u
      BY <2>4, IdeAssumption DEF Tasks
    <3>2. DataAt(u) /\ secsDone[u] = 0
      BY <3>1 DEF Kept, DataInv, DataAt
    <3>3. QED
      BY <1>1, <3>2 DEF DataAt
  <2>11. QED
    BY <1>1, <2>9, <2>10 DEF DataInv
<1>4. QED
  BY <1>2, <1>3 DEF InLock, Lock!SemaDownBlock, Lock!SemaDownTake, Lock!SemaUp

\* The disk and its interrupt move the link on, for the holder alone.
LEMMA DeviceLinks ==
  ASSUME Kept, DiskReady \/ DiskDone \/ intrHdHandler
  PROVE  LockUse' /\ LinkInv' /\ DataInv'
<1>1. UNCHANGED <<value, holder, repeat, pc, op, req, buf, secsDone, disk>>
  BY DEF DiskReady, DiskDone, intrHdHandler, lockState, lockRest, call
<1>2. LockUse'
  BY <1>1, LockUseSame DEF Kept
<1>3. DataInv'
  <2>1. \A u \in Threads : DataAt(u)'
    BY <1>1, DataSame DEF Kept, DataInv
  <2>2. QED
    BY <2>1 DEF DataInv
<1>4. /\ DiskReady => /\ dev.state = "busy" /\ irq' = (irq \/ dev.kind = "read")
                      /\ dev' = [dev EXCEPT !.state = "data"]
                      /\ expecting' = expecting /\ done' = done
      /\ DiskDone => /\ dev.state = "flush" /\ dev' = IdleDisk /\ irq' = TRUE
                     /\ expecting' = expecting /\ done' = done
      /\ intrHdHandler => /\ irq /\ irq' = FALSE /\ dev' = dev
                          /\ expecting => expecting' = FALSE /\ done' = done + 1
                          /\ ~expecting => expecting' = expecting /\ done' = done
  BY DEF DiskReady, DiskDone, intrHdHandler, semaphore
<1>5. holder # NoThread
  <2>1. SUFFICES ASSUME Link = <<"idle", FALSE, FALSE, 0>> PROVE FALSE
    BY DEF Kept, LinkInv
  <2>2. dev.state = "idle" /\ ~irq
    BY <2>1 DEF Link
  <2>3. QED
    BY <1>4, <2>2
<1>6. PICK t \in Threads : holder = t
  BY <1>5 DEF Kept, TypeOK, Lock!TypeOK
<1>7. LinkAt(t) /\ t # NoThread /\ op'[t] = op[t] /\ req'[t] = req[t]
  BY <1>1, <1>6, IdeAssumption DEF Kept, LinkInv, Tasks
<1>8. req[t].kind \in {"read", "write"} /\ op[t] \in Points \ {"call"}
  <2>1. op[t] \in Points /\ t \in Tasks
    BY DEF Kept, TypeOK, Tasks
  <2>2. op[t] # "call"
    BY <1>6 DEF Kept, LockUse
  <2>3. QED
    BY <2>1, <2>2, RequestIs DEF Kept
<1>9. dev = [state |-> dev.state, kind |-> dev.kind, lba |-> dev.lba, cnt |-> dev.cnt]
  BY DEF Kept, TypeOK
<1>10. Takes(t) /\ (DiskReady \/ intrHdHandler) => Takes(t)'
  <2>1. secsPerLoop(t)' = secsPerLoop(t)
    BY <1>1 DEF secsPerLoop
  <2>2. DiskReady \/ intrHdHandler => dev'.kind = dev.kind /\ dev'.lba = dev.lba /\ dev'.cnt = dev.cnt
    BY <1>4, <1>9
  <2>3. QED
    BY <1>1, <2>1, <2>2 DEF Takes
<1>11. LinkAt(t)'
  <2>1. CASE DiskReady
    <3>1. /\ op[t] \in {"poll", "sleep", "data"} =>
               req[t].kind = "write" /\ Takes(t) /\ Link = <<"busy", FALSE, TRUE, 0>>
          /\ op[t] \in {"down", "asleep"} =>
               req[t].kind = "read" /\ Takes(t) /\ Link = <<"busy", FALSE, TRUE, 0>>
          /\ op[t] \notin {"select", "unlock", "command"}
      BY <1>4, <1>7, <1>8, <2>1 DEF LinkAt, Link
    <3>2. dev'.state = "data"
      BY <1>4, <1>9, <2>1
    <3>3. op[t] \in {"poll", "sleep", "data"} => Link' = <<"data", FALSE, TRUE, 0>>
      BY <1>4, <2>1, <3>1, <3>2 DEF Link, Takes
    <3>4. op[t] \in {"down", "asleep"} => Link' = <<"data", TRUE, TRUE, 0>>
      BY <1>4, <2>1, <3>1, <3>2 DEF Link, Takes
    <3>5. QED
      BY <1>7, <1>10, <2>1, <3>1, <3>3, <3>4 DEF LinkAt
  <2>2. CASE DiskDone
    <3>1. op[t] \in {"down", "asleep"} /\ req[t].kind = "write" /\ Link = <<"flush", FALSE, TRUE, 0>>
      BY <1>4, <1>7, <1>8, <2>2 DEF LinkAt, Link, Points
    <3>2. Link' = <<"idle", TRUE, TRUE, 0>>
      BY <1>4, <2>2, <3>1 DEF Link, IdleDisk
    <3>3. QED
      BY <1>7, <3>1, <3>2 DEF LinkAt
  <2>3. CASE intrHdHandler
    <3>1. /\ op[t] \in {"down", "asleep"}
          /\ req[t].kind = "read" => Takes(t) /\ Link = <<"data", TRUE, TRUE, 0>>
          /\ req[t].kind = "write" => Link = <<"idle", TRUE, TRUE, 0>>
      BY <1>4, <1>7, <1>8, <2>3 DEF LinkAt, Link, Points
    <3>2. expecting /\ done = 0
      BY <1>8, <3>1 DEF Link
    <3>next. dev' = dev /\ irq' = FALSE /\ expecting' = FALSE /\ done' = 1
      BY <1>4, <2>3, <3>2
    <3>3. req[t].kind = "read" => Link' = <<"data", FALSE, FALSE, 1>>
      BY <3>1, <3>next DEF Link
    <3>4. req[t].kind = "write" => Link' = <<"idle", FALSE, FALSE, 1>>
      BY <3>1, <3>next DEF Link
    <3>5. QED
      BY <1>7, <1>8, <1>10, <2>3, <3>1, <3>3, <3>4 DEF LinkAt
  <2>4. QED
    BY <2>1, <2>2, <2>3
<1>12. LinkInv'
  BY <1>1, <1>6, <1>7, <1>11 DEF LinkInv
<1>13. QED
  BY <1>2, <1>3, <1>12

\* Every step.
LEMMA LinksStep ==
  Kept /\ [Next]_vars => LockUse' /\ LinkInv' /\ DataInv'
<1> SUFFICES ASSUME Kept, [Next]_vars PROVE LockUse' /\ LinkInv' /\ DataInv'
  OBVIOUS
<1>1. ASSUME NEW t \in Threads, Step(t) PROVE LockUse' /\ LinkInv' /\ DataInv'
  BY <1>1, SelectLinks, CommandLinks, DownLinks, PollLinks, ReadDataLinks, WriteDataLinks,
     UnlockLinks, InLockLinks DEF Step
<1>2. ASSUME UNCHANGED <<value, holder, repeat, pc, op, req, buf, secsDone, disk, dev, irq,
                         expecting, done>>
      PROVE  LockUse' /\ LinkInv' /\ DataInv'
  BY <1>2, LockUseSame, FrameStep DEF Kept
<1>3. ASSUME NEW t \in Threads, StartThread(t) PROVE LockUse' /\ LinkInv' /\ DataInv'
  BY <1>2, <1>3 DEF StartThread, Lock!StartThread, Lock!lockVars, semaphore, device, call
<1>4. CASE TimerIntr \/ IdleLoop \/ UNCHANGED vars
  BY <1>2, <1>4 DEF TimerIntr, IdleLoop, Lock!IdleLoop, Lock!lockVars, lockRest, semaphore,
     device, call, vars, lockState
<1>5. QED
  BY <1>1, <1>3, <1>4, CallLinks, DeviceLinks DEF Next

-----------------------------------------------------------------------------
(* Types *)

\* what TypeOK says of ide.c
DriverTyped ==
  /\ done \in {0, 1}
  /\ doneList \in Seq(Threads)
  /\ expecting \in BOOLEAN
  /\ dev \in [state: {"idle", "busy", "data", "flush"}, kind: {"read", "write"},
              lba: Sectors, cnt: 1..Chunk]
  /\ irq \in BOOLEAN
  /\ disk \in [Sectors -> Contents]
  /\ op \in [Tasks -> Points]
  /\ req \in [Threads -> Requests]
  /\ buf \in [Threads -> [Offsets -> Contents]]
  /\ secsDone \in [Threads -> 0..MaxCnt]
  /\ slept \in [Threads -> BOOLEAN]
  /\ tries \in [Threads -> 0..MaxTries]

\* TypeOK is the type of the lock and that of the driver.
LEMMA TypedParts ==
  /\ TypeOK <=> Lock!TypeOK /\ DriverTyped
  /\ TypeOK' <=> Lock!TypeOK' /\ DriverTyped'
BY DEF TypeOK, DriverTyped

\* The lock.
LEMMA LockTyped == Kept /\ [Next]_vars => Lock!TypeOK'
<1> SUFFICES ASSUME Kept, [Next]_vars PROVE Lock!TypeOK'
  OBVIOUS
<1>1. sched' \in Lock!KernelState
  BY KernelStep, LockOps DEF Kept, Sound
<1>2. /\ value \in {0, 1} /\ blockedList \in Seq(Threads) /\ waitingList \in Seq(Threads)
      /\ holder \in Threads \cup {NoThread} /\ repeat \in Nat
      /\ pc \in [Lock!Tasks -> Lock!Points]
  BY DEF Kept, TypeOK, Lock!TypeOK
<1>3. ASSUME UNCHANGED lockRest PROVE Lock!TypeOK'
  BY <1>1, <1>2, <1>3 DEF Lock!TypeOK, lockRest
<1>4. ASSUME NEW t \in Threads, NEW p \in Lock!Points, pc' = [pc EXCEPT ![t] = p]
      PROVE  pc' \in [Lock!Tasks -> Lock!Points]
  BY <1>2, <1>4
<1>points. {"run", "down", "woken", "own", "up"} \subseteq Lock!Points
  BY DEF Lock!Points
<1>5. ASSUME NEW t \in Threads, InLock(t) PROVE Lock!TypeOK'
  <2>1. CASE Lock!SemaDownBlock(t)
    <3>1. /\ blockedList' = Append(blockedList, t) /\ pc' = [pc EXCEPT ![t] = "woken"]
          /\ UNCHANGED <<value, waitingList, holder, repeat>>
      BY <2>1 DEF Lock!SemaDownBlock, Lock!Goto
    <3>2. blockedList' \in Seq(Threads)
      BY <1>2, <3>1
    <3>3. pc' \in [Lock!Tasks -> Lock!Points]
      BY <1>4, <1>points, <3>1
    <3>4. QED
      BY <1>1, <1>2, <3>1, <3>2, <3>3 DEF Lock!TypeOK
  <2>2. CASE Lock!SemaDownTake(t)
    <3>1. /\ value # 0 /\ value' = value - 1 /\ pc' = [pc EXCEPT ![t] = "own"]
          /\ UNCHANGED <<blockedList, waitingList, holder, repeat>>
      BY <2>2 DEF Lock!SemaDownTake, Lock!Goto
    <3>2. value' \in {0, 1}
      BY <1>2, <3>1
    <3>3. pc' \in [Lock!Tasks -> Lock!Points]
      BY <1>4, <1>points, <3>1
    <3>4. QED
      BY <1>1, <1>2, <3>1, <3>2, <3>3 DEF Lock!TypeOK
  <2>3. CASE Lock!BecomeHolder(t)
    <3>1. /\ holder' = t /\ repeat' = 1 /\ pc' = [pc EXCEPT ![t] = "run"]
          /\ UNCHANGED <<value, blockedList, waitingList>>
      BY <2>3 DEF Lock!BecomeHolder, Lock!Goto
    <3>2. pc' \in [Lock!Tasks -> Lock!Points]
      BY <1>4, <1>points, <3>1
    <3>3. QED
      BY <1>1, <1>2, <3>1, <3>2 DEF Lock!TypeOK
  <2>4. CASE Lock!SemaUp(t)
    <3>1. /\ pc[t] = "up" /\ value' = value + 1 /\ pc' = [pc EXCEPT ![t] = "run"]
          /\ UNCHANGED <<waitingList, holder, repeat>>
      BY <2>4 DEF Lock!SemaUp, Lock!Goto
    <3>2. value' = 1
      BY <3>1, HolderAlone DEF Lock!Owns, Kept
    <3>3. pc' \in [Lock!Tasks -> Lock!Points]
      BY <1>4, <1>points, <3>1
    <3>4. blockedList' \in Seq(Threads)
      BY <2>4, LockUpKernel DEF Kept
    <3>5. QED
      BY <1>1, <1>2, <3>1, <3>2, <3>3, <3>4 DEF Lock!TypeOK
  <2>5. QED
    BY <1>5, <2>1, <2>2, <2>3, <2>4 DEF InLock
<1>6. ASSUME NEW t \in Threads, NEW r \in Requests, Call(t, r) PROVE Lock!TypeOK'
  <2>1. /\ pc' = [pc EXCEPT ![t] = "down"]
        /\ UNCHANGED <<value, blockedList, waitingList, holder, repeat>>
    BY <1>6, CallUse DEF Kept
  <2>2. pc' \in [Lock!Tasks -> Lock!Points]
    BY <1>4, <1>points, <2>1
  <2>3. QED
    BY <1>1, <1>2, <2>1, <2>2 DEF Lock!TypeOK
<1>7. ASSUME NEW t \in Threads, Unlock(t) PROVE Lock!TypeOK'
  <2>1. /\ holder' = NoThread /\ pc' = [pc EXCEPT ![t] = "up"] /\ repeat' = 0
        /\ UNCHANGED <<value, blockedList, waitingList>>
    BY <1>7, UnlockUse DEF Kept
  <2>2. pc' \in [Lock!Tasks -> Lock!Points]
    BY <1>4, <1>points, <2>1
  <2>3. QED
    BY <1>1, <1>2, <2>1, <2>2 DEF Lock!TypeOK
<1>8. ASSUME NEW t \in Threads,
             \/ Select(t) \/ Command(t) \/ Down(t) \/ Poll(t) \/ Sleep(t) \/ ReadData(t)
             \/ WriteData(t) \/ StartThread(t)
      PROVE  Lock!TypeOK'
  BY <1>3, <1>8 DEF Select, Command, Down, Poll, Sleep, ReadData, WriteData, StartThread,
     Lock!StartThread, Lock!lockVars, lockState, lockRest
<1>9. CASE DiskReady \/ DiskDone \/ intrHdHandler \/ TimerIntr \/ IdleLoop \/ UNCHANGED vars
  BY <1>3, <1>9 DEF DiskReady, DiskDone, intrHdHandler, TimerIntr, IdleLoop, Lock!IdleLoop,
     Lock!lockVars, vars, lockState, lockRest
<1>10. QED
  BY <1>5, <1>6, <1>7, <1>8, <1>9 DEF Next, Step

\* The request of nobody, and the disk without a command.
LEMMA NoRequestTyped ==
  /\ NoRequest \in Requests
  /\ IdleDisk \in [state: {"idle", "busy", "data", "flush"}, kind: {"read", "write"},
                   lba: Sectors, cnt: 1..Chunk]
  /\ NoBuf \in [Offsets -> Contents]
<1>1. 0 \in Sectors /\ 1 \in 1..MaxCnt /\ 1 \in 1..Chunk /\ 0 + 1 <= NSectors
  BY IdeAssumption DEF Sectors
<1>2. QED
  BY <1>1 DEF NoRequest, Requests, IdleDisk, NoBuf, Contents

\* A step of ide.c to another point of the call.
LEMMA OpTyped ==
  ASSUME DriverTyped, NEW t \in Threads, NEW p \in Points, op' = [op EXCEPT ![t] = p]
  PROVE  op' \in [Tasks -> Points]
BY DEF DriverTyped

\* The points by name.
LEMMA PointsAre ==
  {"call", "select", "command", "down", "asleep", "poll", "sleep", "data", "unlock"} = Points
BY DEF Points

\* The steps that move no data and make no command.
LEMMA PlainTyped ==
  ASSUME Kept, NEW t \in Threads,
         Select(t) \/ Poll(t) \/ Sleep(t) \/ InLock(t) \/ StartThread(t)
  PROVE  DriverTyped'
<1>1. DriverTyped
  BY TypedParts DEF Kept
<1>2. /\ UNCHANGED <<done, doneList, dev, irq, disk, req, buf, secsDone>>
      /\ op' = op \/ \E p \in Points : op' = [op EXCEPT ![t] = p]
      /\ expecting' = expecting \/ expecting' = TRUE
      /\ slept' = slept \/ slept' = [slept EXCEPT ![t] = FALSE]
      /\ tries' = tries \/ (tries[t] < MaxTries /\ tries' = [tries EXCEPT ![t] = @ + 1])
  BY PointsAre DEF Select, Poll, Sleep, InLock, StartThread, Goto, device, semaphore, call
<1>3. op' \in [Tasks -> Points]
  BY <1>1, <1>2, OpTyped DEF DriverTyped
<1>4. slept' \in [Threads -> BOOLEAN]
  BY <1>1, <1>2 DEF DriverTyped
<1>5. tries' \in [Threads -> 0..MaxTries]
  <2>1. CASE tries' = tries
    BY <1>1, <2>1 DEF DriverTyped
  <2>2. CASE tries[t] < MaxTries /\ tries' = [tries EXCEPT ![t] = @ + 1]
    <3>1. tries[t] \in 0..MaxTries /\ MaxTries \in Nat
      BY <1>1, IdeAssumption DEF DriverTyped
    <3>2. tries[t] + 1 \in 0..MaxTries
      BY <2>2, <3>1
    <3>3. QED
      BY <1>1, <2>2, <3>2 DEF DriverTyped
  <2>3. QED
    BY <1>2, <2>1, <2>2
<1>6. QED
  BY <1>1, <1>2, <1>3, <1>4, <1>5 DEF DriverTyped

\* A new request and its buffer.
LEMMA CallTyped ==
  ASSUME Kept, NEW t \in Threads, NEW r \in Requests, Call(t, r)
  PROVE  DriverTyped'
<1>1. DriverTyped
  BY TypedParts DEF Kept
<1> DEFINE b == IF r.kind = "read" THEN NoBuf ELSE [i \in Offsets |-> <<r.tag, i>>]
<1>2. /\ UNCHANGED <<done, doneList, expecting, dev, irq, disk, slept, tries>>
      /\ op' = [op EXCEPT ![t] = "select"] /\ req' = [req EXCEPT ![t] = r]
      /\ buf' = [buf EXCEPT ![t] = b] /\ secsDone' = [secsDone EXCEPT ![t] = 0]
  BY DEF Call, Goto, device, semaphore
<1>3. b \in [Offsets -> Contents]
  <2>1. CASE r.kind = "read"
    BY <2>1, NoRequestTyped
  <2>2. CASE r.kind # "read"
    <3>1. r.tag \in Tags
      BY <2>2 DEF Requests
    <3>2. \A i \in Offsets : <<r.tag, i>> \in Contents
      BY <3>1 DEF Contents
    <3>3. QED
      BY <2>2, <3>2
  <2>3. QED
    BY <2>1, <2>2
<1> HIDE DEF b
<1>4. op' \in [Tasks -> Points]
  BY <1>1, <1>2, OpTyped, PointsAre
<1>5. 0 \in 0..MaxCnt
  BY IdeAssumption
<1>6. QED
  BY <1>1, <1>2, <1>3, <1>4, <1>5 DEF DriverTyped

\* The end of a call.
LEMMA UnlockTyped ==
  ASSUME Kept, NEW t \in Threads, Unlock(t)
  PROVE  DriverTyped'
<1>1. DriverTyped
  BY TypedParts DEF Kept
<1>2. /\ UNCHANGED <<done, doneList, expecting, dev, irq, disk>>
      /\ op' = [op EXCEPT ![t] = "call"] /\ req' = [req EXCEPT ![t] = NoRequest]
      /\ buf' = [buf EXCEPT ![t] = NoBuf] /\ secsDone' = [secsDone EXCEPT ![t] = 0]
      /\ slept' = [slept EXCEPT ![t] = TRUE] /\ tries' = [tries EXCEPT ![t] = 0]
  BY DEF Unlock, Goto, device, semaphore
<1>3. op' \in [Tasks -> Points]
  BY <1>1, <1>2, OpTyped, PointsAre
<1>4. 0 \in 0..MaxCnt /\ 0 \in 0..MaxTries
  BY IdeAssumption
<1>5. QED
  BY <1>1, <1>2, <1>3, <1>4, NoRequestTyped DEF DriverTyped

\* The disk is given a command inside its size.
LEMMA CommandTyped ==
  ASSUME Kept, NEW t \in Threads, Command(t)
  PROVE  DriverTyped'
<1>1. DriverTyped
  BY TypedParts DEF Kept
<1> DEFINE p == IF req[t].kind = "read" THEN "down" ELSE "poll"
           new == [state |-> "busy", kind |-> req[t].kind, lba |-> req[t].lba + secsDone[t],
                   cnt |-> Count(Register(secsPerLoop(t)))]
<1>2. /\ UNCHANGED <<done, doneList, expecting, irq, disk, req, buf, secsDone, slept>>
      /\ op' = [op EXCEPT ![t] = p] /\ tries' = [tries EXCEPT ![t] = 0]
      /\ dev' = dev \/ dev' = new
  BY DEF Command, Goto, lockState, semaphore
<1>3. op[t] = "command" /\ DataAt(t)
  BY Inside, PointsAre DEF Kept, Command
<1>4. secsDone[t] < req[t].cnt
  BY <1>3 DEF DataAt
<1>5. /\ req[t].kind \in {"read", "write"} /\ req[t].lba \in Nat /\ secsDone[t] \in Nat
      /\ req[t].cnt \in Nat /\ req[t].lba + req[t].cnt <= NSectors /\ NSectors \in Nat
      /\ secsPerLoop(t) \in 1 .. Chunk /\ Count(Register(secsPerLoop(t))) = secsPerLoop(t)
  BY <1>4, RequestIs DEF Kept
<1>6. req[t].lba + secsDone[t] \in Sectors
  BY <1>4, <1>5 DEF Sectors
<1>7. new \in [state: {"idle", "busy", "data", "flush"}, kind: {"read", "write"},
               lba: Sectors, cnt: 1..Chunk]
  BY <1>5, <1>6
<1> HIDE DEF new
<1>8. p \in Points
  BY PointsAre
<1> HIDE DEF p
<1>9. op' \in [Tasks -> Points]
  BY <1>1, <1>2, <1>8, OpTyped
<1>10. 0 \in 0..MaxTries
  BY IdeAssumption
<1>11. QED
  BY <1>1, <1>2, <1>7, <1>9, <1>10 DEF DriverTyped

\* The semaphore and its list.
LEMMA DownTyped ==
  ASSUME Kept, NEW t \in Threads, Down(t)
  PROVE  DriverTyped'
<1>1. DriverTyped
  BY TypedParts DEF Kept
<1>2. /\ UNCHANGED <<expecting, dev, irq, disk, req, buf, secsDone, slept, tries>>
      /\ \E p \in Points : op' = [op EXCEPT ![t] = p]
      /\ doneList' = doneList \/ doneList' = Append(doneList, t)
      /\ done' = done \/ (done # 0 /\ done' = done - 1)
  <2>1. AfterDown(t) \in Points /\ "asleep" \in Points
    BY PointsAre DEF AfterDown
  <2>2. QED
    BY <2>1 DEF Down, Goto, device
<1>3. op' \in [Tasks -> Points]
  BY <1>1, <1>2, OpTyped
<1>4. doneList' \in Seq(Threads)
  <2>1. doneList \in Seq(Threads)
    BY <1>1 DEF DriverTyped
  <2>2. Append(doneList, t) \in Seq(Threads)
    BY <2>1
  <2>3. QED
    BY <1>2, <2>1, <2>2
<1>5. done' \in {0, 1}
  BY <1>1, <1>2 DEF DriverTyped
<1>6. QED
  BY <1>1, <1>2, <1>3, <1>4, <1>5 DEF DriverTyped

\* What a command of the holder moves lies on the disk and in the buffer.
LEMMA DataRange ==
  ASSUME Kept, NEW t \in Threads, At(t, "data")
  PROVE  /\ secsDone[t] + secsPerLoop(t) \in 0 .. MaxCnt
         /\ \A s \in Sectors : dev.lba <= s /\ s < dev.lba + dev.cnt
                                 => secsDone[t] + s - dev.lba \in Offsets
         /\ \A i \in Offsets : secsDone[t] <= i /\ i < secsDone[t] + dev.cnt
                                 => dev.lba + i - secsDone[t] \in Sectors
<1>1. op[t] = "data" /\ LinkAt(t) /\ DataAt(t)
  BY Inside, PointsAre DEF Kept
<1>2. Takes(t) /\ secsDone[t] < req[t].cnt
  BY <1>1 DEF LinkAt, DataAt
<1> DEFINE n == secsPerLoop(t)
           d == secsDone[t]
           l == req[t].lba
<1>3. /\ l \in Nat /\ d \in Nat /\ req[t].cnt \in Nat /\ l + req[t].cnt <= NSectors
      /\ NSectors \in Nat /\ n \in 1 .. Chunk /\ Chunk \in Nat /\ d + n <= req[t].cnt
      /\ req[t].cnt <= MaxCnt /\ MaxCnt \in Nat
  BY <1>2, RequestIs DEF Kept
<1>4. dev.lba = l + d /\ dev.cnt = n
  BY <1>2 DEF Takes
<1> HIDE DEF n, d, l
<1>5. d + n \in 0 .. MaxCnt
  BY <1>3
<1>6. \A s \in Sectors : l + d <= s /\ s < l + d + n => d + s - (l + d) \in Offsets
  BY <1>3 DEF Sectors, Offsets
<1>7. \A i \in Offsets : d <= i /\ i < d + n => l + d + i - d \in Sectors
  BY <1>3 DEF Sectors, Offsets
<1>8. QED
  BY <1>4, <1>5, <1>6, <1>7 DEF n, d, l

\* The data moved stay in the buffer and on the disk.
LEMMA DataTyped ==
  ASSUME Kept, NEW t \in Threads, ReadData(t) \/ WriteData(t)
  PROVE  DriverTyped'
<1>1. DriverTyped /\ dev \in [state: {"idle", "busy", "data", "flush"}, kind: {"read", "write"},
                              lba: Sectors, cnt: 1..Chunk]
  BY TypedParts DEF Kept, DriverTyped
<1>2. /\ At(t, "data") /\ UNCHANGED <<done, doneList, expecting, irq, req, slept, tries>>
      /\ \E p \in {"select", "unlock", "down"} : op' = [op EXCEPT ![t] = p]
      /\ secsDone' = [secsDone EXCEPT ![t] = @ + secsPerLoop(t)]
  BY DEF ReadData, WriteData, Goto, semaphore
<1>3. op' \in [Tasks -> Points]
  BY <1>1, <1>2, OpTyped, PointsAre
<1>4. secsDone' \in [Threads -> 0..MaxCnt]
  <2>1. secsDone[t] + secsPerLoop(t) \in 0..MaxCnt
    BY <1>2, DataRange
  <2>2. QED
    BY <1>1, <1>2, <2>1 DEF DriverTyped
<1>5. CASE ReadData(t)
  <2> DEFINE b == [i \in Offsets |->
                     IF secsDone[t] <= i /\ i < secsDone[t] + Count(Register(secsPerLoop(t)))
                        /\ i < secsDone[t] + dev.cnt
                     THEN disk[dev.lba + i - secsDone[t]] ELSE buf[t][i]]
  <2>1. dev' = IdleDisk /\ buf' = [buf EXCEPT ![t] = b] /\ disk' = disk
    BY <1>5 DEF ReadData
  <2>2. b \in [Offsets -> Contents]
    BY <1>1, <1>2, DataRange DEF DriverTyped
  <2> HIDE DEF b
  <2>3. QED
    BY <1>1, <1>2, <1>3, <1>4, <2>1, <2>2, NoRequestTyped DEF DriverTyped
<1>6. CASE WriteData(t)
  <2> DEFINE w == [s \in Sectors |-> IF dev.lba <= s /\ s < dev.lba + dev.cnt
                                     THEN buf[t][secsDone[t] + s - dev.lba] ELSE disk[s]]
  <2>1. dev' = [dev EXCEPT !.state = "flush"] /\ buf' = buf /\ disk' = w
    BY <1>6 DEF WriteData
  <2>2. w \in [Sectors -> Contents]
    BY <1>1, <1>2, DataRange DEF DriverTyped
  <2> HIDE DEF w
  <2>3. dev' \in [state: {"idle", "busy", "data", "flush"}, kind: {"read", "write"},
                  lba: Sectors, cnt: 1..Chunk]
    BY <1>1, <2>1
  <2>4. QED
    BY <1>1, <1>2, <1>3, <1>4, <2>1, <2>2, <2>3 DEF DriverTyped
<1>7. QED
  BY <1>5, <1>6

\* The disk, its interrupt, the timer and the idle loop.
LEMMA DeviceTyped ==
  ASSUME Kept, DiskReady \/ DiskDone \/ intrHdHandler \/ TimerIntr \/ IdleLoop \/ UNCHANGED vars
  PROVE  DriverTyped'
<1>1. DriverTyped /\ dev \in [state: {"idle", "busy", "data", "flush"}, kind: {"read", "write"},
                              lba: Sectors, cnt: 1..Chunk]
  BY TypedParts DEF Kept, DriverTyped
<1>2. CASE DiskReady \/ DiskDone
  <2>1. /\ UNCHANGED <<done, doneList, expecting, disk, op, req, buf, secsDone, slept, tries>>
        /\ dev' = IdleDisk \/ dev' = [dev EXCEPT !.state = "data"]
        /\ irq' \in BOOLEAN
    BY <1>1, <1>2 DEF DiskReady, DiskDone, semaphore, call, DriverTyped
  <2>2. dev' \in [state: {"idle", "busy", "data", "flush"}, kind: {"read", "write"},
                  lba: Sectors, cnt: 1..Chunk]
    BY <1>1, <2>1, NoRequestTyped
  <2>3. QED
    BY <1>1, <2>1, <2>2 DEF DriverTyped
<1>3. CASE intrHdHandler
  <2>1. /\ UNCHANGED <<dev, disk, op, req, buf, secsDone, slept, tries>>
        /\ irq' = FALSE /\ irq
        /\ expecting => expecting' = FALSE /\ done' = done + 1
        /\ ~expecting => expecting' = expecting /\ done' = done
    BY <1>3 DEF intrHdHandler, semaphore, call
  <2>2. doneList' \in Seq(Threads)
    BY <1>3, HandlerKernel DEF Kept
  <2>3. done' \in {0, 1}
    <3>1. CASE done = 0
      BY <1>1, <2>1, <3>1 DEF DriverTyped
    <3>2. CASE done # 0
      <4>1. /\ holder = NoThread => ~irq
            /\ \A t \in Threads : holder = t /\ op[t] \in Points \ {"call"} => ~irq
        BY <3>2, RequestIs DEF Kept, LinkInv, LinkAt, Link, Points
      <4>2. \A t \in Threads : holder = t => op[t] \in Points \ {"call"}
        BY <1>1 DEF Kept, LockUse, DriverTyped, Tasks
      <4>3. QED
        BY <2>1, <4>1, <4>2 DEF Kept, TypeOK, Lock!TypeOK
    <3>3. QED
      BY <3>1, <3>2
  <2>4. QED
    BY <1>1, <2>1, <2>2, <2>3 DEF DriverTyped
<1>4. CASE TimerIntr \/ IdleLoop \/ UNCHANGED vars
  BY <1>1, <1>4 DEF TimerIntr, IdleLoop, semaphore, device, call, vars, DriverTyped
<1>5. QED
  BY <1>2, <1>3, <1>4

\* Every step keeps the types.
LEMMA TypedStep == Kept /\ [Next]_vars => TypeOK'
<1> SUFFICES ASSUME Kept, [Next]_vars PROVE TypeOK'
  OBVIOUS
<1>1. Lock!TypeOK'
  BY LockTyped
<1>2. DriverTyped'
  BY PlainTyped, CallTyped, UnlockTyped, CommandTyped, DownTyped, DataTyped, DeviceTyped
     DEF Next, Step
<1>3. QED
  BY <1>1, <1>2, TypedParts

-----------------------------------------------------------------------------
(* The sleep in semaDown(diskDone) *)

\* Whoever sleeps there is the holder.
LEMMA SleeperHolds ==
  ASSUME Kept
  PROVE  \A u \in Threads : op[u] = "asleep" => holder = u
BY Others DEF Kept

\* A step that concerns no sleeper.
LEMMA SleepKept ==
  ASSUME SleepInv, UNCHANGED <<done, doneList>>,
         \A u \in Threads : /\ op'[u] = "asleep" <=> op[u] = "asleep"
                            /\ op[u] = "asleep" =>
                                 (sched'.status[u] = "BLOCKED" <=> sched.status[u] = "BLOCKED")
  PROVE  SleepInv'
BY DEF SleepInv

\* A thread that goes to sleep on diskDone is alone on its list.
LEMMA DownSleeps ==
  ASSUME Kept, SleepInv, NEW t \in Threads, Down(t)
  PROVE  SleepInv'
<1>1. PICK q \in {"down", "asleep"} : At(t, q)
  BY DEF Down
<1>2. /\ holder = t /\ op[t] = q /\ op \in [Tasks -> Points] /\ t \in Tasks
      /\ Lock!Running(t)
  BY <1>1, Inside, PointsAre DEF Kept, At
<1>3. sched.status[t] = "RUNNING"
  BY <1>2, Runs DEF Kept
<1>4. \A u \in Threads : u # t => op[u] # "asleep"
  BY <1>2, SleeperHolds
<1>5. CASE done = 0
  <2>1. op[t] # "asleep"
    BY <1>3, <1>5 DEF SleepInv
  <2>2. doneList = <<>>
    BY <1>4, <2>1 DEF SleepInv
  <2>3. /\ op' = [op EXCEPT ![t] = "asleep"] /\ done' = 0 /\ doneList' = Append(doneList, t)
        /\ sched'.status[t] = "BLOCKED"
    BY <1>5, DownKernel DEF Down, Goto, Kept
  <2>4. doneList' = <<t>>
    BY <2>2, <2>3
  <2>5. op'[t] = "asleep" /\ \A u \in Threads : u # t => op'[u] # "asleep"
    BY <1>2, <1>4, <2>3 DEF Tasks
  <2>6. QED
    BY <2>3, <2>4, <2>5 DEF SleepInv
<1>6. CASE done # 0
  <2>1. doneList = <<>>
    BY <1>6 DEF SleepInv
  <2>2. AfterDown(t) # "asleep"
    BY DEF AfterDown
  <2>3. op' = [op EXCEPT ![t] = AfterDown(t)] /\ doneList' = doneList
    BY <1>6 DEF Down, Goto
  <2>4. \A u \in Threads : op'[u] # "asleep"
    BY <1>2, <1>4, <2>2, <2>3 DEF Tasks
  <2>5. QED
    BY <2>1, <2>3, <2>4 DEF SleepInv
<1>7. QED
  BY <1>5, <1>6

\* The interrupt wakes the thread it is for.
LEMMA HandlerSleeps ==
  ASSUME Kept, SleepInv, intrHdHandler, LinkInv', TypeOK'
  PROVE  SleepInv'
<1> DEFINE k == Interrupted(sched)
<1>1. /\ Coherent(k) /\ k.status = sched.status
  BY HandlerKernel DEF Kept
<1>2. /\ expecting => /\ sched' = Asserted(done = 0, WakeFirst(k, doneList))
                      /\ doneList' = DropFirst(k, doneList) /\ done' = done + 1
      /\ ~expecting => sched' = k /\ doneList' = doneList /\ done' = done
      /\ op' = op
  BY DEF intrHdHandler, semaphore, call
<1> HIDE DEF k
<1>3. done \in {0, 1} /\ done' \in {0, 1} /\ expecting \in BOOLEAN
  BY DEF Kept, TypeOK
<1>4. CASE ~expecting
  BY <1>1, <1>2, <1>4, SleepKept
<1>5. CASE expecting
  <2>1. done = 0 /\ done' = 1
    BY <1>2, <1>3, <1>5
  <2>2. CASE \A t \in Threads : op[t] # "asleep"
    <3>1. doneList = <<>>
      BY <2>2 DEF SleepInv
    <3>2. doneList' = <<>>
      <4>1. BlockedAt(k, doneList) = {}
        BY <3>1 DEF BlockedAt
      <4>2. QED
        BY <1>2, <1>5, <4>1 DEF DropFirst
    <3>3. QED
      BY <1>2, <2>2, <3>2 DEF SleepInv
  <2>3. CASE \E t \in Threads : op[t] = "asleep"
    <3>1. PICK t \in Threads : op[t] = "asleep"
      BY <2>3
    <3>2. doneList = <<t>> /\ k.status[t] = "BLOCKED"
      BY <1>1, <2>1, <3>1 DEF SleepInv
    <3>3. \A u \in Threads : op[u] = "asleep" => u = t
      BY <3>1, SleeperHolds
    <3>4. BlockedAt(k, doneList) = {1}
      <4>1. DOMAIN doneList = {1} /\ doneList[1] = t
        BY <3>2
      <4>2. QED
        BY <3>2, <4>1 DEF BlockedAt
    <3>5. FirstBlocked(k, doneList) = 1
      BY <3>4 DEF FirstBlocked
    <3>6. WakeFirst(k, doneList) = ThreadUnblock(k, t)
      BY <3>2, <3>4, <3>5 DEF WakeFirst
    <3>7. doneList' = <<>>
      <4>1. doneList' = SubSeq(<<t>>, 1 + 1, Len(<<t>>))
        BY <1>2, <1>5, <3>2, <3>4, <3>5 DEF DropFirst
      <4>2. SubSeq(<<t>>, 1 + 1, Len(<<t>>)) = <<>>
        OBVIOUS
      <4>3. QED
        BY <4>1, <4>2
    <3>8. t \in Tasks /\ k.status[t] \in Asleep /\ k \in KernelState /\ ReadyExact(k) /\ ~k.panic
      BY <1>1, <3>2 DEF Tasks, Asleep, Coherent
    <3>9. ThreadUnblock(k, t).status = [k.status EXCEPT ![t] = "READY"]
      BY <3>8, UnblockEffect
    <3>10. sched' = ThreadUnblock(k, t)
      BY <1>2, <1>5, <2>1, <3>6 DEF Asserted
    <3>11. k.status \in [Tasks -> TaskStatus]
      BY <3>8 DEF KernelState
    <3>12. sched'.status[t] = "READY"
      BY <3>8, <3>9, <3>10, <3>11
    <3>13. QED
      BY <1>2, <2>1, <3>1, <3>3, <3>7, <3>12 DEF SleepInv
  <2>4. QED
    BY <2>2, <2>3
<1>6. QED
  BY <1>3, <1>4, <1>5

\* The lock's semaphore wakes and stops only threads that are not in ide.c.
LEMMA InLockSleeps ==
  ASSUME Kept, SleepInv, NEW t \in Threads, InLock(t)
  PROVE  SleepInv'
<1>1. UNCHANGED <<op, done, doneList>>
  BY DEF InLock, call, semaphore
<1>2. CASE Lock!SemaDownBlock(t)
  <2>1. op[t] # "asleep"
    BY <1>2 DEF Lock!SemaDownBlock, Kept, LockUse
  <2>2. \A u \in Threads : op[u] = "asleep" =>
                             (sched'.status[u] = "BLOCKED" <=> sched.status[u] = "BLOCKED")
    BY <1>2, <2>1, LockDownKernel DEF Kept
  <2>3. QED
    BY <1>1, <2>2, SleepKept
<1>3. CASE Lock!SemaDownTake(t) \/ Lock!BecomeHolder(t)
  <2>1. SameBlocked(sched, sched')
    BY <1>3, AssertKernel, StillKernel DEF Kept, Lock!BecomeHolder
  <2>2. QED
    BY <1>1, <2>1, SleepKept DEF SameBlocked
<1>4. CASE Lock!SemaUp(t)
  <2>1. pc[t] = "up" /\ Lock!Owns(t)
    BY <1>4 DEF Lock!SemaUp, Lock!Owns
  <2>2. \A u \in Threads : holder # u
    BY <2>1, HolderAlone DEF Kept, LockUse, Lock!Owns
  <2>3. \A u \in Threads : op[u] # "asleep"
    BY <2>2, SleeperHolds
  <2>4. QED
    BY <1>1, <2>3, SleepKept
<1>5. QED
  BY <1>2, <1>3, <1>4 DEF InLock

\* Every step.
LEMMA SleepsStep == Kept /\ SleepInv /\ LinkInv' /\ TypeOK' /\ [Next]_vars => SleepInv'
<1> SUFFICES ASSUME Kept, SleepInv, LinkInv', TypeOK', [Next]_vars PROVE SleepInv'
  OBVIOUS
<1>1. ASSUME NEW t \in Threads, NEW p, p # "asleep", op[t] # "asleep",
             op' = op \/ op' = [op EXCEPT ![t] = p],
             UNCHANGED <<done, doneList>>, SameBlocked(sched, sched')
      PROVE  SleepInv'
  <2>1. op \in [Tasks -> Points] /\ t \in Tasks
    BY DEF Kept, TypeOK, Tasks
  <2>2. \A u \in Threads : op'[u] = "asleep" <=> op[u] = "asleep"
    BY <1>1, <2>1 DEF Tasks
  <2>3. QED
    BY <1>1, <2>2, SleepKept DEF SameBlocked
<1>2. ASSUME NEW t \in Threads, Select(t) \/ Command(t) \/ ReadData(t) \/ WriteData(t)
      PROVE  SleepInv'
  <2>1. SameBlocked(sched, sched')
    BY <1>2, StillKernel DEF Kept, Select, Command, ReadData, WriteData, lockState
  <2>2. PICK p \in {"command", "down", "poll", "select", "unlock"} : op' = [op EXCEPT ![t] = p]
    BY <1>2 DEF Select, Command, ReadData, WriteData, Goto
  <2>3. op[t] # "asleep" /\ UNCHANGED <<done, doneList>>
    BY <1>2 DEF Select, Command, ReadData, WriteData, At, semaphore
  <2>4. QED
    BY <1>1, <2>1, <2>2, <2>3
<1>3. ASSUME NEW t \in Threads, Poll(t) \/ Sleep(t) \/ Unlock(t) PROVE SleepInv'
  <2>1. SameBlocked(sched, sched')
    BY <1>3, AssertKernel, RoundKernel DEF Kept
  <2>2. PICK p \in {"sleep", "data", "poll", "call"} : op' = op \/ op' = [op EXCEPT ![t] = p]
    BY <1>3 DEF Poll, Sleep, Unlock, Goto
  <2>3. op[t] # "asleep" /\ UNCHANGED <<done, doneList>>
    BY <1>3 DEF Poll, Sleep, Unlock, At, semaphore
  <2>4. QED
    BY <1>1, <2>1, <2>2, <2>3
<1>4. ASSUME NEW t \in Threads, NEW r \in Requests, Call(t, r) PROVE SleepInv'
  <2>1. /\ op' = [op EXCEPT ![t] = "select"] /\ op[t] = "call" /\ sched' = sched
        /\ UNCHANGED <<done, doneList>>
    BY <1>4, CallUse DEF Kept, Call, At, semaphore
  <2>2. SameBlocked(sched, sched')
    BY <2>1, StillKernel DEF Kept
  <2>3. QED
    BY <1>1, <2>1, <2>2
<1>5. ASSUME UNCHANGED <<op, done, doneList>>, SameBlocked(sched, sched') PROVE SleepInv'
  BY <1>5, SleepKept DEF SameBlocked
<1>6. ASSUME NEW t \in Threads, StartThread(t) PROVE SleepInv'
  BY <1>5, <1>6, StartKernel DEF Kept, StartThread, semaphore, call
<1>7. CASE TimerIntr \/ IdleLoop
  BY <1>5, <1>7, RoundKernel DEF Kept, TimerIntr, IdleLoop, semaphore, call
<1>8. CASE DiskReady \/ DiskDone \/ UNCHANGED vars
  BY <1>5, <1>8, StillKernel DEF Kept, DiskReady, DiskDone, vars, lockState, semaphore, call
<1>9. QED
  BY <1>2, <1>3, <1>4, <1>6, <1>7, <1>8, DownSleeps, InLockSleeps, HandlerSleeps DEF Next, Step

-----------------------------------------------------------------------------
(* The theorems *)

\* The driver as ideInit leaves it.
LEMMA IdeInit == Init => IdeInv
<1> SUFFICES ASSUME Init PROVE IdeInv
  OBVIOUS
<1>1. /\ sched = Lock!KernelInit /\ value = 1 /\ blockedList = <<>> /\ waitingList = <<>>
      /\ holder = NoThread /\ repeat = 0 /\ pc = [t \in Lock!Tasks |-> "run"]
      /\ done = 0 /\ doneList = <<>> /\ expecting = FALSE /\ dev = IdleDisk /\ irq = FALSE
      /\ disk = [s \in Sectors |-> <<0, 0>>]
      /\ op = [t \in Tasks |-> "call"] /\ req = [t \in Threads |-> NoRequest]
      /\ buf = [t \in Threads |-> NoBuf] /\ secsDone = [t \in Threads |-> 0]
      /\ slept = [t \in Threads |-> TRUE] /\ tries = [t \in Threads |-> 0]
  BY DEF Init, Lock!Init
<1>2. Coherent(sched)
  BY <1>1, KernelInitCoherent, LockOps
<1>3. sched \in Lock!KernelState
  BY <1>2, LockOps DEF Coherent
<1>4. Lock!TypeOK
  BY <1>1, <1>3 DEF Lock!TypeOK, Lock!Points
<1>5. DriverTyped
  <2>1. 0 \in 0..MaxCnt /\ 0 \in 0..MaxTries /\ <<0, 0>> \in Contents
    BY IdeAssumption DEF Contents, Offsets
  <2>2. op \in [Tasks -> Points] /\ doneList \in Seq(Threads)
    BY <1>1, PointsAre
  <2>3. /\ req \in [Threads -> Requests] /\ buf \in [Threads -> [Offsets -> Contents]]
        /\ secsDone \in [Threads -> 0..MaxCnt] /\ tries \in [Threads -> 0..MaxTries]
        /\ slept \in [Threads -> BOOLEAN]
    BY <1>1, <2>1, NoRequestTyped
  <2>4. disk \in [Sectors -> Contents]
    BY <1>1, <2>1
  <2>5. QED
    BY <1>1, <2>2, <2>3, <2>4, NoRequestTyped DEF DriverTyped
<1>6. TypeOK
  BY <1>4, <1>5, TypedParts
<1>7. SchedInv
  BY <1>2 DEF SchedInv
<1>8. Lock!Tasks = Tasks /\ Threads \subseteq Tasks /\ Idle \in Tasks /\ NoThread \notin Threads
  BY LockOps, IdeAssumption DEF Tasks
<1>9. \A t \in Threads : op[t] = "call" /\ pc[t] = "run" /\ holder # t
  BY <1>1, <1>8
<1>10. LockUse
  BY <1>1, <1>8, <1>9 DEF LockUse, Lock!MutualExclusion, Lock!Owns
<1>11. LinkInv
  BY <1>1, <1>9 DEF LinkInv, Link, IdleDisk
<1>12. DataInv
  <2>1. ASSUME NEW t \in Threads PROVE DataAt(t)
    <3>1. secsDone[t] = 0 /\ req[t].cnt = 1 /\ op[t] = "call"
      BY <1>1, <1>9 DEF NoRequest
    <3>2. secsDone[t] - 1 < 0 /\ \A i \in 0..(secsDone[t] - 1) : FALSE
      BY <3>1
    <3>3. QED
      BY <3>1, <3>2 DEF DataAt
  <2>2. QED
    BY <2>1 DEF DataInv
<1>13. SleepInv
  BY <1>1, <1>9 DEF SleepInv
<1>14. QED
  BY <1>6, <1>7, <1>10, <1>11, <1>12, <1>13 DEF IdeInv

\* Every step keeps the invariant.
LEMMA IdeStep == IdeInv /\ [Next]_vars => IdeInv'
<1> SUFFICES ASSUME IdeInv, [Next]_vars PROVE IdeInv'
  OBVIOUS
<1>1. Kept /\ SleepInv
  BY DEF IdeInv, Kept
<1>2. SchedInv'
  BY <1>1, KernelStep DEF Kept
<1>3. LockUse' /\ LinkInv' /\ DataInv'
  BY <1>1, LinksStep
<1>4. TypeOK'
  BY <1>1, TypedStep
<1>5. SleepInv'
  BY <1>1, <1>3, <1>4, SleepsStep
<1>6. QED
  BY <1>2, <1>3, <1>4, <1>5 DEF IdeInv

\* The inductive invariant of the driver: its types, a sound kernel state, the
\* use of the lock, one interrupt for each command, the data moved so far, and
\* the sleep on diskDone.
THEOREM IdeInvariant == Spec => []IdeInv
BY IdeInit, IdeStep, PTL DEF Spec

\* Whenever ideRead or ideWrite is done, buffer and disk agree on the whole
\* request, however it was cut into commands of at most 256 sectors.
THEOREM IdeRequestTransferred == Spec => []RequestTransferred
<1>1. IdeInv => RequestTransferred
  <2> SUFFICES ASSUME IdeInv, NEW t \in Threads, op[t] = "unlock"
               PROVE  /\ secsDone[t] = req[t].cnt
                      /\ \A i \in 0..(req[t].cnt - 1) : buf[t][i] = disk[req[t].lba + i]
    BY DEF RequestTransferred
  <2>1. DataAt(t)
    BY DEF IdeInv, DataInv
  <2>2. QED
    BY <2>1 DEF DataAt
<1>2. QED
  BY <1>1, IdeInvariant, PTL

\* A thread asleep in semaDown(diskDone) is alone there and its interrupt is to
\* come: neither taken by another command nor sent before it slept.
THEOREM IdeInterruptToCome == Spec => []InterruptToCome
<1>1. IdeInv => InterruptToCome
  <2> SUFFICES ASSUME IdeInv, NEW t \in Threads, op[t] = "asleep", sched.status[t] = "BLOCKED"
               PROVE  /\ doneList = <<t>> /\ expecting
                      /\ irq \/ dev.state = "busy" \/ dev.state = "flush"
    BY DEF InterruptToCome
  <2>1. done = 0 /\ doneList = <<t>>
    BY DEF IdeInv, SleepInv
  <2>2. Kept
    BY DEF IdeInv, Kept
  <2>3. LinkAt(t)
    BY <2>2, SleeperHolds DEF Kept, LinkInv
  <2>4. req[t].kind \in {"read", "write"}
    BY <2>2, RequestIs DEF Kept
  <2>5. Link \in {<<"busy", FALSE, TRUE, 0>>, <<"data", TRUE, TRUE, 0>>,
                  <<"flush", FALSE, TRUE, 0>>, <<"idle", TRUE, TRUE, 0>>}
    <3>1. Link # <<"data", FALSE, FALSE, 1>> /\ Link # <<"idle", FALSE, FALSE, 1>>
      BY <2>1 DEF Link
    <3>2. QED
      BY <2>3, <2>4, <3>1 DEF LinkAt
  <2>6. QED
    BY <2>1, <2>5 DEF Link
<1>2. QED
  BY <1>1, IdeInvariant, PTL

\* One step of OnlyRequestedSectors.
RequestedOnly ==
  \A s \in Sectors :
    disk'[s] # disk[s] =>
      \E r \in {req[sched.cur]} : r.kind = "write" /\ r.lba <= s /\ s < r.lba + r.cnt

\* Only the holder's own write, inside its request, changes the disk.
LEMMA DiskStep == IdeInv /\ [Next]_vars => RequestedOnly
<1> SUFFICES ASSUME IdeInv, [Next]_vars, NEW s \in Sectors, disk'[s] # disk[s]
             PROVE  \E r \in {req[sched.cur]} :
                      r.kind = "write" /\ r.lba <= s /\ s < r.lba + r.cnt
  BY DEF RequestedOnly
<1>1. PICK t \in Threads : WriteData(t)
  <2>1. disk' # disk
    OBVIOUS
  <2>2. CASE Next
    <3>1. ASSUME NEW t \in Threads, Step(t) PROVE WriteData(t)
      BY <2>1, <3>1 DEF Step, Select, Command, Down, Poll, Sleep, ReadData, Unlock, InLock, device
    <3>2. QED
      BY <2>1, <2>2, <3>1 DEF Next, StartThread, Call, DiskReady, DiskDone, intrHdHandler,
         TimerIntr, IdleLoop, device
  <2>3. CASE UNCHANGED vars
    BY <2>1, <2>3 DEF vars, device
  <2>4. QED
    BY <2>2, <2>3
<1>2. /\ At(t, "data") /\ req[t].kind = "write"
      /\ disk' = [x \in Sectors |-> IF dev.lba <= x /\ x < dev.lba + dev.cnt
                                     THEN buf[t][secsDone[t] + x - dev.lba] ELSE disk[x]]
  BY <1>1 DEF WriteData
<1>3. Kept /\ TypeOK
  BY DEF IdeInv, Kept
<1>4. op[t] = "data" /\ LinkAt(t) /\ DataAt(t) /\ sched.cur = t
  BY <1>2, <1>3, Inside, PointsAre DEF Kept, At, Lock!Running
<1>5. Takes(t) /\ secsDone[t] < req[t].cnt
  BY <1>4 DEF LinkAt, DataAt
<1>6. /\ req[t].lba \in Nat /\ secsDone[t] \in Nat /\ req[t].cnt \in Nat
      /\ secsPerLoop(t) \in 1 .. Chunk /\ secsDone[t] + secsPerLoop(t) <= req[t].cnt
  BY <1>3, <1>5, RequestIs
<1>7. dev.lba = req[t].lba + secsDone[t] /\ dev.cnt = secsPerLoop(t)
  BY <1>5 DEF Takes
<1>8. dev.lba <= s /\ s < dev.lba + dev.cnt
  BY <1>2
<1>9. Chunk \in Nat /\ NSectors \in Nat /\ s \in Nat
  BY IdeAssumption DEF Sectors
<1>10. req[t].lba <= s /\ s < req[t].lba + req[t].cnt
  BY <1>6, <1>7, <1>8, <1>9
<1>11. QED
  BY <1>2, <1>4, <1>10

\* A write changes the sectors of its request and no others, whoever else has
\* the lock, waits for it or is interrupted meanwhile.
THEOREM IdeOnlyRequestedSectors == Spec => OnlyRequestedSectors
<1>1. OnlyRequestedSectors <=> [][RequestedOnly]_vars
  BY PTL DEF OnlyRequestedSectors, RequestedOnly
<1>2. QED
  BY <1>1, DiskStep, IdeInvariant, PTL DEF Spec
=============================================================================
