---------------------------- MODULE ProcessProofs ----------------------------
(***************************************************************************)
(* Processes: fork, wait, exit and the pids, for every set of tasks.       *)
(***************************************************************************)
EXTENDS Process, ThreadProofs, FiniteSetTheorems

-----------------------------------------------------------------------------
(* Lists *)

\* Removing one element of a list without repetition (listRemove).
LEMMA RemoveList ==
  ASSUME NEW S, NEW s \in Seq(S), IsInjective(s), NEW e, Contains(s, e)
  PROVE  LET r == RemoveAt(s, CHOOSE i \in DOMAIN s : s[i] = e)
         IN  /\ r \in Seq(S)
             /\ IsInjective(r)
             /\ \A x : Contains(r, x) <=> x # e /\ Contains(s, x)
<1> DEFINE i == CHOOSE j \in DOMAIN s : s[j] = e
           r == RemoveAt(s, i)
<1>1. i \in 1 .. Len(s) /\ s[i] = e
  BY DEF Contains
<1> HIDE DEF i
<1>2. Len(s) \in Nat /\ i \in Nat
  BY <1>1
<1>3. /\ SubSeq(s, 1, i - 1) \in Seq(S) /\ Len(SubSeq(s, 1, i - 1)) = i - 1
      /\ \A j \in 1 .. i - 1 : SubSeq(s, 1, i - 1)[j] = s[j]
  BY <1>1, <1>2
<1>4. /\ SubSeq(s, i + 1, Len(s)) \in Seq(S) /\ Len(SubSeq(s, i + 1, Len(s))) = Len(s) - i
      /\ \A j \in 1 .. Len(s) - i : SubSeq(s, i + 1, Len(s))[j] = s[i + j]
  BY <1>1, <1>2
<1> DEFINE a == SubSeq(s, 1, i - 1)
           b == SubSeq(s, i + 1, Len(s))
<1> HIDE DEF a, b
<1>5. /\ r = a \o b
      /\ a \in Seq(S) /\ b \in Seq(S) /\ Len(a) = i - 1 /\ Len(b) = Len(s) - i
      /\ \A j \in 1 .. i - 1 : a[j] = s[j]
      /\ \A j \in 1 .. Len(s) - i : b[j] = s[i + j]
  BY <1>3, <1>4 DEF a, b, RemoveAt
<1> HIDE DEF r
<1>6. /\ r \in Seq(S) /\ Len(r) = Len(s) - 1
      /\ \A j \in 1 .. Len(s) - 1 : r[j] = IF j < i THEN s[j] ELSE s[j + 1]
  <2>1. /\ a \o b \in Seq(S) /\ Len(a \o b) = Len(a) + Len(b)
        /\ \A j \in 1 .. Len(a) + Len(b) :
             (a \o b)[j] = IF j <= Len(a) THEN a[j] ELSE b[j - Len(a)]
    BY <1>5, ConcatProperties
  <2>2. r \in Seq(S) /\ Len(r) = Len(s) - 1
    BY <1>1, <1>2, <1>5, <2>1
  <2>3. ASSUME NEW j \in 1 .. Len(s) - 1 PROVE r[j] = IF j < i THEN s[j] ELSE s[j + 1]
    <3>1. r[j] = IF j <= i - 1 THEN a[j] ELSE b[j - (i - 1)]
      BY <1>1, <1>2, <1>5, <2>1
    <3>2. CASE j < i
      BY <1>2, <1>5, <3>1, <3>2
    <3>3. CASE ~(j < i)
      <4>1. j - (i - 1) \in 1 .. Len(s) - i /\ i + (j - (i - 1)) = j + 1
        BY <1>1, <1>2, <3>3
      <4>2. b[j - (i - 1)] = s[i + (j - (i - 1))]
        BY <1>5, <4>1
      <4>3. QED
        BY <1>2, <3>1, <3>3, <4>1, <4>2
    <3>4. QED
      BY <3>2, <3>3
  <2>4. QED
    BY <2>2, <2>3
<1>7. IsInjective(r)
  <2>1. SUFFICES ASSUME NEW j \in 1 .. Len(s) - 1, NEW l \in 1 .. Len(s) - 1, r[j] = r[l]
                 PROVE  j = l
    BY <1>6 DEF IsInjective
  <2> DEFINE old(n) == IF n < i THEN n ELSE n + 1
  <2>2. old(j) \in 1 .. Len(s) /\ old(l) \in 1 .. Len(s)
    BY <1>2
  <2>3. s[old(j)] = s[old(l)]
    BY <1>6, <2>1
  <2>4. old(j) = old(l)
    BY <2>2, <2>3 DEF IsInjective
  <2>5. QED
    BY <1>2, <2>4
<1>8. ASSUME NEW x, Contains(r, x) PROVE x # e /\ Contains(s, x)
  <2>1. PICK j \in 1 .. Len(s) - 1 : r[j] = x
    BY <1>6, <1>8 DEF Contains
  <2>2. PICK l \in 1 .. Len(s) : l # i /\ s[l] = x
    BY <1>1, <1>2, <1>6, <2>1
  <2>3. QED
    BY <1>1, <2>2 DEF IsInjective, Contains
<1>9. ASSUME NEW x, x # e, Contains(s, x) PROVE Contains(r, x)
  <2>1. PICK l \in 1 .. Len(s) : l # i /\ s[l] = x
    BY <1>1, <1>9 DEF Contains
  <2>2. CASE l < i
    <3>1. l \in 1 .. Len(s) - 1 /\ r[l] = x
      BY <1>1, <1>2, <1>6, <2>1, <2>2
    <3>2. QED
      BY <1>6, <3>1 DEF Contains
  <2>3. CASE l > i
    <3>1. l - 1 \in 1 .. Len(s) - 1 /\ ~(l - 1 < i) /\ (l - 1) + 1 = l
      BY <1>1, <1>2, <2>1, <2>3
    <3>2. r[l - 1] = x
      BY <1>6, <2>1, <3>1
    <3>3. QED
      BY <1>6, <3>1, <3>2 DEF Contains
  <2>4. QED
    BY <1>2, <2>1, <2>2, <2>3
<1>10. QED
  BY <1>6, <1>7, <1>8, <1>9 DEF r, i

\* listTraversal finds a task of S if there is one on the list, and one only.
LEMMA FirstTaskIs ==
  ASSUME TaskInv, NEW S \in SUBSET Tasks
  PROVE  /\ FirstTask(S) \subseteq {u \in S : Alive(u)}
         /\ FirstTask(S) = {} <=> \A u \in S : ~Alive(u)
         /\ \A u, v \in FirstTask(S) : u = v
<1> DEFINE Found == {j \in DOMAIN allList : allList[j] \in S}
           First == {j \in Found : \A l \in 1 .. j - 1 : allList[l] \notin S}
<1>1. /\ allList \in Seq(Tasks)
      /\ \A u \in Tasks : Contains(allList, u) <=> Alive(u)
  BY DEF TaskInv
<1>2. FirstTask(S) = {allList[i] : i \in First}
  BY DEF FirstTask
<1>3. FirstTask(S) \subseteq {u \in S : Alive(u)}
  BY <1>1, <1>2 DEF Contains
<1>4. ASSUME NEW u \in S, Alive(u) PROVE FirstTask(S) # {}
  <2>1. Found # {} /\ Found \subseteq Nat
    BY <1>1, <1>4 DEF Contains
  <2>2. PICK n \in Found : \A m \in Found : n <= m
    <3> HIDE DEF Found
    <3>1. QED
      BY <2>1, Smallest
  <2>3. n \in First
    BY <1>1, <2>2
  <2>4. QED
    BY <1>2, <2>3
<1>5. \A i, j \in First : i = j
  BY <1>1
<1>6. QED
  BY <1>2, <1>3, <1>4, <1>5

-----------------------------------------------------------------------------
(* What the system calls do to the kernel state *)

\* The task that executes is a thread, RUNNING, in a sound kernel state.
LEMMA Acting ==
  ASSUME TaskInv, NEW t \in Threads, Running(t)
  PROVE  /\ Coherent(sched) /\ sched \in KernelState /\ ~sched.panic
         /\ IsInjective(waitingList)
         /\ sched.cur = t /\ t \in Tasks /\ t # Idle
         /\ sched.status[t] = "RUNNING"
<1>1. Coherent(sched) /\ IsInjective(waitingList) /\ sched.cur = t /\ t \in Tasks
  BY DEF TaskInv, Running, Tasks
<1>2. QED
  BY <1>1, SchedulerAssumption DEF Coherent, RunningIsCur

\* sysFork makes the child READY; only the length of the name can stop it.
LEMMA ForkEffect ==
  ASSUME TaskInv, NEW t \in Threads, NEW u \in Threads, SysFork(t, u)
  PROVE  /\ Running(t) /\ sched.status[u] = "DIED" /\ u # Idle /\ u # t
         /\ sched' \in KernelState
         /\ sched'.status = [sched.status EXCEPT ![u] = "READY"]
         /\ sched'.panic <=> ~(nameLen[t] < NameRoom)
         /\ ~sched'.panic => Coherent(sched')
<1> DEFINE k == ThreadStart(sched, u)
<1>1. /\ Running(t) /\ sched.status[u] = "DIED" /\ u \in Tasks
      /\ sched' = Asserted(nameLen[t] < NameRoom, k)
  BY DEF SysFork, Forks, Calls, CopyProcess, Tasks
<1>2. Coherent(sched) /\ sched \in KernelState /\ sched.status[t] = "RUNNING"
  BY <1>1, Acting
<1>3. Coherent(k) /\ k \in KernelState
  BY <1>1, <1>2, StartCoherent DEF Coherent
<1>4. k.status = [sched.status EXCEPT ![u] = "READY"]
  BY <1>1, <1>2 DEF ThreadStart, InReady, Coherent, ReadyExact, KernelState
<1> HIDE DEF k
<1>5. /\ sched' = IF nameLen[t] < NameRoom THEN k ELSE [k EXCEPT !.panic = TRUE]
      /\ ~k.panic
  BY <1>1, <1>3 DEF Asserted, Panicked, Coherent
<1>6. /\ sched' \in KernelState /\ sched'.status = k.status
      /\ sched'.panic <=> ~(nameLen[t] < NameRoom)
  BY <1>3, <1>5 DEF KernelState
<1>7. QED
  BY <1>1, <1>2, <1>3, <1>4, <1>5, <1>6, SchedulerAssumption

\* the three ways through sysWait
Reaps(t, u) ==
  /\ sched.status[u] = "HANGING" /\ parentPid[u] = pid[t]
  /\ sched' = Retire(sched, u)
  /\ allList' = RemoveAt(allList, CHOOSE i \in DOMAIN allList : allList[i] = u)
  /\ pidMap' = pidMap \ {pid[u]}
  /\ WaitReturns(t)

Child(u, t) == Alive(u) /\ parentPid[u] = pid[t]

Waits(t) ==
  /\ \E u \in Tasks : Child(u, t)
  /\ \A u \in Tasks : parentPid[u] = pid[t] => sched.status[u] # "HANGING"
  /\ sched' = ThreadBlock(sched, "WAITING")
  /\ frame' = [frame EXCEPT ![t] = "wait"]
  /\ UNCHANGED <<allList, pidMap, prog>>

Childless(t) ==
  /\ \A u \in Tasks : ~Child(u, t)
  /\ WaitReturns(t)
  /\ UNCHANGED <<sched, allList, pidMap>>

\* What listTraversal finds for sysWait is what the processes are.
LEMMA WaitCases ==
  ASSUME TaskInv, NEW t \in Threads, SysWait(t)
  PROVE  /\ Running(t)
         /\ \/ frame[t] = "user" /\ prog[t] \in {"init", "run", "prog"}
            \/ frame[t] = "wait"
         /\ (\E u \in Threads : Reaps(t, u)) \/ Waits(t) \/ Childless(t)
         /\ UNCHANGED <<pid, parentPid, nameLen, chars, waitingList, failed>>
<1>1. /\ Running(t)
      /\ \/ frame[t] = "user" /\ prog[t] \in {"init", "run", "prog"}
         \/ frame[t] = "wait"
      /\ UNCHANGED <<pid, parentPid, nameLen, chars, waitingList, failed>>
  BY DEF SysWait, Calls, Resumes, kbd
<1>2. Coherent(sched)
  BY <1>1, Acting
<1> DEFINE Zombies == {u \in Tasks : parentPid[u] = pid[t] /\ sched.status[u] = "HANGING"}
           Children == {u \in Tasks : parentPid[u] = pid[t]}
<1>3. /\ findHangingChild(t) \subseteq {u \in Zombies : Alive(u)}
      /\ findHangingChild(t) = {} <=> \A u \in Zombies : ~Alive(u)
  <2>1. Zombies \in SUBSET Tasks /\ findHangingChild(t) = FirstTask(Zombies)
    BY DEF findHangingChild
  <2> HIDE DEF Zombies
  <2>2. QED
    BY <2>1, FirstTaskIs
<1>4. findChild(t) = {} <=> \A u \in Children : ~Alive(u)
  <2>1. Children \in SUBSET Tasks /\ findChild(t) = FirstTask(Children)
    BY DEF findChild
  <2> HIDE DEF Children
  <2>2. QED
    BY <2>1, FirstTaskIs
<1>5. CASE \E u \in findHangingChild(t) :
             /\ sched' = Retire(sched, u)
             /\ allList' = RemoveAt(allList, CHOOSE i \in DOMAIN allList : allList[i] = u)
             /\ pidMap' = pidMap \ {pid[u]}
             /\ WaitReturns(t)
  <2>1. PICK u \in findHangingChild(t) :
             /\ sched' = Retire(sched, u)
             /\ allList' = RemoveAt(allList, CHOOSE i \in DOMAIN allList : allList[i] = u)
             /\ pidMap' = pidMap \ {pid[u]}
             /\ WaitReturns(t)
    BY <1>5
  <2>2. u \in Tasks /\ sched.status[u] = "HANGING" /\ parentPid[u] = pid[t]
    BY <1>3
  <2>3. u \in Threads
    BY <1>2, <2>2 DEF Coherent, Tasks
  <2>4. QED
    BY <1>1, <2>1, <2>2, <2>3 DEF Reaps
<1>6. CASE /\ findHangingChild(t) = {}
           /\ findChild(t) # {}
           /\ sched' = ThreadBlock(sched, "WAITING")
           /\ frame' = [frame EXCEPT ![t] = "wait"]
           /\ UNCHANGED <<allList, pidMap, prog>>
  BY <1>1, <1>3, <1>4, <1>6 DEF Waits, Child, Alive
<1>7. CASE /\ findChild(t) = {}
           /\ WaitReturns(t)
           /\ UNCHANGED <<sched, allList, pidMap>>
  BY <1>1, <1>4, <1>7 DEF Childless, Child
<1>8. QED
  BY <1>5, <1>6, <1>7 DEF SysWait

\* threadBlock of the running thread, in a form the invariants need.
LEMMA SleepEffect ==
  ASSUME NEW k, Coherent(k), NEW t \in Threads, k.cur = t, NEW st \in Asleep
  PROVE  /\ Coherent(ThreadBlock(k, st)) /\ ThreadBlock(k, st) \in KernelState
         /\ ThreadBlock(k, st).status[t] = st
         /\ SameSleep(k, ThreadBlock(k, st), Threads \ {t})
<1>1. k.cur # Idle
  BY SchedulerAssumption
<1>2. QED
  BY <1>1, BlockCoherent, BlockSleep DEF Coherent

\* What sysExit does when it finds its parent p.
Exits(t, p) ==
  /\ Alive(p) /\ pid[p] = parentPid[t]
  /\ Coherent(sched')
  /\ sched'.status[t] = "HANGING"
  /\ SameSleep(sched, sched', Threads \ {t, p})
  /\ IF sched.status[p] = "WAITING" THEN p \in Threads \ {t} /\ sched'.status[p] \in Awake
                                    ELSE SameSleep(sched, sched', Threads \ {t})

\* sysExit wakes the parent it finds, or panics.
LEMMA ExitEffect ==
  ASSUME TaskInv, NEW t \in Threads, SysExit(t)
  PROVE  /\ Running(t) /\ frame[t] = "user" /\ prog[t] = "prog"
         /\ parentPid' = initAdoptChild(t)
         /\ UNCHANGED <<allList, pid, pidMap, nameLen, prog, frame, chars, waitingList, failed>>
         /\ \/ /\ sched' = Panicked(sched)
               /\ \/ parentPid[t] = NoParent
                  \/ \A p \in Tasks : Alive(p) => pid[p] # parentPid[t]
            \/ \E p \in Tasks : Exits(t, p)
<1> DEFINE parent == pidToThread(parentPid[t])
           k == WakeParent(sched, t)
<1>1. /\ Running(t) /\ frame[t] = "user" /\ prog[t] = "prog"
      /\ parentPid' = initAdoptChild(t)
      /\ UNCHANGED <<allList, pid, pidMap, nameLen, prog, frame, chars, waitingList, failed>>
      /\ sched' = IF k.panic THEN k ELSE ThreadBlock(k, "HANGING")
  BY DEF SysExit, Calls, kbd
<1>2. /\ Coherent(sched) /\ sched \in KernelState /\ ~sched.panic /\ sched.cur = t
      /\ t \in Tasks /\ sched.status[t] = "RUNNING"
  BY <1>1, Acting
<1> DEFINE Named == {u \in Tasks : pid[u] = parentPid[t]}
<1>3. /\ parent \subseteq {u \in Named : Alive(u)}
      /\ parent = {} <=> \A u \in Named : ~Alive(u)
      /\ \A u, v \in parent : u = v
  <2>1. Named \in SUBSET Tasks /\ parent = FirstTask(Named)
    BY DEF pidToThread
  <2> HIDE DEF Named, parent
  <2>2. QED
    BY <2>1, FirstTaskIs
<1> HIDE DEF parent
<1>4. CASE parentPid[t] = NoParent \/ parent = {}
  <2>none. parent = {}
    <3>1. parentPid[t] = NoParent => \A u \in Named : FALSE
      BY DEF TaskInv, NoParent
    <3>2. QED
      BY <1>3, <1>4, <3>1
  <2>1. k = Panicked(sched)
    BY <1>4, <2>none DEF WakeParent, parent
  <2>2. k.panic
    BY <1>2, <2>1 DEF Panicked, KernelState
  <2>3. QED
    BY <1>1, <1>3, <1>4, <2>1, <2>2
<1>5. CASE /\ ~(parentPid[t] = NoParent \/ parent = {})
           /\ \E u \in parent : sched.status[u] = "WAITING"
  <2>1. PICK p \in parent : sched.status[p] = "WAITING"
    BY <1>5
  <2>2. /\ p \in Tasks /\ Alive(p) /\ pid[p] = parentPid[t] /\ p # t
        /\ (CHOOSE u \in parent : TRUE) = p
    BY <1>2, <1>3, <2>1
  <2>3. k = ThreadUnblock(sched, p)
    BY <1>5, <2>2 DEF WakeParent, parent
  <2>4. p \in Threads
    BY <1>2, <2>1, <2>2 DEF Coherent, Tasks
  <2>5. sched.status[p] \in Asleep /\ ReadyExact(sched)
    BY <1>2, <2>1 DEF Asleep, Coherent
  <2>6. /\ Coherent(k) /\ k.cur = t /\ k.status = [sched.status EXCEPT ![p] = "READY"]
    <3> DEFINE n == ThreadUnblock(sched, p)
    <3> HIDE DEF n
    <3>1. Coherent(n)
      BY <1>2, <2>2, <2>5, UnblockKeeps DEF n
    <3>2. n.cur = t /\ n.status = [sched.status EXCEPT ![p] = "READY"]
      BY <1>2, <2>2, <2>5, UnblockEffect DEF n
    <3>3. QED
      BY <2>3, <3>1, <3>2 DEF n
  <2> HIDE DEF k
  <2>7. sched' = ThreadBlock(k, "HANGING")
    BY <1>1, <2>6 DEF Coherent
  <2>8. /\ Coherent(sched') /\ sched'.status[t] = "HANGING"
        /\ SameSleep(k, sched', Threads \ {t})
    BY <2>6, <2>7, SleepEffect DEF Asleep
  <2>9. SameSleep(sched, sched', Threads \ {t, p}) /\ sched'.status[p] \in Awake
    BY <1>2, <2>2, <2>4, <2>6, <2>8 DEF SameSleep, KernelState, Awake, Tasks
  <2>10. Exits(t, p)
    BY <2>1, <2>2, <2>4, <2>8, <2>9 DEF Exits
  <2>11. QED
    BY <1>1, <2>2, <2>10
<1>6. CASE /\ ~(parentPid[t] = NoParent \/ parent = {})
           /\ ~\E u \in parent : sched.status[u] = "WAITING"
  <2>1. PICK p \in parent : sched.status[p] # "WAITING"
    BY <1>6
  <2>2. p \in Tasks /\ Alive(p) /\ pid[p] = parentPid[t]
    BY <1>3
  <2>3. k = sched
    BY <1>6 DEF WakeParent, parent
  <2>4. sched' = ThreadBlock(sched, "HANGING")
    BY <1>1, <1>2, <2>3
  <2>5. /\ Coherent(sched') /\ sched'.status[t] = "HANGING"
        /\ SameSleep(sched, sched', Threads \ {t})
    BY <1>2, <2>4, SleepEffect DEF Asleep
  <2>6. Exits(t, p)
    BY <2>1, <2>2, <2>5 DEF Exits, SameSleep
  <2>7. QED
    BY <1>1, <2>2, <2>6
<1>7. QED
  BY <1>4, <1>5, <1>6

\* Waking the whole list of readers: it works, or a task on it was not asleep.
LEMMA WakeReaders ==
  ASSUME NEW k, Coherent(k), waitingList \in Seq(Threads), IsInjective(waitingList)
  PROVE  LET n == WakeAll(k, waitingList)
             listed == \A u \in Threads : Contains(waitingList, u) => k.status[u] \in Asleep
         IN  /\ n \in KernelState
             /\ listed => /\ Coherent(n)
                          /\ n.status = [u \in Tasks |-> IF Contains(waitingList, u)
                                                         THEN "READY" ELSE k.status[u]]
             /\ ~listed => n = Panicked(k)
<1> DEFINE n == WakeAll(k, waitingList)
           listed == \A u \in Threads : Contains(waitingList, u) => k.status[u] \in Asleep
<1>1. k \in KernelState /\ waitingList \in Seq(Tasks)
  BY DEF Coherent, Tasks
<1>2. n \in KernelState
  BY <1>1, WakeAllTyped
<1>3. ASSUME listed
      PROVE  /\ Coherent(n)
             /\ n.status = [u \in Tasks |-> IF Contains(waitingList, u)
                                            THEN "READY" ELSE k.status[u]]
  BY <1>3, WakeAllEffect
<1>4. ASSUME ~listed PROVE n = Panicked(k)
  <2>1. \E i \in DOMAIN waitingList : k.status[waitingList[i]] \notin Asleep
    BY <1>4 DEF Contains
  <2>2. QED
    BY <2>1 DEF WakeAll
<1>5. QED
  BY <1>2, <1>3, <1>4

\* What sysRead does: it sleeps on the list, or wakes whoever is on it.
LEMMA ReadEffect ==
  ASSUME TaskInv, NEW t \in Threads, SysRead(t)
  PROVE  /\ Running(t)
         /\ UNCHANGED <<allList, pid, parentPid, pidMap, nameLen, prog, failed>>
         /\ \/ frame[t] = "user" /\ prog[t] \in {"shell", "prog"}
            \/ frame[t] = "read"
         /\ sched' \in KernelState
         /\ \/ /\ waitingList' = Append(waitingList, t)
               /\ frame' = [frame EXCEPT ![t] = "read"]
               /\ sched'.panic <=> Contains(waitingList, t)
               /\ ~sched'.panic => Coherent(sched')
               /\ sched'.status[Idle] # "DIED"
               /\ sched'.status[t] = "WAITING"
               /\ SameSleep(sched, sched', Threads \ {t})
            \/ /\ waitingList' = <<>>
               /\ frame' = [frame EXCEPT ![t] = "user"]
               /\ sched' = WakeAll(sched, waitingList)
<1>1. /\ Running(t)
      /\ UNCHANGED <<allList, pid, parentPid, pidMap, nameLen, prog, failed>>
      /\ \/ frame[t] = "user" /\ prog[t] \in {"shell", "prog"}
         \/ frame[t] = "read"
  BY DEF SysRead, Calls, Resumes, ids
<1>2. /\ Coherent(sched) /\ sched.cur = t /\ IsInjective(waitingList)
      /\ waitingList \in Seq(Threads)
  BY <1>1, Acting DEF TaskInv
<1>3. CASE chars = 0
  <2> DEFINE k == ThreadBlock(sched, "WAITING")
  <2>1. /\ Coherent(k) /\ k \in KernelState /\ k.status[t] = "WAITING"
        /\ SameSleep(sched, k, Threads \ {t})
    BY <1>2, SleepEffect DEF Asleep
  <2>2. /\ sched' = Asserted(~Contains(waitingList, t), k)
        /\ waitingList' = Append(waitingList, t)
        /\ frame' = [frame EXCEPT ![t] = "read"]
    BY <1>3 DEF SysRead
  <2> HIDE DEF k
  <2>3. sched' = IF ~Contains(waitingList, t) THEN k ELSE [k EXCEPT !.panic = TRUE]
    BY <2>2 DEF Asserted, Panicked
  <2>4. /\ sched' \in KernelState /\ sched'.status = k.status
        /\ sched'.panic <=> Contains(waitingList, t)
        /\ ~sched'.panic => sched' = k
    BY <2>1, <2>3 DEF KernelState, Coherent
  <2>5. sched'.status[Idle] # "DIED"
    BY <2>1, <2>4 DEF Coherent
  <2>6. QED
    BY <1>1, <2>1, <2>2, <2>4, <2>5 DEF SameSleep
<1>4. CASE chars # 0
  <2>1. /\ waitingList' = <<>>
        /\ frame' = [frame EXCEPT ![t] = "user"]
        /\ sched' = WakeAll(sched, waitingList)
    BY <1>4 DEF SysRead
  <2>2. sched' \in KernelState
    BY <1>2, <2>1, WakeReaders
  <2>3. QED
    BY <1>1, <2>1, <2>2
<1>5. QED
  BY <1>3, <1>4

-----------------------------------------------------------------------------
(* The task table *)

SameAlive == \A u \in Tasks : sched'.status[u] = "DIED" <=> sched.status[u] = "DIED"

\* A step that creates and ends no task.
LEMMA TableSame ==
  ASSUME TaskInv, SameAlive, UNCHANGED <<allList, pid, nameLen>>,
         sched' \in KernelState, waitingList' \in Seq(Threads),
         ~sched'.panic => Coherent(sched') /\ IsInjective(waitingList'),
         parentPid' \in [Tasks -> Int], pidMap' \subseteq 1 .. MaxPid,
         prog' \in [Tasks -> Progs], frame' \in [Tasks -> {"user", "wait", "read"}],
         failed' \in 0 .. MaxFailed
  PROVE  TaskInv'
<1>1. \A u \in Tasks : Contains(allList', u) <=> Alive(u)'
  BY DEF TaskInv, SameAlive, Alive
<1>2. QED
  BY <1>1 DEF TaskInv

\* sysFork puts the child at the end of threadAllList.
LEMMA ForkTable ==
  ASSUME TaskInv, NEW t \in Threads, NEW u \in Threads, SysFork(t, u),
         allocatePid \in 0 .. MaxPid
  PROVE  TaskInv'
<1>1. /\ Running(t) /\ sched.status[u] = "DIED" /\ u # Idle /\ u # t
      /\ sched' \in KernelState
      /\ sched'.status = [sched.status EXCEPT ![u] = "READY"]
      /\ ~sched'.panic => Coherent(sched')
  BY ForkEffect
<1>2. /\ allList' = Append(allList, u)
      /\ pid' = [pid EXCEPT ![u] = allocatePid]
      /\ parentPid' = [parentPid EXCEPT ![u] = pid[t]]
      /\ nameLen' = [nameLen EXCEPT ![u] = nameLen[t] + 5]
      /\ prog' = [prog EXCEPT ![t] = AfterFork(t), ![u] = ChildProg(t)]
      /\ frame' = [frame EXCEPT ![u] = "user"]
      /\ pidMap' = pidMap \cup ({allocatePid} \ {0})
      /\ UNCHANGED <<waitingList, failed>>
  BY DEF SysFork, CopyProcess, kbd
<1>3. u \in Tasks /\ t \in Tasks /\ IsInjective(waitingList)
  BY <1>1, Acting DEF Tasks
<1>4. /\ allList' \in Seq(Tasks) /\ IsInjective(allList')
      /\ \A x : Contains(allList', x) <=> x = u \/ Contains(allList, x)
  BY <1>1, <1>2, <1>3, AppendList DEF TaskInv, Alive
<1>5. \A x \in Tasks : Contains(allList', x) <=> Alive(x)'
  BY <1>1, <1>3, <1>4 DEF TaskInv, Alive, KernelState
<1>6. /\ AfterFork(t) \in Progs /\ ChildProg(t) \in Progs
  BY <1>3 DEF AfterFork, ChildProg, Progs, TaskInv
<1>7. /\ pid' \in [Tasks -> Nat] /\ parentPid' \in [Tasks -> Int]
      /\ nameLen' \in [Tasks -> Nat] /\ pidMap' \subseteq 1 .. MaxPid
      /\ prog' \in [Tasks -> Progs] /\ frame' \in [Tasks -> {"user", "wait", "read"}]
  <2>1. pid \in [Tasks -> Nat] /\ allocatePid \in Nat /\ pid[t] \in Int /\ nameLen[t] + 5 \in Nat
    BY <1>3, ProcessAssumption DEF TaskInv
  <2>2. pid' \in [Tasks -> Nat] /\ parentPid' \in [Tasks -> Int] /\ nameLen' \in [Tasks -> Nat]
    BY <1>2, <1>3, <2>1 DEF TaskInv
  <2>3. pidMap' \subseteq 1 .. MaxPid
    BY <1>2, ProcessAssumption DEF TaskInv
  <2>4. prog' \in [Tasks -> Progs] /\ frame' \in [Tasks -> {"user", "wait", "read"}]
    BY <1>2, <1>3, <1>6 DEF TaskInv
  <2>5. QED
    BY <2>2, <2>3, <2>4
<1>8. QED
  BY <1>1, <1>2, <1>3, <1>4, <1>5, <1>7 DEF TaskInv

\* bitMapScan finds a free pid if there is one.
LEMMA PidIs ==
  ASSUME pidMap \subseteq 1 .. MaxPid
  PROVE  /\ allocatePid \in 0 .. MaxPid
         /\ pidMap # 1 .. MaxPid => allocatePid \in (1 .. MaxPid) \ pidMap
<1> DEFINE free == (1 .. MaxPid) \ pidMap
<1>1. CASE free = {}
  <2>1. allocatePid = 0 /\ pidMap = 1 .. MaxPid
    BY <1>1 DEF allocatePid
  <2>2. QED
    BY <2>1, ProcessAssumption
<1>2. CASE free # {}
  <2>1. free \in SUBSET Nat
    OBVIOUS
  <2> HIDE DEF free
  <2>2. \E p \in free : \A q \in free : p <= q
    BY <1>2, <2>1, Smallest
  <2>3. allocatePid = CHOOSE p \in free : \A q \in free : p <= q
    BY <1>2 DEF allocatePid, free
  <2>4. allocatePid \in free
    BY <2>2, <2>3
  <2>5. QED
    BY <2>4, ProcessAssumption DEF free
<1>3. QED
  BY <1>1, <1>2

\* What sysWait returns to is a state of the program.
LEMMA ReturnsTyped ==
  ASSUME TaskInv, NEW t \in Tasks, WaitReturns(t)
  PROVE  prog' \in [Tasks -> Progs] /\ frame' \in [Tasks -> {"user", "wait", "read"}]
BY DEF WaitReturns, TaskInv, Progs

\* sysWait takes the child it reaps off threadAllList.
LEMMA ReapTable ==
  ASSUME TaskInv, NEW t \in Threads, SysWait(t), NEW u \in Threads, Reaps(t, u)
  PROVE  TaskInv' /\ Coherent(sched') /\ sched'.status = [sched.status EXCEPT ![u] = "DIED"]
<1>1. /\ Running(t)
      /\ UNCHANGED <<pid, parentPid, nameLen, chars, waitingList, failed>>
  BY WaitCases
<1>2. /\ Coherent(sched) /\ IsInjective(waitingList) /\ t \in Tasks /\ u \in Tasks
  BY <1>1, Acting DEF Tasks
<1>3. /\ sched.status[u] = "HANGING" /\ sched' = Retire(sched, u)
      /\ allList' = RemoveAt(allList, CHOOSE i \in DOMAIN allList : allList[i] = u)
      /\ pidMap' = pidMap \ {pid[u]} /\ WaitReturns(t)
  BY DEF Reaps
<1>4. Coherent(sched')
  BY <1>2, <1>3, RetireCoherent DEF Asleep
<1>5. sched'.status = [sched.status EXCEPT ![u] = "DIED"]
  BY <1>2, <1>3 DEF Retire, Coherent, KernelState
<1>6. Contains(allList, u)
  BY <1>2, <1>3 DEF TaskInv, Alive
<1>7. /\ allList' \in Seq(Tasks) /\ IsInjective(allList')
      /\ \A x : Contains(allList', x) <=> x # u /\ Contains(allList, x)
  BY <1>3, <1>6, RemoveList DEF TaskInv
<1>8. \A x \in Tasks : Contains(allList', x) <=> Alive(x)'
  BY <1>2, <1>5, <1>7 DEF TaskInv, Alive, KernelState
<1>9. QED
  BY <1>1, <1>2, <1>3, <1>4, <1>5, <1>7, <1>8, ReturnsTyped DEF TaskInv, Coherent

\* sysWait, whichever way it goes
LEMMA WaitTable ==
  ASSUME TaskInv, NEW t \in Threads, SysWait(t)
  PROVE  TaskInv'
<1>1. /\ Running(t)
      /\ (\E u \in Threads : Reaps(t, u)) \/ Waits(t) \/ Childless(t)
      /\ UNCHANGED <<pid, parentPid, nameLen, chars, waitingList, failed>>
  BY WaitCases
<1>2. /\ Coherent(sched) /\ IsInjective(waitingList) /\ t \in Tasks /\ sched.cur = t
      /\ sched.status[t] = "RUNNING"
  BY <1>1, Acting
<1>3. CASE Waits(t)
  <2>1. /\ Coherent(sched') /\ sched' \in KernelState /\ sched'.status[t] = "WAITING"
        /\ SameSleep(sched, sched', Threads \ {t})
    BY <1>2, <1>3, SleepEffect DEF Waits, Asleep
  <2>2. SameAlive
    BY <1>2, <2>1 DEF SameAlive, SameSleep, Awake, Coherent, Tasks
  <2>3. QED
    BY <1>1, <1>2, <1>3, <2>1, <2>2, TableSame DEF Waits, TaskInv
<1>4. CASE Childless(t)
  <2>1. SameAlive
    BY <1>4 DEF SameAlive, Childless
  <2>2. QED
    BY <1>1, <1>2, <1>4, <2>1, ReturnsTyped, TableSame DEF Childless, TaskInv
<1>5. QED
  BY <1>1, <1>3, <1>4, ReapTable

\* sysExit
LEMMA ExitTable ==
  ASSUME TaskInv, NEW t \in Threads, SysExit(t)
  PROVE  TaskInv' /\ SameAlive
<1>1. /\ Running(t)
      /\ parentPid' = initAdoptChild(t)
      /\ UNCHANGED <<allList, pid, pidMap, nameLen, prog, frame, chars, waitingList, failed>>
      /\ sched' = Panicked(sched) \/ \E p \in Tasks : Exits(t, p)
  BY ExitEffect
<1>2. /\ Coherent(sched) /\ sched \in KernelState /\ IsInjective(waitingList) /\ t \in Tasks
      /\ sched.status[t] = "RUNNING"
  BY <1>1, Acting
<1>3. parentPid' \in [Tasks -> Int]
  BY <1>1 DEF initAdoptChild, TaskInv
<1>4. CASE sched' = Panicked(sched)
  <2>1. sched' \in KernelState /\ sched'.status = sched.status /\ sched'.panic
    BY <1>2, <1>4 DEF Panicked, KernelState
  <2>2. QED
    BY <1>1, <1>2, <1>3, <2>1, TableSame DEF SameAlive, TaskInv
<1>5. CASE \E p \in Tasks : Exits(t, p)
  <2>1. PICK p \in Tasks : Exits(t, p)
    BY <1>5
  <2>2. SameAlive
    BY <1>2, <2>1 DEF Exits, SameAlive, SameSleep, Awake, Coherent, Tasks, Alive
  <2>3. sched' \in KernelState /\ Coherent(sched')
    BY <2>1 DEF Exits, Coherent
  <2>4. QED
    BY <1>1, <1>2, <1>3, <2>2, <2>3, TableSame DEF TaskInv
<1>6. QED
  BY <1>1, <1>4, <1>5

\* Waking the readers, for sysRead and the keyboard interrupt.
LEMMA WakeTable ==
  ASSUME TaskInv, NEW k, Coherent(k), k.status = sched.status, IsInjective(waitingList),
         sched' = WakeAll(k, waitingList), waitingList' = <<>>,
         UNCHANGED <<allList, pid, parentPid, pidMap, nameLen, prog, failed>>,
         frame' \in [Tasks -> {"user", "wait", "read"}]
  PROVE  TaskInv' /\ SameAlive
<1> DEFINE listed == \A u \in Threads : Contains(waitingList, u) => k.status[u] \in Asleep
<1>1. /\ sched' \in KernelState
      /\ listed => /\ Coherent(sched')
                   /\ sched'.status = [u \in Tasks |-> IF Contains(waitingList, u)
                                                       THEN "READY" ELSE k.status[u]]
      /\ ~listed => sched' = Panicked(k)
  BY WakeReaders DEF TaskInv
<1>2. CASE listed
  <2>1. \A u \in Tasks : Contains(waitingList, u) => u \in Threads
    BY DEF TaskInv, Contains
  <2>2. SameAlive
    BY <1>1, <1>2, <2>1 DEF SameAlive, Asleep
  <2>3. waitingList' \in Seq(Threads) /\ IsInjective(waitingList')
    BY DEF IsInjective
  <2>4. QED
    BY <1>1, <1>2, <2>2, <2>3, TableSame DEF TaskInv
<1>3. CASE ~listed
  <2>1. sched'.panic /\ sched'.status = sched.status
    BY <1>1, <1>3 DEF Panicked, Coherent, KernelState
  <2>2. waitingList' \in Seq(Threads)
    OBVIOUS
  <2>3. SameAlive
    BY <2>1 DEF SameAlive
  <2>4. QED
    BY <1>1, <2>1, <2>2, <2>3, TableSame DEF TaskInv
<1>4. QED
  BY <1>2, <1>3

\* sysRead
LEMMA ReadTable ==
  ASSUME TaskInv, NEW t \in Threads, SysRead(t)
  PROVE  TaskInv' /\ SameAlive
<1>1. /\ Running(t)
      /\ UNCHANGED <<allList, pid, parentPid, pidMap, nameLen, prog, failed>>
      /\ sched' \in KernelState
  BY ReadEffect
<1>2. /\ Coherent(sched) /\ IsInjective(waitingList) /\ t \in Tasks
      /\ sched.status[t] = "RUNNING"
  BY <1>1, Acting
<1>3. CASE /\ waitingList' = Append(waitingList, t)
           /\ frame' = [frame EXCEPT ![t] = "read"]
           /\ sched'.panic <=> Contains(waitingList, t)
           /\ ~sched'.panic => Coherent(sched')
           /\ sched'.status[Idle] # "DIED"
           /\ sched'.status[t] = "WAITING"
           /\ SameSleep(sched, sched', Threads \ {t})
  <2>1. SameAlive
    BY <1>2, <1>3 DEF SameAlive, SameSleep, Awake, Coherent, Tasks
  <2>2. waitingList \in Seq(Threads) /\ waitingList' \in Seq(Threads)
    BY <1>3 DEF TaskInv
  <2>3. ~sched'.panic => IsInjective(waitingList')
    BY <1>2, <1>3, <2>2, AppendList
  <2>4. QED
    BY <1>1, <1>3, <2>1, <2>2, <2>3, TableSame DEF TaskInv
<1>4. CASE /\ waitingList' = <<>>
           /\ frame' = [frame EXCEPT ![t] = "user"]
           /\ sched' = WakeAll(sched, waitingList)
  <2>1. frame' \in [Tasks -> {"user", "wait", "read"}]
    BY <1>4 DEF TaskInv
  <2>2. QED
    BY <1>1, <1>2, <1>4, <2>1, WakeTable
<1>5. QED
  BY <1>3, <1>4, ReadEffect

\* The interrupts and the idle thread move tasks between READY and RUNNING.
LEMMA BackgroundEffect ==
  ASSUME TaskInv, TimerIntr \/ IdleLoop
  PROVE  /\ Coherent(sched) /\ IsInjective(waitingList) /\ Coherent(sched')
         /\ SameSleep(sched, sched', Threads)
         /\ UNCHANGED <<ids, prog, frame, kbd, failed>>
<1>1. CASE TimerIntr
  <2> DEFINE i == Interrupted(sched)
  <2>1. Coherent(sched) /\ IsInjective(waitingList) /\ sched' = TimerTick(i)
        /\ UNCHANGED <<ids, prog, frame, kbd, failed>>
    BY <1>1 DEF TimerIntr, TaskInv
  <2>2. Coherent(i) /\ i.status = sched.status
    BY <2>1, InterruptedKeeps
  <2> HIDE DEF i
  <2>3. Coherent(sched') /\ SameSleep(i, sched', Threads)
    BY <2>1, <2>2, TickCoherent, TickSleep
  <2>4. QED
    BY <2>1, <2>2, <2>3 DEF SameSleep
<1>2. CASE IdleLoop
  <2>1. Coherent(sched) /\ IsInjective(waitingList) /\ sched.cur = Idle /\ sched.idle # "hlt"
        /\ sched' = IdleStep(sched) /\ UNCHANGED <<ids, prog, frame, kbd, failed>>
    BY <1>2 DEF IdleLoop, Running, TaskInv
  <2>2. QED
    BY <2>1, IdleCoherent, IdleSleep
<1>3. QED
  BY <1>1, <1>2

\* the table after them
LEMMA BackgroundTable ==
  ASSUME TaskInv, TimerIntr \/ IdleLoop \/ KeyIntr
  PROVE  TaskInv' /\ SameAlive
<1>1. CASE TimerIntr \/ IdleLoop
  <2>1. /\ Coherent(sched) /\ IsInjective(waitingList) /\ Coherent(sched')
        /\ SameSleep(sched, sched', Threads)
        /\ UNCHANGED <<ids, prog, frame, kbd, failed>>
    BY <1>1, BackgroundEffect
  <2>2. SameAlive
    BY <2>1 DEF SameAlive, SameSleep, Awake, Coherent, Tasks
  <2>3. QED
    BY <2>1, <2>2, TableSame DEF TaskInv, ids, kbd, Coherent
<1>2. CASE KeyIntr
  <2>1. /\ Coherent(sched) /\ IsInjective(waitingList)
        /\ sched' = WakeAll(Interrupted(sched), waitingList) /\ waitingList' = <<>>
        /\ UNCHANGED <<ids, prog, frame, failed>>
    BY <1>2 DEF KeyIntr, TaskInv
  <2>2. Coherent(Interrupted(sched)) /\ Interrupted(sched).status = sched.status
    BY <2>1, InterruptedKeeps
  <2>3. QED
    BY <2>1, <2>2, WakeTable DEF ids, TaskInv
<1>3. QED
  BY <1>1, <1>2

\* What a failing fork and an exec leave alone.
LEMMA FailTable ==
  ASSUME TaskInv, NEW t \in Threads, SysForkFails(t) \/ SysExecv(t)
  PROVE  TaskInv' /\ sched' = sched
<1>1. /\ sched' = sched /\ Running(t)
      /\ UNCHANGED <<allList, pid, parentPid, nameLen, frame, waitingList>>
  BY DEF SysForkFails, SysExecv, Forks, Calls, ids, kbd
<1>2. Coherent(sched) /\ IsInjective(waitingList) /\ t \in Tasks
  BY <1>1, Acting
<1>3. pidMap' \subseteq 1 .. MaxPid
  <2>1. allocatePid \in 0 .. MaxPid /\ pidMap \subseteq 1 .. MaxPid
    BY PidIs DEF TaskInv
  <2>2. pidMap' \in {pidMap, pidMap \cup ({allocatePid} \ {0})}
    BY DEF SysForkFails, SysExecv, ids
  <2>3. QED
    BY <2>1, <2>2, ProcessAssumption
<1>4. prog' \in [Tasks -> Progs]
  BY <1>2 DEF SysForkFails, SysExecv, AfterFork, Progs, TaskInv
<1>5. failed' \in 0 .. MaxFailed
  BY ProcessAssumption DEF SysForkFails, SysExecv, TaskInv
<1>6. SameAlive
  BY <1>1 DEF SameAlive
<1>7. QED
  BY <1>1, <1>2, <1>3, <1>4, <1>5, <1>6, TableSame DEF TaskInv

\* The table main makes before it exits.
LEMMA TaskInit == Init => TaskInv
<1> SUFFICES ASSUME Init PROVE TaskInv
  OBVIOUS
<1> USE SchedulerAssumption
<1>1. Coherent(sched) /\ sched \in KernelState /\ sched.status = KernelInit.status
  BY KernelInitCoherent DEF Init, Coherent
<1>2. allList = <<Idle, Main>> /\ Idle \in Tasks /\ Main \in Tasks /\ Idle # Main
  BY DEF Init, Tasks
<1>3. allList \in Seq(Tasks) /\ IsInjective(allList)
  BY <1>2 DEF IsInjective
<1>4. \A u \in Tasks : Contains(allList, u) <=> u \in {Idle, Main}
  BY <1>2 DEF Contains
<1>5. \A u \in Tasks : Alive(u) <=> u \in {Idle, Main}
  BY <1>1, <1>2 DEF Alive, KernelInit
<1>6. waitingList \in Seq(Threads) /\ IsInjective(waitingList)
  BY DEF Init, IsInjective
<1>7. /\ pid \in [Tasks -> Nat] /\ parentPid \in [Tasks -> Int] /\ nameLen \in [Tasks -> Nat]
      /\ prog \in [Tasks -> Progs] /\ frame \in [Tasks -> {"user", "wait", "read"}]
  BY DEF Init, Progs, NoParent
<1>8. pidMap \subseteq 1 .. MaxPid /\ failed \in 0 .. MaxFailed
  BY ProcessAssumption DEF Init
<1>9. QED
  BY <1>1, <1>3, <1>4, <1>5, <1>6, <1>7, <1>8 DEF TaskInv

\* Every step keeps the table.
LEMMA TaskStep == TaskInv /\ [Next]_vars => TaskInv'
<1> SUFFICES ASSUME TaskInv, [Next]_vars PROVE TaskInv'
  OBVIOUS
<1>1. ASSUME UNCHANGED vars PROVE TaskInv'
  <2>1. SameAlive
    BY <1>1 DEF SameAlive, vars
  <2>2. QED
    BY <1>1, <2>1, TableSame DEF vars, ids, kbd, TaskInv
<1>2. allocatePid \in 0 .. MaxPid
  BY PidIs DEF TaskInv
<1>3. QED
  BY <1>1, <1>2, ForkTable, FailTable, WaitTable, ExitTable, ReadTable, BackgroundTable DEF Next

\* The task table is sound at all times.
THEOREM ProcessTable == Spec => []TaskInv
BY TaskInit, TaskStep, PTL DEF Spec

Reaping == \A u \in Tasks : Alive(u) /\ ~Alive(u)' =>
             /\ sched.status[u] = "HANGING"
             /\ pid[sched.cur] = parentPid[u]

\* A PCB goes away only when its parent, in sysWait, reaps it after its exit.
THEOREM ProcessReapedByParent == Spec => ReapedByParent
<1>1. TaskInv /\ [Next]_vars => [Reaping]_vars
  <2> SUFFICES ASSUME TaskInv, Next PROVE Reaping
    OBVIOUS
  <2>1. ASSUME SameAlive PROVE Reaping
    BY <2>1 DEF SameAlive, Alive, Reaping
  <2>2. ASSUME NEW t \in Threads, NEW u \in Threads, SysFork(t, u) PROVE Reaping
    <3>1. sched'.status = [sched.status EXCEPT ![u] = "READY"]
      BY <2>2, ForkEffect
    <3>2. QED
      BY <3>1 DEF Alive, TaskInv, KernelState, Reaping
  <2>3. ASSUME NEW t \in Threads, SysForkFails(t) \/ SysExecv(t) PROVE Reaping
    BY <2>3, FailTable DEF Alive, Reaping
  <2>4. ASSUME NEW t \in Threads, SysWait(t) PROVE Reaping
    <3>1. Running(t) /\ ((\E u \in Threads : Reaps(t, u)) \/ Waits(t) \/ Childless(t))
      BY <2>4, WaitCases
    <3>2. /\ Coherent(sched) /\ sched.cur = t /\ sched.status[t] = "RUNNING" /\ t \in Tasks
      BY <3>1, Acting
    <3>3. ASSUME NEW u \in Threads, Reaps(t, u) PROVE Reaping
      <4>1. sched'.status = [sched.status EXCEPT ![u] = "DIED"]
        BY <2>4, <3>3, ReapTable
      <4>2. sched.status[u] = "HANGING" /\ parentPid[u] = pid[sched.cur]
        BY <3>2, <3>3 DEF Reaps
      <4>3. QED
        BY <4>1, <4>2 DEF Alive, TaskInv, KernelState, Reaping
    <3>4. CASE Waits(t)
      <4>1. /\ Coherent(sched') /\ sched'.status[t] = "WAITING"
            /\ SameSleep(sched, sched', Threads \ {t})
        BY <3>2, <3>4, SleepEffect DEF Waits, Asleep
      <4>2. QED
        BY <3>2, <4>1 DEF SameSleep, Awake, Coherent, Tasks, Alive, Reaping
    <3>5. CASE Childless(t)
      BY <3>5 DEF Childless, Alive, Reaping
    <3>6. QED
      BY <3>1, <3>3, <3>4, <3>5
  <2>5. QED
    BY <2>1, <2>2, <2>3, <2>4, ExitTable, ReadTable, BackgroundTable DEF Next
<1>2. QED
  BY <1>1, ProcessTable, PTL DEF Spec, ReapedByParent, Reaping

-----------------------------------------------------------------------------
(* Pids *)

\* the tasks with a PCB
Living == {t \in Tasks : Alive(t)}

\* There are finitely many tasks and pids, and always a pid for one more task.
LEMMA Room ==
  ASSUME TaskInv, PidInv, RoomForPids
  PROVE  /\ IsFiniteSet(Tasks) /\ IsFiniteSet(Living) /\ IsFiniteSet(pidMap)
         /\ Cardinality(Living) \in Nat /\ Cardinality(pidMap) \in Nat
         /\ Cardinality(pidMap) <= Cardinality(Living) + failed
         /\ \A u \in Tasks : ~Alive(u) => allocatePid \in (1 .. MaxPid) \ pidMap
<1>1. MaxPid \in Nat /\ MaxFailed \in Nat /\ failed \in 0 .. MaxFailed /\ pidMap \subseteq 1 .. MaxPid
  BY ProcessAssumption DEF TaskInv
<1>2. IsFiniteSet(Tasks)
  BY FS_AddElement DEF RoomForPids, Tasks
<1>3. IsFiniteSet(Living) /\ Cardinality(Living) \in Nat
  BY <1>2, FS_Subset, FS_CardinalityType DEF Living
<1>4. IsFiniteSet(1 .. MaxPid) /\ Cardinality(1 .. MaxPid) = MaxPid
  BY <1>1, FS_Interval
<1>5. IsFiniteSet(pidMap) /\ Cardinality(pidMap) \in Nat
  BY <1>1, <1>4, FS_Subset, FS_CardinalityType
<1>6. Cardinality(pidMap) <= Cardinality(Living) + failed
  BY DEF PidInv, Living
<1>7. ASSUME NEW u \in Tasks, ~Alive(u) PROVE allocatePid \in (1 .. MaxPid) \ pidMap
  <2>1. /\ IsFiniteSet(Tasks \ {u}) /\ Cardinality(Tasks \ {u}) = Cardinality(Tasks) - 1
        /\ Cardinality(Tasks) \in Nat
    BY <1>2, FS_RemoveElement, FS_CardinalityType
  <2>2. Living \in SUBSET (Tasks \ {u})
    BY <1>7 DEF Living
  <2>3. Cardinality(Living) <= Cardinality(Tasks) - 1
    BY <2>1, <2>2, FS_Subset
  <2>4. Cardinality(Tasks) + MaxFailed <= MaxPid
    BY DEF RoomForPids
  <2>5. Cardinality(pidMap) < MaxPid
    BY <1>1, <1>3, <1>5, <1>6, <2>1, <2>3, <2>4
  <2>6. pidMap # 1 .. MaxPid
    BY <1>1, <1>4, <2>5
  <2>7. QED
    BY <1>1, <2>6, PidIs
<1>8. QED
  BY <1>2, <1>3, <1>5, <1>6, <1>7

\* A step that creates and ends no task, and takes no pid.
LEMMA PidsSame ==
  ASSUME PidInv, SameAlive, UNCHANGED <<pid, pidMap, failed>>
  PROVE  PidInv'
<1>1. \A t \in Tasks : Alive(t)' <=> Alive(t)
  BY DEF SameAlive, Alive
<1>2. {t \in Tasks : Alive(t)'} = {t \in Tasks : Alive(t)}
  BY <1>1
<1>3. QED
  BY <1>1, <1>2 DEF PidInv

\* sysFork takes a free pid for the child.
LEMMA ForkPids ==
  ASSUME TaskInv, PidInv, RoomForPids, NEW t \in Threads, NEW u \in Threads, SysFork(t, u)
  PROVE  PidInv'
<1>1. /\ sched.status[u] = "DIED" /\ u \in Tasks /\ ~Alive(u)
      /\ sched'.status = [sched.status EXCEPT ![u] = "READY"]
  BY ForkEffect DEF Alive, Tasks
<1>2. pid' = [pid EXCEPT ![u] = allocatePid] /\ failed' = failed
      /\ pidMap' = pidMap \cup ({allocatePid} \ {0})
  BY DEF SysFork, CopyProcess
<1>3. allocatePid \in (1 .. MaxPid) \ pidMap
  BY <1>1, Room
<1>4. pidMap' = pidMap \cup {allocatePid} /\ allocatePid \notin pidMap
  BY <1>2, <1>3, ProcessAssumption
<1>5. \A x \in Tasks : Alive(x)' <=> x = u \/ Alive(x)
  BY <1>1 DEF Alive, TaskInv, KernelState
<1>6. \A x \in Tasks : pid'[x] = IF x = u THEN allocatePid ELSE pid[x]
  BY <1>1, <1>2 DEF TaskInv
<1>7. \A x, y \in Tasks : Alive(x)' /\ Alive(y)' /\ pid'[x] = pid'[y] => x = y
  BY <1>3, <1>5, <1>6 DEF PidInv
<1>8. \A x \in Tasks : Alive(x)' => pid'[x] \in pidMap'
  BY <1>4, <1>5, <1>6 DEF PidInv
<1>9. Living' = Living \cup {u} /\ u \notin Living
  BY <1>1, <1>5 DEF Living
<1>10. Cardinality(Living') = Cardinality(Living) + 1
       /\ Cardinality(pidMap') = Cardinality(pidMap) + 1
  BY <1>4, <1>9, Room, FS_AddElement
<1>11. Cardinality(pidMap') <= Cardinality(Living') + failed'
  BY <1>2, <1>10, Room, ProcessAssumption DEF TaskInv
<1>12. QED
  BY <1>7, <1>8, <1>11 DEF PidInv, Living

\* A failing fork may keep the pid it took.
LEMMA FailPids ==
  ASSUME TaskInv, PidInv, RoomForPids, NEW t \in Threads, SysForkFails(t)
  PROVE  PidInv'
<1>1. /\ sched' = sched /\ pid' = pid /\ failed' = failed + 1
      /\ pidMap' \in {pidMap, pidMap \cup ({allocatePid} \ {0})}
  BY DEF SysForkFails
<1>2. Living' = Living /\ \A x \in Tasks : Alive(x)' <=> Alive(x)
  BY <1>1 DEF Living, Alive
<1>3. /\ IsFiniteSet(pidMap) /\ Cardinality(pidMap) \in Nat /\ Cardinality(Living) \in Nat
      /\ Cardinality(pidMap) <= Cardinality(Living) + failed
  BY Room
<1>4. Cardinality(pidMap') \in {Cardinality(pidMap), Cardinality(pidMap) + 1}
  <2>1. pidMap' = pidMap \/ pidMap' = pidMap \cup {allocatePid}
    BY <1>1
  <2>2. QED
    BY <1>3, <2>1, FS_AddElement
<1>5. failed \in Nat
  BY ProcessAssumption DEF TaskInv
<1>6. Cardinality(pidMap') <= Cardinality(Living') + failed'
  BY <1>1, <1>2, <1>3, <1>4, <1>5
<1>7. pidMap \subseteq pidMap'
  BY <1>1
<1>8. QED
  BY <1>1, <1>2, <1>6, <1>7 DEF PidInv, Living

\* sysWait gives the pid of the child it reaps back.
LEMMA ReapPids ==
  ASSUME TaskInv, PidInv, RoomForPids, NEW t \in Threads, SysWait(t),
         NEW u \in Threads, Reaps(t, u)
  PROVE  PidInv'
<1>1. /\ sched'.status = [sched.status EXCEPT ![u] = "DIED"]
      /\ pid' = pid /\ failed' = failed /\ pidMap' = pidMap \ {pid[u]}
      /\ u \in Tasks /\ Alive(u)
  BY ReapTable, WaitCases DEF Reaps, Alive, Tasks
<1>2. \A x \in Tasks : Alive(x)' <=> x # u /\ Alive(x)
  BY <1>1 DEF Alive, TaskInv, KernelState
<1>3. pid[u] \in pidMap
  BY <1>1 DEF PidInv
<1>4. \A x \in Tasks : Alive(x)' => pid'[x] \in pidMap'
  BY <1>1, <1>2 DEF PidInv
<1>5. Living' = Living \ {u} /\ u \in Living
  BY <1>1, <1>2 DEF Living
<1>6. Cardinality(Living') = Cardinality(Living) - 1
      /\ Cardinality(pidMap') = Cardinality(pidMap) - 1
  BY <1>1, <1>3, <1>5, Room, FS_RemoveElement
<1>7. Cardinality(pidMap') <= Cardinality(Living') + failed'
  BY <1>1, <1>6, Room, ProcessAssumption DEF TaskInv
<1>8. QED
  BY <1>1, <1>2, <1>4, <1>7 DEF PidInv, Living

\* main has number 1 and the idle thread number 2.
LEMMA PidInit == Init => PidInv
<1> SUFFICES ASSUME Init PROVE PidInv
  OBVIOUS
<1> USE SchedulerAssumption
<1>1. sched.status = KernelInit.status /\ pidMap = {1, 2} /\ failed = 0
      /\ Idle \in Tasks /\ Main \in Tasks /\ Idle # Main
  BY DEF Init, Tasks
<1>2. \A u \in Tasks : Alive(u) <=> u \in {Idle, Main}
  BY <1>1 DEF Alive, KernelInit
<1>3. pid[Main] = 1 /\ pid[Idle] = 2
  BY <1>1 DEF Init
<1>4. {t \in Tasks : Alive(t)} = {Main} \cup {Idle}
  BY <1>1, <1>2
<1>5. Cardinality({1} \cup {2}) = 2 /\ Cardinality({Main} \cup {Idle}) = 2
  <2>1. IsFiniteSet({1}) /\ Cardinality({1}) = 1 /\ IsFiniteSet({Main}) /\ Cardinality({Main}) = 1
    BY FS_Singleton
  <2>2. Cardinality({1} \cup {2}) = IF 2 \in {1} THEN 1 ELSE 1 + 1
    BY <2>1, FS_AddElement
  <2>3. Cardinality({Main} \cup {Idle}) = IF Idle \in {Main} THEN 1 ELSE 1 + 1
    BY <2>1, FS_AddElement
  <2>4. QED
    BY <1>1, <2>2, <2>3
<1>6. pidMap = {1} \cup {2}
  BY <1>1
<1>7. Cardinality(pidMap) <= Cardinality({t \in Tasks : Alive(t)}) + failed
  <2>1. Cardinality(pidMap) = 2
    BY <1>5, <1>6, Zenon
  <2>2. Cardinality({t \in Tasks : Alive(t)}) = 2
    BY <1>4, <1>5, Zenon
  <2>3. QED
    BY <1>1, <2>1, <2>2
<1>8. QED
  BY <1>1, <1>2, <1>3, <1>7 DEF PidInv

\* Every step keeps the pids apart.
LEMMA PidStep == TaskInv /\ PidInv /\ RoomForPids /\ [Next]_vars => PidInv'
<1> SUFFICES ASSUME TaskInv, PidInv, RoomForPids, [Next]_vars PROVE PidInv'
  OBVIOUS
<1>1. ASSUME UNCHANGED vars PROVE PidInv'
  BY <1>1, PidsSame DEF vars, ids, SameAlive
<1>2. ASSUME NEW t \in Threads, SysExecv(t) PROVE PidInv'
  BY <1>2, PidsSame DEF SysExecv, ids, SameAlive
<1>3. ASSUME NEW t \in Threads, SysWait(t) PROVE PidInv'
  <2>1. /\ Running(t)
        /\ (\E u \in Threads : Reaps(t, u)) \/ Waits(t) \/ Childless(t)
        /\ UNCHANGED <<pid, failed>>
    BY <1>3, WaitCases
  <2>2. /\ Coherent(sched) /\ t \in Tasks /\ sched.cur = t /\ sched.status[t] = "RUNNING"
    BY <2>1, Acting
  <2>3. CASE Waits(t)
    <3>1. /\ Coherent(sched') /\ sched'.status[t] = "WAITING"
          /\ SameSleep(sched, sched', Threads \ {t})
      BY <2>2, <2>3, SleepEffect DEF Waits, Asleep
    <3>2. SameAlive
      BY <2>2, <3>1 DEF SameAlive, SameSleep, Awake, Coherent, Tasks
    <3>3. QED
      BY <2>1, <2>3, <3>2, PidsSame DEF Waits
  <2>4. CASE Childless(t)
    BY <2>1, <2>4, PidsSame DEF Childless, SameAlive
  <2>5. QED
    BY <1>3, <2>1, <2>3, <2>4, ReapPids
<1>4. ASSUME NEW t \in Threads, SysExit(t) PROVE PidInv'
  BY <1>4, ExitEffect, ExitTable, PidsSame
<1>5. ASSUME NEW t \in Threads, SysRead(t) PROVE PidInv'
  BY <1>5, ReadEffect, ReadTable, PidsSame
<1>6. ASSUME TimerIntr \/ IdleLoop \/ KeyIntr PROVE PidInv'
  BY <1>6, BackgroundTable, PidsSame DEF TimerIntr, IdleLoop, KeyIntr, ids
<1>7. QED
  BY <1>1, <1>2, <1>3, <1>4, <1>5, <1>6, ForkPids, FailPids DEF Next

\* No two tasks have one pid, and each task's pid is taken, as long as there
\* is room for the tasks and for the pids that failing forks never give back.
THEOREM ProcessPids ==
  ASSUME RoomForPids
  PROVE  Spec => []PidsUnique
<1>1. TaskInv /\ PidInv => PidsUnique
  BY DEF TaskInv, PidInv, PidsUnique
<1>2. TaskInv /\ PidInv /\ [Next]_vars => PidInv'
  BY PidStep
<1>3. QED
  BY <1>1, <1>2, PidInit, ProcessTable, PTL DEF Spec

-----------------------------------------------------------------------------
(* The family: init, the shell and its commands *)

\* What makes the children of a process its own.
LEMMA ChildOf ==
  ASSUME TaskInv, PidInv, FamilyInv, ~sched.panic, NEW u \in Tasks, NEW p \in Tasks,
         Child(u, p), Alive(p)
  PROVE  /\ u \in Threads \ {Main}
         /\ \/ p = Main /\ IsShell(u)
            \/ p \in Threads \ {Main} /\ nameLen[p] = 9 /\ IsShell(p) /\ IsCommand(u)
<1>1. u # Main /\ u # Idle
  BY DEF FamilyInv, Child, NoParent, TaskInv
<1>2. u \in Threads \ {Main} /\ (IsShell(u) \/ IsCommand(u))
  BY <1>1 DEF FamilyInv, Child, Tasks
<1>3. Main \in Tasks /\ Alive(Main)
  BY SchedulerAssumption DEF FamilyInv, Tasks
<1>4. CASE IsShell(u)
  <2>1. p = Main
    BY <1>3, <1>4 DEF IsShell, Child, PidInv
  <2>2. QED
    BY <1>2, <1>4, <2>1
<1>5. CASE IsCommand(u)
  <2>1. PICK q \in Threads : Alive(q) /\ q # Main /\ nameLen[q] = 9 /\ parentPid[u] = pid[q]
    BY <1>5 DEF IsCommand
  <2>2. q = p
    BY <2>1 DEF Child, PidInv, Tasks
  <2>3. IsShell(p)
    BY <2>1, <2>2 DEF FamilyInv, IsCommand
  <2>4. QED
    BY <1>2, <1>5, <2>1, <2>2, <2>3
<1>6. QED
  BY <1>2, <1>4, <1>5

\* The commands have no children.
LEMMA CommandChildless ==
  ASSUME TaskInv, PidInv, FamilyInv, ~sched.panic, NEW p \in Tasks, Alive(p), IsCommand(p)
  PROVE  \A u \in Tasks : ~Child(u, p)
<1>1. SUFFICES ASSUME NEW u \in Tasks, Child(u, p) PROVE FALSE
  OBVIOUS
<1>2. p = Main \/ nameLen[p] = 9
  BY <1>1, ChildOf
<1>3. QED
  BY <1>2 DEF IsCommand

\* A step that changes at most what the program of t is and whether t hangs.
LEMMA FamilySame ==
  ASSUME TaskInv, FamilyInv, ~sched.panic, SameAlive,
         UNCHANGED <<pid, parentPid, nameLen>>, NEW t \in Threads,
         \A u \in Tasks \ {t} : prog'[u] = prog[u] /\ frame'[u] = frame[u],
         \A u \in Tasks \ {t} : sched'.status[u] = "HANGING" => sched.status[u] = "HANGING",
         t = Main => /\ <<prog'[t], frame'[t]>> \in
                          {<<"boot", "user">>, <<"init", "user">>, <<"init", "wait">>}
                     /\ sched'.status[t] # "HANGING",
         IsShell(t) => /\ <<prog'[t], frame'[t]>> \in {<<"shell", "user">>, <<"shell", "read">>,
                                                       <<"run", "user">>, <<"run", "wait">>}
                       /\ sched'.status[t] # "HANGING"
                       /\ (\E v \in Tasks : Child(v, t)) => prog'[t] = "run",
         IsCommand(t) => /\ prog'[t] \in {"child", "prog", "shell", "run"}
                         /\ frame'[t] \in {"user", "read"}
                         /\ frame'[t] = "read" => prog'[t] \in {"prog", "shell"}
  PROVE  FamilyInv'
<1>1. Idle \in Tasks \ {t} /\ Main \in Tasks /\ Threads \subseteq Tasks
  BY SchedulerAssumption DEF Tasks
<1>2. \A u \in Tasks : Alive(u)' <=> Alive(u)
  BY DEF SameAlive, Alive
<1>3. /\ nameLen'[Main] = 4 /\ parentPid'[Main] = NoParent /\ Alive(Main)'
      /\ nameLen'[Idle] = 4 /\ parentPid'[Idle] = NoParent /\ frame'[Idle] = "user"
  BY <1>1, <1>2 DEF FamilyInv
<1>4. /\ <<prog'[Main], frame'[Main]>> \in {<<"boot", "user">>, <<"init", "user">>, <<"init", "wait">>}
      /\ sched'.status[Main] # "HANGING"
  <2>1. CASE t = Main
    BY <2>1
  <2>2. CASE t # Main
    BY <1>1, <2>2 DEF FamilyInv
  <2>3. QED
    BY <2>1, <2>2
<1>5. ASSUME NEW u \in Threads \ {Main}, Alive(u)' PROVE IsShell(u)' \/ IsCommand(u)'
  <2>1. u \in Tasks /\ (IsShell(u) \/ IsCommand(u))
    BY <1>1, <1>2, <1>5 DEF FamilyInv
  <2>2. CASE IsShell(u)
    <3>1. /\ <<prog'[u], frame'[u]>> \in {<<"shell", "user">>, <<"shell", "read">>,
                                          <<"run", "user">>, <<"run", "wait">>}
          /\ sched'.status[u] # "HANGING"
      <4>1. CASE u = t
        BY <2>2, <4>1
      <4>2. CASE u # t
        BY <2>1, <2>2, <4>2 DEF IsShell
      <4>3. QED
        BY <4>1, <4>2
    <3>2. \A v \in Tasks : Alive(v) /\ parentPid[v] = pid[u] => prog'[u] = "run"
      <4>1. CASE u = t
        BY <2>2, <4>1 DEF Child
      <4>2. CASE u # t
        BY <2>1, <2>2, <4>2 DEF IsShell
      <4>3. QED
        BY <4>1, <4>2
    <3>3. \A v, w \in Tasks : Alive(v) /\ Alive(w) /\ parentPid[v] = pid[u] /\ parentPid[w] = pid[u]
                                => v = w
      BY <2>2 DEF IsShell
    <3>4. u # Main /\ nameLen'[u] = 9 /\ parentPid'[u] = pid'[Main]
      BY <2>2 DEF IsShell
    <3>5. IsShell(u)'
      BY <1>2, <3>1, <3>2, <3>3, <3>4 DEF IsShell
    <3>6. QED
      BY <3>5
  <2>3. CASE IsCommand(u)
    <3>1. /\ prog'[u] \in {"child", "prog", "shell", "run"}
          /\ frame'[u] \in {"user", "read"}
          /\ frame'[u] = "read" => prog'[u] \in {"prog", "shell"}
      <4>1. CASE u = t
        BY <2>3, <4>1
      <4>2. CASE u # t
        BY <2>1, <2>3, <4>2 DEF IsCommand
      <4>3. QED
        BY <4>1, <4>2
    <3>2. IsCommand(u)'
      BY <1>1, <1>2, <2>3, <3>1 DEF IsCommand
    <3>3. QED
      BY <3>2
  <2>4. QED
    BY <2>1, <2>2, <2>3
<1>6. QED
  BY <1>3, <1>4, <1>5 DEF FamilyInv

\* A fork adds a shell under init or a command under the shell; one level
\* deeper the ASSERT on the name stops the machine.
LEMMA ForkFamily ==
  ASSUME TaskInv, PidInv, RoomForPids, FamilyInv, NameRoom <= 14,
         NEW t \in Threads, NEW u \in Threads, SysFork(t, u)
  PROVE  FamilyInv'
<1>1. SUFFICES ASSUME ~sched'.panic PROVE FamilyInv'
  BY DEF FamilyInv
<1>2. /\ Running(t) /\ sched.status[u] = "DIED" /\ u # Idle /\ u # t
      /\ sched'.status = [sched.status EXCEPT ![u] = "READY"]
      /\ nameLen[t] < NameRoom
  BY <1>1, ForkEffect
<1>3. /\ Coherent(sched) /\ ~sched.panic /\ t \in Tasks /\ sched.status[t] = "RUNNING"
      /\ Alive(t) /\ u \in Tasks /\ ~Alive(u)
  BY <1>2, Acting DEF Alive, Tasks
<1>4. /\ pid' = [pid EXCEPT ![u] = allocatePid]
      /\ parentPid' = [parentPid EXCEPT ![u] = pid[t]]
      /\ nameLen' = [nameLen EXCEPT ![u] = nameLen[t] + 5]
      /\ prog' = [prog EXCEPT ![t] = AfterFork(t), ![u] = ChildProg(t)]
      /\ frame' = [frame EXCEPT ![u] = "user"]
      /\ frame[t] = "user" /\ prog[t] \in {"boot", "shell", "prog"}
  BY DEF SysFork, CopyProcess, Forks, Calls
<1>5. \A x \in Tasks : /\ pid'[x] = IF x = u THEN allocatePid ELSE pid[x]
                       /\ parentPid'[x] = IF x = u THEN pid[t] ELSE parentPid[x]
                       /\ nameLen'[x] = IF x = u THEN nameLen[t] + 5 ELSE nameLen[x]
                       /\ prog'[x] = IF x = u THEN ChildProg(t)
                                     ELSE IF x = t THEN AfterFork(t) ELSE prog[x]
                       /\ frame'[x] = IF x = u THEN "user" ELSE frame[x]
                       /\ sched'.status[x] = IF x = u THEN "READY" ELSE sched.status[x]
                       /\ Alive(x)' <=> x = u \/ Alive(x)
  BY <1>2, <1>3, <1>4 DEF TaskInv, KernelState, Alive
<1>6. /\ Main \in Tasks /\ Idle \in Tasks /\ Alive(Main) /\ Alive(Idle) /\ u # Main /\ t # Idle
      /\ Threads \subseteq Tasks
  BY <1>3, SchedulerAssumption DEF FamilyInv, Tasks, Coherent, Alive
<1>7. NameRoom \in Nat /\ nameLen[t] \in Nat
  BY <1>3, ProcessAssumption DEF TaskInv
<1>8. \/ t = Main /\ prog[t] = "boot" /\ nameLen[t] = 4
      \/ t # Main /\ IsShell(t) /\ prog[t] = "shell" /\ nameLen[t] = 9
  <2>1. CASE t = Main
    BY <1>3, <1>4, <2>1 DEF FamilyInv
  <2>2. CASE t # Main
    <3>1. IsShell(t) \/ IsCommand(t)
      BY <1>3, <2>2 DEF FamilyInv
    <3>2. ~IsCommand(t)
      BY <1>2, <1>7 DEF IsCommand
    <3>3. QED
      BY <1>4, <2>2, <3>1, <3>2 DEF IsShell
  <2>3. QED
    BY <2>1, <2>2
\* nobody is a child of the new process
<1>9. \A x \in Tasks : parentPid'[x] # pid'[u] \/ ~Alive(x)'
  <2>1. allocatePid \in (1 .. MaxPid) \ pidMap
    BY <1>3, Room
  <2>2. SUFFICES ASSUME NEW x \in Tasks, Alive(x)', parentPid'[x] = allocatePid PROVE FALSE
    BY <1>3, <1>5
  <2>3. CASE x = u
    BY <1>3, <1>5, <2>1, <2>2, <2>3 DEF PidInv
  <2>4. CASE x \in {Main, Idle}
    BY <1>3, <1>5, <1>6, <2>1, <2>2, <2>4 DEF FamilyInv, NoParent
  <2>5. CASE x # u /\ x \notin {Main, Idle}
    <3>1. x \in Threads \ {Main} /\ Alive(x) /\ parentPid[x] = allocatePid
      BY <1>5, <2>2, <2>5 DEF Tasks
    <3>2. \E q \in Tasks : Alive(q) /\ parentPid[x] = pid[q]
      BY <1>3, <1>6, <3>1 DEF FamilyInv, IsShell, IsCommand
    <3>3. QED
      BY <2>1, <3>1, <3>2 DEF PidInv
  <2>6. QED
    BY <2>3, <2>4, <2>5
<1>10. /\ nameLen'[Main] = 4 /\ parentPid'[Main] = NoParent /\ Alive(Main)'
       /\ nameLen'[Idle] = 4 /\ parentPid'[Idle] = NoParent /\ frame'[Idle] = "user"
       /\ sched'.status[Main] # "HANGING"
  BY <1>3, <1>5, <1>6, SchedulerAssumption DEF FamilyInv
<1>11. <<prog'[Main], frame'[Main]>> \in {<<"boot", "user">>, <<"init", "user">>, <<"init", "wait">>}
  <2>1. CASE t = Main
    <3>1. prog'[Main] = "init" /\ frame'[Main] = "user"
      BY <1>4, <1>5, <1>6, <1>8, <2>1 DEF AfterFork
    <3>2. QED
      BY <3>1
  <2>2. CASE t # Main
    BY <1>3, <1>5, <1>6, <2>2 DEF FamilyInv
  <2>3. QED
    BY <2>1, <2>2
<1>12. ASSUME NEW x \in Threads \ {Main}, x # u, Alive(x)' PROVE IsShell(x)' \/ IsCommand(x)'
  <2>1. x \in Tasks /\ Alive(x) /\ (IsShell(x) \/ IsCommand(x))
    BY <1>3, <1>5, <1>6, <1>12 DEF FamilyInv
  <2>2. /\ pid'[x] = pid[x] /\ parentPid'[x] = parentPid[x] /\ nameLen'[x] = nameLen[x]
        /\ frame'[x] = frame[x] /\ sched'.status[x] = sched.status[x]
        /\ x # t => prog'[x] = prog[x]
    BY <1>5, <1>12, <2>1
  <2>3. CASE IsShell(x) /\ x = t
    <3>1. prog[x] = "shell" /\ frame[x] = "user"
      BY <1>4, <1>8, <1>12, <2>3
    <3>2. prog'[x] = "run"
      BY <1>5, <2>1, <2>3, <3>1, <1>12 DEF AfterFork
    <3>3. \A v \in Tasks : ~(Alive(v) /\ parentPid[v] = pid[x])
      BY <2>3, <3>1 DEF IsShell
    <3>4. \A v \in Tasks : Alive(v)' /\ parentPid'[v] = pid'[x] => v = u
      BY <1>5, <2>2, <3>3
    <3>5. IsShell(x)'
      BY <1>5, <1>6, <2>2, <2>3, <3>1, <3>2, <3>4 DEF IsShell
    <3>6. QED
      BY <3>5
  <2>4. CASE IsShell(x) /\ x # t
    <3>1. pid[t] # pid[x]
      BY <1>3, <2>1, <2>4 DEF PidInv
    <3>2. \A v \in Tasks : Alive(v)' /\ parentPid'[v] = pid'[x] =>
                             Alive(v) /\ parentPid[v] = pid[x]
      BY <1>5, <2>2, <3>1
    <3>3. IsShell(x)'
      BY <1>5, <1>6, <2>2, <2>4, <3>2 DEF IsShell
    <3>4. QED
      BY <3>3
  <2>5. CASE IsCommand(x)
    <3>1. x # t
      BY <1>8, <1>12, <2>5 DEF IsCommand
    <3>2. PICK q \in Threads : Alive(q) /\ q # Main /\ nameLen[q] = 9 /\ parentPid[x] = pid[q]
      BY <2>5 DEF IsCommand
    <3>3. q # u /\ q \in Tasks
      BY <1>3, <1>6, <3>2
    <3>4. Alive(q)' /\ nameLen'[q] = 9 /\ parentPid'[x] = pid'[q]
      BY <1>5, <2>2, <3>2, <3>3
    <3>5. IsCommand(x)'
      BY <2>2, <2>5, <3>1, <3>2, <3>4 DEF IsCommand
    <3>6. QED
      BY <3>5
  <2>6. QED
    BY <2>1, <2>3, <2>4, <2>5
<1>13. IsShell(u)' \/ IsCommand(u)'
  <2>1. /\ parentPid'[u] = pid[t] /\ nameLen'[u] = nameLen[t] + 5 /\ prog'[u] = ChildProg(t)
        /\ frame'[u] = "user" /\ sched'.status[u] = "READY"
        /\ pid'[t] = pid[t] /\ nameLen'[t] = nameLen[t] /\ Alive(t)'
    BY <1>2, <1>3, <1>5
  <2>2. CASE t = Main
    <3>1. prog'[u] = "shell" /\ nameLen'[u] = 9
      BY <1>8, <2>1, <2>2 DEF ChildProg
    <3>2. IsShell(u)'
      BY <1>6, <1>9, <2>1, <2>2, <3>1 DEF IsShell
    <3>3. QED
      BY <3>2
  <2>3. CASE t # Main
    <3>1. prog'[u] = "child" /\ nameLen'[u] = 14 /\ nameLen'[t] = 9
      BY <1>8, <2>1, <2>3 DEF ChildProg
    <3>2. IsCommand(u)'
      BY <1>6, <2>1, <2>3, <3>1 DEF IsCommand
    <3>3. QED
      BY <3>2
  <2>4. QED
    BY <2>2, <2>3
<1>14. \A x \in Threads \ {Main} : Alive(x)' => IsShell(x)' \/ IsCommand(x)'
  BY <1>12, <1>13
<1>15. QED
  BY <1>10, <1>11, <1>14 DEF FamilyInv

\* What the running process is.
LEMMA RunningKind ==
  ASSUME TaskInv, FamilyInv, NEW t \in Threads, Running(t)
  PROVE  /\ t = Main \/ IsShell(t) \/ IsCommand(t)
         /\ Alive(t) /\ t \in Tasks /\ ~sched.panic /\ Alive(Main) /\ Main \in Tasks
         /\ t = Main => <<prog[Main], frame[Main]>> \in
                          {<<"boot", "user">>, <<"init", "user">>, <<"init", "wait">>}
BY Acting, SchedulerAssumption DEF FamilyInv, Alive, Tasks

\* Only the shell reaps: its command is gone and it is back at its prompt.
LEMMA ReapFamily ==
  ASSUME TaskInv, PidInv, FamilyInv, NEW t \in Threads, SysWait(t),
         NEW c \in Threads, Reaps(t, c)
  PROVE  FamilyInv'
<1>1. /\ Running(t) /\ UNCHANGED <<pid, parentPid, nameLen>>
      /\ sched'.status = [sched.status EXCEPT ![c] = "DIED"]
      /\ sched.status[c] = "HANGING" /\ parentPid[c] = pid[t] /\ WaitReturns(t)
  BY WaitCases, ReapTable DEF Reaps
<1>2. /\ t \in Tasks /\ Alive(t) /\ c \in Tasks /\ Child(c, t) /\ ~sched.panic
      /\ sched.status[t] = "RUNNING" /\ Alive(Main) /\ Main \in Tasks /\ Idle \in Tasks
      /\ Threads \subseteq Tasks
  BY <1>1, RunningKind, Acting DEF Child, Alive, Tasks
<1>3. t # Main /\ IsShell(t) /\ IsCommand(c) /\ prog[t] = "run" /\ c # Main /\ c # t
  <2>1. ~IsShell(c)
    BY <1>1 DEF IsShell
  <2>2. t # Main /\ IsShell(t) /\ IsCommand(c) /\ c # Main
    BY <1>2, <2>1, ChildOf
  <2>3. prog[t] = "run" /\ c # t
    BY <1>1, <1>2, <2>2 DEF IsShell, Child
  <2>4. QED
    BY <2>2, <2>3
<1>4. \A x \in Tasks : /\ prog'[x] = IF x = t THEN "shell" ELSE prog[x]
                       /\ frame'[x] = IF x = t THEN "user" ELSE frame[x]
                       /\ sched'.status[x] = IF x = c THEN "DIED" ELSE sched.status[x]
                       /\ Alive(x)' <=> x # c /\ Alive(x)
  BY <1>1, <1>2, <1>3 DEF WaitReturns, TaskInv, KernelState, Alive
<1>5. /\ nameLen'[Main] = 4 /\ parentPid'[Main] = NoParent /\ Alive(Main)'
      /\ nameLen'[Idle] = 4 /\ parentPid'[Idle] = NoParent /\ frame'[Idle] = "user"
      /\ <<prog'[Main], frame'[Main]>> \in {<<"boot", "user">>, <<"init", "user">>, <<"init", "wait">>}
      /\ sched'.status[Main] # "HANGING"
  BY <1>1, <1>2, <1>3, <1>4, SchedulerAssumption DEF FamilyInv
<1>6. ASSUME NEW x \in Threads \ {Main}, Alive(x)' PROVE IsShell(x)' \/ IsCommand(x)'
  <2>1. x \in Tasks /\ x # c /\ Alive(x) /\ (IsShell(x) \/ IsCommand(x))
    BY <1>2, <1>4, <1>6 DEF FamilyInv
  <2>2. /\ pid' = pid /\ parentPid' = parentPid /\ nameLen' = nameLen
        /\ sched'.status[x] = sched.status[x]
    BY <1>1, <1>4, <2>1
  <2>3. CASE x = t
    <3>1. \A v \in Tasks : ~(Alive(v)' /\ parentPid'[v] = pid'[x])
      <4>1. \A v \in Tasks : Alive(v) /\ parentPid[v] = pid[t] => v = c
        BY <1>2, <1>3 DEF IsShell, Child
      <4>2. QED
        BY <1>4, <2>2, <2>3, <4>1
    <3>2. prog'[x] = "shell" /\ frame'[x] = "user"
      BY <1>4, <2>1, <2>3
    <3>3. IsShell(x)'
      BY <1>3, <2>2, <2>3, <3>1, <3>2 DEF IsShell
    <3>4. QED
      BY <3>3
  <2>4. CASE IsShell(x) /\ x # t
    <3>1. prog'[x] = prog[x] /\ frame'[x] = frame[x]
      BY <1>4, <2>1, <2>4
    <3>2. IsShell(x)'
      BY <1>4, <2>2, <2>4, <3>1 DEF IsShell
    <3>3. QED
      BY <3>2
  <2>5. CASE IsCommand(x)
    <3>1. x # t
      BY <1>3, <2>5 DEF IsShell, IsCommand
    <3>2. prog'[x] = prog[x] /\ frame'[x] = frame[x]
      BY <1>4, <2>1, <3>1
    <3>3. PICK q \in Threads : Alive(q) /\ q # Main /\ nameLen[q] = 9 /\ parentPid[x] = pid[q]
      BY <2>5 DEF IsCommand
    <3>4. q # c /\ q \in Tasks
      BY <1>2, <1>3, <3>3 DEF IsCommand
    <3>5. Alive(q)'
      BY <1>4, <3>3, <3>4
    <3>6. IsCommand(x)'
      BY <2>2, <2>5, <3>2, <3>3, <3>5 DEF IsCommand
    <3>7. QED
      BY <3>6
  <2>6. QED
    BY <2>1, <2>3, <2>4, <2>5
<1>7. QED
  BY <1>5, <1>6 DEF FamilyInv

\* sysExit of a command; nothing is adopted, and the parent is found.
LEMMA ExitFamily ==
  ASSUME TaskInv, PidInv, FamilyInv, NEW t \in Threads, SysExit(t)
  PROVE  /\ FamilyInv' /\ IsCommand(t) /\ parentPid' = parentPid
         /\ \E p \in Threads : Exits(t, p) /\ Alive(p) /\ IsShell(p) /\ prog[p] = "run"
<1>1. /\ Running(t) /\ frame[t] = "user" /\ prog[t] = "prog"
      /\ parentPid' = initAdoptChild(t)
      /\ UNCHANGED <<pid, nameLen, prog, frame>>
      /\ \/ /\ sched' = Panicked(sched)
            /\ \/ parentPid[t] = NoParent
               \/ \A p \in Tasks : Alive(p) => pid[p] # parentPid[t]
         \/ \E p \in Tasks : Exits(t, p)
  BY ExitEffect
<1>2. /\ t \in Tasks /\ Alive(t) /\ ~sched.panic /\ sched.status[t] = "RUNNING"
  BY <1>1, RunningKind, Acting
<1>3. t # Main /\ IsCommand(t)
  BY <1>1, RunningKind DEF IsShell
<1>4. PICK p \in Threads : Alive(p) /\ p # Main /\ nameLen[p] = 9 /\ parentPid[t] = pid[p]
  BY <1>3 DEF IsCommand
<1>5. p \in Tasks /\ Child(t, p) /\ pid[p] # NoParent
  BY <1>2, <1>4 DEF Tasks, Child, TaskInv, NoParent
<1>6. IsShell(p) /\ prog[p] = "run"
  <2>1. IsShell(p)
    BY <1>2, <1>4, <1>5, ChildOf
  <2>2. QED
    BY <1>2, <1>4, <2>1 DEF IsShell
<1>7. Exits(t, p)
  <2>1. PICK q \in Tasks : Exits(t, q)
    BY <1>1, <1>4, <1>5
  <2>2. q = p
    BY <1>4, <1>5, <2>1 DEF Exits, PidInv
  <2>3. QED
    BY <2>1, <2>2
<1>8. parentPid' = parentPid
  <2>1. \A u \in Tasks : ~(Alive(u) /\ parentPid[u] = pid[t])
    BY <1>2, <1>3, CommandChildless DEF Child
  <2>2. \A u \in Tasks : Contains(allList, u) <=> Alive(u)
    BY DEF TaskInv
  <2>3. parentPid' = [u \in Tasks |-> parentPid[u]]
    BY <1>1, <2>1, <2>2 DEF initAdoptChild
  <2>4. QED
    BY <2>3 DEF TaskInv
<1>9. SameAlive
  BY ExitTable
<1>10. \A u \in Tasks \ {t} : sched'.status[u] = "HANGING" => sched.status[u] = "HANGING"
  BY <1>7 DEF Exits, SameSleep, Awake, Coherent, Tasks
<1>11. FamilyInv'
  BY <1>1, <1>2, <1>3, <1>8, <1>9, <1>10, FamilySame DEF IsShell, IsCommand
<1>12. QED
  BY <1>3, <1>4, <1>6, <1>7, <1>8, <1>11

\* sysWait that reaps nobody
LEMMA WaitFamily ==
  ASSUME TaskInv, PidInv, FamilyInv, NEW t \in Threads, SysWait(t), Waits(t) \/ Childless(t)
  PROVE  FamilyInv' /\ (Waits(t) => ~IsCommand(t))
<1>1. /\ Running(t) /\ UNCHANGED <<pid, parentPid, nameLen>>
      /\ \/ frame[t] = "user" /\ prog[t] \in {"init", "run", "prog"}
         \/ frame[t] = "wait"
  BY WaitCases
<1>2. /\ t \in Tasks /\ Alive(t) /\ ~sched.panic /\ sched.status[t] = "RUNNING"
      /\ Coherent(sched) /\ sched.cur = t /\ (t = Main \/ IsShell(t) \/ IsCommand(t))
      /\ t = Main => <<prog[Main], frame[Main]>> \in
                       {<<"boot", "user">>, <<"init", "user">>, <<"init", "wait">>}
  BY <1>1, RunningKind, Acting
<1>3. CASE Waits(t)
  <2>1. /\ Coherent(sched') /\ sched'.status[t] = "WAITING"
        /\ SameSleep(sched, sched', Threads \ {t})
    BY <1>2, <1>3, SleepEffect DEF Waits, Asleep
  <2>2. SameAlive
    BY <1>2, <2>1 DEF SameAlive, SameSleep, Awake, Coherent, Tasks
  <2>3. \A u \in Tasks \ {t} : sched'.status[u] = "HANGING" => sched.status[u] = "HANGING"
    BY <2>1 DEF SameSleep, Awake, Coherent, Tasks
  <2>4. ~IsCommand(t)
    BY <1>2, <1>3, CommandChildless DEF Waits
  <2>5. \A u \in Tasks : prog'[u] = prog[u] /\ frame'[u] = IF u = t THEN "wait" ELSE frame[u]
    BY <1>3 DEF Waits, TaskInv
  <2>6. IsShell(t) => prog[t] = "run"
    BY <1>1 DEF IsShell
  <2>7. t = Main => prog[t] = "init"
    BY <1>1, <1>2
  <2>8. FamilyInv'
    BY <1>1, <1>2, <2>1, <2>2, <2>3, <2>4, <2>5, <2>6, <2>7, FamilySame
  <2>9. QED
    BY <2>4, <2>8
<1>4. CASE Childless(t)
  <2>1. SameAlive /\ sched' = sched
    BY <1>4 DEF SameAlive, Childless
  <2>2. \A u \in Tasks : /\ prog'[u] = IF u = t /\ prog[t] = "run" THEN "shell" ELSE prog[u]
                         /\ frame'[u] = IF u = t THEN "user" ELSE frame[u]
    BY <1>2, <1>4 DEF Childless, WaitReturns, TaskInv
  <2>3. \A v \in Tasks : ~Child(v, t)
    BY <1>4 DEF Childless
  <2>4. ~Waits(t)
    BY <1>2, <2>3 DEF Waits
  <2>5. t = Main => /\ <<prog'[t], frame'[t]>> \in
                         {<<"boot", "user">>, <<"init", "user">>, <<"init", "wait">>}
                    /\ sched'.status[t] # "HANGING"
    BY <1>2, <2>1, <2>2
  <2>6. IsShell(t) => /\ <<prog'[t], frame'[t]>> \in
                           {<<"shell", "user">>, <<"shell", "read">>, <<"run", "user">>, <<"run", "wait">>}
                      /\ sched'.status[t] # "HANGING"
    BY <1>2, <2>1, <2>2 DEF IsShell
  <2>7. IsCommand(t) => /\ prog'[t] \in {"child", "prog", "shell", "run"}
                        /\ frame'[t] = "user"
    BY <1>2, <2>2 DEF IsCommand
  <2>8. FamilyInv'
    BY <1>1, <1>2, <2>1, <2>2, <2>3, <2>5, <2>6, <2>7, FamilySame
  <2>9. QED
    BY <2>4, <2>8
<1>5. QED
  BY <1>3, <1>4

\* A fork that fails and an exec change what the program of t does next.
LEMMA FailFamily ==
  ASSUME TaskInv, FamilyInv, NEW t \in Threads, SysForkFails(t) \/ SysExecv(t)
  PROVE  FamilyInv'
<1>1. /\ Running(t) /\ frame[t] = "user" /\ sched' = sched /\ SameAlive
      /\ UNCHANGED <<pid, parentPid, nameLen, frame>>
  BY FailTable DEF SysForkFails, SysExecv, Forks, Calls, ids, SameAlive
<1>2. /\ t \in Tasks /\ ~sched.panic /\ sched.status[t] = "RUNNING"
      /\ t = Main => <<prog[Main], frame[Main]>> \in
                       {<<"boot", "user">>, <<"init", "user">>, <<"init", "wait">>}
  BY <1>1, RunningKind, Acting
<1>3. CASE SysForkFails(t)
  <2>1. /\ prog[t] \in {"boot", "shell", "prog"}
        /\ \A u \in Tasks : prog'[u] = IF u = t THEN AfterFork(t) ELSE prog[u]
    BY <1>2, <1>3 DEF SysForkFails, Forks, TaskInv
  <2>2. /\ prog[t] = "boot" => AfterFork(t) = "init"
        /\ prog[t] = "shell" => AfterFork(t) = "run"
        /\ prog[t] = "prog" => AfterFork(t) = "prog"
    BY DEF AfterFork
  <2>3. t = Main => prog'[t] = "init" /\ frame'[t] = "user"
    BY <1>1, <1>2, <2>1, <2>2
  <2>4. IsShell(t) => prog'[t] = "run" /\ frame'[t] = "user"
    BY <1>1, <1>2, <2>1, <2>2 DEF IsShell
  <2>5. IsCommand(t) => prog'[t] \in {"run", "prog"} /\ frame'[t] = "user"
    BY <1>1, <1>2, <2>1, <2>2 DEF IsCommand
  <2>6. QED
    BY <1>1, <1>2, <2>1, <2>3, <2>4, <2>5, FamilySame
<1>4. CASE SysExecv(t)
  <2>1. /\ prog[t] = "child" /\ prog'[t] \in {"prog", "shell"}
        /\ \A u \in Tasks \ {t} : prog'[u] = prog[u]
    BY <1>2, <1>4 DEF SysExecv, TaskInv
  <2>2. t # Main /\ ~IsShell(t)
    BY <1>2, <2>1 DEF IsShell
  <2>3. QED
    BY <1>1, <1>2, <2>1, <2>2, FamilySame
<1>5. QED
  BY <1>3, <1>4

\* sysRead moves its caller into the call and out of it.
LEMMA ReadFamily ==
  ASSUME TaskInv, FamilyInv, NEW t \in Threads, SysRead(t)
  PROVE  FamilyInv'
<1>1. SUFFICES ASSUME ~sched'.panic PROVE FamilyInv'
  BY DEF FamilyInv
<1>2. /\ Running(t) /\ SameAlive
      /\ UNCHANGED <<pid, parentPid, nameLen, prog>>
      /\ \/ frame[t] = "user" /\ prog[t] \in {"shell", "prog"}
         \/ frame[t] = "read"
      /\ frame' \in {[frame EXCEPT ![t] = "read"], [frame EXCEPT ![t] = "user"]}
  BY ReadEffect, ReadTable
<1>3. /\ t \in Tasks /\ ~sched.panic /\ sched.status[t] = "RUNNING"
      /\ Coherent(sched) /\ sched.cur = t
      /\ IsInjective(waitingList) /\ waitingList \in Seq(Threads)
      /\ t = Main => <<prog[Main], frame[Main]>> \in
                       {<<"boot", "user">>, <<"init", "user">>, <<"init", "wait">>}
  BY <1>2, RunningKind, Acting DEF TaskInv
<1>4. \A u \in Tasks : sched'.status[u] = "HANGING" => u # t /\ sched.status[u] = "HANGING"
  <2>1. CASE sched'.status[t] = "WAITING" /\ SameSleep(sched, sched', Threads \ {t})
             /\ Coherent(sched')
    BY <1>3, <2>1 DEF SameSleep, Awake, Coherent, Tasks
  <2>2. CASE sched' = WakeAll(sched, waitingList)
    <3>1. sched'.status = [u \in Tasks |-> IF Contains(waitingList, u)
                                           THEN "READY" ELSE sched.status[u]]
      <4>1. sched' # Panicked(sched)
        BY <1>1, <1>3 DEF Panicked, Coherent, KernelState
      <4>2. QED
        BY <1>3, <2>2, <4>1, WakeReaders
    <3>2. QED
      BY <1>3, <3>1
  <2>3. QED
    BY <1>1, <2>1, <2>2, ReadEffect
<1>5. \A u \in Tasks \ {t} : prog'[u] = prog[u] /\ frame'[u] = frame[u]
  BY <1>2 DEF TaskInv
<1>6. prog'[t] = prog[t] /\ frame'[t] \in {"user", "read"}
  BY <1>2, <1>3 DEF TaskInv
<1>7. t # Main
  BY <1>2, <1>3
<1>8. IsShell(t) => prog[t] = "shell"
  BY <1>2 DEF IsShell
<1>9. IsShell(t) => \A v \in Tasks : ~Child(v, t)
  BY <1>8 DEF IsShell, Child
<1>10. IsCommand(t) => prog[t] \in {"prog", "shell"}
  BY <1>2 DEF IsCommand
<1>11. QED
  BY <1>2, <1>3, <1>4, <1>5, <1>6, <1>7, <1>8, <1>9, <1>10, FamilySame DEF IsCommand

\* The interrupts and the idle thread change no process.
LEMMA BackgroundFamily ==
  ASSUME TaskInv, FamilyInv, TimerIntr \/ IdleLoop \/ KeyIntr
  PROVE  FamilyInv'
<1>1. SUFFICES ASSUME ~sched'.panic PROVE FamilyInv'
  BY DEF FamilyInv
<1>2. /\ SameAlive /\ ~sched.panic /\ Coherent(sched)
      /\ UNCHANGED <<pid, parentPid, nameLen, prog, frame>>
  BY BackgroundTable DEF TimerIntr, IdleLoop, KeyIntr, ids, Running, TaskInv
<1>3. \A u \in Tasks : sched'.status[u] = "HANGING" => sched.status[u] = "HANGING"
  <2>1. CASE TimerIntr \/ IdleLoop
    <3>1. Coherent(sched') /\ SameSleep(sched, sched', Threads)
      BY <2>1, BackgroundEffect
    <3>2. QED
      BY <3>1 DEF SameSleep, Awake, Coherent, Tasks
  <2>2. CASE KeyIntr
    <3> DEFINE k == Interrupted(sched)
    <3>1. Coherent(k) /\ k.status = sched.status /\ sched' = WakeAll(k, waitingList)
          /\ IsInjective(waitingList) /\ waitingList \in Seq(Threads)
      BY <1>2, <2>2, InterruptedKeeps DEF KeyIntr, TaskInv
    <3> HIDE DEF k
    <3>2. sched' # Panicked(k)
      BY <1>1, <3>1 DEF Panicked, Coherent, KernelState
    <3>3. sched'.status = [u \in Tasks |-> IF Contains(waitingList, u)
                                           THEN "READY" ELSE k.status[u]]
      BY <3>1, <3>2, WakeReaders
    <3>4. QED
      BY <3>1, <3>3
  <2>3. QED
    BY <2>1, <2>2
<1>4. Main \in Threads /\ Main \in Tasks
  BY SchedulerAssumption DEF Tasks
<1>5. /\ <<prog[Main], frame[Main]>> \in
           {<<"boot", "user">>, <<"init", "user">>, <<"init", "wait">>}
      /\ sched.status[Main] # "HANGING" /\ ~IsShell(Main) /\ ~IsCommand(Main)
  BY <1>2 DEF FamilyInv, IsShell, IsCommand
<1>6. QED
  BY <1>2, <1>3, <1>4, <1>5, FamilySame

\* Init is alone with the idle thread.
LEMMA FamilyInit == Init => FamilyInv
<1> SUFFICES ASSUME Init PROVE FamilyInv
  OBVIOUS
<1> USE SchedulerAssumption
<1>1. sched.status = KernelInit.status /\ Idle \in Tasks /\ Main \in Tasks /\ Idle # Main
  BY DEF Init, Tasks
<1>2. \A u \in Tasks : Alive(u) <=> u \in {Idle, Main}
  BY <1>1 DEF Alive, KernelInit
<1>3. sched.status[Main] = "RUNNING"
  BY <1>1 DEF KernelInit
<1>4. /\ \A u \in Tasks : /\ nameLen[u] = 4 /\ parentPid[u] = NoParent
                           /\ prog[u] = "boot" /\ frame[u] = "user"
      /\ ~sched.panic
  BY DEF Init, KernelInit
<1>5. \A u \in Threads \ {Main} : ~Alive(u)
  BY <1>1, <1>2 DEF Tasks
<1>6. <<prog[Main], frame[Main]>> = <<"boot", "user">>
  BY <1>1, <1>4
<1>7. QED
  BY <1>1, <1>2, <1>3, <1>4, <1>5, <1>6 DEF FamilyInv

\* Every step keeps the family.
LEMMA FamilyStep ==
  TaskInv /\ PidInv /\ FamilyInv /\ RoomForPids /\ NameRoom <= 14 /\ [Next]_vars => FamilyInv'
<1> SUFFICES ASSUME TaskInv, PidInv, FamilyInv, RoomForPids, NameRoom <= 14, [Next]_vars
             PROVE  FamilyInv'
  OBVIOUS
<1>1. ASSUME UNCHANGED vars PROVE FamilyInv'
  BY <1>1 DEF vars, ids, FamilyInv, IsShell, IsCommand, Alive
<1>2. ASSUME NEW t \in Threads, SysWait(t) PROVE FamilyInv'
  BY <1>2, WaitCases, WaitFamily, ReapFamily
<1>3. QED
  BY <1>1, <1>2, ForkFamily, FailFamily, ExitFamily, ReadFamily, BackgroundFamily DEF Next

-----------------------------------------------------------------------------
(* Who waits, and for what *)

WaitInv == ReadersListed /\ NoZombieMissed /\ OnlyNames

\* A step that starts no wait and ends no process leaves the waits right.
LEMMA ZombiesSame ==
  ASSUME NoZombieMissed, SameAlive, UNCHANGED <<pid, parentPid>>,
         \A u \in Tasks : sched'.status[u] = "HANGING" => sched.status[u] = "HANGING",
         \A u \in Tasks : sched'.status[u] = "WAITING" /\ frame'[u] = "wait" =>
                            sched.status[u] = "WAITING" /\ frame[u] = "wait"
  PROVE  NoZombieMissed'
<1>1. SUFFICES ASSUME NEW w \in Tasks, frame'[w] = "wait", sched'.status[w] = "WAITING"
               PROVE  /\ \E u \in Tasks : Alive(u)' /\ parentPid'[u] = pid'[w]
                      /\ \A u \in Tasks : parentPid'[u] = pid'[w] => sched'.status[u] # "HANGING"
  BY DEF NoZombieMissed
<1>2. /\ \E u \in Tasks : Alive(u) /\ parentPid[u] = pid[w]
      /\ \A u \in Tasks : parentPid[u] = pid[w] => sched.status[u] # "HANGING"
  BY <1>1 DEF NoZombieMissed
<1>3. QED
  BY <1>2 DEF SameAlive, Alive

\* The child sysFork makes is no zombie and no reader; an ASSERT that fails
\* leaves a name that is too long.
LEMMA ForkWaits ==
  ASSUME TaskInv, WaitInv, NEW t \in Threads, NEW u \in Threads, SysFork(t, u)
  PROVE  WaitInv'
<1>1. /\ sched.status[u] = "DIED" /\ u # t /\ Running(t)
      /\ sched'.status = [sched.status EXCEPT ![u] = "READY"]
      /\ sched'.panic <=> ~(nameLen[t] < NameRoom)
  BY ForkEffect
<1>2. /\ pid' = [pid EXCEPT ![u] = allocatePid]
      /\ parentPid' = [parentPid EXCEPT ![u] = pid[t]]
      /\ nameLen' = [nameLen EXCEPT ![u] = nameLen[t] + 5]
      /\ frame' = [frame EXCEPT ![u] = "user"] /\ waitingList' = waitingList
  BY DEF SysFork, CopyProcess, kbd
<1>3. t \in Tasks /\ u \in Tasks /\ ~Alive(u)
  BY <1>1 DEF Tasks, Alive
<1>4. \A x \in Tasks : /\ x # u => pid'[x] = pid[x] /\ parentPid'[x] = parentPid[x]
                       /\ frame'[x] = IF x = u THEN "user" ELSE frame[x]
                       /\ sched'.status[x] = IF x = u THEN "READY" ELSE sched.status[x]
  BY <1>1, <1>2, <1>3 DEF TaskInv, KernelState
<1>5. ReadersListed'
  BY <1>1, <1>2, <1>3, <1>4 DEF WaitInv, ReadersListed
<1>6. NoZombieMissed'
  <2>1. SUFFICES ASSUME NEW w \in Tasks, frame'[w] = "wait", sched'.status[w] = "WAITING"
                 PROVE  /\ \E x \in Tasks : Alive(x)' /\ parentPid'[x] = pid'[w]
                        /\ \A x \in Tasks : parentPid'[x] = pid'[w] => sched'.status[x] # "HANGING"
    BY DEF NoZombieMissed
  <2>2. w # u /\ frame[w] = "wait" /\ sched.status[w] = "WAITING" /\ pid'[w] = pid[w]
    BY <1>4, <2>1
  <2>3. PICK x \in Tasks : Alive(x) /\ parentPid[x] = pid[w]
    BY <2>2 DEF WaitInv, NoZombieMissed
  <2>4. x # u /\ Alive(x)' /\ parentPid'[x] = pid'[w]
    BY <1>3, <1>4, <2>2, <2>3 DEF Alive
  <2>5. \A y \in Tasks : parentPid[y] = pid[w] => sched.status[y] # "HANGING"
    BY <2>2 DEF WaitInv, NoZombieMissed
  <2>6. QED
    BY <1>4, <2>2, <2>4, <2>5
<1>7. OnlyNames'
  <2>1. SUFFICES ASSUME sched'.panic PROVE nameLen'[u] >= NameRoom + 5
    BY <1>3 DEF OnlyNames
  <2>2. nameLen[t] \in Nat /\ NameRoom \in Nat /\ ~(nameLen[t] < NameRoom)
    BY <1>1, <1>3, <2>1, ProcessAssumption DEF TaskInv
  <2>3. nameLen'[u] = nameLen[t] + 5
    BY <1>2, <1>3 DEF TaskInv
  <2>4. QED
    BY <2>2, <2>3
<1>8. QED
  BY <1>5, <1>6, <1>7 DEF WaitInv

\* sysWait sleeps only if it has a child and none that hangs.
LEMMA WaitWaits ==
  ASSUME TaskInv, WaitInv, NEW t \in Threads, SysWait(t)
  PROVE  WaitInv'
<1>1. /\ Running(t)
      /\ (\E c \in Threads : Reaps(t, c)) \/ Waits(t) \/ Childless(t)
      /\ UNCHANGED <<pid, parentPid, nameLen, waitingList>>
  BY WaitCases
<1>2. /\ Coherent(sched) /\ t \in Tasks /\ sched.cur = t /\ sched.status[t] = "RUNNING"
      /\ ~sched.panic
  BY <1>1, Acting
<1>3. ~Contains(waitingList, t)
  BY <1>2 DEF WaitInv, ReadersListed
<1>4. ASSUME NEW c \in Threads, Reaps(t, c) PROVE WaitInv'
  <2>1. /\ sched'.status = [sched.status EXCEPT ![c] = "DIED"] /\ Coherent(sched')
        /\ sched.status[c] = "HANGING" /\ frame' = [frame EXCEPT ![t] = "user"] /\ c \in Tasks
    BY <1>4, ReapTable DEF Reaps, WaitReturns, Tasks
  <2>2. \A x \in Tasks : /\ frame'[x] = IF x = t THEN "user" ELSE frame[x]
                         /\ sched'.status[x] = IF x = c THEN "DIED" ELSE sched.status[x]
    BY <1>2, <2>1 DEF TaskInv, KernelState
  <2>3. ReadersListed'
    BY <1>1, <1>2, <1>3, <2>1, <2>2 DEF WaitInv, ReadersListed
  <2>4. NoZombieMissed'
    <3>1. SUFFICES ASSUME NEW w \in Tasks, frame'[w] = "wait", sched'.status[w] = "WAITING"
                   PROVE  /\ \E x \in Tasks : Alive(x)' /\ parentPid'[x] = pid'[w]
                          /\ \A x \in Tasks : parentPid'[x] = pid'[w] => sched'.status[x] # "HANGING"
      BY DEF NoZombieMissed
    <3>2. frame[w] = "wait" /\ sched.status[w] = "WAITING"
      BY <2>2, <3>1
    <3>3. /\ \E x \in Tasks : Alive(x) /\ parentPid[x] = pid[w]
          /\ \A x \in Tasks : parentPid[x] = pid[w] => sched.status[x] # "HANGING"
      BY <3>2 DEF WaitInv, NoZombieMissed
    <3>4. PICK x \in Tasks : Alive(x) /\ parentPid[x] = pid[w]
      BY <3>3
    <3>5. x # c
      BY <2>1, <3>3, <3>4
    <3>6. Alive(x)' /\ parentPid'[x] = pid'[w]
      BY <1>1, <2>2, <3>4, <3>5 DEF Alive
    <3>7. \A y \in Tasks : parentPid'[y] = pid'[w] => sched'.status[y] # "HANGING"
      BY <1>1, <2>2, <3>3
    <3>8. QED
      BY <3>6, <3>7
  <2>5. QED
    BY <2>1, <2>3, <2>4 DEF WaitInv, OnlyNames, Coherent
<1>5. CASE Waits(t)
  <2>1. /\ Coherent(sched') /\ sched'.status[t] = "WAITING"
        /\ SameSleep(sched, sched', Threads \ {t})
    BY <1>2, <1>5, SleepEffect DEF Waits, Asleep
  <2>2. \A x \in Tasks : frame'[x] = IF x = t THEN "wait" ELSE frame[x]
    BY <1>5 DEF Waits, TaskInv
  <2>3. \A x \in Tasks \ {t} : /\ sched'.status[x] = "WAITING" <=> sched.status[x] = "WAITING"
                               /\ sched'.status[x] = "HANGING" => sched.status[x] = "HANGING"
                               /\ Alive(x) => Alive(x)'
    BY <1>2, <2>1 DEF SameSleep, Awake, Coherent, Tasks, Alive
  <2>4. ReadersListed'
    BY <1>1, <1>3, <2>2, <2>3 DEF WaitInv, ReadersListed
  <2>5. NoZombieMissed'
    <3>1. SUFFICES ASSUME NEW w \in Tasks, frame'[w] = "wait", sched'.status[w] = "WAITING"
                   PROVE  /\ \E x \in Tasks : Alive(x)' /\ parentPid'[x] = pid'[w]
                          /\ \A x \in Tasks : parentPid'[x] = pid'[w] => sched'.status[x] # "HANGING"
      BY DEF NoZombieMissed
    <3>2. /\ \E x \in Tasks : Alive(x) /\ parentPid[x] = pid[w]
          /\ \A x \in Tasks : parentPid[x] = pid[w] => sched.status[x] # "HANGING"
      <4>1. CASE w = t
        BY <1>5, <4>1 DEF Waits, Child
      <4>2. CASE w # t
        BY <2>2, <2>3, <3>1, <4>2 DEF WaitInv, NoZombieMissed
      <4>3. QED
        BY <4>1, <4>2
    <3>3. Alive(t)'
      BY <2>1 DEF Alive
    <3>4. QED
      BY <1>1, <2>1, <2>3, <3>2, <3>3
  <2>6. QED
    BY <2>1, <2>4, <2>5 DEF WaitInv, OnlyNames, Coherent
<1>6. CASE Childless(t)
  <2>1. sched' = sched /\ \A x \in Tasks : frame'[x] = IF x = t THEN "user" ELSE frame[x]
    BY <1>2, <1>6 DEF Childless, WaitReturns, TaskInv
  <2>2. SameAlive
    BY <2>1 DEF SameAlive
  <2>3. ReadersListed'
    BY <1>1, <1>2, <2>1 DEF WaitInv, ReadersListed
  <2>4. NoZombieMissed'
    BY <1>1, <2>1, <2>2, ZombiesSame DEF WaitInv
  <2>5. QED
    BY <1>2, <2>1, <2>3, <2>4 DEF WaitInv, OnlyNames
<1>7. QED
  BY <1>1, <1>4, <1>5, <1>6

\* sysExit wakes a parent that waits for it, and a shell that runs a command
\* is in no read.
LEMMA ExitWaits ==
  ASSUME TaskInv, PidInv, FamilyInv, WaitInv, NEW t \in Threads, SysExit(t)
  PROVE  WaitInv'
<1>1. /\ Running(t) /\ UNCHANGED <<pid, parentPid, frame, waitingList>> /\ SameAlive
  BY ExitEffect, ExitFamily, ExitTable
<1>2. PICK p \in Threads : Exits(t, p) /\ Alive(p) /\ IsShell(p) /\ prog[p] = "run"
  BY ExitFamily
<1>3. /\ Coherent(sched) /\ t \in Tasks /\ p \in Tasks /\ sched.status[t] = "RUNNING"
      /\ ~sched.panic
  BY <1>1, Acting DEF Tasks
<1>4. frame[p] # "read"
  BY <1>2 DEF IsShell
<1>5. /\ Coherent(sched') /\ sched'.status[t] = "HANGING" /\ pid[p] = parentPid[t]
      /\ sched'.status[p] # "WAITING"
      /\ sched.status[p] # "WAITING" => SameSleep(sched, sched', Threads \ {t})
      /\ SameSleep(sched, sched', Threads \ {t, p})
  BY <1>2, <1>3 DEF Exits, SameSleep, Awake
<1>6. \A x \in Tasks \ {t, p} :
        /\ sched'.status[x] = "WAITING" <=> sched.status[x] = "WAITING"
        /\ sched'.status[x] = "HANGING" => sched.status[x] = "HANGING"
  BY <1>3, <1>5 DEF SameSleep, Awake, Coherent, Tasks
<1>7. p # t => (sched'.status[p] = "HANGING" => sched.status[p] = "HANGING")
  BY <1>2 DEF Exits, SameSleep, Awake
<1>8. ReadersListed'
  BY <1>1, <1>3, <1>4, <1>5, <1>6 DEF WaitInv, ReadersListed
<1>9. NoZombieMissed'
  <2>1. SUFFICES ASSUME NEW w \in Tasks, frame'[w] = "wait", sched'.status[w] = "WAITING"
                 PROVE  /\ \E x \in Tasks : Alive(x)' /\ parentPid'[x] = pid'[w]
                        /\ \A x \in Tasks : parentPid'[x] = pid'[w] => sched'.status[x] # "HANGING"
    BY DEF NoZombieMissed
  <2>2. w # t /\ w # p /\ sched.status[w] = "WAITING" /\ frame[w] = "wait"
    BY <1>1, <1>5, <1>6, <2>1
  <2>3. /\ \E x \in Tasks : Alive(x) /\ parentPid[x] = pid[w]
        /\ \A x \in Tasks : parentPid[x] = pid[w] => sched.status[x] # "HANGING"
    BY <2>2 DEF WaitInv, NoZombieMissed
  <2>4. parentPid[t] # pid[w]
    BY <1>2, <1>3, <1>5, <2>2 DEF PidInv, Alive
  <2>5. \A x \in Tasks : parentPid[x] = pid[w] => sched'.status[x] # "HANGING"
    BY <1>6, <1>7, <2>3, <2>4
  <2>6. \E x \in Tasks : Alive(x)' /\ parentPid[x] = pid[w]
    BY <1>1, <2>3 DEF SameAlive, Alive
  <2>7. QED
    BY <1>1, <2>5, <2>6
<1>10. QED
  BY <1>5, <1>8, <1>9 DEF WaitInv, OnlyNames, Coherent

\* Waking the list of readers wakes all of them and nobody else.
LEMMA WakeWaits ==
  ASSUME TaskInv, WaitInv, NEW k, Coherent(k), k.status = sched.status,
         IsInjective(waitingList), sched' = WakeAll(k, waitingList), waitingList' = <<>>,
         UNCHANGED <<pid, parentPid>>, SameAlive,
         \A u \in Tasks : frame'[u] \in {frame[u], "user"}
  PROVE  WaitInv'
<1>1. \A u \in Threads : Contains(waitingList, u) => k.status[u] \in Asleep
  BY DEF WaitInv, ReadersListed, Tasks, Asleep
<1>2. /\ Coherent(sched')
      /\ sched'.status = [u \in Tasks |-> IF Contains(waitingList, u)
                                          THEN "READY" ELSE k.status[u]]
  BY <1>1, WakeReaders DEF TaskInv
<1>3. \A u \in Tasks : ~Contains(waitingList', u)
  BY DEF Contains
<1>4. ReadersListed'
  BY <1>2, <1>3 DEF WaitInv, ReadersListed
<1>5. NoZombieMissed'
  BY <1>2, ZombiesSame DEF WaitInv
<1>6. QED
  BY <1>2, <1>4, <1>5 DEF WaitInv, OnlyNames, Coherent

\* sysRead puts its caller on the list when it sleeps.
LEMMA ReadWaits ==
  ASSUME TaskInv, WaitInv, NEW t \in Threads, SysRead(t)
  PROVE  WaitInv'
<1>1. /\ Running(t) /\ SameAlive
      /\ UNCHANGED <<allList, pid, parentPid, pidMap, nameLen, prog, failed>>
  BY ReadEffect, ReadTable
<1>2. /\ Coherent(sched) /\ IsInjective(waitingList) /\ t \in Tasks
      /\ sched.status[t] = "RUNNING" /\ waitingList \in Seq(Threads)
  BY <1>1, Acting DEF TaskInv
<1>3. CASE /\ waitingList' = Append(waitingList, t)
           /\ frame' = [frame EXCEPT ![t] = "read"]
           /\ sched'.panic <=> Contains(waitingList, t)
           /\ ~sched'.panic => Coherent(sched')
           /\ sched'.status[Idle] # "DIED"
           /\ sched'.status[t] = "WAITING"
           /\ SameSleep(sched, sched', Threads \ {t})
  <2>1. ~Contains(waitingList, t)
    BY <1>2 DEF WaitInv, ReadersListed
  <2>2. Coherent(sched') /\ ~sched'.panic
    BY <1>3, <2>1
  <2>3. \A x \in Tasks : frame'[x] = IF x = t THEN "read" ELSE frame[x]
    BY <1>3 DEF TaskInv
  <2>4. \A x \in Tasks \ {t} : /\ sched'.status[x] = "WAITING" <=> sched.status[x] = "WAITING"
                               /\ sched'.status[x] = "HANGING" => sched.status[x] = "HANGING"
    BY <1>2, <1>3, <2>2 DEF SameSleep, Awake, Coherent, Tasks
  <2>5. \A x : Contains(waitingList', x) <=> x = t \/ Contains(waitingList, x)
    BY <1>2, <1>3, <2>1, AppendList
  <2>6. ReadersListed'
    BY <1>3, <2>3, <2>4, <2>5 DEF WaitInv, ReadersListed
  <2>7. NoZombieMissed'
    BY <1>1, <1>3, <2>3, <2>4, ZombiesSame DEF WaitInv
  <2>8. QED
    BY <2>2, <2>6, <2>7 DEF WaitInv, OnlyNames
<1>4. CASE /\ waitingList' = <<>>
           /\ frame' = [frame EXCEPT ![t] = "user"]
           /\ sched' = WakeAll(sched, waitingList)
  <2>1. \A u \in Tasks : frame'[u] \in {frame[u], "user"}
    BY <1>4 DEF TaskInv
  <2>2. QED
    BY <1>1, <1>2, <1>4, <2>1, WakeWaits
<1>5. QED
  BY <1>3, <1>4, ReadEffect

\* The keyboard wakes the readers; the timer and the idle thread wake nobody.
LEMMA BackgroundWaits ==
  ASSUME TaskInv, WaitInv, TimerIntr \/ IdleLoop \/ KeyIntr
  PROVE  WaitInv'
<1>1. SameAlive
  BY BackgroundTable
<1>2. CASE TimerIntr \/ IdleLoop
  <2>1. /\ Coherent(sched) /\ Coherent(sched') /\ SameSleep(sched, sched', Threads)
        /\ UNCHANGED <<pid, parentPid, frame, waitingList>>
    BY <1>2, BackgroundEffect DEF ids, kbd
  <2>2. \A x \in Tasks : /\ sched'.status[x] = "WAITING" <=> sched.status[x] = "WAITING"
                         /\ sched'.status[x] = "HANGING" => sched.status[x] = "HANGING"
    BY <2>1 DEF SameSleep, Awake, Coherent, Tasks
  <2>3. ReadersListed'
    BY <2>1, <2>2 DEF WaitInv, ReadersListed
  <2>4. NoZombieMissed'
    BY <1>1, <2>1, <2>2, ZombiesSame DEF WaitInv
  <2>5. QED
    BY <2>1, <2>3, <2>4 DEF WaitInv, OnlyNames, Coherent
<1>3. CASE KeyIntr
  <2>1. /\ Coherent(sched) /\ IsInjective(waitingList)
        /\ sched' = WakeAll(Interrupted(sched), waitingList) /\ waitingList' = <<>>
        /\ UNCHANGED <<pid, parentPid, frame>>
    BY <1>3 DEF KeyIntr, TaskInv, ids
  <2>2. Coherent(Interrupted(sched)) /\ Interrupted(sched).status = sched.status
    BY <2>1, InterruptedKeeps
  <2>3. QED
    BY <1>1, <2>1, <2>2, WakeWaits
<1>4. QED
  BY <1>2, <1>3

\* Nobody waits when init starts.
LEMMA WaitInit == Init => WaitInv
<1> SUFFICES ASSUME Init PROVE WaitInv
  OBVIOUS
<1>1. waitingList = <<>> /\ \A u \in Tasks : frame[u] = "user"
  BY DEF Init
<1>2. ~sched.panic
  BY DEF Init, KernelInit
<1>3. \A u \in Tasks : ~Contains(waitingList, u)
  BY <1>1 DEF Contains
<1>4. QED
  BY <1>1, <1>2, <1>3 DEF WaitInv, ReadersListed, NoZombieMissed, OnlyNames

\* Every step keeps the waits right.
LEMMA WaitStep == TaskInv /\ PidInv /\ FamilyInv /\ WaitInv /\ [Next]_vars => WaitInv'
<1> SUFFICES ASSUME TaskInv, PidInv, FamilyInv, WaitInv, [Next]_vars PROVE WaitInv'
  OBVIOUS
<1>1. ASSUME UNCHANGED vars PROVE WaitInv'
  BY <1>1 DEF vars, ids, kbd, WaitInv, ReadersListed, NoZombieMissed, OnlyNames, Alive
<1>2. ASSUME NEW t \in Threads, SysForkFails(t) \/ SysExecv(t) PROVE WaitInv'
  <2>1. UNCHANGED <<sched, pid, parentPid, nameLen, frame, waitingList>>
    BY <1>2, FailTable DEF SysForkFails, SysExecv, ids, kbd
  <2>2. QED
    BY <2>1 DEF WaitInv, ReadersListed, NoZombieMissed, OnlyNames, Alive
<1>3. QED
  BY <1>1, <1>2, ForkWaits, WaitWaits, ExitWaits, ReadWaits, BackgroundWaits DEF Next

\* All of it holds while there are pids left and fork refuses long names.
LEMMA ProcessInvariants ==
  ASSUME RoomForPids, NameRoom <= 14
  PROVE  Spec => [](PidInv /\ FamilyInv /\ WaitInv)
<1>1. TaskInv /\ PidInv /\ FamilyInv /\ WaitInv /\ [Next]_vars
        => TaskInv' /\ PidInv' /\ FamilyInv' /\ WaitInv'
  BY TaskStep, PidStep, FamilyStep, WaitStep
<1>2. Init => TaskInv /\ PidInv /\ FamilyInv /\ WaitInv
  BY TaskInit, PidInit, FamilyInit, WaitInit
<1>3. QED
  BY <1>1, <1>2, PTL DEF Spec

\* A process asleep in sysWait has a child, and none that has exited: sysExit
\* never misses it.
THEOREM ProcessNoZombieMissed ==
  ASSUME RoomForPids, NameRoom <= 14
  PROVE  Spec => []NoZombieMissed
<1>1. WaitInv => NoZombieMissed
  BY DEF WaitInv
<1>2. QED
  BY <1>1, ProcessInvariants, PTL

\* The keyboard's list holds the tasks asleep in sysRead, so sysExit, which
\* wakes a parent that is WAITING in whatever call, never wakes one of them.
THEOREM ProcessReadersListed ==
  ASSUME RoomForPids, NameRoom <= 14
  PROVE  Spec => []ReadersListed
<1>1. WaitInv => ReadersListed
  BY DEF WaitInv
<1>2. QED
  BY <1>1, ProcessInvariants, PTL

\* No ASSERT and no PANIC of these system calls is ever hit but the one of
\* fork on the length of the name.
THEOREM ProcessOnlyNames ==
  ASSUME RoomForPids, NameRoom <= 14
  PROVE  Spec => []OnlyNames
<1>1. WaitInv => OnlyNames
  BY DEF WaitInv
<1>2. QED
  BY <1>1, ProcessInvariants, PTL
=============================================================================
