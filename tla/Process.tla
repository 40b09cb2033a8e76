------------------------------ MODULE Process ------------------------------
(***************************************************************************)
(* The life of processes: fork, exec, wait and exit of kernel/user and the *)
(* pids of thread.c, called by the programs there are: init (main.c), the  *)
(* shell, and the programs the shell runs, which call what they like.      *)
(*                                                                         *)
(* A system call runs with interrupts off and is one step, up to its end   *)
(* or its sleep.  frame[t] is the call task t sleeps in: "wait", "read"    *)
(* (sysRead on an empty keyboard queue), or "user" when it is in none.     *)
(* prog[t] is where its program is:                                        *)
(*   "boot"   init before its fork        "init"  init in its wait loop    *)
(*   "shell"  the shell at its prompt     "run"   the shell before wait    *)
(*   "child"  the shell's child before execv                               *)
(*   "prog"   a program from the disk                                      *)
(***************************************************************************)
EXTENDS Thread, FiniteSets

CONSTANTS MaxPid,     \* size of the pid bitmap
          NameRoom,   \* the length ASSERT(strlen(name) < 11) asks for
          MaxFailed,  \* bound: how many forks fail for lack of memory
          MaxChars,   \* bound: how many keys wait to be read
          ExecFails   \* environment: execv may be given a file that is no ELF

ASSUME ProcessAssumption ==
  /\ MaxPid \in Nat \ {0, 1}
  /\ {NameRoom, MaxFailed, MaxChars} \subseteq Nat
  /\ ExecFails \in BOOLEAN

VARIABLES sched,
          allList,    \* threadAllList
          pid, parentPid,
          pidMap,     \* the pids whose bit is set
          nameLen,    \* strlen of TaskStruct.name
          prog, frame,
          chars,      \* how many characters are in keyboardBuf
          waitingList,\* of the keyboard queue's lock
          failed      \* how many forks have failed

ids == <<allList, pid, parentPid, pidMap, nameLen>>
kbd == <<chars, waitingList>>
vars == <<sched, ids, prog, frame, kbd, failed>>

Progs == {"boot", "init", "shell", "run", "child", "prog"}
NoParent == -1

Running(t) == ~sched.panic /\ sched.cur = t

\* t makes a system call
Calls(t) == Running(t) /\ frame[t] = "user"

\* t is back in the kernel after a sleep in the call f
Resumes(t, f) == Running(t) /\ frame[t] = f

\* the first task of threadAllList that is in S, as listTraversal finds it
FirstTask(S) ==
  {allList[i] : i \in {j \in DOMAIN allList :
                        allList[j] \in S /\ \A l \in 1..(j - 1) : allList[l] \notin S}}

pidToThread(p) == FirstTask({u \in Tasks : pid[u] = p})

-----------------------------------------------------------------------------
(* Pids *)

\* the lowest free pid; 0, the -1 of bitMapScan plus pidStart, if there is none
allocatePid == LET free == (1..MaxPid) \ pidMap
               IN IF free = {} THEN 0 ELSE CHOOSE p \in free : \A q \in free : p <= q

-----------------------------------------------------------------------------
(* fork *)

\* mutant of AfterFork: the shell does not wait for what it runs
AfterForkBackground(t) == IF prog[t] = "boot" THEN "init" ELSE prog[t]

AfterFork(t) == CASE prog[t] = "boot"  -> "init"
                  [] prog[t] = "shell" -> "run"
                  [] OTHER -> prog[t]

ChildProg(t) == CASE prog[t] = "boot"  -> "shell"
                  [] prog[t] = "shell" -> "child"
                  [] OTHER -> "prog"

Forks(t) == /\ Calls(t)
            /\ prog[t] \in {"boot", "shell", "prog"}

\* u becomes the child of the process with pid parent, a copy of t named like
\* it with "_fork" behind
CopyProcess(t, u, parent) ==
  /\ sched.status[u] = "DIED"
  /\ pid' = [pid EXCEPT ![u] = allocatePid]
  /\ parentPid' = [parentPid EXCEPT ![u] = parent]
  /\ nameLen' = [nameLen EXCEPT ![u] = nameLen[t] + 5]
  /\ allList' = Append(allList, u)
  /\ sched' = Asserted(nameLen[t] < NameRoom, ThreadStart(sched, u))
  /\ prog' = [prog EXCEPT ![t] = AfterFork(t), ![u] = ChildProg(t)]
  /\ frame' = [frame EXCEPT ![u] = "user"]
  /\ UNCHANGED <<kbd, failed>>

\* mutant of SysFork: the pid's bit is found but not set
SysForkUnmarked(t, u) ==
  /\ Forks(t)
  /\ CopyProcess(t, u, pid[t])
  /\ UNCHANGED pidMap

\* sysFork with memory for everything
SysFork(t, u) ==
  /\ Forks(t)
  /\ CopyProcess(t, u, pid[t])
  /\ pidMap' = pidMap \cup ({allocatePid} \ {0})

\* one of its allocations fails: before the pid is taken (the PCB, the copy
\* buffer), or after (the address bitmap, the page directory), and then the
\* pid is never given back
SysForkFails(t) ==
  /\ Forks(t)
  /\ failed < MaxFailed
  /\ failed' = failed + 1
  /\ pidMap' \in {pidMap, pidMap \cup ({allocatePid} \ {0})}
  /\ prog' = [prog EXCEPT ![t] = AfterFork(t)]
  /\ UNCHANGED <<sched, allList, pid, parentPid, nameLen, frame, kbd>>

\* sysExecv in the shell's child: the program replaces it, or execv returns -1
\* and the child goes on as a second shell
SysExecv(t) ==
  /\ Calls(t)
  /\ prog[t] = "child"
  /\ \/ prog' = [prog EXCEPT ![t] = "prog"]
     \/ ExecFails /\ prog' = [prog EXCEPT ![t] = "shell"]
  /\ UNCHANGED <<sched, ids, frame, kbd, failed>>

-----------------------------------------------------------------------------
(* wait and exit *)

findChild(t) == FirstTask({u \in Tasks : parentPid[u] = pid[t]})

\* mutant of findHangingChild: any task that hangs will do
findHangingTask(t) == FirstTask({u \in Tasks : sched.status[u] = "HANGING"})

findHangingChild(t) ==
  FirstTask({u \in Tasks : parentPid[u] = pid[t] /\ sched.status[u] = "HANGING"})

\* the orphans of t go to the process with pid 4
initAdoptChild(t) ==
  [u \in Tasks |-> IF Contains(allList, u) /\ parentPid[u] = pid[t] THEN 4 ELSE parentPid[u]]

WaitReturns(t) ==
  /\ frame' = [frame EXCEPT ![t] = "user"]
  /\ prog' = IF prog[t] = "run" THEN [prog EXCEPT ![t] = "shell"] ELSE prog

\* sysWait, from its first test or after a sleep: reap a child that hangs,
\* sleep if there is only a live one, return -1 if there is none
SysWait(t) ==
  /\ \/ Calls(t) /\ prog[t] \in {"init", "run", "prog"}
     \/ Resumes(t, "wait")
  /\ \/ \E u \in findHangingChild(t) :
          /\ sched' = Retire(sched, u)
          /\ allList' = RemoveAt(allList, CHOOSE i \in DOMAIN allList : allList[i] = u)
          /\ pidMap' = pidMap \ {pid[u]}
          /\ WaitReturns(t)
     \/ /\ findHangingChild(t) = {}
        /\ findChild(t) # {}
        /\ sched' = ThreadBlock(sched, "WAITING")
        /\ frame' = [frame EXCEPT ![t] = "wait"]
        /\ UNCHANGED <<allList, pidMap, prog>>
     \/ /\ findChild(t) = {}
        /\ WaitReturns(t)
        /\ UNCHANGED <<sched, allList, pidMap>>
  /\ UNCHANGED <<pid, parentPid, nameLen, kbd, failed>>

\* mutant of WakeParent: the parent is left asleep
WakeNobody(k, t) == k

\* sysExit wakes its parent if that is WAITING, in whichever call; it does not
\* expect that there is no parent any more
WakeParent(k, t) ==
  LET parent == pidToThread(parentPid[t])
  IN CASE parentPid[t] = NoParent \/ parent = {} -> Panicked(k)
       [] \E u \in parent : k.status[u] = "WAITING" ->
            ThreadUnblock(k, CHOOSE u \in parent : TRUE)
       [] OTHER -> k

SysExit(t) ==
  /\ Calls(t)
  /\ prog[t] = "prog"
  /\ parentPid' = initAdoptChild(t)
  /\ LET k == WakeParent(sched, t)
     IN sched' = IF k.panic THEN k ELSE ThreadBlock(k, "HANGING")
  /\ UNCHANGED <<allList, pid, pidMap, nameLen, prog, frame, kbd, failed>>

-----------------------------------------------------------------------------
(* The keyboard, as far as it moves processes: Keyboard has the rest.      *)

\* sysRead(stdin): the shell at its prompt, or a program
SysRead(t) ==
  /\ \/ Calls(t) /\ prog[t] \in {"shell", "prog"}
     \/ Resumes(t, "read")
  /\ IF chars = 0
     THEN /\ waitingList' = Append(waitingList, t)
          /\ sched' = Asserted(~Contains(waitingList, t), ThreadBlock(sched, "WAITING"))
          /\ frame' = [frame EXCEPT ![t] = "read"]
          /\ UNCHANGED chars
     ELSE /\ chars' = chars - 1
          /\ sched' = WakeAll(sched, waitingList)
          /\ waitingList' = <<>>
          /\ frame' = [frame EXCEPT ![t] = "user"]
  /\ UNCHANGED <<ids, prog, failed>>

KeyIntr ==
  /\ ~sched.panic
  /\ frame[sched.cur] = "user"
  /\ chars < MaxChars
  /\ chars' = chars + 1
  /\ sched' = WakeAll(Interrupted(sched), waitingList)
  /\ waitingList' = <<>>
  /\ UNCHANGED <<ids, prog, frame, failed>>

TimerIntr ==
  /\ ~sched.panic
  /\ frame[sched.cur] = "user"
  /\ sched' = TimerTick(Interrupted(sched))
  /\ UNCHANGED <<ids, prog, frame, kbd, failed>>

IdleLoop ==
  /\ Running(Idle)
  /\ sched.idle # "hlt"
  /\ sched' = IdleStep(sched)
  /\ UNCHANGED <<ids, prog, frame, kbd, failed>>

\* the boot thread has started init, swapped pids with it so that init is
\* number 1, and exited
Init == /\ sched = KernelInit
        /\ allList = <<Idle, Main>>
        /\ pid = [t \in Tasks |-> CASE t = Main -> 1 [] t = Idle -> 2 [] OTHER -> 0]
        /\ parentPid = [t \in Tasks |-> NoParent]
        /\ pidMap = {1, 2}
        /\ nameLen = [t \in Tasks |-> 4]
        /\ prog = [t \in Tasks |-> "boot"]
        /\ frame = [t \in Tasks |-> "user"]
        /\ chars = 0
        /\ waitingList = <<>>
        /\ failed = 0

Next == \/ \E t \in Threads : \/ SysForkFails(t) \/ SysExecv(t) \/ SysWait(t)
                              \/ SysExit(t) \/ SysRead(t)
                              \/ \E u \in Threads : SysFork(t, u)
        \/ KeyIntr \/ TimerIntr \/ IdleLoop

\* what a process does without a choice of its own
Proceeds(t) == \/ SysExecv(t)
               \/ (prog[t] \in {"init", "run"} \/ frame[t] = "wait") /\ SysWait(t)
               \/ frame[t] = "read" /\ SysRead(t)

\* a process that gets the CPU goes on, programs exit in the end, interrupts
\* are served again and again
Fairness == /\ \A t \in Threads : SF_vars(Proceeds(t)) /\ SF_vars(SysExit(t))
            /\ WF_vars(IdleLoop)
            /\ SF_vars(TimerIntr) /\ SF_vars(KeyIntr)

Spec == Init /\ [][Next]_vars
FairSpec == Spec /\ Fairness

-----------------------------------------------------------------------------
(* Properties *)

TypeOK == /\ sched \in KernelState
          /\ allList \in Seq(Tasks)
          /\ pid \in [Tasks -> 0..MaxPid]
          /\ parentPid \in [Tasks -> -1..MaxPid]
          /\ pidMap \subseteq 1..MaxPid
          /\ nameLen \in [Tasks -> Nat]
          /\ prog \in [Tasks -> Progs]
          /\ frame \in [Tasks -> {"user", "wait", "read"}]
          /\ chars \in 0..MaxChars
          /\ waitingList \in Seq(Tasks)
          /\ failed \in 0..MaxFailed

Alive(t) == sched.status[t] # "DIED"

\* threadAllList holds every task that has a PCB, and they have different
\* pids, all of them taken in the bitmap: wait, exit and ps find a process by
\* its pid.  A pid is used again after its process was reaped.
PidsUnique ==
  /\ \A t \in Tasks : Contains(allList, t) <=> Alive(t)
  /\ \A t, u \in Tasks : Alive(t) /\ Alive(u) /\ pid[t] = pid[u] => t = u
  /\ \A t \in Tasks : Alive(t) => pid[t] \in pidMap

\* A process asleep in wait has a child, and none that has exited: the wakeup
\* of sysExit, which comes before the child hangs, is never lost.
NoZombieMissed ==
  \A t \in Tasks :
    frame[t] = "wait" /\ sched.status[t] = "WAITING" =>
      /\ \E u \in Tasks : Alive(u) /\ parentPid[u] = pid[t]
      /\ \A u \in Tasks : parentPid[u] = pid[t] => sched.status[u] # "HANGING"

\* WAITING means two things, wait and read, and sysExit cannot tell them
\* apart.  A reader is on the queue's list exactly while it sleeps, so nothing
\* but a key wakes it.
ReadersListed ==
  \A t \in Tasks :
    Contains(waitingList, t) <=> sched.status[t] = "WAITING" /\ frame[t] = "read"

\* A PCB goes away only when the parent, in wait, reaps a child that exited.
ReapedByParent ==
  [][\A u \in Tasks : Alive(u) /\ ~Alive(u)' =>
       /\ sched.status[u] = "HANGING"
       /\ pid[sched.cur] = parentPid[u]]_vars

\* The shell comes back to its prompt when its program has exited, unless
\* execv failed and it waits for a second shell, which never exits.
ShellReturns ==
  \A t \in Threads :
    prog[t] = "run" ~> prog[t] = "shell" \/ \E u \in Threads \ {t} : prog[u] = "shell"

-----------------------------------------------------------------------------
(* The inductive invariants *)

\* The task table: the kernel state is sound until an ASSERT fails, and
\* threadAllList holds the tasks that have a PCB.
TaskInv ==
  /\ sched \in KernelState
  /\ ~sched.panic => Coherent(sched) /\ IsInjective(waitingList)
  /\ allList \in Seq(Tasks)
  /\ IsInjective(allList)
  /\ \A t \in Tasks : Contains(allList, t) <=> Alive(t)
  /\ waitingList \in Seq(Threads)
  /\ pid \in [Tasks -> Nat]
  /\ parentPid \in [Tasks -> Int]
  /\ pidMap \subseteq 1..MaxPid
  /\ nameLen \in [Tasks -> Nat]
  /\ prog \in [Tasks -> Progs]
  /\ frame \in [Tasks -> {"user", "wait", "read"}]
  /\ failed \in 0..MaxFailed

\* There are pids for all tasks and for those the failed forks keep.
RoomForPids == IsFiniteSet(Threads) /\ Cardinality(Tasks) + MaxFailed <= MaxPid

\* The pids in use are those of the tasks and those lost to failed forks.
PidInv ==
  /\ \A t, u \in Tasks : Alive(t) /\ Alive(u) /\ pid[t] = pid[u] => t = u
  /\ \A t \in Tasks : Alive(t) => pid[t] \in pidMap
  /\ Cardinality(pidMap) <= Cardinality({t \in Tasks : Alive(t)}) + failed

\* u is the shell, the child of init
IsShell(u) ==
  /\ u # Main
  /\ nameLen[u] = 9
  /\ parentPid[u] = pid[Main]
  /\ <<prog[u], frame[u]>> \in
       {<<"shell", "user">>, <<"shell", "read">>, <<"run", "user">>, <<"run", "wait">>}
  /\ sched.status[u] # "HANGING"
  /\ \A v, w \in Tasks :
       /\ Alive(v) /\ parentPid[v] = pid[u] => prog[u] = "run"
       /\ Alive(v) /\ Alive(w) /\ parentPid[v] = pid[u] /\ parentPid[w] = pid[u] => v = w

\* u was started by the shell
IsCommand(u) ==
  /\ u # Main
  /\ nameLen[u] = 14
  /\ \E p \in Threads : Alive(p) /\ p # Main /\ nameLen[p] = 9 /\ parentPid[u] = pid[p]
  /\ prog[u] \in {"child", "prog", "shell", "run"}
  /\ frame[u] \in {"user", "read"}
  /\ frame[u] = "read" => prog[u] \in {"prog", "shell"}

\* The process tree has three levels, init, the shell and its commands,
\* because the ASSERT on the name stops the next one; the shell has one
\* command at a time, and nobody becomes an orphan.
FamilyInv ==
  ~sched.panic =>
    /\ nameLen[Main] = 4 /\ parentPid[Main] = NoParent /\ Alive(Main)
    /\ nameLen[Idle] = 4 /\ parentPid[Idle] = NoParent /\ frame[Idle] = "user"
    /\ <<prog[Main], frame[Main]>> \in {<<"boot", "user">>, <<"init", "user">>, <<"init", "wait">>}
    /\ sched.status[Main] # "HANGING"
    /\ \A u \in Threads \ {Main} : Alive(u) => IsShell(u) \/ IsCommand(u)

\* The only ASSERT that fails is the one on the length of the name.
OnlyNames == sched.panic => \E t \in Tasks : nameLen[t] >= NameRoom + 5
=============================================================================
