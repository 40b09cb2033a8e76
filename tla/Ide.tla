-------------------------------- MODULE Ide --------------------------------
(***************************************************************************)
(* The disk driver of device/ide.c: one channel with its lock, its         *)
(* semaphore diskDone and its interrupt, used by the boot thread           *)
(* (interrupts on) and by processes inside system calls (interrupts off).  *)
(*                                                                         *)
(* op[t] is where thread t is in ideRead or ideWrite:                      *)
(*   "call"    not in them                                                 *)
(*   "select"  before selectSector, at the head of the while loop          *)
(*   "command" between the two assignments of cmdOut                       *)
(*   "down"    before semaDown(diskDone)      "asleep"  in it              *)
(*   "poll"    busyWait reads the status      "sleep"   it sleeps a tick   *)
(*   "data"    before the sectors are moved                                *)
(*   "unlock"  before lockUnlock                                           *)
(* The disk is external: it takes a command when it is not busy, becomes   *)
(* ready for the data of the whole command, and interrupts when the data   *)
(* of a read are there or those of a write are on the disk.                *)
(***************************************************************************)
EXTENDS Thread

CONSTANTS KernelThreads, MaxRepeat, WaitDepth, NoThread,
          NSectors,  \* size of the disk
          Chunk,     \* 256, the most sectors of one command
          MaxCnt,    \* bound: the most sectors of a request
          Tags,      \* what is written
          MaxTries   \* timeLimit / 10 of busyWait

ASSUME IdeAssumption ==
  /\ {NSectors, Chunk, MaxCnt} \subseteq Nat \ {0}
  /\ MaxTries \in Nat
  /\ Tags \subseteq Nat /\ 0 \in Tags
  /\ NoThread \notin Tasks

VARIABLES sched, value, blockedList, waitingList, holder, repeat, pc,
          done, doneList,  \* diskDone: its value and its blocked list
          expecting,       \* expectingIntr
          dev,             \* the disk: what it does, for which command
          irq,             \* its interrupt request, latched in the 8259A
          disk,            \* its content
          op,
          req,             \* the arguments of the call
          buf,             \* the caller's buffer
          secsDone,
          slept,           \* the tick sleepMs waits for has come
          tries            \* how often busyWait found the disk busy

lockState == <<sched, value, blockedList, waitingList, holder, repeat, pc>>
lockRest == <<value, blockedList, waitingList, holder, repeat, pc>>
semaphore == <<done, doneList, expecting>>
device == <<dev, irq, disk>>
call == <<op, req, buf, secsDone, slept, tries>>
vars == <<lockState, semaphore, device, call>>

Lock == INSTANCE Sync

Sectors == 0..(NSectors - 1)
Offsets == 0..(MaxCnt - 1)

\* the content of a sector or of a place in a buffer: the tag of the request
\* that wrote it and the offset it came from
Blank == <<-1, 0>>
Contents == (Tags \X Offsets) \cup {Blank}

Requests ==
  {r \in [kind: {"read", "write"}, lba: Sectors, cnt: 1..MaxCnt, tag: Tags \cup {-1}] :
     /\ r.lba + r.cnt <= NSectors
     /\ r.kind = "read" <=> r.tag = -1}

NoRequest == [kind |-> "read", lba |-> 0, cnt |-> 1, tag |-> -1]
\* the disk without a command
IdleDisk == [state |-> "idle", kind |-> "read", lba |-> 0, cnt |-> 1]

NoBuf == [i \in Offsets |-> Blank]

Points == {"call", "select", "command", "down", "asleep", "poll", "sleep", "data", "unlock"}

At(t, point) == Lock!Running(t) /\ pc[t] = "run" /\ op[t] = point
Goto(t, point) == op' = [op EXCEPT ![t] = point]

\* the sector count register has 8 bits, and 0 stands for 256
Register(n) == n % Chunk
Count(reg) == IF reg = 0 THEN Chunk ELSE reg

secsPerLoop(t) ==
  IF secsDone[t] + Chunk <= req[t].cnt THEN Chunk ELSE req[t].cnt - secsDone[t]

\* semaDown(diskDone) took the semaphore
AfterDown(t) ==
  IF req[t].kind = "read" THEN "poll"
  ELSE IF secsDone[t] < req[t].cnt THEN "select" ELSE "unlock"

-----------------------------------------------------------------------------
(* ideRead and ideWrite *)

\* the boot thread starts processes when it is done with the disk itself
StartThread(t) ==
  /\ At(Main, "call")
  /\ holder # Main
  /\ Lock!StartThread(Main, t)
  /\ UNCHANGED <<semaphore, device, call>>

\* a process enters the kernel, up to lockLock
Call(t, r) ==
  /\ At(t, "call")
  /\ Lock!LockLock(t)
  /\ Goto(t, "select")
  /\ req' = [req EXCEPT ![t] = r]
  /\ buf' = [buf EXCEPT ![t] = IF r.kind = "read" THEN NoBuf
                                ELSE [i \in Offsets |-> <<r.tag, i>>]]
  /\ secsDone' = [secsDone EXCEPT ![t] = 0]
  /\ UNCHANGED <<semaphore, device, slept, tries>>

\* mutant of Select: expectingIntr is not set
SelectUnexpected(t) ==
  /\ At(t, "select")
  /\ Goto(t, "command")
  /\ UNCHANGED <<lockState, semaphore, device, req, buf, secsDone, slept, tries>>

\* selectDisk, selectSector, and the first half of cmdOut
Select(t) ==
  /\ At(t, "select")
  /\ expecting' = TRUE
  /\ Goto(t, "command")
  /\ UNCHANGED <<lockState, done, doneList, device, req, buf, secsDone, slept, tries>>

\* mutant of Command: every command starts at the first sector of the request
CommandSameLba(t) ==
  /\ At(t, "command")
  /\ dev' = IF dev.state \in {"busy", "flush"} THEN dev
            ELSE [state |-> "busy", kind |-> req[t].kind, lba |-> req[t].lba,
                  cnt |-> Count(Register(secsPerLoop(t)))]
  /\ Goto(t, IF req[t].kind = "read" THEN "down" ELSE "poll")
  /\ tries' = [tries EXCEPT ![t] = 0]
  /\ UNCHANGED <<lockState, semaphore, irq, disk, req, buf, secsDone, slept>>

\* mutant of Command: every command is for a whole chunk
CommandWholeChunk(t) ==
  /\ At(t, "command")
  /\ dev' = IF dev.state \in {"busy", "flush"} THEN dev
            ELSE [state |-> "busy", kind |-> req[t].kind,
                  lba |-> req[t].lba + secsDone[t], cnt |-> Chunk]
  /\ Goto(t, IF req[t].kind = "read" THEN "down" ELSE "poll")
  /\ tries' = [tries EXCEPT ![t] = 0]
  /\ UNCHANGED <<lockState, semaphore, irq, disk, req, buf, secsDone, slept>>

\* the command register is written; a busy disk ignores that
Command(t) ==
  /\ At(t, "command")
  /\ dev' = IF dev.state \in {"busy", "flush"} THEN dev
            ELSE [state |-> "busy", kind |-> req[t].kind,
                  lba |-> req[t].lba + secsDone[t],
                  cnt |-> Count(Register(secsPerLoop(t)))]
  /\ Goto(t, IF req[t].kind = "read" THEN "down" ELSE "poll")
  /\ tries' = [tries EXCEPT ![t] = 0]
  /\ UNCHANGED <<lockState, semaphore, irq, disk, req, buf, secsDone, slept>>

\* semaDown(diskDone)
Down(t) ==
  /\ \/ At(t, "down")
     \/ At(t, "asleep")
  /\ IF done = 0
     THEN /\ doneList' = Append(doneList, t)
          /\ sched' = Asserted(~Contains(doneList, t), ThreadBlock(sched, "BLOCKED"))
          /\ Goto(t, "asleep")
          /\ UNCHANGED done
     ELSE /\ done' = done - 1
          /\ sched' = Asserted(done = 1, sched)
          /\ Goto(t, AfterDown(t))
          /\ UNCHANGED doneList
  /\ UNCHANGED <<lockRest, expecting, device, req, buf, secsDone, slept, tries>>

\* busyWait looks at its limit and then at the status: a disk that is neither
\* busy nor ready for data, or the limit, ends in PANIC
Poll(t) ==
  /\ At(t, "poll")
  /\ IF dev.state \in {"busy", "flush"} /\ tries[t] < MaxTries
     THEN /\ Goto(t, "sleep")
          /\ slept' = [slept EXCEPT ![t] = FALSE]
          /\ tries' = [tries EXCEPT ![t] = @ + 1]
          /\ UNCHANGED sched
     ELSE /\ sched' = Asserted(tries[t] < MaxTries /\ dev.state = "data", sched)
          /\ Goto(t, "data")
          /\ UNCHANGED <<slept, tries>>
  /\ UNCHANGED <<lockRest, semaphore, device, req, buf, secsDone>>

\* sleepMs(10): yield until the tick has come
Sleep(t) ==
  /\ At(t, "sleep")
  /\ IF slept[t]
     THEN Goto(t, "poll") /\ UNCHANGED sched
     ELSE sched' = ThreadYield(sched) /\ UNCHANGED op
  /\ UNCHANGED <<lockRest, semaphore, device, req, buf, secsDone, slept, tries>>

\* readSector and the end of the loop
ReadData(t) ==
  /\ At(t, "data")
  /\ req[t].kind = "read"
  /\ LET n == Count(Register(secsPerLoop(t)))
     IN buf' = [buf EXCEPT ![t] = [i \in Offsets |->
                  IF secsDone[t] <= i /\ i < secsDone[t] + n /\ i < secsDone[t] + dev.cnt
                  THEN disk[dev.lba + i - secsDone[t]] ELSE buf[t][i]]]
  /\ dev' = IdleDisk
  /\ secsDone' = [secsDone EXCEPT ![t] = @ + secsPerLoop(t)]
  /\ Goto(t, IF secsDone[t] + secsPerLoop(t) < req[t].cnt THEN "select" ELSE "unlock")
  /\ UNCHANGED <<lockState, semaphore, irq, disk, req, slept, tries>>

\* writeSector; the disk takes the data over
WriteData(t) ==
  /\ At(t, "data")
  /\ req[t].kind = "write"
  /\ dev' = [dev EXCEPT !.state = "flush"]
  /\ disk' = [s \in Sectors |->
                IF dev.lba <= s /\ s < dev.lba + dev.cnt
                THEN buf[t][secsDone[t] + s - dev.lba] ELSE disk[s]]
  /\ secsDone' = [secsDone EXCEPT ![t] = @ + secsPerLoop(t)]
  /\ Goto(t, "down")
  /\ UNCHANGED <<lockState, semaphore, irq, req, buf, slept, tries>>

\* lockUnlock; the locals of the call are gone
Unlock(t) ==
  /\ At(t, "unlock")
  /\ Lock!LockUnlock(t)
  /\ Goto(t, "call")
  /\ req' = [req EXCEPT ![t] = NoRequest]
  /\ buf' = [buf EXCEPT ![t] = NoBuf]
  /\ secsDone' = [secsDone EXCEPT ![t] = 0]
  /\ slept' = [slept EXCEPT ![t] = TRUE]
  /\ tries' = [tries EXCEPT ![t] = 0]
  /\ UNCHANGED <<semaphore, device>>

\* a step inside lockLock or lockUnlock
InLock(t) ==
  /\ \/ Lock!SemaDownBlock(t)
     \/ Lock!SemaDownTake(t)
     \/ Lock!BecomeHolder(t)
     \/ Lock!SemaUp(t)
  /\ UNCHANGED <<semaphore, device, call>>

-----------------------------------------------------------------------------
(* The disk and the interrupts *)

\* the disk is ready for the data of its command
DiskReady ==
  /\ dev.state = "busy"
  /\ dev' = [dev EXCEPT !.state = "data"]
  /\ irq' = (irq \/ dev.kind = "read")
  /\ UNCHANGED <<lockState, semaphore, disk, call>>

\* the data of a write are on the disk
DiskDone ==
  /\ dev.state = "flush"
  /\ dev' = IdleDisk
  /\ irq' = TRUE
  /\ UNCHANGED <<lockState, semaphore, disk, call>>

\* the IF flag: semaDown(diskDone) turns interrupts off too
IntrOn == ~sched.panic /\ Lock!IntrOn /\ op[sched.cur] # "asleep"

intrHdHandler ==
  /\ irq
  /\ IntrOn
  /\ irq' = FALSE
  /\ LET k == Interrupted(sched)
     IN IF expecting
        THEN /\ expecting' = FALSE
             /\ sched' = Asserted(done = 0, WakeFirst(k, doneList))
             /\ doneList' = DropFirst(k, doneList)
             /\ done' = done + 1
        ELSE sched' = k /\ UNCHANGED semaphore
  /\ UNCHANGED <<lockRest, dev, disk, call>>

TimerIntr ==
  /\ IntrOn
  /\ sched' = TimerTick(Interrupted(sched))
  /\ slept' = [t \in Threads |-> TRUE]
  /\ UNCHANGED <<lockRest, semaphore, device, op, req, buf, secsDone, tries>>

IdleLoop ==
  /\ Lock!IdleLoop
  /\ UNCHANGED <<semaphore, device, call>>

Init == /\ Lock!Init
        /\ done = 0
        /\ doneList = <<>>
        /\ expecting = FALSE
        /\ dev = IdleDisk
        /\ irq = FALSE
        /\ disk = [s \in Sectors |-> <<0, 0>>]
        /\ op = [t \in Tasks |-> "call"]
        /\ req = [t \in Threads |-> NoRequest]
        /\ buf = [t \in Threads |-> NoBuf]
        /\ secsDone = [t \in Threads |-> 0]
        /\ slept = [t \in Threads |-> TRUE]
        /\ tries = [t \in Threads |-> 0]

Step(t) == \/ Select(t) \/ Command(t) \/ Down(t) \/ Poll(t) \/ Sleep(t)
           \/ ReadData(t) \/ WriteData(t) \/ Unlock(t) \/ InLock(t)

Next == \/ \E t \in Threads : Step(t) \/ StartThread(t) \/ \E r \in Requests : Call(t, r)
        \/ DiskReady \/ DiskDone \/ intrHdHandler \/ TimerIntr \/ IdleLoop

Spec == Init /\ [][Next]_vars

-----------------------------------------------------------------------------
(* Properties *)

TypeOK == /\ Lock!TypeOK
          /\ done \in {0, 1}
          /\ doneList \in Seq(Threads)
          /\ expecting \in BOOLEAN
          /\ dev \in [state: {"idle", "busy", "data", "flush"}, kind: {"read", "write"},
                      lba: Sectors, cnt: 1..Chunk]
          /\ irq \in BOOLEAN
          /\ disk \in [Sectors -> Contents]
          /\ op \in [Tasks -> Points]
          /\ req \in [Threads -> Requests]
          /\ buf \in [Threads -> [Offsets -> Contents]]
          /\ secsDone \in [Threads -> 0..MaxCnt]
          /\ slept \in [Threads -> BOOLEAN]
          /\ tries \in [Threads -> 0..MaxTries]

\* When a request is done, the buffer and the sectors of the request agree,
\* offset by offset, however it was cut into commands and whoever else wanted
\* the disk meanwhile.
RequestTransferred ==
  \A t \in Threads :
    op[t] = "unlock" =>
      /\ secsDone[t] = req[t].cnt
      /\ \A i \in 0..(req[t].cnt - 1) : buf[t][i] = disk[req[t].lba + i]

\* A write changes the sectors of its request and no others.
OnlyRequestedSectors ==
  [][\A s \in Sectors :
       disk'[s] # disk[s] =>
         \E r \in {req[sched.cur]} :
           r.kind = "write" /\ r.lba <= s /\ s < r.lba + r.cnt]_vars

\* Whoever sleeps on diskDone is alone there, and its interrupt is still to
\* come: the disk works for it or the request is latched, and it is expected.
InterruptToCome ==
  \A t \in Threads :
    op[t] = "asleep" /\ sched.status[t] = "BLOCKED" =>
      /\ doneList = <<t>>
      /\ expecting
      /\ irq \/ dev.state = "busy" \/ dev.state = "flush"

-----------------------------------------------------------------------------
(* The inductive invariants *)

\* The kernel state is sound until a PANIC.
SchedInv == ~sched.panic => Coherent(sched)

\* The use of the lock: a thread is past lockLock and before lockUnlock exactly
\* while it is the holder, once.
LockUse ==
  /\ Lock!MutualExclusion
  /\ op[Idle] = "call"
  /\ \A t \in Threads :
       /\ holder = t => pc[t] = "run" /\ op[t] # "call" /\ repeat = 1
       /\ pc[t] = "run" /\ op[t] # "call" => holder = t
       /\ pc[t] # "relock"
       /\ pc[t] = "up" => op[t] = "call"
       /\ pc[t] \in {"down", "woken", "own"} => op[t] = "select"

\* The disk, its interrupt and diskDone, seen together
Link == <<dev.state, irq, expecting, done>>

\* the disk has the command of t
Takes(t) == /\ dev.kind = req[t].kind
            /\ dev.lba = req[t].lba + secsDone[t]
            /\ dev.cnt = secsPerLoop(t)

\* Where they are while the holder t is at each point of its call: one interrupt
\* for each command, and nothing left over from the command before.
LinkAt(t) ==
  /\ op[t] \in {"select", "unlock"} => Link = <<"idle", FALSE, FALSE, 0>>
  /\ op[t] = "command" => Link = <<"idle", FALSE, TRUE, 0>>
  /\ op[t] \in {"poll", "sleep", "data"} =>
       /\ Takes(t)
       /\ req[t].kind = "read" => Link = <<"data", FALSE, FALSE, 0>>
       /\ req[t].kind = "write" => Link \in {<<"busy", FALSE, TRUE, 0>>, <<"data", FALSE, TRUE, 0>>}
  /\ op[t] \in {"down", "asleep"} =>
       /\ req[t].kind = "read" =>
            /\ Takes(t)
            /\ Link \in {<<"busy", FALSE, TRUE, 0>>, <<"data", TRUE, TRUE, 0>>, <<"data", FALSE, FALSE, 1>>}
       /\ req[t].kind = "write" =>
            Link \in {<<"flush", FALSE, TRUE, 0>>, <<"idle", TRUE, TRUE, 0>>, <<"idle", FALSE, FALSE, 1>>}

LinkInv == /\ holder = NoThread => Link = <<"idle", FALSE, FALSE, 0>>
           /\ \A t \in Threads : holder = t => LinkAt(t)

\* t has moved the first secsDone sectors and has more to move, unless it is at
\* its end or waits for the last ones to be written
DataAt(t) ==
  /\ secsDone[t] <= req[t].cnt
  /\ holder # t => secsDone[t] = 0
  /\ op[t] \in {"select", "command", "poll", "sleep", "data"} => secsDone[t] < req[t].cnt
  /\ op[t] \in {"down", "asleep"} /\ req[t].kind = "read" => secsDone[t] < req[t].cnt
  /\ op[t] = "unlock" => secsDone[t] = req[t].cnt
  /\ \A i \in 0..(secsDone[t] - 1) : buf[t][i] = disk[req[t].lba + i]

DataInv == \A t \in Threads : DataAt(t)

\* a thread in semaDown(diskDone) sleeps exactly while there is nothing to take
SleepInv ==
  /\ \A t \in Threads :
       op[t] = "asleep" => /\ sched.status[t] = "BLOCKED" <=> done = 0
                           /\ done = 0 => doneList = <<t>>
  /\ (\A t \in Threads : op[t] = "asleep" => done # 0) => doneList = <<>>

IdeInv == TypeOK /\ SchedInv /\ LockUse /\ LinkInv /\ DataInv /\ SleepInv
=============================================================================
