----------------------------- MODULE Keyboard ------------------------------
(***************************************************************************)
(* The keyboard queue in the running system: the interrupt handler of      *)
(* device/keyboard.c puts characters into keyboardBuf on the stack of      *)
(* whichever thread it interrupts, processes take them in sysRead.         *)
(*                                                                         *)
(* The handler and the system calls run with interrupts off, so nothing    *)
(* happens between two steps of ioqueue.c unless the thread sleeps in      *)
(* lockWait, which gives the lock up: no step below ends with the lock     *)
(* held and lockLock never sleeps.  A put or a get is therefore one step   *)
(* up to its end or its lockWait; IoQueue shows that the ring is a FIFO.   *)
(*                                                                         *)
(* frame[t] is the innermost call task t is in: "user" when it runs its    *)
(* own code with interrupts on (for the idle thread, its loop), "get" when *)
(* it waits in sysRead for a character, "put" when the keyboard interrupt  *)
(* found the queue full while t was running and t waits in its place.      *)
(***************************************************************************)
EXTENDS Thread

CONSTANTS Keys,       \* the characters that are typed
          NoKey,      \* no character
          Size,       \* IOQUEUE_BUF_SIZE
          Victims,    \* environment: whom a key may interrupt while the queue
                      \* is full (Tasks in general: see NoPanic)
          MaxTyped    \* bound: how many keys are pressed

ASSUME KeyboardAssumption == /\ Size \in Nat \ {0}
                             /\ MaxTyped \in Nat
                             /\ NoKey \notin Keys
                             /\ Victims \subseteq Tasks

VARIABLES sched,
          queue,        \* content of keyboardBuf, oldest first
          waitingList,  \* its lock's waiting list
          frame,
          pending,      \* the character a task in a "put" frame carries
          typed,        \* history: the characters typed
          got           \* history: the characters delivered, in order

vars == <<sched, queue, waitingList, frame, pending, typed, got>>

Frames == {"user", "get", "put"}

Running(t) == ~sched.panic /\ sched.cur = t

-----------------------------------------------------------------------------
\* lockWait: join the waiting list, give the lock up, sleep
Wait(t, k) ==
  /\ waitingList' = Append(waitingList, t)
  /\ sched' = Asserted(~Contains(waitingList, t), ThreadBlock(k, "WAITING"))

\* mutants of NotifyAll: the list is walked, not popped; nobody is woken
NotifyAllKept(k) ==
  /\ sched' = WakeAll(k, waitingList)
  /\ UNCHANGED waitingList

NotifyNobody(k) ==
  /\ sched' = k
  /\ UNCHANGED waitingList

NotifyAll(k) ==
  /\ sched' = WakeAll(k, waitingList)
  /\ waitingList' = <<>>

\* mutant of Put: a character that finds the queue full is dropped
PutDropping(t, k, c) ==
  /\ IF Len(queue) = Size
     THEN sched' = k /\ UNCHANGED <<queue, waitingList>>
     ELSE NotifyAll(k) /\ queue' = Append(queue, c)
  /\ frame' = [frame EXCEPT ![t] = "user"]
  /\ pending' = [pending EXCEPT ![t] = NoKey]
  /\ UNCHANGED got

\* ioQueuePutChar(c) by task t, from its test of isFull on
Put(t, k, c) ==
  /\ IF Len(queue) = Size
     THEN /\ Wait(t, k)
          /\ frame' = [frame EXCEPT ![t] = "put"]
          /\ pending' = [pending EXCEPT ![t] = c]
          /\ UNCHANGED queue
     ELSE /\ NotifyAll(k)
          /\ queue' = Append(queue, c)
          /\ frame' = [frame EXCEPT ![t] = "user"]
          /\ pending' = [pending EXCEPT ![t] = NoKey]
  /\ UNCHANGED got

\* mutant of Get: the newest character is taken
GetNewest(t, k) ==
  /\ IF queue = <<>>
     THEN /\ Wait(t, k)
          /\ frame' = [frame EXCEPT ![t] = "get"]
          /\ UNCHANGED <<queue, got>>
     ELSE /\ NotifyAll(k)
          /\ got' = Append(got, Last(queue))
          /\ queue' = Front(queue)
          /\ frame' = [frame EXCEPT ![t] = "user"]
  /\ UNCHANGED pending

\* ioQueueGetChar by task t, from its test of isEmpty on
Get(t, k) ==
  /\ IF queue = <<>>
     THEN /\ Wait(t, k)
          /\ frame' = [frame EXCEPT ![t] = "get"]
          /\ UNCHANGED <<queue, got>>
     ELSE /\ NotifyAll(k)
          /\ got' = Append(got, Head(queue))
          /\ queue' = Tail(queue)
          /\ frame' = [frame EXCEPT ![t] = "user"]
  /\ UNCHANGED pending

-----------------------------------------------------------------------------
\* intrKeyBoardHandler with a make code that stands for a character
KeyIntr(c) ==
  /\ ~sched.panic
  /\ frame[sched.cur] = "user"
  /\ Len(typed) < MaxTyped
  /\ Len(queue) = Size => sched.cur \in Victims
  /\ typed' = Append(typed, c)
  /\ Put(sched.cur, Interrupted(sched), c)

\* sysRead(stdin) asks for the next character
Read(t) ==
  /\ Running(t)
  /\ frame[t] = "user"
  /\ Get(t, sched)
  /\ UNCHANGED typed

\* a task that slept in lockWait runs again
Resume(t) ==
  /\ Running(t)
  /\ \/ frame[t] = "put" /\ Put(t, sched, pending[t])
     \/ frame[t] = "get" /\ Get(t, sched)
  /\ UNCHANGED typed

StartThread(u) ==
  /\ Running(Main)
  /\ frame[Main] = "user"
  /\ sched.status[u] = "DIED"
  /\ sched' = ThreadStart(sched, u)
  /\ UNCHANGED <<queue, waitingList, frame, pending, typed, got>>

\* a program that has been read for sleeps on something else (a child, the
\* disk), or goes on
Sleep(t) ==
  /\ Running(t)
  /\ frame[t] = "user"
  /\ sched' = ThreadBlock(sched, "BLOCKED")
  /\ UNCHANGED <<queue, waitingList, frame, pending, typed, got>>

Awaken(u) ==
  /\ ~sched.panic
  /\ frame[sched.cur] = "user"
  /\ sched.status[u] = "BLOCKED"
  /\ sched' = ThreadUnblock(Interrupted(sched), u)
  /\ UNCHANGED <<queue, waitingList, frame, pending, typed, got>>

IdleLoop ==
  /\ Running(Idle)
  /\ frame[Idle] = "user"
  /\ sched.idle # "hlt"
  /\ sched' = IdleStep(sched)
  /\ UNCHANGED <<queue, waitingList, frame, pending, typed, got>>

TimerIntr ==
  /\ ~sched.panic
  /\ frame[sched.cur] = "user"
  /\ sched' = TimerTick(Interrupted(sched))
  /\ UNCHANGED <<queue, waitingList, frame, pending, typed, got>>

Init == /\ sched = KernelInit
        /\ queue = <<>>
        /\ waitingList = <<>>
        /\ frame = [t \in Tasks |-> "user"]
        /\ pending = [t \in Tasks |-> NoKey]
        /\ typed = <<>>
        /\ got = <<>>

Next == \/ \E c \in Keys : KeyIntr(c)
        \/ \E t \in Threads : Read(t) \/ StartThread(t) \/ Sleep(t) \/ Awaken(t)
        \/ \E t \in Tasks : Resume(t)
        \/ IdleLoop \/ TimerIntr

\* the running thread and the idle thread execute their next instruction, a
\* program reads on, the timer is served again and again
Fairness == /\ \A t \in Threads : SF_vars(Read(t)) /\ WF_vars(Awaken(t))
            /\ \A t \in Tasks : SF_vars(Resume(t))
            /\ WF_vars(IdleLoop)
            /\ SF_vars(TimerIntr)

Spec == Init /\ [][Next]_vars
FairSpec == Spec /\ Fairness

-----------------------------------------------------------------------------
(* Properties *)

TypeOK == /\ sched \in KernelState
          /\ queue \in Seq(Keys)
          /\ waitingList \in Seq(Tasks)
          /\ frame \in [Tasks -> Frames]
          /\ pending \in [Tasks -> Keys \cup {NoKey}]
          /\ typed \in Seq(Keys)
          /\ got \in Seq(Keys)

\* As long as no more is typed than the queue holds, what is delivered is what
\* was typed, in that order, whoever read it and whichever thread each key
\* interrupted.  (A full queue ends that: a later key overtakes a waiting one.)
InOrder == Len(typed) <= Size => got \o queue = typed

\* No character is lost or doubled while it waits for room: each one typed is
\* delivered, in the queue, or carried by the one task that waits to put it.
NothingLost ==
  \A c \in Keys :
    LET count(s) == Cardinality({i \in DOMAIN s : s[i] = c})
    IN  count(typed) = count(got) + count(queue)
                       + Cardinality({t \in Tasks : pending[t] = c})

\* A reader sleeps only while there is nothing to read: while a character is
\* in the queue no sleeper still waits for one.
NoSleepOnInput ==
  queue # <<>> => \A t \in Tasks : frame[t] = "get" => sched.status[t] # "WAITING"

\* Every task asleep in lockWait is on the waiting list once, and only those:
\* the ASSERT at the head of lockWait rests on it.
WaitersListed ==
  /\ IsInjective(waitingList)
  /\ \A t \in Tasks : Contains(waitingList, t) <=> sched.status[t] = "WAITING"

\* No ASSERT fails, in particular not the one in lockWait that the thread is
\* not on the waiting list already.
NoPanic == ~sched.panic

\* The tasks that wait to put c.
Carriers(c) == {t \in Tasks : pending[t] = c}

\* The inductive invariant of the characters' way, wherever the tasks sleep:
\* a task carries a character exactly in a "put" frame, and as long as no more
\* is typed than the queue holds nobody does.
FlowInv == /\ TypeOK
           /\ \A t \in Tasks : frame[t] = "put" <=> pending[t] # NoKey
           /\ Len(queue) <= Size
           /\ Len(typed) <= Size => \A t \in Tasks : frame[t] # "put"
           /\ InOrder
           /\ NothingLost
           /\ \A c \in Keys : IsFiniteSet(Carriers(c))

\* The inductive invariant of the sleepers, when no key interrupts the idle
\* thread while the queue is full.
SleepInv == /\ Coherent(sched)
            /\ waitingList \in Seq(Threads)
            /\ frame[Idle] = "user"
            /\ WaitersListed
            /\ NoSleepOnInput

\* Typed characters reach the programs.  (Not once a key has found the queue
\* full: the program it interrupted waits in its frame for somebody else to
\* read, and if every program that reads was interrupted so, nobody ever does.)
InputDelivered ==
  queue # <<>> ~> queue = <<>> \/ \E t \in Tasks : frame[t] = "put"
=============================================================================
