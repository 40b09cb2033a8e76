------------------------------ MODULE IoQueue ------------------------------
(***************************************************************************)
(* The bounded character queue of lib/structure/ioqueue.c, on the lock of  *)
(* sync.c: producers that put for ever and consumers that get for ever.    *)
(*                                                                         *)
(* op[t] is where thread t is in ioQueuePutChar or ioQueueGetChar:         *)
(*   "call"     before lockLock                                            *)
(*   "test"     at the while loop on isFull / isEmpty, in or before        *)
(*              lockWait                                                   *)
(*   "copy"     before the buffer is written or read                       *)
(*   "advance"  before head / tail and the two flags move                  *)
(*   "notify"   before lockNotifyAll                                       *)
(*   "unlock"   before lockUnlock                                          *)
(* The steps inside the lock's own operations are those of Sync.           *)
(***************************************************************************)
EXTENDS Sync

CONSTANTS Producers,  \* the threads that put
          Items,      \* the characters they put
          NoItem,     \* an unwritten buffer slot or variable
          Size        \* IOQUEUE_BUF_SIZE

ASSUME IoQueueAssumption ==
  /\ Producers \subseteq Threads
  /\ Size \in Nat \ {0}
  /\ NoItem \notin Items

VARIABLES buf,              \* IOQueue.buf
          head, tail,       \* where the next put writes, the next get reads
          isEmpty, isFull,
          char,             \* elem of a put, res of a get, one per thread
          op,
          last              \* history: the character the last get returned

ring == <<buf, head, tail, isEmpty, isFull>>
queueVars == <<vars, ring, char, op, last>>

Consumers == Threads \ Producers

QueuePoints == {"call", "test", "copy", "advance", "notify", "unlock"}

nextPos(p) == (p + 1) % Size

\* thread t executes ioqueue.c, not sync.c
At(t, point) == pc[t] = "run" /\ op[t] = point

MoveOn(t, point) == op' = [op EXCEPT ![t] = point]

-----------------------------------------------------------------------------
\* the boot thread starts the others before it uses the queue itself
StartOther(t) ==
  /\ At(Main, "call")
  /\ StartThread(Main, t)
  /\ UNCHANGED <<ring, char, op, last>>

AllStarted == \A t \in Threads : sched.status[t] # "DIED"

Call(t) ==
  /\ At(t, "call")
  /\ t = Main => AllStarted
  /\ LockLock(t)
  /\ \/ t \in Producers /\ \E x \in Items : char' = [char EXCEPT ![t] = x]
     \/ t \in Consumers /\ UNCHANGED char
  /\ MoveOn(t, "test")
  /\ UNCHANGED <<ring, last>>

MustWait(t) == IF t \in Producers THEN isFull ELSE isEmpty

\* mutant of Wait: isFull / isEmpty is tested with an if, not a while
WaitOnce(t) ==
  /\ At(t, "test")
  /\ MustWait(t)
  /\ LockWait(t)
  /\ MoveOn(t, "copy")
  /\ UNCHANGED <<ring, char, last>>

Wait(t) ==
  /\ At(t, "test")
  /\ MustWait(t)
  /\ LockWait(t)
  /\ UNCHANGED <<ring, char, op, last>>

Proceed(t) ==
  /\ Running(t)
  /\ At(t, "test")
  /\ ~MustWait(t)
  /\ MoveOn(t, "copy")
  /\ UNCHANGED <<vars, ring, char, last>>

Copy(t) ==
  /\ Running(t)
  /\ At(t, "copy")
  /\ IF t \in Producers
     THEN buf' = [buf EXCEPT ![head] = char[t]] /\ UNCHANGED char
     ELSE char' = [char EXCEPT ![t] = buf[tail]] /\ UNCHANGED buf
  /\ MoveOn(t, "advance")
  /\ UNCHANGED <<vars, head, tail, isEmpty, isFull, last>>

\* mutant of AdvanceHead: the queue never counts as full
AdvanceHeadNotFull(t) ==
  /\ Running(t)
  /\ At(t, "advance")
  /\ t \in Producers
  /\ head' = nextPos(head)
  /\ isEmpty' = FALSE
  /\ MoveOn(t, "notify")
  /\ UNCHANGED <<vars, buf, tail, isFull, char, last>>

AdvanceHead(t) ==
  /\ Running(t)
  /\ At(t, "advance")
  /\ t \in Producers
  /\ head' = nextPos(head)
  /\ isEmpty' = FALSE
  /\ isFull' = (isFull \/ head' = tail)
  /\ MoveOn(t, "notify")
  /\ UNCHANGED <<vars, buf, tail, char, last>>

AdvanceTail(t) ==
  /\ Running(t)
  /\ At(t, "advance")
  /\ t \in Consumers
  /\ tail' = nextPos(tail)
  /\ isFull' = FALSE
  /\ isEmpty' = (isEmpty \/ tail' = head)
  /\ last' = char[t]
  /\ MoveOn(t, "notify")
  /\ UNCHANGED <<vars, buf, head, char>>

\* mutant of NotifyAll: no notification
NotifyNobody(t) ==
  /\ Running(t)
  /\ At(t, "notify")
  /\ MoveOn(t, "unlock")
  /\ UNCHANGED <<vars, ring, char, last>>

NotifyAll(t) ==
  /\ At(t, "notify")
  /\ LockNotifyAll(t)
  /\ MoveOn(t, "unlock")
  /\ UNCHANGED <<ring, char, last>>

Unlock(t) ==
  /\ At(t, "unlock")
  /\ LockUnlock(t)
  /\ MoveOn(t, "call")
  /\ UNCHANGED <<ring, char, last>>

\* a step inside sync.c, after lockLock, lockUnlock or lockWait was called
InLock(t) ==
  /\ \/ pc[t] # "run" /\ LockLock(t)
     \/ SemaDownBlock(t)
     \/ SemaDownTake(t)
     \/ BecomeHolder(t)
     \/ SemaUp(t)
  /\ UNCHANGED <<ring, char, op, last>>

Background ==
  /\ IdleLoop \/ TimerIntr
  /\ UNCHANGED <<ring, char, op, last>>

QueueInit == /\ Init
        /\ buf = [i \in 0..(Size - 1) |-> NoItem]
        /\ head = 0
        /\ tail = 0
        /\ isEmpty = TRUE
        /\ isFull = FALSE
        /\ char = [t \in Threads |-> NoItem]
        /\ op = [t \in Threads |-> "call"]
        /\ last = NoItem

Step(t) == \/ Call(t) \/ Wait(t) \/ Proceed(t) \/ Copy(t)
           \/ AdvanceHead(t) \/ AdvanceTail(t) \/ NotifyAll(t) \/ Unlock(t)
           \/ InLock(t)

QueueNext == \/ \E t \in Threads : Step(t) \/ StartOther(t)
        \/ Background

QueueSpec == QueueInit /\ [][QueueNext]_queueVars

-----------------------------------------------------------------------------
(* Properties *)

QueueTypeOK == /\ TypeOK
          /\ buf \in [0..(Size - 1) -> Items \cup {NoItem}]
          /\ head \in 0..(Size - 1)
          /\ tail \in 0..(Size - 1)
          /\ isEmpty \in BOOLEAN
          /\ isFull \in BOOLEAN
          /\ char \in [Threads -> Items \cup {NoItem}]
          /\ op \in [Threads -> QueuePoints]
          /\ last \in Items \cup {NoItem}

\* The content of the ring, from tail to head; head and tail also meet when
\* the ring is full, and the flags say which it is.
Content ==
  LET n == IF isFull THEN Size ELSE (head - tail) % Size
  IN [i \in 1..n |-> buf[(tail + i - 1) % Size]]

\* Between the wakeup of a waiting thread and its own test of the flags other
\* threads run.  A thread that copies or moves the ring still finds the room
\* or the item it tested for, and holds the lock.
TestStillHolds ==
  \A t \in Threads :
    op[t] \in {"copy", "advance"} => holder = t /\ ~MustWait(t)

\* Some thread is always on its way: not all of them sleep in lockWait.
NotAllWaiting == \E t \in Threads : sched.status[t] # "WAITING"

\* The inductive invariant of the use of the lock: a thread is past lockLock and
\* before lockUnlock exactly while it is the holder, once.
LockUse ==
  /\ value \in {0, 1}
  /\ holder \in Threads \cup {NoThread}
  /\ pc \in [Threads \cup {Idle} -> Points]
  /\ op \in [Threads -> QueuePoints]
  /\ MutualExclusion
  /\ \A t \in Threads :
       /\ holder = t => pc[t] = "run" /\ op[t] # "call" /\ repeat = 1
       /\ pc[t] = "run" /\ op[t] # "call" => holder = t
       /\ pc[t] = "up" => op[t] = "call"
       /\ pc[t] \in {"down", "woken", "own", "relock"} => op[t] = "test"

\* The inductive invariant of the ring: the flags say what head and tail leave
\* open, and the character on its way is the one in the ring.
RingInv ==
  /\ buf \in [0..(Size - 1) -> Items \cup {NoItem}]
  /\ head \in 0..(Size - 1)
  /\ tail \in 0..(Size - 1)
  /\ isEmpty \in BOOLEAN
  /\ isFull \in BOOLEAN
  /\ char \in [Threads -> Items \cup {NoItem}]
  /\ ~(isEmpty /\ isFull)
  /\ isEmpty \/ isFull <=> head = tail
  /\ TestStillHolds
  /\ \A t \in Threads :
       /\ t \in Producers /\ op[t] # "call" => char[t] \in Items
       /\ op[t] = "advance" => char[t] = buf[IF t \in Producers THEN head ELSE tail]

\* A thread sleeps in lockWait for a flag that still says so, or a thread is
\* about to wake it.
SleepInv ==
  \A t \in Threads :
    Contains(waitingList, t) => MustWait(t) \/ \E u \in Threads : op[u] = "notify"

Fifo == INSTANCE BoundedFifo WITH queue <- Content, Capacity <- Size

\* Whatever the preemptions, the queue is a bounded FIFO: no character is
\* lost, repeated, overtaken or overwritten.
ImplementsFifo == Fifo!Spec
=============================================================================
