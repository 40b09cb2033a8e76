--------------------------- MODULE KeyboardProofs ---------------------------
(***************************************************************************)
(* The keyboard queue, for every set of threads, size and number of keys.  *)
(***************************************************************************)
EXTENDS Keyboard, ThreadProofs, FiniteSetTheorems

-----------------------------------------------------------------------------
(* Counting characters *)

\* Where c is in a sequence.
Places(s, c) == {i \in DOMAIN s : s[i] = c}

Count(s, c) == Cardinality(Places(s, c))

\* The places are finitely many.
LEMMA PlacesFinite ==
  ASSUME NEW s \in Seq(Keys), NEW c
  PROVE  IsFiniteSet(Places(s, c)) /\ Count(s, c) \in Nat
<1>1. Places(s, c) \in SUBSET (1 .. Len(s)) /\ Len(s) \in Nat
  BY DEF Places
<1>2. IsFiniteSet(1 .. Len(s))
  BY <1>1, FS_Interval
<1>3. QED
  BY <1>1, <1>2, FS_Subset, FS_CardinalityType DEF Count

\* A character more at the end counts once.
LEMMA CountAppend ==
  ASSUME NEW s \in Seq(Keys), NEW x \in Keys, NEW c
  PROVE  Count(Append(s, x), c) = IF x = c THEN Count(s, c) + 1 ELSE Count(s, c)
<1>1. /\ Append(s, x) \in Seq(Keys) /\ Len(s) \in Nat
      /\ Len(Append(s, x)) = Len(s) + 1
      /\ \A i \in 1 .. Len(s) : Append(s, x)[i] = s[i]
      /\ Append(s, x)[Len(s) + 1] = x
  OBVIOUS
<1>2. Len(s) + 1 \notin Places(s, c)
  BY <1>1 DEF Places
<1>3. CASE x = c
  <2>1. Places(Append(s, x), c) = Places(s, c) \cup {Len(s) + 1}
    BY <1>1, <1>3 DEF Places
  <2>2. QED
    BY <1>2, <1>3, <2>1, PlacesFinite, FS_AddElement DEF Count
<1>4. CASE x # c
  <2>1. Places(Append(s, x), c) = Places(s, c)
    BY <1>1, <1>4 DEF Places
  <2>2. QED
    BY <1>4, <2>1 DEF Count
<1>5. QED
  BY <1>3, <1>4

\* A sequence counts what its head and its tail count.
LEMMA CountTail ==
  ASSUME NEW s \in Seq(Keys), s # <<>>, NEW c
  PROVE  Count(s, c) = IF Head(s) = c THEN Count(Tail(s), c) + 1 ELSE Count(Tail(s), c)
<1>1. /\ Tail(s) \in Seq(Keys) /\ Len(s) \in Nat \ {0}
      /\ Len(Tail(s)) = Len(s) - 1
      /\ \A i \in 1 .. Len(s) - 1 : Tail(s)[i] = s[i + 1]
      /\ Head(s) = s[1]
  OBVIOUS
<1> DEFINE P == Places(Tail(s), c)
           Q == {i \in 2 .. Len(s) : s[i] = c}
           shift == [i \in P |-> i + 1]
<1>2. IsFiniteSet(P) /\ Cardinality(P) \in Nat
  BY <1>1, PlacesFinite DEF Count
<1>3. shift \in Bijection(P, Q)
  <2>1. shift \in [P -> Q]
    BY <1>1 DEF Places
  <2>2. \A i, j \in P : shift[i] = shift[j] => i = j
    BY <1>1 DEF Places
  <2>3. \A q \in Q : q - 1 \in P /\ shift[q - 1] = q
    BY <1>1 DEF Places
  <2> HIDE DEF shift, P, Q
  <2>4. \A q \in Q : \E p \in P : shift[p] = q
    BY <2>3
  <2>5. QED
    BY <2>1, <2>2, <2>4 DEF Bijection, Injection, Surjection, IsInjective
<1>4. IsFiniteSet(Q) /\ Cardinality(Q) = Cardinality(P)
  BY <1>2, <1>3, FS_Bijection DEF ExistsBijection
<1>5. CASE Head(s) = c
  <2>1. Places(s, c) = Q \cup {1} /\ 1 \notin Q
    BY <1>1, <1>5 DEF Places
  <2>2. QED
    BY <1>2, <1>4, <1>5, <2>1, FS_AddElement DEF Count
<1>6. CASE Head(s) # c
  <2>1. Places(s, c) = Q
    BY <1>1, <1>6 DEF Places
  <2>2. QED
    BY <1>4, <1>6, <2>1 DEF Count
<1>7. QED
  BY <1>5, <1>6

-----------------------------------------------------------------------------
(* The way of the characters *)

Balanced(c) == Count(typed, c) = Count(got, c) + Count(queue, c) + Cardinality(Carriers(c))

\* NothingLost in these terms.
LEMMA BalancedIs ==
  /\ NothingLost <=> \A c \in Keys : Balanced(c)
  /\ NothingLost' <=> \A c \in Keys : Balanced(c)'
BY DEF NothingLost, Balanced, Count, Places, Carriers

\* A task that begins to carry a character is one carrier more.
LEMMA CarriersAdd ==
  ASSUME NEW t \in Tasks, NEW x \in Keys, NEW c, c # NoKey,
         pending \in [Tasks -> Keys \cup {NoKey}], IsFiniteSet(Carriers(c)),
         pending[t] = NoKey, pending' = [pending EXCEPT ![t] = x]
  PROVE  /\ IsFiniteSet(Carriers(c)')
         /\ Cardinality(Carriers(c)') = IF x = c THEN Cardinality(Carriers(c)) + 1
                                        ELSE Cardinality(Carriers(c))
<1>1. t \notin Carriers(c)
  BY DEF Carriers
<1>2. Carriers(c)' = IF x = c THEN Carriers(c) \cup {t} ELSE Carriers(c)
  BY DEF Carriers
<1>3. CASE x = c
  <2>1. Carriers(c)' = Carriers(c) \cup {t}
    BY <1>2, <1>3
  <2>2. QED
    BY <1>1, <1>3, <2>1, FS_AddElement
<1>4. CASE x # c
  BY <1>2, <1>4
<1>5. QED
  BY <1>3, <1>4

\* One that has put its character is one carrier less.
LEMMA CarriersRemove ==
  ASSUME NEW t \in Tasks, NEW x \in Keys, NEW c, c # NoKey,
         pending \in [Tasks -> Keys \cup {NoKey}], IsFiniteSet(Carriers(c)),
         pending[t] = x, pending' = [pending EXCEPT ![t] = NoKey]
  PROVE  /\ IsFiniteSet(Carriers(c)')
         /\ Cardinality(Carriers(c)') = IF x = c THEN Cardinality(Carriers(c)) - 1
                                        ELSE Cardinality(Carriers(c))
<1>1. x = c <=> t \in Carriers(c)
  BY DEF Carriers
<1>2. Carriers(c)' = IF x = c THEN Carriers(c) \ {t} ELSE Carriers(c)
  BY DEF Carriers
<1>3. CASE x = c
  <2>1. Carriers(c)' = Carriers(c) \ {t}
    BY <1>2, <1>3
  <2>2. QED
    BY <1>1, <1>3, <2>1, FS_RemoveElement
<1>4. CASE x # c
  BY <1>2, <1>4
<1>5. QED
  BY <1>3, <1>4

\* Both outcomes of a put leave a kernel state and a list of tasks.
LEMMA WaitTyped ==
  ASSUME NEW k \in KernelState, waitingList \in Seq(Tasks), NEW t \in Tasks,
         Wait(t, k) \/ NotifyAll(k)
  PROVE  sched' \in KernelState /\ waitingList' \in Seq(Tasks)
<1>1. CASE Wait(t, k)
  <2> DEFINE b == ThreadBlock(k, "WAITING")
  <2>1. b \in KernelState
    BY BlockTyped DEF Asleep
  <2>2. sched' \in {b, Panicked(b)} /\ waitingList' = Append(waitingList, t)
    BY <1>1 DEF Wait, Asserted
  <2> HIDE DEF b
  <2>3. QED
    BY <2>1, <2>2, AssertedTyped
<1>2. CASE NotifyAll(k)
  BY <1>2, WakeAllTyped DEF NotifyAll
<1>3. QED
  BY <1>1, <1>2

\* The interrupt handler puts its character, or carries it while it waits.
LEMMA KeyIntrFlow ==
  ASSUME FlowInv, NEW x \in Keys, KeyIntr(x)
  PROVE  FlowInv'
<1> DEFINE t == sched.cur
           k == Interrupted(sched)
<1>1. /\ t \in Tasks /\ k \in KernelState
      /\ frame[t] = "user" /\ pending[t] = NoKey
      /\ typed' = Append(typed, x) /\ got' = got
      /\ Put(t, k, x)
  BY TickTyped DEF KeyIntr, FlowInv, TypeOK, KernelState, Put
<1> HIDE DEF t, k
<1>2. sched' \in KernelState /\ waitingList' \in Seq(Tasks)
  BY <1>1, WaitTyped DEF Put, FlowInv, TypeOK
<1>3. /\ typed' \in Seq(Keys) /\ Len(typed') = Len(typed) + 1 /\ Len(typed) \in Nat
      /\ Len(queue) \in Nat /\ Len(got) \in Nat
      /\ \A c \in Keys : Count(typed', c) = IF x = c THEN Count(typed, c) + 1
                                            ELSE Count(typed, c)
  BY <1>1, CountAppend DEF FlowInv, TypeOK
<1>4. Len(typed) <= Size => Len(queue) <= Len(typed)
  <2>1. Len(got \o queue) = Len(got) + Len(queue)
    BY DEF FlowInv, TypeOK
  <2>2. QED
    BY <1>3, <2>1 DEF FlowInv, InOrder
<1>5. CASE Len(queue) = Size
  <2>1. /\ queue' = queue /\ frame' = [frame EXCEPT ![t] = "put"]
        /\ pending' = [pending EXCEPT ![t] = x]
    BY <1>1, <1>5 DEF Put
  <2>2. ~(Len(typed') <= Size)
    BY <1>3, <1>4, <1>5, KeyboardAssumption
  <2>3. TypeOK'
    BY <1>1, <1>2, <1>3, <2>1 DEF FlowInv, TypeOK, Frames
  <2>4. \A u \in Tasks : frame'[u] = "put" <=> pending'[u] # NoKey
    BY <1>1, <2>1, KeyboardAssumption DEF FlowInv, TypeOK
  <2>5. ASSUME NEW c \in Keys PROVE IsFiniteSet(Carriers(c)') /\ Balanced(c)'
    <3>1. /\ IsFiniteSet(Carriers(c)) /\ c # NoKey /\ Balanced(c)
          /\ Cardinality(Carriers(c)) \in Nat
      BY BalancedIs, KeyboardAssumption, FS_CardinalityType DEF FlowInv
    <3>2. /\ IsFiniteSet(Carriers(c)')
          /\ Cardinality(Carriers(c)') = IF x = c THEN Cardinality(Carriers(c)) + 1
                                         ELSE Cardinality(Carriers(c))
      <4>1. pending \in [Tasks -> Keys \cup {NoKey}]
        BY DEF FlowInv, TypeOK
      <4>2. QED
        BY <1>1, <2>1, <3>1, <4>1, CarriersAdd
    <3>3. Count(got, c) \in Nat /\ Count(queue, c) \in Nat
      BY PlacesFinite DEF FlowInv, TypeOK
    <3>4. Count(typed', c) = Count(got', c) + Count(queue', c) + Cardinality(Carriers(c)')
      BY <1>1, <1>3, <2>1, <3>1, <3>2, <3>3 DEF Balanced
    <3>5. QED
      BY <3>2, <3>4 DEF Balanced, Count, Places
  <2>6. QED
    BY <2>1, <2>2, <2>3, <2>4, <2>5, BalancedIs DEF FlowInv, InOrder
<1>6. CASE Len(queue) # Size
  <2>1. /\ queue' = Append(queue, x) /\ frame' = [frame EXCEPT ![t] = "user"]
        /\ pending' = [pending EXCEPT ![t] = NoKey]
    BY <1>1, <1>6 DEF Put
  <2>2. /\ pending' = pending /\ frame' = frame
        /\ queue' \in Seq(Keys) /\ Len(queue') = Len(queue) + 1
    BY <1>1, <2>1 DEF FlowInv, TypeOK
  <2>3. TypeOK'
    BY <1>1, <1>2, <1>3, <2>1, <2>2 DEF FlowInv, TypeOK
  <2>4. got \o Append(queue, x) = Append(got \o queue, x)
    BY DEF FlowInv, TypeOK
  <2>5. InOrder'
    BY <1>1, <1>3, <2>1, <2>4, KeyboardAssumption DEF FlowInv, InOrder
  <2>6. ASSUME NEW c \in Keys PROVE IsFiniteSet(Carriers(c)') /\ Balanced(c)'
    <3>1. Balanced(c) /\ IsFiniteSet(Carriers(c)) /\ Carriers(c)' = Carriers(c)
      BY <2>2, BalancedIs DEF FlowInv, Carriers
    <3>2. /\ Count(got, c) \in Nat /\ Count(queue, c) \in Nat
          /\ Cardinality(Carriers(c)) \in Nat
      BY <3>1, PlacesFinite, FS_CardinalityType DEF FlowInv, TypeOK
    <3>3. Count(queue', c) = IF x = c THEN Count(queue, c) + 1 ELSE Count(queue, c)
      BY <2>1, CountAppend DEF FlowInv, TypeOK
    <3>4. Count(typed', c) = Count(got', c) + Count(queue', c) + Cardinality(Carriers(c)')
      BY <1>1, <1>3, <3>1, <3>2, <3>3 DEF Balanced
    <3>5. QED
      BY <3>1, <3>4 DEF Balanced, Count, Places
  <2>7. Len(queue') <= Size
    BY <1>3, <1>6, <2>2, KeyboardAssumption DEF FlowInv
  <2>8. Len(typed') <= Size => \A u \in Tasks : frame'[u] # "put"
    BY <1>3, <2>2, KeyboardAssumption DEF FlowInv
  <2>9. QED
    BY <2>2, <2>3, <2>5, <2>6, <2>7, <2>8, BalancedIs DEF FlowInv
<1>7. QED
  BY <1>5, <1>6

\* A task that waited for room puts the character it carries, or waits on.
LEMMA ResumePutFlow ==
  ASSUME FlowInv, NEW t \in Tasks, frame[t] = "put", Put(t, sched, pending[t]),
         typed' = typed
  PROVE  FlowInv'
<1> DEFINE x == pending[t]
<1>1. /\ sched \in KernelState /\ x \in Keys /\ x # NoKey /\ got' = got
      /\ pending \in [Tasks -> Keys \cup {NoKey}]
  BY KeyboardAssumption DEF FlowInv, TypeOK, Put
<1>2. sched' \in KernelState /\ waitingList' \in Seq(Tasks)
  BY <1>1, WaitTyped DEF Put, FlowInv, TypeOK
<1>3. ~(Len(typed') <= Size)
  BY DEF FlowInv
<1>4. CASE Len(queue) = Size
  <2>1. /\ queue' = queue /\ frame' = [frame EXCEPT ![t] = "put"]
        /\ pending' = [pending EXCEPT ![t] = x]
    BY <1>4 DEF Put
  <2>2. frame' = frame /\ pending' = pending
    BY <1>1, <2>1 DEF FlowInv, TypeOK
  <2>3. TypeOK'
    BY <1>1, <1>2, <2>1, <2>2 DEF FlowInv, TypeOK
  <2>4. UNCHANGED <<queue, pending, typed, got>>
    BY <1>1, <2>1, <2>2
  <2>5. NothingLost'
    BY <2>4 DEF FlowInv, NothingLost
  <2>6. QED
    BY <1>3, <1>4, <2>1, <2>2, <2>3, <2>5 DEF FlowInv, InOrder, Carriers
<1>5. CASE Len(queue) # Size
  <2>1. /\ queue' = Append(queue, x) /\ frame' = [frame EXCEPT ![t] = "user"]
        /\ pending' = [pending EXCEPT ![t] = NoKey]
    BY <1>5 DEF Put
  <2>2. queue' \in Seq(Keys) /\ Len(queue') = Len(queue) + 1 /\ Len(queue) \in Nat
    BY <1>1, <2>1 DEF FlowInv, TypeOK
  <2>3. TypeOK'
    BY <1>1, <1>2, <2>1, <2>2 DEF FlowInv, TypeOK, Frames
  <2>4. \A u \in Tasks : frame'[u] = "put" <=> pending'[u] # NoKey
    BY <2>1 DEF FlowInv, TypeOK
  <2>5. ASSUME NEW c \in Keys PROVE IsFiniteSet(Carriers(c)') /\ Balanced(c)'
    <3>1. /\ IsFiniteSet(Carriers(c)) /\ c # NoKey /\ Balanced(c)
          /\ Cardinality(Carriers(c)) \in Nat
      BY BalancedIs, KeyboardAssumption, FS_CardinalityType DEF FlowInv
    <3>2. /\ IsFiniteSet(Carriers(c)')
          /\ Cardinality(Carriers(c)') = IF x = c THEN Cardinality(Carriers(c)) - 1
                                         ELSE Cardinality(Carriers(c))
      BY <1>1, <2>1, <3>1, CarriersRemove
    <3>3. Count(got, c) \in Nat /\ Count(queue, c) \in Nat
      BY PlacesFinite DEF FlowInv, TypeOK
    <3>4. Count(queue', c) = IF x = c THEN Count(queue, c) + 1 ELSE Count(queue, c)
      BY <1>1, <2>1, CountAppend DEF FlowInv, TypeOK
    <3>5. Count(typed', c) = Count(got', c) + Count(queue', c) + Cardinality(Carriers(c)')
      BY <1>1, <3>1, <3>2, <3>3, <3>4 DEF Balanced
    <3>6. QED
      BY <3>2, <3>5 DEF Balanced, Count, Places
  <2>6. Len(queue') <= Size
    BY <1>5, <2>2, KeyboardAssumption DEF FlowInv
  <2>7. QED
    BY <1>3, <2>3, <2>4, <2>5, <2>6, BalancedIs DEF FlowInv, InOrder
<1>6. QED
  BY <1>4, <1>5

\* A reader takes the oldest character, or waits for one.
LEMMA GetFlow ==
  ASSUME FlowInv, NEW t \in Tasks, frame[t] # "put", Get(t, sched), typed' = typed
  PROVE  FlowInv'
<1>1. /\ sched \in KernelState /\ pending' = pending
      /\ queue \in Seq(Keys) /\ got \in Seq(Keys)
  BY DEF FlowInv, TypeOK, Get
<1>2. sched' \in KernelState /\ waitingList' \in Seq(Tasks)
  BY <1>1, WaitTyped DEF Get, FlowInv, TypeOK
<1>3. frame' \in [Tasks -> Frames] /\ \A u \in Tasks : frame'[u] = "put" <=> frame[u] = "put"
  BY DEF Get, FlowInv, TypeOK, Frames
<1>4. CASE queue = <<>>
  <2>1. queue' = queue /\ got' = got
    BY <1>4 DEF Get
  <2>2. TypeOK'
    BY <1>1, <1>2, <1>3, <2>1 DEF FlowInv, TypeOK
  <2>3. NothingLost' /\ InOrder'
    BY <1>1, <2>1 DEF FlowInv, NothingLost, InOrder
  <2>4. QED
    BY <1>1, <1>3, <2>1, <2>2, <2>3 DEF FlowInv, Carriers
<1>5. CASE queue # <<>>
  <2>1. got' = Append(got, Head(queue)) /\ queue' = Tail(queue)
    BY <1>5 DEF Get
  <2>2. /\ Head(queue) \in Keys /\ queue' \in Seq(Keys) /\ got' \in Seq(Keys)
        /\ Len(queue') = Len(queue) - 1
    BY <1>1, <1>5, <2>1
  <2>3. TypeOK'
    BY <1>1, <1>2, <1>3, <2>2 DEF FlowInv, TypeOK
  <2>4. Append(got, Head(queue)) \o Tail(queue) = got \o queue
    BY <1>1, <1>5
  <2>5. InOrder'
    BY <2>1, <2>4 DEF FlowInv, InOrder
  <2>6. ASSUME NEW c \in Keys PROVE Balanced(c)'
    <3>1. Balanced(c) /\ Cardinality(Carriers(c)) \in Nat
      BY BalancedIs, FS_CardinalityType DEF FlowInv
    <3>2. Count(got, c) \in Nat /\ Count(queue', c) \in Nat
      BY <1>1, <2>2, PlacesFinite
    <3>3. Count(queue, c) = IF Head(queue) = c THEN Count(queue', c) + 1 ELSE Count(queue', c)
      BY <1>1, <1>5, <2>1, CountTail
    <3>4. Count(got', c) = IF Head(queue) = c THEN Count(got, c) + 1 ELSE Count(got, c)
      BY <1>1, <2>1, <2>2, CountAppend
    <3>5. Count(typed', c) = Count(got', c) + Count(queue', c) + Cardinality(Carriers(c))
      BY <3>1, <3>2, <3>3, <3>4 DEF Balanced
    <3>6. QED
      BY <1>1, <3>5 DEF Balanced, Count, Places, Carriers
  <2>7. Len(queue') <= Size
    BY <1>1, <2>2, KeyboardAssumption DEF FlowInv
  <2>8. QED
    BY <1>1, <1>3, <2>3, <2>5, <2>6, <2>7, BalancedIs DEF FlowInv, Carriers
<1>6. QED
  BY <1>4, <1>5

\* What else happens touches no character.
LEMMA OthersFlow ==
  ASSUME FlowInv, sched' \in KernelState,
         UNCHANGED <<queue, waitingList, frame, pending, typed, got>>
  PROVE  FlowInv'
BY DEF FlowInv, TypeOK, InOrder, NothingLost, Carriers

\* No task sleeps and no character is there at the start.
LEMMA FlowInit == Init => FlowInv
<1> SUFFICES ASSUME Init PROVE FlowInv
  OBVIOUS
<1> USE DEF Init
<1>1. sched \in KernelState
  BY KernelInitCoherent DEF Coherent
<1>2. TypeOK
  BY <1>1 DEF TypeOK, Frames
<1>3. ASSUME NEW c \in Keys PROVE Carriers(c) = {} /\ Places(<<>>, c) = {}
  BY <1>3, KeyboardAssumption DEF Carriers, Places
<1>4. ASSUME NEW c \in Keys PROVE IsFiniteSet(Carriers(c)) /\ Balanced(c)
  <2>1. Cardinality({}) = 0 /\ IsFiniteSet({})
    BY FS_EmptySet
  <2>2. QED
    BY <1>3, <2>1 DEF Balanced, Count
<1>5. QED
  BY <1>2, <1>4, BalancedIs, KeyboardAssumption DEF FlowInv, InOrder

\* Every step keeps it.
LEMMA FlowStep == FlowInv /\ [Next]_vars => FlowInv'
<1> SUFFICES ASSUME FlowInv, [Next]_vars PROVE FlowInv'
  OBVIOUS
<1>1. sched \in KernelState /\ Threads \subseteq Tasks
  BY DEF FlowInv, TypeOK, Tasks
<1>2. ASSUME NEW x \in Keys, KeyIntr(x) PROVE FlowInv'
  BY <1>2, KeyIntrFlow
<1>3. ASSUME NEW t \in Threads, Read(t) PROVE FlowInv'
  BY <1>1, <1>3, GetFlow DEF Read
<1>4. ASSUME NEW t \in Tasks, Resume(t) PROVE FlowInv'
  <2>1. CASE frame[t] = "put"
    BY <1>4, <2>1, ResumePutFlow DEF Resume
  <2>2. CASE frame[t] = "get"
    BY <1>4, <2>2, GetFlow DEF Resume
  <2>3. QED
    BY <1>4, <2>1, <2>2 DEF Resume
<1>5. ASSUME NEW u \in Threads, StartThread(u) PROVE FlowInv'
  BY <1>1, <1>5, StartTyped, OthersFlow DEF StartThread
<1>6. ASSUME NEW t \in Threads, Sleep(t) PROVE FlowInv'
  BY <1>1, <1>6, BlockTyped, OthersFlow DEF Sleep, Asleep
<1>7. ASSUME NEW u \in Threads, Awaken(u) PROVE FlowInv'
  BY <1>1, <1>7, TickTyped, UnblockTyped, OthersFlow DEF Awaken
<1>8. ASSUME IdleLoop PROVE FlowInv'
  BY <1>1, <1>8, IdleTyped, OthersFlow DEF IdleLoop
<1>9. ASSUME TimerIntr PROVE FlowInv'
  BY <1>1, <1>9, TickTyped, OthersFlow DEF TimerIntr
<1>10. ASSUME UNCHANGED vars PROVE FlowInv'
  BY <1>1, <1>10, OthersFlow DEF vars
<1>11. QED
  BY <1>2, <1>3, <1>4, <1>5, <1>6, <1>7, <1>8, <1>9, <1>10 DEF Next

\* The inductive invariant of the characters holds at all times.
THEOREM KeyboardFlow == Spec => []FlowInv
BY FlowInit, FlowStep, PTL DEF Spec

\* What is delivered is what was typed, in that order, as long as no more is
\* typed than keyboardBuf holds.
THEOREM KeyboardInOrder == Spec => []InOrder
<1>1. FlowInv => InOrder
  BY DEF FlowInv
<1>2. QED
  BY <1>1, KeyboardFlow, PTL

\* No character is lost or doubled by ioQueuePutChar and ioQueueGetChar.
THEOREM KeyboardNothingLost == Spec => []NothingLost
<1>1. FlowInv => NothingLost
  BY DEF FlowInv
<1>2. QED
  BY <1>1, KeyboardFlow, PTL

-----------------------------------------------------------------------------
(* The sleepers *)

\* A task on the waiting list is a thread that waits, so nobody else is on it.
LEMMA ListFacts ==
  ASSUME SleepInv
  PROVE  /\ \A u \in Threads : u \in Tasks /\ u # Idle
         /\ \A u \in Threads : Contains(waitingList, u) <=> sched.status[u] = "WAITING"
         /\ ~Contains(waitingList, Idle)
BY SchedulerAssumption DEF SleepInv, WaitersListed, Coherent, Tasks

\* lockWait puts the running thread to sleep, and on the list.
LEMMA WaitSleep ==
  ASSUME SleepInv, NEW k, Coherent(k), k.status = sched.status,
         NEW t \in Threads, k.cur = t, Wait(t, k)
  PROVE  /\ Coherent(sched')
         /\ waitingList' \in Seq(Threads)
         /\ WaitersListed'
         /\ \A u \in Tasks : u # t /\ sched'.status[u] = "WAITING" =>
              sched.status[u] = "WAITING"
<1>1. t \in Tasks /\ t # Idle /\ k.status[t] = "RUNNING"
  BY ListFacts DEF Coherent, RunningIsCur
<1>2. ~Contains(waitingList, t) /\ IsInjective(waitingList) /\ waitingList \in Seq(Threads)
  BY <1>1, ListFacts DEF SleepInv, WaitersListed
<1>3. sched' = ThreadBlock(k, "WAITING") /\ waitingList' = Append(waitingList, t)
  BY <1>2 DEF Wait, Asserted
<1>4. Coherent(sched')
  BY <1>1, <1>3, BlockCoherent DEF Asleep
<1>5. sched'.status[t] = "WAITING" /\ SameSleep(k, sched', Threads \ {t})
  BY <1>3, BlockSleep DEF Asleep
<1>6. /\ waitingList' \in Seq(Threads) /\ IsInjective(waitingList')
      /\ \A u : Contains(waitingList', u) <=> u = t \/ Contains(waitingList, u)
  BY <1>2, <1>3, AppendList
<1>7. sched'.status[Idle] # "WAITING" /\ sched.status[Idle] # "WAITING"
  BY <1>4 DEF Coherent, SleepInv
<1>8. \A u \in Threads : u # t =>
        (sched'.status[u] = "WAITING" <=> sched.status[u] = "WAITING")
  BY <1>5 DEF SameSleep, Awake
<1>9. \A u \in Tasks : Contains(waitingList', u) <=> sched'.status[u] = "WAITING"
  BY <1>1, <1>5, <1>6, <1>7, <1>8, ListFacts DEF Tasks
<1>10. QED
  BY <1>4, <1>6, <1>7, <1>8, <1>9 DEF WaitersListed, Tasks

\* lockNotifyAll leaves nobody asleep on the queue.
LEMMA NotifySleep ==
  ASSUME SleepInv, NEW k, Coherent(k), k.status = sched.status, NotifyAll(k)
  PROVE  /\ Coherent(sched')
         /\ waitingList' = <<>>
         /\ WaitersListed'
         /\ \A u \in Tasks : sched'.status[u] # "WAITING"
<1>1. sched' = WakeAll(k, waitingList) /\ waitingList' = <<>>
  BY DEF NotifyAll
<1>2. \A u \in Threads : Contains(waitingList, u) <=> k.status[u] = "WAITING"
  BY ListFacts
<1>3. /\ Coherent(sched')
      /\ sched'.status = [u \in Tasks |-> IF Contains(waitingList, u) THEN "READY"
                                          ELSE k.status[u]]
  <2>1. \A u \in Threads : Contains(waitingList, u) => k.status[u] \in Asleep
    BY <1>2 DEF Asleep
  <2>2. QED
    BY <1>1, <2>1, WakeAllEffect DEF SleepInv, WaitersListed
<1>4. \A u \in Tasks : sched'.status[u] # "WAITING"
  BY <1>3 DEF SleepInv, WaitersListed
<1>5. QED
  BY <1>1, <1>3, <1>4 DEF WaitersListed, IsInjective, Contains

\* A put that sleeps leaves the queue full and waits in a frame of its own.
LEMMA PutSleep ==
  ASSUME SleepInv, FlowInv, NEW k, Coherent(k), k.status = sched.status,
         NEW t \in Tasks, k.cur = t, NEW c, Put(t, k, c),
         Len(queue) = Size => t \in Threads
  PROVE  SleepInv'
<1>1. frame \in [Tasks -> Frames] /\ frame[Idle] = "user"
  BY DEF FlowInv, TypeOK, SleepInv
<1>2. CASE Len(queue) = Size
  <2>1. Wait(t, k) /\ frame' = [frame EXCEPT ![t] = "put"] /\ queue' = queue /\ t \in Threads
    BY <1>2 DEF Put
  <2>2. t # Idle
    BY <2>1, ListFacts
  <2>3. /\ Coherent(sched') /\ waitingList' \in Seq(Threads) /\ WaitersListed'
        /\ \A u \in Tasks : u # t /\ sched'.status[u] = "WAITING" =>
              sched.status[u] = "WAITING"
    BY <2>1, WaitSleep
  <2>4. queue # <<>>
    BY <1>2, KeyboardAssumption
  <2>5. NoSleepOnInput'
    BY <1>1, <2>1, <2>3, <2>4 DEF SleepInv, NoSleepOnInput
  <2>6. frame'[Idle] = "user"
    BY <1>1, <2>1, <2>2
  <2>7. QED
    BY <2>3, <2>5, <2>6 DEF SleepInv, Coherent, KernelState, ReadyExact, RunningIsCur, InReady
<1>3. CASE Len(queue) # Size
  <2>1. NotifyAll(k) /\ frame' = [frame EXCEPT ![t] = "user"]
    BY <1>3 DEF Put
  <2>2. /\ Coherent(sched') /\ waitingList' = <<>> /\ WaitersListed'
        /\ \A u \in Tasks : sched'.status[u] # "WAITING"
    BY <2>1, NotifySleep
  <2>3. NoSleepOnInput' /\ frame'[Idle] = "user" /\ waitingList' \in Seq(Threads)
    BY <1>1, <2>1, <2>2 DEF NoSleepOnInput, Tasks
  <2>4. QED
    BY <2>2, <2>3 DEF SleepInv, Coherent, KernelState, ReadyExact, RunningIsCur, InReady
<1>4. QED
  BY <1>2, <1>3

\* A get that sleeps leaves the queue empty.
LEMMA GetSleep ==
  ASSUME SleepInv, FlowInv, NEW t \in Threads, sched.cur = t, Get(t, sched)
  PROVE  SleepInv'
<1>1. frame \in [Tasks -> Frames] /\ frame[Idle] = "user" /\ Coherent(sched) /\ t # Idle
  BY ListFacts DEF FlowInv, TypeOK, SleepInv
<1>2. CASE queue = <<>>
  <2>1. Wait(t, sched) /\ frame' = [frame EXCEPT ![t] = "get"] /\ queue' = queue
    BY <1>2 DEF Get
  <2>2. Coherent(sched') /\ waitingList' \in Seq(Threads) /\ WaitersListed'
    BY <1>1, <2>1, WaitSleep
  <2>3. NoSleepOnInput' /\ frame'[Idle] = "user"
    BY <1>1, <1>2, <2>1 DEF NoSleepOnInput
  <2>4. QED
    BY <2>2, <2>3 DEF SleepInv, Coherent, KernelState, ReadyExact, RunningIsCur, InReady
<1>3. CASE queue # <<>>
  <2>1. NotifyAll(sched) /\ frame' = [frame EXCEPT ![t] = "user"]
    BY <1>3 DEF Get
  <2>2. /\ Coherent(sched') /\ waitingList' = <<>> /\ WaitersListed'
        /\ \A u \in Tasks : sched'.status[u] # "WAITING"
    BY <1>1, <2>1, NotifySleep
  <2>3. NoSleepOnInput' /\ frame'[Idle] = "user" /\ waitingList' \in Seq(Threads)
    BY <1>1, <2>1, <2>2 DEF NoSleepOnInput, Tasks
  <2>4. QED
    BY <2>2, <2>3 DEF SleepInv, Coherent, KernelState, ReadyExact, RunningIsCur, InReady
<1>4. QED
  BY <1>2, <1>3

\* A step of the scheduler that moves no thread in or out of WAITING.
LEMMA OthersSleep ==
  ASSUME SleepInv, Coherent(sched'),
         \A u \in Threads : sched'.status[u] = "WAITING" <=> sched.status[u] = "WAITING",
         UNCHANGED <<queue, waitingList, frame, pending, typed, got>>
  PROVE  SleepInv'
<1>1. \A u \in Tasks : sched'.status[u] = "WAITING" <=> sched.status[u] = "WAITING"
  BY DEF Tasks, SleepInv, Coherent
<1>2. WaitersListed' /\ NoSleepOnInput'
  BY <1>1 DEF SleepInv, WaitersListed, NoSleepOnInput
<1>3. QED
  BY <1>2 DEF SleepInv, Coherent, KernelState, ReadyExact, RunningIsCur, InReady

\* Nobody sleeps at the start.
LEMMA SleepInit == Init => SleepInv
<1> SUFFICES ASSUME Init PROVE SleepInv
  OBVIOUS
<1>1. Coherent(sched)
  BY KernelInitCoherent DEF Init
<1>2. \A t \in Tasks : sched.status[t] # "WAITING"
  BY DEF Init, KernelInit
<1>3. QED
  BY <1>1, <1>2 DEF Init, SleepInv, WaitersListed, NoSleepOnInput, IsInjective, Contains, Tasks

\* Every step keeps the sleepers' invariant.
LEMMA SleepStep ==
  ASSUME Idle \notin Victims
  PROVE  SleepInv /\ FlowInv /\ [Next]_vars => SleepInv'
<1> SUFFICES ASSUME SleepInv, FlowInv, [Next]_vars PROVE SleepInv'
  OBVIOUS
<1> DEFINE i == Interrupted(sched)
<1>1. /\ Coherent(sched) /\ sched.cur \in Tasks /\ Threads \subseteq Tasks
      /\ Coherent(i) /\ i.status = sched.status
  BY InterruptedKeeps DEF SleepInv, Coherent, KernelState, Tasks
<1>2. i.cur = sched.cur
  BY <1>1 DEF Coherent, RunningIsCur
<1> HIDE DEF i
<1>3. ASSUME NEW x \in Keys, KeyIntr(x) PROVE SleepInv'
  <2>1. /\ Put(sched.cur, i, x)
        /\ Len(queue) = Size => sched.cur \in Victims
    BY <1>3 DEF KeyIntr, i
  <2>2. Len(queue) = Size => sched.cur \in Threads
    BY <1>1, <2>1, KeyboardAssumption DEF Tasks
  <2>3. QED
    BY <1>1, <1>2, <2>1, <2>2, PutSleep
<1>4. ASSUME NEW t \in Threads, Read(t) PROVE SleepInv'
  BY <1>4, GetSleep DEF Read, Running
<1>5. ASSUME NEW t \in Tasks, Resume(t) PROVE SleepInv'
  <2>1. t \in Threads /\ sched.cur = t
    BY <1>5 DEF Resume, Running, SleepInv, Tasks
  <2>2. QED
    BY <1>1, <1>5, <2>1, PutSleep, GetSleep DEF Resume
<1>6. ASSUME NEW u \in Threads, StartThread(u) PROVE SleepInv'
  <2>1. u \in Tasks /\ sched.status[u] = "DIED" /\ sched' = ThreadStart(sched, u)
    BY <1>1, <1>6 DEF StartThread
  <2>2. Coherent(sched')
    BY <1>1, <2>1, StartCoherent
  <2>3. sched'.status = [sched.status EXCEPT ![u] = "READY"]
    BY <1>1, <2>1 DEF ThreadStart, InReady, Coherent, ReadyExact, KernelState
  <2>4. QED
    BY <1>1, <1>6, <2>1, <2>2, <2>3, OthersSleep DEF StartThread, Coherent, KernelState
<1>7. ASSUME NEW t \in Threads, Sleep(t) PROVE SleepInv'
  <2>1. sched.cur = t /\ t \in Tasks /\ t # Idle /\ sched' = ThreadBlock(sched, "BLOCKED")
    BY <1>1, <1>7, SchedulerAssumption DEF Sleep, Running
  <2>2. Coherent(sched')
    BY <1>1, <2>1, BlockCoherent DEF Asleep
  <2>3. sched'.status[t] = "BLOCKED" /\ SameSleep(sched, sched', Threads \ {t})
    BY <1>1, <2>1, BlockSleep DEF Asleep
  <2>4. sched.status[t] = "RUNNING"
    BY <1>1, <2>1 DEF Coherent, RunningIsCur
  <2>5. QED
    BY <1>7, <2>2, <2>3, <2>4, OthersSleep DEF Sleep, SameSleep, Awake
<1>8. ASSUME NEW u \in Threads, Awaken(u) PROVE SleepInv'
  <2>1. u \in Tasks /\ i.status[u] = "BLOCKED" /\ sched' = ThreadUnblock(i, u)
    BY <1>1, <1>8 DEF Awaken, i
  <2>2. /\ i \in KernelState /\ ReadyExact(i) /\ ~i.panic /\ i.status[u] \in Asleep
    BY <1>1, <2>1 DEF Coherent, Asleep
  <2>3. sched'.status = [i.status EXCEPT ![u] = "READY"]
    BY <2>1, <2>2, UnblockEffect
  <2>4. Coherent(sched')
    BY <1>1, <2>1, <2>2, UnblockKeeps
  <2>5. QED
    BY <1>1, <1>8, <2>1, <2>2, <2>3, <2>4, OthersSleep DEF Awaken, KernelState
<1>9. ASSUME IdleLoop PROVE SleepInv'
  <2>1. Coherent(sched') /\ SameSleep(sched, sched', Threads)
    BY <1>1, <1>9, IdleCoherent, IdleSleep DEF IdleLoop, Running
  <2>2. QED
    BY <1>9, <2>1, OthersSleep DEF IdleLoop, SameSleep, Awake
<1>10. ASSUME TimerIntr PROVE SleepInv'
  <2>1. Coherent(sched') /\ SameSleep(i, sched', Threads)
    BY <1>1, <1>10, TickCoherent, TickSleep DEF TimerIntr, i
  <2>2. QED
    BY <1>1, <1>10, <2>1, OthersSleep DEF TimerIntr, SameSleep, Awake
<1>11. ASSUME UNCHANGED vars PROVE SleepInv'
  BY <1>1, <1>11, OthersSleep DEF vars
<1>12. QED
  BY <1>3, <1>4, <1>5, <1>6, <1>7, <1>8, <1>9, <1>10, <1>11 DEF Next

\* The inductive invariant of the sleepers holds, unless a key interrupts the
\* idle thread while keyboardBuf is full.
THEOREM KeyboardSleepers ==
  ASSUME Idle \notin Victims
  PROVE  Spec => []SleepInv
<1>1. SleepInv /\ FlowInv /\ [Next]_vars => SleepInv'
  BY SleepStep
<1>2. QED
  BY <1>1, SleepInit, KeyboardFlow, PTL DEF Spec

\* No thread sleeps for a character while there is one.
THEOREM KeyboardNoSleepOnInput ==
  ASSUME Idle \notin Victims
  PROVE  Spec => []NoSleepOnInput
<1>1. SleepInv => NoSleepOnInput
  BY DEF SleepInv
<1>2. QED
  BY <1>1, KeyboardSleepers, PTL

\* The waiting list holds the sleepers, each once.
THEOREM KeyboardWaitersListed ==
  ASSUME Idle \notin Victims
  PROVE  Spec => []WaitersListed
<1>1. SleepInv => WaitersListed
  BY DEF SleepInv
<1>2. QED
  BY <1>1, KeyboardSleepers, PTL

\* The interrupted idle thread is the only way to a panic: if the queue is
\* never full when it runs, no ASSERT of lockWait, threadBlock or
\* threadUnblock fails, whichever threads the keys interrupt.
THEOREM KeyboardNoPanic ==
  ASSUME Idle \notin Victims
  PROVE  Spec => []NoPanic
<1>1. SleepInv => NoPanic
  BY DEF SleepInv, Coherent, NoPanic
<1>2. QED
  BY <1>1, KeyboardSleepers, PTL
=============================================================================
