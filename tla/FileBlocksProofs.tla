-------------------------- MODULE FileBlocksProofs --------------------------
(***************************************************************************)
(* The blocks of files and what is in them, for any number of files and    *)
(* blocks, any block size and any numbers of direct and indirect blocks.   *)
(***************************************************************************)
EXTENDS FileBlocks, WellFoundedInduction, TLAPS

-----------------------------------------------------------------------------
(* Induction, and what it says of a loop                                   *)

\* A set of naturals has a least element.
LEMMA Smallest ==
  ASSUME NEW T, T \subseteq Nat, T # {}
  PROVE  \E x \in T : \A y \in T : x <= y
<1>1. IsWellFoundedOn(OpToRel(<, Nat), Nat)
  BY NatLessThanWellFounded
<1>2. PICK x \in T : \A y \in T : ~ (<<y, x>> \in OpToRel(<, Nat))
  BY <1>1, WFMin
<1>3. \A y \in T : ~(y < x)
  BY <1>2 DEF OpToRel
<1>4. x \in Nat /\ \A y \in T : y \in Nat
  OBVIOUS
<1>5. \A y \in T : x <= y
  BY <1>3, <1>4
<1> QED
  BY <1>5

\* A set that goes on from each i below last to i + 1 has all that follows.
LEMMA Induction ==
  ASSUME NEW S, NEW first \in Int, NEW last \in Int, first \in S,
         \A i \in first..(last - 1) : i \in S => i + 1 \in S
  PROVE  \A i \in first..last : i \in S
<1> DEFINE rest == {j \in Nat : first + j <= last /\ first + j \notin S}
<1>1. SUFFICES ASSUME rest # {} PROVE FALSE
  <2>1. ASSUME NEW i \in first..last, i \notin S PROVE FALSE
    <3>1. i - first \in Nat /\ first + (i - first) = i
      OBVIOUS
    <3>2. i - first \in rest
      BY <3>1, <2>1
    <3> QED
      BY <3>2, <1>1
  <2> QED
    BY <2>1
<1>2. PICK x \in rest : \A y \in rest : x <= y
  <2>1. rest \subseteq Nat
    OBVIOUS
  <2> HIDE DEF rest
  <2> QED
    BY <1>1, <2>1, Smallest
<1>3. x \in Nat /\ x # 0 /\ first + x <= last /\ first + x \notin S
  BY <1>2
<1>4. x - 1 \in Nat /\ ~(x <= x - 1) /\ first + (x - 1) \in first..(last - 1)
      /\ (first + (x - 1)) + 1 = first + x
  BY <1>3
<1>5. first + (x - 1) \in S
  BY <1>2, <1>4
<1> QED
  BY <1>3, <1>4, <1>5

\* The results of a loop, from first, before the first round, to last.
Rounds(f, first, last, S, base, step) ==
  /\ f \in [first..last -> S]
  /\ f[first] = base
  /\ \A i \in (first + 1)..last : f[i] = step[<<f[i - 1], i>>]

\* A loop has a result for each round.
LEMMA LoopExists ==
  ASSUME NEW S, NEW base \in S, NEW first \in Int, NEW last \in Int, first <= last,
         NEW step \in [S \X ((first + 1)..last) -> S]
  PROVE  \E f : Rounds(f, first, last, S, base, step)
<1> DEFINE Good == {m \in first..last : \E f : Rounds(f, first, m, S, base, step)}
<1>1. first \in Good
  <2>1. Rounds([i \in first..first |-> base], first, first, S, base, step)
    BY DEF Rounds
  <2> QED
    BY <2>1
<1>2. ASSUME NEW m \in first..(last - 1), m \in Good PROVE m + 1 \in Good
  <2>1. PICK f : Rounds(f, first, m, S, base, step)
    BY <1>2
  <2> DEFINE g == [i \in first..(m + 1) |-> IF i = m + 1 THEN step[<<f[m], m + 1>>] ELSE f[i]]
  <2>2. f[m] \in S /\ m + 1 \in (first + 1)..last /\ m \in Int
    BY <2>1 DEF Rounds
  <2>3. step[<<f[m], m + 1>>] \in S
    BY <2>2
  <2>4. g \in [first..(m + 1) -> S]
    BY <2>1, <2>2, <2>3 DEF Rounds
  <2>5. g[first] = base
    BY <2>1, <2>2 DEF Rounds
  <2>6. ASSUME NEW i \in (first + 1)..(m + 1) PROVE g[i] = step[<<g[i - 1], i>>]
    <3>1. CASE i = m + 1
      <4>1. g[i] = step[<<f[m], m + 1>>] /\ g[i - 1] = f[m]
        BY <3>1, <2>2
      <4> QED
        BY <4>1, <3>1
    <3>2. CASE i # m + 1
      <4>1. i \in (first + 1)..m /\ i - 1 \in first..m
        BY <3>2, <2>2
      <4>2. g[i] = f[i] /\ g[i - 1] = f[i - 1]
        BY <4>1, <2>2
      <4>3. f[i] = step[<<f[i - 1], i>>]
        BY <4>1, <2>1 DEF Rounds
      <4> QED
        BY <4>2, <4>3
    <3> QED
      BY <3>1, <3>2
  <2>7. Rounds(g, first, m + 1, S, base, step)
    <3> HIDE DEF g
    <3> QED
      BY <2>4, <2>5, <2>6 DEF Rounds
  <2>8. m + 1 \in first..last
    BY <2>2
  <2> QED
    BY <2>7, <2>8
<1>3. \A i \in first..last : i \in Good
  <2> HIDE DEF Good
  <2> QED
    BY <1>1, <1>2, Induction
<1> QED
  BY <1>3

-----------------------------------------------------------------------------
(* Numbers                                                                 *)

LEMMA Constants ==
  /\ B \in Nat /\ B > 0
  /\ Direct \in Nat /\ Direct > 0
  /\ Total \in Nat /\ Direct < Total
  /\ NBlocks \in Nat /\ NBlocks > 0
  /\ SectorBytes \in Nat /\ SectorBytes > 0
  /\ MaxCount \in Nat
<1>1. /\ NBlocks \in {NBlocks, SectorBytes, B, Direct, Total}
      /\ SectorBytes \in {NBlocks, SectorBytes, B, Direct, Total}
      /\ B \in {NBlocks, SectorBytes, B, Direct, Total}
      /\ Direct \in {NBlocks, SectorBytes, B, Direct, Total}
      /\ Total \in {NBlocks, SectorBytes, B, Direct, Total}
  OBVIOUS
<1>2. {NBlocks, SectorBytes, B, Direct, Total} \subseteq Nat \ {0} /\ Direct < Total
      /\ MaxCount \in Nat
  BY FileBlocksAssumption DEF FileBlocksAssumption
<1>3. /\ NBlocks \in Nat \ {0} /\ SectorBytes \in Nat \ {0} /\ B \in Nat \ {0}
      /\ Direct \in Nat \ {0} /\ Total \in Nat \ {0}
  BY ONLY <1>1, <1>2
<1> QED
  BY ONLY <1>2, <1>3

LEMMA SomeBlocks == 0 \in Blocks /\ None \notin Blocks /\ Blocks \subseteq Nat
BY Constants DEF Blocks, None

\* The block and the place in it of byte s.
LEMMA BytePlace ==
  ASSUME NEW s \in Nat
  PROVE  s \div B \in Nat /\ s % B \in 0..(B - 1) /\ s = B * (s \div B) + (s % B)
BY Constants

LEMMA BlockGrows ==
  ASSUME NEW s \in Nat, NEW k \in 0..s
  PROVE  k \div B <= s \div B
BY Constants, BytePlace

LEMMA PlaceByte ==
  ASSUME NEW i \in Nat, NEW o \in 0..(B - 1)
  PROVE  i * B + o \in Nat /\ (i * B + o) \div B = i /\ (i * B + o) % B = o
BY Constants

\* blockBitMapAlloc finds a free block if there is one.
LEMMA FreeBlockIs ==
  ASSUME NEW map
  PROVE  FreeBlock(map) = None \/ FreeBlock(map) \in Blocks \ map
<1> DEFINE free == Blocks \ map
<1>1. CASE free = {}
  BY <1>1 DEF FreeBlock
<1>2. CASE free # {}
  <2>1. PICK x \in free : \A y \in free : x <= y
    BY <1>2, SomeBlocks, Smallest
  <2>2. Min(free) \in free
    <3> HIDE DEF free
    <3> QED
      BY <2>1 DEF Min
  <2>3. FreeBlock(map) = Min(free)
    BY <1>2 DEF FreeBlock
  <2> QED
    BY <2>2, <2>3
<1> QED
  BY <1>1, <1>2

-----------------------------------------------------------------------------
(* The steps of a write, field by field                                    *)

Numbers == Blocks \cup {None}

Works == [ino : Inodes, bits : SUBSET Blocks, disk : Disks, next : {"go", "fail", "stop"},
          all : [0..(Total - 1) -> Numbers]]

LEMMA WorkFields ==
  ASSUME NEW w \in Works
  PROVE  /\ w.ino \in Inodes /\ w.bits \subseteq Blocks /\ w.disk \in Disks
         /\ w.next \in {"go", "fail", "stop"}
         /\ w.all \in [0..(Total - 1) -> Numbers]
         /\ w.ino.size \in 0..(Total * B) /\ w.ino.block \in [0..Direct -> Blocks]
         /\ w.disk.inode \in [Files -> Inodes] /\ w.disk.bits \subseteq Blocks
         /\ w.disk.sector \in [Blocks -> Sectors] /\ w.disk.overrun \in BOOLEAN
BY DEF Works, Inodes, Disks

LEMMA SyncFields ==
  ASSUME NEW d \in Disks, NEW map \in SUBSET Blocks, NEW b
  PROVE  /\ BitMapSync(d, map, b) \in Disks
         /\ BitMapSync(d, map, b).inode = d.inode
         /\ BitMapSync(d, map, b).sector = d.sector
<1> DEFINE written == {x \in Blocks : BitSector(x) = SyncSector(b)}
           newBits == (d.bits \ written) \cup (map \cap written)
           over == d.overrun \/ SyncSector(b) > BitSector(NBlocks - 1)
<1>1. BitMapSync(d, map, b) = [d EXCEPT !.bits = newBits, !.overrun = over]
  BY Zenon DEF BitMapSync
<1>2. newBits \subseteq Blocks /\ over \in BOOLEAN
  <2>1. d.bits \subseteq Blocks
    BY DEF Disks
  <2> QED
    BY <2>1
<1> HIDE DEF newBits, over
<1> QED
  BY <1>1, <1>2 DEF Disks

LEMMA CheckFields ==
  ASSUME NEW w \in Works, NEW cond \in BOOLEAN
  PROVE  /\ Check(w, cond) \in Works
         /\ Check(w, cond).ino = w.ino /\ Check(w, cond).bits = w.bits
         /\ Check(w, cond).disk = w.disk /\ Check(w, cond).all = w.all
         /\ Check(w, cond).next = IF w.next = "go" /\ ~cond THEN "stop" ELSE w.next
BY DEF Check, Stop, Works

LEMMA FailFields ==
  ASSUME NEW w \in Works
  PROVE  /\ Fail(w) \in Works
         /\ Fail(w).ino = w.ino /\ Fail(w).bits = w.bits
         /\ Fail(w).disk = w.disk /\ Fail(w).all = w.all
         /\ Fail(w).next = "fail"
BY DEF Fail, Works

\* Nothing of the file, its bitmap and the disk changes.
SameFields(w, v) == v.ino = w.ino /\ v.bits = w.bits /\ v.disk = w.disk /\ v.all = w.all

\* An ASSERT failed when the bit of block b was set, and nothing else was done.
Stopped(w, b, v) ==
  /\ v.ino = w.ino /\ v.disk = w.disk /\ v.all = w.all
  /\ v.bits = w.bits \cup {b}
  /\ v.next = "stop"

LEMMA StopFields ==
  ASSUME NEW w \in Works, NEW b \in Blocks
  PROVE  /\ Stop([w EXCEPT !.bits = w.bits \cup {b}]) \in Works
         /\ Stopped(w, b, Stop([w EXCEPT !.bits = w.bits \cup {b}]))
<1> DEFINE map == w.bits \cup {b}
           v == Stop([w EXCEPT !.bits = map])
<1>1. map \in SUBSET Blocks
  BY WorkFields
<1> HIDE DEF map
<1>2. /\ v \in Works /\ v.ino = w.ino /\ v.disk = w.disk /\ v.all = w.all
      /\ v.bits = map /\ v.next = "stop"
  BY <1>1 DEF Stop, Works
<1> QED
  BY <1>2 DEF Stopped, map

\* What a write does with one more block b at place i of the file.
Added(w, i, b, v) ==
  /\ v.ino.size = w.ino.size
  /\ v.ino.block = IF i < Direct THEN [w.ino.block EXCEPT ![i] = b] ELSE w.ino.block
  /\ v.bits = w.bits \cup {b}
  /\ v.all = [w.all EXCEPT ![i] = b]
  /\ v.disk = BitMapSync(w.disk, w.bits \cup {b}, b)
  /\ v.next = "go"
  /\ i < Direct => w.ino.block[i] = 0

LEMMA AddBlockFields ==
  ASSUME NEW w \in Works, NEW i \in 0..(Total - 1)
  PROVE  /\ AddBlock(w, i) \in Works
         /\ w.next # "go" => AddBlock(w, i) = w
         /\ w.next = "go" => \/ SameFields(w, AddBlock(w, i)) /\ AddBlock(w, i).next = "fail"
                             \/ \E b \in Blocks \ w.bits : Added(w, i, b, AddBlock(w, i))
                             \/ /\ i < Direct /\ w.ino.block[i] # 0
                                /\ \E b \in Blocks : Stopped(w, b, AddBlock(w, i))
<1> DEFINE b == FreeBlock(w.bits)
           map == w.bits \cup {b}
           ino == IF i < Direct THEN [w.ino EXCEPT !.block[i] = b] ELSE w.ino
           taken == i < Direct /\ w.ino.block[i] # 0
           u == [w EXCEPT !.ino = ino, !.bits = map, !.all[i] = b, !.disk = BitMapSync(@, map, b)]
<1>1. CASE w.next # "go"
  BY <1>1 DEF AddBlock
<1>2. CASE w.next = "go" /\ b = None
  <2>1. AddBlock(w, i) = Fail(w)
    BY <1>2 DEF AddBlock
  <2> QED
    BY <2>1, <1>2, FailFields DEF SameFields
<1>3. CASE w.next = "go" /\ b # None /\ taken
  <2>1. AddBlock(w, i) = Stop([w EXCEPT !.bits = w.bits \cup {b}])
    BY <1>3 DEF AddBlock
  <2>2. b \in Blocks
    BY <1>3, FreeBlockIs
  <2> HIDE DEF b
  <2> QED
    BY <2>1, <2>2, <1>3, StopFields
<1>4. CASE w.next = "go" /\ b # None /\ ~taken
  <2>1. AddBlock(w, i) = u
    BY <1>4 DEF AddBlock
  <2>2. b \in Blocks \ w.bits
    BY <1>4, FreeBlockIs
  <2>3. /\ w.ino \in Inodes /\ w.bits \subseteq Blocks /\ w.disk \in Disks
        /\ w.ino.block \in [0..Direct -> Blocks] /\ w.all \in [0..(Total - 1) -> Numbers]
    BY WorkFields
  <2>4. map \in SUBSET Blocks /\ b \in Numbers
    BY <2>2, <2>3 DEF Numbers
  <2>5. ino \in Inodes /\ ino.size = w.ino.size
        /\ ino.block = IF i < Direct THEN [w.ino.block EXCEPT ![i] = b] ELSE w.ino.block
    <3>1. CASE i < Direct
      BY <3>1, <2>2, <2>3 DEF Inodes
    <3>2. CASE ~(i < Direct)
      BY <3>2, <2>3
    <3> QED
      BY <3>1, <3>2
  <2>6. BitMapSync(w.disk, map, b) \in Disks
    BY <2>3, <2>4, SyncFields
  <2> DEFINE dsk == BitMapSync(w.disk, map, b)
             al == [w.all EXCEPT ![i] = b]
  <2>8. u = [w EXCEPT !.ino = ino, !.bits = map, !.all = al, !.disk = dsk]
    BY DEF Works
  <2>9. al \in [0..(Total - 1) -> Numbers] /\ dsk \in Disks
    BY <2>3, <2>4, <2>6
  <2>10. /\ u \in Works /\ u.ino = ino /\ u.bits = map /\ u.all = al /\ u.disk = dsk
         /\ u.next = w.next
    <3> HIDE DEF ino, map, al, dsk, b, u
    <3> QED
      BY <2>4, <2>5, <2>8, <2>9 DEF Works
  <2> HIDE DEF u
  <2>11. Added(w, i, b, u)
    <3> HIDE DEF ino, b
    <3> QED
      BY <2>10, <2>5, <1>4 DEF Added, map, al, dsk
  <2> HIDE DEF b
  <2> QED
    BY <2>1, <2>2, <2>10, <2>11, <1>4
<1> QED
  BY <1>1, <1>2, <1>3, <1>4

LEMMA AddBlockSize ==
  ASSUME NEW w \in Works, NEW i \in 0..(Total - 1)
  PROVE  AddBlock(w, i).ino.size = w.ino.size
<1> DEFINE v == AddBlock(w, i)
<1>1. \/ v = w
      \/ SameFields(w, v)
      \/ \E b \in Blocks \ w.bits : Added(w, i, b, v)
      \/ \E b \in Blocks : Stopped(w, b, v)
  BY AddBlockFields
<1> HIDE DEF v
<1>2. ASSUME SameFields(w, v) PROVE v.ino.size = w.ino.size
  BY <1>2 DEF SameFields
<1>3. ASSUME NEW b \in Blocks \ w.bits, Added(w, i, b, v) PROVE v.ino.size = w.ino.size
  BY <1>3 DEF Added
<1>4. ASSUME NEW b \in Blocks, Stopped(w, b, v) PROVE v.ino.size = w.ino.size
  BY <1>4 DEF Stopped
<1>5. v.ino.size = w.ino.size
  BY <1>1, <1>2, <1>3, <1>4
<1> QED
  BY <1>5 DEF v

\* What a write does with a block b for the table.
TableAdded(w, b, v) ==
  /\ v.ino.size = w.ino.size
  /\ v.ino.block = [w.ino.block EXCEPT ![Direct] = b]
  /\ v.bits = w.bits \cup {b}
  /\ v.all = w.all
  /\ v.disk = w.disk
  /\ v.next = "go"
  /\ w.ino.block[Direct] = 0

LEMMA AddTableFields ==
  ASSUME NEW w \in Works
  PROVE  /\ AddTable(w) \in Works
         /\ w.next # "go" => AddTable(w) = w
         /\ w.next = "go" => \/ SameFields(w, AddTable(w)) /\ AddTable(w).next = "fail"
                             \/ \E b \in Blocks \ w.bits : TableAdded(w, b, AddTable(w))
                             \/ /\ w.ino.block[Direct] # 0
                                /\ \E b \in Blocks : Stopped(w, b, AddTable(w))
<1> DEFINE b == FreeBlock(w.bits)
           map == w.bits \cup {b}
           ino == [w.ino EXCEPT !.block[Direct] = b]
           u == [w EXCEPT !.ino.block[Direct] = b, !.bits = map]
<1>1. CASE w.next # "go"
  BY <1>1 DEF AddTable
<1>2. CASE w.next = "go" /\ b = None
  <2>1. AddTable(w) = Fail(w)
    BY <1>2 DEF AddTable
  <2> QED
    BY <2>1, <1>2, FailFields DEF SameFields
<1>3. CASE w.next = "go" /\ b # None /\ w.ino.block[Direct] # 0
  <2>1. AddTable(w) = Stop([w EXCEPT !.bits = w.bits \cup {b}])
    BY <1>3 DEF AddTable
  <2>2. b \in Blocks
    BY <1>3, FreeBlockIs
  <2> HIDE DEF b
  <2> QED
    BY <2>1, <2>2, <1>3, StopFields
<1>4. CASE w.next = "go" /\ b # None /\ w.ino.block[Direct] = 0
  <2>1. AddTable(w) = u
    BY <1>4 DEF AddTable
  <2>2. b \in Blocks \ w.bits
    BY <1>4, FreeBlockIs
  <2>3. /\ w.ino \in Inodes /\ w.bits \subseteq Blocks
        /\ w.ino.block \in [0..Direct -> Blocks]
    BY WorkFields
  <2>4. map \in SUBSET Blocks
    BY <2>2, <2>3
  <2>5. ino \in Inodes /\ ino.size = w.ino.size /\ ino.block = [w.ino.block EXCEPT ![Direct] = b]
    BY <2>2, <2>3, Constants DEF Inodes
  <2>8. u = [w EXCEPT !.ino = ino, !.bits = map]
    BY DEF Works
  <2>10. /\ u \in Works /\ u.ino = ino /\ u.bits = map /\ u.all = w.all /\ u.disk = w.disk
         /\ u.next = w.next
    <3> HIDE DEF ino, map, b, u
    <3> QED
      BY <2>4, <2>5, <2>8 DEF Works
  <2> HIDE DEF u
  <2>11. TableAdded(w, b, u)
    <3> HIDE DEF ino, b
    <3> QED
      BY <2>10, <2>5, <1>4 DEF TableAdded, map
  <2> HIDE DEF b
  <2> QED
    BY <2>1, <2>2, <2>10, <2>11, <1>4
<1> QED
  BY <1>1, <1>2, <1>3, <1>4

LEMMA AddTableSize ==
  ASSUME NEW w \in Works
  PROVE  AddTable(w).ino.size = w.ino.size
<1> DEFINE v == AddTable(w)
<1>1. \/ v = w
      \/ SameFields(w, v)
      \/ \E b \in Blocks \ w.bits : TableAdded(w, b, v)
      \/ \E b \in Blocks : Stopped(w, b, v)
  BY AddTableFields
<1> HIDE DEF v
<1>2. ASSUME SameFields(w, v) PROVE v.ino.size = w.ino.size
  BY <1>2 DEF SameFields
<1>3. ASSUME NEW b \in Blocks \ w.bits, TableAdded(w, b, v) PROVE v.ino.size = w.ino.size
  BY <1>3 DEF TableAdded
<1>4. ASSUME NEW b \in Blocks, Stopped(w, b, v) PROVE v.ino.size = w.ino.size
  BY <1>4 DEF Stopped
<1>5. v.ino.size = w.ino.size
  BY <1>1, <1>2, <1>3, <1>4
<1> QED
  BY <1>5 DEF v

LEMMA LoadTableFields ==
  ASSUME NEW w \in Works
  PROVE  /\ LoadTable(w) \in Works
         /\ LoadTable(w).ino = w.ino /\ LoadTable(w).bits = w.bits /\ LoadTable(w).disk = w.disk
         /\ \A i \in Indirect :
              LoadTable(w).all[i] = w.disk.sector[w.ino.block[Direct]].table[i]
         /\ LoadTable(w).next = IF w.next = "go" /\ w.ino.block[Direct] = 0 THEN "stop" ELSE w.next
<1> DEFINE t == w.ino.block[Direct]
           tab == w.disk.sector[t].table
           al == [i \in 0..(Total - 1) |-> IF i \in Indirect THEN tab[i] ELSE w.all[i]]
           u == [w EXCEPT !.all = al]
<1>1. w.all \in [0..(Total - 1) -> Numbers] /\ t \in Blocks /\ w.disk.sector \in [Blocks -> Sectors]
  BY WorkFields, Constants
<1>2. tab \in [Indirect -> Numbers]
  <2>1. w.disk.sector[t] \in Sectors
    BY <1>1
  <2> QED
    BY <2>1 DEF Sectors, Numbers
<1>3. Indirect \subseteq 0..(Total - 1)
  BY Constants DEF Indirect
<1>4. LoadTable(w) = Check(u, t # 0)
  <2>1. DOMAIN w.all = 0..(Total - 1)
    BY <1>1
  <2> QED
    BY <2>1 DEF LoadTable, Works
<1>5. al \in [0..(Total - 1) -> Numbers]
  BY <1>1, <1>2
<1>6. \A i \in Indirect : al[i] = tab[i]
  BY <1>3
<1> HIDE DEF al
<1>7. /\ u \in Works /\ u.ino = w.ino /\ u.bits = w.bits /\ u.disk = w.disk
      /\ u.all = al /\ u.next = w.next
  BY <1>5 DEF Works
<1> HIDE DEF u
<1>8. /\ Check(u, t # 0) \in Works
      /\ Check(u, t # 0).ino = w.ino /\ Check(u, t # 0).bits = w.bits
      /\ Check(u, t # 0).disk = w.disk /\ Check(u, t # 0).all = al
      /\ Check(u, t # 0).next = IF w.next = "go" /\ ~(t # 0) THEN "stop" ELSE w.next
  <2>1. (t # 0) \in BOOLEAN
    OBVIOUS
  <2> QED
    BY <1>7, <2>1, CheckFields
<1> QED
  BY <1>4, <1>6, <1>8

LEMMA StoreTableFields ==
  ASSUME NEW w \in Works
  PROVE  /\ StoreTable(w) \in Works
         /\ w.next # "go" => StoreTable(w) = w
         /\ w.next = "go" =>
              /\ StoreTable(w).ino = w.ino /\ StoreTable(w).bits = w.bits
              /\ StoreTable(w).all = w.all /\ StoreTable(w).next = w.next
              /\ StoreTable(w).disk.inode = w.disk.inode
              /\ StoreTable(w).disk.bits = w.disk.bits
              /\ StoreTable(w).disk.sector = [w.disk.sector EXCEPT ![w.ino.block[Direct]] =
                   [data |-> NoData, table |-> [i \in Indirect |-> w.all[i]]]]
<1> DEFINE t == w.ino.block[Direct]
           s == [data |-> NoData, table |-> [i \in Indirect |-> w.all[i]]]
           sec == [w.disk.sector EXCEPT ![t] = s]
           d == [w.disk EXCEPT !.sector = sec]
<1>1. CASE w.next # "go"
  BY <1>1 DEF StoreTable
<1>2. CASE w.next = "go"
  <2>1. /\ w.all \in [0..(Total - 1) -> Numbers] /\ w.disk \in Disks
        /\ w.disk.sector \in [Blocks -> Sectors]
    BY WorkFields
  <2>2. s \in Sectors
    <3>1. NoData \in [0..(B - 1) -> (Files \X (0..(Total * B - 1))) \cup {Junk}]
      BY DEF NoData
    <3>2. [i \in Indirect |-> w.all[i]] \in [Indirect -> Blocks \cup {None}]
      BY <2>1, Constants DEF Indirect, Numbers
    <3> QED
      BY <3>1, <3>2 DEF Sectors
  <2>3. sec \in [Blocks -> Sectors]
    <3> HIDE DEF s
    <3> QED
      BY <2>1, <2>2
  <2>4. StoreTable(w) = [w EXCEPT !.disk = d]
    BY <1>2 DEF StoreTable, Works, Disks
  <2>5. d \in Disks /\ d.sector = sec /\ d.inode = w.disk.inode /\ d.bits = w.disk.bits
    <3> HIDE DEF sec
    <3> QED
      BY <2>1, <2>3 DEF Disks
  <2>6. /\ [w EXCEPT !.disk = d] \in Works /\ [w EXCEPT !.disk = d].disk = d
        /\ [w EXCEPT !.disk = d].ino = w.ino /\ [w EXCEPT !.disk = d].bits = w.bits
        /\ [w EXCEPT !.disk = d].all = w.all /\ [w EXCEPT !.disk = d].next = w.next
    <3> HIDE DEF d
    <3> QED
      BY <2>5 DEF Works
  <2> QED
    BY <1>2, <2>4, <2>5, <2>6
<1> QED
  BY <1>1, <1>2

-----------------------------------------------------------------------------
(* The numbers a file has while it grows: blk are the numbers in its inode *)
(* and all those in allBlocks, where the table's count up to block top.    *)

Taken(blk, top) == {k \in 0..Direct : blk[k] # 0} \cup {k \in (Direct + 1)..Total : k - 1 <= top}

Nr(blk, all, k) == IF k <= Direct THEN blk[k] ELSE all[k - 1]

\* They are marked, different from each other and from those of other files.
Apart(blk, all, top, map, others) ==
  /\ \A k \in Taken(blk, top) : Nr(blk, all, k) \in map \ {0} /\ Nr(blk, all, k) \notin others
  /\ \A k, l \in Taken(blk, top) : Nr(blk, all, k) = Nr(blk, all, l) => k = l

LEMMA TakenPlaces ==
  ASSUME NEW blk, NEW top, NEW k \in Taken(blk, top)
  PROVE  k \in 0..Total /\ (k > Direct => k - 1 \in Indirect /\ k - 1 <= top)
BY Constants DEF Taken, Indirect

\* What Apart depends on.
LEMMA ApartSame ==
  ASSUME NEW blk, NEW all, NEW top \in Int, NEW map, NEW others,
         NEW all2, NEW top2 \in Int, NEW map2,
         Apart(blk, all, top, map, others), map \subseteq map2,
         \A i \in Indirect : i <= top2 => i <= top /\ all2[i] = all[i]
  PROVE  Apart(blk, all2, top2, map2, others)
<1>1. ASSUME NEW k \in Taken(blk, top2)
      PROVE  k \in Taken(blk, top) /\ Nr(blk, all2, k) = Nr(blk, all, k)
  <2>1. CASE k <= Direct
    <3>1. k \in 0..Direct /\ blk[k] # 0
      BY <2>1, Constants DEF Taken
    <3> QED
      BY <3>1, <2>1 DEF Taken, Nr
  <2>2. CASE ~(k <= Direct)
    <3>1. k \in (Direct + 1)..Total /\ k - 1 \in Indirect /\ k - 1 <= top2
      BY <2>2, Constants DEF Taken, Indirect
    <3>2. k - 1 <= top /\ all2[k - 1] = all[k - 1]
      BY <3>1
    <3> QED
      BY <3>1, <3>2, <2>2 DEF Taken, Nr
  <2> QED
    BY <2>1, <2>2
<1> QED
  BY <1>1 DEF Apart

\* A place changes, or is new, and gets a free block.
LEMMA ApartFresh ==
  ASSUME NEW blk, NEW all, NEW top, NEW map, NEW others,
         NEW blk2, NEW all2, NEW top2, NEW i, NEW b \in Blocks \ map,
         Apart(blk, all, top, map, others), 0 \in map, others \subseteq map,
         Nr(blk2, all2, i) = b,
         \A k \in Taken(blk2, top2) : k # i => k \in Taken(blk, top) /\ Nr(blk2, all2, k) = Nr(blk, all, k)
  PROVE  Apart(blk2, all2, top2, map \cup {b}, others)
<1>1. b # 0 /\ b \notin others
  OBVIOUS
<1>2. ASSUME NEW k \in Taken(blk2, top2)
      PROVE  Nr(blk2, all2, k) \in (map \cup {b}) \ {0} /\ Nr(blk2, all2, k) \notin others
  <2>1. CASE k = i
    BY <2>1, <1>1
  <2>2. CASE k # i
    BY <2>2 DEF Apart
  <2> QED
    BY <2>1, <2>2
<1>3. ASSUME NEW k \in Taken(blk2, top2), NEW l \in Taken(blk2, top2),
             Nr(blk2, all2, k) = Nr(blk2, all2, l)
      PROVE  k = l
  <2>1. ASSUME NEW j \in Taken(blk2, top2), j # i PROVE Nr(blk2, all2, j) # b
    BY <2>1 DEF Apart
  <2>2. CASE k = i \/ l = i
    BY <2>1, <2>2, <1>3
  <2>3. CASE k # i /\ l # i
    BY <2>3, <1>3 DEF Apart
  <2> QED
    BY <2>2, <2>3
<1> QED
  BY <1>2, <1>3 DEF Apart

LEMMA ApartDirect ==
  ASSUME NEW blk \in [0..Direct -> Blocks], NEW all, NEW top \in Int, NEW map, NEW others,
         NEW i \in 0..Direct, NEW b \in Blocks \ map, NEW all2, NEW top2 \in Int,
         Apart(blk, all, top, map, others), 0 \in map, others \subseteq map,
         \A j \in Indirect : j <= top2 => j <= top /\ all2[j] = all[j]
  PROVE  Apart([blk EXCEPT ![i] = b], all2, top2, map \cup {b}, others)
<1> DEFINE blk2 == [blk EXCEPT ![i] = b]
<1>1. Nr(blk2, all2, i) = b
  BY Constants DEF Nr
<1>2. ASSUME NEW k \in Taken(blk2, top2), k # i
      PROVE  k \in Taken(blk, top) /\ Nr(blk2, all2, k) = Nr(blk, all, k)
  <2>1. CASE k <= Direct
    <3>1. k \in 0..Direct /\ blk2[k] # 0
      BY <2>1, Constants DEF Taken
    <3>2. blk2[k] = blk[k]
      BY <3>1, <1>2
    <3> QED
      BY <3>1, <3>2, <2>1 DEF Taken, Nr
  <2>2. CASE ~(k <= Direct)
    <3>1. k \in (Direct + 1)..Total /\ k - 1 \in Indirect /\ k - 1 <= top2
      BY <2>2, Constants DEF Taken, Indirect
    <3>2. k - 1 <= top /\ all2[k - 1] = all[k - 1]
      BY <3>1
    <3> QED
      BY <3>1, <3>2, <2>2 DEF Taken, Nr
  <2> QED
    BY <2>1, <2>2
<1> HIDE DEF blk2
<1>3. Apart(blk2, all2, top2, map \cup {b}, others)
  BY <1>1, <1>2, ApartFresh
<1> QED
  BY <1>3 DEF blk2

LEMMA ApartIndirect ==
  ASSUME NEW blk, NEW all \in [0..(Total - 1) -> Numbers], NEW map, NEW others,
         NEW i \in Indirect, NEW b \in Blocks \ map,
         Apart(blk, all, i - 1, map, others), 0 \in map, others \subseteq map
  PROVE  Apart(blk, [all EXCEPT ![i] = b], i, map \cup {b}, others)
<1> DEFINE all2 == [all EXCEPT ![i] = b]
<1>0. i \in 0..(Total - 1) /\ i >= Direct /\ i + 1 > Direct /\ (i + 1) - 1 = i
  BY Constants DEF Indirect
<1>1. Nr(blk, all2, i + 1) = b
  BY <1>0, Constants DEF Nr
<1>2. ASSUME NEW k \in Taken(blk, i), k # i + 1
      PROVE  k \in Taken(blk, i - 1) /\ Nr(blk, all2, k) = Nr(blk, all, k)
  <2>1. CASE k <= Direct
    BY <2>1, Constants DEF Taken, Nr
  <2>2. CASE ~(k <= Direct)
    <3>1. k \in (Direct + 1)..Total /\ k - 1 \in Indirect /\ k - 1 <= i
      BY <2>2, Constants DEF Taken, Indirect
    <3>2. k - 1 <= i - 1 /\ k - 1 # i
      BY <3>1, <1>2, <1>0, Constants
    <3>3. all2[k - 1] = all[k - 1]
      BY <3>2, <3>1, Constants DEF Indirect
    <3> QED
      BY <3>1, <3>2, <3>3, <2>2 DEF Taken, Nr
  <2> QED
    BY <2>1, <2>2
<1> HIDE DEF all2
<1>3. Apart(blk, all2, i, map \cup {b}, others)
  BY <1>1, <1>2, ApartFresh
<1> QED
  BY <1>3 DEF all2

-----------------------------------------------------------------------------
(* How far a write has come: w0 is how it begins, used the last block of   *)
(* the file then, top the last one now, others the blocks of other files.  *)

\* All bits are in the sector that bitMapSync writes.
OneSector == NBlocks <= SectorBytes

TableOf(w) == w.disk.sector[w.ino.block[Direct]].table

\* No data has been written yet, and blocks are only taken.
Unwritten(w0, w) ==
  /\ w \in Works
  /\ w.disk.inode = w0.disk.inode /\ w.disk.sector = w0.disk.sector
  /\ w.ino.size = w0.ino.size
  /\ w0.bits \subseteq w.bits

\* The file has its first block.
Started(w0, w, used, others) ==
  /\ Unwritten(w0, w)
  /\ \A k \in 0..Direct : w0.ino.block[k] # 0 => w.ino.block[k] = w0.ino.block[k]
  /\ w.ino.block[Direct] = w0.ino.block[Direct]
  /\ Apart(w.ino.block, TableOf(w0), used, w.bits, others)
  /\ OneSector /\ w0.disk.bits = w0.bits => w.disk.bits = w.bits

\* allBlocks and the inode agree on the blocks to be written.
Linked(w, used, top) ==
  \A i \in used..top : i < Direct => w.ino.block[i] # 0 /\ w.all[i] = w.ino.block[i]

\* table says that a block for the table was taken.
Saved(w0, w, used, top, table) ==
  OneSector /\ w0.disk.bits = w0.bits =>
    /\ w0.bits \subseteq w.disk.bits
    /\ w.next # "stop" /\ w.ino.block[Direct] = w0.ino.block[Direct] => w.disk.bits = w.bits
    /\ w.next = "go" /\ (top > used \/ ~table) => w.disk.bits = w.bits

Keeps(w0, w, used) ==
  \A k \in 0..Direct : w0.ino.block[k] # 0 /\ (k <= used \/ w.next # "stop")
                       => w.ino.block[k] = w0.ino.block[k]

Grows(w0, w, used, top, table, others) ==
  /\ Unwritten(w0, w)
  /\ Keeps(w0, w, used)
  /\ \A i \in Indirect : i <= used => w.all[i] = TableOf(w0)[i]
  /\ w.next = "go" => /\ Apart(w.ino.block, w.all, top, w.bits, others)
                      /\ Linked(w, used, top)
                      /\ table \/ used >= Direct => w.ino.block[Direct] # 0
  /\ w.next = "fail" => Apart(w.ino.block, w.all, used, w.bits, others)
  /\ Saved(w0, w, used, top, table)

LEMMA OneSectorSync ==
  ASSUME OneSector, NEW d \in Disks, NEW map \in SUBSET Blocks, NEW b \in Blocks
  PROVE  BitMapSync(d, map, b).bits = map
<1> DEFINE written == {x \in Blocks : BitSector(x) = SyncSector(b)}
           newBits == (d.bits \ written) \cup (map \cap written)
<1>1. ASSUME NEW x \in Blocks PROVE x \div SectorBytes = 0 /\ x \div (SectorBytes * 8) = 0
  <2>1. x \in Nat /\ x < SectorBytes /\ x < SectorBytes * 8 /\ SectorBytes * 8 \in Nat \ {0}
    BY Constants DEF Blocks, OneSector
  <2> QED
    BY <2>1, Constants
<1>2. written = Blocks
  BY <1>1 DEF BitSector, SyncSector
<1>3. newBits = map
  <2>1. d.bits \subseteq Blocks
    BY DEF Disks
  <2> HIDE DEF written
  <2> QED
    BY <1>2, <2>1
<1>4. BitMapSync(d, map, b).bits = newBits
  BY DEF BitMapSync, Disks
<1> QED
  BY <1>3, <1>4

LEMMA StartsBlock ==
  ASSUME NEW w0 \in Works, NEW used \in Nat, NEW others, 0 \in w0.bits, others \subseteq w0.bits,
         w0.next = "go",
         Apart(w0.ino.block, TableOf(w0), used, w0.bits, others)
  PROVE  /\ Started(w0, w0, used, others)
         /\ w0.ino.block[0] = 0 => Started(w0, AddBlock(w0, 0), used, others)
<1>1. Started(w0, w0, used, others)
  BY DEF Started, Unwritten
<1>2. ASSUME w0.ino.block[0] = 0 PROVE Started(w0, AddBlock(w0, 0), used, others)
  <2> DEFINE v == AddBlock(w0, 0)
  <2>0. 0 \in 0..(Total - 1) /\ 0 < Direct /\ 0 \in 0..Direct
    BY Constants
  <2>1. v \in Works /\ (\/ SameFields(w0, v)
                        \/ \E b \in Blocks \ w0.bits : Added(w0, 0, b, v))
    BY <2>0, <1>2, AddBlockFields
  <2> HIDE DEF v
  <2>2. ASSUME SameFields(w0, v) PROVE Started(w0, v, used, others)
    <3>1. v.ino = w0.ino /\ v.bits = w0.bits /\ v.disk = w0.disk
      BY <2>2 DEF SameFields
    <3>2. v \in Works
      BY <2>1
    <3>3. Unwritten(w0, v)
      BY <3>1, <3>2 DEF Unwritten
    <3> QED
      BY <3>1, <3>3, <1>1 DEF Started
  <2>3. ASSUME NEW b \in Blocks \ w0.bits, Added(w0, 0, b, v)
        PROVE  Started(w0, v, used, others)
    <3>1. /\ w0.ino.block \in [0..Direct -> Blocks] /\ w0.bits \subseteq Blocks
          /\ w0.disk \in Disks /\ w0.bits \cup {b} \in SUBSET Blocks
      BY WorkFields
    <3>2. /\ v.ino.size = w0.ino.size /\ v.ino.block = [w0.ino.block EXCEPT ![0] = b]
          /\ v.bits = w0.bits \cup {b} /\ v.disk = BitMapSync(w0.disk, w0.bits \cup {b}, b)
      BY <2>3, <2>0 DEF Added
    <3>3. v.disk.inode = w0.disk.inode /\ v.disk.sector = w0.disk.sector
      BY <3>1, <3>2, SyncFields
    <3>4. Unwritten(w0, v)
      BY <2>1, <3>2, <3>3 DEF Unwritten
    <3>5. \A k \in 0..Direct : w0.ino.block[k] # 0 => v.ino.block[k] = w0.ino.block[k]
      BY <3>1, <3>2, <1>2
    <3>6. v.ino.block[Direct] = w0.ino.block[Direct]
      BY <3>1, <3>2, Constants
    <3>7. Apart([w0.ino.block EXCEPT ![0] = b], TableOf(w0), used, w0.bits \cup {b}, others)
      BY <3>1, <2>0, ApartDirect
    <3>8. OneSector => v.disk.bits = v.bits
      BY <3>1, <3>2, OneSectorSync
    <3> QED
      BY <3>2, <3>4, <3>5, <3>6, <3>7, <3>8 DEF Started
  <2> QED
    BY <2>1, <2>2, <2>3 DEF v
<1> QED
  BY <1>1, <1>2

\* The block the file ends in is found.
LEMMA GrowsFirst ==
  ASSUME NEW w0 \in Works, NEW w \in Works, NEW used \in 0..(Total - 1), NEW others,
         Started(w0, w, used, others), w.next = "go",
         NEW v,
         v = IF used < Direct
             THEN Check([w EXCEPT !.all[used] = w.ino.block[used]], w.ino.block[used] # 0)
             ELSE LoadTable(w)
  PROVE  v \in Works /\ Grows(w0, v, used, used, FALSE, others)
<1>0. used \in Int
  OBVIOUS
<1>1. CASE used < Direct
  <2> DEFINE al == [w.all EXCEPT ![used] = w.ino.block[used]]
             u == [w EXCEPT !.all = al]
             cond == w.ino.block[used] # 0
  <2>1. w.all \in [0..(Total - 1) -> Numbers] /\ w.ino.block \in [0..Direct -> Blocks]
    BY WorkFields
  <2>2. al \in [0..(Total - 1) -> Numbers] /\ al[used] = w.ino.block[used]
    BY <2>1, <1>1, Constants DEF Numbers
  <2>3. v = Check(u, cond)
    BY <1>1 DEF Works
  <2> HIDE DEF al
  <2>4. /\ u \in Works /\ u.ino = w.ino /\ u.bits = w.bits /\ u.disk = w.disk
        /\ u.all = al /\ u.next = w.next
    BY <2>2 DEF Works
  <2>5. cond \in BOOLEAN
    OBVIOUS
  <2> HIDE DEF u, cond
  <2>6. /\ v \in Works /\ v.ino = w.ino /\ v.bits = w.bits /\ v.disk = w.disk /\ v.all = al
        /\ v.next = IF ~cond THEN "stop" ELSE "go"
    BY <2>3, <2>4, <2>5, CheckFields
  <2>14. v.next = "go" => w.ino.block[used] # 0
    BY <2>6 DEF cond
  <2>7. \A i \in Indirect : ~(i <= used)
    BY <1>1, Constants DEF Indirect
  <2>8. Apart(w.ino.block, al, used, w.bits, others)
    BY <1>0, <2>7, ApartSame DEF Started
  <2>9. v.next = "go" => Linked(v, used, used)
    <3>1. v.ino.block[used] = w.ino.block[used] /\ v.all[used] = w.ino.block[used]
      BY <2>2, <2>6
    <3>2. \A i \in used..used : i = used
      BY <1>0
    <3> QED
      BY ONLY <3>1, <3>2, <2>14 DEF Linked
  <2>10. Keeps(w0, v, used)
    BY <2>6 DEF Keeps, Started
  <2>11. Unwritten(w0, v)
    BY <2>6 DEF Unwritten, Started
  <2>12. Saved(w0, v, used, used, FALSE)
    BY <2>6 DEF Saved, Started, Unwritten
  <2>13. ~(used >= Direct)
    BY <1>1, Constants
  <2> QED
    BY <2>6, <2>7, <2>8, <2>9, <2>10, <2>11, <2>12, <2>13 DEF Grows
<1>2. CASE ~(used < Direct)
  <2>1. v = LoadTable(w)
    BY <1>2
  <2>2. /\ v \in Works /\ v.ino = w.ino /\ v.bits = w.bits /\ v.disk = w.disk
        /\ \A i \in Indirect : v.all[i] = TableOf(w)[i]
        /\ v.next = IF w.ino.block[Direct] = 0 THEN "stop" ELSE "go"
    BY <2>1, LoadTableFields DEF TableOf
  <2>3. TableOf(w) = TableOf(w0)
    BY DEF TableOf, Started, Unwritten
  <2>4. \A i \in Indirect : v.all[i] = TableOf(w0)[i]
    BY <2>2, <2>3
  <2>5. Apart(w.ino.block, v.all, used, w.bits, others)
    BY <1>0, <2>4, ApartSame DEF Started
  <2>6. Linked(v, used, used)
    BY <1>2, Constants DEF Linked
  <2>10. Keeps(w0, v, used)
    BY <2>2 DEF Keeps, Started
  <2>11. Unwritten(w0, v)
    BY <2>2 DEF Unwritten, Started
  <2>12. Saved(w0, v, used, used, FALSE)
    BY <2>2 DEF Saved, Started, Unwritten
  <2>13. v.next = "go" => v.ino.block[Direct] # 0
    BY <2>2
  <2> QED
    BY <2>2, <2>4, <2>5, <2>6, <2>10, <2>11, <2>12, <2>13 DEF Grows
<1> QED
  BY <1>1, <1>2

\* An ASSERT that fails inside fileWrite leaves the file as it was.
LEMMA GrowsStopped ==
  ASSUME NEW w0 \in Works, NEW w \in Works, NEW v \in Works, NEW used, NEW top, NEW below,
         NEW table, NEW before, NEW others, NEW b,
         Grows(w0, w, used, below, before, others), w.next = "go", Stopped(w, b, v)
  PROVE  Grows(w0, v, used, top, table, others)
<1>1. /\ v.ino = w.ino /\ v.disk = w.disk /\ v.all = w.all
      /\ v.bits = w.bits \cup {b} /\ v.next = "stop"
  BY DEF Stopped
<1>2. Unwritten(w0, v)
  BY <1>1 DEF Grows, Unwritten
<1>3. Keeps(w0, v, used)
  BY <1>1 DEF Grows, Keeps
<1>4. \A i \in Indirect : i <= used => v.all[i] = TableOf(w0)[i]
  BY <1>1 DEF Grows
<1>5. Saved(w0, v, used, top, table)
  BY <1>1 DEF Grows, Saved
<1>6. v.next # "go" /\ v.next # "fail"
  BY <1>1
<1> QED
  BY ONLY <1>2, <1>3, <1>4, <1>5, <1>6 DEF Grows

\* A block for the table is taken.
LEMMA GrowsTable ==
  ASSUME NEW w0 \in Works, NEW w \in Works, NEW used \in 0..(Total - 1), NEW others,
         0 \in w0.bits, others \subseteq w0.bits, used < Direct,
         Grows(w0, w, used, used, FALSE, others)
  PROVE  AddTable(w) \in Works /\ Grows(w0, AddTable(w), used, used, TRUE, others)
<1> DEFINE v == AddTable(w)
<1> SUFFICES v \in Works /\ Grows(w0, v, used, used, TRUE, others)
  OBVIOUS
<1>1. /\ v \in Works
      /\ w.next # "go" => v = w
      /\ w.next = "go" => \/ SameFields(w, v) /\ v.next = "fail"
                          \/ \E b \in Blocks \ w.bits : TableAdded(w, b, v)
                          \/ \E b \in Blocks : Stopped(w, b, v)
  BY AddTableFields
<1> HIDE DEF v
<1>2. CASE w.next # "go"
  BY <1>1, <1>2 DEF Grows, Saved
<1>3. ASSUME w.next = "go", SameFields(w, v), v.next = "fail"
      PROVE  Grows(w0, v, used, used, TRUE, others)
  <2>1. v.ino = w.ino /\ v.bits = w.bits /\ v.disk = w.disk /\ v.all = w.all
    BY <1>3 DEF SameFields
  <2>2. Unwritten(w0, v)
    BY <1>1, <2>1 DEF Grows, Unwritten
  <2>3. Keeps(w0, v, used)
    BY <1>3, <2>1 DEF Grows, Keeps
  <2>4. Saved(w0, v, used, used, TRUE)
    BY <1>3, <2>1 DEF Grows, Saved
  <2>5. Apart(v.ino.block, v.all, used, v.bits, others)
    BY <1>3, <2>1 DEF Grows
  <2>6. \A i \in Indirect : i <= used => v.all[i] = TableOf(w0)[i]
    BY <2>1 DEF Grows
  <2>7. v.next # "go"
    BY <1>3
  <2> QED
    BY ONLY <2>2, <2>3, <2>4, <2>5, <2>6, <2>7 DEF Grows
<1>4. ASSUME w.next = "go", NEW b \in Blocks \ w.bits, TableAdded(w, b, v)
      PROVE  Grows(w0, v, used, used, TRUE, others)
  <2>1. /\ v.ino.size = w.ino.size /\ v.ino.block = [w.ino.block EXCEPT ![Direct] = b]
        /\ v.bits = w.bits \cup {b} /\ v.all = w.all /\ v.disk = w.disk
        /\ v.next = "go" /\ w.ino.block[Direct] = 0
    BY <1>4 DEF TableAdded
  <2>2. w.ino.block \in [0..Direct -> Blocks] /\ w.bits \subseteq Blocks /\ Direct \in 0..Direct
    BY WorkFields, Constants
  <2>3. 0 \in w.bits /\ others \subseteq w.bits /\ w0.bits \subseteq w.bits
    BY DEF Grows, Unwritten
  <2>4. b # 0 /\ v.ino.block[Direct] = b
    BY <2>1, <2>2, <2>3
  <2>5. Unwritten(w0, v)
    BY <1>1, <2>1, <2>3 DEF Grows, Unwritten
  <2>6. ASSUME NEW k \in 0..Direct, w0.ino.block[k] # 0, k <= used \/ v.next # "stop"
        PROVE  v.ino.block[k] = w0.ino.block[k]
    <3>1. w.ino.block[k] = w0.ino.block[k]
      BY <2>6, <1>4 DEF Grows, Keeps
    <3>2. k # Direct
      BY <3>1, <2>6, <2>1
    <3> QED
      BY <3>1, <3>2, <2>1, <2>2
  <2>7. Apart([w.ino.block EXCEPT ![Direct] = b], w.all, used, w.bits \cup {b}, others)
    <3>1. Apart(w.ino.block, w.all, used, w.bits, others) /\ used \in Int
      BY <1>4 DEF Grows
    <3> QED
      BY <3>1, <2>2, <2>3, ApartDirect
  <2>8. Linked(v, used, used)
    <3>1. Linked(w, used, used)
      BY <1>4 DEF Grows
    <3>2. ASSUME NEW i \in used..used PROVE v.ino.block[i] = w.ino.block[i] /\ v.all[i] = w.all[i]
      BY <2>1, <2>2, Constants
    <3> QED
      BY <3>1, <3>2 DEF Linked
  <2>9. Saved(w0, v, used, used, TRUE)
    <3>1. ASSUME OneSector, w0.disk.bits = w0.bits
          PROVE  /\ w0.bits \subseteq v.disk.bits
                 /\ ~(v.next # "stop" /\ v.ino.block[Direct] = w0.ino.block[Direct])
      <4>1. w0.bits \subseteq w.disk.bits
        BY <3>1 DEF Grows, Saved
      <4>2. ASSUME v.next # "stop", v.ino.block[Direct] = w0.ino.block[Direct] PROVE FALSE
        <5>1. w0.ino.block[Direct] # 0 /\ w.ino.block[Direct] = 0
          BY <4>2, <2>4, <2>1
        <5>2. w.ino.block[Direct] = w0.ino.block[Direct]
          BY <5>1, <1>4, <2>2 DEF Grows, Keeps
        <5> QED
          BY <5>1, <5>2
      <4> QED
        BY <4>1, <4>2, <2>1
    <3>2. ~(used > used)
      OBVIOUS
    <3> QED
      BY <3>1, <3>2 DEF Saved
  <2>10. Keeps(w0, v, used)
    BY <2>6 DEF Keeps
  <2>11. \A i \in Indirect : i <= used => v.all[i] = TableOf(w0)[i]
    BY <2>1 DEF Grows
  <2>12. v.next # "fail"
    BY <2>1
  <2> QED
    BY <2>1, <2>4, <2>5, <2>7, <2>8, <2>9, <2>10, <2>11, <2>12 DEF Grows
<1>5. ASSUME w.next = "go", NEW b \in Blocks, Stopped(w, b, v)
      PROVE  Grows(w0, v, used, used, TRUE, others)
  BY <1>1, <1>5, GrowsStopped
<1> QED
  BY <1>1, <1>2, <1>3, <1>4, <1>5

\* A round of the loop takes block i.
LEMMA GrowsBlock ==
  ASSUME NEW w0 \in Works, NEW w \in Works, NEW used \in 0..(Total - 1), NEW others,
         NEW table \in BOOLEAN, NEW i \in (used + 1)..(Total - 1),
         0 \in w0.bits, others \subseteq w0.bits,
         Grows(w0, w, used, i - 1, table, others)
  PROVE  AddBlock(w, i) \in Works /\ Grows(w0, AddBlock(w, i), used, i, table, others)
<1> DEFINE v == AddBlock(w, i)
<1> SUFFICES v \in Works /\ Grows(w0, v, used, i, table, others)
  OBVIOUS
<1>0. i \in 0..(Total - 1) /\ i > used /\ i - 1 >= used /\ i - 1 \in Int /\ used \in Int
  BY Constants
<1>1. /\ v \in Works
      /\ w.next # "go" => v = w
      /\ w.next = "go" => \/ SameFields(w, v) /\ v.next = "fail"
                          \/ \E b \in Blocks \ w.bits : Added(w, i, b, v)
                          \/ \E b \in Blocks : Stopped(w, b, v)
  BY <1>0, AddBlockFields
<1> HIDE DEF v
<1>2. CASE w.next # "go"
  BY <1>1, <1>2 DEF Grows, Saved
<1>3. ASSUME w.next = "go", SameFields(w, v), v.next = "fail"
      PROVE  Grows(w0, v, used, i, table, others)
  <2>1. v.ino = w.ino /\ v.bits = w.bits /\ v.disk = w.disk /\ v.all = w.all
    BY <1>3 DEF SameFields
  <2>2. Unwritten(w0, v)
    BY <1>1, <2>1 DEF Grows, Unwritten
  <2>3. Keeps(w0, v, used)
    BY <1>3, <2>1 DEF Grows, Keeps
  <2>4. Saved(w0, v, used, i, table)
    BY <1>3, <2>1 DEF Grows, Saved
  <2>5. Apart(w.ino.block, w.all, used, w.bits, others)
    <3>1. Apart(w.ino.block, w.all, i - 1, w.bits, others)
      BY <1>3 DEF Grows
    <3>2. \A j \in Indirect : j <= used => j <= i - 1
      BY <1>0, Constants DEF Indirect
    <3> QED
      BY <3>1, <3>2, <1>0, ApartSame
  <2>6. \A j \in Indirect : j <= used => v.all[j] = TableOf(w0)[j]
    BY <2>1 DEF Grows
  <2>7. v.next # "go"
    BY <1>3
  <2>8. Apart(v.ino.block, v.all, used, v.bits, others)
    BY <2>1, <2>5
  <2> QED
    BY ONLY <2>2, <2>3, <2>4, <2>6, <2>7, <2>8 DEF Grows
<1>4. ASSUME w.next = "go", NEW b \in Blocks \ w.bits, Added(w, i, b, v)
      PROVE  Grows(w0, v, used, i, table, others)
  <2>1. /\ v.ino.size = w.ino.size
        /\ v.ino.block = IF i < Direct THEN [w.ino.block EXCEPT ![i] = b] ELSE w.ino.block
        /\ v.bits = w.bits \cup {b} /\ v.all = [w.all EXCEPT ![i] = b]
        /\ v.disk = BitMapSync(w.disk, w.bits \cup {b}, b)
        /\ v.next = "go" /\ (i < Direct => w.ino.block[i] = 0)
    BY <1>4 DEF Added
  <2>2. /\ w.ino.block \in [0..Direct -> Blocks] /\ w.bits \subseteq Blocks
        /\ w.all \in [0..(Total - 1) -> Numbers] /\ w.disk \in Disks
        /\ w.bits \cup {b} \in SUBSET Blocks
    BY WorkFields
  <2>3. 0 \in w.bits /\ others \subseteq w.bits /\ w0.bits \subseteq w.bits
    BY DEF Grows, Unwritten
  <2>4. b # 0
    BY <2>3
  <2>5. Unwritten(w0, v)
    <3>1. v.disk.inode = w.disk.inode /\ v.disk.sector = w.disk.sector
      BY <2>1, <2>2, SyncFields
    <3> QED
      BY <1>1, <2>1, <2>3, <3>1 DEF Grows, Unwritten
  <2>6. ASSUME NEW k \in 0..Direct, w0.ino.block[k] # 0, k <= used \/ v.next # "stop"
        PROVE  v.ino.block[k] = w0.ino.block[k]
    <3>1. w.ino.block[k] = w0.ino.block[k]
      BY <2>6, <1>4 DEF Grows, Keeps
    <3>2. i < Direct => k # i
      BY <3>1, <2>6, <2>1
    <3> QED
      BY <3>1, <3>2, <2>1, <2>2
  <2>7. Apart(v.ino.block, v.all, i, w.bits \cup {b}, others)
    <3>1. Apart(w.ino.block, w.all, i - 1, w.bits, others)
      BY <1>4 DEF Grows
    <3>2. CASE i < Direct
      <4>1. \A j \in Indirect : ~(j <= i)
        BY <3>2, <1>0, Constants DEF Indirect
      <4>2. i \in 0..Direct
        BY <3>2, <1>0, Constants
      <4>3. Apart([w.ino.block EXCEPT ![i] = b], v.all, i, w.bits \cup {b}, others)
        BY <3>1, <4>1, <4>2, <2>2, <2>3, <1>0, ApartDirect
      <4> QED
        BY <4>3, <3>2, <2>1
    <3>3. CASE ~(i < Direct)
      <4>1. i \in Indirect
        BY <3>3, <1>0, Constants DEF Indirect
      <4>2. Apart(w.ino.block, [w.all EXCEPT ![i] = b], i, w.bits \cup {b}, others)
        BY <3>1, <4>1, <2>2, <2>3, ApartIndirect
      <4> QED
        BY <4>2, <3>3, <2>1
    <3> QED
      BY <3>2, <3>3
  <2>8. ASSUME NEW j \in used..i, j < Direct
        PROVE  v.ino.block[j] # 0 /\ v.all[j] = v.ino.block[j]
    <3>1. CASE j = i
      BY <3>1, <2>8, <2>1, <2>2, <2>4, <1>0, Constants
    <3>2. CASE j # i
      <4>1. j \in used..(i - 1) /\ j \in 0..(Total - 1)
        BY <3>2, <1>0, Constants
      <4>2. w.ino.block[j] # 0 /\ w.all[j] = w.ino.block[j]
        BY <4>1, <2>8, <1>4 DEF Grows, Linked
      <4>3. v.ino.block[j] = w.ino.block[j] /\ v.all[j] = w.all[j]
        BY <3>2, <4>1, <2>1, <2>2, <2>8
      <4> QED
        BY <4>2, <4>3
    <3> QED
      BY <3>1, <3>2
  <2>9. Saved(w0, v, used, i, table)
    <3>1. OneSector => v.disk.bits = w.bits \cup {b}
      BY <2>1, <2>2, OneSectorSync
    <3> QED
      BY <3>1, <2>1, <2>3 DEF Saved
  <2>10. Keeps(w0, v, used)
    BY <2>6 DEF Keeps
  <2>11. \A j \in Indirect : j <= used => v.all[j] = TableOf(w0)[j]
    <3>1. ASSUME NEW j \in Indirect, j <= used PROVE v.all[j] = w.all[j]
      BY <3>1, <2>1, <2>2, <1>0, Constants DEF Indirect
    <3> QED
      BY <3>1 DEF Grows
  <2>12. v.next # "fail"
    BY <2>1
  <2>13. table \/ used >= Direct => v.ino.block[Direct] # 0
    <3>1. v.ino.block[Direct] = w.ino.block[Direct]
      BY <2>1, <2>2, Constants
    <3> QED
      BY <3>1, <1>4 DEF Grows
  <2>14. Linked(v, used, i)
    BY <2>8 DEF Linked
  <2> QED
    BY <2>1, <2>5, <2>7, <2>9, <2>10, <2>11, <2>12, <2>13, <2>14 DEF Grows
<1>5. ASSUME w.next = "go", NEW b \in Blocks, Stopped(w, b, v)
      PROVE  Grows(w0, v, used, i, table, others)
  BY <1>1, <1>5, GrowsStopped
<1> QED
  BY <1>1, <1>2, <1>3, <1>4, <1>5

\* The loop over the blocks has a result after each of them.
LEMMA AddBlocksRounds ==
  ASSUME NEW w \in Works, NEW used \in 0..(Total - 1), NEW will \in used..(Total - 1)
  PROVE  \E f : /\ f[used] = w /\ f[will] \in Works
                /\ \A i \in (used + 1)..will : f[i] = AddBlock(f[i - 1], i)
                /\ AddBlocks(w, used, will) = f[will]
<1> DEFINE step == [x \in Works \X ((used + 1)..will) |-> AddBlock(x[1], x[2])]
           Loop(f) == f = [i \in used..will |-> IF i = used THEN w ELSE AddBlock(f[i - 1], i)]
<1>0. /\ used \in Int /\ will \in Int /\ used <= will
      /\ \A i \in (used + 1)..will : i \in 0..(Total - 1) /\ i \in used..will /\ i # used
      /\ \A i \in used..will : i # used => i \in (used + 1)..will
      /\ used \in used..will /\ will \in used..will
  BY Constants
<1>1. step \in [Works \X ((used + 1)..will) -> Works]
  BY <1>0, AddBlockFields
<1>2. PICK f : Rounds(f, used, will, Works, w, step)
  <2> HIDE DEF step
  <2> QED
    BY <1>0, <1>1, LoopExists
<1>3. ASSUME NEW i \in (used + 1)..will PROVE f[i] = AddBlock(f[i - 1], i)
  <2>1. f[i - 1] \in Works
    <3>1. i - 1 \in used..will
      BY <1>0
    <3> HIDE DEF step
    <3> QED
      BY <3>1, <1>2 DEF Rounds
  <2>2. f[i] = step[<<f[i - 1], i>>]
    BY <1>2 DEF Rounds
  <2>3. <<f[i - 1], i>> \in Works \X ((used + 1)..will)
    BY <2>1
  <2> QED
    BY <2>2, <2>3
<1>4. Loop(f)
  <2> HIDE DEF step
  <2>1. f \in [used..will -> Works] /\ f[used] = w
    BY <1>2 DEF Rounds
  <2> QED
    BY <2>1, <1>0, <1>3
<1> DEFINE added == CHOOSE g : Loop(g)
<1>5. Loop(added)
  BY <1>4
<1>6. AddBlocks(w, used, will) = added[will]
  BY DEF AddBlocks
<1>7. added[used] = w /\ \A i \in (used + 1)..will : added[i] = AddBlock(added[i - 1], i)
  <2> HIDE DEF added
  <2> QED
    BY <1>5, <1>0
<1>8. added[will] \in Works
  <2> DEFINE T == {i \in used..will : added[i] \in Works}
  <2>2. used \in T
    BY <1>0, <1>7
  <2>3. ASSUME NEW i \in used..(will - 1), i \in T PROVE i + 1 \in T
    <3>1. i + 1 \in (used + 1)..will /\ (i + 1) - 1 = i /\ i + 1 \in used..will
      BY <1>0
    <3> HIDE DEF added
    <3>2. added[i + 1] = AddBlock(added[i], i + 1) /\ added[i] \in Works
      BY <3>1, <1>7, <2>3
    <3> QED
      BY <3>1, <3>2, <1>0, AddBlockFields
  <2>4. \A i \in used..will : i \in T
    <3> HIDE DEF T
    <3> QED
      BY <1>0, <2>2, <2>3, Induction
  <2> QED
    BY <2>4, <1>0
<1> QED
  BY <1>6, <1>7, <1>8

LEMMA GrowsBlocks ==
  ASSUME NEW w0 \in Works, NEW w \in Works, NEW used \in 0..(Total - 1), NEW others,
         NEW table \in BOOLEAN, NEW will \in used..(Total - 1),
         0 \in w0.bits, others \subseteq w0.bits,
         Grows(w0, w, used, used, table, others)
  PROVE  /\ AddBlocks(w, used, will) \in Works
         /\ Grows(w0, AddBlocks(w, used, will), used, will, table, others)
<1>1. PICK f : /\ f[used] = w /\ f[will] \in Works
               /\ \A i \in (used + 1)..will : f[i] = AddBlock(f[i - 1], i)
               /\ AddBlocks(w, used, will) = f[will]
  BY AddBlocksRounds
<1> DEFINE S == {i \in used..will : f[i] \in Works /\ Grows(w0, f[i], used, i, table, others)}
<1>2. used \in S
  BY <1>1
<1>3. ASSUME NEW i \in used..(will - 1), i \in S PROVE i + 1 \in S
  <2>1. i + 1 \in (used + 1)..will /\ (i + 1) - 1 = i /\ i + 1 \in (used + 1)..(Total - 1)
        /\ i + 1 \in used..will
    BY Constants
  <2>2. f[i + 1] = AddBlock(f[i], i + 1)
    BY <2>1, <1>1
  <2>3. f[i] \in Works /\ Grows(w0, f[i], used, (i + 1) - 1, table, others)
    BY <2>1, <1>3
  <2>4. AddBlock(f[i], i + 1) \in Works
        /\ Grows(w0, AddBlock(f[i], i + 1), used, i + 1, table, others)
    BY <2>1, <2>3, GrowsBlock
  <2> QED
    BY <2>1, <2>2, <2>4
<1>4. \A i \in used..will : i \in S
  <2>1. used \in Int /\ will \in Int
    OBVIOUS
  <2> HIDE DEF S
  <2> QED
    BY <2>1, <1>2, <1>3, Induction
<1>5. will \in used..will
  OBVIOUS
<1> QED
  BY <1>1, <1>4, <1>5

\* All that a write does before the data: v is how far it came.
LEMMA GrowIs ==
  ASSUME NEW w0 \in Works, NEW w \in Works, NEW n \in Nat, NEW others,
         NEW used \in Nat, NEW will \in 0..(Total - 1),
         used = w0.ino.size \div B, will = (w0.ino.size + n) \div B, used <= will,
         0 \in w0.bits, others \subseteq w0.bits,
         Started(w0, w, used, others), w.next = "go"
  PROVE  \E v \in Works :
           /\ Grows(w0, v, used, will, used < Direct /\ will >= Direct, others)
           /\ Grow(w, n) = IF used < will /\ will >= Direct THEN StoreTable(v) ELSE v
<1> DEFINE first == IF used < Direct
                    THEN Check([w EXCEPT !.all[used] = w.ino.block[used]], w.ino.block[used] # 0)
                    ELSE LoadTable(w)
           need == used < Direct /\ will >= Direct
           table == IF need THEN AddTable(first) ELSE first
           all == AddBlocks(table, used, will)
<1>0. used \in 0..(Total - 1) /\ will \in used..(Total - 1)
  BY Constants
<1>1. w.ino.size = w0.ino.size
  BY DEF Started, Unwritten
<1>2. Grow(w, n) = IF used < will /\ will >= Direct THEN StoreTable(all) ELSE all
  BY <1>1 DEF Grow
<1>3. first \in Works /\ Grows(w0, first, used, used, FALSE, others)
  BY <1>0, GrowsFirst
<1> HIDE DEF first
<1>4. table \in Works /\ Grows(w0, table, used, used, need, others)
  <2>1. CASE need
    <3>1. AddTable(first) \in Works /\ Grows(w0, AddTable(first), used, used, TRUE, others)
      BY <2>1, <1>0, <1>3, GrowsTable
    <3>2. need = TRUE
      BY <2>1
    <3> QED
      BY <3>1, <3>2, <2>1
  <2>2. CASE ~need
    <3>1. need = FALSE
      BY <2>2
    <3> QED
      BY <3>1, <2>2, <1>3
  <2> QED
    BY <2>1, <2>2
<1>5. need \in BOOLEAN
  OBVIOUS
<1>6. all \in Works /\ Grows(w0, all, used, will, need, others)
  <2> HIDE DEF table, need
  <2> QED
    BY <1>0, <1>4, <1>5, GrowsBlocks
<1> QED
  BY <1>2, <1>6

-----------------------------------------------------------------------------
(* The data                                                                *)

\* The file does not get too long.
Fits(size, n) == size + n <= Total * B

\* A sector with block i of f after a write of n bytes behind size; old is
\* what was in the rest of it.
Written(f, size, n, i, old) ==
  [data |-> [o \in 0..(B - 1) |-> IF i * B + o \in size..(size + n - 1)
                                  THEN <<f, i * B + o>> ELSE old[o]],
   table |-> NoTable]

OldData(w, i) == IF i = w.ino.size \div B THEN w.disk.sector[w.all[i]].data ELSE NoData

\* Only the sectors have changed.
OnlySectors(w, v) ==
  /\ v.ino = w.ino /\ v.bits = w.bits /\ v.all = w.all /\ v.next = w.next
  /\ v.disk.inode = w.disk.inode /\ v.disk.bits = w.disk.bits

LEMMA PutSectorFields ==
  ASSUME NEW f \in Files, NEW w \in Works, NEW n \in Nat, NEW i \in 0..(Total - 1),
         Fits(w.ino.size, n)
  PROVE  /\ PutSector(f, w, n, i) \in Works
         /\ OnlySectors(w, PutSector(f, w, n, i))
         /\ PutSector(f, w, n, i).disk.sector =
              [w.disk.sector EXCEPT ![w.all[i]] = Written(f, w.ino.size, n, i, OldData(w, i))]
<1> DEFINE old == OldData(w, i)
           new == Written(f, w.ino.size, n, i, old)
           sec == [w.disk.sector EXCEPT ![w.all[i]] = new]
           d == [w.disk EXCEPT !.sector = sec]
<1>1. /\ w.all \in [0..(Total - 1) -> Numbers] /\ w.disk \in Disks
      /\ w.disk.sector \in [Blocks -> Sectors] /\ w.ino.size \in 0..(Total * B)
  BY WorkFields
<1>2. w.all[i] \in Numbers
  BY <1>1
<1>3. sec \in [Blocks -> Sectors]
  <2>1. CASE w.all[i] \in Blocks
    <3>1. old \in [0..(B - 1) -> (Files \X (0..(Total * B - 1))) \cup {Junk}]
      <4>1. NoData \in [0..(B - 1) -> (Files \X (0..(Total * B - 1))) \cup {Junk}]
        BY DEF NoData
      <4>2. w.disk.sector[w.all[i]] \in Sectors
        BY <2>1, <1>1
      <4>3. w.disk.sector[w.all[i]].data
              \in [0..(B - 1) -> (Files \X (0..(Total * B - 1))) \cup {Junk}]
        BY <4>2 DEF Sectors
      <4> QED
        BY <4>1, <4>3 DEF OldData
    <3>2. ASSUME NEW o \in 0..(B - 1), i * B + o \in w.ino.size..(w.ino.size + n - 1)
          PROVE  <<f, i * B + o>> \in Files \X (0..(Total * B - 1))
      <4>1. i * B + o \in Nat /\ w.ino.size \in Int
        BY <1>1, PlaceByte
      <4>2. Total * B \in Nat
        BY Constants
      <4>3. i * B + o <= Total * B - 1
        BY <4>1, <4>2, <3>2, <1>1 DEF Fits
      <4> QED
        BY <4>1, <4>2, <4>3
    <3>3. new.data \in [0..(B - 1) -> (Files \X (0..(Total * B - 1))) \cup {Junk}]
      <4> HIDE DEF old
      <4> QED
        BY <3>1, <3>2 DEF Written
    <3>4. new.table = NoTable /\ NoTable \in [Indirect -> Blocks \cup {None}]
      BY DEF Written, NoTable
    <3>5. new = [data |-> new.data, table |-> new.table]
      BY DEF Written
    <3>6. new \in Sectors
      <4> HIDE DEF new
      <4> QED
        BY <3>3, <3>4, <3>5 DEF Sectors
    <3> HIDE DEF new
    <3> QED
      BY <3>6, <1>1
  <2>2. CASE w.all[i] \notin Blocks
    <3>1. sec = w.disk.sector
      BY <2>2, <1>1
    <3> QED
      BY <3>1, <1>1
  <2> QED
    BY <2>1, <2>2
<1>4. PutSector(f, w, n, i) = [w EXCEPT !.disk = d]
  <2>1. PutSector(f, w, n, i) = [w EXCEPT !.disk.sector[w.all[i]] = new]
    BY DEF PutSector, Written, OldData
  <2> HIDE DEF new
  <2> QED
    BY <2>1 DEF Works, Disks
<1> HIDE DEF sec
<1>5. d \in Disks /\ d.sector = sec /\ d.inode = w.disk.inode /\ d.bits = w.disk.bits
  BY <1>1, <1>3 DEF Disks
<1> HIDE DEF d
<1>6. /\ [w EXCEPT !.disk = d] \in Works /\ [w EXCEPT !.disk = d].disk = d
      /\ [w EXCEPT !.disk = d].ino = w.ino /\ [w EXCEPT !.disk = d].bits = w.bits
      /\ [w EXCEPT !.disk = d].all = w.all /\ [w EXCEPT !.disk = d].next = w.next
  BY <1>5 DEF Works
<1> QED
  BY <1>4, <1>5, <1>6 DEF OnlySectors, sec

\* What the sectors of a write are after each round.
SectorRounds(g, f, w, n, first, last) ==
  /\ g \in [(first - 1)..last -> Works]
  /\ g[first - 1] = w
  /\ \A i \in first..last : /\ g[i] = PutSector(f, g[i - 1], n, i)
                            /\ OnlySectors(w, g[i - 1])
                            /\ OnlySectors(w, g[i])
  /\ PutSectors(f, w, n, first, last) = g[last]
  /\ OnlySectors(w, g[last])

LEMMA PutSectorsRounds ==
  ASSUME NEW f \in Files, NEW w \in Works, NEW n \in Nat, NEW first \in 0..(Total - 1),
         NEW last \in (first - 1)..(Total - 1), Fits(w.ino.size, n)
  PROVE  \E g : SectorRounds(g, f, w, n, first, last)
<1> DEFINE S == {v \in Works : OnlySectors(w, v)}
           step == [x \in S \X (((first - 1) + 1)..last) |-> PutSector(f, x[1], n, x[2])]
           Loop(g) == g = [i \in (first - 1)..last |->
                             IF i = first - 1 THEN w ELSE PutSector(f, g[i - 1], n, i)]
<1>0. /\ first - 1 \in Int /\ last \in Int /\ first - 1 <= last
      /\ \A i \in ((first - 1) + 1)..last :
           i \in 0..(Total - 1) /\ i \in (first - 1)..last /\ i # first - 1 /\ i - 1 \in (first - 1)..last
      /\ \A i \in (first - 1)..last : i # first - 1 => i \in ((first - 1) + 1)..last
      /\ first - 1 \in (first - 1)..last /\ last \in (first - 1)..last
      /\ first..last = ((first - 1) + 1)..last
  BY Constants
<1>1. ASSUME NEW v \in S, NEW i \in ((first - 1) + 1)..last PROVE PutSector(f, v, n, i) \in S
  <2>1. Fits(v.ino.size, n)
    BY DEF OnlySectors
  <2>2. PutSector(f, v, n, i) \in Works /\ OnlySectors(v, PutSector(f, v, n, i))
    BY <1>0, <2>1, PutSectorFields
  <2> QED
    BY <2>2 DEF OnlySectors
<1>2. step \in [S \X (((first - 1) + 1)..last) -> S]
  <2> HIDE DEF S
  <2> QED
    BY <1>1
<1>3. w \in S
  BY DEF OnlySectors
<1>4. PICK g : Rounds(g, first - 1, last, S, w, step)
  <2> HIDE DEF step, S
  <2> QED
    BY <1>0, <1>2, <1>3, LoopExists
<1>5. ASSUME NEW i \in ((first - 1) + 1)..last PROVE g[i] = PutSector(f, g[i - 1], n, i)
  <2>1. g[i - 1] \in S
    <3> HIDE DEF step, S
    <3> QED
      BY <1>0, <1>4 DEF Rounds
  <2>2. g[i] = step[<<g[i - 1], i>>]
    <3> HIDE DEF step, S
    <3> QED
      BY <1>4 DEF Rounds
  <2>3. <<g[i - 1], i>> \in S \X (((first - 1) + 1)..last)
    BY <2>1
  <2> HIDE DEF S
  <2> QED
    BY <2>2, <2>3
<1>6. g \in [(first - 1)..last -> S] /\ g[first - 1] = w
  <2> HIDE DEF step, S
  <2> QED
    BY <1>4 DEF Rounds
<1>7. Loop(g)
  <2> HIDE DEF step, S
  <2> QED
    BY <1>6, <1>0, <1>5
<1> DEFINE put == CHOOSE h : Loop(h)
<1>8. Loop(put)
  BY <1>7
<1>9. PutSectors(f, w, n, first, last) = put[last]
  BY DEF PutSectors
<1> DEFINE T == {i \in (first - 1)..last : put[i] = g[i]}
<1>10. /\ DOMAIN put = (first - 1)..last
       /\ put[first - 1] = w
       /\ \A i \in ((first - 1) + 1)..last : put[i] = PutSector(f, put[i - 1], n, i)
  <2> HIDE DEF put
  <2> QED
    BY <1>8, <1>0
<1>11. \A i \in (first - 1)..last : i \in T
  <2>1. first - 1 \in T
    BY <1>0, <1>6, <1>10
  <2>2. ASSUME NEW i \in (first - 1)..(last - 1), i \in T PROVE i + 1 \in T
    <3>1. i + 1 \in ((first - 1) + 1)..last /\ (i + 1) - 1 = i /\ i + 1 \in (first - 1)..last
      BY <1>0
    <3>2. put[i + 1] = PutSector(f, put[i], n, i + 1) /\ g[i + 1] = PutSector(f, g[i], n, i + 1)
      BY <3>1, <1>10, <1>5
    <3> QED
      BY <3>1, <3>2, <2>2
  <2> HIDE DEF T
  <2> QED
    BY <2>1, <2>2, <1>0, Induction
<1>12. put[last] = g[last]
  BY <1>11, <1>0
<1>13. \A i \in (first - 1)..last : g[i] \in S
  <2> HIDE DEF S
  <2> QED
    BY <1>6
<1>14. g \in [(first - 1)..last -> Works]
  BY <1>6
<1>15. \A i \in first..last : i - 1 \in (first - 1)..last /\ i \in (first - 1)..last
  BY <1>0
<1> QED
  <2> HIDE DEF put, T
  <2>1. \A i \in (first - 1)..last : OnlySectors(w, g[i])
    BY <1>13
  <2>2. \A i \in first..last : g[i] = PutSector(f, g[i - 1], n, i)
    BY <1>0, <1>5
  <2> HIDE DEF S, step
  <2>3. SectorRounds(g, f, w, n, first, last)
    BY <1>0, <1>6, <1>9, <1>12, <1>14, <1>15, <2>1, <2>2 DEF SectorRounds
  <2> QED
    BY <2>3

\* The sectors of blocks used to i have the data, the others are as they were.
Put(f, w, n, used, i, v) ==
  /\ \A j \in used..i : v.disk.sector[w.all[j]] = Written(f, w.ino.size, n, j, OldData(w, j))
  /\ \A b \in Blocks : (\A j \in used..i : b # w.all[j]) => v.disk.sector[b] = w.disk.sector[b]

LEMMA PutSectorsIs ==
  ASSUME NEW f \in Files, NEW w \in Works, NEW n \in Nat, NEW used \in 0..(Total - 1),
         NEW last \in (used - 1)..(Total - 1), Fits(w.ino.size, n),
         used = w.ino.size \div B,
         \A i \in used..last : w.all[i] \in Blocks,
         \A i, j \in used..last : w.all[i] = w.all[j] => i = j
  PROVE  Put(f, w, n, used, last, PutSectors(f, w, n, used, last))
<1>1. PICK g : SectorRounds(g, f, w, n, used, last)
  BY PutSectorsRounds
<1> DEFINE S == {i \in (used - 1)..last : Put(f, w, n, used, i, g[i])}
<1>2. used - 1 \in S
  <2>1. \A j : j \notin used..(used - 1)
    OBVIOUS
  <2>2. used - 1 \in (used - 1)..last
    OBVIOUS
  <2> QED
    BY <2>1, <2>2, <1>1 DEF Put, SectorRounds
<1>3. ASSUME NEW i \in (used - 1)..(last - 1), i \in S PROVE i + 1 \in S
  <2> DEFINE k == i + 1
             u == g[i]
             v == g[i + 1]
             new == Written(f, w.ino.size, n, k, OldData(w, k))
  <2>1. /\ k \in used..last /\ k - 1 = i /\ k \in 0..(Total - 1) /\ k \in (used - 1)..last
        /\ i \in (used - 1)..last
        /\ \A j \in used..k : j \in used..last /\ (j # k => j \in used..i)
        /\ \A j \in used..i : j \in used..k /\ j \in used..last /\ j # k
    BY Constants
  <2>2. u \in Works /\ v = PutSector(f, u, n, k) /\ OnlySectors(w, u)
    BY <2>1, <1>1 DEF SectorRounds
  <2>3. Put(f, w, n, used, i, u)
    BY <1>3
  <2> HIDE DEF k, u, v
  <2>4. u.ino = w.ino /\ u.all = w.all
    BY <2>2 DEF OnlySectors
  <2>5. v.disk.sector = [u.disk.sector EXCEPT ![w.all[k]] = Written(f, w.ino.size, n, k, OldData(u, k))]
    <3>1. /\ f \in Files /\ u \in Works /\ n \in Nat /\ k \in 0..(Total - 1)
          /\ Fits(u.ino.size, n)
      BY <2>1, <2>2, <2>4
    <3>2. PutSector(f, u, n, k).disk.sector =
            [u.disk.sector EXCEPT ![u.all[k]] = Written(f, u.ino.size, n, k, OldData(u, k))]
      BY ONLY <3>1, PutSectorFields
    <3> QED
      BY <3>2, <2>2, <2>4
  <2>6. w.all[k] \in Blocks /\ u.disk.sector \in [Blocks -> Sectors]
    BY <2>1, <2>2, WorkFields
  <2>7. OldData(u, k) = OldData(w, k)
    <3>1. u.disk.sector[w.all[k]] = w.disk.sector[w.all[k]]
      <4>1. \A j \in used..i : w.all[k] # w.all[j]
        BY <2>1
      <4> QED
        BY <4>1, <2>3, <2>6 DEF Put
    <3> QED
      BY <3>1, <2>4 DEF OldData
  <2>8. v.disk.sector = [u.disk.sector EXCEPT ![w.all[k]] = new]
    BY <2>5, <2>7
  <2> HIDE DEF new
  <2>9. ASSUME NEW j \in used..k
        PROVE  v.disk.sector[w.all[j]] = Written(f, w.ino.size, n, j, OldData(w, j))
    <3>1. CASE j = k
      BY <3>1, <2>8, <2>6 DEF new
    <3>2. CASE j # k
      <4>1. j \in used..i /\ w.all[j] # w.all[k] /\ w.all[j] \in Blocks
        BY <3>2, <2>1
      <4>2. v.disk.sector[w.all[j]] = u.disk.sector[w.all[j]]
        BY <4>1, <2>8, <2>6
      <4> QED
        BY <4>1, <4>2, <2>3 DEF Put
    <3> QED
      BY <3>1, <3>2
  <2>10. ASSUME NEW b \in Blocks, \A j \in used..k : b # w.all[j]
         PROVE  v.disk.sector[b] = w.disk.sector[b]
    <3>1. b # w.all[k] /\ \A j \in used..i : b # w.all[j]
      <4>1. k \in used..k
        BY <2>1
      <4> QED
        BY <4>1, <2>1, <2>10
    <3>2. v.disk.sector[b] = u.disk.sector[b]
      BY <3>1, <2>8, <2>6
    <3> QED
      BY <3>1, <3>2, <2>3 DEF Put
  <2>11. Put(f, w, n, used, k, v)
    BY <2>9, <2>10 DEF Put
  <2> QED
    BY <2>11, <2>1 DEF k, v
<1>4. \A i \in (used - 1)..last : i \in S
  <2>1. used - 1 \in Int /\ last \in Int
    OBVIOUS
  <2> HIDE DEF S
  <2> QED
    BY <2>1, <1>2, <1>3, Induction
<1>5. last \in (used - 1)..last
  OBVIOUS
<1>6. PutSectors(f, w, n, used, last) = g[last]
  BY <1>1 DEF SectorRounds
<1> QED
  BY <1>4, <1>5, <1>6

\* The block a file ends in is one it can have.
Inside(size) == size \div B < Total

\* The last block a write of n bytes puts data into.
LastBlock(size, n) == IF n = 0 THEN (size \div B) - 1 ELSE (size + n - 1) \div B

LEMMA LastBlockIs ==
  ASSUME NEW size \in Nat, NEW n \in Nat, Fits(size, n), size \div B < Total
  PROVE  /\ size \div B \in 0..(Total - 1)
         /\ LastBlock(size, n) \in ((size \div B) - 1)..(Total - 1)
         /\ LastBlock(size, n) <= (size + n) \div B
         /\ \A k \in size..(size + n - 1) : k \div B \in (size \div B)..LastBlock(size, n)
<1>1. size \div B \in 0..(Total - 1)
  BY BytePlace, Constants
<1>2. CASE n = 0
  <2>1. (size + n) \div B = size \div B
    BY <1>2
  <2>2. \A k : k \notin size..(size + n - 1)
    BY <1>2
  <2>3. LastBlock(size, n) = (size \div B) - 1
    BY <1>2 DEF LastBlock
  <2> DEFINE s == size \div B
  <2> HIDE DEF s
  <2>4. s \in 0..(Total - 1) /\ LastBlock(size, n) = s - 1 /\ (size + n) \div B = s
    BY <1>1, <2>1, <2>3 DEF s
  <2>5. LastBlock(size, n) \in (s - 1)..(Total - 1) /\ LastBlock(size, n) <= s
    BY ONLY <2>4, Constants
  <2> QED
    BY ONLY <1>1, <2>2, <2>4, <2>5 DEF s
<1>3. CASE n # 0
  <2> DEFINE e == size + n - 1
  <2>1. e \in Nat /\ size \in 0..e /\ e \in 0..(size + n) /\ size + n \in Nat /\ e < Total * B
    BY <1>3, Constants DEF Fits
  <2>2. LastBlock(size, n) = e \div B
    BY <1>3 DEF LastBlock
  <2> HIDE DEF e
  <2>3. e \div B \in Nat /\ size \div B <= e \div B /\ e \div B <= (size + n) \div B
    BY <2>1, BytePlace, BlockGrows
  <2>4. e \div B < Total
    BY <2>1, Constants, BytePlace
  <2>5. ASSUME NEW k \in size..e PROVE k \div B \in (size \div B)..(e \div B)
    <3>1. k \in Nat /\ size \in 0..k /\ k \in 0..e
      BY <2>1
    <3>2. size \div B <= k \div B /\ k \div B <= e \div B /\ k \div B \in Nat
      BY <3>1, <2>1, BlockGrows, BytePlace
    <3> QED
      BY <3>2, <1>1, <2>3
  <2> QED
    BY <1>1, <2>2, <2>3, <2>4, <2>5, Constants DEF e
<1> QED
  BY <1>2, <1>3

\* The inode and the sectors that a write of n bytes leaves.
LongerInode(w, n) == [size |-> w.ino.size + n, block |-> w.ino.block]

SectorsPut(f, w, n) == PutSectors(f, w, n, w.ino.size \div B, LastBlock(w.ino.size, n))

LEMMA PutDataFields ==
  ASSUME NEW f \in Files, NEW w \in Works, NEW n \in Nat, w.next = "go",
         Fits(w.ino.size, n), Inside(w.ino.size)
  PROVE  /\ PutData(f, w, n) \in Works
         /\ PutData(f, w, n).ino = LongerInode(w, n) /\ PutData(f, w, n).bits = w.bits
         /\ PutData(f, w, n).next = "go"
         /\ PutData(f, w, n).disk.inode = [w.disk.inode EXCEPT ![f] = LongerInode(w, n)]
         /\ PutData(f, w, n).disk.bits = w.disk.bits
         /\ PutData(f, w, n).disk.sector = SectorsPut(f, w, n).disk.sector
<1> DEFINE ino == LongerInode(w, n)
           v == SectorsPut(f, w, n)
<1>1. w.ino \in Inodes /\ w.ino.size \in 0..(Total * B) /\ Total * B \in Nat
  BY WorkFields, Constants
<1>2. w.ino.size \in Nat
  BY <1>1
<1>3. v \in Works /\ OnlySectors(w, v)
  <2>1. /\ w.ino.size \div B \in 0..(Total - 1)
        /\ LastBlock(w.ino.size, n) \in ((w.ino.size \div B) - 1)..(Total - 1)
    BY <1>2, LastBlockIs DEF Inside
  <2> DEFINE first == w.ino.size \div B
             last == LastBlock(w.ino.size, n)
  <2> HIDE DEF first, last
  <2>2. first \in 0..(Total - 1) /\ last \in (first - 1)..(Total - 1)
    BY <2>1 DEF first, last
  <2>3. PICK g : SectorRounds(g, f, w, n, first, last)
    BY <2>2, PutSectorsRounds
  <2>4. last \in (first - 1)..last
    BY <2>2
  <2> QED
    BY <2>3, <2>4 DEF first, last, SectorRounds, SectorsPut
<1>4. ino = [w.ino EXCEPT !.size = @ + n] /\ ino \in Inodes
  <2>1. w.ino.size + n \in 0..(Total * B)
    BY <1>1 DEF Fits
  <2> QED
    BY <1>1, <2>1 DEF Inodes, LongerInode
<1>5. PutData(f, w, n) = [v EXCEPT !.ino = ino, !.disk.inode[f] = ino]
  BY <1>4 DEF PutData, LastBlock, SectorsPut
<1> HIDE DEF ino, v
<1> DEFINE tab == [v.disk.inode EXCEPT ![f] = ino]
           d == [v.disk EXCEPT !.inode = tab]
<1>6. v.disk \in Disks /\ v.disk.inode \in [Files -> Inodes]
  BY <1>3, WorkFields
<1>7. PutData(f, w, n) = [v EXCEPT !.ino = ino, !.disk = d]
  BY <1>3, <1>5 DEF Works, Disks
<1>8. tab \in [Files -> Inodes]
  BY <1>4, <1>6
<1>9. tab = [w.disk.inode EXCEPT ![f] = ino]
  BY <1>3 DEF OnlySectors
<1> HIDE DEF tab
<1>10. d \in Disks /\ d.inode = tab /\ d.bits = v.disk.bits /\ d.sector = v.disk.sector
  BY <1>6, <1>8 DEF Disks
<1> HIDE DEF d
<1> DEFINE x == [v EXCEPT !.ino = ino, !.disk = d]
<1>11. /\ x \in Works /\ x.disk = d /\ x.ino = ino /\ x.bits = v.bits /\ x.next = v.next
  BY <1>3, <1>4, <1>10 DEF Works
<1> HIDE DEF x
<1> QED
  BY <1>3, <1>7, <1>9, <1>10, <1>11 DEF OnlySectors, x, ino, v

-----------------------------------------------------------------------------
(* A write, from its beginning w                                           *)

WorkOf(f) == [ino |-> inode[f], bits |-> bits, disk |-> disk, next |-> "go",
              all |-> [i \in 0..(Total - 1) |-> None]]

Allowed(w, n) == Check(IF w.ino.block[0] = 0 THEN AddBlock(w, 0) ELSE w,
                       (w.ino.size + n) \div B < Total)

Done(f, w, n) == IF Allowed(w, n).next = "go" THEN PutData(f, Grow(Allowed(w, n), n), n)
                 ELSE Allowed(w, n)

LEMMA AllowedTyped ==
  ASSUME NEW w \in Works, NEW n \in Nat
  PROVE  /\ Allowed(w, n) \in Works
         /\ Allowed(w, n).ino.size = w.ino.size
         /\ Allowed(w, n).next = "go" => (w.ino.size + n) \div B < Total
<1> DEFINE v == IF w.ino.block[0] = 0 THEN AddBlock(w, 0) ELSE w
           cond == (w.ino.size + n) \div B < Total
<1>1. v \in Works /\ v.ino.size = w.ino.size
  <2>1. 0 \in 0..(Total - 1)
    BY Constants
  <2> QED
    BY <2>1, AddBlockFields, AddBlockSize
<1>2. cond \in BOOLEAN
  OBVIOUS
<1>3. Allowed(w, n) = Check(v, cond)
  BY DEF Allowed
<1> HIDE DEF v, cond
<1>4. /\ Check(v, cond) \in Works /\ Check(v, cond).ino = v.ino
      /\ Check(v, cond).next = IF v.next = "go" /\ ~cond THEN "stop" ELSE v.next
  BY <1>1, <1>2, CheckFields
<1>5. Check(v, cond).next = "go" => cond
  BY <1>4
<1> QED
  BY <1>1, <1>3, <1>4, <1>5 DEF cond

\* A file keeps its size while it grows.
LEMMA AddBlocksTyped ==
  ASSUME NEW w \in Works, NEW used \in 0..(Total - 1), NEW will \in used..(Total - 1)
  PROVE  AddBlocks(w, used, will) \in Works /\ AddBlocks(w, used, will).ino.size = w.ino.size
<1>1. PICK f : /\ f[used] = w
               /\ \A i \in (used + 1)..will : f[i] = AddBlock(f[i - 1], i)
               /\ AddBlocks(w, used, will) = f[will]
  BY AddBlocksRounds
<1> DEFINE S == {i \in used..will : f[i] \in Works /\ f[i].ino.size = w.ino.size}
<1>2. used \in S
  BY <1>1
<1>3. ASSUME NEW i \in used..(will - 1), i \in S PROVE i + 1 \in S
  <2>1. i + 1 \in (used + 1)..will /\ (i + 1) - 1 = i /\ i + 1 \in 0..(Total - 1)
        /\ i + 1 \in used..will
    BY Constants
  <2>2. f[i + 1] = AddBlock(f[i], i + 1)
    BY <2>1, <1>1
  <2>3. f[i] \in Works /\ f[i].ino.size = w.ino.size
    BY <1>3
  <2>4. AddBlock(f[i], i + 1) \in Works /\ AddBlock(f[i], i + 1).ino.size = w.ino.size
    BY <2>1, <2>3, AddBlockFields, AddBlockSize
  <2> QED
    BY <2>1, <2>2, <2>4
<1>4. \A i \in used..will : i \in S
  <2>1. used \in Int /\ will \in Int
    OBVIOUS
  <2> HIDE DEF S
  <2> QED
    BY <2>1, <1>2, <1>3, Induction
<1>5. will \in used..will
  OBVIOUS
<1> QED
  BY <1>1, <1>4, <1>5

\* used and will of a write.
LEMMA UsedWill ==
  ASSUME NEW w \in Works, NEW n \in Nat, (w.ino.size + n) \div B < Total
  PROVE  /\ w.ino.size \in Nat
         /\ w.ino.size \div B \in 0..(Total - 1)
         /\ (w.ino.size + n) \div B \in (w.ino.size \div B)..(Total - 1)
         /\ w.ino.size \div B <= (w.ino.size + n) \div B
<1>1. w.ino.size \in Nat
  BY WorkFields, Constants
<1>2. w.ino.size + n \in Nat /\ w.ino.size \in 0..(w.ino.size + n)
  BY <1>1
<1>3. w.ino.size \div B \in Nat /\ (w.ino.size + n) \div B \in Nat
      /\ w.ino.size \div B <= (w.ino.size + n) \div B
  BY <1>1, <1>2, BytePlace, BlockGrows
<1> QED
  BY <1>1, <1>3, Constants

LEMMA FirstTyped ==
  ASSUME NEW w \in Works, NEW used \in 0..(Total - 1), used < Direct,
         NEW cond \in BOOLEAN
  PROVE  /\ Check([w EXCEPT !.all[used] = w.ino.block[used]], cond) \in Works
         /\ Check([w EXCEPT !.all[used] = w.ino.block[used]], cond).ino = w.ino
<1> DEFINE al == [w.all EXCEPT ![used] = w.ino.block[used]]
           u == [w EXCEPT !.all = al]
<1>1. w.all \in [0..(Total - 1) -> Numbers] /\ w.ino.block \in [0..Direct -> Blocks]
  BY WorkFields
<1>2. al \in [0..(Total - 1) -> Numbers]
  BY <1>1, Constants DEF Numbers
<1>3. u = [w EXCEPT !.all[used] = w.ino.block[used]]
  BY DEF Works
<1> HIDE DEF al
<1>4. u \in Works /\ u.ino = w.ino
  BY <1>2 DEF Works
<1> HIDE DEF u
<1> QED
  BY <1>3, <1>4, CheckFields

LEMMA GrowTyped ==
  ASSUME NEW w \in Works, NEW n \in Nat, (w.ino.size + n) \div B < Total
  PROVE  Grow(w, n) \in Works /\ Grow(w, n).ino.size = w.ino.size
<1> DEFINE used == w.ino.size \div B
           will == (w.ino.size + n) \div B
           first == IF used < Direct
                    THEN Check([w EXCEPT !.all[used] = w.ino.block[used]], w.ino.block[used] # 0)
                    ELSE LoadTable(w)
           table == IF used < Direct /\ will >= Direct THEN AddTable(first) ELSE first
           all == AddBlocks(table, used, will)
<1>1. Grow(w, n) = IF used < will /\ will >= Direct THEN StoreTable(all) ELSE all
  BY DEF Grow
<1>2. used \in 0..(Total - 1) /\ will \in used..(Total - 1)
  BY UsedWill
<1> HIDE DEF used, will
<1>3. first \in Works /\ first.ino = w.ino
  <2>1. CASE used < Direct
    <3>1. (w.ino.block[used] # 0) \in BOOLEAN
      OBVIOUS
    <3> QED
      BY <2>1, <3>1, <1>2, FirstTyped
  <2>2. CASE ~(used < Direct)
    BY <2>2, LoadTableFields
  <2> QED
    BY <2>1, <2>2
<1> HIDE DEF first
<1>4. table \in Works /\ table.ino.size = w.ino.size
  BY <1>3, AddTableFields, AddTableSize
<1> HIDE DEF table
<1>5. all \in Works /\ all.ino.size = w.ino.size
  BY <1>2, <1>4, AddBlocksTyped
<1> HIDE DEF all
<1> QED
  BY <1>1, <1>5, StoreTableFields


LEMMA DoneTyped ==
  ASSUME NEW f \in Files, NEW w \in Works, NEW n \in Nat, Fits(w.ino.size, n)
  PROVE  Done(f, w, n) \in Works
<1> DEFINE v == Allowed(w, n)
           g == Grow(v, n)
<1>1. v \in Works /\ v.ino.size = w.ino.size /\ (v.next = "go" => (w.ino.size + n) \div B < Total)
  BY AllowedTyped
<1>2. Done(f, w, n) = IF v.next = "go" THEN PutData(f, g, n) ELSE v
  BY DEF Done
<1> HIDE DEF v
<1>3. CASE v.next = "go"
  <2>1. g \in Works /\ g.ino.size = w.ino.size
    BY <1>1, <1>3, GrowTyped
  <2> HIDE DEF g
  <2>2. CASE g.next = "go"
    <3>1. Inside(g.ino.size)
      <4>1. g.ino.size \div B \in 0..(Total - 1)
        BY <1>1, <1>3, <2>1, UsedWill
      <4> QED
        BY <4>1, Constants DEF Inside
    <3>2. PutData(f, g, n) \in Works
      BY <2>1, <2>2, <3>1, PutDataFields
    <3> QED
      BY <1>2, <1>3, <3>2
  <2>3. CASE g.next # "go"
    <3>1. PutData(f, g, n) = g
      BY <2>3 DEF PutData
    <3> QED
      BY <1>2, <1>3, <2>1, <3>1
  <2> QED
    BY <2>2, <2>3
<1>4. CASE v.next # "go"
  BY <1>1, <1>2, <1>4
<1> QED
  BY <1>3, <1>4

\* A write that ended early: nothing is written, and the blocks it took count
\* as the file's own.
Ended(w, v, used, others) ==
  /\ Unwritten(w, v)
  /\ Keeps(w, v, used)
  /\ v.next = "fail" => Apart(v.ino.block, TableOf(w), used, v.bits, others)
  /\ OneSector /\ w.disk.bits = w.bits =>
       /\ w.bits \subseteq v.disk.bits
       /\ v.next = "fail" /\ v.ino.block[Direct] = w.ino.block[Direct] => v.disk.bits = v.bits

LEMMA AllowedIs ==
  ASSUME NEW w \in Works, NEW n \in Nat, NEW used \in Nat, NEW others, used = w.ino.size \div B,
         0 \in w.bits, others \subseteq w.bits, w.next = "go",
         Apart(w.ino.block, TableOf(w), used, w.bits, others)
  PROVE  /\ Started(w, Allowed(w, n), used, others)
         /\ Ended(w, Allowed(w, n), used, others)
<1> DEFINE v == IF w.ino.block[0] = 0 THEN AddBlock(w, 0) ELSE w
           cond == (w.ino.size + n) \div B < Total
<1>1. Started(w, v, used, others)
  BY StartsBlock
<1>2. Allowed(w, n) = Check(v, cond) /\ cond \in BOOLEAN
  BY DEF Allowed
<1> HIDE DEF v, cond
<1>3. v \in Works
  BY <1>1 DEF Started, Unwritten
<1> DEFINE x == Check(v, cond)
<1>4. x \in Works /\ x.ino = v.ino /\ x.bits = v.bits /\ x.disk = v.disk
  BY <1>2, <1>3, CheckFields
<1> HIDE DEF x
<1>5. Started(w, x, used, others)
  BY <1>1, <1>4 DEF Started, Unwritten
<1>6. Ended(w, x, used, others)
  BY <1>5 DEF Started, Ended, Keeps, Unwritten
<1> QED
  BY <1>2, <1>5, <1>6 DEF x

LEMMA GrowsEnded ==
  ASSUME NEW w \in Works, NEW v \in Works, NEW used \in Nat, NEW will, NEW others,
         NEW table, w.next = "go", Grows(w, v, used, will, table, others), v.next # "go"
  PROVE  Ended(w, v, used, others)
<1>1. ASSUME v.next = "fail" PROVE Apart(v.ino.block, TableOf(w), used, v.bits, others)
  <2>1. Apart(v.ino.block, v.all, used, v.bits, others)
    BY <1>1 DEF Grows
  <2>2. \A i \in Indirect : i <= used => TableOf(w)[i] = v.all[i]
    BY DEF Grows
  <2> QED
    BY <2>1, <2>2, ApartSame
<1>2. Unwritten(w, v) /\ Keeps(w, v, used) /\ Saved(w, v, used, will, table)
  BY DEF Grows
<1>3. OneSector /\ w.disk.bits = w.bits =>
       /\ w.bits \subseteq v.disk.bits
       /\ v.next = "fail" /\ v.ino.block[Direct] = w.ino.block[Direct] => v.disk.bits = v.bits
  BY <1>2 DEF Saved
<1> QED
  BY <1>1, <1>2, <1>3 DEF Ended

-----------------------------------------------------------------------------
(* The places of a file and what is in its blocks                          *)

NumberIn(sec, ino, k) ==
  IF k <= Direct THEN ino.block[k] ELSE sec[ino.block[Direct]].table[k - 1]

\* The place of block i of the data: the table is between.
PlaceOf(i) == IF i < Direct THEN i ELSE i + 1

\* A file has all the blocks its size needs, and the one it goes on in.
Complete(ino) ==
  /\ Inside(ino.size)
  /\ ino.size > 0 => \A i \in 0..(ino.size \div B) : PlaceOf(i) \in Places(ino)

\* Each byte of the file is where it is read from.
Contents(f, ino, sec) ==
  \A k \in 0..(ino.size - 1) :
    sec[NumberIn(sec, ino, PlaceOf(k \div B))].data[k % B] = <<f, k>>

LEMMA InodeFields ==
  ASSUME NEW ino \in Inodes
  PROVE  /\ ino.size \in 0..(Total * B) /\ ino.size \in Nat
         /\ ino.block \in [0..Direct -> Blocks]
         /\ ino.size \div B \in Nat
<1>1. ino.size \in 0..(Total * B) /\ ino.block \in [0..Direct -> Blocks] /\ Total * B \in Nat
  BY Constants DEF Inodes
<1>2. ino.size \in Nat
  BY <1>1
<1> QED
  BY <1>1, <1>2, BytePlace

LEMMA PlaceDirect ==
  ASSUME NEW ino, NEW k \in 0..Direct
  PROVE  k \in Places(ino) <=> ino.block[k] # 0
BY Constants DEF Places, Indirect

LEMMA PlaceIndirect ==
  ASSUME NEW ino, NEW k \in Int, k > Direct
  PROVE  k \in Places(ino) <=> /\ ino.block[Direct] # 0 /\ k - 1 \in Indirect
                               /\ k - 1 <= ino.size \div B
<1>1. ~(k \in 0..Direct)
  BY Constants
<1>2. ASSUME k \in Places(ino)
      PROVE  ino.block[Direct] # 0 /\ k - 1 \in Indirect /\ k - 1 <= ino.size \div B
  <2>1. PICK i \in {j \in Indirect : ino.block[Direct] # 0 /\ j <= ino.size \div B} : k = i + 1
    BY <1>1, <1>2 DEF Places
  <2>2. i \in Int /\ k - 1 = i
    BY <2>1, Constants DEF Indirect
  <2> QED
    BY <2>1, <2>2
<1>3. ASSUME ino.block[Direct] # 0, k - 1 \in Indirect, k - 1 <= ino.size \div B
      PROVE  k \in Places(ino)
  <2>1. k = (k - 1) + 1
    OBVIOUS
  <2>2. k - 1 \in {j \in Indirect : ino.block[Direct] # 0 /\ j <= ino.size \div B}
    BY <1>3
  <2> HIDE <1>3
  <2> QED
    BY <2>1, <2>2 DEF Places
<1> QED
  BY <1>2, <1>3

LEMMA PlacesRange ==
  ASSUME NEW ino, NEW k \in Places(ino)
  PROVE  k \in 0..Total
BY Constants DEF Places, Indirect

\* The places of a complete file are those that are taken.
LEMMA PlacesTaken ==
  ASSUME NEW ino \in Inodes, Complete(ino)
  PROVE  /\ Places(ino) = Taken(ino.block, ino.size \div B)
         /\ ino.size \div B >= Direct => ino.block[Direct] # 0
<1> DEFINE top == ino.size \div B
<1>1. ino.block \in [0..Direct -> Blocks] /\ top \in Nat /\ ino.size \in Nat
  BY InodeFields
<1>2. ASSUME top >= Direct PROVE ino.block[Direct] # 0
  <2>1. ino.size > 0
    <3>1. ino.size = 0 => top = 0
      BY Constants
    <3> QED
      BY <3>1, <1>1, <1>2, Constants
  <2>2. Direct \in 0..top /\ PlaceOf(Direct) = Direct + 1
    BY <1>1, <1>2, Constants DEF PlaceOf
  <2>3. Direct + 1 \in Places(ino)
    BY <2>1, <2>2 DEF Complete
  <2>4. Direct + 1 \in Int /\ Direct + 1 > Direct
    BY Constants
  <2> QED
    BY <2>3, <2>4, PlaceIndirect
<1> HIDE DEF top
<1>3. ASSUME NEW k \in 0..Total PROVE k \in Places(ino) <=> k \in Taken(ino.block, top)
  <2>1. CASE k <= Direct
    BY <2>1, Constants, PlaceDirect DEF Taken
  <2>2. CASE ~(k <= Direct)
    <3>1. k \in Int /\ k > Direct /\ k \in (Direct + 1)..Total /\ k - 1 \in Indirect /\ k - 1 >= Direct
      BY <2>2, Constants DEF Indirect
    <3>2. k \in Places(ino) <=> ino.block[Direct] # 0 /\ k - 1 <= top
      BY <3>1, PlaceIndirect DEF top
    <3>3. k \in Taken(ino.block, top) <=> k - 1 <= top
      BY <3>1, <2>2, Constants DEF Taken
    <3>4. k - 1 <= top => top >= Direct
      BY <3>1, <1>1, Constants
    <3> QED
      BY <3>2, <3>3, <3>4, <1>2
  <2> QED
    BY <2>1, <2>2
<1>4. \A k \in Taken(ino.block, top) : k \in 0..Total
  BY TakenPlaces
<1>5. Places(ino) = Taken(ino.block, top)
  BY <1>3, <1>4, PlacesRange
<1> QED
  BY <1>2, <1>5 DEF top

LEMMA PlaceOfIs ==
  ASSUME NEW i \in 0..(Total - 1)
  PROVE  /\ PlaceOf(i) \in 0..Total /\ PlaceOf(i) # Direct
         /\ i < Direct => PlaceOf(i) = i /\ PlaceOf(i) <= Direct
         /\ ~(i < Direct) => /\ PlaceOf(i) > Direct /\ PlaceOf(i) - 1 = i /\ i \in Indirect
                             /\ ~(PlaceOf(i) <= Direct) /\ PlaceOf(i) \in (Direct + 1)..Total
         /\ \A j \in 0..(Total - 1) : PlaceOf(i) = PlaceOf(j) => i = j
BY Constants DEF PlaceOf, Indirect

-----------------------------------------------------------------------------
(* A write that has all its blocks, and one that is done                   *)

\* All blocks are there: g, from w.
Ready(w, g, used, will, others) ==
  /\ g \in Works /\ g.next = "go" /\ g.ino.size = w.ino.size
  /\ g.disk.inode = w.disk.inode /\ w.bits \subseteq g.bits
  /\ Apart(g.ino.block, g.all, will, g.bits, others)
  /\ Linked(g, used, will)
  /\ w.ino.size > 0 =>
       \A i \in 0..used : /\ Nr(g.ino.block, g.all, PlaceOf(i)) =
                               NumberIn(w.disk.sector, w.ino, PlaceOf(i))
                          /\ PlaceOf(i) \in Taken(g.ino.block, will)
  /\ will >= Direct => /\ g.ino.block[Direct] # 0
                       /\ \A i \in Indirect : i <= will => TableOf(g)[i] = g.all[i]
  /\ \A b \in Blocks : will < Direct \/ b # g.ino.block[Direct]
                       => g.disk.sector[b] = w.disk.sector[b]
  /\ OneSector /\ w.disk.bits = w.bits => g.disk.bits = g.bits

LEMMA ReadyIs ==
  ASSUME NEW w \in Works, NEW v \in Works, NEW others,
         NEW used \in Nat, NEW will \in 0..(Total - 1),
         used = w.ino.size \div B, used <= will, Complete(w.ino),
         Grows(w, v, used, will, used < Direct /\ will >= Direct, others), v.next = "go",
         NEW g, g = IF used < will /\ will >= Direct THEN StoreTable(v) ELSE v
  PROVE  Ready(w, g, used, will, others)
<1>0. /\ w.ino \in Inodes /\ v.ino.block \in [0..Direct -> Blocks]
      /\ v.disk.sector \in [Blocks -> Sectors] /\ v.all \in [0..(Total - 1) -> Numbers]
      /\ Direct \in 0..Direct
  BY WorkFields, Constants
<1>1. /\ v.disk.inode = w.disk.inode /\ v.disk.sector = w.disk.sector
      /\ v.ino.size = w.ino.size /\ w.bits \subseteq v.bits
  BY DEF Grows, Unwritten
<1>2. \A k \in 0..Direct : w.ino.block[k] # 0 => v.ino.block[k] = w.ino.block[k]
  BY DEF Grows, Keeps
<1>3. /\ \A i \in Indirect : i <= used => v.all[i] = TableOf(w)[i]
      /\ Apart(v.ino.block, v.all, will, v.bits, others)
      /\ Linked(v, used, will)
  BY DEF Grows
<1>4. will >= Direct => v.ino.block[Direct] # 0
  <2>1. used < Direct \/ used >= Direct
    BY Constants
  <2> QED
    BY <2>1 DEF Grows
<1>5. /\ Places(w.ino) = Taken(w.ino.block, used)
      /\ used >= Direct => w.ino.block[Direct] # 0
  BY <1>0, PlacesTaken
<1>6. \A i \in 0..used : i \in 0..(Total - 1)
  BY Constants
<1>7. ASSUME w.ino.size > 0, NEW i \in 0..used
      PROVE  /\ Nr(v.ino.block, v.all, PlaceOf(i)) = NumberIn(w.disk.sector, w.ino, PlaceOf(i))
             /\ PlaceOf(i) \in Taken(v.ino.block, will)
  <2>1. PlaceOf(i) \in Taken(w.ino.block, used)
    BY <1>7, <1>5 DEF Complete
  <2>2. i \in 0..(Total - 1)
    BY <1>6
  <2>3. CASE i < Direct
    <3>1. PlaceOf(i) = i /\ i <= Direct /\ i \in 0..Direct
      BY <2>2, <2>3, PlaceOfIs, Constants
    <3>2. w.ino.block[i] # 0
      BY <2>1, <3>1, Constants DEF Taken
    <3>3. v.ino.block[i] = w.ino.block[i]
      BY <3>1, <3>2, <1>2
    <3> QED
      BY <3>1, <3>2, <3>3 DEF Nr, NumberIn, Taken
  <2>4. CASE ~(i < Direct)
    <3>1. PlaceOf(i) - 1 = i /\ i \in Indirect /\ ~(PlaceOf(i) <= Direct)
          /\ PlaceOf(i) \in (Direct + 1)..Total
      BY <2>2, <2>4, PlaceOfIs
    <3>2. Nr(v.ino.block, v.all, PlaceOf(i)) = TableOf(w)[i]
      BY <3>1, <1>3 DEF Nr
    <3>3. NumberIn(w.disk.sector, w.ino, PlaceOf(i)) = TableOf(w)[i]
      BY <3>1 DEF NumberIn, TableOf
    <3>4. PlaceOf(i) - 1 <= will
      BY <3>1, <2>2, Constants
    <3> QED
      BY <3>1, <3>2, <3>3, <3>4 DEF Taken
  <2> QED
    BY <2>3, <2>4
<1>8. OneSector /\ w.disk.bits = w.bits => v.disk.bits = v.bits
  <2>1. will > used \/ ~(used < Direct /\ will >= Direct)
    BY Constants
  <2> QED
    BY <2>1 DEF Grows, Saved
<1>9. CASE used < will /\ will >= Direct
  <2>1. /\ g \in Works /\ g.ino = v.ino /\ g.bits = v.bits /\ g.all = v.all /\ g.next = "go"
        /\ g.disk.inode = v.disk.inode /\ g.disk.bits = v.disk.bits
        /\ g.disk.sector = [v.disk.sector EXCEPT ![v.ino.block[Direct]] =
             [data |-> NoData, table |-> [i \in Indirect |-> v.all[i]]]]
    BY <1>9, StoreTableFields
  <2>2. v.ino.block[Direct] \in Blocks
    BY <1>0
  <2>3. TableOf(g) = [i \in Indirect |-> v.all[i]]
    <3>1. g.disk.sector[g.ino.block[Direct]] =
            [data |-> NoData, table |-> [i \in Indirect |-> v.all[i]]]
      BY <2>1, <2>2, <1>0
    <3> QED
      BY <3>1 DEF TableOf
  <2>4. \A i \in Indirect : TableOf(g)[i] = g.all[i]
    BY <2>3, <2>1
  <2>5. ASSUME NEW b \in Blocks, b # g.ino.block[Direct]
        PROVE  g.disk.sector[b] = w.disk.sector[b]
    BY <2>5, <2>1, <1>0, <1>1
  <2>6. ~(will < Direct)
    BY <1>9, Constants
  <2>7. Linked(g, used, will)
    BY <2>1, <1>3 DEF Linked
  <2> QED
    BY <2>1, <2>4, <2>5, <2>6, <2>7, <1>1, <1>3, <1>4, <1>7, <1>8 DEF Ready
<1>10. CASE ~(used < will /\ will >= Direct)
  <2>1. g = v
    BY <1>10
  <2>2. ASSUME will >= Direct, NEW i \in Indirect, i <= will
        PROVE  TableOf(v)[i] = v.all[i]
    <3>1. used = will /\ used >= Direct /\ i <= used
      BY <1>10, <2>2, Constants
    <3>2. v.ino.block[Direct] = w.ino.block[Direct]
      BY <3>1, <1>0, <1>2, <1>5
    <3>3. TableOf(v) = TableOf(w)
      BY <3>2, <1>1 DEF TableOf
    <3> QED
      BY <3>1, <3>3, <1>3
  <2> QED
    BY <2>1, <2>2, <1>1, <1>3, <1>4, <1>7, <1>8 DEF Ready
<1> QED
  BY <1>9, <1>10

\* A write of n bytes to f is done: x, from w.
Finished(f, w, x, n, others) ==
  /\ x \in Works
  /\ x.ino.size = w.ino.size + n
  /\ x.disk.inode = [w.disk.inode EXCEPT ![f] = x.ino]
  /\ w.bits \subseteq x.bits
  /\ Complete(x.ino)
  /\ Apart(x.ino.block, TableOf(x), x.ino.size \div B, x.bits, others)
  /\ \A b \in Blocks : b \in others => x.disk.sector[b] = w.disk.sector[b]
  /\ Contents(f, x.ino, x.disk.sector)
  /\ OneSector /\ w.disk.bits = w.bits => x.disk.bits = x.bits

LEMMA FinishedIs ==
  ASSUME NEW f \in Files, NEW w \in Works, NEW g, NEW n \in Nat, NEW others,
         NEW used \in 0..(Total - 1), NEW will \in used..(Total - 1),
         used = w.ino.size \div B, will = (w.ino.size + n) \div B,
         Fits(w.ino.size, n), Complete(w.ino), Contents(f, w.ino, w.disk.sector),
         Ready(w, g, used, will, others)
  PROVE  Finished(f, w, PutData(f, g, n), n, others)
<1> DEFINE size == w.ino.size
           last == LastBlock(size, n)
           blk == g.ino.block
           v == SectorsPut(f, g, n)
           x == PutData(f, g, n)
<1>0. /\ g \in Works /\ g.next = "go" /\ g.ino.size = size
      /\ g.disk.inode = w.disk.inode /\ w.bits \subseteq g.bits
      /\ Apart(blk, g.all, will, g.bits, others)
      /\ Linked(g, used, will)
  BY DEF Ready
<1>1. /\ size \in Nat /\ used \in Nat /\ will \in Nat /\ used <= will /\ will \in 0..(Total - 1)
      /\ last \in (used - 1)..(Total - 1) /\ last <= will /\ last \in Int
      /\ \A k \in size..(size + n - 1) : k \div B \in used..last
  <2>1. size \in Nat
    BY InodeFields, WorkFields
  <2>2. size \div B < Total
    BY Constants
  <2>3. /\ last \in ((size \div B) - 1)..(Total - 1)
        /\ last <= (size + n) \div B
        /\ \A k \in size..(size + n - 1) : k \div B \in (size \div B)..last
    BY <2>1, <2>2, LastBlockIs
  <2> HIDE DEF last, size
  <2>4. used = size \div B /\ will = (size + n) \div B
    BY DEF size
  <2>5. /\ last \in (used - 1)..(Total - 1) /\ last <= will
        /\ \A k \in size..(size + n - 1) : k \div B \in used..last
    BY ONLY <2>3, <2>4
  <2>6. used \in 0..(Total - 1) /\ will \in used..(Total - 1)
    OBVIOUS
  <2> QED
    BY ONLY <2>1, <2>5, <2>6, Constants
<1>2. /\ blk \in [0..Direct -> Blocks] /\ g.disk.sector \in [Blocks -> Sectors]
      /\ g.bits \subseteq Blocks /\ g.all \in [0..(Total - 1) -> Numbers]
      /\ g.ino \in Inodes /\ w.ino \in Inodes /\ Direct \in 0..Direct
      /\ w.disk.inode \in [Files -> Inodes]
  BY <1>0, WorkFields, Constants
<1>3. /\ x \in Works /\ x.ino = LongerInode(g, n) /\ x.bits = g.bits
      /\ x.disk.inode = [g.disk.inode EXCEPT ![f] = LongerInode(g, n)]
      /\ x.disk.bits = g.disk.bits
      /\ x.disk.sector = v.disk.sector
  <2>1. Inside(g.ino.size) /\ Fits(g.ino.size, n)
    BY <1>0 DEF Complete
  <2> QED
    BY <1>0, <2>1, PutDataFields
<1>4. x.ino.size = size + n /\ x.ino.block = blk
  BY <1>0, <1>3 DEF LongerInode
<1>5. v = PutSectors(f, g, n, used, last)
  BY <1>0 DEF SectorsPut
<1> HIDE DEF size, last, blk, v, x
<1>6. ASSUME NEW i \in used..will
      PROVE  g.all[i] = Nr(blk, g.all, PlaceOf(i)) /\ PlaceOf(i) \in Taken(blk, will)
  <2>0. i \in 0..(Total - 1) /\ i <= will
    BY <1>1, Constants
  <2>1. CASE i < Direct
    <3>1. PlaceOf(i) = i /\ i <= Direct /\ i \in 0..Direct
      BY <2>0, <2>1, PlaceOfIs, Constants
    <3>2. blk[i] # 0 /\ g.all[i] = blk[i]
      BY <1>0, <2>1 DEF Linked, blk
    <3> QED
      BY <3>1, <3>2 DEF Nr, Taken
  <2>2. CASE ~(i < Direct)
    <3>1. PlaceOf(i) - 1 = i /\ i \in Indirect /\ ~(PlaceOf(i) <= Direct)
          /\ PlaceOf(i) \in (Direct + 1)..Total
      BY <2>0, <2>2, PlaceOfIs
    <3> QED
      BY <3>1, <2>0 DEF Nr, Taken
  <2> QED
    BY <2>1, <2>2
<1>7. ASSUME NEW i \in used..last PROVE i \in used..will /\ i \in 0..(Total - 1) /\ g.all[i] \in Blocks
  <2>1. i \in used..will /\ i \in 0..(Total - 1)
    BY <1>1, Constants
  <2>2. g.all[i] \in g.bits
    BY <2>1, <1>6, <1>0 DEF Apart
  <2> QED
    BY <2>1, <2>2, <1>2
<1>8. ASSUME NEW i \in used..last, NEW k \in Taken(blk, will), Nr(blk, g.all, k) = g.all[i]
      PROVE  k = PlaceOf(i)
  <2>1. i \in used..will
    BY <1>7
  <2> QED
    BY <2>1, <1>6, <1>8, <1>0 DEF Apart
<1>9. \A i, j \in used..last : g.all[i] = g.all[j] => i = j
  <2>1. ASSUME NEW i \in used..last, NEW j \in used..last, g.all[i] = g.all[j] PROVE i = j
    <3>1. i \in used..will /\ j \in used..will /\ i \in 0..(Total - 1) /\ j \in 0..(Total - 1)
      BY <1>7
    <3>2. PlaceOf(j) \in Taken(blk, will) /\ Nr(blk, g.all, PlaceOf(j)) = g.all[i]
      BY <3>1, <1>6, <2>1
    <3>3. PlaceOf(j) = PlaceOf(i)
      BY <3>2, <1>8
    <3> QED
      BY <3>1, <3>3, PlaceOfIs
  <2> QED
    BY <2>1
<1>10. Put(f, g, n, used, last, v)
  <2>1. /\ f \in Files /\ g \in Works /\ n \in Nat /\ used \in 0..(Total - 1)
        /\ last \in (used - 1)..(Total - 1) /\ Fits(g.ino.size, n)
        /\ \A i \in used..last : g.all[i] \in Blocks
    BY <1>0, <1>1, <1>7 DEF size
  <2>2. used = g.ino.size \div B
    BY <1>0 DEF size
  <2> QED
    BY <1>5, <1>9, <2>1, <2>2, PutSectorsIs
<1>11. ASSUME NEW b \in Blocks, \A i \in used..last : b # g.all[i],
              will < Direct \/ b # blk[Direct]
       PROVE  x.disk.sector[b] = w.disk.sector[b]
  <2>1. x.disk.sector[b] = g.disk.sector[b]
    BY <1>3, <1>10, <1>11 DEF Put
  <2>2. g.disk.sector[b] = w.disk.sector[b]
    BY <1>11 DEF Ready, blk
  <2> QED
    BY <2>1, <2>2
\* the table is none of the blocks with data
<1>12. ASSUME will >= Direct, NEW k \in Taken(blk, will), k # Direct
       PROVE  Nr(blk, g.all, k) # blk[Direct]
  <2>1. Direct \in Taken(blk, will) /\ Nr(blk, g.all, Direct) = blk[Direct]
    BY <1>12, <1>2 DEF Ready, Taken, Nr, blk
  <2> QED
    BY <2>1, <1>12, <1>0 DEF Apart
<1>13. ASSUME will >= Direct, NEW i \in Indirect, i <= will
       PROVE  TableOf(x)[i] = g.all[i]
  <2>1. TableOf(g)[i] = g.all[i]
    BY <1>13 DEF Ready
  <2>2. \A j \in used..last : blk[Direct] # g.all[j]
    <3>1. ASSUME NEW j \in used..last PROVE blk[Direct] # g.all[j]
      <4>1. PlaceOf(j) \in Taken(blk, will) /\ PlaceOf(j) # Direct
            /\ Nr(blk, g.all, PlaceOf(j)) = g.all[j]
        BY <1>6, <1>7, PlaceOfIs
      <4> QED
        BY <4>1, <1>12, <1>13
    <3> QED
      BY <3>1
  <2>3. v.disk.sector[blk[Direct]] = g.disk.sector[blk[Direct]]
    BY <2>2, <1>2, <1>10 DEF Put
  <2> QED
    BY <2>1, <2>3, <1>3, <1>4 DEF TableOf, blk
<1>14. x.ino.size \div B = will
  BY <1>4 DEF size
<1>15. Apart(x.ino.block, TableOf(x), x.ino.size \div B, x.bits, others)
  <2>1. ASSUME NEW i \in Indirect, i <= will PROVE i <= will /\ TableOf(x)[i] = g.all[i]
    <3>1. will >= Direct
      BY <2>1, <1>1, Constants DEF Indirect
    <3> QED
      BY <3>1, <2>1, <1>13
  <2>2. Apart(blk, TableOf(x), will, g.bits, others)
    BY <2>1, <1>0, <1>1, ApartSame
  <2> QED
    BY <2>2, <1>3, <1>4, <1>14
<1>16. ASSUME NEW b \in Blocks, b \in others PROVE x.disk.sector[b] = w.disk.sector[b]
  <2>1. ASSUME NEW k \in Taken(blk, will) PROVE Nr(blk, g.all, k) # b
    BY <1>0, <1>16 DEF Apart
  <2>2. \A i \in used..last : b # g.all[i]
    BY <2>1, <1>6, <1>7
  <2>3. will < Direct \/ b # blk[Direct]
    <3>1. ASSUME ~(will < Direct) PROVE Direct \in Taken(blk, will) /\ Nr(blk, g.all, Direct) = blk[Direct]
      <4>1. will >= Direct
        BY <3>1, <1>1, Constants
      <4> QED
        BY <4>1, <1>2 DEF Ready, Taken, Nr, blk
    <3> QED
      BY <3>1, <2>1
  <2> QED
    BY <2>2, <2>3, <1>11
<1>17. Complete(x.ino)
  <2>1. Inside(x.ino.size)
    BY <1>14, <1>1, Constants DEF Inside
  <2>2. x.ino \in Inodes
    BY <1>3, WorkFields
  <2>3. ASSUME NEW i \in 0..will PROVE PlaceOf(i) \in Places(x.ino)
    <3>0. i \in 0..(Total - 1) /\ i <= will
      BY <1>1, Constants
    <3>1. CASE i < Direct
      <4>1. PlaceOf(i) = i /\ i \in 0..Direct
        BY <3>0, <3>1, PlaceOfIs, Constants
      <4>2. blk[i] # 0
        <5>1. CASE i \in used..will
          BY <5>1, <3>1, <1>0 DEF Linked, blk
        <5>2. CASE i \notin used..will
          <6>1. i \in 0..used /\ used > 0
            BY <5>2, <3>0, <1>1
          <6>2. size > 0
            <7>1. size = 0 => size \div B = 0
              BY Constants
            <7> QED
              BY <6>1, <7>1, <1>1 DEF size
          <6>3. PlaceOf(i) \in Taken(blk, will)
            BY <6>1, <6>2 DEF Ready, size, blk
          <6> QED
            BY <6>3, <4>1, Constants DEF Taken
        <5> QED
          BY <5>1, <5>2
      <4> QED
        BY <4>1, <4>2, <1>4, PlaceDirect
    <3>2. CASE ~(i < Direct)
      <4>1. PlaceOf(i) - 1 = i /\ i \in Indirect /\ PlaceOf(i) > Direct /\ PlaceOf(i) \in Int
        BY <3>0, <3>2, PlaceOfIs
      <4>2. will >= Direct
        BY <3>0, <3>2, <1>1, Constants
      <4>3. x.ino.block[Direct] # 0
        BY <4>2, <1>4 DEF Ready, blk
      <4> QED
        BY <4>1, <4>3, <3>0, <1>14, PlaceIndirect
    <3> QED
      BY <3>1, <3>2
  <2> QED
    BY <2>1, <2>3, <1>14 DEF Complete
<1>18. ASSUME NEW i \in 0..will
       PROVE  NumberIn(x.disk.sector, x.ino, PlaceOf(i)) = Nr(blk, g.all, PlaceOf(i))
  <2>0. i \in 0..(Total - 1) /\ i <= will
    BY <1>1, Constants
  <2>1. CASE i < Direct
    <3>1. PlaceOf(i) <= Direct
      BY <2>0, <2>1, PlaceOfIs
    <3> QED
      BY <3>1, <1>4 DEF NumberIn, Nr
  <2>2. CASE ~(i < Direct)
    <3>1. PlaceOf(i) - 1 = i /\ i \in Indirect /\ ~(PlaceOf(i) <= Direct)
      BY <2>0, <2>2, PlaceOfIs
    <3>2. will >= Direct
      BY <2>0, <2>2, <1>1, Constants
    <3>3. TableOf(x)[i] = g.all[i]
      BY <3>1, <3>2, <2>0, <1>13
    <3> QED
      BY <3>1, <3>3 DEF NumberIn, Nr, TableOf
  <2> QED
    BY <2>1, <2>2
<1>19. ASSUME NEW k \in 0..(size + n - 1)
       PROVE  x.disk.sector[NumberIn(x.disk.sector, x.ino, PlaceOf(k \div B))].data[k % B] = <<f, k>>
  <2> DEFINE i == k \div B
             o == k % B
             num == NumberIn(x.disk.sector, x.ino, PlaceOf(i))
  <2>1. /\ k \in Nat /\ i \in Nat /\ o \in 0..(B - 1) /\ k = B * i + o /\ i * B + o = k
    <3>1. k \in Nat
      BY <1>1
    <3>2. i \in Nat /\ o \in 0..(B - 1) /\ k = B * i + o
      BY <3>1, BytePlace
    <3> HIDE DEF i, o
    <3>3. B * i = i * B
      BY <3>2, Constants
    <3> QED
      BY <3>1, <3>2, <3>3
  <2>2. i \in 0..will /\ i \in 0..(Total - 1)
    <3>1. i <= (size + n) \div B
      BY <1>1, <2>1, BlockGrows
    <3>2. will = (size + n) \div B
      BY DEF size
    <3> HIDE DEF i
    <3> QED
      BY <3>1, <3>2, <2>1, <1>1, Constants
  <2>3. num = Nr(blk, g.all, PlaceOf(i))
    BY <2>2, <1>18
  <2> HIDE DEF i, o, num
  <2>4. CASE k \in size..(size + n - 1)
    <3>1. i \in used..last
      BY <2>4, <1>1 DEF i
    <3>2. num = g.all[i]
      BY <3>1, <2>3, <1>6, <1>7
    <3>3. x.disk.sector[num] = Written(f, size, n, i, OldData(g, i))
      BY <3>1, <3>2, <1>0, <1>3, <1>10 DEF Put
    <3> QED
      BY <3>3, <2>1, <2>4 DEF Written, num, i, o
  <2>5. CASE k \notin size..(size + n - 1)
    <3>1. k \in 0..(size - 1) /\ size > 0 /\ k \in 0..size
      BY <2>5, <1>1, <2>1
    <3>2. i \in 0..used
      <4>1. i <= used
        BY <3>1, <1>1, BlockGrows DEF i, size
      <4> QED
        BY <4>1, <2>1, <1>1
    <3>3. /\ num = NumberIn(w.disk.sector, w.ino, PlaceOf(i))
          /\ PlaceOf(i) \in Taken(blk, will)
      BY <3>1, <3>2, <2>3 DEF Ready, size, blk
    <3>4. num \in Blocks
      BY <3>3, <2>3, <1>0, <1>2 DEF Apart
    <3>5. will < Direct \/ num # blk[Direct]
      <4>1. PlaceOf(i) # Direct
        BY <2>2, PlaceOfIs
      <4>2. will < Direct \/ will >= Direct
        BY <1>1, Constants
      <4> QED
        BY <4>1, <4>2, <3>3, <2>3, <1>12
    <3>6. w.disk.sector[num].data[o] = <<f, k>>
      BY <3>1, <3>3 DEF Contents, i, o, size
    <3>7. CASE i \notin used..last
      <4>1. ASSUME NEW j \in used..last PROVE num # g.all[j]
        <5>1. j \in 0..(Total - 1)
          BY <1>7
        <5>2. i # j
          BY <3>7
        <5>3. PlaceOf(i) # PlaceOf(j)
          BY <5>1, <5>2, <2>2, PlaceOfIs
        <5> QED
          BY <5>3, <3>3, <2>3, <1>8
      <4>2. x.disk.sector[num] = w.disk.sector[num]
        BY <4>1, <3>4, <3>5, <1>11
      <4> QED
        BY <4>2, <3>6 DEF num, i, o
    <3>8. CASE i \in used..last
      <4>1. i = used
        BY <3>8, <3>2, <1>1
      <4>2. num = g.all[i]
        BY <3>8, <2>3, <1>6, <1>7
      <4>3. x.disk.sector[num] = Written(f, size, n, i, OldData(g, i))
        BY <3>8, <4>2, <1>0, <1>3, <1>10 DEF Put
      <4>4. x.disk.sector[num].data[o] = OldData(g, i)[o]
        BY <4>3, <2>1, <2>5 DEF Written
      <4>5. OldData(g, i) = g.disk.sector[num].data
        BY <4>1, <4>2, <1>0 DEF OldData, size
      <4>6. g.disk.sector[num] = w.disk.sector[num]
        BY <3>4, <3>5 DEF Ready, blk
      <4> QED
        BY <4>4, <4>5, <4>6, <3>6 DEF num, i, o
    <3> QED
      BY <3>7, <3>8
  <2> QED
    BY <2>4, <2>5
<1>20. Contents(f, x.ino, x.disk.sector)
  <2>1. ASSUME NEW k \in 0..(x.ino.size - 1)
        PROVE  x.disk.sector[NumberIn(x.disk.sector, x.ino, PlaceOf(k \div B))].data[k % B] = <<f, k>>
    <3>0. size \in Nat /\ n \in Nat
      BY <1>1
    <3>1. x.ino.size - 1 = size + n - 1
      BY ONLY <3>0, <1>4
    <3>2. k \in 0..(size + n - 1)
      BY ONLY <2>1, <3>1
    <3> QED
      BY <3>2, <1>19
  <2> QED
    BY <2>1 DEF Contents
<1>21. OneSector /\ w.disk.bits = w.bits => x.disk.bits = x.bits
  BY <1>3 DEF Ready
<1>22. /\ x.ino.size = w.ino.size + n
       /\ x.disk.inode = [w.disk.inode EXCEPT ![f] = x.ino]
       /\ w.bits \subseteq x.bits
  BY <1>0, <1>3, <1>4 DEF size
<1> QED
  BY <1>3, <1>15, <1>16, <1>17, <1>20, <1>21, <1>22 DEF Finished, x

LEMMA DoneIs ==
  ASSUME NEW f \in Files, NEW w \in Works, NEW n \in Nat, NEW others, NEW used \in Nat,
         used = w.ino.size \div B,
         0 \in w.bits, others \subseteq w.bits, w.next = "go", Fits(w.ino.size, n),
         Complete(w.ino), Contents(f, w.ino, w.disk.sector),
         Apart(w.ino.block, TableOf(w), used, w.bits, others)
  PROVE  IF Done(f, w, n).next = "go" THEN Finished(f, w, Done(f, w, n), n, others)
         ELSE Ended(w, Done(f, w, n), used, others)
<1> DEFINE v == Allowed(w, n)
           will == (w.ino.size + n) \div B
           need == used < Direct /\ will >= Direct
           g == Grow(v, n)
<1>1. Started(w, v, used, others) /\ Ended(w, v, used, others)
  BY AllowedIs
<1>2. /\ v \in Works
      /\ v.next = "go" => will < Total
  BY AllowedTyped
<1>3. Done(f, w, n) = IF v.next = "go" THEN PutData(f, g, n) ELSE v
  BY DEF Done
<1> HIDE DEF v
<1>4. CASE v.next # "go"
  BY <1>1, <1>3, <1>4
<1>5. CASE v.next = "go"
  <2>1. w.ino.size \div B \in 0..(Total - 1) /\ will \in (w.ino.size \div B)..(Total - 1)
    BY <1>2, <1>5, UsedWill
  <2>2. used \in 0..(Total - 1) /\ will \in used..(Total - 1) /\ will \in 0..(Total - 1) /\ used <= will
    <3> HIDE DEF will
    <3> QED
      BY <2>1, Constants
  <2>3. PICK u \in Works : /\ Grows(w, u, used, will, need, others)
                           /\ g = IF used < will /\ will >= Direct THEN StoreTable(u) ELSE u
    BY <1>1, <1>5, <1>2, <2>2, GrowIs
  <2>4. will = (w.ino.size + n) \div B
    OBVIOUS
  <2>5. need = (used < Direct /\ will >= Direct)
    OBVIOUS
  <2> HIDE DEF will, need, g
  <2>6. CASE u.next = "go"
    <3>1. Ready(w, g, used, will, others)
      BY <2>2, <2>3, <2>5, <2>6, ReadyIs
    <3>2. Finished(f, w, PutData(f, g, n), n, others)
      BY <2>2, <2>4, <3>1, FinishedIs
    <3>3. PutData(f, g, n).next = "go"
      <4>1. g \in Works /\ g.next = "go" /\ g.ino.size = w.ino.size
        BY <3>1 DEF Ready
      <4>2. Inside(g.ino.size) /\ Fits(g.ino.size, n)
        BY <4>1 DEF Complete
      <4> QED
        BY <4>1, <4>2, PutDataFields
    <3> QED
      BY <1>3, <1>5, <3>2, <3>3
  <2>7. CASE u.next # "go"
    <3>1. g = u
      BY <2>3, <2>7, StoreTableFields
    <3>2. PutData(f, u, n) = u
      BY <2>7 DEF PutData
    <3>3. Ended(w, u, used, others)
      BY <2>3, <2>7, GrowsEnded
    <3> QED
      BY <1>3, <1>5, <2>7, <3>1, <3>2, <3>3
  <2> QED
    BY <2>6, <2>7
<1> QED
  BY <1>4, <1>5

-----------------------------------------------------------------------------
(* Files side by side: sec are the sectors, cur the inodes of the files in *)
(* live, map the bitmap.                                                   *)

\* A file has its blocks and its bytes are in them.
Whole(f, ino, sec) ==
  /\ Complete(ino)
  /\ Contents(f, ino, sec)
  /\ ino.size > 0 => \A i \in 0..(ino.size \div B) : NumberIn(sec, ino, PlaceOf(i)) \in Blocks

\* b has grown from a, but not in size.
Part(a, b) ==
  /\ a.size = b.size
  /\ \A k \in 0..Direct : a.block[k] # 0 => b.block[k] = a.block[k]

Separate(live, cur, sec, map) ==
  /\ \A f, g \in live : \A k \in Places(cur[f]), l \in Places(cur[g]) :
       NumberIn(sec, cur[f], k) = NumberIn(sec, cur[g], l) => f = g /\ k = l
  /\ \A f \in live : \A k \in Places(cur[f]) : NumberIn(sec, cur[f], k) \in map \ {0}

\* The numbers of the files besides f.
Others(f, live, cur, sec) ==
  UNION {{NumberIn(sec, cur[g], k) : k \in Places(cur[g])} : g \in live \ {f}}

LEMMA OthersIs ==
  ASSUME NEW f, NEW live, NEW cur, NEW sec, NEW g \in live, g # f, NEW k \in Places(cur[g])
  PROVE  NumberIn(sec, cur[g], k) \in Others(f, live, cur, sec)
BY DEF Others

LEMMA InOthers ==
  ASSUME NEW f, NEW live, NEW cur, NEW sec, NEW b \in Others(f, live, cur, sec)
  PROVE  \E g \in live : g # f /\ \E k \in Places(cur[g]) : b = NumberIn(sec, cur[g], k)
BY DEF Others

LEMMA WholeMoves ==
  ASSUME NEW f, NEW a \in Inodes, NEW b \in Inodes, NEW sec, NEW sec2,
         Whole(f, a, sec), Complete(b), b.size = a.size,
         \A i \in 0..(a.size \div B) : a.size > 0 =>
           /\ NumberIn(sec2, b, PlaceOf(i)) = NumberIn(sec, a, PlaceOf(i))
           /\ sec2[NumberIn(sec, a, PlaceOf(i))] = sec[NumberIn(sec, a, PlaceOf(i))]
  PROVE  Whole(f, b, sec2)
<1> DEFINE size == a.size
           top == a.size \div B
<1>1. size \in Nat /\ top \in Nat
  BY InodeFields
<1>2. ASSUME NEW i \in 0..top, size > 0
      PROVE  /\ NumberIn(sec2, b, PlaceOf(i)) = NumberIn(sec, a, PlaceOf(i))
             /\ sec2[NumberIn(sec, a, PlaceOf(i))] = sec[NumberIn(sec, a, PlaceOf(i))]
             /\ NumberIn(sec, a, PlaceOf(i)) \in Blocks
  BY <1>2 DEF Whole
<1>3. ASSUME NEW k \in 0..(size - 1)
      PROVE  /\ k \div B \in 0..top /\ size > 0
             /\ sec[NumberIn(sec, a, PlaceOf(k \div B))].data[k % B] = <<f, k>>
  <2>1. k \in Nat /\ k \in 0..size /\ size > 0
    BY <1>1
  <2>2. k \div B <= size \div B /\ k \div B \in Nat
    BY <2>1, <1>1, BlockGrows, BytePlace
  <2>3. sec[NumberIn(sec, a, PlaceOf(k \div B))].data[k % B] = <<f, k>>
    BY DEF Whole, Contents
  <2>4. \A m \in Nat : m <= top => m \in 0..top
    BY <1>1
  <2> QED
    BY <2>1, <2>2, <2>3, <2>4
<1>4. b.size = size /\ b.size \div B = top
  OBVIOUS
<1> HIDE DEF size, top
<1>5. Contents(f, b, sec2)
  <2>1. ASSUME NEW k \in 0..(size - 1)
        PROVE  sec2[NumberIn(sec2, b, PlaceOf(k \div B))].data[k % B] = <<f, k>>
    <3>1. k \div B \in 0..top /\ size > 0
          /\ sec[NumberIn(sec, a, PlaceOf(k \div B))].data[k % B] = <<f, k>>
      BY <1>3
    <3> DEFINE i == k \div B
    <3> HIDE DEF i
    <3>2. i \in 0..top /\ sec[NumberIn(sec, a, PlaceOf(i))].data[k % B] = <<f, k>>
      BY <3>1 DEF i
    <3>3. sec2[NumberIn(sec2, b, PlaceOf(i))].data[k % B] = <<f, k>>
      BY <3>1, <3>2, <1>2
    <3> QED
      BY <3>3 DEF i
  <2> QED
    BY <2>1, <1>4 DEF Contents
<1>6. \A i \in 0..top : size > 0 => NumberIn(sec2, b, PlaceOf(i)) \in Blocks
  BY <1>2
<1> QED
  BY <1>4, <1>5, <1>6 DEF Whole

\* A file that keeps the blocks of its data is as complete as it was.
LEMMA KeptComplete ==
  ASSUME NEW a \in Inodes, NEW b \in Inodes, NEW sec, Complete(a), b.size = a.size,
         \A k \in 0..Direct : a.block[k] # 0 /\ k <= a.size \div B => b.block[k] = a.block[k]
  PROVE  /\ Complete(b)
         /\ \A i \in 0..(a.size \div B) : a.size > 0 =>
              NumberIn(sec, b, PlaceOf(i)) = NumberIn(sec, a, PlaceOf(i))
<1> DEFINE size == a.size
           top == a.size \div B
<1>1. size \in Nat /\ top \in Nat /\ top < Total
  BY InodeFields DEF Complete, Inside
<1>2. b.size = size /\ b.size \div B = top /\ Inside(b.size)
  BY DEF Complete
<1>3. \A k \in 0..Direct : a.block[k] # 0 /\ k <= top => b.block[k] = a.block[k]
  OBVIOUS
<1>4. \A i \in 0..top : size > 0 => PlaceOf(i) \in Places(a)
  BY DEF Complete
<1>5. a.size = size /\ a.size \div B = top
  OBVIOUS
<1> HIDE DEF size, top
<1>6. ASSUME NEW i \in 0..top, size > 0
      PROVE  /\ PlaceOf(i) \in Places(b)
             /\ NumberIn(sec, b, PlaceOf(i)) = NumberIn(sec, a, PlaceOf(i))
  <2>0. i \in 0..(Total - 1) /\ i <= top /\ PlaceOf(i) \in Places(a)
    BY <1>1, <1>4, <1>6, Constants
  <2>1. CASE i < Direct
    <3>1. PlaceOf(i) = i /\ i \in 0..Direct /\ i <= Direct
      BY <2>0, <2>1, PlaceOfIs, Constants
    <3>2. a.block[i] # 0
      BY <3>1, <2>0, PlaceDirect
    <3>3. b.block[i] = a.block[i]
      BY <3>1, <3>2, <2>0, <1>3
    <3> QED
      BY <3>1, <3>2, <3>3, PlaceDirect DEF NumberIn
  <2>2. CASE ~(i < Direct)
    <3>1. /\ PlaceOf(i) - 1 = i /\ i \in Indirect /\ PlaceOf(i) > Direct
          /\ ~(PlaceOf(i) <= Direct) /\ PlaceOf(i) \in Int
      BY <2>0, <2>2, PlaceOfIs
    <3>2. a.block[Direct] # 0
      BY <3>1, <2>0, PlaceIndirect
    <3>3. b.block[Direct] = a.block[Direct]
      <4>1. Direct <= top /\ Direct \in 0..Direct
        BY <2>0, <2>2, <1>1, Constants
      <4> QED
        BY <4>1, <3>2, <1>3
    <3> QED
      BY <3>1, <3>2, <3>3, <2>0, <1>2, PlaceIndirect DEF NumberIn
  <2> QED
    BY <2>1, <2>2
<1>7. Complete(b)
  BY <1>2, <1>6 DEF Complete
<1> QED
  BY <1>5, <1>6, <1>7

\* What has grown has all places of what it has grown from.
LEMMA PartNumbers ==
  ASSUME NEW a \in Inodes, NEW b \in Inodes, NEW sec, Part(a, b), NEW k \in Places(a)
  PROVE  k \in Places(b) /\ NumberIn(sec, b, k) = NumberIn(sec, a, k)
<1>1. k \in 0..Total /\ Direct \in 0..Direct
  BY PlacesRange, Constants
<1>2. CASE k <= Direct
  <2>1. k \in 0..Direct
    BY <1>1, <1>2, Constants
  <2>2. a.block[k] # 0
    BY <2>1, PlaceDirect
  <2>3. b.block[k] = a.block[k]
    BY <2>1, <2>2 DEF Part
  <2> QED
    BY <1>2, <2>1, <2>2, <2>3, PlaceDirect DEF NumberIn
<1>3. CASE ~(k <= Direct)
  <2>1. k \in Int /\ k > Direct
    BY <1>1, <1>3, Constants
  <2>2. a.block[Direct] # 0 /\ k - 1 \in Indirect /\ k - 1 <= a.size \div B
    BY <2>1, PlaceIndirect
  <2>3. b.block[Direct] = a.block[Direct] /\ a.size = b.size
    BY <1>1, <2>2 DEF Part
  <2> QED
    BY <1>3, <2>1, <2>2, <2>3, PlaceIndirect DEF NumberIn
<1> QED
  BY <1>2, <1>3

\* A file whose sectors stay keeps its numbers.
LEMMA FrameNumbers ==
  ASSUME NEW a \in Inodes, NEW sec, NEW sec2,
         \A k \in Places(a) : sec2[NumberIn(sec, a, k)] = sec[NumberIn(sec, a, k)],
         NEW k \in Places(a)
  PROVE  NumberIn(sec2, a, k) = NumberIn(sec, a, k)
<1>1. k \in 0..Total /\ Direct \in 0..Direct /\ Direct <= Direct
  BY PlacesRange, Constants
<1>2. CASE k <= Direct
  BY <1>2 DEF NumberIn
<1>3. CASE ~(k <= Direct)
  <2>1. k \in Int /\ k > Direct
    BY <1>1, <1>3, Constants
  <2>2. a.block[Direct] # 0
    BY <2>1, PlaceIndirect
  <2>3. Direct \in Places(a) /\ NumberIn(sec, a, Direct) = a.block[Direct]
    BY <1>1, <2>2, PlaceDirect DEF NumberIn
  <2>4. sec2[a.block[Direct]] = sec[a.block[Direct]]
    BY <2>3
  <2> QED
    BY <1>3, <2>4 DEF NumberIn
<1> QED
  BY <1>2, <1>3

LEMMA FrameWhole ==
  ASSUME NEW f, NEW a \in Inodes, NEW sec, NEW sec2, Whole(f, a, sec),
         \A k \in Places(a) : sec2[NumberIn(sec, a, k)] = sec[NumberIn(sec, a, k)]
  PROVE  Whole(f, a, sec2)
<1>1. Complete(a)
  BY DEF Whole
<1>2. \A k \in Places(a) : NumberIn(sec2, a, k) = NumberIn(sec, a, k)
  BY FrameNumbers
<1>3. \A i \in 0..(a.size \div B) : a.size > 0 => PlaceOf(i) \in Places(a)
  BY <1>1 DEF Complete
<1>4. \A i \in 0..(a.size \div B) : a.size > 0 =>
           /\ NumberIn(sec2, a, PlaceOf(i)) = NumberIn(sec, a, PlaceOf(i))
           /\ sec2[NumberIn(sec, a, PlaceOf(i))] = sec[NumberIn(sec, a, PlaceOf(i))]
  BY <1>2, <1>3
<1> QED
  BY <1>1, <1>4, WholeMoves

\* What has grown only is whole if what it has grown from is complete, and
\* the other way round.
LEMMA PartWhole ==
  ASSUME NEW f, NEW a \in Inodes, NEW b \in Inodes, NEW sec, Part(a, b), Complete(a),
         Whole(f, b, sec)
  PROVE  Whole(f, a, sec)
<1>1. a.size = b.size
  BY DEF Part
<1>2. \A i \in 0..(b.size \div B) : b.size > 0 => PlaceOf(i) \in Places(a)
  BY <1>1 DEF Complete
<1>3. \A i \in 0..(b.size \div B) : b.size > 0 =>
           /\ NumberIn(sec, a, PlaceOf(i)) = NumberIn(sec, b, PlaceOf(i))
           /\ sec[NumberIn(sec, b, PlaceOf(i))] = sec[NumberIn(sec, b, PlaceOf(i))]
  BY <1>2, PartNumbers
<1> QED
  BY <1>1, <1>3, WholeMoves

LEMMA KeptWhole ==
  ASSUME NEW f, NEW a \in Inodes, NEW b \in Inodes, NEW sec, Whole(f, a, sec), b.size = a.size,
         \A k \in 0..Direct : a.block[k] # 0 /\ k <= a.size \div B => b.block[k] = a.block[k]
  PROVE  Whole(f, b, sec)
<1>1. Complete(a)
  BY DEF Whole
<1>2. Complete(b) /\ \A i \in 0..(a.size \div B) : a.size > 0 =>
                          NumberIn(sec, b, PlaceOf(i)) = NumberIn(sec, a, PlaceOf(i))
  BY <1>1, KeptComplete
<1>3. \A i \in 0..(a.size \div B) : a.size > 0 =>
           /\ NumberIn(sec, b, PlaceOf(i)) = NumberIn(sec, a, PlaceOf(i))
           /\ sec[NumberIn(sec, a, PlaceOf(i))] = sec[NumberIn(sec, a, PlaceOf(i))]
  BY <1>2
<1> QED
  BY <1>2, <1>3, WholeMoves

LEMMA SeparateOne ==
  ASSUME NEW live, NEW cur, NEW sec, NEW map, Separate(live, cur, sec, map),
         NEW f \in live, NEW g \in live, NEW k \in Places(cur[f]), NEW l \in Places(cur[g]),
         NumberIn(sec, cur[f], k) = NumberIn(sec, cur[g], l)
  PROVE  f = g /\ k = l
BY Zenon DEF Separate

\* Blocks stay apart when files only lose some.
LEMMA SeparateMoves ==
  ASSUME NEW live, NEW cur, NEW sec, NEW map, NEW live2, NEW cur2, NEW sec2, NEW map2,
         Separate(live, cur, sec, map),
         \A f \in live2 : \A k \in Places(cur2[f]) :
           /\ f \in live /\ k \in Places(cur[f])
           /\ NumberIn(sec2, cur2[f], k) = NumberIn(sec, cur[f], k)
           /\ NumberIn(sec, cur[f], k) \in map2
  PROVE  Separate(live2, cur2, sec2, map2)
<1>1. ASSUME NEW f \in live2, NEW g \in live2, NEW k \in Places(cur2[f]), NEW l \in Places(cur2[g]),
             NumberIn(sec2, cur2[f], k) = NumberIn(sec2, cur2[g], l)
      PROVE  f = g /\ k = l
  <2>1. /\ f \in live /\ k \in Places(cur[f])
        /\ NumberIn(sec2, cur2[f], k) = NumberIn(sec, cur[f], k)
    OBVIOUS
  <2>2. /\ g \in live /\ l \in Places(cur[g])
        /\ NumberIn(sec2, cur2[g], l) = NumberIn(sec, cur[g], l)
    OBVIOUS
  <2>3. NumberIn(sec, cur[f], k) = NumberIn(sec, cur[g], l)
    BY <1>1, <2>1, <2>2
  <2> QED
    BY <2>1, <2>2, <2>3, SeparateOne
<1>2. ASSUME NEW f \in live2, NEW k \in Places(cur2[f])
      PROVE  NumberIn(sec2, cur2[f], k) \in map2 \ {0}
  <2>1. /\ f \in live /\ k \in Places(cur[f])
        /\ NumberIn(sec2, cur2[f], k) = NumberIn(sec, cur[f], k)
        /\ NumberIn(sec, cur[f], k) \in map2
    OBVIOUS
  <2>2. NumberIn(sec, cur[f], k) \in map \ {0}
    BY <2>1 DEF Separate
  <2> QED
    BY <2>1, <2>2
<1> QED
  BY <1>1, <1>2 DEF Separate

LEMMA SeparateTaken ==
  ASSUME NEW live, NEW cur, NEW sec, NEW map, NEW f \in live, cur[f] \in Inodes,
         Separate(live, cur, sec, map), Complete(cur[f])
  PROVE  Apart(cur[f].block, sec[cur[f].block[Direct]].table, cur[f].size \div B, map,
               Others(f, live, cur, sec))
<1> DEFINE ino == cur[f]
           tab == sec[cur[f].block[Direct]].table
           top == cur[f].size \div B
           others == Others(f, live, cur, sec)
<1>1. Places(ino) = Taken(ino.block, top)
  BY PlacesTaken
<1>2. \A k : Nr(ino.block, tab, k) = NumberIn(sec, ino, k)
  BY DEF Nr, NumberIn
<1>3. ASSUME NEW k \in Places(ino) PROVE NumberIn(sec, ino, k) \notin others
  <2>1. ASSUME NumberIn(sec, ino, k) \in others PROVE FALSE
    <3>1. PICK g \in live : g # f /\ \E l \in Places(cur[g]) : NumberIn(sec, ino, k) = NumberIn(sec, cur[g], l)
      BY <2>1, InOthers
    <3> QED
      BY <3>1 DEF Separate
  <2> QED
    BY <2>1
<1>4. \A k \in Places(ino) : NumberIn(sec, ino, k) \in map \ {0}
  BY DEF Separate
<1>5. \A k, l \in Places(ino) : NumberIn(sec, ino, k) = NumberIn(sec, ino, l) => k = l
  BY DEF Separate
<1> HIDE DEF ino, tab, top, others
<1>6. Apart(ino.block, tab, top, map, others)
  BY <1>1, <1>2, <1>3, <1>4, <1>5 DEF Apart
<1> QED
  BY <1>6 DEF ino, tab, top, others

\* One file has changed, and its numbers are still apart from the others.
LEMMA SeparateJoins ==
  ASSUME NEW live, NEW cur, NEW sec, NEW map, NEW f \in live, NEW cur2, NEW sec2, NEW map2,
         Separate(live, cur, sec, map), map \subseteq map2,
         cur2[f] \in Inodes, Complete(cur2[f]),
         Apart(cur2[f].block, sec2[cur2[f].block[Direct]].table, cur2[f].size \div B, map2,
               Others(f, live, cur, sec)),
         \A g \in live : g # f => /\ cur2[g] = cur[g]
                                  /\ \A k \in Places(cur[g]) :
                                       NumberIn(sec2, cur[g], k) = NumberIn(sec, cur[g], k)
  PROVE  Separate(live, cur2, sec2, map2)
<1> DEFINE ino == cur2[f]
           tab == sec2[cur2[f].block[Direct]].table
           top == cur2[f].size \div B
           others == Others(f, live, cur, sec)
<1>1. Places(ino) = Taken(ino.block, top)
  BY PlacesTaken
<1>2. \A k : Nr(ino.block, tab, k) = NumberIn(sec2, ino, k)
  BY DEF Nr, NumberIn
<1>3. Apart(ino.block, tab, top, map2, others)
  OBVIOUS
<1> HIDE DEF tab, top, others
<1>4. /\ \A k \in Places(ino) : NumberIn(sec2, ino, k) \in map2 \ {0} /\ NumberIn(sec2, ino, k) \notin others
      /\ \A k, l \in Places(ino) : NumberIn(sec2, ino, k) = NumberIn(sec2, ino, l) => k = l
  <2> HIDE DEF ino
  <2> QED
    BY <1>1, <1>2, <1>3 DEF Apart
<1>5. ASSUME NEW g \in live, g # f, NEW l \in Places(cur2[g])
      PROVE  /\ l \in Places(cur[g]) /\ NumberIn(sec2, cur2[g], l) = NumberIn(sec, cur[g], l)
             /\ NumberIn(sec2, cur2[g], l) \in map2 \ {0}
             /\ NumberIn(sec2, cur2[g], l) \in others
  <2>1. cur2[g] = cur[g] /\ l \in Places(cur[g])
    BY <1>5
  <2>2. NumberIn(sec2, cur2[g], l) = NumberIn(sec, cur[g], l)
    BY <1>5, <2>1
  <2>3. NumberIn(sec, cur[g], l) \in map \ {0}
    BY <2>1 DEF Separate
  <2>4. NumberIn(sec, cur[g], l) \in others
    BY <1>5, <2>1, OthersIs DEF others
  <2> QED
    BY <2>1, <2>2, <2>3, <2>4
<1> HIDE DEF ino
<1>6. ASSUME NEW g \in live, NEW h \in live, NEW k \in Places(cur2[g]), NEW l \in Places(cur2[h]),
             NumberIn(sec2, cur2[g], k) = NumberIn(sec2, cur2[h], l)
      PROVE  g = h /\ k = l
  <2>1. CASE g = f /\ h = f
    BY <2>1, <1>6, <1>4 DEF ino
  <2>2. CASE g = f /\ h # f
    BY <2>2, <1>6, <1>4, <1>5 DEF ino
  <2>3. CASE g # f /\ h = f
    BY <2>3, <1>6, <1>4, <1>5 DEF ino
  <2>4. CASE g # f /\ h # f
    <3>1. /\ k \in Places(cur[g]) /\ NumberIn(sec2, cur2[g], k) = NumberIn(sec, cur[g], k)
          /\ l \in Places(cur[h]) /\ NumberIn(sec2, cur2[h], l) = NumberIn(sec, cur[h], l)
      BY <2>4, <1>5
    <3>2. NumberIn(sec, cur[g], k) = NumberIn(sec, cur[h], l)
      BY <3>1, <1>6
    <3> QED
      BY <3>1, <3>2, SeparateOne
  <2> QED
    BY <2>1, <2>2, <2>3, <2>4
<1>7. ASSUME NEW g \in live, NEW k \in Places(cur2[g])
      PROVE  NumberIn(sec2, cur2[g], k) \in map2 \ {0}
  BY <1>4, <1>5 DEF ino
<1> QED
  BY <1>6, <1>7 DEF Separate

-----------------------------------------------------------------------------
(* inodeRelease                                                            *)

\* One round of Release, from r.
FreeOne(ino, r, i) ==
  LET b == ino.block[IF i = 1 THEN Direct ELSE i - 2]
      left == r.bits \ {b}
  IN IF b = 0 THEN r ELSE [bits |-> left, disk |-> BitMapSync(r.disk, left, b)]

Results == [bits : SUBSET Blocks, disk : Disks]

\* Nothing but blocks of ino has been freed.
Freed(ino, map, d, r) ==
  /\ r \in Results
  /\ r.bits \subseteq map
  /\ \A b \in map : b \in r.bits \/ \E k \in 0..Direct : ino.block[k] = b /\ b # 0
  /\ r.disk.inode = d.inode /\ r.disk.sector = d.sector
  /\ OneSector /\ d.bits = map => r.disk.bits = r.bits

LEMMA FreeOneIs ==
  ASSUME NEW ino \in Inodes, NEW map, NEW d, NEW r \in Results, NEW i \in 1..(Direct + 1)
  PROVE  /\ FreeOne(ino, r, i) \in Results
         /\ Freed(ino, map, d, r) => Freed(ino, map, d, FreeOne(ino, r, i))
<1> DEFINE k == IF i = 1 THEN Direct ELSE i - 2
           b == ino.block[k]
           left == r.bits \ {b}
           new == BitMapSync(r.disk, left, b)
           x == FreeOne(ino, r, i)
<1>1. k \in 0..Direct
  BY Constants
<1>2. b \in Blocks
  BY <1>1, InodeFields
<1>3. r.bits \subseteq Blocks /\ r.disk \in Disks /\ left \in SUBSET Blocks
  BY DEF Results
<1>4. new \in Disks /\ new.inode = r.disk.inode /\ new.sector = r.disk.sector
  BY <1>3, SyncFields
<1>5. OneSector => new.bits = left
  BY <1>2, <1>3, OneSectorSync
<1>6. x = IF b = 0 THEN r ELSE [bits |-> left, disk |-> new]
  BY DEF FreeOne
<1> HIDE DEF k, new, x
<1>7. x \in Results
  BY <1>3, <1>4, <1>6 DEF Results
<1>8. ASSUME Freed(ino, map, d, r) PROVE Freed(ino, map, d, x)
  <2>1. CASE b = 0
    BY <2>1, <1>6, <1>8
  <2>2. CASE b # 0
    <3>1. x.bits = left /\ x.disk = new
      BY <2>2, <1>6
    <3>2. ASSUME NEW c \in map PROVE c \in x.bits \/ \E j \in 0..Direct : ino.block[j] = c /\ c # 0
      <4>1. CASE c = b
        BY <4>1, <2>2, <1>1
      <4>2. CASE c # b
        BY <4>2, <3>1, <1>8 DEF Freed
      <4> QED
        BY <4>1, <4>2
    <3>3. x.bits \subseteq map
      BY <3>1, <1>8 DEF Freed
    <3>4. x.disk.inode = d.inode /\ x.disk.sector = d.sector
      BY <3>1, <1>4, <1>8 DEF Freed
    <3>5. OneSector => x.disk.bits = x.bits
      BY <3>1, <1>5
    <3> QED
      BY <1>7, <3>2, <3>3, <3>4, <3>5 DEF Freed
  <2> QED
    BY <2>1, <2>2
<1> QED
  BY <1>7, <1>8 DEF x

LEMMA ReleaseIs ==
  ASSUME NEW ino \in Inodes, NEW map \in SUBSET Blocks, NEW d \in Disks
  PROVE  Freed(ino, map, d, Release(ino, map, d))
<1> DEFINE base == [bits |-> map, disk |-> d]
           step == [x \in Results \X ((0 + 1)..(Direct + 1)) |-> FreeOne(ino, x[1], x[2])]
           Loop(f) == f = [i \in 0..(Direct + 1) |-> IF i = 0 THEN base ELSE FreeOne(ino, f[i - 1], i)]
<1>0. /\ 0 \in Int /\ Direct + 1 \in Int /\ 0 <= Direct + 1
      /\ \A i \in (0 + 1)..(Direct + 1) : i \in 1..(Direct + 1) /\ i \in 0..(Direct + 1) /\ i # 0
                                          /\ i - 1 \in 0..(Direct + 1)
      /\ \A i \in 0..(Direct + 1) : i # 0 => i \in (0 + 1)..(Direct + 1)
      /\ 0 \in 0..(Direct + 1) /\ Direct + 1 \in 0..(Direct + 1)
  BY Constants
<1>1. step \in [Results \X ((0 + 1)..(Direct + 1)) -> Results]
  BY <1>0, FreeOneIs
<1>2. base \in Results
  BY DEF Results
<1>3. PICK f : Rounds(f, 0, Direct + 1, Results, base, step)
  <2> HIDE DEF step, base
  <2> QED
    BY <1>0, <1>1, <1>2, LoopExists
<1>4. ASSUME NEW i \in (0 + 1)..(Direct + 1) PROVE f[i] = FreeOne(ino, f[i - 1], i)
  <2>1. f[i - 1] \in Results
    <3> HIDE DEF step, base
    <3> QED
      BY <1>0, <1>3 DEF Rounds
  <2>2. f[i] = step[<<f[i - 1], i>>]
    <3> HIDE DEF step, base
    <3> QED
      BY <1>3 DEF Rounds
  <2>3. <<f[i - 1], i>> \in Results \X ((0 + 1)..(Direct + 1))
    BY <2>1
  <2> QED
    BY <2>2, <2>3
<1>5. Loop(f)
  <2> HIDE DEF step, base
  <2>1. f \in [0..(Direct + 1) -> Results] /\ f[0] = base
    BY <1>3 DEF Rounds
  <2> QED
    BY <2>1, <1>0, <1>4
<1> DEFINE freed == CHOOSE g : Loop(g)
<1>6. Loop(freed)
  BY <1>5
<1>7. Release(ino, map, d) = freed[Direct + 1]
  BY DEF Release, FreeOne
<1>8. freed[0] = base /\ \A i \in (0 + 1)..(Direct + 1) : freed[i] = FreeOne(ino, freed[i - 1], i)
  <2> HIDE DEF freed, base
  <2> QED
    BY <1>6, <1>0
<1> DEFINE T == {i \in 0..(Direct + 1) : Freed(ino, map, d, freed[i])}
<1>9. 0 \in T
  <2>1. \A b \in map : b \in base.bits
    OBVIOUS
  <2>2. Freed(ino, map, d, base)
    BY <1>2, <2>1 DEF Freed
  <2> HIDE DEF freed, base
  <2> QED
    BY <1>0, <1>8, <2>2
<1>10. ASSUME NEW i \in 0..((Direct + 1) - 1), i \in T PROVE i + 1 \in T
  <2>1. i + 1 \in (0 + 1)..(Direct + 1) /\ (i + 1) - 1 = i /\ i + 1 \in 0..(Direct + 1)
        /\ i + 1 \in 1..(Direct + 1)
    BY Constants
  <2> HIDE DEF freed, base
  <2>2. freed[i + 1] = FreeOne(ino, freed[i], i + 1) /\ Freed(ino, map, d, freed[i])
    BY <2>1, <1>8, <1>10
  <2>3. freed[i] \in Results
    BY <2>2 DEF Freed
  <2> QED
    BY <2>1, <2>2, <2>3, FreeOneIs
<1>11. \A i \in 0..(Direct + 1) : i \in T
  <2> HIDE DEF T
  <2> QED
    BY <1>0, <1>9, <1>10, Induction
<1> QED
  BY <1>0, <1>7, <1>11

-----------------------------------------------------------------------------
(* The invariant                                                           *)

Cur == [f \in Files |-> Current(f)]

\* What the writes have accepted is there.
Held(live, cur, lens, sec) == \A f \in live : cur[f].size = lens[f] /\ Whole(f, cur[f], sec)

\* The blocks are apart, also those an inode on the disk, dino, knows of.
Owning(live, cur, dino, sec, map) ==
  /\ Separate(live, cur, sec, map)
  /\ \A f \in live : Complete(dino[f]) /\ Part(dino[f], cur[f])

Marked(live, dino, sec, map) ==
  \A f \in live : \A k \in Places(dino[f]) : NumberIn(sec, dino[f], k) \in map

Saving(live, dino, sec, map, dbits, stop) ==
  OneSector => Marked(live, dino, sec, dbits) /\ (~stop => dbits = map)

\* What holds unless a write has torn a file: live files.
Sound(live, cur, lens, dino, sec, map, dbits, stop) ==
  /\ 0 \in map
  /\ Held(live, cur, lens, sec)
  /\ ~stop => Owning(live, cur, dino, sec, map)
  /\ Saving(live, dino, sec, map, dbits, stop)

FilesTyped ==
  /\ state \in [Files -> {"new", "open", "closed", "gone"}]
  /\ inode \in [Files -> Inodes]
  /\ bits \in SUBSET Blocks
  /\ disk \in Disks
  /\ len \in [Files -> Nat]
  /\ torn \in BOOLEAN
  /\ stopped \in BOOLEAN

FileInv ==
  /\ FilesTyped
  /\ \A f \in Files : state[f] = "new" => len[f] = 0
  /\ ~torn => Sound(Live, Cur, len, disk.inode, disk.sector, bits, disk.bits, stopped)

LEMMA DiskFields ==
  ASSUME NEW d \in Disks
  PROVE  /\ d.inode \in [Files -> Inodes] /\ d.bits \subseteq Blocks
         /\ d.sector \in [Blocks -> Sectors] /\ d.overrun \in BOOLEAN
BY DEF Disks

LEMMA EmptyIs ==
  /\ EmptyInode \in Inodes /\ EmptyInode.size = 0
  /\ Places(EmptyInode) = {}
  /\ Complete(EmptyInode) /\ Part(EmptyInode, EmptyInode)
  /\ \A f, sec : Whole(f, EmptyInode, sec)
<1>1. EmptyInode.size = 0 /\ \A k \in 0..Direct : EmptyInode.block[k] = 0
  BY DEF EmptyInode
<1>2. EmptyInode \in Inodes
  <2>1. 0 \in 0..(Total * B)
    BY Constants
  <2>2. [i \in 0..Direct |-> 0] \in [0..Direct -> Blocks]
    BY SomeBlocks
  <2> QED
    BY <2>1, <2>2 DEF EmptyInode, Inodes
<1>3. Direct \in 0..Direct /\ EmptyInode.block[Direct] = 0
  BY <1>1, Constants
<1>4. Places(EmptyInode) = {}
  BY <1>1, <1>3 DEF Places
<1>5. Complete(EmptyInode)
  <2>1. 0 \div B = 0 /\ 0 < Total
    BY Constants
  <2> QED
    BY <1>1, <2>1 DEF Complete, Inside
<1>6. Part(EmptyInode, EmptyInode)
  BY DEF Part
<1>7. ASSUME NEW f, NEW sec PROVE Whole(f, EmptyInode, sec)
  <2>1. \A k : k \notin 0..(0 - 1)
    OBVIOUS
  <2>2. Contents(f, EmptyInode, sec)
    BY <1>1, <2>1 DEF Contents
  <2> QED
    BY <1>1, <1>5, <2>2 DEF Whole
<1> QED
  BY <1>1, <1>2, <1>4, <1>5, <1>6, <1>7

\* What is marked in memory is marked on a disk that has the same bitmap.
LEMMA MarkedFrom ==
  ASSUME NEW live, NEW cur, NEW dino, NEW sec, NEW map,
         Owning(live, cur, dino, sec, map),
         \A f \in live : dino[f] \in Inodes /\ cur[f] \in Inodes
  PROVE  Marked(live, dino, sec, map)
<1>1. ASSUME NEW f \in live, NEW k \in Places(dino[f]) PROVE NumberIn(sec, dino[f], k) \in map
  <2>1. dino[f] \in Inodes /\ cur[f] \in Inodes /\ Part(dino[f], cur[f])
    BY DEF Owning
  <2>2. k \in Places(cur[f]) /\ NumberIn(sec, cur[f], k) = NumberIn(sec, dino[f], k)
    BY <2>1, PartNumbers
  <2>3. NumberIn(sec, cur[f], k) \in map \ {0}
    BY <2>2 DEF Owning, Separate
  <2> QED
    BY <2>2, <2>3
<1> QED
  BY <1>1 DEF Marked

LEMMA SoundFrom ==
  ASSUME NEW live, NEW cur, NEW lens, NEW dino, NEW sec, NEW map, NEW dbits, NEW stop,
         0 \in map, Held(live, cur, lens, sec), Owning(live, cur, dino, sec, map),
         OneSector => dbits = map,
         \A f \in live : dino[f] \in Inodes /\ cur[f] \in Inodes
  PROVE  Sound(live, cur, lens, dino, sec, map, dbits, stop)
BY MarkedFrom DEF Sound, Saving

\* The state while nothing has failed.
LEMMA SoundIs ==
  ASSUME FileInv, ~stopped, ~torn
  PROVE  /\ 0 \in bits
         /\ Held(Live, Cur, len, disk.sector)
         /\ Owning(Live, Cur, disk.inode, disk.sector, bits)
         /\ OneSector => disk.bits = bits
BY DEF FileInv, Sound, Saving

LEMMA CurTyped ==
  ASSUME FilesTyped
  PROVE  /\ Cur \in [Files -> Inodes]
         /\ \A f \in Files : Cur[f] = IF state[f] = "open" THEN inode[f] ELSE disk.inode[f]
         /\ Live \subseteq Files
         /\ \A f \in Live : disk.inode[f] \in Inodes /\ Cur[f] \in Inodes
<1>1. disk.inode \in [Files -> Inodes] /\ inode \in [Files -> Inodes]
  BY DiskFields DEF FilesTyped
<1> QED
  BY <1>1 DEF Cur, Current, Live

\* Files that only come and go, and the blocks the disk is told of.
LEMMA InvInit ==
  ASSUME Init
  PROVE  FileInv
<1>1. EmptyInode \in Inodes
  BY EmptyIs
<1>2. {0} \in SUBSET Blocks /\ 0 \in Blocks
  BY SomeBlocks
<1>3. disk = [inode |-> [f \in Files |-> EmptyInode], bits |-> {0},
              sector |-> [b \in Blocks |-> [data |-> NoData, table |-> NoTable]],
              overrun |-> FALSE]
  BY DEF Init, Formatted
<1>4. [data |-> NoData, table |-> NoTable] \in Sectors
  BY DEF NoData, NoTable, Sectors
<1>5. [b \in Blocks |-> [data |-> NoData, table |-> NoTable]] \in [Blocks -> Sectors]
  BY <1>4
<1>6. disk \in Disks /\ bits = {0} /\ disk.bits = {0}
  <2>1. disk \in Disks /\ disk.bits = {0}
    BY <1>1, <1>2, <1>3, <1>5 DEF Disks
  <2>2. bits = disk.bits
    BY DEF Init
  <2> QED
    BY <2>1, <2>2
<1>7. FilesTyped
  BY <1>1, <1>2, <1>6 DEF FilesTyped, Init
<1>8. Live = {}
  BY DEF Live, Init
<1>9. Sound(Live, Cur, len, disk.inode, disk.sector, bits, disk.bits, stopped)
  BY <1>6, <1>8 DEF Sound, Saving, Held, Owning, Separate, Marked
<1> QED
  BY <1>7, <1>9 DEF FileInv, Init

LEMMA InvRestart ==
  ASSUME FileInv, Restart
  PROVE  FileInv'
<1>1. EmptyInode \in Inodes
  BY EmptyIs
<1>2. {0} \in SUBSET Blocks /\ 0 \in Blocks
  BY SomeBlocks
<1>3. disk' = [inode |-> [f \in Files |-> EmptyInode], bits |-> {0}, sector |-> disk.sector,
               overrun |-> FALSE]
  BY DEF Restart, Formatted
<1>4. disk.sector \in [Blocks -> Sectors]
  BY DiskFields DEF FileInv, FilesTyped
<1>5. disk' \in Disks /\ bits' = {0} /\ disk'.bits = {0}
  BY <1>1, <1>2, <1>3, <1>4 DEF Disks, Restart
<1>6. FilesTyped'
  BY <1>1, <1>2, <1>5 DEF FilesTyped, Restart
<1>7. Live' = {}
  BY DEF Live, Restart
<1>8. Sound(Live, Cur, len, disk.inode, disk.sector, bits, disk.bits, stopped)'
  BY <1>5, <1>7 DEF Sound, Saving, Held, Owning, Separate, Marked
<1>9. \A f \in Files : len'[f] = 0
  BY DEF Restart
<1> QED
  BY <1>6, <1>8, <1>9 DEF FileInv

LEMMA InvCreate ==
  ASSUME FileInv, NEW f \in Files, Create(f)
  PROVE  FileInv'
<1>1. FilesTyped /\ disk \in Disks /\ inode \in [Files -> Inodes] /\ disk.inode \in [Files -> Inodes]
  BY DiskFields DEF FileInv, FilesTyped
<1>2. /\ ~stopped /\ state[f] = "new" /\ state' = [state EXCEPT ![f] = "open"]
      /\ inode' = [inode EXCEPT ![f] = EmptyInode]
      /\ disk' = [disk EXCEPT !.inode[f] = EmptyInode]
      /\ bits' = bits /\ len' = len /\ torn' = torn /\ stopped' = stopped
  BY DEF Create
<1>3. EmptyInode \in Inodes
  BY EmptyIs
<1> DEFINE dino == [disk.inode EXCEPT ![f] = EmptyInode]
<1>4. dino \in [Files -> Inodes] /\ dino[f] = EmptyInode
      /\ \A g \in Files : g # f => dino[g] = disk.inode[g]
  BY <1>1, <1>3
<1>5. disk' = [disk EXCEPT !.inode = dino]
  BY <1>1, <1>2 DEF Disks
<1> HIDE DEF dino
<1>6. /\ disk' \in Disks /\ disk'.inode = dino /\ disk'.sector = disk.sector
      /\ disk'.bits = disk.bits
  BY <1>1, <1>4, <1>5 DEF Disks
<1>7. FilesTyped'
  BY <1>1, <1>2, <1>3, <1>6 DEF FilesTyped
<1>8. /\ Cur'[f] = EmptyInode /\ Cur' \in [Files -> Inodes]
      /\ \A g \in Files : g # f => Cur'[g] = Cur[g]
  <2>1. \A g \in Files : Cur'[g] = IF state'[g] = "open" THEN inode'[g] ELSE disk'.inode[g]
    BY DEF Cur, Current
  <2>2. \A g \in Files : Cur[g] = IF state[g] = "open" THEN inode[g] ELSE disk.inode[g]
    BY DEF Cur, Current
  <2>3. state'[f] = "open" /\ inode'[f] = EmptyInode
        /\ \A g \in Files : g # f => state'[g] = state[g] /\ inode'[g] = inode[g]
    BY <1>1, <1>2 DEF FilesTyped
  <2>4. inode' \in [Files -> Inodes] /\ disk'.inode \in [Files -> Inodes]
    BY <1>4, <1>6, <1>7 DEF FilesTyped
  <2>5. Cur'[f] = EmptyInode /\ \A g \in Files : g # f => Cur'[g] = Cur[g]
    BY <2>1, <2>2, <2>3, <1>6, <1>4
  <2>6. Cur' \in [Files -> Inodes]
    BY <2>4 DEF Cur, Current
  <2> QED
    BY <2>5, <2>6
<1>9. Live' \subseteq Files /\ \A g \in Live' : g # f => g \in Live
  BY <1>1, <1>2 DEF Live, FilesTyped
<1>10. ASSUME ~torn PROVE Sound(Live, Cur, len, disk.inode, disk.sector, bits, disk.bits, stopped)'
  <2>1. /\ 0 \in bits /\ Held(Live, Cur, len, disk.sector)
        /\ Owning(Live, Cur, disk.inode, disk.sector, bits)
        /\ OneSector => disk.bits = bits
    BY <1>2, <1>10, SoundIs
  <2>2. ASSUME NEW g \in Live' PROVE Cur'[g].size = len'[g] /\ Whole(g, Cur'[g], disk'.sector)
    <3>1. CASE g = f
      <4>1. len[f] = 0
        BY <1>2 DEF FileInv
      <4> QED
        BY <3>1, <4>1, <1>2, <1>8, EmptyIs
    <3>2. CASE g # f
      BY <3>2, <1>2, <1>6, <1>8, <1>9, <2>1 DEF Held
    <3> QED
      BY <3>1, <3>2
  <2>3. ASSUME NEW g \in Live' PROVE Complete(disk'.inode[g]) /\ Part(disk'.inode[g], Cur'[g])
    <3>1. CASE g = f
      BY <3>1, <1>4, <1>6, <1>8, EmptyIs
    <3>2. CASE g # f
      BY <3>2, <1>4, <1>6, <1>8, <1>9, <2>1 DEF Owning
    <3> QED
      BY <3>1, <3>2
  <2>4. ASSUME NEW g \in Live', NEW k \in Places(Cur'[g])
        PROVE  /\ g \in Live /\ k \in Places(Cur[g])
               /\ NumberIn(disk'.sector, Cur'[g], k) = NumberIn(disk.sector, Cur[g], k)
               /\ NumberIn(disk.sector, Cur[g], k) \in bits'
    <3>1. g # f
      BY <1>8, EmptyIs
    <3>2. g \in Live /\ Cur'[g] = Cur[g]
      BY <3>1, <1>8, <1>9
    <3> QED
      BY <3>2, <1>2, <1>6, <2>1 DEF Owning, Separate
  <2>5. Separate(Live, Cur, disk.sector, bits)
    BY <2>1 DEF Owning
  <2>6. Separate(Live', Cur', disk'.sector, bits')
    BY <2>4, <2>5, SeparateMoves
  <2>7. Owning(Live', Cur', disk'.inode, disk'.sector, bits')
    BY <2>3, <2>6 DEF Owning
  <2>8. Held(Live', Cur', len', disk'.sector)
    BY <2>2 DEF Held
  <2>9. \A g \in Live' : disk'.inode[g] \in Inodes /\ Cur'[g] \in Inodes
    BY <1>4, <1>6, <1>8, <1>9
  <2>10. 0 \in bits' /\ (OneSector => disk'.bits = bits')
    BY <1>2, <1>6, <2>1
  <2> QED
    BY <2>7, <2>8, <2>9, <2>10, SoundFrom
<1>11. \A g \in Files : state'[g] = "new" => len'[g] = 0
  BY <1>1, <1>2 DEF FileInv, FilesTyped
<1> QED
  BY <1>2, <1>7, <1>10, <1>11 DEF FileInv

LEMMA InvOpen ==
  ASSUME FileInv, NEW f \in Files, Open(f)
  PROVE  FileInv'
<1>1. FilesTyped /\ inode \in [Files -> Inodes] /\ disk.inode \in [Files -> Inodes]
  BY DiskFields DEF FileInv, FilesTyped
<1>2. /\ ~stopped /\ state[f] = "closed" /\ state' = [state EXCEPT ![f] = "open"]
      /\ inode' = [inode EXCEPT ![f] = disk.inode[f]]
      /\ bits' = bits /\ disk' = disk /\ len' = len /\ torn' = torn /\ stopped' = stopped
  BY DEF Open
<1>3. FilesTyped'
  BY <1>1, <1>2 DEF FilesTyped
<1>4. Live' = Live
  BY <1>1, <1>2 DEF Live, FilesTyped
<1>5. Cur' = Cur
  <2>1. ASSUME NEW g \in Files
        PROVE  (IF state'[g] = "open" THEN inode'[g] ELSE disk'.inode[g]) =
                 (IF state[g] = "open" THEN inode[g] ELSE disk.inode[g])
    BY <1>1, <1>2 DEF FilesTyped
  <2> QED
    BY <2>1 DEF Cur, Current
<1>6. ~torn => Sound(Live, Cur, len, disk.inode, disk.sector, bits, disk.bits, stopped)'
  BY <1>2, <1>4, <1>5 DEF FileInv
<1>7. \A g \in Files : state'[g] = "new" => len'[g] = 0
  BY <1>1, <1>2 DEF FileInv, FilesTyped
<1> QED
  BY <1>2, <1>3, <1>6, <1>7 DEF FileInv

LEMMA InvClose ==
  ASSUME FileInv, NEW f \in Files, Close(f)
  PROVE  FileInv'
<1>1. /\ FilesTyped /\ inode \in [Files -> Inodes] /\ disk.inode \in [Files -> Inodes]
      /\ EmptyInode \in Inodes
  BY DiskFields, EmptyIs DEF FileInv, FilesTyped
<1>2. /\ ~stopped /\ state[f] = "open" /\ state' = [state EXCEPT ![f] = "closed"]
      /\ inode' = [inode EXCEPT ![f] = EmptyInode]
      /\ bits' = bits /\ disk' = disk /\ len' = len /\ torn' = torn /\ stopped' = stopped
  BY DEF Close
<1>3. FilesTyped'
  BY <1>1, <1>2 DEF FilesTyped
<1>4. Live' = Live
  BY <1>1, <1>2 DEF Live, FilesTyped
<1>5. /\ Cur'[f] = disk.inode[f] /\ Cur' \in [Files -> Inodes]
      /\ \A g \in Files : g # f => Cur'[g] = Cur[g]
  <2>1. \A g \in Files : Cur'[g] = IF state'[g] = "open" THEN inode'[g] ELSE disk'.inode[g]
    BY DEF Cur, Current
  <2>2. \A g \in Files : Cur[g] = IF state[g] = "open" THEN inode[g] ELSE disk.inode[g]
    BY DEF Cur, Current
  <2>3. state'[f] = "closed" /\ \A g \in Files : g # f => state'[g] = state[g] /\ inode'[g] = inode[g]
    BY <1>1, <1>2 DEF FilesTyped
  <2>4. inode' \in [Files -> Inodes] /\ disk'.inode \in [Files -> Inodes]
    BY <1>1, <1>2
  <2>5. Cur'[f] = disk.inode[f] /\ \A g \in Files : g # f => Cur'[g] = Cur[g]
    BY <2>1, <2>2, <2>3, <1>2
  <2>6. Cur' \in [Files -> Inodes]
    BY <2>4 DEF Cur, Current
  <2> QED
    BY <2>5, <2>6
<1>6. ASSUME ~torn PROVE Sound(Live, Cur, len, disk.inode, disk.sector, bits, disk.bits, stopped)'
  <2>1. /\ 0 \in bits /\ Held(Live, Cur, len, disk.sector)
        /\ Owning(Live, Cur, disk.inode, disk.sector, bits)
        /\ OneSector => disk.bits = bits
    BY <1>2, <1>6, SoundIs
  <2>2. ASSUME NEW g \in Live
        PROVE  /\ g \in Files /\ Cur[g] \in Inodes /\ disk.inode[g] \in Inodes
               /\ Complete(disk.inode[g]) /\ Part(disk.inode[g], Cur[g])
               /\ Cur[g].size = len[g] /\ Whole(g, Cur[g], disk.sector)
    BY <1>1, <2>1, CurTyped DEF Held, Owning
  <2>3. ASSUME NEW g \in Live PROVE Cur'[g].size = len'[g] /\ Whole(g, Cur'[g], disk'.sector)
    <3>1. CASE g = f
      <4>1. Whole(g, disk.inode[g], disk.sector)
        BY <2>2, PartWhole
      <4> QED
        BY <3>1, <4>1, <1>2, <1>5, <2>2 DEF Part
    <3>2. CASE g # f
      BY <3>2, <1>2, <1>5, <2>2
    <3> QED
      BY <3>1, <3>2
  <2>4. ASSUME NEW g \in Live PROVE Complete(disk'.inode[g]) /\ Part(disk'.inode[g], Cur'[g])
    <3>1. CASE g = f
      BY <3>1, <1>2, <1>5, <2>2 DEF Part
    <3>2. CASE g # f
      BY <3>2, <1>2, <1>5, <2>2
    <3> QED
      BY <3>1, <3>2
  <2>5. ASSUME NEW g \in Live', NEW k \in Places(Cur'[g])
        PROVE  /\ g \in Live /\ k \in Places(Cur[g])
               /\ NumberIn(disk'.sector, Cur'[g], k) = NumberIn(disk.sector, Cur[g], k)
               /\ NumberIn(disk.sector, Cur[g], k) \in bits'
    <3>1. g \in Live
      BY <1>4
    <3>2. k \in Places(Cur[g]) /\ NumberIn(disk.sector, Cur'[g], k) = NumberIn(disk.sector, Cur[g], k)
      <4>1. CASE g = f
        <5>1. k \in Places(disk.inode[g])
          BY <4>1, <1>5
        <5>2. k \in Places(Cur[g]) /\ NumberIn(disk.sector, Cur[g], k) = NumberIn(disk.sector, disk.inode[g], k)
          BY <3>1, <5>1, <2>2, PartNumbers
        <5> QED
          BY <4>1, <5>2, <1>5
      <4>2. CASE g # f
        BY <4>2, <3>1, <1>5, <2>2
      <4> QED
        BY <4>1, <4>2
    <3>3. NumberIn(disk.sector, Cur[g], k) \in bits
      BY <3>1, <3>2, <2>1 DEF Owning, Separate
    <3> QED
      BY <3>1, <3>2, <3>3, <1>2
  <2>6. Separate(Live, Cur, disk.sector, bits)
    BY <2>1 DEF Owning
  <2>7. Separate(Live', Cur', disk'.sector, bits')
    BY <2>5, <2>6, SeparateMoves
  <2>8. Owning(Live', Cur', disk'.inode, disk'.sector, bits')
    BY <2>4, <2>7, <1>4 DEF Owning
  <2>9. Held(Live', Cur', len', disk'.sector)
    BY <2>3, <1>4 DEF Held
  <2>10. \A g \in Live' : disk'.inode[g] \in Inodes /\ Cur'[g] \in Inodes
    BY <1>2, <1>4, <1>5, <2>2
  <2>11. 0 \in bits' /\ (OneSector => disk'.bits = bits')
    BY <1>2, <2>1
  <2> QED
    BY <2>8, <2>9, <2>10, <2>11, SoundFrom
<1>7. \A g \in Files : state'[g] = "new" => len'[g] = 0
  BY <1>1, <1>2 DEF FileInv, FilesTyped
<1> QED
  BY <1>2, <1>3, <1>6, <1>7 DEF FileInv

LEMMA InvUnlink ==
  ASSUME FileInv, NEW f \in Files, Unlink(f)
  PROVE  FileInv'
<1> DEFINE r == Release(disk.inode[f], bits, disk)
<1>1. /\ FilesTyped /\ inode \in [Files -> Inodes] /\ disk.inode \in [Files -> Inodes]
      /\ disk \in Disks /\ bits \in SUBSET Blocks /\ disk.inode[f] \in Inodes
  BY DiskFields DEF FileInv, FilesTyped
<1>2. /\ ~stopped /\ state[f] = "closed" /\ state' = [state EXCEPT ![f] = "gone"]
      /\ bits' = r.bits /\ disk' = r.disk
      /\ inode' = inode /\ len' = len /\ torn' = torn /\ stopped' = stopped
  BY DEF Unlink
<1>3. Freed(disk.inode[f], bits, disk, r)
  BY <1>1, ReleaseIs
<1> HIDE DEF r
<1>4. /\ bits' \in SUBSET Blocks /\ disk' \in Disks
      /\ disk'.inode = disk.inode /\ disk'.sector = disk.sector
      /\ \A b \in bits : b \in bits' \/ \E k \in 0..Direct : disk.inode[f].block[k] = b /\ b # 0
      /\ OneSector /\ disk.bits = bits => disk'.bits = bits'
  BY <1>2, <1>3 DEF Freed, Results
<1>5. FilesTyped'
  BY <1>1, <1>2, <1>4 DEF FilesTyped
<1>6. Live' \subseteq Live /\ f \notin Live' /\ f \in Live /\ Live \subseteq Files
  BY <1>1, <1>2 DEF Live, FilesTyped
<1>7. Cur[f] = disk.inode[f] /\ \A g \in Live' : Cur'[g] = Cur[g]
  <2>1. \A g \in Files : Cur'[g] = IF state'[g] = "open" THEN inode'[g] ELSE disk'.inode[g]
    BY DEF Cur, Current
  <2>2. \A g \in Files : Cur[g] = IF state[g] = "open" THEN inode[g] ELSE disk.inode[g]
    BY DEF Cur, Current
  <2>3. \A g \in Files : g # f => state'[g] = state[g]
    BY <1>1, <1>2 DEF FilesTyped
  <2> QED
    BY <2>1, <2>2, <2>3, <1>2, <1>4, <1>6
<1>8. ASSUME ~torn PROVE Sound(Live, Cur, len, disk.inode, disk.sector, bits, disk.bits, stopped)'
  <2>1. /\ 0 \in bits /\ Held(Live, Cur, len, disk.sector)
        /\ Owning(Live, Cur, disk.inode, disk.sector, bits)
        /\ OneSector => disk.bits = bits
    BY <1>2, <1>8, SoundIs
  <2>2. Separate(Live, Cur, disk.sector, bits)
    BY <2>1 DEF Owning
  <2>3. ASSUME NEW g \in Live', NEW k \in Places(Cur'[g])
        PROVE  /\ g \in Live /\ k \in Places(Cur[g])
               /\ NumberIn(disk'.sector, Cur'[g], k) = NumberIn(disk.sector, Cur[g], k)
               /\ NumberIn(disk.sector, Cur[g], k) \in bits'
    <3>1. g \in Live /\ g # f /\ k \in Places(Cur[g])
          /\ NumberIn(disk'.sector, Cur'[g], k) = NumberIn(disk.sector, Cur[g], k)
      BY <1>4, <1>6, <1>7
    <3>2. NumberIn(disk.sector, Cur[g], k) \in bits
      BY <3>1, <2>2 DEF Separate
    <3>3. ASSUME NEW j \in 0..Direct, disk.inode[f].block[j] # 0,
                 disk.inode[f].block[j] = NumberIn(disk.sector, Cur[g], k)
          PROVE  FALSE
      <4>1. j \in Places(Cur[f])
        BY <3>3, <1>7, PlaceDirect
      <4>2. NumberIn(disk.sector, Cur[f], j) = disk.inode[f].block[j]
        <5>1. j <= Direct
          BY Constants
        <5> QED
          BY <5>1, <1>7 DEF NumberIn
      <4>3. NumberIn(disk.sector, Cur[f], j) = NumberIn(disk.sector, Cur[g], k)
        BY <4>2, <3>3
      <4>4. f \in Live /\ g \in Live /\ k \in Places(Cur[g]) /\ g # f
        BY <3>1, <1>6
      <4>5. \A i \in Places(Cur[f]), l \in Places(Cur[g]) :
              NumberIn(disk.sector, Cur[f], i) = NumberIn(disk.sector, Cur[g], l) => f = g
        BY ONLY <4>4, <2>2 DEF Separate
      <4> QED
        BY <4>1, <4>3, <4>4, <4>5
    <3>4. NumberIn(disk.sector, Cur[g], k) \in bits'
      BY <3>2, <3>3, <1>4
    <3> QED
      BY <3>1, <3>4
  <2>4. Separate(Live', Cur', disk'.sector, bits')
    BY <2>2, <2>3, SeparateMoves
  <2>5. Owning(Live', Cur', disk'.inode, disk'.sector, bits')
    BY <2>1, <2>4, <1>4, <1>6, <1>7 DEF Owning
  <2>6. Held(Live', Cur', len', disk'.sector)
    BY <2>1, <1>2, <1>4, <1>6, <1>7 DEF Held
  <2>7. \A g \in Live' : disk'.inode[g] \in Inodes /\ Cur'[g] \in Inodes
    BY <1>1, <1>4, <1>6, <1>7, CurTyped
  <2>8. 0 \in bits'
    BY <2>1, <1>4
  <2>9. OneSector => disk'.bits = bits'
    BY <2>1, <1>4
  <2> QED
    BY <2>5, <2>6, <2>7, <2>8, <2>9, SoundFrom
<1>9. \A g \in Files : state'[g] = "new" => len'[g] = 0
  BY <1>1, <1>2 DEF FileInv, FilesTyped
<1> QED
  BY <1>2, <1>5, <1>8, <1>9 DEF FileInv

LEMMA WriteIs ==
  ASSUME NEW f \in Files, NEW n \in Nat, Write(f, n), NEW x, x = Done(f, WorkOf(f), n)
  PROVE  /\ ~stopped /\ state[f] = "open" /\ Fits(inode[f].size, n) /\ state' = state
         /\ inode' = [inode EXCEPT ![f] = x.ino] /\ bits' = x.bits /\ disk' = x.disk
         /\ len' = IF x.next = "go" THEN [len EXCEPT ![f] = len[f] + n] ELSE len
         /\ torn' <=> torn \/ (x.next = "fail" /\ x.ino.block[Direct] # inode[f].block[Direct])
         /\ stopped' <=> x.next = "stop"
         /\ torn' \in BOOLEAN /\ stopped' \in BOOLEAN
<1> DEFINE w == WorkOf(f)
           started == IF w.ino.block[0] = 0 THEN AddBlock(w, 0) ELSE w
           allowed == Check(started, (w.ino.size + n) \div B < Total)
           done == IF allowed.next = "go" THEN PutData(f, Grow(allowed, n), n) ELSE allowed
<1>1. done = Done(f, WorkOf(f), n)
  BY DEF Done, Allowed
<1>2. /\ ~stopped /\ state[f] = "open" /\ inode[f].size + n <= Total * B /\ state' = state
      /\ inode' = [inode EXCEPT ![f] = done.ino] /\ bits' = done.bits /\ disk' = done.disk
      /\ len' = IF done.next = "go" THEN [len EXCEPT ![f] = @ + n] ELSE len
      /\ torn' = (torn \/ (done.next = "fail" /\ done.ino.block[Direct] # inode[f].block[Direct]))
      /\ stopped' = (done.next = "stop")
  BY DEF Write, WorkOf
<1> HIDE DEF done
<1>3. x = done
  BY <1>1
<1>4. Fits(inode[f].size, n)
  BY <1>2 DEF Fits
<1> QED
  BY <1>2, <1>3, <1>4

\* What a write starts from: nothing is torn.
LEMMA WriteStarts ==
  ASSUME FileInv, ~torn, ~stopped, NEW f \in Files, state[f] = "open",
         NEW w, w = WorkOf(f), NEW others, others = Others(f, Live, Cur, disk.sector)
  PROVE  /\ w \in Works /\ w.ino = inode[f] /\ w.bits = bits /\ w.disk = disk /\ w.next = "go"
         /\ f \in Live /\ Cur[f] = inode[f]
         /\ Whole(f, w.ino, w.disk.sector) /\ w.ino.size = len[f]
         /\ 0 \in bits /\ others \subseteq bits
         /\ Apart(w.ino.block, TableOf(w), w.ino.size \div B, w.bits, others)
         /\ Held(Live, Cur, len, disk.sector)
         /\ Owning(Live, Cur, disk.inode, disk.sector, bits)
         /\ Separate(Live, Cur, disk.sector, bits)
         /\ Marked(Live, disk.inode, disk.sector, bits)
         /\ OneSector => disk.bits = bits
<1>1. FilesTyped
  BY DEF FileInv
<1>2. w \in Works /\ w.ino = inode[f] /\ w.bits = bits /\ w.disk = disk /\ w.next = "go"
  <2>1. [i \in 0..(Total - 1) |-> None] \in [0..(Total - 1) -> Numbers]
    BY DEF Numbers
  <2>2. inode[f] \in Inodes /\ bits \in SUBSET Blocks /\ disk \in Disks
    BY <1>1 DEF FilesTyped
  <2> QED
    BY <2>1, <2>2 DEF WorkOf, Works
<1>3. f \in Live /\ Cur[f] = inode[f] /\ Cur[f] \in Inodes
  BY <1>1, CurTyped DEF Live
<1>4. /\ 0 \in bits /\ Held(Live, Cur, len, disk.sector)
      /\ Owning(Live, Cur, disk.inode, disk.sector, bits)
      /\ OneSector => disk.bits = bits
  BY SoundIs
<1>5. Whole(f, inode[f], disk.sector) /\ inode[f].size = len[f]
  BY <1>3, <1>4 DEF Held
<1>6. Separate(Live, Cur, disk.sector, bits)
  BY <1>4 DEF Owning
<1>7. others \subseteq bits
  <2>1. ASSUME NEW b \in others PROVE b \in bits
    <3>1. PICK g \in Live : g # f /\ \E k \in Places(Cur[g]) : b = NumberIn(disk.sector, Cur[g], k)
      BY InOthers
    <3> QED
      BY <3>1, <1>6 DEF Separate
  <2> QED
    BY <2>1
<1>8. Complete(Cur[f])
  BY <1>3, <1>5 DEF Whole
<1>9. Apart(Cur[f].block, disk.sector[Cur[f].block[Direct]].table, Cur[f].size \div B, bits, others)
  BY <1>3, <1>6, <1>8, SeparateTaken
<1>10. Apart(w.ino.block, TableOf(w), w.ino.size \div B, w.bits, others)
  BY <1>2, <1>3, <1>9 DEF TableOf
<1>11. Marked(Live, disk.inode, disk.sector, bits)
  BY <1>1, <1>4, CurTyped, MarkedFrom
<1> QED
  BY <1>2, <1>3, <1>4, <1>5, <1>6, <1>7, <1>10, <1>11

LEMMA WriteIsDone ==
  ASSUME FileInv, ~torn, ~stopped, NEW f \in Files, state[f] = "open", NEW n \in Nat,
         Fits(inode[f].size, n), NEW x, x = Done(f, WorkOf(f), n)
  PROVE  /\ x.next = "go" => Finished(f, WorkOf(f), x, n, Others(f, Live, Cur, disk.sector))
         /\ x.next # "go" => Ended(WorkOf(f), x, inode[f].size \div B, Others(f, Live, Cur, disk.sector))
<1> DEFINE w == WorkOf(f)
           others == Others(f, Live, Cur, disk.sector)
           used == inode[f].size \div B
<1>1. /\ w \in Works /\ w.ino = inode[f] /\ w.bits = bits /\ w.disk = disk /\ w.next = "go"
      /\ Whole(f, w.ino, w.disk.sector)
      /\ 0 \in bits /\ others \subseteq bits
      /\ Apart(w.ino.block, TableOf(w), w.ino.size \div B, w.bits, others)
  BY WriteStarts
<1>2. x = Done(f, w, n)
  OBVIOUS
<1> HIDE DEF w, others
<1>3. used = w.ino.size \div B /\ used \in Nat
  BY <1>1, InodeFields, WorkFields
<1>4. Complete(w.ino) /\ Contents(f, w.ino, w.disk.sector)
  BY <1>1 DEF Whole
<1>5. Fits(w.ino.size, n)
  BY <1>1
<1>6. Apart(w.ino.block, TableOf(w), used, w.bits, others)
  BY <1>1, <1>3
<1> HIDE DEF used
<1>7. IF Done(f, w, n).next = "go" THEN Finished(f, w, Done(f, w, n), n, others)
      ELSE Ended(w, Done(f, w, n), used, others)
  BY <1>1, <1>3, <1>4, <1>5, <1>6, DoneIs
<1> QED
  BY <1>2, <1>7 DEF w, others, used

LEMMA InvWrite ==
  ASSUME FileInv, NEW f \in Files, NEW n \in Nat, Write(f, n)
  PROVE  FileInv'
<1> DEFINE w == WorkOf(f)
           x == Done(f, WorkOf(f), n)
           others == Others(f, Live, Cur, disk.sector)
           used == inode[f].size \div B
<1>1. /\ FilesTyped /\ inode \in [Files -> Inodes] /\ disk.inode \in [Files -> Inodes]
      /\ disk \in Disks /\ bits \in SUBSET Blocks
  BY DiskFields DEF FileInv, FilesTyped
<1>2. /\ ~stopped /\ state[f] = "open" /\ Fits(inode[f].size, n) /\ state' = state
      /\ inode' = [inode EXCEPT ![f] = x.ino] /\ bits' = x.bits /\ disk' = x.disk
      /\ len' = IF x.next = "go" THEN [len EXCEPT ![f] = len[f] + n] ELSE len
      /\ torn' <=> torn \/ (x.next = "fail" /\ x.ino.block[Direct] # inode[f].block[Direct])
      /\ stopped' <=> x.next = "stop"
      /\ torn' \in BOOLEAN /\ stopped' \in BOOLEAN
  BY WriteIs
<1>3. x \in Works
  <2>1. [i \in 0..(Total - 1) |-> None] \in [0..(Total - 1) -> Numbers]
    BY DEF Numbers
  <2>2. inode[f] \in Inodes
    BY <1>1
  <2>3. w \in Works /\ w.ino = inode[f]
    BY <1>1, <2>1, <2>2 DEF WorkOf, Works
  <2> QED
    BY <1>2, <2>3, DoneTyped
<1> HIDE DEF x
<1>4. x.ino \in Inodes /\ x.disk \in Disks /\ x.bits \in SUBSET Blocks /\ x.next \in {"go", "fail", "stop"}
  BY <1>3, WorkFields
<1>5. FilesTyped'
  <2>1. len' \in [Files -> Nat]
    BY <1>1, <1>2 DEF FilesTyped
  <2>2. inode' \in [Files -> Inodes]
    BY <1>1, <1>2, <1>4
  <2> QED
    BY <1>1, <1>2, <1>4, <2>1, <2>2 DEF FilesTyped
<1>6. \A g \in Files : state'[g] = "new" => len'[g] = 0
  <2>1. \A g \in Files : state'[g] = "new" => g # f /\ len'[g] = len[g]
    BY <1>1, <1>2 DEF FilesTyped
  <2> QED
    BY <2>1, <1>2 DEF FileInv
<1>7. Live' = Live /\ f \in Live /\ Live \subseteq Files
  BY <1>2 DEF Live
<1>8. ASSUME ~torn, \A g \in Files : g # f => disk'.inode[g] = disk.inode[g]
      PROVE  Cur'[f] = x.ino /\ \A g \in Live : g # f => Cur'[g] = Cur[g]
  <2>1. \A g \in Files : Cur'[g] = IF state'[g] = "open" THEN inode'[g] ELSE disk'.inode[g]
    BY DEF Cur, Current
  <2>2. \A g \in Files : Cur[g] = IF state[g] = "open" THEN inode[g] ELSE disk.inode[g]
    BY DEF Cur, Current
  <2> QED
    BY <2>1, <2>2, <1>1, <1>2, <1>7, <1>8
<1>9. ASSUME ~torn
      PROVE  /\ w \in Works /\ w.ino = inode[f] /\ w.bits = bits /\ w.disk = disk
             /\ Cur[f] = inode[f] /\ Whole(f, inode[f], disk.sector) /\ inode[f].size = len[f]
             /\ 0 \in bits
             /\ Held(Live, Cur, len, disk.sector)
             /\ Owning(Live, Cur, disk.inode, disk.sector, bits)
             /\ Separate(Live, Cur, disk.sector, bits)
             /\ Marked(Live, disk.inode, disk.sector, bits)
             /\ OneSector => disk.bits = bits
             /\ x.next = "go" => Finished(f, w, x, n, others)
             /\ x.next # "go" => Ended(w, x, used, others)
             /\ \A g \in Live : disk.inode[g] \in Inodes /\ Cur[g] \in Inodes
  <2>1. x = Done(f, WorkOf(f), n)
    BY DEF x
  <2>2. /\ x.next = "go" => Finished(f, w, x, n, others)
        /\ x.next # "go" => Ended(w, x, used, others)
    BY <1>2, <1>9, <2>1, WriteIsDone
  <2>3. \A g \in Live : disk.inode[g] \in Inodes /\ Cur[g] \in Inodes
    BY <1>1, CurTyped
  <2>4. /\ w \in Works /\ w.ino = inode[f] /\ w.bits = bits /\ w.disk = disk
        /\ Cur[f] = inode[f] /\ Whole(f, w.ino, w.disk.sector) /\ w.ino.size = len[f]
        /\ 0 \in bits
        /\ Held(Live, Cur, len, disk.sector)
        /\ Owning(Live, Cur, disk.inode, disk.sector, bits)
        /\ Separate(Live, Cur, disk.sector, bits)
        /\ Marked(Live, disk.inode, disk.sector, bits)
        /\ OneSector => disk.bits = bits
    BY <1>2, <1>9, WriteStarts
  <2> HIDE DEF w, others, used
  <2>5. Whole(f, inode[f], disk.sector) /\ inode[f].size = len[f]
    BY <2>4
  <2> QED
    BY <2>2, <2>3, <2>4, <2>5
<1> HIDE DEF w, others, used
\* the write is done
<1>10. ASSUME ~torn, x.next = "go"
       PROVE  Sound(Live, Cur, len, disk.inode, disk.sector, bits, disk.bits, stopped)'
  <2>0. used = inode[f].size \div B
    BY DEF used
  <2>1. /\ x.ino.size = inode[f].size + n
        /\ disk'.inode = [disk.inode EXCEPT ![f] = x.ino]
        /\ bits \subseteq x.bits
        /\ Complete(x.ino)
        /\ Apart(x.ino.block, TableOf(x), x.ino.size \div B, x.bits, others)
        /\ \A b \in Blocks : b \in others => x.disk.sector[b] = disk.sector[b]
        /\ Contents(f, x.ino, x.disk.sector)
        /\ OneSector => x.disk.bits = x.bits
    BY <1>2, <1>9, <1>10 DEF Finished
  <2>2. disk'.inode[f] = x.ino /\ \A g \in Files : g # f => disk'.inode[g] = disk.inode[g]
    BY <2>1, <1>1
  <2>3. Cur'[f] = x.ino /\ \A g \in Live : g # f => Cur'[g] = Cur[g]
    BY <1>8, <1>10, <2>2
  <2>4. ASSUME NEW g \in Live, g # f, NEW k \in Places(Cur[g])
        PROVE  x.disk.sector[NumberIn(disk.sector, Cur[g], k)] = disk.sector[NumberIn(disk.sector, Cur[g], k)]
    <3>1. NumberIn(disk.sector, Cur[g], k) \in others
      BY <2>4, OthersIs DEF others
    <3>2. NumberIn(disk.sector, Cur[g], k) \in bits
      BY <1>9, <1>10 DEF Separate
    <3> QED
      BY <3>1, <3>2, <2>1, <1>1
  <2>5. ASSUME NEW g \in Live, g # f
        PROVE  /\ \A k \in Places(Cur[g]) :
                    NumberIn(x.disk.sector, Cur[g], k) = NumberIn(disk.sector, Cur[g], k)
               /\ Whole(g, Cur[g], x.disk.sector) /\ Cur[g].size = len[g]
    <3>1. Cur[g] \in Inodes /\ Whole(g, Cur[g], disk.sector) /\ Cur[g].size = len[g]
      BY <1>9, <1>10 DEF Held
    <3>2. \A k \in Places(Cur[g]) :
            x.disk.sector[NumberIn(disk.sector, Cur[g], k)] = disk.sector[NumberIn(disk.sector, Cur[g], k)]
      BY <2>4, <2>5
    <3> QED
      BY <3>1, <3>2, FrameNumbers, FrameWhole
  <2>6. Apart(Cur'[f].block, x.disk.sector[Cur'[f].block[Direct]].table, Cur'[f].size \div B, x.bits, others)
    BY <2>1, <2>3 DEF TableOf
  <2>7. Separate(Live, Cur', x.disk.sector, x.bits)
    <3>1. \A g \in Live : g # f => /\ Cur'[g] = Cur[g]
                                   /\ \A k \in Places(Cur[g]) :
                                        NumberIn(x.disk.sector, Cur[g], k) = NumberIn(disk.sector, Cur[g], k)
      BY <2>3, <2>5
    <3>2. Cur'[f] \in Inodes /\ Complete(Cur'[f])
      BY <2>1, <2>3, <1>4
    <3>3. Separate(Live, Cur, disk.sector, bits) /\ bits \subseteq x.bits /\ f \in Live
      BY <1>7, <1>9, <1>10, <2>1
    <3> QED
      BY <3>1, <3>2, <3>3, <2>6, SeparateJoins DEF others
  <2>8. Whole(f, x.ino, x.disk.sector)
    <3>1. Places(x.ino) = Taken(x.ino.block, x.ino.size \div B)
      BY <2>1, <1>4, PlacesTaken
    <3>2. ASSUME NEW i \in 0..(x.ino.size \div B), x.ino.size > 0
          PROVE  NumberIn(x.disk.sector, x.ino, PlaceOf(i)) \in Blocks
      <4>1. PlaceOf(i) \in Places(x.ino)
        BY <2>1, <3>2 DEF Complete
      <4>2. Nr(x.ino.block, TableOf(x), PlaceOf(i)) \in x.bits
        BY <4>1, <3>1, <2>1 DEF Apart
      <4> QED
        BY <4>2, <1>4 DEF Nr, NumberIn, TableOf
    <3> QED
      BY <2>1, <3>2 DEF Whole
  <2>9. Held(Live, Cur', len', x.disk.sector)
    <3>1. ASSUME NEW g \in Live PROVE Cur'[g].size = len'[g] /\ Whole(g, Cur'[g], x.disk.sector)
      <4>1. len' = [len EXCEPT ![f] = len[f] + n] /\ len \in [Files -> Nat]
        BY <1>1, <1>2, <1>10 DEF FilesTyped
      <4>2. CASE g = f
        <5>1. len'[f] = len[f] + n
          BY <4>1
        <5>2. x.ino.size = len[f] + n
          BY <2>1, <1>9, <1>10
        <5> QED
          BY <4>2, <5>1, <5>2, <2>3, <2>8
      <4>3. CASE g # f
        BY <4>1, <4>3, <2>3, <2>5, <1>7
      <4> QED
        BY <4>2, <4>3
    <3> QED
      BY <3>1 DEF Held
  <2>10. Owning(Live, Cur', disk'.inode, x.disk.sector, x.bits)
    <3>1. ASSUME NEW g \in Live PROVE Complete(disk'.inode[g]) /\ Part(disk'.inode[g], Cur'[g])
      <4>1. CASE g = f
        BY <4>1, <2>1, <2>2, <2>3 DEF Part
      <4>2. CASE g # f
        BY <4>2, <2>2, <2>3, <1>7, <1>9, <1>10 DEF Owning
      <4> QED
        BY <4>1, <4>2
    <3> QED
      BY <3>1, <2>7 DEF Owning
  <2>11. \A g \in Live : disk'.inode[g] \in Inodes /\ Cur'[g] \in Inodes
    BY <2>2, <2>3, <1>4, <1>7, <1>9, <1>10
  <2>12. 0 \in x.bits
    BY <2>1, <1>9, <1>10
  <2> QED
    BY <1>2, <1>7, <2>1, <2>9, <2>10, <2>11, <2>12, SoundFrom
\* a write ended before: the file keeps the blocks of its data
<1>11. ASSUME ~torn, x.next # "go"
       PROVE  /\ disk'.inode = disk.inode /\ disk'.sector = disk.sector
              /\ x.ino.size = inode[f].size /\ bits \subseteq x.bits
              /\ \A k \in 0..Direct : inode[f].block[k] # 0 /\ (k <= used \/ x.next # "stop")
                                      => x.ino.block[k] = inode[f].block[k]
              /\ Held(Live, Cur, len, disk.sector)'
              /\ Cur'[f] = x.ino /\ \A g \in Live : g # f => Cur'[g] = Cur[g]
  <2>1. Unwritten(w, x) /\ Keeps(w, x, used)
    BY <1>9, <1>11 DEF Ended
  <2>2. /\ disk'.inode = disk.inode /\ disk'.sector = disk.sector
        /\ x.ino.size = inode[f].size /\ bits \subseteq x.bits
    BY <2>1, <1>2, <1>9, <1>11 DEF Unwritten
  <2>3. \A k \in 0..Direct : inode[f].block[k] # 0 /\ (k <= used \/ x.next # "stop")
                             => x.ino.block[k] = inode[f].block[k]
    BY <2>1, <1>9, <1>11 DEF Keeps
  <2>4. Cur'[f] = x.ino /\ \A g \in Live : g # f => Cur'[g] = Cur[g]
    BY <1>8, <1>11, <2>2
  <2>5. Whole(f, x.ino, disk.sector)
    <3>1. \A k \in 0..Direct : inode[f].block[k] # 0 /\ k <= inode[f].size \div B
                               => x.ino.block[k] = inode[f].block[k]
      BY <2>3 DEF used
    <3>2. inode[f] \in Inodes /\ Whole(f, inode[f], disk.sector)
      BY <1>1, <1>9, <1>11
    <3> QED
      BY <3>1, <3>2, <2>2, <1>4, KeptWhole
  <2>6. len' = len
    BY <1>2, <1>11
  <2>7. ASSUME NEW g \in Live PROVE Cur'[g].size = len'[g] /\ Whole(g, Cur'[g], disk'.sector)
    <3>1. CASE g = f
      BY <3>1, <2>2, <2>4, <2>5, <2>6, <1>9, <1>11
    <3>2. CASE g # f
      BY <3>2, <2>2, <2>4, <2>6, <1>9, <1>11 DEF Held
    <3> QED
      BY <3>1, <3>2
  <2>8. Held(Live, Cur, len, disk.sector)'
    BY <2>7, <1>7 DEF Held
  <2> QED
    BY <2>2, <2>3, <2>4, <2>8
<1>12. ASSUME ~torn, x.next = "stop"
       PROVE  Sound(Live, Cur, len, disk.inode, disk.sector, bits, disk.bits, stopped)'
  <2>0. x.next # "go"
    BY <1>12
  <2>1. /\ disk'.inode = disk.inode /\ disk'.sector = disk.sector /\ bits \subseteq x.bits
        /\ Held(Live, Cur, len, disk.sector)'
    BY <1>11, <1>12, <2>0
  <2>2. ASSUME OneSector PROVE bits \subseteq x.disk.bits
    BY <1>9, <1>12, <2>0, <2>2 DEF Ended
  <2>3. ASSUME OneSector PROVE Marked(Live', disk'.inode, disk'.sector, disk'.bits)
    <3>1. Marked(Live, disk.inode, disk.sector, bits)
      BY <1>9, <1>12
    <3>2. bits \subseteq disk'.bits
      BY <2>2, <2>3, <1>2
    <3> QED
      BY <3>1, <3>2, <2>1, <1>7 DEF Marked
  <2>4. stopped' /\ 0 \in bits'
    BY <1>2, <1>9, <1>12, <2>1
  <2> QED
    BY <2>1, <2>3, <2>4 DEF Sound, Saving
\* the disk was full, and no table was taken
<1>13. ASSUME ~torn, x.next = "fail", x.ino.block[Direct] = inode[f].block[Direct]
       PROVE  Sound(Live, Cur, len, disk.inode, disk.sector, bits, disk.bits, stopped)'
  <2>0. x.next # "go" /\ x.next # "stop"
    BY <1>13
  <2>1. /\ disk'.inode = disk.inode /\ disk'.sector = disk.sector
        /\ x.ino.size = inode[f].size /\ bits \subseteq x.bits
        /\ \A k \in 0..Direct : inode[f].block[k] # 0 => x.ino.block[k] = inode[f].block[k]
        /\ Held(Live, Cur, len, disk.sector)'
        /\ Cur'[f] = x.ino /\ \A g \in Live : g # f => Cur'[g] = Cur[g]
    BY <1>11, <1>13, <2>0
  <2>2. /\ Apart(x.ino.block, TableOf(w), used, x.bits, others)
        /\ OneSector => x.disk.bits = x.bits
    BY <1>9, <1>13, <2>0 DEF Ended
  <2>3. Complete(x.ino)
    <3>1. Complete(inode[f]) /\ inode[f] \in Inodes
      BY <1>1, <1>9, <1>13 DEF Whole
    <3> QED
      BY <3>1, <2>1, <1>4, KeptComplete
  <2>4. Separate(Live, Cur', disk.sector, x.bits)
    <3>1. \A g \in Live : g # f => /\ Cur'[g] = Cur[g]
                                   /\ \A k \in Places(Cur[g]) :
                                        NumberIn(disk.sector, Cur[g], k) = NumberIn(disk.sector, Cur[g], k)
      BY <2>1
    <3>2. Cur'[f] \in Inodes /\ Complete(Cur'[f])
      BY <2>1, <2>3, <1>4
    <3>3. Separate(Live, Cur, disk.sector, bits) /\ bits \subseteq x.bits /\ f \in Live
      BY <1>7, <1>9, <1>13, <2>1
    <3>4. Apart(Cur'[f].block, disk.sector[Cur'[f].block[Direct]].table, Cur'[f].size \div B, x.bits, others)
      <4>1. TableOf(w) = disk.sector[Cur'[f].block[Direct]].table
        BY <2>1, <1>9, <1>13 DEF TableOf
      <4>2. Cur'[f].size \div B = used
        BY <2>1 DEF used
      <4> QED
        BY <4>1, <4>2, <2>1, <2>2
    <3> QED
      BY <3>1, <3>2, <3>3, <3>4, SeparateJoins DEF others
  <2>5. Owning(Live, Cur', disk'.inode, disk'.sector, bits')
    <3>1. ASSUME NEW g \in Live PROVE Complete(disk'.inode[g]) /\ Part(disk'.inode[g], Cur'[g])
      <4>1. Complete(disk.inode[g]) /\ Part(disk.inode[g], Cur[g])
        BY <1>9, <1>13 DEF Owning
      <4>2. CASE g = f
        BY <4>1, <4>2, <2>1, <1>9, <1>13 DEF Part
      <4>3. CASE g # f
        BY <4>1, <4>3, <2>1
      <4> QED
        BY <4>2, <4>3
    <3> QED
      BY <3>1, <2>1, <2>4, <1>2 DEF Owning
  <2>6. \A g \in Live : disk'.inode[g] \in Inodes /\ Cur'[g] \in Inodes
    BY <2>1, <1>4, <1>9, <1>13
  <2>7. 0 \in bits' /\ (OneSector => disk'.bits = bits')
    BY <1>2, <1>9, <1>13, <2>1, <2>2
  <2> QED
    BY <1>7, <2>1, <2>5, <2>6, <2>7, SoundFrom
<1>14. ~torn' => Sound(Live, Cur, len, disk.inode, disk.sector, bits, disk.bits, stopped)'
  BY <1>2, <1>4, <1>10, <1>12, <1>13
<1> QED
  BY <1>5, <1>6, <1>14 DEF FileInv

-----------------------------------------------------------------------------
(* What holds in every state                                               *)

LEMMA InvNext ==
  ASSUME FileInv, [Next]_vars
  PROVE  FileInv'
<1>1. CASE Next
  <2>1. ASSUME NEW f \in Files, NEW n \in 0..MaxCount, Write(f, n) PROVE FileInv'
    <3>1. n \in Nat
      BY Constants
    <3> QED
      BY <3>1, <2>1, InvWrite
  <2> QED
    BY <1>1, <2>1, InvCreate, InvOpen, InvClose, InvUnlink, InvRestart DEF Next
<1>2. CASE UNCHANGED vars
  BY <1>2 DEF vars, FileInv, FilesTyped, Live, Cur, Current
<1> QED
  BY <1>1, <1>2

\* The invariant of files and their blocks: file.c and inode.c keep the numbers
\* of an inode, its table, the two bitmaps and the data together.
THEOREM FileInvariant == Spec => []FileInv
<1>1. Init => FileInv
  BY InvInit
<1>2. FileInv /\ [Next]_vars => FileInv'
  BY InvNext
<1> QED
  BY <1>1, <1>2, PTL DEF Spec

\* No two places of files share a block and every block of a file is marked in
\* blockBitMap, whatever fileWrite allocated, or gave up on, before.
THEOREM FileBlocksOwned == Spec => []BlocksOwned
<1>1. FileInv => BlocksOwned
  <2>1. SUFFICES ASSUME FileInv, ~stopped, ~torn
                 PROVE  /\ \A f, g \in Live : \A k \in Places(Current(f)), l \in Places(Current(g)) :
                             Number(Current(f), k) = Number(Current(g), l) => f = g /\ k = l
                        /\ \A f \in Live : Owned(Current(f)) \subseteq bits \ {0}
    BY DEF BlocksOwned
  <2>2. Separate(Live, Cur, disk.sector, bits)
    BY <2>1, SoundIs DEF Owning
  <2>3. \A f \in Live : Cur[f] = Current(f)
    BY DEF Cur, Live
  <2>4. \A ino, k : Number(ino, k) = NumberIn(disk.sector, ino, k)
    BY DEF Number, NumberIn
  <2>5. ASSUME NEW f \in Live, NEW g \in Live, NEW k \in Places(Current(f)), NEW l \in Places(Current(g)),
               Number(Current(f), k) = Number(Current(g), l)
        PROVE  f = g /\ k = l
    <3>1. k \in Places(Cur[f]) /\ l \in Places(Cur[g])
          /\ NumberIn(disk.sector, Cur[f], k) = NumberIn(disk.sector, Cur[g], l)
      BY <2>3, <2>4, <2>5
    <3>2. \A i \in Places(Cur[f]), j \in Places(Cur[g]) :
            NumberIn(disk.sector, Cur[f], i) = NumberIn(disk.sector, Cur[g], j) => f = g /\ i = j
      BY <2>2 DEF Separate
    <3> QED
      BY <3>1, <3>2
  <2>6. ASSUME NEW f \in Live PROVE Owned(Current(f)) \subseteq bits \ {0}
    <3>1. \A k \in Places(Cur[f]) : NumberIn(disk.sector, Cur[f], k) \in bits \ {0}
      BY <2>2 DEF Separate
    <3> QED
      BY <3>1, <2>3, <2>4 DEF Owned
  <2> QED
    BY <2>5, <2>6
<1> QED
  BY <1>1, FileInvariant, PTL

\* On a partition whose bitmap is in one sector, the blocks of the files on the
\* disk are marked there.  Behind it bitMapSync writes the wrong sector.
THEOREM FileMarkedOnDisk ==
  ASSUME NBlocks <= SectorBytes
  PROVE  Spec => []MarkedOnDisk
<1>1. FileInv => MarkedOnDisk
  <2>1. SUFFICES ASSUME FileInv, ~torn
                 PROVE  \A f \in Live : Owned(disk.inode[f]) \subseteq disk.bits
    BY DEF MarkedOnDisk
  <2>2. Marked(Live, disk.inode, disk.sector, disk.bits)
    <3>1. OneSector
      BY DEF OneSector
    <3> QED
      BY <2>1, <3>1 DEF FileInv, Sound, Saving
  <2>3. \A ino, k : Number(ino, k) = NumberIn(disk.sector, ino, k)
    BY DEF Number, NumberIn
  <2> QED
    BY <2>2, <2>3 DEF Marked, Owned
<1> QED
  BY <1>1, FileInvariant, PTL

\* The blocks a read has looked up.
LEMMA LoadBlocksIs ==
  ASSUME NEW ino, NEW first \in Nat, NEW last \in 0..(Total - 1), NEW j \in first..last
  PROVE  LoadBlocks(ino, first, last)[j] = NumberIn(disk.sector, ino, PlaceOf(j))
<1>1. j \in 0..(Total - 1) /\ j <= last
  BY Constants
<1>2. CASE j < Direct
  <2>1. PlaceOf(j) = j /\ j <= Direct
    BY <1>1, <1>2, PlaceOfIs, Constants
  <2>2. LoadBlocks(ino, first, last)[j] = ino.block[j]
    BY <1>1, <1>2, Constants DEF LoadBlocks
  <2> QED
    BY <2>1, <2>2 DEF NumberIn
<1>3. CASE ~(j < Direct)
  <2>1. PlaceOf(j) - 1 = j /\ ~(PlaceOf(j) <= Direct)
    BY <1>1, <1>3, PlaceOfIs
  <2>2. j >= Direct /\ last >= Direct
    BY <1>1, <1>3, Constants
  <2>3. LoadBlocks(ino, first, last)[j] = disk.sector[ino.block[Direct]].table[j]
    BY <1>1, <1>3, <2>2 DEF LoadBlocks
  <2> QED
    BY <2>1, <2>3 DEF NumberIn
<1> QED
  BY <1>2, <1>3

\* How many bytes a read of n bytes from pos returns.
CountOf(size, pos, n) == IF pos + n > size THEN size - pos ELSE n

LEMMA CountIs ==
  ASSUME NEW size \in Nat, Inside(size), NEW pos \in 0..size, NEW n \in Nat,
         NEW count, count = CountOf(size, pos, n)
  PROVE  /\ count \in Nat
         /\ pos \div B \in Nat /\ (pos + count) \div B \in 0..(Total - 1)
         /\ (pos + count) \div B <= size \div B
         /\ pos \div B <= (pos + count) \div B
         /\ \A i \in 1..count : /\ pos + i - 1 \in 0..(size - 1)
                                /\ (pos + i - 1) \div B \in (pos \div B)..((pos + count) \div B)
<1>1. count \in Nat /\ pos + count <= size /\ pos \in Nat /\ pos + count \in Nat
  BY DEF CountOf
<1>2. pos \div B \in Nat /\ (pos + count) \div B \in Nat
  BY <1>1, BytePlace
<1>3. (pos + count) \div B <= size \div B
  <2>1. pos + count \in 0..size
    BY <1>1
  <2> QED
    BY <2>1, BlockGrows
<1>4. (pos + count) \div B \in 0..(Total - 1)
  <2>1. size \div B \in Nat
    BY BytePlace
  <2> DEFINE a == (pos + count) \div B
             b == size \div B
  <2>2. a \in Nat /\ a <= b /\ b \in Nat /\ b < Total
    BY <1>2, <1>3, <2>1 DEF Inside
  <2> HIDE DEF a, b
  <2>3. a \in 0..(Total - 1)
    BY <2>2, Constants
  <2> QED
    BY <2>3 DEF a
<1>5. pos \div B <= (pos + count) \div B
  <2>1. pos \in 0..(pos + count)
    BY <1>1
  <2> QED
    BY <1>1, <2>1, BlockGrows
<1>6. ASSUME NEW i \in 1..count
      PROVE  /\ pos + i - 1 \in 0..(size - 1)
             /\ (pos + i - 1) \div B \in (pos \div B)..((pos + count) \div B)
  <2> DEFINE k == pos + i - 1
  <2>1. k \in Nat /\ k \in 0..(size - 1) /\ pos \in 0..k /\ k \in 0..(pos + count)
    BY <1>1
  <2> HIDE DEF k
  <2>2. k \div B \in Nat /\ pos \div B <= k \div B /\ k \div B <= (pos + count) \div B
    BY <2>1, <1>1, BytePlace, BlockGrows
  <2> DEFINE a == pos \div B
             b == k \div B
             c == (pos + count) \div B
  <2>3. a \in Nat /\ b \in Nat /\ c \in Nat /\ a <= b /\ b <= c
    BY <2>2, <1>2
  <2> HIDE DEF a, b, c
  <2>4. b \in a..c
    BY <2>3
  <2> QED
    BY <2>1, <2>4 DEF a, b, c, k
<1> QED
  BY <1>1, <1>2, <1>3, <1>4, <1>5, <1>6

\* A read of a whole file returns its bytes.
LEMMA ReadIs ==
  ASSUME NEW f \in Files, NEW ino \in Inodes, Whole(f, ino, disk.sector),
         NEW pos \in 0..ino.size, NEW n \in Nat, NEW count, count = CountOf(ino.size, pos, n)
  PROVE  FileRead(ino, pos, n) = [i \in 1..count |-> <<f, pos + i - 1>>]
<1> DEFINE first == pos \div B
           last == (pos + count) \div B
           all == LoadBlocks(ino, first, last)
           byte(k) == IF all[k \div B] = None THEN Junk
                      ELSE disk.sector[all[k \div B]].data[k % B]
           size == ino.size
           halt == last >= Total \/ (first < last /\ last >= Direct /\ ino.block[Direct] = 0)
<1>1. size \in Nat /\ Complete(ino) /\ Inside(size) /\ Contents(f, ino, disk.sector)
      /\ (size > 0 => \A i \in 0..(size \div B) : NumberIn(disk.sector, ino, PlaceOf(i)) \in Blocks)
  BY InodeFields DEF Whole, Complete
<1>2. /\ count \in Nat /\ first \in Nat /\ last \in 0..(Total - 1) /\ last <= size \div B
      /\ first <= last
      /\ \A i \in 1..count : pos + i - 1 \in 0..(size - 1) /\ (pos + i - 1) \div B \in first..last
  <2>1. count = CountOf(size, pos, n) /\ pos \in 0..size
    OBVIOUS
  <2> HIDE DEF size
  <2> QED
    BY <1>1, <2>1, CountIs
<1>3. FileRead(ino, pos, n) = IF halt THEN <<"stop">> ELSE [i \in 1..count |-> byte(pos + i - 1)]
  BY DEF FileRead, CountOf
<1>4. ~halt
  <2>1. size \div B >= Direct => ino.block[Direct] # 0
    BY <1>1, PlacesTaken
  <2>2. size \div B \in Nat
    BY <1>1, BytePlace
  <2> DEFINE top == size \div B
  <2>3. top \in Nat /\ (top >= Direct => ino.block[Direct] # 0) /\ last <= top
    BY <1>2, <2>1, <2>2
  <2> HIDE DEF top, last, first
  <2> QED
    BY <1>2, <2>3, Constants
<1> HIDE DEF halt
<1>5. ASSUME NEW i \in 1..count PROVE byte(pos + i - 1) = <<f, pos + i - 1>>
  <2> DEFINE k == pos + i - 1
             j == k \div B
             num == NumberIn(disk.sector, ino, PlaceOf(j))
  <2>1. k \in 0..(size - 1) /\ j \in first..last
    BY <1>2
  <2>2. disk.sector[num].data[k % B] = <<f, k>>
    BY <1>1, <2>1 DEF Contents
  <2> HIDE DEF k, first, last
  <2>3. all[j] = num
    BY <1>2, <2>1, LoadBlocksIs
  <2>4. j \in 0..(size \div B) /\ size > 0
    <3>1. size \div B \in Nat
      BY <1>1, BytePlace
    <3> DEFINE top == size \div B
    <3>2. top \in Nat /\ last <= top
      BY <1>2, <3>1
    <3> HIDE DEF top, j
    <3>3. j \in 0..top
      BY <1>2, <2>1, <3>2
    <3>4. size > 0
      BY <1>1, <2>1
    <3> QED
      BY <3>3, <3>4 DEF top
  <2>5. num \in Blocks
    BY <1>1, <2>4
  <2>6. num # None
    BY <2>5, SomeBlocks
  <2>7. byte(k) = disk.sector[num].data[k % B]
    <3> HIDE DEF num, all
    <3> QED
      BY <2>3, <2>6 DEF j
  <2> HIDE DEF byte
  <2> QED
    BY <2>2, <2>7 DEF k
<1> HIDE DEF byte
<1>6. [i \in 1..count |-> byte(pos + i - 1)] = [i \in 1..count |-> <<f, pos + i - 1>>]
  BY <1>5
<1> QED
  BY <1>3, <1>4, <1>6

\* A fileRead of any file, at any place, returns what the writes have put there.
THEOREM FileReadsBack == Spec => []ReadsBack
<1>1. FileInv => ReadsBack
  <2>1. SUFFICES ASSUME FileInv, ~torn, NEW f \in Live, NEW pos \in 0..(Total * B - 1),
                        NEW n \in 1..(Total * B), pos < len[f]
                 PROVE  FileRead(Current(f), pos, n) =
                          [i \in 1..((IF pos + n > len[f] THEN len[f] ELSE pos + n) - pos) |->
                             <<f, pos + i - 1>>]
    BY DEF ReadsBack
  <2> DEFINE count == CountOf(len[f], pos, n)
             end == IF pos + n > len[f] THEN len[f] ELSE pos + n
  <2>2. FilesTyped /\ Held(Live, Cur, len, disk.sector)
    BY <2>1 DEF FileInv, Sound
  <2>3. f \in Files /\ Cur[f] = Current(f) /\ Cur[f] \in Inodes
    BY <2>2, CurTyped DEF Cur
  <2>4. Current(f).size = len[f] /\ Whole(f, Current(f), disk.sector) /\ len[f] \in Nat
    BY <2>2, <2>3 DEF Held, FilesTyped
  <2>5. pos \in 0..len[f] /\ n \in Nat /\ pos \in Nat
    BY <2>1, <2>4, Constants
  <2>6. end - pos = count
    BY <2>4, <2>5 DEF CountOf
  <2>7. FileRead(Current(f), pos, n) = [i \in 1..count |-> <<f, pos + i - 1>>]
    <3>1. Current(f) \in Inodes /\ pos \in 0..Current(f).size /\ count = CountOf(Current(f).size, pos, n)
      BY <2>3, <2>4, <2>5
    <3> HIDE DEF count
    <3> QED
      BY <2>3, <2>4, <2>5, <3>1, ReadIs
  <2> HIDE DEF count
  <2> QED
    BY <2>6, <2>7
<1> QED
  BY <1>1, FileInvariant, PTL

=============================================================================
