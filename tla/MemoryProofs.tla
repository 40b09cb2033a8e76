---------------------------- MODULE MemoryProofs ----------------------------
(***************************************************************************)
(* The page allocator, the address spaces and the heaps, for any number of *)
(* frames, pages and processes.                                            *)
(***************************************************************************)
EXTENDS Memory, FiniteSetTheorems, FunctionTheorems, WellFoundedInduction, TLAPS

-----------------------------------------------------------------------------
(* Induction, and what it says of a loop                                   *)

\* A set of naturals has a least element.
LEMMA Smallest ==
  ASSUME NEW T, T \subseteq Nat, T # {}
  PROVE  \E x \in T : \A y \in T : x <= y
<1>1. IsWellFoundedOn(OpToRel(<, Nat), Nat)
  BY NatLessThanWellFounded
<1>2. PICK x \in T : \A y \in T : ~ (<<y, x>> \in OpToRel(<, Nat))
  BY <1>1, WFMin
<1>3. \A y \in T : ~(y < x)
  BY <1>2 DEF OpToRel
<1>4. x \in Nat /\ \A y \in T : y \in Nat
  OBVIOUS
<1>5. \A y \in T : x <= y
  BY <1>3, <1>4
<1> QED
  BY <1>5

\* A set with 0 that goes on from each i below n to i + 1 has all of 0..n.
LEMMA Induction ==
  ASSUME NEW S, NEW n \in Nat, 0 \in S, \A i \in 0..(n - 1) : i \in S => i + 1 \in S
  PROVE  \A i \in 0..n : i \in S
<1> DEFINE rest == (0..n) \ S
<1>1. SUFFICES ASSUME rest # {} PROVE FALSE
  OBVIOUS
<1>2. rest \subseteq Nat
  OBVIOUS
<1>3. PICK x \in rest : \A y \in rest : x <= y
  <2> HIDE DEF rest
  <2> QED
    BY <1>1, <1>2, Smallest
<1>4. x \in Nat /\ x # 0 /\ x <= n /\ x \notin S
  BY <1>3
<1>5. x - 1 \in 0..(n - 1) /\ ~(x <= x - 1)
  BY <1>4
<1>6. x - 1 \in S
  BY <1>3, <1>5
<1> QED
  BY <1>4, <1>5, <1>6

\* The first m rounds of a loop.
Rounds(f, m, S, base, step) ==
  /\ f \in [0..m -> S]
  /\ f[0] = base
  /\ \A i \in 1..m : f[i] = step[<<f[i - 1], i>>]

\* A loop of n rounds has a result for each round.
LEMMA LoopExists ==
  ASSUME NEW S, NEW base \in S, NEW n \in Nat, NEW step \in [S \X (1..n) -> S]
  PROVE  \E f : Rounds(f, n, S, base, step)
<1> DEFINE Good == {m \in 0..n : \E f : Rounds(f, m, S, base, step)}
<1>1. 0 \in Good
  <2>1. Rounds([i \in 0..0 |-> base], 0, S, base, step)
    BY DEF Rounds
  <2> QED
    BY <2>1
<1>2. ASSUME NEW m \in 0..(n - 1), m \in Good PROVE m + 1 \in Good
  <2>1. PICK f : Rounds(f, m, S, base, step)
    BY <1>2
  <2> DEFINE g == [i \in 0..(m + 1) |-> IF i = m + 1 THEN step[<<f[m], m + 1>>] ELSE f[i]]
  <2>2. f[m] \in S /\ m + 1 \in 1..n /\ m \in Nat
    BY <2>1 DEF Rounds
  <2>3. step[<<f[m], m + 1>>] \in S
    BY <2>2
  <2>4. g \in [0..(m + 1) -> S]
    BY <2>1, <2>2, <2>3 DEF Rounds
  <2>5. g[0] = base
    BY <2>1, <2>2 DEF Rounds
  <2>6. ASSUME NEW i \in 1..(m + 1) PROVE g[i] = step[<<g[i - 1], i>>]
    <3>1. CASE i = m + 1
      <4>1. g[i] = step[<<f[m], m + 1>>] /\ g[i - 1] = f[m]
        BY <3>1, <2>2
      <4> QED
        BY <4>1, <3>1
    <3>2. CASE i # m + 1
      <4>1. i \in 1..m /\ i - 1 \in 0..m
        BY <3>2, <2>2
      <4>2. g[i] = f[i] /\ g[i - 1] = f[i - 1]
        BY <4>1, <2>2
      <4>3. f[i] = step[<<f[i - 1], i>>]
        BY <4>1, <2>1 DEF Rounds
      <4> QED
        BY <4>2, <4>3
    <3> QED
      BY <3>1, <3>2
  <2>7. Rounds(g, m + 1, S, base, step)
    <3> HIDE DEF g
    <3> QED
      BY <2>4, <2>5, <2>6 DEF Rounds
  <2>8. m + 1 \in 0..n
    BY <2>2
  <2> QED
    BY <2>7, <2>8
<1>3. n \in Good
  <2> HIDE DEF Good
  <2> QED
    BY <1>1, <1>2, Induction
<1> QED
  BY <1>3

\* Without, as a loop.
LEMMA WithoutRounds ==
  ASSUME NEW E, NEW list \in Seq(E), NEW v
  PROVE  \E rest :
           /\ rest[0] = <<>>
           /\ \A i \in 1..Len(list) :
                rest[i] = IF list[i][1] = v THEN rest[i - 1] ELSE Append(rest[i - 1], list[i])
           /\ Without(list, v) = rest[Len(list)]
<1> DEFINE n == Len(list)
           S == Seq(E)
           step == [x \in S \X (1..n) |->
                      IF list[x[2]][1] = v THEN x[1] ELSE Append(x[1], list[x[2]])]
           Loop(f) == f = [i \in 0..n |-> IF i = 0 THEN <<>>
                                  ELSE IF list[i][1] = v THEN f[i - 1]
                                  ELSE Append(f[i - 1], list[i])]
<1>1. n \in Nat /\ <<>> \in S /\ step \in [S \X (1..n) -> S]
  OBVIOUS
<1>2. PICK f : Rounds(f, n, S, <<>>, step)
  BY <1>1, LoopExists
<1>3. ASSUME NEW i \in 1..n
      PROVE  f[i] = IF list[i][1] = v THEN f[i - 1] ELSE Append(f[i - 1], list[i])
  <2>1. f[i - 1] \in S
    <3> HIDE DEF S, step
    <3>1. i - 1 \in 0..n
      BY <1>1
    <3> QED
      BY <1>2, <3>1 DEF Rounds
  <2>2. <<f[i - 1], i>> \in S \X (1..n)
    BY <2>1
  <2>3. f[i] = step[<<f[i - 1], i>>]
    BY <1>2 DEF Rounds
  <2> QED
    BY <2>2, <2>3
<1>4. Loop(f)
  <2> HIDE DEF S, step, n
  <2>1. f \in [0..n -> S] /\ f[0] = <<>>
    BY <1>2 DEF Rounds
  <2>2. \A i \in 0..n : i # 0 => i \in 1..n
    BY <1>1
  <2> QED
    BY <2>1, <2>2, <1>3
<1> DEFINE rest == CHOOSE g : Loop(g)
<1>5. Loop(rest)
  BY <1>4
<1>6. Without(list, v) = rest[n]
  BY DEF Without
<1>7. ASSUME NEW i \in 0..n
      PROVE  rest[i] = IF i = 0 THEN <<>>
                       ELSE IF list[i][1] = v THEN rest[i - 1]
                       ELSE Append(rest[i - 1], list[i])
  <2> HIDE DEF rest
  <2> QED
    BY <1>5
<1>8. rest[0] = <<>>
  BY <1>1, <1>7
<1>9. ASSUME NEW i \in 1..n
      PROVE  rest[i] = IF list[i][1] = v THEN rest[i - 1] ELSE Append(rest[i - 1], list[i])
  <2>1. i \in 0..n /\ i # 0
    BY <1>1
  <2> HIDE DEF rest
  <2> QED
    BY <1>7, <2>1
<1> HIDE DEF rest
<1> QED
  BY <1>6, <1>8, <1>9

-----------------------------------------------------------------------------
(* The inductive invariant                                                 *)

ProcPages == 0..(NPages - 1)
PageNumbers == KernelFrames \cup ProcPages

\* Each frame in use, but for those that are gone, is in one page or one table.
Owned(used, pte, tables, gone) ==
  /\ gone \subseteq used
  /\ \A s \in Spaces, v \in PageNumbers : pte[s][v] # None => pte[s][v] \in used \ gone
  /\ \A p \in Procs, i \in Tables : tables[p][i] # None => tables[p][i] \in used \ gone
  /\ \A s, t \in Spaces, v, w \in PageNumbers :
       pte[s][v] # None /\ pte[s][v] = pte[t][w] => s = t /\ v = w
  /\ \A p, q \in Procs, i, j \in Tables :
       tables[p][i] # None /\ tables[p][i] = tables[q][j] => p = q /\ i = j
  /\ \A s \in Spaces, v \in PageNumbers, p \in Procs, i \in Tables :
       pte[s][v] # None => pte[s][v] # tables[p][i]
  /\ \A f \in used \ gone : \/ \E s \in Spaces, v \in PageNumbers : pte[s][v] = f
                            \/ \E p \in Procs, i \in Tables : tables[p][i] = f

\* The bits of an address space are its pages; lk is the lock.
BitsExact(m, s, lk) ==
  /\ m.vmap[s] \subseteq Pages(s)
  /\ \A v \in PageNumbers : m.pte[s][v] # None => v \in Pages(s)
  /\ \/ m.vmap[s] = Mapped(m, s)
     \/ lk # None /\ m.vmap[s] \ {ProgPage} = Mapped(m, s)

\* The pages of the kernel a process has, and a process without has none of its own.
ProcessPages ==
  /\ life \in [Procs -> {"none", "alive", "zombie", "stuck"}]
  /\ pcb \in [Procs -> KernelFrames \cup {None}]
  /\ dir \in [Procs -> KernelFrames \cup {None}]
  /\ vapMap \in [Procs -> KernelFrames \cup {None}]
  /\ \A p \in Procs : life[p] # "none" => pcb[p] # None /\ dir[p] # None
  /\ \A p \in Procs : life[p] \in {"alive", "stuck"} => vapMap[p] # None
  /\ \A p \in Procs, v \in PageNumbers : life[p] \in {"none", "zombie"} => mem.pte[p][v] = None

Headers == [kind: {"none", "small", "large"}, size: Classes \cup {None}, cnt: Nat]

\* The blocks of an arena a with blocks of class c that are not in h.
NotHeld(v, c, h) == {k \in 1..BlocksPerArena[c] : <<v, k>> \notin h}

\* The heap of a process: a are its headers, fl its free lists, h the blocks
\* it holds and pte its page table entries.
SmallArenas(a, fl, h, pte) ==
  \A v \in ProcPages : a[v].kind = "small" =>
    /\ a[v].size \in Classes
    /\ pte[v] # None
    /\ a[v].cnt = Cardinality(NotHeld(v, a[v].size, h))
    /\ \A k \in NotHeld(v, a[v].size, h) : <<v, k>> \in Range(fl[a[v].size])

\* An arena has a block given out, but for a new one.
SomeHeld(a, new) ==
  \A v \in ProcPages : a[v].kind = "small" /\ v # new => a[v].cnt < BlocksPerArena[a[v].size]

LargeArenas(a, h, pte) ==
  \A v \in ProcPages : a[v].kind = "large" =>
    /\ a[v].cnt > 0
    /\ <<v, -1>> \in h
    /\ \A w \in v..(v + a[v].cnt - 1) : /\ w \in ProcPages
                                        /\ pte[w] # None
                                        /\ w # v => a[w].kind = "none"

HeldSound(a, h) ==
  \A x \in h : \/ a[x[1]].kind = "large" /\ x[2] = -1
               \/ a[x[1]].kind = "small" /\ x[2] \in 1..BlocksPerArena[a[x[1]].size]

ListsSound(a, fl, h) ==
  \A c \in Classes :
    /\ IsInjective(fl[c])
    /\ \A x \in Range(fl[c]) : /\ a[x[1]].kind = "small" /\ a[x[1]].size = c
                               /\ x[2] \in 1..BlocksPerArena[c]
                               /\ x \notin h

HeapTyped(a, fl, h) ==
  /\ a \in [ProcPages -> Headers]
  /\ fl \in [Classes -> Seq(ProcPages \X Nat)]
  /\ h \subseteq ProcPages \X Int

HeapSound(a, fl, h, pte, new) ==
  /\ HeapTyped(a, fl, h)
  /\ SmallArenas(a, fl, h, pte)
  /\ SomeHeld(a, new)
  /\ LargeArenas(a, h, pte)
  /\ HeldSound(a, h)
  /\ ListsSound(a, fl, h)

Heaps == /\ arena \in [Procs -> [ProcPages -> Headers]]
         /\ freeList \in [Procs -> [Classes -> Seq(ProcPages \X Nat)]]
         /\ held \in [Procs -> SUBSET (ProcPages \X Int)]
         /\ \A p \in Procs : HeapSound(arena[p], freeList[p], held[p], mem.pte[p], None)

OwnedIn(m, gone) == Owned(m.used, m.pte, m.tables, gone)

\* The page allocator as it should be.
Sound(m, gone, lk) ==
  /\ m \in Mems
  /\ OwnedIn(m, gone)
  /\ \A s \in Spaces : BitsExact(m, s, lk)

MemoryInv ==
  ~mem.stopped => /\ Sound(mem, lost, lock)
                  /\ ProcessPages
                  /\ Heaps

-----------------------------------------------------------------------------
(* Frames and their owners                                                 *)

EntriesTyped(pte, tables) ==
  /\ pte \in [Spaces -> [PageNumbers -> Frames \cup {None}]]
  /\ tables \in [Procs -> [Tables -> Frames \cup {None}]]

\* None is no frame; frames are naturals.
LEMMA NoneNotFrame == None \notin Frames /\ Frames \subseteq Nat /\ None \notin Nat
BY MemoryAssumption DEF None, Frames, KernelFrames, UserFrames

\* A page without a frame gets a free one.
LEMMA OwnedPage ==
  ASSUME NEW used, NEW pte, NEW tables, NEW gone,
         Owned(used, pte, tables, gone), EntriesTyped(pte, tables),
         NEW s \in Spaces, NEW v \in PageNumbers, pte[s][v] = None,
         used \subseteq Frames, NEW f \in Frames, f \notin used
  PROVE  Owned(used \cup {f}, [pte EXCEPT ![s][v] = f], tables, gone)
<1> DEFINE new == [pte EXCEPT ![s][v] = f]
<1>0. f # None
  BY NoneNotFrame
<1>1. \A t \in Spaces, w \in PageNumbers : new[t][w] = IF t = s /\ w = v THEN f ELSE pte[t][w]
  BY DEF EntriesTyped
<1> HIDE DEF new
<1>2. gone \subseteq used \cup {f} /\ f \notin gone
  BY DEF Owned
<1>3. \A t \in Spaces, w \in PageNumbers : pte[t][w] # f \/ pte[t][w] = None
  BY DEF Owned
<1>4. \A p \in Procs, i \in Tables : tables[p][i] # f \/ tables[p][i] = None
  BY DEF Owned
<1>5. \A t \in Spaces, w \in PageNumbers :
        new[t][w] # None => new[t][w] \in (used \cup {f}) \ gone
  BY <1>1, <1>2 DEF Owned
<1>6. \A p \in Procs, i \in Tables :
        tables[p][i] # None => tables[p][i] \in (used \cup {f}) \ gone
  BY <1>2 DEF Owned
<1>7. \A t, u \in Spaces, w, x \in PageNumbers :
        new[t][w] # None /\ new[t][w] = new[u][x] => t = u /\ w = x
  BY <1>1, <1>3 DEF Owned
<1>8. \A t \in Spaces, w \in PageNumbers, p \in Procs, i \in Tables :
        new[t][w] # None => new[t][w] # tables[p][i]
  BY <1>1, <1>4 DEF Owned
<1>9. ASSUME NEW g \in (used \cup {f}) \ gone
      PROVE  \/ \E t \in Spaces, w \in PageNumbers : new[t][w] = g
             \/ \E p \in Procs, i \in Tables : tables[p][i] = g
  <2>1. CASE g = f
    BY <2>1, <1>1
  <2>2. CASE g \in used \ gone /\ \E p \in Procs, i \in Tables : tables[p][i] = g
    BY <2>2
  <2>3. CASE g \in used \ gone /\ \E t \in Spaces, w \in PageNumbers : pte[t][w] = g /\ g # None
    BY <2>3, <1>1
  <2> QED
    BY <2>1, <2>2, <2>3, NoneNotFrame DEF Owned
<1> QED
  BY <1>2, <1>5, <1>6, <1>7, <1>8, <1>9 DEF Owned, new

\* A page table gets a free frame.
LEMMA OwnedTable ==
  ASSUME NEW used, NEW pte, NEW tables, NEW gone,
         Owned(used, pte, tables, gone), EntriesTyped(pte, tables),
         NEW p \in Procs, NEW i \in Tables, tables[p][i] = None,
         used \subseteq Frames, NEW k \in Frames, k \notin used
  PROVE  Owned(used \cup {k}, pte, [tables EXCEPT ![p][i] = k], gone)
<1> DEFINE new == [tables EXCEPT ![p][i] = k]
<1>0. k # None
  BY NoneNotFrame
<1>1. \A q \in Procs, j \in Tables : new[q][j] = IF q = p /\ j = i THEN k ELSE tables[q][j]
  BY DEF EntriesTyped
<1> HIDE DEF new
<1>2. gone \subseteq used \cup {k} /\ k \notin gone
  BY DEF Owned
<1>3. \A t \in Spaces, w \in PageNumbers : pte[t][w] # k \/ pte[t][w] = None
  BY DEF Owned
<1>4. \A q \in Procs, j \in Tables : tables[q][j] # k \/ tables[q][j] = None
  BY DEF Owned
<1>5. \A t \in Spaces, w \in PageNumbers :
        pte[t][w] # None => pte[t][w] \in (used \cup {k}) \ gone
  BY <1>2 DEF Owned
<1>6. \A q \in Procs, j \in Tables :
        new[q][j] # None => new[q][j] \in (used \cup {k}) \ gone
  BY <1>1, <1>2 DEF Owned
<1>7. \A q, r \in Procs, j, l \in Tables :
        new[q][j] # None /\ new[q][j] = new[r][l] => q = r /\ j = l
  BY <1>1, <1>4 DEF Owned
<1>8. \A t \in Spaces, w \in PageNumbers, q \in Procs, j \in Tables :
        pte[t][w] # None => pte[t][w] # new[q][j]
  BY <1>1, <1>3 DEF Owned
<1>9. ASSUME NEW g \in (used \cup {k}) \ gone
      PROVE  \/ \E t \in Spaces, w \in PageNumbers : pte[t][w] = g
             \/ \E q \in Procs, j \in Tables : new[q][j] = g
  <2>1. CASE g = k
    BY <2>1, <1>1
  <2>2. CASE g \in used \ gone /\ \E t \in Spaces, w \in PageNumbers : pte[t][w] = g
    BY <2>2
  <2>3. CASE g \in used \ gone /\ \E q \in Procs, j \in Tables : tables[q][j] = g /\ g # None
    BY <2>3, <1>1
  <2> QED
    BY <2>1, <2>2, <2>3, NoneNotFrame DEF Owned
<1> QED
  BY <1>2, <1>5, <1>6, <1>7, <1>8, <1>9 DEF Owned, new

\* The frames of some pages of s become free with the pages.
LEMMA OwnedUnmap ==
  ASSUME NEW used, NEW pte, NEW tables, NEW gone,
         Owned(used, pte, tables, gone), EntriesTyped(pte, tables), used \subseteq Frames,
         NEW s \in Spaces, NEW pages, pages \subseteq PageNumbers
  PROVE  Owned(used \ {pte[s][v] : v \in pages},
               [pte EXCEPT ![s] = [v \in DOMAIN @ |-> IF v \in pages THEN None ELSE @[v]]],
               tables, gone)
<1> DEFINE new == [pte EXCEPT ![s] = [v \in DOMAIN @ |-> IF v \in pages THEN None ELSE @[v]]]
           left == used \ {pte[s][v] : v \in pages}
<1>1. \A t \in Spaces, w \in PageNumbers :
        new[t][w] = IF t = s /\ w \in pages THEN None ELSE pte[t][w]
  BY DEF EntriesTyped
<1>2. \A f : f \in left <=> f \in used /\ \A v \in pages : pte[s][v] # f
  OBVIOUS
<1> HIDE DEF new, left
<1>3. gone \subseteq left
  BY <1>2, NoneNotFrame DEF Owned
<1>4. \A t \in Spaces, w \in PageNumbers : new[t][w] # None => new[t][w] \in left \ gone
  BY <1>1, <1>2 DEF Owned
<1>5. \A p \in Procs, i \in Tables : tables[p][i] # None => tables[p][i] \in left \ gone
  BY <1>2 DEF Owned
<1>6. \A t, u \in Spaces, w, x \in PageNumbers :
        new[t][w] # None /\ new[t][w] = new[u][x] => t = u /\ w = x
  BY <1>1 DEF Owned
<1>7. \A t \in Spaces, w \in PageNumbers, p \in Procs, i \in Tables :
        new[t][w] # None => new[t][w] # tables[p][i]
  BY <1>1 DEF Owned
<1>8. ASSUME NEW g \in left \ gone
      PROVE  \/ \E t \in Spaces, w \in PageNumbers : new[t][w] = g
             \/ \E p \in Procs, i \in Tables : tables[p][i] = g
  BY <1>1, <1>2 DEF Owned
<1> QED
  BY <1>3, <1>4, <1>5, <1>6, <1>7, <1>8 DEF Owned, new, left

\* What exit does: the frames of the tables become free, those of the pages are gone.
FramesAfter(used, tables, p) == used \ {tables[p][i] : i \in Tables}
PagesAfter(pte, p) == [pte EXCEPT ![p] = [v \in DOMAIN @ |-> None]]
TablesAfter(tables, p) == [tables EXCEPT ![p] = [i \in Tables |-> None]]
LostAfter(gone, pte, p) == gone \cup {pte[p][v] : v \in {w \in PageNumbers : pte[p][w] # None}}

\* exit keeps the owners: no frame of a page or a table that stays is touched.
LEMMA OwnedExit ==
  ASSUME NEW used, NEW pte, NEW tables, NEW gone,
         Owned(used, pte, tables, gone), EntriesTyped(pte, tables), used \subseteq Frames,
         NEW p \in Procs
  PROVE  Owned(FramesAfter(used, tables, p), PagesAfter(pte, p), TablesAfter(tables, p),
               LostAfter(gone, pte, p))
<1> DEFINE newPte == PagesAfter(pte, p)
           newTables == TablesAfter(tables, p)
           left == FramesAfter(used, tables, p)
           more == LostAfter(gone, pte, p)
<1>0. p \in Spaces
  BY DEF Spaces
<1>1. \A t \in Spaces, w \in PageNumbers : newPte[t][w] = IF t = p THEN None ELSE pte[t][w]
  BY <1>0 DEF EntriesTyped, PagesAfter
<1>2. \A q \in Procs, i \in Tables : newTables[q][i] = IF q = p THEN None ELSE tables[q][i]
  BY DEF EntriesTyped, TablesAfter
<1>3. \A f : f \in left <=> f \in used /\ \A i \in Tables : tables[p][i] # f
  BY DEF FramesAfter
<1>4. \A f : f \in more <=> f \in gone \/ \E v \in PageNumbers : pte[p][v] # None /\ pte[p][v] = f
  BY DEF LostAfter
<1> HIDE DEF newPte, newTables, left, more
<1>5. ASSUME NEW f \in more PROVE f \in left
  <2>1. CASE f \in gone
    <3>1. f \in used /\ f # None
      BY <2>1, NoneNotFrame DEF Owned
    <3>2. \A i \in Tables : tables[p][i] # f
      BY <2>1, <3>1 DEF Owned
    <3> QED
      BY <1>3, <3>1, <3>2
  <2>2. ASSUME NEW v \in PageNumbers, pte[p][v] # None, pte[p][v] = f PROVE f \in left
    <3>1. f \in used
      BY <1>0, <2>2 DEF Owned
    <3>2. \A i \in Tables : tables[p][i] # f
      BY <1>0, <2>2 DEF Owned
    <3> QED
      BY <1>3, <3>1, <3>2
  <2> QED
    BY <1>4, <2>1, <2>2
<1>6. \A t \in Spaces, w \in PageNumbers : newPte[t][w] # None => newPte[t][w] \in left \ more
  BY <1>0, <1>1, <1>3, <1>4 DEF Owned
<1>7. \A q \in Procs, i \in Tables : newTables[q][i] # None => newTables[q][i] \in left \ more
  BY <1>0, <1>2, <1>3, <1>4 DEF Owned
<1>8. \A t, u \in Spaces, w, x \in PageNumbers :
        newPte[t][w] # None /\ newPte[t][w] = newPte[u][x] => t = u /\ w = x
  BY <1>1 DEF Owned
<1>9. \A q, r \in Procs, j, l \in Tables :
        newTables[q][j] # None /\ newTables[q][j] = newTables[r][l] => q = r /\ j = l
  BY <1>2 DEF Owned
<1>10. \A t \in Spaces, w \in PageNumbers, q \in Procs, i \in Tables :
         newPte[t][w] # None => newPte[t][w] # newTables[q][i]
  BY <1>1, <1>2 DEF Owned
<1>11. ASSUME NEW g \in left \ more
       PROVE  \/ \E t \in Spaces, w \in PageNumbers : newPte[t][w] = g
              \/ \E q \in Procs, i \in Tables : newTables[q][i] = g
  <2>1. g # None
    BY <1>3, NoneNotFrame
  <2> QED
    BY <2>1, <1>1, <1>2, <1>3, <1>4 DEF Owned
<1> QED
  BY <1>5, <1>6, <1>7, <1>8, <1>9, <1>10, <1>11 DEF Owned, newPte, newTables, left, more

-----------------------------------------------------------------------------
(* The page allocator                                                      *)

\* What the assumptions on the constants say of spaces, pages and frames.
LEMMA Constants ==
  /\ NPages \in Nat \ {0} /\ KFrames \in Nat /\ KFrames >= 4 /\ UFrames \in Nat \ {0}
  /\ InitProc \in Procs /\ Kernel \notin Procs /\ Procs \subseteq Spaces /\ Kernel \in Spaces
  /\ ProcPages \subseteq Nat /\ PageNumbers \subseteq Nat /\ KernelFrames \subseteq PageNumbers
  /\ ProcPages \subseteq PageNumbers /\ KernelFrames \subseteq Frames
  /\ ProgPage \in ProcPages /\ StackPage \in ProcPages
  /\ None \notin KernelFrames
BY MemoryAssumption DEF ProcPages, PageNumbers, KernelFrames, Frames, Spaces, StackPage, None

\* The pages of an address space and the pool its frames come from.
LEMMA SpacePages ==
  ASSUME NEW s \in Spaces
  PROVE  /\ Pages(s) \subseteq PageNumbers /\ Pages(s) \subseteq Nat
         /\ s = Kernel => Pages(s) = KernelFrames
         /\ s # Kernel => s \in Procs /\ Pages(s) = ProcPages
         /\ Pool(s) \subseteq Frames
BY Constants DEF Pages, Pool, Spaces, Frames, PageNumbers, ProcPages

\* A page of a process has an entry in one of its page tables.
LEMMA TableOfPage ==
  ASSUME NEW v \in ProcPages
  PROVE  Table(v) \in Tables
<1>1. /\ v \in Nat /\ NPages - 1 \in Nat /\ v <= NPages - 1 /\ TablePages \in Nat \ {0}
  BY MemoryAssumption DEF ProcPages
<1>2. (v \div TablePages) \in Nat /\ ((NPages - 1) \div TablePages) \in Nat
  BY <1>1
<1>3. (v \div TablePages) <= ((NPages - 1) \div TablePages)
  BY <1>1
<1> QED
  BY <1>2, <1>3 DEF Table, Tables, StackPage

\* The types of the fields of a memory.
LEMMA MemFields ==
  ASSUME NEW m \in Mems
  PROVE  /\ EntriesTyped(m.pte, m.tables)
         /\ m.used \subseteq Frames
         /\ m.vmap \in [Spaces -> SUBSET PageNumbers]
         /\ m.stopped \in BOOLEAN
BY DEF Mems, EntriesTyped, PageNumbers, ProcPages

\* A memory is a record of five fields, which are its own.
MemOf(used, vmap, pte, tables, stopped) ==
  [used |-> used, vmap |-> vmap, pte |-> pte, tables |-> tables, stopped |-> stopped]

\* A memory is made of its own fields.
LEMMA MemRecord ==
  ASSUME NEW m \in Mems
  PROVE  m = MemOf(m.used, m.vmap, m.pte, m.tables, m.stopped)
BY DEF Mems, MemOf

\* The fields of a record made by MemOf.
LEMMA MemOfFields ==
  ASSUME NEW n, NEW a, NEW b, NEW c, NEW d, NEW e, n = MemOf(a, b, c, d, e)
  PROVE  n.used = a /\ n.vmap = b /\ n.pte = c /\ n.tables = d /\ n.stopped = e
BY DEF MemOf

\* Fields of the right types make a memory.
LEMMA MakeMem ==
  ASSUME NEW used \in SUBSET Frames, NEW pte, NEW tables, EntriesTyped(pte, tables),
         NEW vmap \in [Spaces -> SUBSET PageNumbers], NEW stopped \in BOOLEAN
  PROVE  MemOf(used, vmap, pte, tables, stopped) \in Mems
BY DEF Mems, EntriesTyped, PageNumbers, ProcPages, MemOf

\* A memory as a record with a name for each field.
LEMMA MemLiteral ==
  ASSUME NEW m \in Mems
  PROVE  \E a, b, c, d, e :
           /\ m = [used |-> a, vmap |-> b, pte |-> c, tables |-> d, stopped |-> e]
           /\ a = m.used /\ b = m.vmap /\ c = m.pte /\ d = m.tables /\ e = m.stopped
<1>1. m = [used |-> m.used, vmap |-> m.vmap, pte |-> m.pte, tables |-> m.tables,
           stopped |-> m.stopped]
  BY DEF Mems
<1> QED
  BY <1>1

\* What the updates of the model do to the fields.
LEMMA TakeUpdate ==
  ASSUME NEW m \in Mems, NEW f
  PROVE  [m EXCEPT !.used = @ \cup {f}]
         = MemOf(m.used \cup {f}, m.vmap, m.pte, m.tables, m.stopped)
<1> PICK a, b, c, d, e :
      /\ m = [used |-> a, vmap |-> b, pte |-> c, tables |-> d, stopped |-> e]
      /\ a = m.used /\ b = m.vmap /\ c = m.pte /\ d = m.tables /\ e = m.stopped
  BY MemLiteral
<1>1. [m EXCEPT !.used = @ \cup {f}] = MemOf(a \cup {f}, b, c, d, e)
  BY DEF MemOf
<1> QED
  BY <1>1

\* An entry of a page table gets a frame.
LEMMA PageUpdate ==
  ASSUME NEW m \in Mems, NEW f, NEW s, NEW v
  PROVE  [m EXCEPT !.pte[s][v] = f]
         = MemOf(m.used, m.vmap, [m.pte EXCEPT ![s][v] = f], m.tables, m.stopped)
<1> PICK a, b, c, d, e :
      /\ m = [used |-> a, vmap |-> b, pte |-> c, tables |-> d, stopped |-> e]
      /\ a = m.used /\ b = m.vmap /\ c = m.pte /\ d = m.tables /\ e = m.stopped
  BY MemLiteral
<1>1. [m EXCEPT !.pte[s][v] = f] = MemOf(a, b, [c EXCEPT ![s][v] = f], d, e)
  BY DEF MemOf
<1> QED
  BY <1>1

WithTable(m, s, i, k, v, f) ==
  [m EXCEPT !.used = @ \cup {k}, !.tables[s][i] = k, !.pte[s][v] = f]

\* A new table is taken, entered, and gets the entry of the page.
LEMMA TableUpdate ==
  ASSUME NEW m \in Mems, NEW f, NEW s, NEW v, NEW i, NEW k
  PROVE  WithTable(m, s, i, k, v, f)
         = MemOf(m.used \cup {k}, m.vmap, [m.pte EXCEPT ![s][v] = f],
                 [m.tables EXCEPT ![s][i] = k], m.stopped)
<1>0. PICK a, b, c, d, e :
      /\ m = [used |-> a, vmap |-> b, pte |-> c, tables |-> d, stopped |-> e]
      /\ a = m.used /\ b = m.vmap /\ c = m.pte /\ d = m.tables /\ e = m.stopped
  BY MemLiteral
<1> DEFINE m1 == [m EXCEPT !.used = @ \cup {k}]
           m2 == [m1 EXCEPT !.tables[s][i] = k]
           m3 == [m2 EXCEPT !.pte[s][v] = f]
<1>1. m3 = WithTable(m, s, i, k, v, f)
  BY <1>0 DEF WithTable
<1>2. m1 = [used |-> a \cup {k}, vmap |-> b, pte |-> c, tables |-> d, stopped |-> e]
  BY <1>0
<1>3. m2 = [used |-> a \cup {k}, vmap |-> b, pte |-> c, tables |-> [d EXCEPT ![s][i] = k],
            stopped |-> e]
  <2> HIDE DEF m1
  <2> QED
    BY <1>2
<1>4. m3 = MemOf(a \cup {k}, b, [c EXCEPT ![s][v] = f], [d EXCEPT ![s][i] = k], e)
  <2> HIDE DEF m2
  <2> QED
    BY <1>3 DEF MemOf
<1> HIDE DEF m3
<1> QED
  BY <1>0, <1>1, <1>4

\* An address space gets other bits.
LEMMA BitsUpdate ==
  ASSUME NEW m \in Mems, NEW s, NEW x
  PROVE  [m EXCEPT !.vmap[s] = x]
         = MemOf(m.used, [m.vmap EXCEPT ![s] = x], m.pte, m.tables, m.stopped)
<1> PICK a, b, c, d, e :
      /\ m = [used |-> a, vmap |-> b, pte |-> c, tables |-> d, stopped |-> e]
      /\ a = m.used /\ b = m.vmap /\ c = m.pte /\ d = m.tables /\ e = m.stopped
  BY MemLiteral
<1>1. [m EXCEPT !.vmap[s] = x] = MemOf(a, [b EXCEPT ![s] = x], c, d, e)
  BY DEF MemOf
<1> QED
  BY <1>1

\* A kernel that stops changes nothing else.
LEMMA StopUpdate ==
  ASSUME NEW m \in Mems
  PROVE  Stop(m) = MemOf(m.used, m.vmap, m.pte, m.tables, TRUE)
<1>0. PICK a, b, c, d, e :
      /\ m = [used |-> a, vmap |-> b, pte |-> c, tables |-> d, stopped |-> e]
      /\ a = m.used /\ b = m.vmap /\ c = m.pte /\ d = m.tables /\ e = m.stopped
  BY MemLiteral
<1>1. \A y : [m EXCEPT !.stopped = y] = MemOf(a, b, c, d, y)
  BY <1>0 DEF MemOf
<1>2. Stop(m) = MemOf(a, b, c, d, TRUE)
  BY <1>1, Zenon DEF Stop
<1> QED
  BY <1>0, <1>2

\* Lowest picks an element, if there is one.
LEMMA LowestIs ==
  ASSUME NEW S, S \subseteq Nat
  PROVE  IF S = {} THEN Lowest(S) = None ELSE Lowest(S) \in S
<1>1. ASSUME S # {} PROVE Min(S) \in S
  <2>1. \E x \in S : \A y \in S : x <= y
    BY <1>1, Smallest
  <2> QED
    BY <2>1 DEF Min
<1> QED
  BY <1>1 DEF Lowest

\* FreeFrame finds a free frame of the pool, if there is one.
LEMMA FreeFrameIs ==
  ASSUME NEW m, NEW pool, pool \subseteq Frames
  PROVE  /\ FreeFrame(m, pool) = None => pool \subseteq m.used
         /\ FreeFrame(m, pool) # None => FreeFrame(m, pool) \in pool \ m.used
<1> DEFINE S == pool \ m.used
<1>1. S \subseteq Nat /\ None \notin S
  BY NoneNotFrame
<1>2. FreeFrame(m, pool) = Lowest(S)
  BY DEF FreeFrame
<1>3. IF S = {} THEN Lowest(S) = None ELSE Lowest(S) \in S
  <2> HIDE DEF S
  <2> QED
    BY <1>1, LowestIs
<1> QED
  BY <1>1, <1>2, <1>3

\* A page gets a frame, and maybe its table one more.
Took(m, s, v, r) ==
  /\ r.m \in Mems
  /\ r.ok \in BOOLEAN
  /\ ~r.ok => r.m = m
  /\ r.m.vmap = m.vmap
  /\ m.stopped => r.m.stopped
  /\ r.m.used \subseteq m.used \cup Pool(s) \cup KernelFrames
  /\ s = Kernel => r.m.tables = m.tables
  /\ r.ok /\ ~r.m.stopped =>
       /\ m.pte[s][v] = None
       /\ \E f \in Frames : r.m.pte = [m.pte EXCEPT ![s][v] = f]
  /\ \A gone : ~r.m.stopped /\ OwnedIn(m, gone) => OwnedIn(r.m, gone)

\* m1 is m with the frame f taken from the pool of s for its page v.
FrameTaken(m, m1, s, v, f) ==
  /\ m \in Mems /\ m1 \in Mems
  /\ f \in Pool(s) /\ f \in Frames /\ f \notin m.used
  /\ m1.used = m.used \cup {f}
  /\ m1.vmap = m.vmap /\ m1.pte = m.pte /\ m1.tables = m.tables /\ m1.stopped = m.stopped

\* mapPageTable when the page has its table.
LEMMA MapTabled ==
  ASSUME NEW m, NEW m1, NEW s \in Spaces, NEW v \in Pages(s), NEW f,
         FrameTaken(m, m1, s, v, f), m.pte[s][v] = None
  PROVE  Took(m, s, v, [ok |-> TRUE, m |-> [m1 EXCEPT !.pte[s][v] = f]])
<1> DEFINE n == [m1 EXCEPT !.pte[s][v] = f]
           r == [ok |-> TRUE, m |-> n]
           used == m1.used
           pte == [m1.pte EXCEPT ![s][v] = f]
<1>1. v \in PageNumbers /\ m \in Mems /\ m1 \in Mems /\ f \in Frames
  BY SpacePages DEF FrameTaken
<1>2. n = MemOf(m1.used, m1.vmap, pte, m1.tables, m1.stopped)
  BY <1>1, PageUpdate
<1>3. EntriesTyped(pte, m1.tables)
  BY MemFields, <1>1 DEF EntriesTyped
<1>4. n \in Mems
  <2> HIDE DEF n, pte
  <2> QED
    BY <1>1, <1>2, <1>3, MakeMem, MemFields
<1>5. \A gone : OwnedIn(m, gone) => Owned(m1.used, pte, m1.tables, gone)
  BY <1>1, MemFields, OwnedPage DEF OwnedIn, FrameTaken
<1>6. n.used = m1.used /\ n.pte = pte /\ n.tables = m1.tables /\ n.vmap = m1.vmap
      /\ n.stopped = m1.stopped
  <2> HIDE DEF n, pte
  <2> QED
    BY <1>2, MemOfFields
<1>7. r.ok = TRUE /\ r.m = n
  OBVIOUS
<1>8. \E g \in Frames : pte = [m.pte EXCEPT ![s][v] = g]
  BY <1>1 DEF FrameTaken
<1>9. /\ m1.used \subseteq m.used \cup Pool(s) \cup KernelFrames
      /\ m1.vmap = m.vmap /\ m1.stopped = m.stopped /\ m1.tables = m.tables
  BY DEF FrameTaken
<1> HIDE DEF n, r, pte
<1>10. Took(m, s, v, r)
  BY <1>4, <1>5, <1>6, <1>7, <1>8, <1>9 DEF Took, OwnedIn
<1> QED
  BY <1>10 DEF r, n

\* mapPageTable when the page gets its table.
LEMMA MapNewTable ==
  ASSUME NEW m, NEW m1, NEW s \in Procs, NEW v \in Pages(s), NEW f,
         FrameTaken(m, m1, s, v, f), m.pte[s][v] = None,
         NEW i \in Tables, m.tables[s][i] = None,
         NEW k \in KernelFrames, k \notin m1.used
  PROVE  Took(m, s, v, [ok |-> TRUE, m |-> WithTable(m1, s, i, k, v, f)])
<1> DEFINE n == WithTable(m1, s, i, k, v, f)
           r == [ok |-> TRUE, m |-> n]
           used == m1.used \cup {k}
           pte == [m1.pte EXCEPT ![s][v] = f]
           tables == [m1.tables EXCEPT ![s][i] = k]
<1>0. s \in Spaces /\ k \in Frames /\ s # Kernel
  BY Constants
<1>1. v \in PageNumbers /\ m \in Mems /\ m1 \in Mems /\ f \in Frames
  BY <1>0, SpacePages DEF FrameTaken
<1>2. n = MemOf(used, m1.vmap, pte, tables, m1.stopped)
  BY <1>1, TableUpdate
<1>t. EntriesTyped(m1.pte, tables)
  BY MemFields, <1>0, <1>1 DEF EntriesTyped
<1>3. EntriesTyped(pte, tables) /\ used \in SUBSET Frames
  BY MemFields, <1>t, <1>0, <1>1 DEF EntriesTyped
<1>4. n \in Mems
  <2> HIDE DEF n, used, pte, tables
  <2> QED
    BY <1>1, <1>2, <1>3, MakeMem, MemFields
<1>5. \A gone : OwnedIn(m, gone) => Owned(used, pte, tables, gone)
  <2> SUFFICES ASSUME NEW gone, OwnedIn(m, gone) PROVE Owned(used, pte, tables, gone)
    OBVIOUS
  <2>0. /\ Owned(m.used, m1.pte, m1.tables, gone) /\ m1.tables[s][i] = None
        /\ k \notin m.used /\ m.used \subseteq Frames
    BY MemFields DEF OwnedIn, FrameTaken
  <2>1. Owned(m.used \cup {k}, m1.pte, tables, gone)
    BY <2>0, <1>0, <1>1, MemFields, OwnedTable
  <2>2. (m.used \cup {k}) \cup {f} = used /\ m.used \cup {k} \subseteq Frames
        /\ f \notin m.used \cup {k} /\ m1.pte[s][v] = None
    BY <1>0, <2>0 DEF FrameTaken
  <2> HIDE DEF tables, used
  <2>3. Owned((m.used \cup {k}) \cup {f}, pte, tables, gone)
    BY <2>1, <2>2, <1>0, <1>1, <1>t, OwnedPage
  <2> QED
    BY <2>2, <2>3
<1>6. n.used = used /\ n.pte = pte /\ n.tables = tables /\ n.vmap = m1.vmap
      /\ n.stopped = m1.stopped
  <2> HIDE DEF n, used, pte, tables
  <2> QED
    BY <1>2, MemOfFields
<1>7. r.ok = TRUE /\ r.m = n
  OBVIOUS
<1>8. \E g \in Frames : pte = [m.pte EXCEPT ![s][v] = g]
  BY <1>1 DEF FrameTaken
<1>9. /\ used \subseteq m.used \cup Pool(s) \cup KernelFrames
      /\ m1.vmap = m.vmap /\ m1.stopped = m.stopped
  BY DEF FrameTaken
<1> HIDE DEF n, r, used, pte, tables
<1>10. Took(m, s, v, r)
  BY <1>0, <1>4, <1>5, <1>6, <1>7, <1>8, <1>9 DEF Took, OwnedIn
<1> QED
  BY <1>10 DEF r, n

\* allocPhyAddr and mapPageTable for one page do what Took says.
LEMMA TakeFrameTook ==
  ASSUME NEW m \in Mems, NEW s \in Spaces, NEW v \in Pages(s)
  PROVE  Took(m, s, v, TakeFrame(m, s, v))
<1> DEFINE f == FreeFrame(m, Pool(s))
           m1 == [m EXCEPT !.used = @ \cup {f}]
           k == FreeFrame(m1, KernelFrames)
           noTable == s # Kernel /\ m1.tables[s][Table(v)] = None
<1>1. CASE f = None
  <2>1. TakeFrame(m, s, v) = [ok |-> FALSE, m |-> m]
    BY <1>1 DEF TakeFrame
  <2> QED
    BY <2>1 DEF Took
<1>2. CASE f # None
  <2>1. f \in Pool(s) /\ f \in Frames /\ f \notin m.used
    BY <1>2, FreeFrameIs, SpacePages
  <2>2. TakeFrame(m, s, v) = [ok |-> TRUE, m |-> MapPage(m1, s, v, f)]
    BY <1>2 DEF TakeFrame
  <2>3. m1 = MemOf(m.used \cup {f}, m.vmap, m.pte, m.tables, m.stopped)
    BY TakeUpdate
  <2>4. FrameTaken(m, m1, s, v, f)
    <3> HIDE DEF m1, f
    <3>1. m1 \in Mems
      BY <2>1, <2>3, MakeMem, MemFields
    <3>2. /\ m1.used = m.used \cup {f} /\ m1.vmap = m.vmap /\ m1.pte = m.pte
          /\ m1.tables = m.tables /\ m1.stopped = m.stopped
      BY <2>3, MemOfFields
    <3> QED
      BY <2>1, <3>1, <3>2 DEF FrameTaken
  <2> HIDE DEF f, m1, k, noTable
  <2>5. CASE m1.pte[s][v] # None \/ (noTable /\ k = None)
    <3>1. MapPage(m1, s, v, f) = Stop(m1)
      BY <2>5 DEF MapPage, k, noTable
    <3> DEFINE n == Stop(m1)
    <3>2. n = MemOf(m1.used, m1.vmap, m1.pte, m1.tables, TRUE)
      BY <2>4, StopUpdate DEF FrameTaken
    <3> HIDE DEF n
    <3>3. n \in Mems
      BY <3>2, <2>4, MakeMem, MemFields DEF FrameTaken
    <3>4. n.stopped /\ n.vmap = m1.vmap /\ n.used = m1.used /\ n.tables = m1.tables
      BY <3>2 DEF MemOf
    <3>5. /\ n.stopped /\ n.vmap = m.vmap /\ n.tables = m.tables
          /\ n.used \subseteq m.used \cup Pool(s) \cup KernelFrames
      BY <3>4, <2>4 DEF FrameTaken
    <3>6. Took(m, s, v, [ok |-> TRUE, m |-> n])
      BY <3>3, <3>5 DEF Took
    <3> QED
      BY <2>2, <3>1, <3>6 DEF n
  <2>6. CASE m1.pte[s][v] = None /\ noTable /\ k # None
    <3>1. MapPage(m1, s, v, f) = WithTable(m1, s, Table(v), k, v, f)
      BY <2>6, Zenon DEF MapPage, k, noTable, WithTable
    <3>2. k \in KernelFrames /\ k \notin m1.used
      BY <2>6, FreeFrameIs, Constants DEF k
    <3>3. s \in Procs /\ Table(v) \in Tables
      BY <2>6, SpacePages, TableOfPage DEF noTable
    <3>4. m.tables[s][Table(v)] = None /\ m.pte[s][v] = None
      BY <2>4, <2>6 DEF FrameTaken, noTable
    <3>5. Took(m, s, v, [ok |-> TRUE, m |-> WithTable(m1, s, Table(v), k, v, f)])
      BY <3>2, <3>3, <3>4, <2>4, MapNewTable
    <3> QED
      BY <2>2, <3>1, <3>5
  <2>7. CASE m1.pte[s][v] = None /\ ~noTable
    <3>1. MapPage(m1, s, v, f) = [m1 EXCEPT !.pte[s][v] = f]
      BY <2>7, Zenon DEF MapPage, noTable
    <3>2. m.pte[s][v] = None
      BY <2>4, <2>7 DEF FrameTaken
    <3>3. Took(m, s, v, [ok |-> TRUE, m |-> [m1 EXCEPT !.pte[s][v] = f]])
      BY <3>2, <2>4, MapTabled
    <3> QED
      BY <2>2, <3>1, <3>3
  <2> QED
    BY <2>5, <2>6, <2>7
<1> QED
  BY <1>1, <1>2

-----------------------------------------------------------------------------
(* Taking several, giving back                                             *)

\* The entries of a space without those of some pages.
Cleared(pte, s, pages) ==
  [pte EXCEPT ![s] = [v \in DOMAIN @ |-> IF v \in pages THEN None ELSE @[v]]]

\* What Unmap leaves.
Unmapped(m, s, pages, run, n) ==
  /\ n \in Mems
  /\ n.used = m.used \ {m.pte[s][v] : v \in pages}
  /\ n.vmap = [m.vmap EXCEPT ![s] = @ \ run]
  /\ n.pte = Cleared(m.pte, s, pages)
  /\ n.tables = m.tables
  /\ n.stopped = m.stopped
  /\ \A gone : OwnedIn(m, gone) => OwnedIn(n, gone)

\* The three fields that Unmap changes, one after the other.
LEMMA UnmapUpdate ==
  ASSUME NEW m \in Mems, NEW s \in Spaces, NEW pages, NEW run
  PROVE  Unmap(m, s, pages, run)
         = MemOf(m.used \ {m.pte[s][v] : v \in pages}, [m.vmap EXCEPT ![s] = @ \ run],
                 Cleared(m.pte, s, pages), m.tables, m.stopped)
<1>0. PICK a, b, c, d, e :
        /\ m = [used |-> a, vmap |-> b, pte |-> c, tables |-> d, stopped |-> e]
        /\ a = m.used /\ b = m.vmap /\ c = m.pte /\ d = m.tables /\ e = m.stopped
  BY MemLiteral
<1> DEFINE used == m.used \ {m.pte[s][v] : v \in pages}
           pte == Cleared(m.pte, s, pages)
           vmap == [m.vmap EXCEPT ![s] = @ \ run]
           m1 == [m EXCEPT !.used = @ \ {m.pte[s][v] : v \in pages}]
           m2 == [m1 EXCEPT !.pte[s] = [v \in DOMAIN @ |-> IF v \in pages THEN None ELSE @[v]]]
           m3 == [m2 EXCEPT !.vmap[s] = @ \ run]
           n == Unmap(m, s, pages, run)
<1>1. m3 = n
  BY <1>0 DEF Unmap
<1>2. m1 = [used |-> used, vmap |-> b, pte |-> c, tables |-> d, stopped |-> e]
  <2>1. \A x : [m EXCEPT !.used = x]
               = [used |-> x, vmap |-> b, pte |-> c, tables |-> d, stopped |-> e]
    BY <1>0
  <2>2. m1 = [m EXCEPT !.used = used]
    OBVIOUS
  <2> HIDE DEF m1, used
  <2> QED
    BY <2>1, <2>2
<1>3. m2 = [used |-> used, vmap |-> b, pte |-> pte, tables |-> d, stopped |-> e]
  <2>1. \A x : [m1 EXCEPT !.pte = x]
               = [used |-> used, vmap |-> b, pte |-> x, tables |-> d, stopped |-> e]
    <3> HIDE DEF m1, used
    <3> QED
      BY <1>2
  <2>2. m1.pte = m.pte
    <3> HIDE DEF m1, used
    <3> QED
      BY <1>0, <1>2
  <2>3. m2 = [m1 EXCEPT !.pte = Cleared(m1.pte, s, pages)]
    BY DEF Cleared
  <2> HIDE DEF m1, m2, used
  <2> QED
    BY <2>1, <2>2, <2>3
<1>4. m3 = MemOf(used, vmap, pte, d, e)
  <2>1. \A x : [m2 EXCEPT !.vmap = x]
               = [used |-> used, vmap |-> x, pte |-> pte, tables |-> d, stopped |-> e]
    <3> HIDE DEF m2, used, pte
    <3> QED
      BY <1>3
  <2>2. m2.vmap = m.vmap
    <3> HIDE DEF m2, used, pte
    <3> QED
      BY <1>0, <1>3
  <2>3. m3 = [m2 EXCEPT !.vmap = [m2.vmap EXCEPT ![s] = @ \ run]]
    OBVIOUS
  <2> HIDE DEF m2, m3, used, pte
  <2> QED
    BY <2>1, <2>2, <2>3 DEF MemOf
<1>5. n = MemOf(used, vmap, pte, m.tables, m.stopped)
  BY <1>0, <1>1, <1>4
<1> QED
  BY <1>5

\* Whatever Unmap is given, it leaves a memory.
LEMMA UnmapMems ==
  ASSUME NEW m \in Mems, NEW s \in Spaces, NEW pages, NEW run
  PROVE  Unmap(m, s, pages, run) \in Mems
<1> DEFINE used == m.used \ {m.pte[s][v] : v \in pages}
           pte == Cleared(m.pte, s, pages)
           vmap == [m.vmap EXCEPT ![s] = @ \ run]
           n == Unmap(m, s, pages, run)
<1>1. n = MemOf(used, vmap, pte, m.tables, m.stopped)
  BY UnmapUpdate
<1>2. used \in SUBSET Frames /\ vmap \in [Spaces -> SUBSET PageNumbers]
  BY MemFields
<1>3. EntriesTyped(pte, m.tables)
  BY MemFields DEF EntriesTyped, Cleared
<1> HIDE DEF n, used, pte, vmap
<1>4. n \in Mems
  BY <1>1, <1>2, <1>3, MakeMem, MemFields
<1> QED
  BY <1>4 DEF n

\* Unmap clears the pages, and keeps the owners of the frames that stay.
LEMMA UnmapIs ==
  ASSUME NEW m \in Mems, NEW s \in Spaces, NEW pages, pages \subseteq PageNumbers, NEW run
  PROVE  Unmapped(m, s, pages, run, Unmap(m, s, pages, run))
<1> DEFINE used == m.used \ {m.pte[s][v] : v \in pages}
           pte == Cleared(m.pte, s, pages)
           vmap == [m.vmap EXCEPT ![s] = @ \ run]
           n == Unmap(m, s, pages, run)
<1>5. n = MemOf(used, vmap, pte, m.tables, m.stopped)
  BY UnmapUpdate
<1>6. used \in SUBSET Frames /\ vmap \in [Spaces -> SUBSET PageNumbers]
  BY MemFields
<1>7. EntriesTyped(pte, m.tables)
  BY MemFields DEF EntriesTyped, Cleared
<1>8. \A gone : OwnedIn(m, gone) => Owned(used, pte, m.tables, gone)
  BY MemFields, OwnedUnmap DEF OwnedIn, Cleared
<1> HIDE DEF n, used, pte, vmap
<1>9. n \in Mems
  BY <1>5, <1>6, <1>7, MakeMem, MemFields
<1>10. n.used = used /\ n.vmap = vmap /\ n.pte = pte /\ n.tables = m.tables
       /\ n.stopped = m.stopped
  BY <1>5, MemOfFields
<1>11. Unmapped(m, s, pages, run, n)
  BY <1>8, <1>9, <1>10 DEF Unmapped, OwnedIn, used, vmap, pte
<1> QED
  BY <1>11 DEF n

\* freePage stops, or unmaps the pages it is given.
LEMMA FreePageIs ==
  ASSUME NEW m \in Mems, NEW s \in Spaces, NEW v, NEW k, v..(v + k - 1) \subseteq PageNumbers
  PROVE  LET r == FreePage(m, s, v, k)
         IN /\ r \in Mems
            /\ \/ r.stopped
               \/ Unmapped(m, s, v..(v + k - 1), v..(v + k - 1), r)
<1> DEFINE run == v..(v + k - 1)
           frames == {m.pte[s][w] : w \in run}
<1>1. CASE KFrames \in frames
  <2>1. FreePage(m, s, v, k) = Stop(m)
    BY <1>1 DEF FreePage
  <2> DEFINE n == Stop(m)
  <2>2. n = MemOf(m.used, m.vmap, m.pte, m.tables, TRUE)
    BY StopUpdate
  <2> HIDE DEF n
  <2>3. n \in Mems /\ n.stopped
    <3>1. n \in Mems
      BY <2>2, MakeMem, MemFields
    <3>2. n.stopped
      BY <2>2 DEF MemOf
    <3> QED
      BY <3>1, <3>2
  <2> QED
    BY <2>1, <2>3 DEF n
<1>2. CASE KFrames \notin frames
  <2>1. FreePage(m, s, v, k) = Unmap(m, s, run, run)
    BY <1>2 DEF FreePage
  <2>2. Unmapped(m, s, run, run, Unmap(m, s, run, run))
    BY UnmapIs
  <2> QED
    BY <2>1, <2>2 DEF Unmapped
<1> QED
  BY <1>1, <1>2

\* The first i pages of a run from start have frames, unless one was missing.
TookRun(m, s, start, i, r) ==
  /\ r.m \in Mems
  /\ r.ok \in BOOLEAN
  /\ r.m.vmap = m.vmap
  /\ m.stopped => r.m.stopped
  /\ r.m.used \subseteq m.used \cup Pool(s) \cup KernelFrames
  /\ s = Kernel => r.m.tables = m.tables
  /\ ~r.m.stopped =>
       /\ \A t \in Spaces, w \in PageNumbers :
            t # s \/ w \notin start..(start + i - 1) => r.m.pte[t][w] = m.pte[t][w]
       /\ r.ok => \A w \in start..(start + i - 1) : r.m.pte[s][w] # None
  /\ \A gone : ~r.m.stopped /\ OwnedIn(m, gone) => OwnedIn(r.m, gone)

\* One more page for a run.
LEMMA TookRunMore ==
  ASSUME NEW m \in Mems, NEW s \in Spaces, NEW start \in Nat, NEW i \in Nat,
         start..(start + i) \subseteq PageNumbers,
         NEW x, TookRun(m, s, start, i, x), x.ok,
         NEW y, Took(x.m, s, start + i, y)
  PROVE  TookRun(m, s, start, i + 1, y)
<1>1. start..(start + (i + 1) - 1) = (start..(start + i - 1)) \cup {start + i}
  OBVIOUS
<1>2. /\ y.m \in Mems /\ y.ok \in BOOLEAN /\ y.m.vmap = m.vmap
      /\ m.stopped => y.m.stopped
      /\ y.m.used \subseteq m.used \cup Pool(s) \cup KernelFrames
      /\ s = Kernel => y.m.tables = m.tables
      /\ x.m \in Mems
  BY DEF TookRun, Took
<1>3. \A gone : ~y.m.stopped /\ OwnedIn(m, gone) => OwnedIn(y.m, gone)
  BY DEF TookRun, Took
<1>4. ASSUME ~y.m.stopped, ~y.ok
      PROVE  \A t \in Spaces, w \in PageNumbers :
               t # s \/ w \notin start..(start + (i + 1) - 1) => y.m.pte[t][w] = m.pte[t][w]
  BY <1>1, <1>4 DEF TookRun, Took
<1>5. ASSUME ~y.m.stopped, y.ok
      PROVE  /\ \A t \in Spaces, w \in PageNumbers :
                  t # s \/ w \notin start..(start + (i + 1) - 1) => y.m.pte[t][w] = m.pte[t][w]
             /\ \A w \in start..(start + (i + 1) - 1) : y.m.pte[s][w] # None
  <2>1. PICK f \in Frames : y.m.pte = [x.m.pte EXCEPT ![s][start + i] = f]
    BY <1>5 DEF Took
  <2>2. \A t \in Spaces, w \in PageNumbers :
          y.m.pte[t][w] = IF t = s /\ w = start + i THEN f ELSE x.m.pte[t][w]
    BY <2>1, <1>2, MemFields DEF EntriesTyped
  <2>3. ~x.m.stopped /\ f # None
    BY <1>5, NoneNotFrame DEF Took
  <2>4. /\ \A t \in Spaces, w \in PageNumbers :
             t # s \/ w \notin start..(start + i - 1) => x.m.pte[t][w] = m.pte[t][w]
        /\ \A w \in start..(start + i - 1) : x.m.pte[s][w] # None
    BY <2>3 DEF TookRun
  <2>5. \A t \in Spaces, w \in PageNumbers :
          t # s \/ w \notin start..(start + (i + 1) - 1) => y.m.pte[t][w] = m.pte[t][w]
    BY <2>2, <2>4, <1>1
  <2>6. ASSUME NEW w \in start..(start + (i + 1) - 1) PROVE y.m.pte[s][w] # None
    <3>1. CASE w = start + i
      BY <3>1, <2>2, <2>3
    <3>2. CASE w \in start..(start + i - 1)
      BY <3>2, <2>2, <2>3, <2>4
    <3> QED
      BY <3>1, <3>2, <1>1
  <2> QED
    BY <2>5, <2>6
<1> QED
  BY <1>2, <1>3, <1>4, <1>5 DEF TookRun

Takes == [ok: BOOLEAN, m: Mems]

\* The loop of allocPage takes what TookRun says.
LEMMA TakeFramesIs ==
  ASSUME NEW m \in Mems, NEW s \in Spaces, NEW start \in Nat, NEW n \in Nat,
         start..(start + n - 1) \subseteq Pages(s)
  PROVE  TookRun(m, s, start, n, TakeFrames(m, s, start, n))
<1> DEFINE base == [ok |-> TRUE, m |-> m]
           step == [x \in Takes \X (1..n) |->
                      IF x[1].ok THEN TakeFrame(x[1].m, s, start + x[2] - 1) ELSE x[1]]
           Loop(f) == f = [i \in 0..n |->
                             IF i = 0 THEN base
                             ELSE IF f[i - 1].ok THEN TakeFrame(f[i - 1].m, s, start + i - 1)
                             ELSE f[i - 1]]
<1>1. base \in Takes
  BY DEF Takes
<1>2. ASSUME NEW x \in Takes, NEW i \in 1..n
      PROVE  (IF x.ok THEN TakeFrame(x.m, s, start + i - 1) ELSE x) \in Takes
  <2>1. start + i - 1 \in Pages(s) /\ x.m \in Mems
    BY DEF Takes
  <2>2. Took(x.m, s, start + i - 1, TakeFrame(x.m, s, start + i - 1))
    BY <2>1, TakeFrameTook
  <2>3. TakeFrame(x.m, s, start + i - 1) \in [ok: BOOLEAN, m: Mems]
    <3>1. \E a, b : TakeFrame(x.m, s, start + i - 1) = [ok |-> a, m |-> b]
      BY DEF TakeFrame
    <3>2. PICK a, b : TakeFrame(x.m, s, start + i - 1) = [ok |-> a, m |-> b]
      BY <3>1
    <3> DEFINE y == TakeFrame(x.m, s, start + i - 1)
    <3>3. y.ok \in BOOLEAN /\ y.m \in Mems
      BY <2>2 DEF Took
    <3> HIDE DEF y
    <3>4. y = [ok |-> a, m |-> b]
      BY <3>2 DEF y
    <3>5. y \in [ok: BOOLEAN, m: Mems]
      BY <3>3, <3>4
    <3> QED
      BY <3>5 DEF y
  <2> QED
    BY <2>3 DEF Takes
<1>3. step \in [Takes \X (1..n) -> Takes]
  BY <1>2
<1>4. PICK f : Rounds(f, n, Takes, base, step)
  <2> HIDE DEF base, step
  <2> QED
    BY <1>1, <1>3, LoopExists
<1>5. ASSUME NEW i \in 1..n
      PROVE  f[i] = IF f[i - 1].ok THEN TakeFrame(f[i - 1].m, s, start + i - 1) ELSE f[i - 1]
  <2>1. f[i - 1] \in Takes
    <3> HIDE DEF base, step
    <3> QED
      BY <1>4 DEF Rounds
  <2>2. f[i] = step[<<f[i - 1], i>>]
    BY <1>4 DEF Rounds
  <2>3. <<f[i - 1], i>> \in Takes \X (1..n)
    BY <2>1
  <2> QED
    BY <2>2, <2>3
<1>6. Loop(f)
  <2> HIDE DEF base, step
  <2>1. f \in [0..n -> Takes] /\ f[0] = base
    BY <1>4 DEF Rounds
  <2>2. \A i \in 0..n : i # 0 => i \in 1..n
    OBVIOUS
  <2> QED
    BY <2>1, <2>2, <1>5
<1> DEFINE taken == CHOOSE g : Loop(g)
<1>7. Loop(taken)
  BY <1>6
<1>8. TakeFrames(m, s, start, n) = taken[n]
  BY DEF TakeFrames
<1>9. taken[0] = base /\ \A i \in 1..n :
        taken[i] = IF taken[i - 1].ok THEN TakeFrame(taken[i - 1].m, s, start + i - 1)
                   ELSE taken[i - 1]
  <2> HIDE DEF taken, base
  <2>1. \A i \in 1..n : i \in 0..n /\ i # 0
    OBVIOUS
  <2> QED
    BY <1>7, <2>1
<1> HIDE DEF taken, step
<1> DEFINE G == {i \in 0..n : TookRun(m, s, start, i, taken[i])}
<1>10. 0 \in G
  <2>1. start..(start + 0 - 1) = {}
    OBVIOUS
  <2>2. taken[0].ok = TRUE /\ taken[0].m = m
    BY <1>9
  <2>3. TookRun(m, s, start, 0, taken[0])
    <3> HIDE DEF base
    <3> QED
      BY <2>1, <2>2 DEF TookRun
  <2> QED
    BY <2>3
<1>11. ASSUME NEW i \in 0..(n - 1), i \in G PROVE i + 1 \in G
  <2> DEFINE x == taken[i]
             y == taken[i + 1]
  <2>1. TookRun(m, s, start, i, x) /\ x.m \in Mems /\ i \in Nat
    BY <1>11 DEF TookRun
  <2>2. y = IF x.ok THEN TakeFrame(x.m, s, start + i) ELSE x
    <3>1. i + 1 \in 1..n /\ (i + 1) - 1 = i /\ start + (i + 1) - 1 = start + i
      OBVIOUS
    <3> QED
      BY <1>9, <3>1
  <2>3. start + i \in Pages(s) /\ start..(start + i) \subseteq PageNumbers
    BY SpacePages
  <2> HIDE DEF x, y
  <2>4. CASE x.ok
    <3>1. Took(x.m, s, start + i, y)
      BY <2>1, <2>2, <2>3, <2>4, TakeFrameTook
    <3> QED
      BY <2>1, <2>3, <2>4, <3>1, TookRunMore DEF y
  <2>5. CASE ~x.ok
    <3>1. y = x
      BY <2>2, <2>5
    <3>2. TookRun(m, s, start, i + 1, x)
      BY <2>1, <2>5 DEF TookRun
    <3> QED
      BY <3>1, <3>2 DEF y
  <2> QED
    BY <2>4, <2>5
<1>12. n \in G
  <2> HIDE DEF G
  <2> QED
    BY <1>10, <1>11, Induction
<1> QED
  BY <1>8, <1>12

\* What allocPage for n pages of s gives: none, and pages and bits as before,
\* or a run of pages that had neither frames nor bits.
Alloc(m, s, n, r) ==
  /\ r.m \in Mems
  /\ m.stopped => r.m.stopped
  /\ r.m.used \subseteq m.used \cup Pool(s) \cup KernelFrames
  /\ s = Kernel => r.m.tables = m.tables
  /\ \A gone : ~r.m.stopped /\ OwnedIn(m, gone) => OwnedIn(r.m, gone)
  /\ r.addr = None => r.m.vmap = m.vmap /\ (~r.m.stopped => r.m.pte = m.pte)
  /\ r.addr # None =>
       /\ r.addr \in Nat
       /\ r.addr..(r.addr + n - 1) \subseteq Pages(s) \ m.vmap[s]
       /\ r.m.vmap = [m.vmap EXCEPT ![s] = @ \cup r.addr..(r.addr + n - 1)]
       /\ ~r.m.stopped =>
            /\ \A t \in Spaces, w \in PageNumbers :
                 t # s \/ w \notin r.addr..(r.addr + n - 1) => r.m.pte[t][w] = m.pte[t][w]
            /\ \A w \in r.addr..(r.addr + n - 1) : r.m.pte[s][w] # None

\* A page with a frame has its bit.
Marked(m, s) == \A v \in PageNumbers : m.pte[s][v] # None => v \in m.vmap[s]

\* The pages that bitMapScan finds are pages of the space, and free.
LEMMA FirstRunIs ==
  ASSUME NEW m \in Mems, NEW s \in Spaces, NEW n, FirstRun(m, s, n) # None
  PROVE  /\ FirstRun(m, s, n) \in Nat
         /\ FirstRun(m, s, n)..(FirstRun(m, s, n) + n - 1) \subseteq Pages(s) \ m.vmap[s]
<1> DEFINE S == {v \in Pages(s) : v..(v + n - 1) \subseteq Pages(s) \ m.vmap[s]}
<1>1. S \subseteq Nat
  BY SpacePages
<1>2. FirstRun(m, s, n) = Lowest(S)
  BY DEF FirstRun
<1>3. FirstRun(m, s, n) \in S
  <2> HIDE DEF S
  <2> QED
    BY <1>1, <1>2, LowestIs
<1> QED
  BY <1>1, <1>3

\* Memories with the same entries have the same page tables.
LEMMA EntriesEqual ==
  ASSUME NEW m \in Mems, NEW x \in Mems,
         \A t \in Spaces, w \in PageNumbers : x.pte[t][w] = m.pte[t][w]
  PROVE  x.pte = m.pte
<1>1. /\ x.pte \in [Spaces -> [PageNumbers -> Frames \cup {None}]]
      /\ m.pte \in [Spaces -> [PageNumbers -> Frames \cup {None}]]
  BY MemFields DEF EntriesTyped
<1>2. \A t \in Spaces : x.pte[t] = m.pte[t]
  BY <1>1
<1> QED
  BY <1>1, <1>2

\* Setting bits.
LEMMA MarkIs ==
  ASSUME NEW m \in Mems, NEW s \in Spaces, NEW run, run \subseteq PageNumbers
  PROVE  LET n == Mark(m, s, run)
         IN /\ n \in Mems
            /\ n.used = m.used /\ n.vmap = [m.vmap EXCEPT ![s] = @ \cup run] /\ n.pte = m.pte
            /\ n.tables = m.tables /\ n.stopped = m.stopped
<1> DEFINE n == Mark(m, s, run)
           bits == m.vmap[s] \cup run
           vm == [m.vmap EXCEPT ![s] = bits]
<1>1. n = [m EXCEPT !.vmap[s] = bits]
  BY DEF Mark
<1>2. n = MemOf(m.used, vm, m.pte, m.tables, m.stopped)
  <2> HIDE DEF bits
  <2> QED
    BY <1>1, BitsUpdate
<1>3. vm \in [Spaces -> SUBSET PageNumbers]
  BY MemFields
<1> HIDE DEF vm, n
<1>4. n \in Mems
  BY <1>2, <1>3, MakeMem, MemFields
<1>5. n.used = m.used /\ n.vmap = vm /\ n.pte = m.pte /\ n.tables = m.tables
      /\ n.stopped = m.stopped
  BY <1>2, MemOfFields
<1> QED
  BY <1>4, <1>5 DEF n, vm

\* allocPage does what Alloc says, and a kernel that has stopped stays so.
LEMMA AllocPageIs ==
  ASSUME NEW m \in Mems, NEW s \in Spaces, NEW n \in Nat
  PROVE  LET r == AllocPage(m, s, n)
         IN /\ r.m \in Mems
            /\ m.stopped => r.m.stopped
            /\ Marked(m, s) => Alloc(m, s, n, r)
<1> DEFINE start == FirstRun(m, s, n)
           run == start..(start + n - 1)
           m0 == Mark(m, s, run)
           all == TakeFrames(m0, s, start, n)
           back == Rollback(all.m, s, run)
           res == AllocPage(m, s, n)
           Right(x) == /\ x.m \in Mems
                       /\ m.stopped => x.m.stopped
                       /\ Marked(m, s) => Alloc(m, s, n, x)
<1>0. /\ start = None => res = [addr |-> None, m |-> m]
      /\ start # None => res = AllocRun(m, s, start, n)
  BY DEF AllocPage
<1>00. /\ all.ok => AllocRun(m, s, start, n) = [addr |-> start, m |-> all.m]
       /\ ~all.ok => AllocRun(m, s, start, n) = [addr |-> None, m |-> back]
  <2> HIDE DEF start
  <2> QED
    BY DEF AllocRun
<1>1. CASE start = None
  <2>1. res = [addr |-> None, m |-> m]
    <3> HIDE DEF start, res, all, back
    <3> QED
      BY <1>0, <1>1
  <2>2. res.addr = None /\ res.m = m
    BY <2>1
  <2> HIDE DEF res
  <2>3. Right(res)
    BY <2>2 DEF Alloc
  <2> QED
    BY <2>3 DEF res
<1>2. CASE start # None
  <2>1. start \in Nat /\ run \subseteq Pages(s) \ m.vmap[s] /\ run \subseteq PageNumbers
    BY <1>2, FirstRunIs, SpacePages
  <2>4. /\ m0 \in Mems
        /\ m0.used = m.used /\ m0.vmap = [m.vmap EXCEPT ![s] = @ \cup run] /\ m0.pte = m.pte
        /\ m0.tables = m.tables /\ m0.stopped = m.stopped
    BY <2>1, MarkIs
  <2> HIDE DEF start, m0
  <2>5. TookRun(m0, s, start, n, all)
    BY <2>1, <2>4, TakeFramesIs
  <2>6. /\ all.ok => res = [addr |-> start, m |-> all.m]
        /\ ~all.ok => res = [addr |-> None, m |-> back]
    <3> HIDE DEF res, all, back
    <3> QED
      BY <1>0, <1>00, <1>2
  <2> HIDE DEF all, res
  <2>7. /\ all.m \in Mems
        /\ all.m.vmap = [m.vmap EXCEPT ![s] = @ \cup run]
        /\ m.stopped => all.m.stopped
        /\ all.m.used \subseteq m.used \cup Pool(s) \cup KernelFrames
        /\ s = Kernel => all.m.tables = m.tables
        /\ \A gone : ~all.m.stopped /\ OwnedIn(m, gone) => OwnedIn(all.m, gone)
        /\ ~all.m.stopped =>
             \A t \in Spaces, w \in PageNumbers :
               t # s \/ w \notin run => all.m.pte[t][w] = m.pte[t][w]
        /\ ~all.m.stopped /\ all.ok => \A w \in run : all.m.pte[s][w] # None
    BY <2>4, <2>5 DEF TookRun, OwnedIn
  <2>8. CASE all.ok
    <3>1. res.addr = start /\ res.m = all.m
      BY <2>6, <2>8
    <3>2. Right(res)
      BY <3>1, <1>2, <2>1, <2>7, <2>8 DEF Alloc
    <3> QED
      BY <3>2 DEF res
  <2>9. CASE ~all.ok
    <3> DEFINE pages == run \cap Mapped(all.m, s)
    <3>1. res.addr = None /\ res.m = back
      BY <2>6, <2>9
    <3>2. back = Unmap(all.m, s, pages, run)
      BY DEF Rollback
    <3>3. Unmapped(all.m, s, pages, run, back)
      BY <3>2, <2>1, <2>7, UnmapIs
    <3>4. back.vmap = m.vmap
      <4>1. back.vmap = [all.m.vmap EXCEPT ![s] = @ \ run]
        BY <3>3 DEF Unmapped
      <4>2. (m.vmap[s] \cup run) \ run = m.vmap[s]
        BY <2>1
      <4>3. m.vmap \in [Spaces -> SUBSET PageNumbers]
        BY MemFields
      <4> DEFINE vm == all.m.vmap
      <4>4. vm = [m.vmap EXCEPT ![s] = @ \cup run]
        BY <2>7
      <4> HIDE DEF run, vm
      <4>5. back.vmap = [vm EXCEPT ![s] = @ \ run]
        BY <4>1 DEF vm
      <4>6. vm[s] \ run = m.vmap[s]
        BY <4>2, <4>3, <4>4
      <4>7. back.vmap = [vm EXCEPT ![s] = m.vmap[s]]
        BY <4>5, <4>6
      <4> QED
        BY <4>3, <4>4, <4>7
    <3>5. ASSUME ~back.stopped, Marked(m, s) PROVE back.pte = m.pte
      <4>1. ~all.m.stopped /\ back \in Mems /\ back.pte = Cleared(all.m.pte, s, pages)
        BY <3>3, <3>5 DEF Unmapped
      <4>2. \A t \in Spaces, w \in PageNumbers :
              back.pte[t][w] = IF t = s /\ w \in pages THEN None ELSE all.m.pte[t][w]
        BY <4>1, <2>7, MemFields DEF Cleared, EntriesTyped
      <4>3. \A w \in PageNumbers : w \in run => m.pte[s][w] = None
        BY <2>1, <3>5 DEF Marked
      <4>4. \A w \in PageNumbers : w \in run /\ w \notin pages => all.m.pte[s][w] = None
        BY <2>1 DEF Mapped
      <4> HIDE DEF pages, run
      <4>5. ASSUME NEW t \in Spaces, NEW w \in PageNumbers
            PROVE  back.pte[t][w] = m.pte[t][w]
        <5>1. CASE t # s \/ w \notin run
          <6>1. w \notin pages \/ t # s
            BY <5>1 DEF pages
          <6> QED
            BY <5>1, <6>1, <4>1, <4>2, <2>7
        <5>2. CASE t = s /\ w \in run
          BY <5>2, <4>2, <4>3, <4>4
        <5> QED
          BY <5>1, <5>2
      <4> QED
        BY <4>1, <4>5, EntriesEqual
    <3>6. /\ back \in Mems
          /\ back.used \subseteq m.used \cup Pool(s) \cup KernelFrames
          /\ s = Kernel => back.tables = m.tables
          /\ m.stopped => back.stopped
          /\ \A gone : ~back.stopped /\ OwnedIn(m, gone) => OwnedIn(back, gone)
      BY <2>7, <3>3 DEF Unmapped
    <3> HIDE DEF back
    <3>7. Right(res)
      BY <3>1, <3>4, <3>5, <3>6 DEF Alloc
    <3> QED
      BY <3>7 DEF res
  <2> QED
    BY <2>8, <2>9
<1> QED
  BY <1>1, <1>2

\* A page that is there has its bit.
LEMMA BitsMarked ==
  ASSUME NEW m, NEW s, NEW lk, BitsExact(m, s, lk)
  PROVE  Marked(m, s)
BY DEF BitsExact, Marked, Mapped

\* Taking pages keeps the bits exact.
LEMMA AllocBits ==
  ASSUME NEW m \in Mems, NEW s \in Spaces, NEW n, NEW r, Alloc(m, s, n, r), ~r.m.stopped,
         NEW t \in Spaces, NEW lk, BitsExact(m, t, lk)
  PROVE  BitsExact(r.m, t, lk)
<1>0. r.m \in Mems /\ m.vmap \in [Spaces -> SUBSET PageNumbers]
  BY MemFields DEF Alloc
<1>1. CASE r.addr = None
  <2>1. r.m.vmap = m.vmap /\ r.m.pte = m.pte
    BY <1>1 DEF Alloc
  <2> QED
    BY <2>1 DEF BitsExact, Mapped
<1>2. CASE r.addr # None
  <2> DEFINE run == r.addr..(r.addr + n - 1)
  <2>1. /\ run \subseteq Pages(s) \ m.vmap[s]
        /\ r.m.vmap = [m.vmap EXCEPT ![s] = @ \cup run]
        /\ \A u \in Spaces, w \in PageNumbers :
             u # s \/ w \notin run => r.m.pte[u][w] = m.pte[u][w]
        /\ \A w \in run : r.m.pte[s][w] # None
    BY <1>2 DEF Alloc
  <2> HIDE DEF run
  <2>2. Pages(t) \subseteq PageNumbers
    BY SpacePages
  <2>3. CASE t # s
    <3>1. r.m.vmap[t] = m.vmap[t] /\ \A w \in PageNumbers : r.m.pte[t][w] = m.pte[t][w]
      BY <1>0, <2>1, <2>3
    <3>2. Mapped(r.m, t) = Mapped(m, t)
      BY <3>1, <2>2 DEF Mapped
    <3> QED
      BY <3>1, <3>2 DEF BitsExact
  <2>4. CASE t = s
    <3>1. r.m.vmap[t] = m.vmap[t] \cup run
      BY <1>0, <2>1, <2>4
    <3>2. Mapped(r.m, t) = Mapped(m, t) \cup run
      BY <2>1, <2>2, <2>4 DEF Mapped
    <3>3. \A v \in PageNumbers : r.m.pte[t][v] # None => v \in Pages(t)
      BY <2>1, <2>4 DEF BitsExact
    <3> QED
      BY <3>1, <3>2, <3>3, <2>1, <2>4 DEF BitsExact
  <2> QED
    BY <2>3, <2>4
<1> QED
  BY <1>1, <1>2

\* The frames in use follow from the entries.
LEMMA UsedSame ==
  ASSUME NEW used, NEW x, NEW pte, NEW tables, NEW gone,
         Owned(used, pte, tables, gone), Owned(x, pte, tables, gone), None \notin used \cup x
  PROVE  used = x
BY DEF Owned

\* A page the kernel cannot get leaves everything as it was.
LEMMA KernelAllocFails ==
  ASSUME NEW m \in Mems, NEW n, NEW r, Alloc(m, Kernel, n, r), r.addr = None, ~r.m.stopped,
         NEW gone, OwnedIn(m, gone)
  PROVE  r.m = m
<1>1. /\ r.m \in Mems /\ OwnedIn(r.m, gone) /\ r.m.vmap = m.vmap /\ r.m.pte = m.pte
      /\ r.m.tables = m.tables /\ ~m.stopped
  BY DEF Alloc
<1>2. r.m.used = m.used
  <2>1. None \notin m.used \cup r.m.used
    BY <1>1, MemFields, NoneNotFrame
  <2> QED
    BY <1>1, <2>1, UsedSame DEF OwnedIn
<1>3. r.m.stopped = m.stopped
  BY <1>1, MemFields
<1>4. /\ m = MemOf(m.used, m.vmap, m.pte, m.tables, m.stopped)
      /\ r.m = MemOf(r.m.used, r.m.vmap, r.m.pte, r.m.tables, r.m.stopped)
  BY <1>1, MemRecord
<1> QED
  BY <1>1, <1>2, <1>3, <1>4

\* Giving pages back keeps the bits exact.
LEMMA UnmapBits ==
  ASSUME NEW m \in Mems, NEW s \in Spaces, NEW run, NEW n, Unmapped(m, s, run, run, n),
         NEW t \in Spaces, NEW lk, BitsExact(m, t, lk)
  PROVE  BitsExact(n, t, lk)
<1>1. /\ \A w \in PageNumbers : n.pte[t][w] = IF t = s /\ w \in run THEN None ELSE m.pte[t][w]
      /\ n.vmap[t] = IF t = s THEN m.vmap[t] \ run ELSE m.vmap[t]
  <2> DEFINE pte == m.pte
             vmap == m.vmap
  <2>1. /\ n.pte = Cleared(pte, s, run) /\ n.vmap = [vmap EXCEPT ![s] = @ \ run]
    BY DEF Unmapped
  <2>2. /\ pte \in [Spaces -> [PageNumbers -> Frames \cup {None}]]
        /\ vmap \in [Spaces -> SUBSET PageNumbers]
    BY MemFields DEF EntriesTyped
  <2> HIDE DEF pte, vmap
  <2>3. \A w \in PageNumbers : n.pte[t][w] = IF t = s /\ w \in run THEN None ELSE pte[t][w]
    BY <2>1, <2>2 DEF Cleared
  <2>4. n.vmap[t] = IF t = s THEN vmap[t] \ run ELSE vmap[t]
    BY <2>1, <2>2
  <2> QED
    BY <2>3, <2>4 DEF pte, vmap
<1>2. Pages(t) \subseteq PageNumbers
  BY SpacePages
<1>3. Mapped(n, t) = IF t = s THEN Mapped(m, t) \ run ELSE Mapped(m, t)
  BY <1>1, <1>2 DEF Mapped
<1>4. \A w \in PageNumbers : n.pte[t][w] # None => w \in Pages(t)
  BY <1>1 DEF BitsExact
<1> QED
  BY <1>1, <1>3, <1>4 DEF BitsExact

-----------------------------------------------------------------------------
(* The pages of a forked process                                           *)

\* What copyBodyStack3 for the pages of p has given q after i of them.
Copied(m, p, q, i, x) ==
  /\ x \in Mems
  /\ m.stopped => x.stopped
  /\ x.vmap = [m.vmap EXCEPT ![q] = m.vmap[p]]
  /\ ~x.stopped =>
       /\ \A t \in Spaces, w \in PageNumbers :
            t # q \/ w \notin 0..(i - 1) => x.pte[t][w] = m.pte[t][w]
       /\ \A w \in 0..(i - 1) :
            IF w \in m.vmap[p] THEN x.pte[q][w] # None /\ m.pte[p][w] # None
            ELSE x.pte[q][w] = m.pte[q][w]
  /\ \A gone : ~x.stopped /\ OwnedIn(m, gone) => OwnedIn(x, gone)

\* One round of its loop.
CopyRound(m, p, q, x, v) ==
  IF v \notin m.vmap[p] THEN x
  ELSE IF TakeFrame(x, q, v).ok /\ v \in Mapped(m, p) THEN TakeFrame(x, q, v).m
  ELSE Stop(x)

\* A kernel that stops is still a memory.
LEMMA StopIs ==
  ASSUME NEW x \in Mems
  PROVE  Stop(x) \in Mems /\ Stop(x).stopped /\ Stop(x).vmap = x.vmap
<1> DEFINE n == Stop(x)
<1>1. n = MemOf(x.used, x.vmap, x.pte, x.tables, TRUE)
  BY StopUpdate
<1> HIDE DEF n
<1>2. n \in Mems
  BY <1>1, MakeMem, MemFields
<1>3. n.stopped /\ n.vmap = x.vmap
  BY <1>1 DEF MemOf
<1> QED
  BY <1>2, <1>3 DEF n

\* A round of the copy leaves a memory.
LEMMA CopyRoundTyped ==
  ASSUME NEW m \in Mems, NEW p \in Procs, NEW q \in Procs, NEW x \in Mems, NEW v \in ProcPages
  PROVE  CopyRound(m, p, q, x, v) \in Mems
<1>1. q \in Spaces /\ v \in Pages(q)
  BY SpacePages, Constants
<1>2. TakeFrame(x, q, v).m \in Mems
  BY <1>1, TakeFrameTook DEF Took
<1>3. Stop(x) \in Mems
  BY StopIs
<1> QED
  BY <1>2, <1>3 DEF CopyRound

\* A round copies one page more.
LEMMA CopyMore ==
  ASSUME NEW m \in Mems, NEW p \in Procs, NEW q \in Procs, NEW i \in ProcPages,
         NEW x, Copied(m, p, q, i, x)
  PROVE  Copied(m, p, q, i + 1, CopyRound(m, p, q, x, i))
<1> DEFINE y == CopyRound(m, p, q, x, i)
<1>0. /\ q \in Spaces /\ i \in Pages(q) /\ i \in Nat /\ i \in PageNumbers /\ x \in Mems
      /\ Pages(p) = ProcPages
  BY SpacePages, Constants DEF Copied
<1>1. 0..((i + 1) - 1) = (0..(i - 1)) \cup {i} /\ i \notin 0..(i - 1)
  BY <1>0
<1>2. CASE i \notin m.vmap[p]
  <2>1. y = x
    BY <1>2 DEF CopyRound
  <2> HIDE DEF y
  <2>2. ASSUME ~x.stopped
        PROVE  /\ \A t \in Spaces, w \in PageNumbers :
                    t # q \/ w \notin 0..((i + 1) - 1) => x.pte[t][w] = m.pte[t][w]
               /\ \A w \in 0..((i + 1) - 1) :
                    IF w \in m.vmap[p] THEN x.pte[q][w] # None /\ m.pte[p][w] # None
                    ELSE x.pte[q][w] = m.pte[q][w]
    <3>1. x.pte[q][i] = m.pte[q][i]
      BY <1>0, <1>1, <2>2 DEF Copied
    <3> QED
      BY <1>1, <1>2, <2>2, <3>1 DEF Copied
  <2>3. Copied(m, p, q, i + 1, x)
    BY <2>2 DEF Copied
  <2> QED
    BY <2>1, <2>3 DEF y
<1>3. CASE i \in m.vmap[p] /\ TakeFrame(x, q, i).ok /\ i \in Mapped(m, p)
  <2> DEFINE r == TakeFrame(x, q, i)
  <2>1. y = r.m
    BY <1>3 DEF CopyRound
  <2>2. Took(x, q, i, r)
    BY <1>0, TakeFrameTook
  <2> HIDE DEF y, r
  <2>3. /\ y \in Mems
        /\ m.stopped => y.stopped
        /\ y.vmap = [m.vmap EXCEPT ![q] = m.vmap[p]]
        /\ \A gone : ~y.stopped /\ OwnedIn(m, gone) => OwnedIn(y, gone)
    BY <2>1, <2>2 DEF Took, Copied
  <2>4. ASSUME ~y.stopped
        PROVE  /\ \A t \in Spaces, w \in PageNumbers :
                    t # q \/ w \notin 0..((i + 1) - 1) => y.pte[t][w] = m.pte[t][w]
               /\ \A w \in 0..((i + 1) - 1) :
                    IF w \in m.vmap[p] THEN y.pte[q][w] # None /\ m.pte[p][w] # None
                    ELSE y.pte[q][w] = m.pte[q][w]
    <3>1. PICK f \in Frames : y.pte = [x.pte EXCEPT ![q][i] = f]
      BY <1>3, <2>1, <2>2, <2>4 DEF Took, r
    <3>2. \A t \in Spaces, w \in PageNumbers :
            y.pte[t][w] = IF t = q /\ w = i THEN f ELSE x.pte[t][w]
      BY <3>1, <1>0, MemFields DEF EntriesTyped
    <3>3. ~x.stopped /\ f # None /\ m.pte[p][i] # None
      BY <1>3, <2>1, <2>2, <2>4, NoneNotFrame DEF Took, Mapped
    <3>4. 0..(i - 1) \subseteq PageNumbers
      BY <1>0, Constants DEF ProcPages
    <3>5. /\ \A t \in Spaces, w \in PageNumbers :
               t # q \/ w \notin 0..(i - 1) => x.pte[t][w] = m.pte[t][w]
          /\ \A w \in 0..(i - 1) :
               IF w \in m.vmap[p] THEN x.pte[q][w] # None /\ m.pte[p][w] # None
               ELSE x.pte[q][w] = m.pte[q][w]
      BY <3>3 DEF Copied
    <3>6. ASSUME NEW w \in 0..((i + 1) - 1)
          PROVE  IF w \in m.vmap[p] THEN y.pte[q][w] # None /\ m.pte[p][w] # None
                 ELSE y.pte[q][w] = m.pte[q][w]
      <4>1. CASE w = i
        BY <4>1, <3>2, <3>3, <1>0, <1>3
      <4>2. CASE w \in 0..(i - 1)
        BY <4>2, <3>2, <3>4, <3>5, <1>0, <1>1
      <4> QED
        BY <4>1, <4>2, <1>1
    <3>7. \A t \in Spaces, w \in PageNumbers :
            t # q \/ w \notin 0..((i + 1) - 1) => y.pte[t][w] = m.pte[t][w]
      BY <3>2, <3>5, <1>1
    <3> QED
      BY <3>6, <3>7
  <2>5. Copied(m, p, q, i + 1, y)
    BY <2>3, <2>4 DEF Copied
  <2> QED
    BY <2>5 DEF y
<1>4. CASE i \in m.vmap[p] /\ ~(TakeFrame(x, q, i).ok /\ i \in Mapped(m, p))
  <2>1. y = Stop(x)
    BY <1>4 DEF CopyRound
  <2>2. Stop(x) \in Mems /\ Stop(x).stopped /\ Stop(x).vmap = x.vmap
    BY <1>0, StopIs
  <2> HIDE DEF y
  <2>3. Copied(m, p, q, i + 1, y)
    BY <2>1, <2>2 DEF Copied
  <2> QED
    BY <2>3 DEF y
<1> QED
  BY <1>2, <1>3, <1>4

\* The loop of copyBodyStack3 copies what Copied says.
LEMMA CopyPagesIs ==
  ASSUME NEW m \in Mems, NEW p \in Procs, NEW q \in Procs
  PROVE  Copied(m, p, q, NPages, CopyPages(m, p, q))
<1> DEFINE base == [m EXCEPT !.vmap[q] = m.vmap[p]]
           step == [x \in Mems \X (1..NPages) |-> CopyRound(m, p, q, x[1], x[2] - 1)]
           Loop(f) == f = [i \in 0..NPages |->
                             IF i = 0 THEN base
                             ELSE IF i - 1 \notin m.vmap[p] THEN f[i - 1]
                             ELSE IF TakeFrame(f[i - 1], q, i - 1).ok /\ i - 1 \in Mapped(m, p)
                                  THEN TakeFrame(f[i - 1], q, i - 1).m
                             ELSE Stop(f[i - 1])]
<1>0. /\ NPages \in Nat /\ p \in Spaces /\ q \in Spaces
      /\ \A i \in 0..(NPages - 1) : i \in ProcPages /\ i + 1 \in 1..NPages /\ (i + 1) - 1 = i
      /\ \A i \in 1..NPages : i - 1 \in ProcPages /\ i \in 0..NPages /\ i # 0
  BY Constants DEF ProcPages
<1>1. /\ base \in Mems /\ base.vmap = [m.vmap EXCEPT ![q] = m.vmap[p]] /\ base.pte = m.pte
      /\ base.stopped = m.stopped /\ \A gone : OwnedIn(m, gone) => OwnedIn(base, gone)
  <2> DEFINE vm == [m.vmap EXCEPT ![q] = m.vmap[p]]
  <2>1. base = MemOf(m.used, vm, m.pte, m.tables, m.stopped)
    BY BitsUpdate
  <2>2. vm \in [Spaces -> SUBSET PageNumbers]
    BY <1>0, MemFields
  <2> HIDE DEF vm, base
  <2>3. base \in Mems
    BY <2>1, <2>2, MakeMem, MemFields
  <2>4. base.used = m.used /\ base.vmap = vm /\ base.pte = m.pte /\ base.tables = m.tables
        /\ base.stopped = m.stopped
    BY <2>1, MemOfFields
  <2> QED
    BY <2>3, <2>4 DEF vm, OwnedIn
<1> HIDE DEF base
<1>2. ASSUME NEW x \in Mems, NEW i \in 1..NPages
      PROVE  CopyRound(m, p, q, x, i - 1) \in Mems
  BY <1>0, CopyRoundTyped
<1>3. step \in [Mems \X (1..NPages) -> Mems]
  BY <1>2
<1>4. PICK f : Rounds(f, NPages, Mems, base, step)
  <2> HIDE DEF step
  <2> QED
    BY <1>0, <1>1, <1>3, LoopExists
<1>5. ASSUME NEW i \in 1..NPages
      PROVE  f[i] = CopyRound(m, p, q, f[i - 1], i - 1)
  <2>1. f[i - 1] \in Mems
    <3> HIDE DEF step
    <3> QED
      BY <1>0, <1>4 DEF Rounds
  <2>2. f[i] = step[<<f[i - 1], i>>]
    BY <1>4 DEF Rounds
  <2>3. <<f[i - 1], i>> \in Mems \X (1..NPages)
    BY <2>1
  <2> QED
    BY <2>2, <2>3
<1>6. Loop(f)
  <2> HIDE DEF step
  <2>1. f \in [0..NPages -> Mems] /\ f[0] = base
    BY <1>4 DEF Rounds
  <2>2. \A i \in 0..NPages : i # 0 => i \in 1..NPages
    BY <1>0
  <2> QED
    BY <2>1, <2>2, <1>5 DEF CopyRound
<1> DEFINE copied == CHOOSE g : Loop(g)
<1>7. Loop(copied)
  BY <1>6
<1>8. CopyPages(m, p, q) = copied[NPages]
  BY DEF CopyPages, base
<1>9. copied[0] = base /\ \A i \in 1..NPages :
        copied[i] = CopyRound(m, p, q, copied[i - 1], i - 1)
  <2> HIDE DEF copied
  <2>1. 0 \in 0..NPages
    BY <1>0
  <2> QED
    BY <1>0, <1>7, <2>1 DEF CopyRound
<1> HIDE DEF copied, step
<1> DEFINE G == {i \in 0..NPages : Copied(m, p, q, i, copied[i])}
<1>10. 0 \in G
  <2>1. 0..(0 - 1) = {} /\ 0 \in 0..NPages
    BY <1>0
  <2>2. Copied(m, p, q, 0, base)
    BY <1>1, <2>1 DEF Copied
  <2> QED
    BY <1>9, <2>1, <2>2
<1>11. ASSUME NEW i \in 0..(NPages - 1), i \in G PROVE i + 1 \in G
  <2>1. Copied(m, p, q, i + 1, CopyRound(m, p, q, copied[i], i))
    BY <1>0, <1>11, CopyMore
  <2>2. copied[i + 1] = CopyRound(m, p, q, copied[i], i)
    BY <1>0, <1>9
  <2> QED
    BY <1>0, <2>1, <2>2
<1>12. NPages \in G
  <2> HIDE DEF G
  <2>1. NPages \in 0..NPages
    BY <1>0
  <2> QED
    BY <1>0, <1>10, <1>11, <2>1, Induction
<1> QED
  BY <1>8, <1>12

-----------------------------------------------------------------------------
(* The heap of a process                                                   *)

\* A heap stays sound while pages come.
LEMMA HeapMorePages ==
  ASSUME NEW a, NEW fl, NEW h, NEW pte, NEW new, HeapSound(a, fl, h, pte, new),
         NEW pte2, \A v \in ProcPages : pte[v] # None => pte2[v] # None
  PROVE  HeapSound(a, fl, h, pte2, new)
<1>1. SmallArenas(a, fl, h, pte2)
  BY DEF HeapSound, SmallArenas
<1>2. LargeArenas(a, h, pte2)
  BY DEF HeapSound, LargeArenas
<1> QED
  BY <1>1, <1>2 DEF HeapSound

\* A block is a pair.
LEMMA BlockPair ==
  ASSUME NEW A, NEW B, NEW x \in A \X B
  PROVE  x = <<x[1], x[2]>> /\ x[1] \in A /\ x[2] \in B
OBVIOUS

\* The blocks of one class and their counts.
LEMMA NotHeldFinite ==
  ASSUME NEW v, NEW c \in Classes, NEW h
  PROVE  /\ BlocksPerArena[c] \in Nat \ {0}
         /\ IsFiniteSet(NotHeld(v, c, h)) /\ Cardinality(NotHeld(v, c, h)) \in Nat
         /\ Cardinality(NotHeld(v, c, h)) <= BlocksPerArena[c]
<1>1. BlocksPerArena[c] \in Nat \ {0}
  BY MemoryAssumption
<1>2. IsFiniteSet(1..BlocksPerArena[c]) /\ Cardinality(1..BlocksPerArena[c]) = BlocksPerArena[c]
  BY <1>1, FS_Interval
<1>3. NotHeld(v, c, h) \subseteq 1..BlocksPerArena[c]
  BY DEF NotHeld
<1> QED
  BY <1>1, <1>2, <1>3, FS_Subset, FS_CardinalityType

\* One block given out is one fewer, one given back one more.
LEMMA NotHeldTake ==
  ASSUME NEW v, NEW c \in Classes, NEW h, NEW k \in 1..BlocksPerArena[c], <<v, k>> \notin h
  PROVE  /\ NotHeld(v, c, h \cup {<<v, k>>}) = NotHeld(v, c, h) \ {k}
         /\ Cardinality(NotHeld(v, c, h \cup {<<v, k>>})) = Cardinality(NotHeld(v, c, h)) - 1
         /\ Cardinality(NotHeld(v, c, h)) > 0
<1>1. NotHeld(v, c, h \cup {<<v, k>>}) = NotHeld(v, c, h) \ {k}
  BY DEF NotHeld
<1>2. k \in NotHeld(v, c, h)
  BY DEF NotHeld
<1>3. Cardinality(NotHeld(v, c, h) \ {k}) = Cardinality(NotHeld(v, c, h)) - 1
  BY <1>2, NotHeldFinite, FS_RemoveElement
<1>4. Cardinality(NotHeld(v, c, h \cup {<<v, k>>})) \in Nat
      /\ Cardinality(NotHeld(v, c, h)) \in Nat
  BY NotHeldFinite
<1>5. Cardinality(NotHeld(v, c, h \cup {<<v, k>>})) = Cardinality(NotHeld(v, c, h)) - 1
  BY <1>1, <1>3
<1>6. Cardinality(NotHeld(v, c, h)) > 0
  BY <1>4, <1>5
<1> QED
  BY <1>1, <1>5, <1>6

\* A block that comes back is one more that is not held.
LEMMA NotHeldGive ==
  ASSUME NEW v, NEW c \in Classes, NEW h, NEW k \in 1..BlocksPerArena[c], <<v, k>> \in h
  PROVE  /\ NotHeld(v, c, h \ {<<v, k>>}) = NotHeld(v, c, h) \cup {k}
         /\ Cardinality(NotHeld(v, c, h \ {<<v, k>>})) = Cardinality(NotHeld(v, c, h)) + 1
<1>1. NotHeld(v, c, h \ {<<v, k>>}) = NotHeld(v, c, h) \cup {k}
  BY DEF NotHeld
<1>2. k \notin NotHeld(v, c, h)
  BY DEF NotHeld
<1>3. Cardinality(NotHeld(v, c, h) \cup {k}) = Cardinality(NotHeld(v, c, h)) + 1
  BY <1>2, NotHeldFinite, FS_AddElement
<1> QED
  BY <1>1, <1>3

\* When all the blocks of an arena are free, the program holds none of them.
LEMMA NotHeldAll ==
  ASSUME NEW v, NEW c \in Classes, NEW h, Cardinality(NotHeld(v, c, h)) = BlocksPerArena[c]
  PROVE  \A k \in 1..BlocksPerArena[c] : <<v, k>> \notin h
<1>1. BlocksPerArena[c] \in Nat \ {0}
  BY MemoryAssumption
<1>2. IsFiniteSet(1..BlocksPerArena[c]) /\ Cardinality(1..BlocksPerArena[c]) = BlocksPerArena[c]
  BY <1>1, FS_Interval
<1>3. NotHeld(v, c, h) \subseteq 1..BlocksPerArena[c]
  BY DEF NotHeld
<1>4. NotHeld(v, c, h) = 1..BlocksPerArena[c]
  BY <1>2, <1>3, FS_Subset
<1> QED
  BY <1>4 DEF NotHeld

\* Sequences as lists without repetition.
LEMMA TailOfList ==
  ASSUME NEW E, NEW l \in Seq(E), l # <<>>, IsInjective(l)
  PROVE  /\ Tail(l) \in Seq(E) /\ Head(l) \in E /\ Head(l) \in Range(l)
         /\ IsInjective(Tail(l))
         /\ Range(Tail(l)) = Range(l) \ {Head(l)}
<1>1. /\ Len(l) \in Nat \ {0} /\ DOMAIN l = 1..Len(l)
      /\ Tail(l) \in Seq(E) /\ Len(Tail(l)) = Len(l) - 1
      /\ DOMAIN Tail(l) = 1..(Len(l) - 1)
      /\ \A i \in 1..(Len(l) - 1) : Tail(l)[i] = l[i + 1]
      /\ Head(l) = l[1] /\ Head(l) \in E
  OBVIOUS
<1>2. \A i, j \in 1..Len(l) : l[i] = l[j] => i = j
  BY <1>1 DEF IsInjective
<1>3. IsInjective(Tail(l))
  BY <1>1, <1>2 DEF IsInjective
<1>4. Head(l) \in Range(l)
  BY <1>1 DEF Range
<1>5. ASSUME NEW x \in Range(Tail(l)) PROVE x \in Range(l) \ {Head(l)}
  <2>1. PICK i \in 1..(Len(l) - 1) : x = l[i + 1]
    BY <1>1, <1>5 DEF Range
  <2>2. i + 1 \in 1..Len(l) /\ 1 \in 1..Len(l) /\ i + 1 # 1
    BY <1>1
  <2> QED
    BY <1>1, <1>2, <2>1, <2>2 DEF Range
<1>6. ASSUME NEW x \in Range(l), x # Head(l) PROVE x \in Range(Tail(l))
  <2>1. PICK i \in 1..Len(l) : x = l[i]
    BY <1>1 DEF Range
  <2>2. i # 1
    BY <1>1, <1>6, <2>1
  <2>3. i - 1 \in 1..(Len(l) - 1) /\ Tail(l)[i - 1] = x
    BY <1>1, <2>1, <2>2
  <2> QED
    BY <1>1, <2>3 DEF Range
<1> QED
  BY <1>1, <1>3, <1>4, <1>5, <1>6

\* A block at the end of a free list.
LEMMA AppendToList ==
  ASSUME NEW E, NEW l \in Seq(E), NEW x \in E, IsInjective(l), x \notin Range(l)
  PROVE  /\ Append(l, x) \in Seq(E)
         /\ IsInjective(Append(l, x))
         /\ Range(Append(l, x)) = Range(l) \cup {x}
<1> DEFINE n == Append(l, x)
<1>1. /\ Len(l) \in Nat /\ DOMAIN l = 1..Len(l)
      /\ n \in Seq(E) /\ DOMAIN n = 1..(Len(l) + 1)
      /\ \A i \in 1..Len(l) : n[i] = l[i]
      /\ n[Len(l) + 1] = x
  OBVIOUS
<1>2. \A i, j \in 1..Len(l) : l[i] = l[j] => i = j
  BY <1>1 DEF IsInjective
<1>3. \A i \in 1..Len(l) : l[i] # x
  BY <1>1 DEF Range
<1> HIDE DEF n
<1>4. \A i \in 1..(Len(l) + 1) : i \in 1..Len(l) \/ i = Len(l) + 1
  BY <1>1
<1>5. IsInjective(n)
  BY <1>1, <1>2, <1>3, <1>4 DEF IsInjective
<1>6. Range(n) = Range(l) \cup {x}
  <2>1. ASSUME NEW y \in Range(n) PROVE y \in Range(l) \cup {x}
    BY <1>1, <1>4 DEF Range
  <2>2. ASSUME NEW y \in Range(l) PROVE y \in Range(n)
    <3>1. PICK i \in 1..Len(l) : y = l[i]
      BY <1>1 DEF Range
    <3>2. i \in 1..(Len(l) + 1) /\ n[i] = y
      BY <1>1, <3>1
    <3> QED
      BY <1>1, <3>2 DEF Range
  <2>3. x \in Range(n)
    <3>1. Len(l) + 1 \in 1..(Len(l) + 1)
      BY <1>1
    <3> QED
      BY <1>1, <3>1 DEF Range
  <2> QED
    BY <2>1, <2>2, <2>3
<1> QED
  BY <1>1, <1>5, <1>6 DEF n

\* Free takes the blocks of one arena off a list, and no others.
LEMMA WithoutIs ==
  ASSUME NEW E, NEW l \in Seq(E), NEW v, IsInjective(l)
  PROVE  /\ Without(l, v) \in Seq(E)
         /\ IsInjective(Without(l, v))
         /\ Range(Without(l, v)) = {x \in Range(l) : x[1] # v}
<1>1. PICK rest :
        /\ rest[0] = <<>>
        /\ \A i \in 1..Len(l) :
             rest[i] = IF l[i][1] = v THEN rest[i - 1] ELSE Append(rest[i - 1], l[i])
        /\ Without(l, v) = rest[Len(l)]
  BY WithoutRounds
<1>2. Len(l) \in Nat /\ DOMAIN l = 1..Len(l) /\ \A i \in 1..Len(l) : l[i] \in E
  OBVIOUS
<1>3. \A i, j \in 1..Len(l) : l[i] = l[j] => i = j
  BY <1>2 DEF IsInjective
<1> DEFINE Before(i) == {x \in E : x[1] # v /\ \E j \in 1..i : l[j] = x}
           Good(i) == /\ rest[i] \in Seq(E)
                      /\ IsInjective(rest[i])
                      /\ Range(rest[i]) = Before(i)
           G == {i \in 0..Len(l) : Good(i)}
<1>4. 0 \in G
  <2>1. rest[0] \in Seq(E) /\ DOMAIN rest[0] = {}
    BY <1>1
  <2>2. IsInjective(rest[0]) /\ Range(rest[0]) = {}
    BY <2>1 DEF IsInjective, Range
  <2>3. Before(0) = {}
    OBVIOUS
  <2> QED
    BY <1>2, <2>1, <2>2, <2>3
<1>5. ASSUME NEW i \in 0..(Len(l) - 1), i \in G PROVE i + 1 \in G
  <2>1. /\ i + 1 \in 1..Len(l) /\ i + 1 \in 0..Len(l) /\ (i + 1) - 1 = i
        /\ 1..(i + 1) = (1..i) \cup {i + 1} /\ i + 1 \notin 1..i
        /\ 1..i \subseteq 1..Len(l) /\ l[i + 1] \in E
    BY <1>2
  <2>2. rest[i + 1] = IF l[i + 1][1] = v THEN rest[i] ELSE Append(rest[i], l[i + 1])
    BY <1>1, <2>1
  <2>3. rest[i] \in Seq(E) /\ IsInjective(rest[i]) /\ Range(rest[i]) = Before(i)
    BY <1>5
  <2>4. CASE l[i + 1][1] = v
    <3>1. Before(i + 1) = Before(i)
      BY <2>1, <2>4
    <3>2. rest[i + 1] = rest[i]
      BY <2>2, <2>4
    <3> QED
      BY <2>1, <2>3, <3>1, <3>2
  <2>5. CASE l[i + 1][1] # v
    <3>1. Before(i + 1) = Before(i) \cup {l[i + 1]}
      BY <2>1, <2>5
    <3>2. rest[i + 1] = Append(rest[i], l[i + 1])
      BY <2>2, <2>5
    <3>3. l[i + 1] \notin Before(i)
      BY <1>3, <2>1
    <3> HIDE DEF Before
    <3> DEFINE y == rest[i]
               x == l[i + 1]
    <3>4. y \in Seq(E) /\ IsInjective(y) /\ x \in E /\ x \notin Range(y)
      BY <2>1, <2>3, <3>3
    <3>5. Range(y) \cup {x} = Before(i + 1)
      BY <2>3, <3>1
    <3>6. rest[i + 1] = Append(y, x)
      BY <3>2
    <3> HIDE DEF x, y
    <3>10. /\ Append(y, x) \in Seq(E) /\ IsInjective(Append(y, x))
           /\ Range(Append(y, x)) = Range(y) \cup {x}
      BY ONLY <3>4, AppendToList
    <3>7. /\ Append(y, x) \in Seq(E) /\ IsInjective(Append(y, x))
          /\ Range(Append(y, x)) = Before(i + 1)
      BY ONLY <3>5, <3>10
    <3>8. Good(i + 1)
      BY <3>6, <3>7
    <3> QED
      BY <2>1, <3>8
  <2> QED
    BY <2>4, <2>5
<1>6. Len(l) \in G
  <2> HIDE DEF G
  <2>1. Len(l) \in 0..Len(l)
    BY <1>2
  <2> QED
    BY <1>2, <1>4, <1>5, <2>1, Induction
<1>7. Before(Len(l)) = {x \in Range(l) : x[1] # v}
  BY <1>2 DEF Range
<1> QED
  BY <1>1, <1>6, <1>7

\* A header with another count.
Counted(a, v, n) == [a EXCEPT ![v].cnt = n]

\* Only the count of one header changes.
LEMMA CountedIs ==
  ASSUME NEW a \in [ProcPages -> Headers], NEW v \in ProcPages, NEW n \in Nat,
         NEW a2, a2 = Counted(a, v, n)
  PROVE  /\ a2 \in [ProcPages -> Headers]
         /\ \A w \in ProcPages : /\ a2[w].kind = a[w].kind /\ a2[w].size = a[w].size
                                 /\ a2[w].cnt = IF w = v THEN n ELSE a[w].cnt
<1>1. a2 = [a EXCEPT ![v] = [a[v] EXCEPT !.cnt = n]]
  BY DEF Counted
<1>2. PICK x, y, z : a[v] = [kind |-> x, size |-> y, cnt |-> z]
  BY DEF Headers
<1>3. a[v] \in Headers
  OBVIOUS
<1>4. x \in {"none", "small", "large"} /\ y \in Classes \cup {None}
  BY <1>2, <1>3 DEF Headers
<1>5. [a[v] EXCEPT !.cnt = n] = [kind |-> x, size |-> y, cnt |-> n]
  BY <1>2
<1> DEFINE hd == [kind |-> x, size |-> y, cnt |-> n]
<1>6. hd \in Headers /\ hd.kind = a[v].kind /\ hd.size = a[v].size /\ hd.cnt = n
  BY <1>2, <1>4 DEF Headers
<1>7. a2 = [a EXCEPT ![v] = hd]
  BY <1>1, <1>5
<1> HIDE DEF hd
<1> QED
  BY <1>6, <1>7

\* Malloc takes the first block of a list.
LEMMA TakeBlock ==
  ASSUME NEW a, NEW fl, NEW h, NEW pte, NEW new, HeapSound(a, fl, h, pte, new),
         NEW c \in Classes, fl[c] # <<>>,
         NEW b, b = Head(fl[c]), new \in {None, b[1]},
         NEW a2, a2 = [a EXCEPT ![b[1]].cnt = @ - 1],
         NEW fl2, fl2 = [fl EXCEPT ![c] = Tail(fl[c])]
  PROVE  HeapSound(a2, fl2, h \cup {b}, pte, None)
<1> DEFINE v == b[1]
           k == b[2]
           h2 == h \cup {b}
           l == fl[c]
<1>1. /\ a \in [ProcPages -> Headers] /\ fl \in [Classes -> Seq(ProcPages \X Nat)]
      /\ h \subseteq ProcPages \X Int /\ l \in Seq(ProcPages \X Nat) /\ IsInjective(l)
  BY DEF HeapSound, HeapTyped, ListsSound
<1>2. /\ Tail(l) \in Seq(ProcPages \X Nat) /\ b \in ProcPages \X Nat /\ b \in Range(l)
      /\ IsInjective(Tail(l)) /\ Range(Tail(l)) = Range(l) \ {b}
  <2> HIDE DEF l
  <2>1. l # <<>> /\ b = Head(l)
    BY DEF l
  <2> QED
    BY ONLY <2>1, <1>1, TailOfList
<1>3. /\ v \in ProcPages /\ k \in Nat /\ b = <<v, k>>
      /\ a[v].kind = "small" /\ a[v].size = c /\ k \in 1..BlocksPerArena[c] /\ b \notin h
  BY <1>2 DEF HeapSound, ListsSound
<1> HIDE DEF v, k
<1>4. /\ a[v].cnt = Cardinality(NotHeld(v, c, h)) /\ pte[v] # None
      /\ \A j \in NotHeld(v, c, h) : <<v, j>> \in Range(l)
  BY <1>3 DEF HeapSound, SmallArenas
<1>5. /\ NotHeld(v, c, h2) = NotHeld(v, c, h) \ {k}
      /\ Cardinality(NotHeld(v, c, h2)) = a[v].cnt - 1
      /\ a[v].cnt \in Nat /\ a[v].cnt > 0 /\ a[v].cnt <= BlocksPerArena[c]
      /\ BlocksPerArena[c] \in Nat
  <2> DEFINE N == NotHeld(v, c, h)
             N2 == NotHeld(v, c, h \cup {<<v, k>>})
  <2>1. N2 = N \ {k} /\ Cardinality(N2) = Cardinality(N) - 1 /\ Cardinality(N) > 0
    <3>1. k \in 1..BlocksPerArena[c] /\ <<v, k>> \notin h /\ c \in Classes
      BY <1>3
    <3>2. N2 = N \ {k}
      BY <1>3 DEF NotHeld
    <3>3. Cardinality(N2) = Cardinality(N) - 1
      BY ONLY <3>1, NotHeldTake
    <3>4. Cardinality(N) > 0
      BY ONLY <3>1, NotHeldTake
    <3> QED
      BY ONLY <3>2, <3>3, <3>4
  <2>2. Cardinality(N) \in Nat /\ Cardinality(N) <= BlocksPerArena[c] /\ BlocksPerArena[c] \in Nat
    BY NotHeldFinite
  <2>3. NotHeld(v, c, h2) = N2 /\ a[v].cnt = Cardinality(N)
    BY <1>3, <1>4
  <2> QED
    BY <2>1, <2>2, <2>3
<1> DEFINE cnt == a[v].cnt - 1
<1>6. a2 = Counted(a, v, cnt) /\ cnt \in Nat /\ cnt < BlocksPerArena[c]
  <2>1. a2 = Counted(a, v, cnt)
    BY <1>1, <1>3 DEF v, Counted
  <2>2. cnt \in Nat /\ cnt < BlocksPerArena[c]
    BY ONLY <1>5
  <2> QED
    BY <2>1, <2>2
<1>7. /\ a2 \in [ProcPages -> Headers]
      /\ \A w \in ProcPages : /\ a2[w].kind = a[w].kind /\ a2[w].size = a[w].size
                              /\ a2[w].cnt = IF w = v THEN cnt ELSE a[w].cnt
  <2> HIDE DEF cnt
  <2> QED
    BY ONLY <1>1, <1>3, <1>6, CountedIs
<1>8. /\ fl2 \in [Classes -> Seq(ProcPages \X Nat)]
      /\ \A d \in Classes : fl2[d] = IF d = c THEN Tail(l) ELSE fl[d]
  BY <1>1, <1>2
<1>9. h2 \subseteq ProcPages \X Int
  BY <1>1, <1>2
<1> HIDE DEF h2, l, cnt
<1>10. HeapTyped(a2, fl2, h2)
  BY <1>7, <1>8, <1>9 DEF HeapTyped
<1>11. SmallArenas(a2, fl2, h2, pte)
  <2> SUFFICES ASSUME NEW w \in ProcPages, a2[w].kind = "small"
               PROVE  /\ a2[w].size \in Classes
                      /\ pte[w] # None
                      /\ a2[w].cnt = Cardinality(NotHeld(w, a2[w].size, h2))
                      /\ \A j \in NotHeld(w, a2[w].size, h2) : <<w, j>> \in Range(fl2[a2[w].size])
    BY DEF SmallArenas
  <2>1. CASE w = v
    <3>1. a2[w].size = c /\ a2[w].cnt = cnt /\ fl2[c] = Tail(l)
      BY <2>1, <1>3, <1>7, <1>8
    <3>2. ASSUME NEW j \in NotHeld(v, c, h2) PROVE <<v, j>> \in Range(Tail(l))
      BY <1>2, <1>3, <1>4, <1>5
    <3> QED
      BY <2>1, <3>1, <3>2, <1>4, <1>5 DEF cnt
  <2>2. CASE w # v
    <3> DEFINE d == a[w].size
    <3>1. /\ a2[w].size = d /\ a2[w].cnt = a[w].cnt /\ a[w].kind = "small"
      BY <2>2, <1>7
    <3>2. /\ d \in Classes /\ pte[w] # None
          /\ a[w].cnt = Cardinality(NotHeld(w, d, h))
          /\ \A j \in NotHeld(w, d, h) : <<w, j>> \in Range(fl[d])
      BY <3>1 DEF HeapSound, SmallArenas
    <3>3. NotHeld(w, d, h2) = NotHeld(w, d, h)
      BY <2>2, <1>3 DEF NotHeld, h2
    <3> HIDE DEF d
    <3>4. ASSUME NEW j \in NotHeld(w, d, h) PROVE <<w, j>> \in Range(fl2[d])
      BY <2>2, <3>2, <1>2, <1>3, <1>8 DEF l
    <3> QED
      BY <3>1, <3>2, <3>3, <3>4
  <2> QED
    BY <2>1, <2>2
<1>12. SomeHeld(a2, None)
  BY <1>3, <1>6, <1>7 DEF HeapSound, SomeHeld, v
<1>13. LargeArenas(a2, h2, pte)
  BY <1>3, <1>7 DEF HeapSound, LargeArenas, h2
<1>14. HeldSound(a2, h2)
  <2>1. \A x \in h : x[1] \in ProcPages
    BY <1>1
  <2>2. HeldSound(a, h)
    BY DEF HeapSound
  <2>3. b[1] = v /\ b[2] = k
    BY DEF v, k
  <2> QED
    BY <2>1, <2>2, <2>3, <1>3, <1>7 DEF HeldSound, h2
<1>15. ListsSound(a2, fl2, h2)
  <2> SUFFICES ASSUME NEW d \in Classes
               PROVE  /\ IsInjective(fl2[d])
                      /\ \A x \in Range(fl2[d]) :
                           /\ a2[x[1]].kind = "small" /\ a2[x[1]].size = d
                           /\ x[2] \in 1..BlocksPerArena[d] /\ x \notin h2
    BY DEF ListsSound
  <2>1. /\ IsInjective(fl[d])
        /\ \A x \in Range(fl[d]) : /\ a[x[1]].kind = "small" /\ a[x[1]].size = d
                                   /\ x[2] \in 1..BlocksPerArena[d] /\ x \notin h
    BY DEF HeapSound, ListsSound
  <2>2. \A x \in Range(fl[d]) : x[1] \in ProcPages
    <3>1. fl[d] \in Seq(ProcPages \X Nat)
      BY <1>1
    <3>2. \A i \in DOMAIN fl[d] : fl[d][i] \in ProcPages \X Nat
      BY <3>1
    <3> QED
      BY <3>2 DEF Range
  <2>3. IsInjective(fl2[d]) /\ \A x \in Range(fl2[d]) : x \in Range(fl[d]) /\ x # b
    <3>1. CASE d = c
      BY <3>1, <1>2, <1>8 DEF l
    <3>2. CASE d # c
      <4>1. b[1] = v
        BY DEF v
      <4> QED
        BY <3>2, <4>1, <1>3, <1>8, <2>1
    <3> QED
      BY <3>1, <3>2
  <2> QED
    BY <2>1, <2>2, <2>3, <1>7 DEF h2
<1>16. HeapSound(a2, fl2, h2, pte, None)
  BY <1>10, <1>11, <1>12, <1>13, <1>14, <1>15 DEF HeapSound
<1> QED
  BY <1>16 DEF h2

\* The headers that are in use: their counts, and blocks as pairs.
LEMMA HeapPages ==
  ASSUME NEW a, NEW fl, NEW h, NEW pte, NEW new, HeapSound(a, fl, h, pte, new)
  PROVE  /\ \A v \in ProcPages : /\ v \in Nat /\ a[v].cnt \in Nat
                                 /\ a[v].kind \in {"none", "small", "large"}
         /\ \A x \in h : x \in ProcPages \X Int
         /\ \A c \in Classes : \A x \in Range(fl[c]) : x \in ProcPages \X Nat
<1>1. /\ a \in [ProcPages -> Headers] /\ fl \in [Classes -> Seq(ProcPages \X Nat)]
      /\ h \subseteq ProcPages \X Int
  BY DEF HeapSound, HeapTyped
<1>2. ASSUME NEW v \in ProcPages
      PROVE  v \in Nat /\ a[v].cnt \in Nat /\ a[v].kind \in {"none", "small", "large"}
  <2>1. a[v] \in Headers
    BY <1>1
  <2> QED
    BY <2>1, Constants DEF Headers
<1>3. ASSUME NEW c \in Classes, NEW x \in Range(fl[c]) PROVE x \in ProcPages \X Nat
  <2>1. fl[c] \in Seq(ProcPages \X Nat)
    BY <1>1
  <2>2. \A i \in DOMAIN fl[c] : fl[c][i] \in ProcPages \X Nat
    BY <2>1
  <2> QED
    BY <2>2 DEF Range
<1> QED
  BY <1>1, <1>2, <1>3

\* A page that is not there is no part of the heap.
LEMMA NoArenaThere ==
  ASSUME NEW a, NEW fl, NEW h, NEW pte, NEW new, HeapSound(a, fl, h, pte, new),
         NEW v \in ProcPages, pte[v] = None
  PROVE  /\ a[v].kind = "none"
         /\ \A x \in h : x[1] # v
         /\ \A c \in Classes : \A x \in Range(fl[c]) : x[1] # v
         /\ \A w \in ProcPages : a[w].kind = "large" => v \notin w..(w + a[w].cnt - 1)
<1>1. a[v].kind # "small"
  BY DEF HeapSound, SmallArenas
<1>2. \A w \in ProcPages : a[w].kind = "large" => v \notin w..(w + a[w].cnt - 1)
  BY DEF HeapSound, LargeArenas
<1>3. a[v].kind # "large"
  <2> SUFFICES ASSUME a[v].kind = "large" PROVE FALSE
    OBVIOUS
  <2>1. a[v].cnt > 0 /\ a[v].cnt \in Nat /\ v \in Nat
    BY HeapPages DEF HeapSound, LargeArenas
  <2>2. v \in v..(v + a[v].cnt - 1)
    BY <2>1
  <2> QED
    BY <1>2, <2>2
<1>4. a[v].kind = "none"
  BY <1>1, <1>3, HeapPages
<1>5. \A x \in h : x[1] # v
  BY <1>4 DEF HeapSound, HeldSound
<1>6. \A c \in Classes : \A x \in Range(fl[c]) : x[1] # v
  BY <1>4 DEF HeapSound, ListsSound
<1> QED
  BY <1>2, <1>4, <1>5, <1>6

\* Malloc makes an arena of a page it got.
LEMMA AddArena ==
  ASSUME NEW a, NEW fl, NEW h, NEW pte, HeapSound(a, fl, h, pte, None),
         NEW c \in Classes, NEW v \in ProcPages, pte[v] = None,
         NEW pte2, \A w \in ProcPages : pte[w] # None => pte2[w] # None, pte2[v] # None,
         NEW list, list = [i \in 1..BlocksPerArena[c] |-> <<v, i>>],
         NEW a2, a2 = [a EXCEPT ![v] = [kind |-> "small", size |-> c, cnt |-> BlocksPerArena[c]]],
         fl[c] = <<>>,
         NEW fl2, fl2 = [fl EXCEPT ![c] = list]
  PROVE  HeapSound(a2, fl2, h, pte2, v)
<1> DEFINE n == BlocksPerArena[c]
           hd == [kind |-> "small", size |-> c, cnt |-> n]
<1>1. /\ a \in [ProcPages -> Headers] /\ fl \in [Classes -> Seq(ProcPages \X Nat)]
      /\ h \subseteq ProcPages \X Int
  BY DEF HeapSound, HeapTyped
<1>2. n \in Nat \ {0}
  BY MemoryAssumption
<1>3. hd \in Headers /\ hd.kind = "small" /\ hd.size = c /\ hd.cnt = n
  BY <1>2 DEF Headers
<1>4. /\ list \in Seq(ProcPages \X Nat) /\ DOMAIN list = 1..n
      /\ \A i \in 1..n : list[i] = <<v, i>>
  BY <1>2
<1>5. /\ a2 \in [ProcPages -> Headers]
      /\ \A w \in ProcPages : w # v => a2[w] = a[w]
      /\ a2[v].kind = "small" /\ a2[v].size = c /\ a2[v].cnt = n
  <2> HIDE DEF hd, n
  <2>1. a2 = [a EXCEPT ![v] = hd]
    BY DEF hd, n
  <2> QED
    BY <1>1, <1>3, <2>1
<1>6. /\ fl2 \in [Classes -> Seq(ProcPages \X Nat)]
      /\ \A d \in Classes : fl2[d] = IF d = c THEN list ELSE fl[d]
  <2> HIDE DEF n
  <2> QED
    BY <1>1, <1>4
<1>7. /\ a[v].kind = "none" /\ \A x \in h : x[1] # v
      /\ \A d \in Classes : \A x \in Range(fl[d]) : x[1] # v
      /\ \A w \in ProcPages : a[w].kind = "large" => v \notin w..(w + a[w].cnt - 1)
  BY NoArenaThere
<1> HIDE DEF hd, n
<1>8. HeapSound(a, fl, h, pte2, None)
  BY HeapMorePages
<1>9. NotHeld(v, c, h) = 1..n /\ Cardinality(1..n) = n
  <2>1. 1 \in Int /\ n \in Int /\ 1 <= n /\ n - 1 + 1 = n
    BY <1>2
  <2>2. Cardinality(1..n) = IF 1 > n THEN 0 ELSE n - 1 + 1
    BY ONLY <2>1, FS_Interval
  <2>3. Cardinality(1..n) = n
    BY <2>1, <2>2
  <2>4. NotHeld(v, c, h) = 1..n
    <3>1. \A k : <<v, k>> \notin h
      BY <1>7, Zenon
    <3> QED
      BY <3>1 DEF NotHeld, n
  <2> QED
    BY <2>3, <2>4
<1>10. IsInjective(list) /\ \A i \in 1..n : <<v, i>> \in Range(list)
  BY <1>4 DEF IsInjective, Range
<1>11. HeapTyped(a2, fl2, h)
  BY <1>1, <1>5, <1>6 DEF HeapTyped
<1>12. SmallArenas(a2, fl2, h, pte2)
  <2> SUFFICES ASSUME NEW w \in ProcPages, a2[w].kind = "small"
               PROVE  /\ a2[w].size \in Classes
                      /\ pte2[w] # None
                      /\ a2[w].cnt = Cardinality(NotHeld(w, a2[w].size, h))
                      /\ \A j \in NotHeld(w, a2[w].size, h) : <<w, j>> \in Range(fl2[a2[w].size])
    BY DEF SmallArenas
  <2>1. CASE w = v
    BY <2>1, <1>5, <1>6, <1>9, <1>10
  <2>2. CASE w # v
    <3>1. a2[w] = a[w] /\ a[w].kind = "small"
      BY <2>2, <1>5
    <3>2. /\ a[w].size \in Classes /\ pte2[w] # None
          /\ a[w].cnt = Cardinality(NotHeld(w, a[w].size, h))
          /\ \A j \in NotHeld(w, a[w].size, h) : <<w, j>> \in Range(fl[a[w].size])
      BY <3>1, <1>8 DEF HeapSound, SmallArenas
    <3>3. a[w].size = c => NotHeld(w, a[w].size, h) = {}
      <4> SUFFICES ASSUME a[w].size = c, NEW j \in NotHeld(w, c, h) PROVE FALSE
        OBVIOUS
      <4>1. <<w, j>> \in Range(fl[c]) /\ fl[c] = <<>>
        BY <3>2
      <4> QED
        BY <4>1 DEF Range
    <3> QED
      BY <3>1, <3>2, <3>3, <1>6
  <2> QED
    BY <2>1, <2>2
<1>13. SomeHeld(a2, v)
  <2>1. \A w \in ProcPages : w # None
    BY Constants, NoneNotFrame
  <2> QED
    BY <1>5, <2>1 DEF HeapSound, SomeHeld
<1>14. LargeArenas(a2, h, pte2)
  <2> SUFFICES ASSUME NEW w \in ProcPages, a2[w].kind = "large"
               PROVE  /\ a2[w].cnt > 0
                      /\ <<w, -1>> \in h
                      /\ \A u \in w..(w + a2[w].cnt - 1) :
                           /\ u \in ProcPages /\ pte2[u] # None
                           /\ u # w => a2[u].kind = "none"
    BY DEF LargeArenas
  <2>1. w # v /\ a2[w] = a[w]
    BY <1>5
  <2>2. /\ a[w].cnt > 0 /\ <<w, -1>> \in h
        /\ \A u \in w..(w + a[w].cnt - 1) :
             /\ u \in ProcPages /\ pte2[u] # None
             /\ u # w => a[u].kind = "none"
    BY <1>8, <2>1 DEF HeapSound, LargeArenas
  <2>3. v \notin w..(w + a[w].cnt - 1)
    BY <1>7, <2>1
  <2> QED
    BY <2>1, <2>2, <2>3, <1>5
<1>15. HeldSound(a2, h)
  <2>1. \A x \in h : x[1] \in ProcPages /\ a2[x[1]] = a[x[1]]
    BY <1>1, <1>5, <1>7
  <2> QED
    BY <2>1 DEF HeapSound, HeldSound
<1>16. ListsSound(a2, fl2, h)
  <2> SUFFICES ASSUME NEW d \in Classes
               PROVE  /\ IsInjective(fl2[d])
                      /\ \A x \in Range(fl2[d]) :
                           /\ a2[x[1]].kind = "small" /\ a2[x[1]].size = d
                           /\ x[2] \in 1..BlocksPerArena[d] /\ x \notin h
    BY DEF ListsSound
  <2>1. CASE d = c
    <3>1. \A x \in Range(list) : \E i \in 1..n : x = <<v, i>>
      BY <1>4 DEF Range
    <3>2. fl2[d] = list
      BY <2>1, <1>6
    <3>3. ASSUME NEW x \in Range(list)
          PROVE  /\ a2[x[1]].kind = "small" /\ a2[x[1]].size = c
                 /\ x[2] \in 1..n /\ x \notin h
      <4>1. PICK i \in 1..n : x = <<v, i>>
        BY <3>1
      <4>2. x[1] = v /\ x[2] = i
        BY <4>1
      <4> QED
        BY <4>2, <1>5, <1>7
    <3> QED
      BY <2>1, <3>2, <3>3, <1>10 DEF n
  <2>2. CASE d # c
    <3>1. fl2[d] = fl[d]
      BY <2>2, <1>6
    <3>2. \A x \in Range(fl[d]) : x[1] \in ProcPages /\ a2[x[1]] = a[x[1]]
      BY <1>5, <1>7, HeapPages
    <3>3. /\ IsInjective(fl[d])
          /\ \A x \in Range(fl[d]) : /\ a[x[1]].kind = "small" /\ a[x[1]].size = d
                                     /\ x[2] \in 1..BlocksPerArena[d] /\ x \notin h
      BY DEF HeapSound, ListsSound
    <3> QED
      BY <3>1, <3>2, <3>3
  <2> QED
    BY <2>1, <2>2
<1> QED
  BY <1>11, <1>12, <1>13, <1>14, <1>15, <1>16 DEF HeapSound

\* Malloc makes a large block of the pages it got.
LEMMA AddLarge ==
  ASSUME NEW a, NEW fl, NEW h, NEW pte, HeapSound(a, fl, h, pte, None),
         NEW n \in Nat \ {0}, NEW v \in ProcPages,
         \A u \in v..(v + n - 1) : u \in ProcPages /\ pte[u] = None,
         NEW pte2, \A w \in ProcPages : pte[w] # None => pte2[w] # None,
         \A u \in v..(v + n - 1) : pte2[u] # None,
         NEW a2, a2 = [a EXCEPT ![v] = [kind |-> "large", size |-> None, cnt |-> n]]
  PROVE  HeapSound(a2, fl, h \cup {<<v, -1>>}, pte2, None)
<1> DEFINE hd == [kind |-> "large", size |-> None, cnt |-> n]
           h2 == h \cup {<<v, -1>>}
<1>1. /\ a \in [ProcPages -> Headers] /\ fl \in [Classes -> Seq(ProcPages \X Nat)]
      /\ h \subseteq ProcPages \X Int
  BY DEF HeapSound, HeapTyped
<1>2. hd \in Headers /\ hd.kind = "large" /\ hd.size = None /\ hd.cnt = n
  BY DEF Headers
<1>3. /\ a2 \in [ProcPages -> Headers]
      /\ \A w \in ProcPages : w # v => a2[w] = a[w]
      /\ a2[v].kind = "large" /\ a2[v].cnt = n
  <2> HIDE DEF hd
  <2>1. a2 = [a EXCEPT ![v] = hd]
    BY DEF hd
  <2> QED
    BY <1>1, <1>2, <2>1
<1>4. v \in v..(v + n - 1) /\ pte[v] = None
  <2>1. v \in Nat
    BY Constants
  <2> QED
    BY <2>1
<1>5. /\ a[v].kind = "none" /\ \A x \in h : x[1] # v
      /\ \A d \in Classes : \A x \in Range(fl[d]) : x[1] # v
      /\ \A w \in ProcPages : a[w].kind = "large" => v \notin w..(w + a[w].cnt - 1)
  BY <1>4, NoArenaThere
<1>6. \A u \in v..(v + n - 1) : a[u].kind = "none"
  BY NoArenaThere
<1>7. HeapSound(a, fl, h, pte2, None)
  BY HeapMorePages
<1> HIDE DEF hd, h2
<1>8. HeapTyped(a2, fl, h2)
  BY <1>1, <1>3 DEF HeapTyped, h2
<1>9. SmallArenas(a2, fl, h2, pte2)
  <2> SUFFICES ASSUME NEW w \in ProcPages, a2[w].kind = "small"
               PROVE  /\ a2[w].size \in Classes
                      /\ pte2[w] # None
                      /\ a2[w].cnt = Cardinality(NotHeld(w, a2[w].size, h2))
                      /\ \A j \in NotHeld(w, a2[w].size, h2) : <<w, j>> \in Range(fl[a2[w].size])
    BY DEF SmallArenas
  <2>1. w # v /\ a2[w] = a[w]
    BY <1>3
  <2>2. NotHeld(w, a[w].size, h2) = NotHeld(w, a[w].size, h)
    BY <2>1 DEF NotHeld, h2
  <2> QED
    BY <2>1, <2>2, <1>7 DEF HeapSound, SmallArenas
<1>10. SomeHeld(a2, None)
  BY <1>3 DEF HeapSound, SomeHeld
<1>11. LargeArenas(a2, h2, pte2)
  <2> SUFFICES ASSUME NEW w \in ProcPages, a2[w].kind = "large"
               PROVE  /\ a2[w].cnt > 0
                      /\ <<w, -1>> \in h2
                      /\ \A u \in w..(w + a2[w].cnt - 1) :
                           /\ u \in ProcPages /\ pte2[u] # None
                           /\ u # w => a2[u].kind = "none"
    BY DEF LargeArenas
  <2>1. CASE w = v
    BY <2>1, <1>3, <1>6 DEF h2
  <2>2. CASE w # v
    <3>1. a2[w] = a[w]
      BY <2>2, <1>3
    <3>2. /\ a[w].cnt > 0 /\ <<w, -1>> \in h
          /\ \A u \in w..(w + a[w].cnt - 1) :
               /\ u \in ProcPages /\ pte2[u] # None
               /\ u # w => a[u].kind = "none"
      BY <1>7, <3>1 DEF HeapSound, LargeArenas
    <3>3. v \notin w..(w + a[w].cnt - 1)
      BY <1>5, <3>1
    <3> QED
      BY <3>1, <3>2, <3>3, <1>3 DEF h2
  <2> QED
    BY <2>1, <2>2
<1>12. HeldSound(a2, h2)
  <2>1. \A x \in h : x[1] \in ProcPages /\ a2[x[1]] = a[x[1]]
    BY <1>1, <1>3, <1>5
  <2>2. HeldSound(a, h)
    BY DEF HeapSound
  <2> QED
    BY <1>3, <2>1, <2>2 DEF HeldSound, h2
<1>13. ListsSound(a2, fl, h2)
  <2> SUFFICES ASSUME NEW d \in Classes
               PROVE  /\ IsInjective(fl[d])
                      /\ \A x \in Range(fl[d]) :
                           /\ a2[x[1]].kind = "small" /\ a2[x[1]].size = d
                           /\ x[2] \in 1..BlocksPerArena[d] /\ x \notin h2
    BY DEF ListsSound
  <2>1. \A x \in Range(fl[d]) : x[1] \in ProcPages /\ a2[x[1]] = a[x[1]] /\ x # <<v, -1>>
    BY <1>3, <1>5, HeapPages
  <2> QED
    BY <2>1 DEF HeapSound, ListsSound, h2
<1> QED
  BY <1>8, <1>9, <1>10, <1>11, <1>12, <1>13 DEF HeapSound, h2

\* A block the program holds, of an arena.
LEMMA HeldBlock ==
  ASSUME NEW a, NEW fl, NEW h, NEW pte, HeapSound(a, fl, h, pte, None),
         NEW b \in h, a[b[1]].kind = "small",
         NEW h2, h2 = h \ {b}
  PROVE  /\ b[1] \in ProcPages /\ b = <<b[1], b[2]>>
         /\ a[b[1]].size \in Classes /\ b[2] \in 1..BlocksPerArena[a[b[1]].size]
         /\ \A c \in Classes : b \notin Range(fl[c])
         /\ \A j \in NotHeld(b[1], a[b[1]].size, h2) :
              j = b[2] \/ j \in NotHeld(b[1], a[b[1]].size, h)
         /\ Cardinality(NotHeld(b[1], a[b[1]].size, h2)) = a[b[1]].cnt + 1
<1> DEFINE v == b[1]
           k == b[2]
           c == a[v].size
<1>1. v \in ProcPages /\ b = <<v, k>>
  BY HeapPages
<1>2. k \in 1..BlocksPerArena[c]
  BY DEF HeapSound, HeldSound
<1>3. c \in Classes /\ a[v].cnt = Cardinality(NotHeld(v, c, h))
  BY <1>1 DEF HeapSound, SmallArenas
<1>4. \A d \in Classes : b \notin Range(fl[d])
  BY DEF HeapSound, ListsSound
<1>5. \A j \in NotHeld(v, c, h2) : j = k \/ j \in NotHeld(v, c, h)
  BY <1>1, <1>2 DEF NotHeld
<1> HIDE DEF v, k, c
<1>6. Cardinality(NotHeld(v, c, h \ {<<v, k>>})) = Cardinality(NotHeld(v, c, h)) + 1
  BY <1>1, <1>2, <1>3, NotHeldGive
<1>7. Cardinality(NotHeld(v, c, h2)) = a[v].cnt + 1
  BY <1>1, <1>3, <1>6
<1> QED
  BY <1>1, <1>2, <1>3, <1>4, <1>5, <1>7 DEF v, k, c

\* Free puts a block on its list.
LEMMA GiveBlock ==
  ASSUME NEW a, NEW fl, NEW h, NEW pte, HeapSound(a, fl, h, pte, None),
         NEW b \in h, a[b[1]].kind = "small",
         a[b[1]].cnt + 1 # BlocksPerArena[a[b[1]].size],
         NEW a2, a2 = Counted(a, b[1], a[b[1]].cnt + 1),
         NEW fl2, fl2 = [fl EXCEPT ![a[b[1]].size] = Append(fl[a[b[1]].size], b)],
         NEW h2, h2 = h \ {b}
  PROVE  HeapSound(a2, fl2, h2, pte, None)
<1> DEFINE v == b[1]
           k == b[2]
           c == a[v].size
           n == a[v].cnt + 1
           l == fl[c]
           l2 == Append(l, b)
<1>1. /\ a \in [ProcPages -> Headers] /\ fl \in [Classes -> Seq(ProcPages \X Nat)]
      /\ h \subseteq ProcPages \X Int
  BY DEF HeapSound, HeapTyped
<1>2. /\ v \in ProcPages /\ b = <<v, k>> /\ c \in Classes /\ k \in 1..BlocksPerArena[c]
      /\ \A d \in Classes : b \notin Range(fl[d])
      /\ \A j \in NotHeld(v, c, h2) : j = k \/ j \in NotHeld(v, c, h)
      /\ Cardinality(NotHeld(v, c, h2)) = n
  <2>1. HeapSound(a, fl, h, pte, None) /\ b \in h /\ a[b[1]].kind = "small" /\ h2 = h \ {b}
    OBVIOUS
  <2>2. v \in ProcPages /\ b = <<v, k>>
    BY ONLY <2>1, HeldBlock
  <2>3. c \in Classes /\ k \in 1..BlocksPerArena[c]
    BY ONLY <2>1, HeldBlock
  <2>4. \A d \in Classes : b \notin Range(fl[d])
    BY ONLY <2>1, HeldBlock
  <2>5. \A j \in NotHeld(v, c, h2) : j = k \/ j \in NotHeld(v, c, h)
    BY ONLY <2>1, HeldBlock
  <2>6. Cardinality(NotHeld(v, c, h2)) = n
    BY ONLY <2>1, HeldBlock
  <2> QED
    BY ONLY <2>2, <2>3, <2>4, <2>5, <2>6
<1>3. /\ a[v].kind = "small" /\ pte[v] # None /\ a[v].cnt \in Nat
      /\ \A j \in NotHeld(v, c, h) : <<v, j>> \in Range(l)
      /\ BlocksPerArena[c] \in Nat /\ n \in Nat /\ n < BlocksPerArena[c]
  <2>1. /\ a[v].kind = "small" /\ pte[v] # None
        /\ \A j \in NotHeld(v, c, h) : <<v, j>> \in Range(l)
    BY <1>2 DEF HeapSound, SmallArenas
  <2>2. a[v].cnt \in Nat
    BY <1>2, HeapPages
  <2>3. BlocksPerArena[c] \in Nat
    BY <1>2, MemoryAssumption
  <2>4. a[v].cnt < BlocksPerArena[c]
    <3>1. v # None
      BY <1>2, Constants, NoneNotFrame
    <3> QED
      BY <2>1, <1>2, <3>1 DEF HeapSound, SomeHeld
  <2>5. n # BlocksPerArena[c]
    OBVIOUS
  <2> QED
    BY <2>1, <2>2, <2>3, <2>4, <2>5
<1>4. /\ l2 \in Seq(ProcPages \X Nat) /\ IsInjective(l2) /\ Range(l2) = Range(l) \cup {b}
  <2>1. l \in Seq(ProcPages \X Nat) /\ IsInjective(l) /\ b \notin Range(l) /\ b \in ProcPages \X Nat
    BY <1>1, <1>2 DEF HeapSound, ListsSound
  <2> HIDE DEF l
  <2> QED
    BY ONLY <2>1, AppendToList
<1>5. a2 = Counted(a, v, n)
  OBVIOUS
<1>6. fl2 = [fl EXCEPT ![c] = l2]
  OBVIOUS
<1> HIDE DEF n, l2, c, v, k
<1>7. /\ a2 \in [ProcPages -> Headers]
      /\ \A w \in ProcPages : /\ a2[w].kind = a[w].kind /\ a2[w].size = a[w].size
                              /\ a2[w].cnt = IF w = v THEN n ELSE a[w].cnt
  <2>1. a \in [ProcPages -> Headers] /\ v \in ProcPages /\ n \in Nat
    BY <1>1, <1>2, <1>3
  <2> QED
    BY ONLY <2>1, <1>5, CountedIs
<1>8. /\ fl2 \in [Classes -> Seq(ProcPages \X Nat)]
      /\ \A d \in Classes : fl2[d] = IF d = c THEN l2 ELSE fl[d]
  <2>1. /\ fl \in [Classes -> Seq(ProcPages \X Nat)] /\ c \in Classes
        /\ l2 \in Seq(ProcPages \X Nat)
    BY <1>1, <1>2, <1>4
  <2> QED
    BY ONLY <2>1, <1>6
<1> HIDE DEF l
<1>9. HeapTyped(a2, fl2, h2)
  BY <1>1, <1>7, <1>8 DEF HeapTyped
<1>10. SmallArenas(a2, fl2, h2, pte)
  <2> SUFFICES ASSUME NEW w \in ProcPages, a2[w].kind = "small"
               PROVE  /\ a2[w].size \in Classes
                      /\ pte[w] # None
                      /\ a2[w].cnt = Cardinality(NotHeld(w, a2[w].size, h2))
                      /\ \A j \in NotHeld(w, a2[w].size, h2) : <<w, j>> \in Range(fl2[a2[w].size])
    BY DEF SmallArenas
  <2>1. CASE w = v
    <3>1. a2[w].size = c /\ a2[w].cnt = n /\ fl2[c] = l2
      BY <2>1, <1>2, <1>7, <1>8 DEF c
    <3>2. ASSUME NEW j \in NotHeld(v, c, h2) PROVE <<v, j>> \in Range(l2)
      BY <1>2, <1>3, <1>4
    <3> QED
      BY <2>1, <3>1, <3>2, <1>2, <1>3
  <2>2. CASE w # v
    <3> DEFINE d == a[w].size
    <3>1. /\ a2[w].size = d /\ a2[w].cnt = a[w].cnt /\ a[w].kind = "small"
      BY <2>2, <1>7
    <3>2. /\ d \in Classes /\ pte[w] # None
          /\ a[w].cnt = Cardinality(NotHeld(w, d, h))
          /\ \A j \in NotHeld(w, d, h) : <<w, j>> \in Range(fl[d])
      BY <3>1 DEF HeapSound, SmallArenas
    <3>3. NotHeld(w, d, h2) = NotHeld(w, d, h)
      BY <2>2, <1>2 DEF NotHeld
    <3> HIDE DEF d
    <3>4. ASSUME NEW j \in NotHeld(w, d, h) PROVE <<w, j>> \in Range(fl2[d])
      BY <3>2, <1>4, <1>8 DEF l
    <3> QED
      BY <3>1, <3>2, <3>3, <3>4
  <2> QED
    BY <2>1, <2>2
<1>11. SomeHeld(a2, None)
  <2> SUFFICES ASSUME NEW w \in ProcPages, a2[w].kind = "small", w # None
               PROVE  a2[w].cnt < BlocksPerArena[a2[w].size]
    BY DEF SomeHeld
  <2>1. CASE w = v
    BY <2>1, <1>3, <1>7 DEF c
  <2>2. CASE w # v
    BY <2>2, <1>7 DEF HeapSound, SomeHeld
  <2> QED
    BY <2>1, <2>2
<1>12. LargeArenas(a2, h2, pte)
  <2>1. \A w \in ProcPages : a[w].kind = "large" => <<w, -1>> # b
    BY <1>2, <1>3
  <2> QED
    BY <1>3, <1>7, <2>1 DEF HeapSound, LargeArenas
<1>13. HeldSound(a2, h2)
  <2>1. \A x \in h : x[1] \in ProcPages
    BY <1>1
  <2> QED
    BY <2>1, <1>7 DEF HeapSound, HeldSound
<1>14. ListsSound(a2, fl2, h2)
  <2> SUFFICES ASSUME NEW d \in Classes
               PROVE  /\ IsInjective(fl2[d])
                      /\ \A x \in Range(fl2[d]) :
                           /\ a2[x[1]].kind = "small" /\ a2[x[1]].size = d
                           /\ x[2] \in 1..BlocksPerArena[d] /\ x \notin h2
    BY DEF ListsSound
  <2>1. /\ IsInjective(fl[d])
        /\ \A x \in Range(fl[d]) : /\ a[x[1]].kind = "small" /\ a[x[1]].size = d
                                   /\ x[2] \in 1..BlocksPerArena[d] /\ x \notin h
    BY DEF HeapSound, ListsSound
  <2>2. \A x \in Range(fl[d]) : x[1] \in ProcPages
    BY HeapPages
  <2>3. \A x \in Range(fl[d]) : /\ a2[x[1]].kind = "small" /\ a2[x[1]].size = d
                                /\ x[2] \in 1..BlocksPerArena[d] /\ x \notin h2
    BY <2>1, <2>2, <1>7
  <2>4. CASE d = c
    <3>1. b[1] = v /\ b[2] = k
      BY DEF v, k
    <3>2. a2[b[1]].kind = "small" /\ a2[b[1]].size = c /\ b[2] \in 1..BlocksPerArena[c] /\ b \notin h2
      BY <3>1, <1>2, <1>3, <1>7 DEF c
    <3>3. fl2[d] = l2 /\ l = fl[d]
      BY <2>4, <1>8 DEF l
    <3>4. \A x \in Range(l2) : x \in Range(fl[d]) \/ x = b
      BY <1>4, <3>3
    <3> QED
      BY <2>3, <2>4, <3>2, <3>3, <3>4, <1>4
  <2>5. CASE d # c
    BY <2>1, <2>3, <2>5, <1>8
  <2> QED
    BY <2>4, <2>5
<1> QED
  BY <1>9, <1>10, <1>11, <1>12, <1>13, <1>14 DEF HeapSound

\* The blocks of S that are not in page v.
Off(S, v) == {x \in S : x[1] # v}

\* The pages of R keep out of every arena but that at v.
Lone(a, v, R) ==
  \A w \in ProcPages : w # v =>
    /\ a[w].kind = "small" => w \notin R
    /\ a[w].kind = "large" => \A u \in w..(w + a[w].cnt - 1) : u \notin R /\ u # v

\* The pages outside R stay.
Stay(pte, pte2, R) == \A w \in ProcPages : w \notin R /\ pte[w] # None => pte2[w] # None

\* The lists lose the blocks of v.
Shed(fl, fl2, v) ==
  \A d \in Classes : IsInjective(fl2[d]) /\ Range(fl2[d]) = Off(Range(fl[d]), v)

Gone(a, v) == [a EXCEPT ![v] = NoArena]

\* An arena that goes leaves the others as they were: R are its pages, none
\* of another arena.
LEMMA DropArena ==
  ASSUME NEW a, NEW fl, NEW h, NEW pte, HeapSound(a, fl, h, pte, None),
         NEW v \in ProcPages, NEW R, Lone(a, v, R),
         NEW pte2, Stay(pte, pte2, R),
         NEW a2, a2 = Gone(a, v),
         NEW h2, h2 = Off(h, v),
         NEW fl2 \in [Classes -> Seq(ProcPages \X Nat)], Shed(fl, fl2, v)
  PROVE  HeapSound(a2, fl2, h2, pte2, None)
<1>0. /\ h2 = {x \in h : x[1] # v}
      /\ \A d \in Classes : /\ Range(fl2[d]) = {x \in Range(fl[d]) : x[1] # v}
                            /\ IsInjective(fl2[d])
      /\ a2 = [a EXCEPT ![v] = NoArena]
  BY DEF Off, Shed, Gone
<1>1. a \in [ProcPages -> Headers] /\ h \subseteq ProcPages \X Int
  BY DEF HeapSound, HeapTyped
<1>2. NoArena \in Headers /\ NoArena.kind = "none"
  BY DEF Headers, NoArena
<1>3. /\ a2 \in [ProcPages -> Headers]
      /\ \A w \in ProcPages : w # v => a2[w] = a[w]
      /\ a2[v].kind = "none"
  BY <1>0, <1>1, <1>2
<1>4. HeapTyped(a2, fl2, h2)
  BY <1>0, <1>1, <1>3 DEF HeapTyped
<1>5. SmallArenas(a2, fl2, h2, pte2)
  <2> SUFFICES ASSUME NEW w \in ProcPages, a2[w].kind = "small"
               PROVE  /\ a2[w].size \in Classes
                      /\ pte2[w] # None
                      /\ a2[w].cnt = Cardinality(NotHeld(w, a2[w].size, h2))
                      /\ \A j \in NotHeld(w, a2[w].size, h2) : <<w, j>> \in Range(fl2[a2[w].size])
    BY DEF SmallArenas
  <2>1. w # v /\ a2[w] = a[w]
    BY <1>3
  <2>2. /\ a[w].size \in Classes /\ pte[w] # None
        /\ a[w].cnt = Cardinality(NotHeld(w, a[w].size, h))
        /\ \A j \in NotHeld(w, a[w].size, h) : <<w, j>> \in Range(fl[a[w].size])
    BY <2>1 DEF HeapSound, SmallArenas
  <2>3. NotHeld(w, a[w].size, h2) = NotHeld(w, a[w].size, h)
    BY <1>0, <2>1 DEF NotHeld
  <2>4. pte2[w] # None
    BY <2>1, <2>2 DEF Lone, Stay
  <2>5. ASSUME NEW j \in NotHeld(w, a[w].size, h) PROVE <<w, j>> \in Range(fl2[a[w].size])
    BY <1>0, <2>1, <2>2
  <2> QED
    BY <2>1, <2>2, <2>3, <2>4, <2>5
<1>6. SomeHeld(a2, None)
  BY <1>3 DEF HeapSound, SomeHeld
<1>7. LargeArenas(a2, h2, pte2)
  <2> SUFFICES ASSUME NEW w \in ProcPages, a2[w].kind = "large"
               PROVE  /\ a2[w].cnt > 0
                      /\ <<w, -1>> \in h2
                      /\ \A u \in w..(w + a2[w].cnt - 1) :
                           /\ u \in ProcPages /\ pte2[u] # None
                           /\ u # w => a2[u].kind = "none"
    BY DEF LargeArenas
  <2>1. w # v /\ a2[w] = a[w]
    BY <1>3
  <2>2. /\ a[w].cnt > 0 /\ <<w, -1>> \in h
        /\ \A u \in w..(w + a[w].cnt - 1) :
             /\ u \in ProcPages /\ pte[u] # None
             /\ u # w => a[u].kind = "none"
    BY <2>1 DEF HeapSound, LargeArenas
  <2>3. <<w, -1>> \in h2
    BY <1>0, <2>1, <2>2
  <2>4. ASSUME NEW u \in w..(w + a[w].cnt - 1)
        PROVE  /\ u \in ProcPages /\ pte2[u] # None
               /\ u # w => a2[u].kind = "none"
    <3>1. u \notin R /\ u # v
      BY <2>1 DEF Lone
    <3> QED
      BY <2>2, <3>1, <1>3 DEF Stay
  <2> QED
    BY <2>1, <2>2, <2>3, <2>4
<1>8. HeldSound(a2, h2)
  <2>1. \A x \in h2 : x \in h /\ x[1] \in ProcPages /\ a2[x[1]] = a[x[1]]
    BY <1>0, <1>1, <1>3
  <2> QED
    BY <2>1 DEF HeapSound, HeldSound
<1>9. ListsSound(a2, fl2, h2)
  <2> SUFFICES ASSUME NEW d \in Classes
               PROVE  /\ IsInjective(fl2[d])
                      /\ \A x \in Range(fl2[d]) :
                           /\ a2[x[1]].kind = "small" /\ a2[x[1]].size = d
                           /\ x[2] \in 1..BlocksPerArena[d] /\ x \notin h2
    BY DEF ListsSound
  <2>1. \A x \in Range(fl[d]) : x[1] \in ProcPages
    BY HeapPages
  <2>2. \A x \in Range(fl2[d]) : x \in Range(fl[d]) /\ a2[x[1]] = a[x[1]]
    BY <1>0, <2>1, <1>3
  <2> QED
    BY <1>0, <2>2 DEF HeapSound, ListsSound
<1> QED
  BY <1>4, <1>5, <1>6, <1>7, <1>8, <1>9 DEF HeapSound

\* The last block of an arena comes back, and the arena goes.
LEMMA DropSmall ==
  ASSUME NEW a, NEW fl, NEW h, NEW pte, HeapSound(a, fl, h, pte, None),
         NEW b \in h, a[b[1]].kind = "small",
         a[b[1]].cnt + 1 = BlocksPerArena[a[b[1]].size],
         NEW pte2, \A w \in ProcPages : w # b[1] /\ pte[w] # None => pte2[w] # None,
         NEW a2, a2 = [a EXCEPT ![b[1]] = NoArena],
         NEW h2, h2 = h \ {b},
         NEW fl2, fl2 = [fl EXCEPT ![a[b[1]].size] =
                           Without(Append(fl[a[b[1]].size], b), b[1])]
  PROVE  HeapSound(a2, fl2, h2, pte2, None)
<1> DEFINE v == b[1]
           k == b[2]
           c == a[v].size
           l == fl[c]
           l2 == Without(Append(l, b), v)
<1>1. /\ a \in [ProcPages -> Headers] /\ fl \in [Classes -> Seq(ProcPages \X Nat)]
      /\ h \subseteq ProcPages \X Int
  BY DEF HeapSound, HeapTyped
<1>2. /\ v \in ProcPages /\ b = <<v, k>> /\ c \in Classes /\ k \in 1..BlocksPerArena[c]
      /\ \A d \in Classes : b \notin Range(fl[d])
  BY HeldBlock
<1>3. Cardinality(NotHeld(v, c, h2)) = BlocksPerArena[c]
  <2>0. HeapSound(a, fl, h, pte, None) /\ b \in h /\ a[b[1]].kind = "small" /\ h2 = h \ {b}
    OBVIOUS
  <2>1. Cardinality(NotHeld(v, c, h2)) = a[b[1]].cnt + 1
    BY ONLY <2>0, HeldBlock
  <2> QED
    BY <2>1
<1>4. a[v].kind = "small"
  OBVIOUS
<1>5. l \in Seq(ProcPages \X Nat) /\ IsInjective(l) /\ b \notin Range(l) /\ b \in ProcPages \X Nat
  BY <1>1, <1>2 DEF HeapSound, ListsSound
<1>6. fl2 = [fl EXCEPT ![c] = l2]
  OBVIOUS
<1>7. a2 = [a EXCEPT ![v] = NoArena]
  OBVIOUS
<1> DEFINE R == {v}
<1>8. \A w \in ProcPages : w \notin R /\ pte[w] # None => pte2[w] # None
  OBVIOUS
<1>9. b[1] = v
  OBVIOUS
<1>10. /\ l2 \in Seq(ProcPages \X Nat) /\ IsInjective(l2)
       /\ Range(l2) = {x \in Range(l) : x[1] # v}
  <2> HIDE DEF l, v
  <2> DEFINE l1 == Append(l, b)
  <2>1. l1 \in Seq(ProcPages \X Nat) /\ IsInjective(l1) /\ Range(l1) = Range(l) \cup {b}
    BY ONLY <1>5, AppendToList
  <2> HIDE DEF l1
  <2>2. /\ Without(l1, v) \in Seq(ProcPages \X Nat) /\ IsInjective(Without(l1, v))
        /\ Range(Without(l1, v)) = {x \in Range(l1) : x[1] # v}
    BY ONLY <2>1, WithoutIs
  <2>3. {x \in Range(l1) : x[1] # v} = {x \in Range(l) : x[1] # v}
    BY <2>1, <1>9
  <2>4. l2 = Without(l1, v)
    BY DEF l1
  <2> QED
    BY <2>2, <2>3, <2>4
<1> HIDE DEF v, k, c, l2
<1>11. \A x \in h : x # b => x[1] # v
  <2> SUFFICES ASSUME NEW x \in h, x # b, x[1] = v PROVE FALSE
    OBVIOUS
  <2>1. x = <<v, x[2]>> /\ x \in h2
    BY HeapPages
  <2>2. x[2] \in 1..BlocksPerArena[c]
    BY <1>4 DEF HeapSound, HeldSound, c
  <2> QED
    BY <1>2, <1>3, <2>1, <2>2, NotHeldAll
<1>12. h2 = Off(h, v)
  BY <1>9, <1>11 DEF Off
<1>13. Lone(a, v, R)
  BY <1>4 DEF HeapSound, LargeArenas, Lone
<1>14. Stay(pte, pte2, R)
  BY <1>8 DEF Stay
<1>15. /\ fl2 \in [Classes -> Seq(ProcPages \X Nat)]
       /\ \A d \in Classes : fl2[d] = IF d = c THEN l2 ELSE fl[d]
  <2>1. /\ fl \in [Classes -> Seq(ProcPages \X Nat)] /\ c \in Classes
        /\ l2 \in Seq(ProcPages \X Nat)
    BY <1>1, <1>2, <1>10
  <2>2. \A d \in Classes : fl2[d] = IF d = c THEN l2 ELSE fl[d]
    BY ONLY <2>1, <1>6
  <2>3. fl2 \in [Classes -> Seq(ProcPages \X Nat)]
    BY ONLY <2>1, <1>6
  <2> QED
    BY <2>2, <2>3
<1>16. \A d \in Classes : /\ IsInjective(fl2[d])
                          /\ Range(fl2[d]) = {x \in Range(fl[d]) : x[1] # v}
  <2> SUFFICES ASSUME NEW d \in Classes
               PROVE  IsInjective(fl2[d]) /\ Range(fl2[d]) = {x \in Range(fl[d]) : x[1] # v}
    OBVIOUS
  <2>1. CASE d = c
    BY <2>1, <1>10, <1>15
  <2>2. CASE d # c
    <3>1. fl2[d] = fl[d] /\ IsInjective(fl[d])
      BY <2>2, <1>15 DEF HeapSound, ListsSound
    <3>2. \A x \in Range(fl[d]) : x[1] # v
      BY <2>2 DEF HeapSound, ListsSound, c
    <3> QED
      BY <3>1, <3>2
  <2> QED
    BY <2>1, <2>2
<1>17. Shed(fl, fl2, v)
  BY <1>16 DEF Off, Shed
<1>18. a2 = Gone(a, v)
  BY <1>7 DEF Gone
<1> HIDE DEF R
<1>19. HeapSound(a, fl, h, pte, None) /\ v \in ProcPages
       /\ fl2 \in [Classes -> Seq(ProcPages \X Nat)]
  BY <1>2, <1>15
<1> QED
  BY ONLY <1>12, <1>13, <1>14, <1>17, <1>18, <1>19, DropArena, Zenon

\* A large block comes back.
LargeRun(a, v) == v..(v + a[v].cnt - 1)

\* A large block comes back, and its pages go.
LEMMA DropLarge ==
  ASSUME NEW a, NEW fl, NEW h, NEW pte, HeapSound(a, fl, h, pte, None),
         NEW b \in h, a[b[1]].kind = "large",
         NEW R, R = LargeRun(a, b[1]),
         NEW pte2, Stay(pte, pte2, R),
         NEW a2, a2 = Gone(a, b[1]),
         NEW h2, h2 = h \ {b}
  PROVE  HeapSound(a2, fl, h2, pte2, None)
<1> DEFINE v == b[1]
<1>1. /\ a \in [ProcPages -> Headers] /\ fl \in [Classes -> Seq(ProcPages \X Nat)]
      /\ h \subseteq ProcPages \X Int
  BY DEF HeapSound, HeapTyped
<1>2. v \in ProcPages /\ b = <<v, b[2]>> /\ a[v].kind = "large" /\ b[1] = v
  BY HeapPages
<1>3. R = v..(v + a[v].cnt - 1) /\ a2 = Gone(a, v)
  BY DEF LargeRun
<1> HIDE DEF v
<1>4. \A x \in h : x[1] = v => x = <<v, -1>>
  <2> SUFFICES ASSUME NEW x \in h, x[1] = v PROVE x = <<v, -1>>
    OBVIOUS
  <2>1. x[2] = -1
    BY <1>2 DEF HeapSound, HeldSound
  <2>2. x = <<x[1], x[2]>>
    BY HeapPages
  <2> QED
    BY <2>1, <2>2
<1>5. h2 = Off(h, v)
  BY <1>2, <1>4 DEF Off
<1>6. \A d \in Classes : /\ IsInjective(fl[d])
                         /\ Range(fl[d]) = {x \in Range(fl[d]) : x[1] # v}
  BY <1>2 DEF HeapSound, ListsSound
<1>7. \A u \in R : u \in ProcPages /\ (u # v => a[u].kind = "none")
  BY <1>2, <1>3 DEF HeapSound, LargeArenas
<1>8. \A w \in ProcPages : w # v /\ a[w].kind = "small" => w \notin R
  BY <1>7
<1>9. ASSUME NEW w \in ProcPages, w # v, a[w].kind = "large", NEW u \in w..(w + a[w].cnt - 1)
      PROVE  u \notin R /\ u # v
  <2>1. \A y \in w..(w + a[w].cnt - 1) : y # w => a[y].kind = "none"
    BY <1>9 DEF HeapSound, LargeArenas
  <2>2. u # v
    BY <1>2, <1>9, <2>1
  <2>3. /\ w \in Nat /\ v \in Nat /\ a[w].cnt \in Nat /\ a[v].cnt \in Nat /\ u \in Int
    BY <1>2, HeapPages
  <2>4. ASSUME u \in R PROVE FALSE
    <3>1. v < u /\ u <= v + a[v].cnt - 1 /\ w <= u /\ u <= w + a[w].cnt - 1
      <4>1. u \in v..(v + a[v].cnt - 1)
        BY <1>3, <2>4
      <4>2. u \in w..(w + a[w].cnt - 1)
        OBVIOUS
      <4> QED
        BY ONLY <2>2, <2>3, <4>1, <4>2
    <3>2. CASE w > v
      <4>0. w \in v..(v + a[v].cnt - 1)
        BY ONLY <2>3, <3>1, <3>2
      <4>1. w \in R
        BY <1>3, <4>0
      <4> QED
        BY <1>7, <1>9, <4>1
    <3>3. CASE w < v
      <4>1. v \in w..(w + a[w].cnt - 1)
        BY <2>3, <3>1, <3>3
      <4> QED
        BY <1>2, <2>1, <3>3, <4>1
    <3> QED
      BY <1>9, <2>3, <3>2, <3>3
  <2> QED
    BY <2>2, <2>4
<1>10. Shed(fl, fl, v)
  BY <1>6 DEF Off, Shed
<1>11. Lone(a, v, R)
  BY <1>8, <1>9 DEF Lone
<1>12. a2 = Gone(a, v) /\ Stay(pte, pte2, R)
  BY <1>3
<1>13. HeapSound(a, fl, h, pte, None) /\ v \in ProcPages
       /\ fl \in [Classes -> Seq(ProcPages \X Nat)]
  BY <1>1, <1>2
<1> QED
  BY ONLY <1>13, <1>5, <1>10, <1>11, <1>12, DropArena, Zenon

-----------------------------------------------------------------------------
(* The actions                                                             *)

\* allocPage keeps the allocator as it should be, in every way it ends.
LEMMA AllocSound ==
  ASSUME NEW m, NEW gone, NEW lk, Sound(m, gone, lk), NEW s \in Spaces, NEW n \in Nat,
         NEW r, r = AllocPage(m, s, n), ~r.m.stopped
  PROVE  Sound(r.m, gone, lk) /\ Alloc(m, s, n, r) /\ ~m.stopped
<1>1. m \in Mems /\ OwnedIn(m, gone) /\ \A t \in Spaces : BitsExact(m, t, lk)
  BY DEF Sound
<1>2. Alloc(m, s, n, r)
  BY <1>1, BitsMarked, AllocPageIs
<1>3. r.m \in Mems /\ OwnedIn(r.m, gone) /\ ~m.stopped
  BY <1>1, <1>2 DEF Alloc
<1>4. \A t \in Spaces : BitsExact(r.m, t, lk)
  BY <1>1, <1>2, AllocBits
<1> QED
  BY <1>2, <1>3, <1>4 DEF Sound

\* freePage keeps the allocator as it should be.
LEMMA FreeSound ==
  ASSUME NEW m, NEW gone, NEW lk, Sound(m, gone, lk), NEW s \in Spaces, NEW v, NEW k,
         v..(v + k - 1) \subseteq PageNumbers,
         NEW r, r = FreePage(m, s, v, k), ~r.stopped
  PROVE  /\ Sound(r, gone, lk)
         /\ Unmapped(m, s, v..(v + k - 1), v..(v + k - 1), r)
         /\ ~m.stopped
<1> DEFINE run == v..(v + k - 1)
<1>1. m \in Mems /\ OwnedIn(m, gone) /\ \A t \in Spaces : BitsExact(m, t, lk)
  BY DEF Sound
<1>2. Unmapped(m, s, run, run, r)
  BY <1>1, FreePageIs
<1> HIDE DEF run
<1>3. r \in Mems /\ OwnedIn(r, gone) /\ ~m.stopped
  BY <1>1, <1>2 DEF Unmapped
<1>4. \A t \in Spaces : BitsExact(r, t, lk)
  BY <1>1, <1>2, UnmapBits
<1>5. Sound(r, gone, lk)
  BY <1>3, <1>4 DEF Sound
<1> QED
  BY <1>2, <1>3, <1>5 DEF run

\* Pages of the kernel that go are no pages of a process.
LEMMA UnmapOthers ==
  ASSUME NEW m \in Mems, NEW s \in Spaces, NEW run, NEW r, Unmapped(m, s, run, run, r)
  PROVE  \A t \in Spaces, w \in PageNumbers : t # s \/ w \notin run => r.pte[t][w] = m.pte[t][w]
<1> DEFINE pte == m.pte
<1>1. pte \in [Spaces -> [PageNumbers -> Frames \cup {None}]] /\ r.pte = Cleared(pte, s, run)
  BY MemFields DEF EntriesTyped, Unmapped
<1> HIDE DEF pte
<1>2. \A t \in Spaces, w \in PageNumbers : t # s \/ w \notin run => r.pte[t][w] = pte[t][w]
  BY <1>1 DEF Cleared
<1> QED
  BY <1>2 DEF pte

\* A step on the heap of one process.
LEMMA HeapsStep ==
  ASSUME Heaps, NEW p \in Procs, NEW a, NEW fl, NEW h,
         HeapSound(a, fl, h, mem'.pte[p], None),
         arena' = [arena EXCEPT ![p] = a], freeList' = [freeList EXCEPT ![p] = fl],
         held' = [held EXCEPT ![p] = h],
         \A q \in Procs, v \in ProcPages :
           q # p /\ mem.pte[q][v] # None => mem'.pte[q][v] # None
  PROVE  Heaps'
<1>1. /\ arena \in [Procs -> [ProcPages -> Headers]]
      /\ freeList \in [Procs -> [Classes -> Seq(ProcPages \X Nat)]]
      /\ held \in [Procs -> SUBSET (ProcPages \X Int)]
      /\ \A q \in Procs : HeapSound(arena[q], freeList[q], held[q], mem.pte[q], None)
  BY DEF Heaps
<1>2. /\ a \in [ProcPages -> Headers] /\ fl \in [Classes -> Seq(ProcPages \X Nat)]
      /\ h \in SUBSET (ProcPages \X Int)
  BY DEF HeapSound, HeapTyped
<1>3. arena' \in [Procs -> [ProcPages -> Headers]]
  BY <1>1, <1>2
<1>4. freeList' \in [Procs -> [Classes -> Seq(ProcPages \X Nat)]]
  BY <1>1, <1>2
<1>5. held' \in [Procs -> SUBSET (ProcPages \X Int)]
  BY <1>1, <1>2
<1>6. ASSUME NEW q \in Procs
      PROVE  HeapSound(arena'[q], freeList'[q], held'[q], mem'.pte[q], None)
  <2>1. CASE q = p
    BY <1>1, <2>1
  <2>2. CASE q # p
    <3>1. arena'[q] = arena[q] /\ freeList'[q] = freeList[q] /\ held'[q] = held[q]
      BY <1>1, <2>2
    <3>2. HeapSound(arena[q], freeList[q], held[q], mem.pte[q], None)
      BY <1>1
    <3>3. \A v \in ProcPages : mem.pte[q][v] # None => mem'.pte[q][v] # None
      BY <2>2
    <3>4. HeapSound(arena[q], freeList[q], held[q], mem'.pte[q], None)
      BY <3>2, <3>3, HeapMorePages
    <3> QED
      BY <3>1, <3>4
  <2> QED
    BY <2>1, <2>2
<1> QED
  BY <1>3, <1>4, <1>5, <1>6 DEF Heaps

\* A step that takes no page from a process and leaves the heaps alone.
LEMMA HeapsSame ==
  ASSUME Heaps, UNCHANGED heap,
         \A q \in Procs, v \in ProcPages : mem.pte[q][v] # None => mem'.pte[q][v] # None
  PROVE  Heaps'
<1>1. arena' = arena /\ freeList' = freeList /\ held' = held
  BY DEF heap
<1>2. ASSUME NEW q \in Procs
      PROVE  HeapSound(arena[q], freeList[q], held[q], mem'.pte[q], None)
  <2>1. HeapSound(arena[q], freeList[q], held[q], mem.pte[q], None)
    BY DEF Heaps
  <2> QED
    BY <2>1, HeapMorePages
<1> QED
  BY <1>1, <1>2 DEF Heaps

\* The pages of the other processes stay, and those of p are not to be none.
LEMMA ProcessPagesSame ==
  ASSUME ProcessPages, UNCHANGED <<life, kpages>>, NEW p \in Procs, life[p] = "alive",
         \A q \in Procs, v \in PageNumbers : q # p => mem'.pte[q][v] = mem.pte[q][v]
  PROVE  ProcessPages'
BY DEF ProcessPages, kpages

\* Pages for a process.
LEMMA ProcAlloc ==
  ASSUME NEW m, Sound(m, lost, lock), NEW p \in Procs, NEW n \in Nat,
         NEW r, r = AllocPage(m, p, n), ~r.m.stopped
  PROVE  /\ Sound(r.m, lost, lock)
         /\ \A q \in Procs, v \in PageNumbers : q # p => r.m.pte[q][v] = m.pte[q][v]
         /\ \A v \in PageNumbers : m.pte[p][v] # None => r.m.pte[p][v] # None
         /\ r.addr # None => /\ r.addr \in Nat
                             /\ \A u \in r.addr..(r.addr + n - 1) :
                                  u \in ProcPages /\ m.pte[p][u] = None /\ r.m.pte[p][u] # None
<1>0. p \in Spaces /\ Pages(p) = ProcPages /\ Procs \subseteq Spaces
  BY Constants, SpacePages
<1>1. Sound(r.m, lost, lock) /\ Alloc(m, p, n, r) /\ ~m.stopped
  BY <1>0, AllocSound
<1>2. Marked(m, p)
  BY <1>0, BitsMarked DEF Sound
<1>3. CASE r.addr = None
  <2>1. r.m.pte = m.pte
    BY <1>1, <1>3 DEF Alloc
  <2> QED
    BY <1>1, <1>3, <2>1
<1>4. CASE r.addr # None
  <2> DEFINE run == r.addr..(r.addr + n - 1)
  <2>1. /\ r.addr \in Nat /\ run \subseteq ProcPages \ m.vmap[p]
        /\ \A t \in Spaces, w \in PageNumbers :
             t # p \/ w \notin run => r.m.pte[t][w] = m.pte[t][w]
        /\ \A w \in run : r.m.pte[p][w] # None
    BY <1>0, <1>1, <1>4 DEF Alloc
  <2> HIDE DEF run
  <2>2. \A u \in run : u \in ProcPages /\ m.pte[p][u] = None
    BY <1>2, <2>1, Constants DEF Marked
  <2>3. \A v \in PageNumbers : m.pte[p][v] # None => r.m.pte[p][v] # None
    BY <1>0, <2>1, <2>2
  <2>4. \A q \in Procs, v \in PageNumbers : q # p => r.m.pte[q][v] = m.pte[q][v]
    BY <1>0, <2>1
  <2> QED
    BY <1>1, <2>1, <2>2, <2>3, <2>4 DEF run
<1> QED
  BY <1>3, <1>4

\* sysMalloc of a small block, from a free list or a new arena.
LEMMA MallocStep ==
  ASSUME MemoryInv, NEW p \in Procs, NEW c \in Classes, Malloc(p, c), ~mem'.stopped
  PROVE  MemoryInv'
<1> DEFINE r == IF freeList[p][c] = <<>> THEN AllocPage(mem, p, 1)
                ELSE [addr |-> None, m |-> mem]
           list == IF r.addr = None THEN freeList[p][c]
                   ELSE [i \in 1..BlocksPerArena[c] |-> <<r.addr, i>>]
           headers == IF r.addr = None THEN arena[p]
                      ELSE [arena[p] EXCEPT ![r.addr] =
                              [kind |-> "small", size |-> c, cnt |-> BlocksPerArena[c]]]
           b == Head(list)
           a2 == [headers EXCEPT ![b[1]].cnt = @ - 1]
           fl2 == [freeList[p] EXCEPT ![c] = Tail(list)]
           h2 == held[p] \cup {b}
<1>1. ~mem.stopped /\ life[p] = "alive"
  BY DEF Malloc, Calls
<1>2. Sound(mem, lost, lock) /\ ProcessPages /\ Heaps
  BY <1>1 DEF MemoryInv
<1>3. /\ mem' = r.m
      /\ list = <<>> => UNCHANGED heap
      /\ list # <<>> => /\ freeList' = [freeList EXCEPT ![p][c] = Tail(list)]
                        /\ arena' = [arena EXCEPT ![p] = a2]
                        /\ held' = [held EXCEPT ![p] = @ \cup {b}]
      /\ UNCHANGED <<life, kpages, lock, lost>>
  BY DEF Malloc
<1> HIDE DEF r, list, headers
<1>4. /\ Sound(mem', lost, lock)
      /\ \A q \in Procs, v \in PageNumbers : q # p => mem'.pte[q][v] = mem.pte[q][v]
      /\ \A v \in PageNumbers : mem.pte[p][v] # None => mem'.pte[p][v] # None
      /\ r.addr # None => /\ freeList[p][c] = <<>>
                          /\ r.addr \in ProcPages /\ mem.pte[p][r.addr] = None
                          /\ mem'.pte[p][r.addr] # None
  <2>1. CASE freeList[p][c] # <<>>
    <3>1. r = [addr |-> None, m |-> mem]
      BY <2>1 DEF r
    <3>2. r.addr = None /\ mem' = mem
      BY <1>3, <3>1
    <3> QED
      BY <1>2, <3>2
  <2>2. CASE freeList[p][c] = <<>>
    <3>1. r = AllocPage(mem, p, 1) /\ ~r.m.stopped
      BY <2>2, <1>3 DEF r
    <3>2. /\ Sound(r.m, lost, lock)
          /\ \A q \in Procs, v \in PageNumbers : q # p => r.m.pte[q][v] = mem.pte[q][v]
          /\ \A v \in PageNumbers : mem.pte[p][v] # None => r.m.pte[p][v] # None
          /\ r.addr # None => /\ r.addr \in Nat
                              /\ \A u \in r.addr..(r.addr + 1 - 1) :
                                   u \in ProcPages /\ mem.pte[p][u] = None
                                   /\ r.m.pte[p][u] # None
      BY <1>2, <3>1, ProcAlloc
    <3>3. r.addr # None => r.addr \in r.addr..(r.addr + 1 - 1)
      BY <3>2
    <3> QED
      BY <1>3, <2>2, <3>2, <3>3
  <2> QED
    BY <2>1, <2>2
<1>5. Sound(mem', lost', lock') /\ ProcessPages'
  BY <1>1, <1>2, <1>3, <1>4, ProcessPagesSame
<1>6. ProcPages \subseteq PageNumbers
  BY Constants
<1>7. HeapSound(arena[p], freeList[p], held[p], mem.pte[p], None)
  BY <1>2 DEF Heaps
<1>8. CASE list = <<>>
  <2>1. \A q \in Procs, v \in ProcPages : mem.pte[q][v] # None => mem'.pte[q][v] # None
    BY <1>4, <1>6
  <2>2. UNCHANGED heap
    BY <1>3, <1>8
  <2>3. Heaps'
    BY <1>2, <2>1, <2>2, HeapsSame
  <2> QED
    BY <1>5, <2>3 DEF MemoryInv
<1>9. CASE list # <<>>
  <2> DEFINE fl1 == [freeList[p] EXCEPT ![c] = list]
  <2>1. /\ freeList[p] \in [Classes -> Seq(ProcPages \X Nat)]
        /\ arena \in [Procs -> [ProcPages -> Headers]]
        /\ freeList \in [Procs -> [Classes -> Seq(ProcPages \X Nat)]]
        /\ held \in [Procs -> SUBSET (ProcPages \X Int)]
    BY <1>2 DEF Heaps
  <2>2. \E new \in {None, b[1]} : HeapSound(headers, fl1, held[p], mem'.pte[p], new)
    <3>1. CASE r.addr = None
      <4>1. list = freeList[p][c] /\ headers = arena[p]
        BY <3>1 DEF list, headers
      <4>2. fl1 = freeList[p]
        BY <2>1, <4>1
      <4>3. HeapSound(arena[p], freeList[p], held[p], mem'.pte[p], None)
        BY <1>4, <1>6, <1>7, HeapMorePages
      <4> QED
        BY <4>1, <4>2, <4>3
    <3>2. CASE r.addr # None
      <4> DEFINE v == r.addr
      <4>1. list = [i \in 1..BlocksPerArena[c] |-> <<v, i>>]
        BY <3>2 DEF list
      <4>2. headers = [arena[p] EXCEPT ![v] =
                         [kind |-> "small", size |-> c, cnt |-> BlocksPerArena[c]]]
        BY <3>2 DEF headers
      <4>3. /\ v \in ProcPages /\ mem.pte[p][v] = None /\ mem'.pte[p][v] # None
            /\ freeList[p][c] = <<>>
            /\ \A w \in ProcPages : mem.pte[p][w] # None => mem'.pte[p][w] # None
        BY <1>4, <1>6, <3>2
      <4>4. b[1] = v
        <5>1. 1 \in 1..BlocksPerArena[c]
          BY MemoryAssumption
        <5>2. Head(list) = list[1]
          BY <4>1, <5>1
        <5>3. list[1] = <<v, 1>>
          BY <4>1, <5>1
        <5>4. b = <<v, 1>>
          BY <5>2, <5>3
        <5> QED
          BY <5>4
      <4> DEFINE pte1 == mem.pte[p]
                 pte2 == mem'.pte[p]
      <4>5. /\ HeapSound(arena[p], freeList[p], held[p], pte1, None)
            /\ pte1[v] = None /\ pte2[v] # None
            /\ \A w \in ProcPages : pte1[w] # None => pte2[w] # None
        BY <1>7, <4>3
      <4> HIDE DEF v, b, pte1, pte2, fl1
      <4>6. fl1 = [freeList[p] EXCEPT ![c] = list]
        BY DEF fl1
      <4>7. HeapSound(headers, fl1, held[p], pte2, v)
        BY ONLY <4>1, <4>2, <4>3, <4>5, <4>6, AddArena, c \in Classes
      <4> QED
        BY <4>4, <4>7 DEF pte2
    <3> QED
      BY <3>1, <3>2
  <2>3. PICK new \in {None, b[1]} : HeapSound(headers, fl1, held[p], mem'.pte[p], new)
    BY <2>2
  <2>4. fl1[c] = list
    <3> QED
      BY <2>1
  <2>5. b = Head(fl1[c]) /\ fl1[c] # <<>>
    <3> QED
      BY <1>9, <2>4
  <2>6. [fl1 EXCEPT ![c] = Tail(fl1[c])] = fl2
    <3> QED
      BY <2>1, <2>4
  <2>7. HeapSound(a2, fl2, h2, mem'.pte[p], None)
    <3> DEFINE fl3 == [fl1 EXCEPT ![c] = Tail(fl1[c])]
    <3> HIDE DEF b, fl1, fl2, fl3
    <3>1. fl3 = [fl1 EXCEPT ![c] = Tail(fl1[c])]
      BY DEF fl3
    <3>2. HeapSound(a2, fl3, h2, mem'.pte[p], None)
      BY <2>3, <2>5, <3>1, TakeBlock
    <3> QED
      BY <2>6, <3>2 DEF fl3
  <2>8. /\ arena' = [arena EXCEPT ![p] = a2] /\ freeList' = [freeList EXCEPT ![p] = fl2]
        /\ held' = [held EXCEPT ![p] = h2]
    <3> HIDE DEF a2, b
    <3> QED
      BY <1>3, <1>9, <2>1
  <2>9. \A q \in Procs, v \in ProcPages : q # p /\ mem.pte[q][v] # None => mem'.pte[q][v] # None
    BY <1>4, <1>6
  <2> HIDE DEF a2, fl2, h2
  <2>10. Heaps'
    BY <1>2, <2>7, <2>8, <2>9, HeapsStep
  <2> QED
    BY <1>5, <2>10 DEF MemoryInv
<1> QED
  BY <1>8, <1>9

\* sysMalloc of a large block.
LEMMA MallocLargeStep ==
  ASSUME MemoryInv, NEW p \in Procs, NEW n \in 1..MaxLarge, MallocLarge(p, n), ~mem'.stopped
  PROVE  MemoryInv'
<1> DEFINE r == AllocPage(mem, p, n)
           a2 == [arena[p] EXCEPT ![r.addr] = [kind |-> "large", size |-> None, cnt |-> n]]
           h2 == held[p] \cup {<<r.addr, -1>>}
<1>0. ~mem.stopped /\ life[p] = "alive" /\ n \in Nat \ {0}
  <2>1. ~mem.stopped /\ life[p] = "alive"
    BY DEF MallocLarge, Calls
  <2>2. n \in Nat \ {0}
    BY MemoryAssumption
  <2> QED
    BY <2>1, <2>2
<1>1. Sound(mem, lost, lock) /\ ProcessPages /\ Heaps
  BY <1>0 DEF MemoryInv
<1>2. /\ mem' = r.m
      /\ r.addr = None => UNCHANGED heap
      /\ r.addr # None => /\ arena' = [arena EXCEPT ![p][r.addr] =
                                         [kind |-> "large", size |-> None, cnt |-> n]]
                          /\ held' = [held EXCEPT ![p] = @ \cup {<<r.addr, -1>>}]
                          /\ UNCHANGED freeList
      /\ UNCHANGED <<life, kpages, lock, lost>>
  BY DEF MallocLarge
<1>d. r = AllocPage(mem, p, n)
  OBVIOUS
<1> HIDE DEF r
<1>3. /\ Sound(mem', lost, lock)
      /\ \A q \in Procs, v \in PageNumbers : q # p => mem'.pte[q][v] = mem.pte[q][v]
      /\ \A v \in PageNumbers : mem.pte[p][v] # None => mem'.pte[p][v] # None
      /\ r.addr # None => /\ r.addr \in Nat
                          /\ \A u \in r.addr..(r.addr + n - 1) :
                               u \in ProcPages /\ mem.pte[p][u] = None /\ mem'.pte[p][u] # None
  <2>1. ~r.m.stopped /\ n \in Nat
    BY <1>0, <1>2
  <2>2. /\ Sound(r.m, lost, lock)
        /\ \A q \in Procs, v \in PageNumbers : q # p => r.m.pte[q][v] = mem.pte[q][v]
        /\ \A v \in PageNumbers : mem.pte[p][v] # None => r.m.pte[p][v] # None
        /\ r.addr # None => /\ r.addr \in Nat
                            /\ \A u \in r.addr..(r.addr + n - 1) :
                                 u \in ProcPages /\ mem.pte[p][u] = None /\ r.m.pte[p][u] # None
    BY <1>1, <1>d, <2>1, ProcAlloc
  <2> QED
    BY <1>2, <2>2
<1>4. Sound(mem', lost', lock') /\ ProcessPages'
  BY <1>0, <1>1, <1>2, <1>3, ProcessPagesSame
<1>5. ProcPages \subseteq PageNumbers
  BY Constants
<1>6. CASE r.addr = None
  <2>1. \A q \in Procs, v \in ProcPages : mem.pte[q][v] # None => mem'.pte[q][v] # None
    BY <1>3, <1>5
  <2>2. Heaps'
    BY <1>1, <1>2, <1>6, <2>1, HeapsSame
  <2> QED
    BY <1>4, <2>2 DEF MemoryInv
<1>7. CASE r.addr # None
  <2> DEFINE v == r.addr
             pte1 == mem.pte[p]
             pte2 == mem'.pte[p]
  <2>1. HeapSound(arena[p], freeList[p], held[p], pte1, None)
    BY <1>1 DEF Heaps
  <2>2. /\ v \in Nat
        /\ \A u \in v..(v + n - 1) : u \in ProcPages /\ pte1[u] = None
        /\ \A u \in v..(v + n - 1) : pte2[u] # None
        /\ \A w \in ProcPages : pte1[w] # None => pte2[w] # None
    BY <1>3, <1>5, <1>7
  <2>3. v \in ProcPages
    <3>1. v \in v..(v + n - 1)
      BY <1>0, <2>2
    <3> QED
      BY <2>2, <3>1
  <2>4. a2 = [arena[p] EXCEPT ![v] = [kind |-> "large", size |-> None, cnt |-> n]]
    OBVIOUS
  <2>5. h2 = held[p] \cup {<<v, -1>>}
    OBVIOUS
  <2> HIDE DEF v, pte1, pte2, a2
  <2>6. HeapSound(a2, freeList[p], held[p] \cup {<<v, -1>>}, pte2, None)
    BY ONLY <1>0, <2>1, <2>2, <2>3, <2>4, AddLarge
  <2>7. HeapSound(a2, freeList[p], h2, mem'.pte[p], None)
    BY <2>5, <2>6 DEF pte2
  <2>8. /\ freeList[p] \in [Classes -> Seq(ProcPages \X Nat)]
        /\ arena \in [Procs -> [ProcPages -> Headers]]
        /\ freeList \in [Procs -> [Classes -> Seq(ProcPages \X Nat)]]
        /\ held \in [Procs -> SUBSET (ProcPages \X Int)]
    BY <1>1 DEF Heaps
  <2>9. /\ arena' = [arena EXCEPT ![p] = a2] /\ freeList' = [freeList EXCEPT ![p] = freeList[p]]
        /\ held' = [held EXCEPT ![p] = h2]
    BY <1>2, <1>7, <2>8 DEF a2
  <2>10. \A q \in Procs, w \in ProcPages : q # p /\ mem.pte[q][w] # None => mem'.pte[q][w] # None
    BY <1>3, <1>5
  <2> HIDE DEF h2
  <2>11. Heaps'
    BY <1>1, <2>7, <2>9, <2>10, HeapsStep
  <2> QED
    BY <1>4, <2>11 DEF MemoryInv
<1> QED
  BY <1>6, <1>7

\* sysFree of a block, of the last of its arena, and of a large one.
LEMMA FreeStep ==
  ASSUME MemoryInv, NEW p \in Procs, NEW b \in held[p], Free(p, b), ~mem'.stopped
  PROVE  MemoryInv'
<1> DEFINE a == arena[p]
           v == b[1]
           hd == a[v]
           c == hd.size
           k == IF hd.kind = "large" THEN hd.cnt ELSE 1
           list == Append(freeList[p][c], b)
           last == hd.kind = "large" \/ hd.cnt + 1 = BlocksPerArena[c]
           run == v..(v + k - 1)
           h2 == held[p] \ {b}
<1>1. ~mem.stopped /\ life[p] = "alive"
  BY DEF Free, Calls
<1>2. Sound(mem, lost, lock) /\ ProcessPages /\ Heaps
  BY <1>1 DEF MemoryInv
<1>3. /\ held' = [held EXCEPT ![p] = @ \ {b}]
      /\ mem' = IF last THEN FreePage(mem, p, v, k) ELSE mem
      /\ arena' = [arena EXCEPT ![p][v] = IF last THEN NoArena ELSE [hd EXCEPT !.cnt = @ + 1]]
      /\ freeList' = IF hd.kind = "large" THEN freeList
                     ELSE [freeList EXCEPT ![p][c] = IF last THEN Without(list, v) ELSE list]
      /\ UNCHANGED <<life, kpages, lock, lost>>
  BY DEF Free
<1>4. /\ arena \in [Procs -> [ProcPages -> Headers]]
      /\ freeList \in [Procs -> [Classes -> Seq(ProcPages \X Nat)]]
      /\ held \in [Procs -> SUBSET (ProcPages \X Int)]
      /\ HeapSound(a, freeList[p], held[p], mem.pte[p], None)
  BY <1>2 DEF Heaps
<1>5. /\ v \in ProcPages /\ v \in Nat /\ hd.cnt \in Nat
      /\ hd.kind \in {"small", "large"} /\ ProcPages \subseteq PageNumbers
  <2>1. v \in ProcPages
    BY <1>4
  <2>2. hd.kind \in {"small", "large"}
    BY <1>4 DEF HeapSound, HeldSound
  <2>3. v \in Nat /\ hd.cnt \in Nat
    BY <1>4, <2>1, HeapPages
  <2> QED
    BY <2>1, <2>2, <2>3, Constants
<1>6. run \subseteq ProcPages
  <2>1. CASE hd.kind = "large"
    <3>1. run = v..(v + a[v].cnt - 1)
      BY <2>1
    <3> QED
      BY <1>4, <1>5, <2>1, <3>1 DEF HeapSound, LargeArenas
  <2>2. CASE hd.kind = "small"
    <3>1. run = v..(v + 1 - 1)
      BY <2>2
    <3>2. run = {v}
      BY <1>5, <3>1
    <3> QED
      BY <1>5, <3>2
  <2> QED
    BY <1>5, <2>1, <2>2
<1> HIDE DEF a, v, hd, c, k, list, last, run, h2
<1>7. /\ Sound(mem', lost, lock)
      /\ \A q \in Procs, w \in PageNumbers : q # p => mem'.pte[q][w] = mem.pte[q][w]
      /\ \A w \in PageNumbers : w \notin run => mem'.pte[p][w] = mem.pte[p][w]
      /\ ~last => mem' = mem
  <2>1. CASE last
    <3>1. mem' = FreePage(mem, p, v, k) /\ v..(v + k - 1) \subseteq PageNumbers
      BY <1>3, <1>5, <1>6, <2>1 DEF run
    <3>2. p \in Spaces /\ Procs \subseteq Spaces
      BY Constants
    <3>3. Sound(mem', lost, lock) /\ Unmapped(mem, p, run, run, mem')
      BY <1>2, <3>1, <3>2, FreeSound DEF run
    <3>4. \A t \in Spaces, w \in PageNumbers :
            t # p \/ w \notin run => mem'.pte[t][w] = mem.pte[t][w]
      BY <1>2, <3>2, <3>3, UnmapOthers DEF Sound
    <3> QED
      BY <2>1, <3>2, <3>3, <3>4
  <2>2. CASE ~last
    BY <1>2, <1>3, <2>2
  <2> QED
    BY <2>1, <2>2
<1>8. Sound(mem', lost', lock') /\ ProcessPages'
  BY <1>1, <1>2, <1>3, <1>7, ProcessPagesSame
<1>9. \A q \in Procs, w \in ProcPages : q # p /\ mem.pte[q][w] # None => mem'.pte[q][w] # None
  BY <1>5, <1>7
<1>10. held' = [held EXCEPT ![p] = h2]
  BY <1>3 DEF h2
<1> DEFINE pte1 == mem.pte[p]
           pte2 == mem'.pte[p]
<1>11. \A w \in ProcPages : w \notin run /\ pte1[w] # None => pte2[w] # None
  BY <1>5, <1>7
<1>12. HeapSound(a, freeList[p], held[p], pte1, None) /\ h2 = held[p] \ {b} /\ b \in held[p]
  BY <1>4 DEF h2
<1>13. SUFFICES Heaps'
  BY <1>8 DEF MemoryInv
<1>14. CASE hd.kind = "large"
  <2> DEFINE a2 == [a EXCEPT ![v] = NoArena]
  <2>1. arena' = [arena EXCEPT ![p] = a2] /\ freeList' = [freeList EXCEPT ![p] = freeList[p]]
    BY <1>3, <1>4, <1>14 DEF last, a
  <2>2. a[b[1]].kind = "large" /\ run = LargeRun(a, b[1])
    BY <1>14 DEF run, k, hd, v, LargeRun
  <2>3. a2 = Gone(a, b[1]) /\ Stay(pte1, pte2, run)
    BY <1>11 DEF v, Gone, Stay
  <2> HIDE DEF a2, pte1, pte2
  <2>4. HeapSound(a2, freeList[p], h2, pte2, None)
    BY ONLY <1>12, <2>2, <2>3, DropLarge, Zenon
  <2>5. HeapSound(a2, freeList[p], h2, mem'.pte[p], None)
    BY <2>4 DEF pte2
  <2> QED
    BY <1>2, <1>9, <1>10, <2>1, <2>5, HeapsStep
<1>15. CASE hd.kind = "small" /\ last
  <2> DEFINE a2 == [a EXCEPT ![v] = NoArena]
             l2 == Without(list, v)
             fl2 == [freeList[p] EXCEPT ![c] = l2]
  <2>1. arena' = [arena EXCEPT ![p] = a2] /\ freeList' = [freeList EXCEPT ![p] = fl2]
    <3> HIDE DEF l2
    <3>1. freeList' = [freeList EXCEPT ![p][c] = l2]
      BY <1>3, <1>15 DEF l2
    <3>2. arena' = [arena EXCEPT ![p][v] = NoArena]
      BY <1>3, <1>15
    <3> QED
      BY <1>4, <3>1, <3>2 DEF a
  <2>2. /\ a[b[1]].kind = "small" /\ a[b[1]].cnt + 1 = BlocksPerArena[a[b[1]].size]
        /\ run = {b[1]}
    BY <1>5, <1>15 DEF run, k, hd, v, c, last
  <2>3. a2 = [a EXCEPT ![b[1]] = NoArena]
    BY DEF v
  <2>4. fl2 = [freeList[p] EXCEPT ![a[b[1]].size] =
                 Without(Append(freeList[p][a[b[1]].size], b), b[1])]
    BY DEF v, c, hd, list
  <2>5. \A w \in ProcPages : w # b[1] /\ pte1[w] # None => pte2[w] # None
    BY <1>11, <2>2
  <2> HIDE DEF a2, l2, fl2, pte1, pte2
  <2>6. HeapSound(a2, fl2, h2, pte2, None)
    BY ONLY <1>12, <2>2, <2>3, <2>4, <2>5, DropSmall
  <2>7. HeapSound(a2, fl2, h2, mem'.pte[p], None)
    BY <2>6 DEF pte2
  <2> QED
    BY <1>2, <1>9, <1>10, <2>1, <2>7, HeapsStep
<1>16. CASE hd.kind = "small" /\ ~last
  <2> DEFINE n == hd.cnt + 1
             a2 == Counted(a, v, n)
             fl2 == [freeList[p] EXCEPT ![c] = list]
  <2>1. arena' = [arena EXCEPT ![p] = a2] /\ freeList' = [freeList EXCEPT ![p] = fl2]
    <3>1. freeList' = [freeList EXCEPT ![p][c] = list]
      BY <1>3, <1>16
    <3>2. arena' = [arena EXCEPT ![p][v] = [hd EXCEPT !.cnt = @ + 1]]
      BY <1>3, <1>16
    <3>3. a2 = [a EXCEPT ![v] = [hd EXCEPT !.cnt = @ + 1]]
      BY <1>4, <1>5 DEF Counted, hd, a
    <3> HIDE DEF a2
    <3> QED
      BY <1>4, <3>1, <3>2, <3>3 DEF a
  <2>2. /\ a[b[1]].kind = "small" /\ a[b[1]].cnt + 1 # BlocksPerArena[a[b[1]].size]
        /\ mem' = mem
    BY <1>7, <1>16 DEF hd, v, c, last
  <2>3. a2 = Counted(a, b[1], a[b[1]].cnt + 1)
    BY DEF v, hd
  <2>4. fl2 = [freeList[p] EXCEPT ![a[b[1]].size] = Append(freeList[p][a[b[1]].size], b)]
    BY DEF v, c, hd, list
  <2> HIDE DEF a2, fl2, n, pte1
  <2>6. HeapSound(a2, fl2, h2, pte1, None)
    BY ONLY <1>12, <2>2, <2>3, <2>4, GiveBlock
  <2>7. HeapSound(a2, fl2, h2, mem'.pte[p], None)
    BY <2>2, <2>6 DEF pte1
  <2> QED
    BY <1>2, <1>9, <1>10, <2>1, <2>7, HeapsStep
<1> QED
  BY <1>5, <1>14, <1>15, <1>16

\* getOnePage; without a frame the lock stays taken, and then the page is the
\* first of a program.
LEMMA GetOnePageSound ==
  ASSUME NEW m, NEW gone, NEW lk, Sound(m, gone, lk), NEW p \in Procs, NEW v \in ProcPages,
         v \notin Mapped(m, p), NEW r, r = GetOnePage(m, p, v), ~r.m.stopped,
         NEW lk2, r.ok => lk2 = lk, ~r.ok => lk2 # None /\ v = ProgPage
  PROVE  /\ Sound(r.m, gone, lk2)
         /\ \A q \in Procs, w \in PageNumbers : q # p => r.m.pte[q][w] = m.pte[q][w]
         /\ \A w \in PageNumbers : m.pte[p][w] # None => r.m.pte[p][w] # None
         /\ ~m.stopped
<1> DEFINE run == {v}
           m1 == Mark(m, p, run)
<1>0. /\ p \in Spaces /\ Pages(p) = ProcPages /\ Procs \subseteq Spaces /\ run \subseteq PageNumbers
      /\ ProcPages \subseteq PageNumbers
  BY Constants, SpacePages
<1>1. m \in Mems /\ OwnedIn(m, gone) /\ \A t \in Spaces : BitsExact(m, t, lk)
  BY DEF Sound
<1>2. r = TakeFrame(m1, p, v)
  BY DEF GetOnePage
<1> HIDE DEF run
<1>3. /\ m1 \in Mems
      /\ m1.used = m.used /\ m1.vmap = [m.vmap EXCEPT ![p] = @ \cup run] /\ m1.pte = m.pte
      /\ m1.tables = m.tables /\ m1.stopped = m.stopped
  BY <1>0, <1>1, MarkIs
<1> HIDE DEF m1
<1>4. Took(m1, p, v, r)
  BY <1>0, <1>2, <1>3, TakeFrameTook
<1>5. r.m \in Mems /\ r.m.vmap = m1.vmap /\ ~m.stopped
  BY <1>3, <1>4 DEF Took
<1>6. OwnedIn(r.m, gone)
  BY <1>1, <1>3, <1>4 DEF Took, OwnedIn
<1>7. /\ r.ok => /\ r.m.pte[p][v] # None
                 /\ \A t \in Spaces, w \in PageNumbers :
                      t # p \/ w # v => r.m.pte[t][w] = m.pte[t][w]
      /\ ~r.ok => r.m.pte = m.pte
  <2>1. ASSUME r.ok
        PROVE  /\ r.m.pte[p][v] # None
               /\ \A t \in Spaces, w \in PageNumbers :
                    t # p \/ w # v => r.m.pte[t][w] = m.pte[t][w]
    <3>1. PICK f \in Frames : r.m.pte = [m1.pte EXCEPT ![p][v] = f]
      BY <1>4, <2>1 DEF Took
    <3> DEFINE pte == m.pte
    <3>2. pte \in [Spaces -> [PageNumbers -> Frames \cup {None}]]
      BY <1>1, MemFields DEF EntriesTyped
    <3>3. r.m.pte = [pte EXCEPT ![p][v] = f] /\ f # None
      BY <1>3, <3>1, NoneNotFrame
    <3> HIDE DEF pte
    <3>4. /\ r.m.pte[p][v] = f
          /\ \A t \in Spaces, w \in PageNumbers : t # p \/ w # v => r.m.pte[t][w] = pte[t][w]
      BY <1>0, <3>2, <3>3
    <3> QED
      BY <3>3, <3>4 DEF pte
  <2>2. ~r.ok => r.m.pte = m.pte
    BY <1>3, <1>4 DEF Took
  <2> QED
    BY <2>1, <2>2
<1>8. m.vmap \in [Spaces -> SUBSET PageNumbers]
  BY <1>1, MemFields
<1>9. ASSUME NEW t \in Spaces PROVE BitsExact(r.m, t, lk2)
  <2>1. BitsExact(m, t, lk) /\ Pages(t) \subseteq PageNumbers
    BY <1>1, SpacePages
  <2>2. lk # None => lk2 # None
    OBVIOUS
  <2>3. CASE t # p
    <3>1. r.m.vmap[t] = m.vmap[t] /\ \A w \in PageNumbers : r.m.pte[t][w] = m.pte[t][w]
      BY <1>3, <1>5, <1>7, <1>8, <2>3
    <3>2. Mapped(r.m, t) = Mapped(m, t)
      BY <2>1, <3>1 DEF Mapped
    <3> QED
      BY <2>1, <2>2, <3>1, <3>2 DEF BitsExact
  <2>4. CASE t = p /\ r.ok
    <3>1. r.m.vmap[p] = m.vmap[p] \cup {v}
      BY <1>0, <1>3, <1>5, <1>8 DEF run
    <3>2. Mapped(r.m, p) = Mapped(m, p) \cup {v}
      BY <1>0, <1>7, <2>4 DEF Mapped
    <3>3. \A w \in PageNumbers : r.m.pte[p][w] # None => w \in Pages(p)
      BY <1>0, <1>7, <2>1, <2>4 DEF BitsExact
    <3>4. m.vmap[p] \cup {v} \subseteq Pages(p)
      BY <1>0, <2>1, <2>4 DEF BitsExact
    <3>5. \/ m.vmap[p] = Mapped(m, p)
          \/ lk2 # None /\ m.vmap[p] \ {ProgPage} = Mapped(m, p)
      BY <2>1, <2>2, <2>4 DEF BitsExact
    <3>6. \/ r.m.vmap[p] = Mapped(r.m, p)
          \/ lk2 # None /\ r.m.vmap[p] \ {ProgPage} = Mapped(r.m, p)
      <4>1. CASE m.vmap[p] = Mapped(m, p)
        BY <3>1, <3>2, <4>1
      <4>2. CASE lk2 # None /\ m.vmap[p] \ {ProgPage} = Mapped(m, p)
        <5>1. CASE v = ProgPage
          BY <3>1, <3>2, <4>2, <5>1
        <5>2. CASE v # ProgPage
          BY <3>1, <3>2, <4>2, <5>2
        <5> QED
          BY <5>1, <5>2
      <4> QED
        BY <3>5, <4>1, <4>2
    <3> QED
      BY <2>4, <3>1, <3>3, <3>4, <3>6 DEF BitsExact
  <2>5. CASE t = p /\ ~r.ok
    <3>1. r.m.vmap[p] = m.vmap[p] \cup {v} /\ r.m.pte = m.pte /\ v = ProgPage /\ lk2 # None
      BY <1>0, <1>3, <1>5, <1>7, <1>8, <2>5 DEF run
    <3>2. Mapped(r.m, p) = Mapped(m, p)
      BY <3>1 DEF Mapped
    <3>3. \/ m.vmap[p] = Mapped(m, p)
          \/ m.vmap[p] \ {ProgPage} = Mapped(m, p)
      BY <2>1, <2>5 DEF BitsExact
    <3>4. r.m.vmap[p] \ {ProgPage} = Mapped(r.m, p)
      BY <3>1, <3>2, <3>3
    <3>5. /\ r.m.vmap[p] \subseteq Pages(p)
          /\ \A w \in PageNumbers : r.m.pte[p][w] # None => w \in Pages(p)
      BY <1>0, <2>1, <2>5, <3>1 DEF BitsExact
    <3> QED
      BY <2>5, <3>1, <3>4, <3>5 DEF BitsExact
  <2> QED
    BY <2>3, <2>4, <2>5
<1>10. Sound(r.m, gone, lk2)
  BY <1>5, <1>6, <1>9 DEF Sound
<1>11. \A q \in Procs, w \in PageNumbers : q # p => r.m.pte[q][w] = m.pte[q][w]
  BY <1>0, <1>7
<1>12. \A w \in PageNumbers : m.pte[p][w] # None => r.m.pte[p][w] # None
  BY <1>0, <1>7
<1> QED
  BY <1>5, <1>10, <1>11, <1>12

\* segmentLoad, with the page there, taken, or not to be had.
LEMMA ExecStep ==
  ASSUME MemoryInv, NEW p \in Procs, NEW n, Exec(p, n), ~mem'.stopped
  PROVE  MemoryInv'
<1> DEFINE r == IF ProgPage \in Mapped(mem, p) THEN [ok |-> TRUE, m |-> mem]
                ELSE GetOnePage(mem, p, ProgPage)
<1>1. ~mem.stopped /\ life[p] = "alive"
  BY DEF Exec, Calls
<1>2. Sound(mem, lost, lock) /\ ProcessPages /\ Heaps
  BY <1>1 DEF MemoryInv
<1>3. /\ mem' = IF r.ok /\ ~(ProgPage..(ProgPage + n - 1) \subseteq Mapped(r.m, p))
                THEN Stop(r.m) ELSE r.m
      /\ lock' = IF r.ok THEN lock ELSE pcb[p]
      /\ UNCHANGED <<life, kpages, heap, lost>>
  BY DEF Exec
<1> HIDE DEF r
<1>4. ProcPages \subseteq PageNumbers /\ ProgPage \in ProcPages
  BY Constants
<1>5. pcb[p] # None
  BY <1>1, <1>2 DEF ProcessPages
<1>6. r.m \in Mems
  <2>1. CASE ProgPage \in Mapped(mem, p)
    <3>1. r = [ok |-> TRUE, m |-> mem]
      BY <2>1 DEF r
    <3> QED
      BY <1>2, <3>1 DEF Sound
  <2>2. CASE ProgPage \notin Mapped(mem, p)
    <3> DEFINE run == {ProgPage}
               m1 == Mark(mem, p, run)
    <3>1. r = TakeFrame(m1, p, ProgPage)
      BY <2>2 DEF r, GetOnePage
    <3>2. mem \in Mems /\ p \in Spaces /\ run \subseteq PageNumbers /\ ProgPage \in Pages(p)
      BY <1>2, <1>4, Constants, SpacePages DEF Sound
    <3> HIDE DEF run
    <3>3. m1 \in Mems
      BY <3>2, MarkIs
    <3> HIDE DEF m1
    <3> QED
      BY <3>1, <3>2, <3>3, TakeFrameTook DEF Took
  <2> QED
    BY <2>1, <2>2
<1>7. mem' = r.m
  BY <1>3, <1>6, StopIs
<1>8. /\ Sound(mem', lost, lock')
      /\ \A q \in Procs, w \in PageNumbers : q # p => mem'.pte[q][w] = mem.pte[q][w]
      /\ \A w \in PageNumbers : mem.pte[p][w] # None => mem'.pte[p][w] # None
  <2>1. CASE ProgPage \in Mapped(mem, p)
    <3>1. r = [ok |-> TRUE, m |-> mem]
      BY <2>1 DEF r
    <3>2. r.ok /\ r.m = mem
      BY <3>1
    <3> QED
      BY <1>2, <1>3, <1>7, <3>2
  <2>2. CASE ProgPage \notin Mapped(mem, p)
    <3>1. r = GetOnePage(mem, p, ProgPage)
      BY <2>2 DEF r
    <3>2. ~r.m.stopped /\ (r.ok => lock' = lock) /\ (~r.ok => lock' # None)
      BY <1>3, <1>5, <1>7
    <3> DEFINE lk2 == lock'
    <3> HIDE DEF lk2
    <3>3. /\ Sound(r.m, lost, lk2)
          /\ \A q \in Procs, w \in PageNumbers : q # p => r.m.pte[q][w] = mem.pte[q][w]
          /\ \A w \in PageNumbers : mem.pte[p][w] # None => r.m.pte[p][w] # None
      BY <1>2, <1>4, <2>2, <3>1, <3>2, GetOnePageSound DEF lk2
    <3> QED
      BY <1>7, <3>3 DEF lk2
  <2> QED
    BY <2>1, <2>2
<1>9. Sound(mem', lost', lock') /\ ProcessPages'
  BY <1>1, <1>2, <1>3, <1>8, ProcessPagesSame
<1>10. Heaps'
  <2>1. \A q \in Procs, w \in ProcPages : mem.pte[q][w] # None => mem'.pte[q][w] # None
    BY <1>4, <1>8
  <2> QED
    BY <1>2, <1>3, <2>1, HeapsSame
<1> QED
  BY <1>9, <1>10 DEF MemoryInv

\* A process starts and ends without a heap.
LEMMA EmptyHeap ==
  ASSUME NEW p \in Procs, NEW pte
  PROVE  HeapSound([v \in Pages(p) |-> NoArena], [c \in Classes |-> <<>>], {}, pte, None)
<1> DEFINE a == [v \in Pages(p) |-> NoArena]
           fl == [c \in Classes |-> <<>>]
<1>1. Pages(p) = ProcPages
  BY SpacePages, Constants
<1>2. NoArena \in Headers /\ NoArena.kind = "none"
  BY DEF Headers, NoArena
<1>3. a \in [ProcPages -> Headers] /\ \A v \in ProcPages : a[v].kind = "none"
  BY <1>1, <1>2
<1>4. fl \in [Classes -> Seq(ProcPages \X Nat)] /\ \A c \in Classes : fl[c] = <<>>
  OBVIOUS
<1> HIDE DEF a, fl
<1>5. HeapTyped(a, fl, {})
  BY <1>3, <1>4 DEF HeapTyped
<1>6. SmallArenas(a, fl, {}, pte) /\ SomeHeld(a, None) /\ LargeArenas(a, {}, pte)
  BY <1>3 DEF SmallArenas, SomeHeld, LargeArenas
<1>7. HeldSound(a, {})
  BY DEF HeldSound
<1>8. ListsSound(a, fl, {})
  <2>1. \A c \in Classes : IsInjective(fl[c]) /\ Range(fl[c]) = {}
    BY <1>4 DEF IsInjective, Range
  <2> QED
    BY <2>1 DEF ListsSound
<1>9. HeapSound(a, fl, {}, pte, None)
  BY <1>5, <1>6, <1>7, <1>8 DEF HeapSound
<1> QED
  BY <1>9 DEF a, fl

\* A process whose heap is emptied; the others keep their pages.
LEMMA NoHeapStep ==
  ASSUME Heaps, NEW p \in Procs, NoHeap(p),
         \A q \in Procs, v \in ProcPages :
           q # p /\ mem.pte[q][v] # None => mem'.pte[q][v] # None
  PROVE  Heaps'
<1> DEFINE a == [v \in Pages(p) |-> NoArena]
           fl == [c \in Classes |-> <<>>]
           pte2 == mem'.pte[p]
<1>1. /\ arena' = [arena EXCEPT ![p] = a] /\ freeList' = [freeList EXCEPT ![p] = fl]
      /\ held' = [held EXCEPT ![p] = {}]
  BY DEF NoHeap
<1> HIDE DEF pte2
<1>2. HeapSound(a, fl, {}, pte2, None)
  BY EmptyHeap
<1> HIDE DEF a, fl
<1>3. HeapSound(a, fl, {}, mem'.pte[p], None)
  BY <1>2 DEF pte2
<1> QED
  BY <1>1, <1>3, HeapsStep

\* A page for the kernel; without one, nothing changes.
LEMMA KernelAlloc ==
  ASSUME NEW m, Sound(m, lost, lock), NEW r, r = AllocPage(m, Kernel, 1), ~r.m.stopped
  PROVE  /\ Sound(r.m, lost, lock)
         /\ \A q \in Procs, v \in PageNumbers : r.m.pte[q][v] = m.pte[q][v]
         /\ \A q \in Procs : r.m.vmap[q] = m.vmap[q]
         /\ r.addr = None => r.m = m
         /\ r.addr # None => r.addr \in KernelFrames
         /\ ~m.stopped
<1>0. Kernel \in Spaces /\ Kernel \notin Procs /\ Procs \subseteq Spaces /\ Pages(Kernel) = KernelFrames
  BY Constants, SpacePages
<1>1. Sound(r.m, lost, lock) /\ Alloc(m, Kernel, 1, r) /\ ~m.stopped
  BY <1>0, AllocSound
<1>2. m \in Mems /\ OwnedIn(m, lost)
  BY DEF Sound
<1>3. m.vmap \in [Spaces -> SUBSET PageNumbers]
  BY <1>2, MemFields
<1>4. CASE r.addr = None
  <2>1. r.m = m
    BY <1>1, <1>2, <1>4, KernelAllocFails
  <2> QED
    BY <1>1, <1>4, <2>1
<1>5. CASE r.addr # None
  <2> DEFINE run == r.addr..(r.addr + 1 - 1)
  <2>1. /\ r.addr \in Nat /\ run \subseteq KernelFrames
        /\ r.m.vmap = [m.vmap EXCEPT ![Kernel] = @ \cup run]
        /\ \A t \in Spaces, w \in PageNumbers :
             t # Kernel \/ w \notin run => r.m.pte[t][w] = m.pte[t][w]
    BY <1>0, <1>1, <1>5 DEF Alloc
  <2>2. r.addr \in run
    BY <2>1
  <2> HIDE DEF run
  <2>3. \A q \in Procs : r.m.vmap[q] = m.vmap[q]
    BY <1>0, <1>3, <2>1
  <2> QED
    BY <1>0, <1>1, <1>5, <2>1, <2>2, <2>3
<1> QED
  BY <1>4, <1>5

\* A page of the kernel goes back; no process has it.
LEMMA KernelFree ==
  ASSUME NEW m, NEW gone, Sound(m, gone, lock), NEW v \in KernelFrames,
         NEW r, r = FreePage(m, Kernel, v, 1), ~r.stopped
  PROVE  /\ Sound(r, gone, lock)
         /\ \A q \in Procs, w \in PageNumbers : r.pte[q][w] = m.pte[q][w]
         /\ ~m.stopped
<1>0. Kernel \in Spaces /\ Kernel \notin Procs /\ Procs \subseteq Spaces /\ v \in Nat
  BY Constants
<1>1. v..(v + 1 - 1) = {v}
  BY <1>0
<1>2. v..(v + 1 - 1) \subseteq PageNumbers
  BY <1>1, Constants
<1> DEFINE k == 1
           run == v..(v + k - 1)
<1>3. Sound(r, gone, lock) /\ Unmapped(m, Kernel, run, run, r) /\ ~m.stopped
  <2>1. v..(v + k - 1) \subseteq PageNumbers /\ r = FreePage(m, Kernel, v, k)
    BY <1>2
  <2> HIDE DEF k
  <2> QED
    BY <1>0, <2>1, FreeSound
<1> HIDE DEF run
<1>4. \A t \in Spaces, w \in PageNumbers : t # Kernel \/ w \notin run => r.pte[t][w] = m.pte[t][w]
  BY <1>0, <1>3, UnmapOthers DEF Sound
<1> QED
  BY <1>0, <1>3, <1>4

\* A process that gets a copy of the pages of another.
LEMMA CopySound ==
  ASSUME NEW m, Sound(m, lost, lock), NEW p \in Procs, NEW q \in Procs, p # q,
         \A v \in PageNumbers : m.pte[q][v] = None,
         NEW x, x = CopyPages(m, p, q), ~x.stopped
  PROVE  /\ Sound(x, lost, lock)
         /\ \A t \in Procs, v \in PageNumbers : t # q => x.pte[t][v] = m.pte[t][v]
         /\ ~m.stopped
<1>0. /\ p \in Spaces /\ q \in Spaces /\ Pages(p) = ProcPages /\ Pages(q) = ProcPages
      /\ Procs \subseteq Spaces /\ ProcPages \subseteq PageNumbers
      /\ ProcPages = 0..(NPages - 1)
  BY Constants, SpacePages DEF ProcPages
<1>1. m \in Mems /\ OwnedIn(m, lost) /\ \A t \in Spaces : BitsExact(m, t, lock)
  BY DEF Sound
<1>2. Copied(m, p, q, NPages, x)
  BY <1>1, CopyPagesIs
<1>3. /\ x \in Mems /\ ~m.stopped /\ OwnedIn(x, lost)
      /\ x.vmap = [m.vmap EXCEPT ![q] = m.vmap[p]]
      /\ \A t \in Spaces, w \in PageNumbers :
           t # q \/ w \notin ProcPages => x.pte[t][w] = m.pte[t][w]
      /\ \A w \in ProcPages :
           IF w \in m.vmap[p] THEN x.pte[q][w] # None /\ m.pte[p][w] # None
           ELSE x.pte[q][w] = m.pte[q][w]
  BY <1>0, <1>1, <1>2 DEF Copied
<1>4. m.vmap \in [Spaces -> SUBSET PageNumbers]
  BY <1>1, MemFields
<1>5. ASSUME NEW t \in Spaces PROVE BitsExact(x, t, lock)
  <2>1. BitsExact(m, t, lock) /\ Pages(t) \subseteq PageNumbers
    BY <1>1, SpacePages
  <2>2. CASE t # q
    <3>1. x.vmap[t] = m.vmap[t] /\ \A w \in PageNumbers : x.pte[t][w] = m.pte[t][w]
      BY <1>3, <1>4, <2>2
    <3>2. Mapped(x, t) = Mapped(m, t)
      BY <2>1, <3>1 DEF Mapped
    <3> QED
      BY <2>1, <3>1, <3>2 DEF BitsExact
  <2>3. CASE t = q
    <3>1. x.vmap[q] = m.vmap[p]
      BY <1>0, <1>3, <1>4
    <3>2. m.vmap[p] \subseteq ProcPages
      BY <1>0, <1>1 DEF BitsExact
    <3>3. Mapped(x, q) = m.vmap[p]
      BY <1>0, <1>3, <3>2 DEF Mapped
    <3>4. \A w \in PageNumbers : x.pte[q][w] # None => w \in ProcPages
      BY <1>0, <1>3
    <3> QED
      BY <1>0, <2>3, <3>1, <3>2, <3>3, <3>4 DEF BitsExact
  <2> QED
    BY <2>2, <2>3
<1>6. Sound(x, lost, lock)
  BY <1>3, <1>5 DEF Sound
<1>7. \A t \in Procs, v \in PageNumbers : t # q => x.pte[t][v] = m.pte[t][v]
  BY <1>0, <1>3
<1> QED
  BY <1>3, <1>6, <1>7

\* The four pages that fork takes for a process, or none of the last ones.
LEMMA KernelFour ==
  ASSUME NEW m, Sound(m, lost, lock),
         NEW a, a = AllocPage(m, Kernel, 1), NEW b, b = AllocPage(a.m, Kernel, 1),
         NEW c, c = AllocPage(b.m, Kernel, 1), NEW d, d = AllocPage(c.m, Kernel, 1),
         ~d.m.stopped
  PROVE  /\ Sound(d.m, lost, lock)
         /\ \A q \in Procs, v \in PageNumbers : d.m.pte[q][v] = m.pte[q][v]
         /\ d.addr # None => {a.addr, b.addr, c.addr, d.addr} \subseteq KernelFrames
         /\ ~m.stopped
<1>0. Kernel \in Spaces /\ 1 \in Nat
  BY Constants
<1>1. m \in Mems
  BY DEF Sound
<1>2. a.m \in Mems
  BY <1>0, <1>1, AllocPageIs
<1>3. b.m \in Mems /\ (a.m.stopped => b.m.stopped)
  BY <1>0, <1>2, AllocPageIs
<1>4. c.m \in Mems /\ (b.m.stopped => c.m.stopped)
  BY <1>0, <1>3, AllocPageIs
<1>5. ~c.m.stopped
  BY <1>0, <1>4, AllocPageIs
<1>6. ~a.m.stopped /\ ~b.m.stopped
  BY <1>3, <1>4, <1>5
<1>7. /\ Sound(a.m, lost, lock)
      /\ \A q \in Procs, v \in PageNumbers : a.m.pte[q][v] = m.pte[q][v]
      /\ a.addr = None => a.m = m
      /\ a.addr # None => a.addr \in KernelFrames
      /\ ~m.stopped
  BY <1>6, KernelAlloc
<1>8. /\ Sound(b.m, lost, lock)
      /\ \A q \in Procs, v \in PageNumbers : b.m.pte[q][v] = a.m.pte[q][v]
      /\ b.addr = None => b.m = a.m
      /\ b.addr # None => b.addr \in KernelFrames
  BY <1>6, <1>7, KernelAlloc
<1>9. /\ Sound(c.m, lost, lock)
      /\ \A q \in Procs, v \in PageNumbers : c.m.pte[q][v] = b.m.pte[q][v]
      /\ c.addr = None => c.m = b.m
      /\ c.addr # None => c.addr \in KernelFrames
  BY <1>5, <1>8, KernelAlloc
<1>10. /\ Sound(d.m, lost, lock)
       /\ \A q \in Procs, v \in PageNumbers : d.m.pte[q][v] = c.m.pte[q][v]
       /\ d.addr # None => d.addr \in KernelFrames
  BY <1>9, KernelAlloc
<1>11. /\ a.addr = None => b = a
       /\ b.addr = None => c = b
       /\ c.addr = None => d = c
  BY ONLY <1>7, <1>8, <1>9, a = AllocPage(m, Kernel, 1), b = AllocPage(a.m, Kernel, 1),
     c = AllocPage(b.m, Kernel, 1), d = AllocPage(c.m, Kernel, 1)
<1>12. d.addr # None => a.addr # None /\ b.addr # None /\ c.addr # None
  BY ONLY <1>11
<1>13. d.addr # None => {a.addr, b.addr, c.addr, d.addr} \subseteq KernelFrames
  BY ONLY <1>7, <1>8, <1>9, <1>10, <1>12
<1>14. \A q \in Procs, v \in PageNumbers : d.m.pte[q][v] = m.pte[q][v]
  BY ONLY <1>7, <1>8, <1>9, <1>10
<1> QED
  BY <1>7, <1>10, <1>13, <1>14

\* A kernel that has stopped stays so.
LEMMA FreePageStops ==
  ASSUME NEW m \in Mems, NEW s, NEW v, NEW k, m.stopped
  PROVE  FreePage(m, s, v, k).stopped
<1> DEFINE run == v..(v + k - 1)
           frames == {m.pte[s][w] : w \in run}
           n == Stop(m)
<1>1. n.stopped
  <2>1. n = MemOf(m.used, m.vmap, m.pte, m.tables, TRUE)
    BY StopUpdate
  <2> HIDE DEF n
  <2> QED
    BY <2>1 DEF MemOf
<1>2. Unmap(m, s, run, run).stopped = m.stopped
  <2>1. PICK a, b, c, d, e :
        /\ m = [used |-> a, vmap |-> b, pte |-> c, tables |-> d, stopped |-> e]
        /\ a = m.used /\ b = m.vmap /\ c = m.pte /\ d = m.tables /\ e = m.stopped
    BY MemLiteral
  <2> HIDE DEF run
  <2> QED
    BY <2>1 DEF Unmap
<1>3. FreePage(m, s, v, k) = IF KFrames \in frames THEN n ELSE Unmap(m, s, run, run)
  BY DEF FreePage
<1> HIDE DEF frames, n, run
<1> QED
  BY <1>1, <1>2, <1>3

\* The four pages of a fork are a memory, even of a kernel that has stopped.
LEMMA FourMems ==
  ASSUME NEW m \in Mems,
         NEW a, a = AllocPage(m, Kernel, 1), NEW b, b = AllocPage(a.m, Kernel, 1),
         NEW c, c = AllocPage(b.m, Kernel, 1), NEW d, d = AllocPage(c.m, Kernel, 1)
  PROVE  d.m \in Mems
<1>0. Kernel \in Spaces /\ 1 \in Nat
  BY Constants
<1>2. a.m \in Mems
  BY <1>0, AllocPageIs
<1>3. b.m \in Mems
  BY <1>0, <1>2, AllocPageIs
<1>4. c.m \in Mems
  BY <1>0, <1>3, AllocPageIs
<1> QED
  BY <1>0, <1>4, AllocPageIs

\* fork: without the four pages nothing but them changes, with the lock taken
\* the caller stays in it, and else q gets a copy of the pages of p.
LEMMA ForkStep ==
  ASSUME MemoryInv, NEW p \in Procs, NEW q \in Procs, Fork(p, q), ~mem'.stopped
  PROVE  MemoryInv'
<1> DEFINE a == AllocPage(mem, Kernel, 1)
           b == AllocPage(a.m, Kernel, 1)
           c == AllocPage(b.m, Kernel, 1)
           d == AllocPage(c.m, Kernel, 1)
<1>1. ~mem.stopped /\ life[p] = "alive" /\ life[q] = "none" /\ lock' = lock /\ lost' = lost
  BY DEF Fork
<1>2. Sound(mem, lost, lock) /\ ProcessPages /\ Heaps
  BY <1>1 DEF MemoryInv
<1>3. \/ mem' = d.m /\ UNCHANGED <<kpages, heap>>
         /\ (life' = life \/ life' = [life EXCEPT ![p] = "stuck"])
      \/ /\ d.addr # None
         /\ mem' = FreePage(CopyPages(d.m, p, q), Kernel, b.addr, 1)
         /\ life' = [life EXCEPT ![q] = "alive"]
         /\ pcb' = [pcb EXCEPT ![q] = a.addr]
         /\ vapMap' = [vapMap EXCEPT ![q] = c.addr]
         /\ dir' = [dir EXCEPT ![q] = d.addr]
         /\ NoHeap(q)
  BY DEF Fork
<1>4. ASSUME ~d.m.stopped
      PROVE  /\ Sound(d.m, lost, lock)
             /\ \A t \in Procs, v \in PageNumbers : d.m.pte[t][v] = mem.pte[t][v]
             /\ d.addr # None => {a.addr, b.addr, c.addr, d.addr} \subseteq KernelFrames
  BY <1>2, <1>4, KernelFour
<1> HIDE DEF a, b, c, d
<1>5. CASE mem' = d.m /\ UNCHANGED <<kpages, heap>>
           /\ (life' = life \/ life' = [life EXCEPT ![p] = "stuck"])
  <2>1. /\ Sound(mem', lost', lock')
        /\ \A t \in Procs, v \in PageNumbers : mem'.pte[t][v] = mem.pte[t][v]
    BY <1>1, <1>4, <1>5
  <2>2. ProcessPages'
    BY <1>1, <1>2, <1>5, <2>1 DEF ProcessPages, kpages
  <2>3. Heaps'
    <3>1. \A t \in Procs, v \in ProcPages : mem.pte[t][v] # None => mem'.pte[t][v] # None
      BY <2>1, Constants
    <3> QED
      BY <1>2, <1>5, <3>1, HeapsSame
  <2> QED
    BY <2>1, <2>2, <2>3 DEF MemoryInv
<1>6. CASE /\ d.addr # None
           /\ mem' = FreePage(CopyPages(d.m, p, q), Kernel, b.addr, 1)
           /\ life' = [life EXCEPT ![q] = "alive"]
           /\ pcb' = [pcb EXCEPT ![q] = a.addr]
           /\ vapMap' = [vapMap EXCEPT ![q] = c.addr]
           /\ dir' = [dir EXCEPT ![q] = d.addr]
           /\ NoHeap(q)
  <2> DEFINE x == CopyPages(d.m, p, q)
  <2>0. p # q
    BY <1>1
  <2>1. d.m \in Mems
    <3>1. mem \in Mems
      BY <1>2 DEF Sound
    <3> QED
      BY <3>1, FourMems DEF a, b, c, d
  <2>2. Copied(d.m, p, q, NPages, x)
    BY <2>1, CopyPagesIs
  <2>3. x \in Mems /\ (d.m.stopped => x.stopped)
    BY <2>2 DEF Copied
  <2>4. mem' = FreePage(x, Kernel, b.addr, 1)
    BY <1>6
  <2>5. ~x.stopped
    <3> HIDE DEF x
    <3> QED
      BY <2>3, <2>4, FreePageStops
  <2>6. Sound(d.m, lost, lock) /\ {a.addr, b.addr, c.addr, d.addr} \subseteq KernelFrames
        /\ \A t \in Procs, v \in PageNumbers : d.m.pte[t][v] = mem.pte[t][v]
    BY <1>4, <1>6, <2>3, <2>5
  <2>7. \A v \in PageNumbers : mem.pte[q][v] = None
    BY <1>1, <1>2 DEF ProcessPages
  <2>8. \A v \in PageNumbers : d.m.pte[q][v] = None
    BY <2>6, <2>7
  <2>9. /\ Sound(x, lost, lock)
        /\ \A t \in Procs, v \in PageNumbers : t # q => x.pte[t][v] = d.m.pte[t][v]
    BY <2>0, <2>5, <2>6, <2>8, CopySound
  <2> HIDE DEF x
  <2>10. /\ Sound(mem', lost, lock)
         /\ \A t \in Procs, v \in PageNumbers : mem'.pte[t][v] = x.pte[t][v]
    BY <2>4, <2>6, <2>9, KernelFree
  <2>11. \A t \in Procs, v \in PageNumbers : t # q => mem'.pte[t][v] = mem.pte[t][v]
    BY <2>6, <2>9, <2>10
  <2>12. ProcessPages'
    <3>1. a.addr \in KernelFrames /\ c.addr \in KernelFrames /\ d.addr \in KernelFrames
          /\ None \notin KernelFrames
      BY <2>6, Constants
    <3>2. /\ life \in [Procs -> {"none", "alive", "zombie", "stuck"}]
          /\ pcb \in [Procs -> KernelFrames \cup {None}]
          /\ dir \in [Procs -> KernelFrames \cup {None}]
          /\ vapMap \in [Procs -> KernelFrames \cup {None}]
          /\ \A t \in Procs : life[t] # "none" => pcb[t] # None /\ dir[t] # None
          /\ \A t \in Procs : life[t] \in {"alive", "stuck"} => vapMap[t] # None
          /\ \A t \in Procs, v \in PageNumbers :
               life[t] \in {"none", "zombie"} => mem.pte[t][v] = None
      BY <1>2 DEF ProcessPages
    <3>3. /\ life' \in [Procs -> {"none", "alive", "zombie", "stuck"}]
          /\ pcb' \in [Procs -> KernelFrames \cup {None}]
          /\ dir' \in [Procs -> KernelFrames \cup {None}]
          /\ vapMap' \in [Procs -> KernelFrames \cup {None}]
      BY <1>6, <3>1, <3>2
    <3>4. \A t \in Procs : /\ t # q => /\ life'[t] = life[t] /\ pcb'[t] = pcb[t]
                                       /\ dir'[t] = dir[t] /\ vapMap'[t] = vapMap[t]
                           /\ t = q => /\ life'[t] = "alive" /\ pcb'[t] # None
                                       /\ dir'[t] # None /\ vapMap'[t] # None
      BY ONLY <1>6, <3>1, <3>2
    <3> QED
      BY <2>11, <3>2, <3>3, <3>4 DEF ProcessPages
  <2>13. Heaps'
    <3>1. \A t \in Procs, v \in ProcPages :
            t # q /\ mem.pte[t][v] # None => mem'.pte[t][v] # None
      BY <2>11, Constants
    <3> QED
      BY <1>2, <1>6, <3>1, NoHeapStep
  <2> QED
    BY <1>1, <2>10, <2>12, <2>13 DEF MemoryInv
<1> QED
  BY <1>3, <1>5, <1>6

\* What exit does to the pages of its process.
Released(m, p) ==
  [m EXCEPT !.used = @ \ {m.tables[p][i] : i \in Tables},
            !.vmap[p] = {},
            !.pte[p] = [v \in DOMAIN @ |-> None],
            !.tables[p] = [i \in Tables |-> None]]

\* The four fields that exit changes, one after the other.
LEMMA ReleasedUpdate ==
  ASSUME NEW m \in Mems, NEW p
  PROVE  Released(m, p)
         = MemOf(FramesAfter(m.used, m.tables, p), [m.vmap EXCEPT ![p] = {}],
                 PagesAfter(m.pte, p), TablesAfter(m.tables, p), m.stopped)
<1>0. PICK a, b, c, d, e :
        /\ m = [used |-> a, vmap |-> b, pte |-> c, tables |-> d, stopped |-> e]
        /\ a = m.used /\ b = m.vmap /\ c = m.pte /\ d = m.tables /\ e = m.stopped
  BY MemLiteral
<1> DEFINE used == a \ {m.tables[p][i] : i \in Tables}
           vmap == [b EXCEPT ![p] = {}]
           pte == [c EXCEPT ![p] = [v \in DOMAIN @ |-> None]]
           tables == [d EXCEPT ![p] = [i \in Tables |-> None]]
           m1 == [m EXCEPT !.used = used]
           m2 == [m1 EXCEPT !.vmap[p] = {}]
           m3 == [m2 EXCEPT !.pte[p] = [v \in DOMAIN @ |-> None]]
           m4 == [m3 EXCEPT !.tables[p] = [i \in Tables |-> None]]
<1>1. m4 = Released(m, p)
  BY <1>0 DEF Released
<1>2. m1 = [used |-> used, vmap |-> b, pte |-> c, tables |-> d, stopped |-> e]
  <2> HIDE DEF used
  <2> QED
    BY <1>0
<1>3. m2 = [used |-> used, vmap |-> vmap, pte |-> c, tables |-> d, stopped |-> e]
  <2> HIDE DEF m1, used
  <2> QED
    BY <1>2
<1>4. m3 = [used |-> used, vmap |-> vmap, pte |-> pte, tables |-> d, stopped |-> e]
  <2>1. \A x : [m2 EXCEPT !.pte = x]
               = [used |-> used, vmap |-> vmap, pte |-> x, tables |-> d, stopped |-> e]
    <3> HIDE DEF m2, used, vmap
    <3> QED
      BY <1>3
  <2>2. m2.pte = c
    <3> HIDE DEF m2, used, vmap
    <3> QED
      BY <1>3
  <2>3. m3 = [m2 EXCEPT !.pte = [m2.pte EXCEPT ![p] = [v \in DOMAIN @ |-> None]]]
    OBVIOUS
  <2> HIDE DEF m2, m3, used, vmap
  <2> QED
    BY <2>1, <2>2, <2>3
<1>5. m4 = MemOf(used, vmap, pte, tables, e)
  <2>1. \A x : [m3 EXCEPT !.tables = x] = MemOf(used, vmap, pte, x, e)
    <3> HIDE DEF m3, used, vmap, pte
    <3> QED
      BY <1>4 DEF MemOf
  <2>2. m3.tables = d
    <3> HIDE DEF m3, used, vmap, pte
    <3> QED
      BY <1>4
  <2>3. m4 = [m3 EXCEPT !.tables = [m3.tables EXCEPT ![p] = [i \in Tables |-> None]]]
    OBVIOUS
  <2> HIDE DEF m3, m4, used, vmap, pte
  <2> QED
    BY <2>1, <2>2, <2>3
<1>6. /\ used = FramesAfter(m.used, m.tables, p)
      /\ vmap = [m.vmap EXCEPT ![p] = {}]
      /\ pte = PagesAfter(m.pte, p)
      /\ tables = TablesAfter(m.tables, p) /\ e = m.stopped
  BY <1>0 DEF FramesAfter, PagesAfter, TablesAfter
<1> HIDE DEF m4, used, vmap, pte, tables
<1> QED
  BY <1>1, <1>5, <1>6

\* exit clears the pages of its process; their frames are lost.
LEMMA ReleasedSound ==
  ASSUME NEW m, NEW gone, NEW lk, Sound(m, gone, lk), NEW p \in Procs,
         NEW x, x = Released(m, p),
         NEW more, more = gone \cup {m.pte[p][v] : v \in Mapped(m, p)}
  PROVE  /\ Sound(x, more, lk)
         /\ \A v \in PageNumbers : x.pte[p][v] = None
         /\ \A q \in Procs, v \in PageNumbers : q # p => x.pte[q][v] = m.pte[q][v]
         /\ x.stopped = m.stopped
<1> DEFINE used == FramesAfter(m.used, m.tables, p)
           vmap == [m.vmap EXCEPT ![p] = {}]
           pte == PagesAfter(m.pte, p)
           tables == TablesAfter(m.tables, p)
<1>0. m \in Mems /\ OwnedIn(m, gone) /\ \A t \in Spaces : BitsExact(m, t, lk)
  BY DEF Sound
<1>1. /\ p \in Spaces /\ Procs \subseteq Spaces /\ EntriesTyped(m.pte, m.tables)
      /\ m.used \subseteq Frames /\ m.vmap \in [Spaces -> SUBSET PageNumbers]
      /\ m.stopped \in BOOLEAN
  BY <1>0, Constants, MemFields
<1>2. x = MemOf(used, vmap, pte, tables, m.stopped)
  BY <1>0, ReleasedUpdate
<1>3. used \in SUBSET Frames /\ vmap \in [Spaces -> SUBSET PageNumbers]
  BY <1>1 DEF FramesAfter
<1>4. EntriesTyped(pte, tables)
  BY <1>1 DEF EntriesTyped, PagesAfter, TablesAfter
<1>5. /\ \A t \in Spaces, w \in PageNumbers : pte[t][w] = IF t = p THEN None ELSE m.pte[t][w]
      /\ \A t \in Spaces : vmap[t] = IF t = p THEN {} ELSE m.vmap[t]
  BY <1>1 DEF EntriesTyped, PagesAfter, TablesAfter
<1>6. Owned(used, pte, tables, more)
  <2>1. Mapped(m, p) = {w \in PageNumbers : m.pte[p][w] # None}
    <3>1. \A v \in PageNumbers : m.pte[p][v] # None => v \in Pages(p)
      BY <1>0, <1>1 DEF BitsExact
    <3> QED
      BY <1>1, <3>1, SpacePages DEF Mapped
  <2>2. more = LostAfter(gone, m.pte, p)
    BY <2>1 DEF LostAfter
  <2>3. Owned(m.used, m.pte, m.tables, gone)
    BY <1>0 DEF OwnedIn
  <2>4. Owned(used, pte, tables, LostAfter(gone, m.pte, p))
    BY <1>1, <2>3, OwnedExit
  <2> QED
    BY <2>2, <2>4
<1> HIDE DEF used, vmap, pte, tables
<1>7. x \in Mems
  BY <1>1, <1>2, <1>3, <1>4, MakeMem
<1>8. x.used = used /\ x.vmap = vmap /\ x.pte = pte /\ x.tables = tables /\ x.stopped = m.stopped
  BY <1>2, MemOfFields
<1>9. ASSUME NEW t \in Spaces PROVE BitsExact(x, t, lk)
  <2>1. BitsExact(m, t, lk) /\ Pages(t) \subseteq PageNumbers
    BY <1>0, SpacePages
  <2>2. CASE t # p
    <3>1. x.vmap[t] = m.vmap[t] /\ \A w \in PageNumbers : x.pte[t][w] = m.pte[t][w]
      BY <1>5, <1>8, <2>2
    <3>2. Mapped(x, t) = Mapped(m, t)
      BY <2>1, <3>1 DEF Mapped
    <3> QED
      BY <2>1, <3>1, <3>2 DEF BitsExact
  <2>3. CASE t = p
    <3>1. x.vmap[t] = {} /\ \A w \in PageNumbers : x.pte[t][w] = None
      BY <1>5, <1>8, <2>3
    <3>2. Mapped(x, t) = {}
      BY <2>1, <3>1 DEF Mapped
    <3> QED
      BY <3>1, <3>2 DEF BitsExact
  <2> QED
    BY <2>2, <2>3
<1>10. OwnedIn(x, more)
  BY <1>6, <1>8 DEF OwnedIn
<1>11. Sound(x, more, lk)
  BY <1>7, <1>9, <1>10 DEF Sound
<1> QED
  BY <1>1, <1>5, <1>8, <1>11

\* exit: the process keeps its PCB and its page directory, and no page.
LEMMA ExitStep ==
  ASSUME MemoryInv, NEW p \in Procs, Exit(p), ~mem'.stopped
  PROVE  MemoryInv'
<1> DEFINE x == Released(mem, p)
<1>1. /\ ~mem.stopped /\ life[p] = "alive"
      /\ life' = [life EXCEPT ![p] = "zombie"]
      /\ mem' = FreePage(x, Kernel, vapMap[p], 1)
      /\ lost' = lost \cup {mem.pte[p][v] : v \in Mapped(mem, p)}
      /\ vapMap' = [vapMap EXCEPT ![p] = None]
      /\ NoHeap(p)
      /\ UNCHANGED <<pcb, dir, lock>>
  BY DEF Exit, Released
<1>2. Sound(mem, lost, lock) /\ ProcessPages /\ Heaps
  BY <1>1 DEF MemoryInv
<1>3. /\ Sound(x, lost', lock)
      /\ \A v \in PageNumbers : x.pte[p][v] = None
      /\ \A q \in Procs, v \in PageNumbers : q # p => x.pte[q][v] = mem.pte[q][v]
  <2> DEFINE more == lost'
  <2>1. more = lost \cup {mem.pte[p][v] : v \in Mapped(mem, p)}
    BY <1>1
  <2> HIDE DEF more, x
  <2>2. /\ Sound(x, more, lock)
        /\ \A v \in PageNumbers : x.pte[p][v] = None
        /\ \A q \in Procs, v \in PageNumbers : q # p => x.pte[q][v] = mem.pte[q][v]
    BY <1>2, <2>1, ReleasedSound DEF x
  <2> QED
    BY <2>2 DEF more
<1> HIDE DEF x
<1>4. vapMap[p] \in KernelFrames
  BY <1>1, <1>2 DEF ProcessPages
<1>5. /\ Sound(mem', lost', lock)
      /\ \A q \in Procs, w \in PageNumbers : mem'.pte[q][w] = x.pte[q][w]
  <2> DEFINE more == lost'
  <2>1. Sound(x, more, lock)
    BY <1>3
  <2> HIDE DEF more
  <2>2. /\ Sound(mem', more, lock)
        /\ \A q \in Procs, w \in PageNumbers : mem'.pte[q][w] = x.pte[q][w]
    BY <1>1, <1>4, <2>1, KernelFree
  <2> QED
    BY <2>2 DEF more
<1>6. /\ \A v \in PageNumbers : mem'.pte[p][v] = None
      /\ \A q \in Procs, v \in PageNumbers : q # p => mem'.pte[q][v] = mem.pte[q][v]
  BY <1>3, <1>5
<1>7. ProcessPages'
  BY <1>1, <1>2, <1>6 DEF ProcessPages
<1>8. Heaps'
  <2>1. \A q \in Procs, v \in ProcPages :
          q # p /\ mem.pte[q][v] # None => mem'.pte[q][v] # None
    BY <1>6, Constants
  <2> QED
    BY <1>1, <1>2, <2>1, NoHeapStep
<1> QED
  BY <1>1, <1>5, <1>7, <1>8 DEF MemoryInv

\* wait gives back the last two pages of a process that has none itself.
LEMMA ReapStep ==
  ASSUME MemoryInv, NEW p \in Procs, Reap(p), ~mem'.stopped
  PROVE  MemoryInv'
<1> DEFINE x == FreePage(mem, Kernel, dir[p], 1)
<1>1. /\ ~mem.stopped /\ life[p] = "zombie"
      /\ life' = [life EXCEPT ![p] = "none"]
      /\ mem' = FreePage(x, Kernel, pcb[p], 1)
      /\ pcb' = [pcb EXCEPT ![p] = None]
      /\ dir' = [dir EXCEPT ![p] = None]
      /\ UNCHANGED <<vapMap, heap, lock, lost>>
  BY DEF Reap
<1>2. Sound(mem, lost, lock) /\ ProcessPages /\ Heaps
  BY <1>1 DEF MemoryInv
<1>3. pcb[p] \in KernelFrames /\ dir[p] \in KernelFrames
  BY <1>1, <1>2 DEF ProcessPages
<1>4. x \in Mems
  <2> DEFINE k == 1
  <2>1. dir[p]..(dir[p] + k - 1) \subseteq PageNumbers
    <3>1. dir[p] \in Nat /\ dir[p] \in PageNumbers
      BY <1>3, Constants
    <3>2. dir[p]..(dir[p] + k - 1) = {dir[p]}
      BY <3>1
    <3> QED
      BY <3>1, <3>2
  <2>2. x = FreePage(mem, Kernel, dir[p], k)
    OBVIOUS
  <2> HIDE DEF k, x
  <2>3. mem \in Mems /\ Kernel \in Spaces
    BY <1>2, Constants DEF Sound
  <2> QED
    BY <2>1, <2>2, <2>3, FreePageIs
<1> HIDE DEF x
<1>5. ~x.stopped
  BY <1>1, <1>4, FreePageStops
<1>6. /\ Sound(x, lost, lock)
      /\ \A q \in Procs, w \in PageNumbers : x.pte[q][w] = mem.pte[q][w]
  BY <1>2, <1>3, <1>5, KernelFree DEF x
<1>7. /\ Sound(mem', lost, lock)
      /\ \A q \in Procs, w \in PageNumbers : mem'.pte[q][w] = x.pte[q][w]
  BY <1>1, <1>3, <1>6, KernelFree
<1>8. \A q \in Procs, w \in PageNumbers : mem'.pte[q][w] = mem.pte[q][w]
  BY <1>6, <1>7
<1>9. ProcessPages'
  BY <1>1, <1>2, <1>8 DEF ProcessPages
<1>10. Heaps'
  <2>1. \A q \in Procs, v \in ProcPages : mem.pte[q][v] # None => mem'.pte[q][v] # None
    BY <1>8, Constants
  <2> QED
    BY <1>1, <1>2, <2>1, HeapsSame
<1> QED
  BY <1>1, <1>7, <1>9, <1>10 DEF MemoryInv

\* The memory before the first process.
FirstMem ==
  MemOf({}, [s \in Spaces |-> {}], [s \in Spaces |-> [v \in PageNumbers |-> None]],
        [p \in Procs |-> [i \in Tables |-> None]], FALSE)

\* Nothing is used and nothing is mapped at first.
LEMMA FirstMemSound == Sound(FirstMem, {}, None) /\ FirstMem.used = {}
                       /\ \A p \in Procs, v \in PageNumbers : FirstMem.pte[p][v] = None
<1> DEFINE vmap == [s \in Spaces |-> {}]
           pte == [s \in Spaces |-> [v \in PageNumbers |-> None]]
           tables == [p \in Procs |-> [i \in Tables |-> None]]
           used == {}
           m == FirstMem
<1>1. m = MemOf(used, vmap, pte, tables, FALSE)
  BY DEF FirstMem
<1>2. /\ used \in SUBSET Frames /\ EntriesTyped(pte, tables)
      /\ vmap \in [Spaces -> SUBSET PageNumbers]
      /\ \A s \in Spaces : vmap[s] = {}
      /\ \A s \in Spaces, v \in PageNumbers : pte[s][v] = None
      /\ \A p \in Procs, i \in Tables : tables[p][i] = None
  BY DEF EntriesTyped
<1>3. Owned(used, pte, tables, {})
  <2> HIDE DEF pte, tables
  <2> QED
    BY <1>2, Constants DEF Owned
<1> HIDE DEF used, vmap, pte, tables, m
<1>4. m \in Mems
  BY <1>1, <1>2, MakeMem
<1>5. m.used = used /\ m.vmap = vmap /\ m.pte = pte /\ m.tables = tables
  BY <1>1 DEF MemOf
<1>6. ASSUME NEW s \in Spaces PROVE BitsExact(m, s, None)
  <2>1. m.vmap[s] = {} /\ \A v \in PageNumbers : m.pte[s][v] = None
    BY <1>2, <1>5
  <2>2. Mapped(m, s) = {}
    BY <2>1, SpacePages DEF Mapped
  <2> QED
    BY <2>1, <2>2 DEF BitsExact
<1>7. OwnedIn(m, {})
  BY <1>3, <1>5 DEF OwnedIn
<1>8. Sound(m, {}, None)
  BY <1>4, <1>6, <1>7 DEF Sound
<1>9. m.used = {} /\ \A p \in Procs, v \in PageNumbers : m.pte[p][v] = None
  BY <1>2, <1>5, Constants DEF used
<1> QED
  BY <1>8, <1>9 DEF m

\* The boot thread's three pages and the stack of init.
LEMMA BootMemSound ==
  ASSUME NEW x, x = BootMem, ~x.stopped
  PROVE  /\ Sound(x, {}, None)
         /\ \A q \in Procs, v \in PageNumbers : q # InitProc => x.pte[q][v] = None
<1> DEFINE m == FirstMem
           r == AllocPage(m, Kernel, 3)
           g == GetOnePage(r.m, InitProc, StackPage)
           m1 == Mark(r.m, InitProc, {StackPage})
<1>0. /\ InitProc \in Procs /\ InitProc \in Spaces /\ Procs \subseteq Spaces /\ Kernel \notin Procs
      /\ StackPage \in ProcPages /\ ProcPages \subseteq PageNumbers /\ Kernel \in Spaces
      /\ Pages(InitProc) = ProcPages /\ 3 \in Nat
  BY Constants, SpacePages
<1>1. x = g.m
  <2>1. PageNumbers = KernelFrames \cup 0..(NPages - 1)
    BY DEF PageNumbers, ProcPages
  <2> QED
    BY <2>1 DEF BootMem, FirstMem, MemOf
<1>2. /\ Sound(m, {}, None) /\ m.used = {} /\ m \in Mems
      /\ \A p \in Procs, v \in PageNumbers : m.pte[p][v] = None
  BY FirstMemSound DEF Sound
<1> HIDE DEF m
<1>3. r.m \in Mems
  BY <1>0, <1>2, AllocPageIs
<1>4. g = TakeFrame(m1, InitProc, StackPage)
  BY DEF GetOnePage
<1>5. /\ m1 \in Mems /\ m1.used = r.m.used /\ m1.stopped = r.m.stopped
  <2> DEFINE run == {StackPage}
  <2>1. run \subseteq PageNumbers
    BY <1>0
  <2> DEFINE m0 == r.m
  <2>2. m0 \in Mems
    BY <1>3
  <2> HIDE DEF m0, run
  <2>3. LET n == Mark(m0, InitProc, run)
        IN n \in Mems /\ n.used = m0.used /\ n.stopped = m0.stopped
    BY <1>0, <2>1, <2>2, MarkIs
  <2> QED
    BY <2>3 DEF run, m0
<1> HIDE DEF m1
<1>6. Took(m1, InitProc, StackPage, g)
  BY <1>0, <1>4, <1>5, TakeFrameTook
<1>7. ~r.m.stopped
  BY <1>1, <1>5, <1>6 DEF Took
<1>8. Sound(r.m, {}, None) /\ Alloc(m, Kernel, 3, r)
  <2> HIDE DEF r
  <2> QED
    BY <1>0, <1>2, <1>7, AllocSound DEF r
<1> HIDE DEF r
<1>9. \A q \in Procs, v \in PageNumbers : r.m.pte[q][v] = None
  BY <1>0, <1>2, <1>7, <1>8 DEF Alloc
<1>10. g.ok
  <2>1. r.m.used \subseteq KernelFrames
    BY <1>2, <1>8 DEF Alloc, Pool
  <2>2. KFrames \in UserFrames \ m1.used
    BY <1>5, <2>1, Constants DEF UserFrames, KernelFrames
  <2>3. FreeFrame(m1, Pool(InitProc)) # None
    <3>1. Pool(InitProc) = UserFrames
      BY <1>0 DEF Pool
    <3>2. UserFrames \subseteq Frames
      BY DEF Frames
    <3> QED
      BY <2>2, <3>1, <3>2, FreeFrameIs
  <2> QED
    BY <1>4, <2>3 DEF TakeFrame
<1>11. StackPage \notin Mapped(r.m, InitProc)
  BY <1>0, <1>9 DEF Mapped
<1>12. g = GetOnePage(r.m, InitProc, StackPage) /\ ~g.m.stopped
  BY <1>1
<1> HIDE DEF g
<1>13. /\ Sound(g.m, {}, None)
       /\ \A q \in Procs, w \in PageNumbers : q # InitProc => g.m.pte[q][w] = r.m.pte[q][w]
  BY <1>0, <1>8, <1>10, <1>11, <1>12, GetOnePageSound
<1> QED
  BY <1>1, <1>9, <1>13

\* The first state of the system.
LEMMA MemoryInit ==
  ASSUME Init
  PROVE  MemoryInv
<1>1. /\ mem = BootMem
      /\ life = [p \in Procs |-> IF p = InitProc THEN "alive" ELSE "none"]
      /\ pcb = InitOnly(0) /\ vapMap = InitOnly(1) /\ dir = InitOnly(2)
      /\ arena = [p \in Procs |-> [v \in Pages(p) |-> NoArena]]
      /\ freeList = [p \in Procs |-> [c \in Classes |-> <<>>]]
      /\ held = [p \in Procs |-> {}]
      /\ lock = None /\ lost = {}
  BY DEF Init
<1>2. SUFFICES ASSUME ~mem.stopped
               PROVE  Sound(mem, lost, lock) /\ ProcessPages /\ Heaps
  BY DEF MemoryInv
<1>3. /\ Sound(mem, lost, lock)
      /\ \A q \in Procs, v \in PageNumbers : q # InitProc => mem.pte[q][v] = None
  BY <1>1, <1>2, BootMemSound
<1>4. ProcessPages
  <2>1. 0 \in KernelFrames /\ 1 \in KernelFrames /\ 2 \in KernelFrames /\ None \notin KernelFrames
    BY Constants DEF KernelFrames
  <2> QED
    BY <1>1, <1>3, <2>1 DEF ProcessPages, InitOnly
<1>5. Heaps
  <2>1. ASSUME NEW p \in Procs
        PROVE  /\ arena[p] = [v \in Pages(p) |-> NoArena] /\ freeList[p] = [c \in Classes |-> <<>>]
               /\ held[p] = {}
    BY <1>1
  <2>2. \A p \in Procs : HeapSound(arena[p], freeList[p], held[p], mem.pte[p], None)
    BY <2>1, EmptyHeap
  <2>3. \A p \in Procs : /\ arena[p] \in [ProcPages -> Headers]
                         /\ freeList[p] \in [Classes -> Seq(ProcPages \X Nat)]
                         /\ held[p] \in SUBSET (ProcPages \X Int)
    BY <2>2 DEF HeapSound, HeapTyped
  <2> QED
    BY <1>1, <2>2, <2>3 DEF Heaps
<1> QED
  BY <1>3, <1>4, <1>5

-----------------------------------------------------------------------------
(* The theorems                                                            *)

\* Every call keeps the allocator, the address spaces and the heaps as they
\* should be.
LEMMA MemoryNext ==
  ASSUME MemoryInv, [Next]_vars
  PROVE  MemoryInv'
<1>1. SUFFICES ASSUME ~mem'.stopped PROVE MemoryInv'
  BY DEF MemoryInv
<1>2. ASSUME NEW p \in Procs, NEW c \in Classes, Malloc(p, c) PROVE MemoryInv'
  BY <1>1, <1>2, MallocStep
<1>3. ASSUME NEW p \in Procs, NEW n \in 1..MaxLarge, MallocLarge(p, n) PROVE MemoryInv'
  BY <1>1, <1>3, MallocLargeStep
<1>4. ASSUME NEW p \in Procs, NEW b \in held[p], Free(p, b) PROVE MemoryInv'
  BY <1>1, <1>4, FreeStep
<1>5. ASSUME NEW p \in Procs, NEW n \in 1..MaxSegment, Exec(p, n) PROVE MemoryInv'
  BY <1>1, <1>5, ExecStep
<1>6. ASSUME NEW p \in Procs, NEW q \in Procs, Fork(p, q) PROVE MemoryInv'
  BY <1>1, <1>6, ForkStep
<1>7. ASSUME NEW p \in Procs, Exit(p) PROVE MemoryInv'
  BY <1>1, <1>7, ExitStep
<1>8. ASSUME NEW p \in Procs, Reap(p) PROVE MemoryInv'
  BY <1>1, <1>8, ReapStep
<1>9. CASE UNCHANGED vars
  BY <1>9 DEF vars, kpages, heap, MemoryInv, ProcessPages, Heaps
<1> QED
  BY <1>2, <1>3, <1>4, <1>5, <1>6, <1>7, <1>8, <1>9 DEF Next

\* As long as the kernel runs, the page allocator of kernel/memory.c, the
\* bitmaps and page tables of all address spaces and the heap of each program
\* are as they should be, whatever malloc, free, exec, fork, exit and wait do
\* and whichever of them fails.
THEOREM MemoryInvariant == Spec => []MemoryInv
BY MemoryInit, MemoryNext, PTL DEF Spec

\* The image of a one to one function has as many elements as its domain.
LEMMA ImageCount ==
  ASSUME NEW S, NEW T, IsFiniteSet(T), NEW f \in [S -> T],
         \A x, y \in S : f[x] = f[y] => x = y,
         NEW image, image = {f[x] : x \in S}
  PROVE  /\ IsFiniteSet(S) /\ IsFiniteSet(image)
         /\ Cardinality(image) = Cardinality(S) /\ Cardinality(S) \in Nat
<1>1. image \in SUBSET T
  OBVIOUS
<1>2. IsFiniteSet(image)
  BY ONLY <1>1, IsFiniteSet(T), FS_Subset
<1>3. f \in [S -> image] /\ \A t \in image : \E x \in S : f[x] = t
  OBVIOUS
<1>4. f \in Bijection(S, image)
  BY <1>3, Fun_IsBij
<1>5. ExistsBijection(S, image)
  BY <1>4 DEF ExistsBijection
<1>6. ExistsBijection(image, S)
  BY <1>5, Fun_ExistsBijSymmetric
<1>7. IsFiniteSet(S) /\ Cardinality(image) = Cardinality(S)
  BY <1>2, <1>6, FS_Bijection
<1> QED
  BY <1>2, <1>7, FS_CardinalityType

\* The frames of the pages and of the page tables, counted.
LEMMA FramesCounted == MemoryInv => FramesExact
<1> SUFFICES ASSUME MemoryInv, ~mem.stopped
             PROVE  FramesExact
  BY DEF FramesExact
<1> DEFINE numbers == KernelFrames \cup 0..(NPages - 1)
           pages == {x \in Spaces \X numbers : mem.pte[x[1]][x[2]] # None}
           tabs == {x \in Procs \X Tables : mem.tables[x[1]][x[2]] # None}
           inPages == {mem.pte[x[1]][x[2]] : x \in pages}
           inTables == {mem.tables[x[1]][x[2]] : x \in tabs}
           F == [x \in pages |-> mem.pte[x[1]][x[2]]]
           G == [x \in tabs |-> mem.tables[x[1]][x[2]]]
<1>1. /\ Owned(mem.used, mem.pte, mem.tables, lost) /\ EntriesTyped(mem.pte, mem.tables)
      /\ mem.used \subseteq Frames
  BY MemFields DEF MemoryInv, Sound, OwnedIn
<1>2. IsFiniteSet(Frames)
  <2>1. IsFiniteSet(0..(KFrames - 1)) /\ IsFiniteSet(KFrames..(KFrames + UFrames - 1))
    BY Constants, FS_Interval
  <2> QED
    BY <2>1, FS_Union DEF Frames, KernelFrames, UserFrames
<1>3. numbers = PageNumbers
  BY DEF PageNumbers, ProcPages
<1>4. /\ \A f : f \in inPages <=>
           \E s \in Spaces, v \in PageNumbers : mem.pte[s][v] # None /\ mem.pte[s][v] = f
      /\ \A f : f \in inTables <=>
           \E p \in Procs, i \in Tables : mem.tables[p][i] # None /\ mem.tables[p][i] = f
  <2> HIDE DEF numbers
  <2>1. /\ \A x \in pages : x[1] \in Spaces /\ x[2] \in PageNumbers /\ mem.pte[x[1]][x[2]] # None
        /\ \A s \in Spaces, v \in PageNumbers : mem.pte[s][v] # None => <<s, v>> \in pages
    BY <1>3
  <2>2. /\ \A x \in tabs : x[1] \in Procs /\ x[2] \in Tables /\ mem.tables[x[1]][x[2]] # None
        /\ \A p \in Procs, i \in Tables : mem.tables[p][i] # None => <<p, i>> \in tabs
    OBVIOUS
  <2> HIDE DEF pages, tabs
  <2>3. ASSUME NEW f
        PROVE  f \in inPages <=> \E s \in Spaces, v \in PageNumbers :
                                   mem.pte[s][v] # None /\ mem.pte[s][v] = f
    <3>1. ASSUME NEW s \in Spaces, NEW v \in PageNumbers, mem.pte[s][v] # None, mem.pte[s][v] = f
          PROVE  f \in inPages
      <4>1. <<s, v>> \in pages /\ f = mem.pte[<<s, v>>[1]][<<s, v>>[2]]
        BY <2>1, <3>1
      <4> QED
        BY <4>1
    <3>2. ASSUME f \in inPages
          PROVE  \E s \in Spaces, v \in PageNumbers : mem.pte[s][v] # None /\ mem.pte[s][v] = f
      BY <2>1, <3>2
    <3> QED
      BY <3>1, <3>2
  <2>4. ASSUME NEW f
        PROVE  f \in inTables <=> \E p \in Procs, i \in Tables :
                                    mem.tables[p][i] # None /\ mem.tables[p][i] = f
    <3>1. ASSUME NEW p \in Procs, NEW i \in Tables, mem.tables[p][i] # None, mem.tables[p][i] = f
          PROVE  f \in inTables
      <4>1. <<p, i>> \in tabs /\ f = mem.tables[<<p, i>>[1]][<<p, i>>[2]]
        BY <2>2, <3>1
      <4> QED
        BY <4>1
    <3>2. ASSUME f \in inTables
          PROVE  \E p \in Procs, i \in Tables : mem.tables[p][i] # None /\ mem.tables[p][i] = f
      BY <2>2, <3>2
    <3> QED
      BY <3>1, <3>2
  <2> QED
    BY <2>3, <2>4
<1>5. /\ F \in [pages -> Frames] /\ \A x, y \in pages : F[x] = F[y] => x = y
      /\ inPages = {F[x] : x \in pages}
  <2>1. \A x \in pages : /\ x[1] \in Spaces /\ x[2] \in PageNumbers /\ x = <<x[1], x[2]>>
                         /\ mem.pte[x[1]][x[2]] # None
    <3> HIDE DEF numbers
    <3> QED
      BY <1>3
  <2> HIDE DEF pages
  <2>2. \A x \in pages : F[x] = mem.pte[x[1]][x[2]] /\ F[x] \in Frames
    BY <1>1, <2>1 DEF EntriesTyped
  <2>3. \A x, y \in pages : F[x] = F[y] => x[1] = y[1] /\ x[2] = y[2]
    BY <1>1, <2>1, <2>2 DEF Owned
  <2> QED
    BY <2>1, <2>2, <2>3
<1>6. /\ G \in [tabs -> Frames] /\ \A x, y \in tabs : G[x] = G[y] => x = y
      /\ inTables = {G[x] : x \in tabs}
  <2>1. \A x \in tabs : /\ x[1] \in Procs /\ x[2] \in Tables /\ x = <<x[1], x[2]>>
                        /\ mem.tables[x[1]][x[2]] # None
    OBVIOUS
  <2> HIDE DEF tabs
  <2>2. \A x \in tabs : G[x] = mem.tables[x[1]][x[2]] /\ G[x] \in Frames
    BY <1>1, <2>1 DEF EntriesTyped
  <2>3. \A x, y \in tabs : G[x] = G[y] => x[1] = y[1] /\ x[2] = y[2]
    BY <1>1, <2>1, <2>2 DEF Owned
  <2> QED
    BY <2>1, <2>2, <2>3
<1> HIDE DEF numbers, pages, tabs, inPages, inTables, F, G
<1>7. /\ IsFiniteSet(inPages) /\ Cardinality(inPages) = Cardinality(pages)
      /\ Cardinality(pages) \in Nat
  BY <1>2, <1>5, ImageCount
<1>8. /\ IsFiniteSet(inTables) /\ Cardinality(inTables) = Cardinality(tabs)
      /\ Cardinality(tabs) \in Nat
  BY <1>2, <1>6, ImageCount
<1>9. inPages \cap inTables = {}
  BY <1>1, <1>4 DEF Owned
<1>10. Cardinality(inPages \cup inTables) = Cardinality(pages) + Cardinality(tabs)
  BY <1>7, <1>8, <1>9, FS_Union, FS_EmptySet
<1>11. mem.used = (inPages \cup inTables) \cup lost /\ (inPages \cup inTables) \cap lost = {}
  <2>1. None \notin mem.used
    BY <1>1, NoneNotFrame
  <2>2. inPages \subseteq mem.used \ lost /\ inTables \subseteq mem.used \ lost
    BY <1>1, <1>4 DEF Owned
  <2>3. \A f \in mem.used \ lost : f \in inPages \/ f \in inTables
    BY <1>1, <1>4, <2>1 DEF Owned
  <2>4. lost \subseteq mem.used
    BY <1>1 DEF Owned
  <2> QED
    BY <2>2, <2>3, <2>4
<1> QED
  BY <1>10, <1>11 DEF FramesExact, numbers, pages, tabs, inPages, inTables

\* A frame that is used is in one page or one page table, or an exited process
\* had it, and a free frame is in none: what allocPage, freePage, fork and exit
\* take and give back is always the same (kernel/memory.c).
THEOREM MemoryFramesExact == Spec => []FramesExact
BY MemoryInvariant, FramesCounted, PTL

\* The address bitmaps that fork copies pages by have the bits of the pages
\* that are there, but for the page of a getOnePage without a frame.
THEOREM MemoryPagesExact == Spec => []PagesExact
<1>1. MemoryInv => PagesExact
  BY DEF MemoryInv, Sound, BitsExact, PagesExact
<1> QED
  BY <1>1, MemoryInvariant, PTL

\* The free blocks of an arena are as many as its header says.
LEMMA FreeCounted ==
  ASSUME NEW a, NEW fl, NEW h, NEW pte, HeapSound(a, fl, h, pte, None),
         NEW v \in ProcPages, a[v].kind = "small",
         NEW c, c = a[v].size,
         NEW free, free = {i \in DOMAIN fl[c] : fl[c][i][1] = v}
  PROVE  a[v].cnt = Cardinality(free)
<1> DEFINE left == NotHeld(v, c, h)
           list == fl[c]
           F == [i \in free |-> list[i][2]]
<1>1. /\ c \in Classes /\ a[v].cnt = Cardinality(left)
      /\ \A k \in left : <<v, k>> \in Range(list)
  BY DEF HeapSound, SmallArenas
<1>2. list \in Seq(ProcPages \X Nat)
  BY <1>1 DEF HeapSound, HeapTyped
<1>3. /\ \A i, j \in DOMAIN list : list[i] = list[j] => i = j
      /\ \A x \in Range(list) : x[2] \in 1..BlocksPerArena[c] /\ x \notin h
  BY <1>1 DEF HeapSound, ListsSound, IsInjective
<1>4. IsFiniteSet(left)
  BY <1>1, NotHeldFinite
<1> HIDE DEF list
<1>5. \A i \in DOMAIN list : list[i] \in Range(list) /\ list[i] = <<list[i][1], list[i][2]>>
  BY <1>2 DEF Range
<1>6. free = {i \in DOMAIN list : list[i][1] = v}
  BY DEF list
<1>7. \A i \in free : i \in DOMAIN list /\ list[i] = <<v, list[i][2]>> /\ list[i] \in Range(list)
  BY <1>5, <1>6
<1>8. \A i \in free : list[i][2] \in left
  BY <1>3, <1>7 DEF NotHeld
<1>9. F \in [free -> left]
  BY <1>8
<1>10. \A i, j \in free : F[i] = F[j] => i = j
  BY <1>3, <1>7
<1>11. \A k \in left : \E i \in free : F[i] = k
  <2> SUFFICES ASSUME NEW k \in left PROVE \E i \in free : F[i] = k
    OBVIOUS
  <2>1. PICK i \in DOMAIN list : list[i] = <<v, k>>
    BY <1>1 DEF Range
  <2>2. i \in free
    BY <1>6, <2>1
  <2> QED
    BY <2>1, <2>2
<1> HIDE DEF F, left
<1>12. ExistsBijection(free, left)
  BY <1>9, <1>10, <1>11, Fun_IsBij DEF ExistsBijection
<1>13. ExistsBijection(left, free)
  BY <1>12, Fun_ExistsBijSymmetric
<1> QED
  BY <1>1, <1>4, <1>13, FS_Bijection

\* The heaps of MemoryInv are as HeapExact says.
LEMMA HeapsCounted == MemoryInv => HeapExact
<1> SUFFICES ASSUME MemoryInv, ~mem.stopped, NEW p \in Procs
             PROVE
      LET small == {v \in Pages(p) : arena[p][v].kind = "small"}
          large == {v \in Pages(p) : arena[p][v].kind = "large"}
          free(v) == {i \in DOMAIN freeList[p][arena[p][v].size] :
                        freeList[p][arena[p][v].size][i][1] = v}
          all == UNION {{<<v, i>> : i \in 1..BlocksPerArena[arena[p][v].size]} : v \in small}
          listed == UNION {Range(freeList[p][c]) : c \in Classes}
      IN /\ \A v \in small : /\ arena[p][v].cnt = Cardinality(free(v))
                             /\ arena[p][v].cnt < BlocksPerArena[arena[p][v].size]
         /\ \A v \in large : v..(v + arena[p][v].cnt - 1) \subseteq Mapped(mem, p)
         /\ small \subseteq Mapped(mem, p)
         /\ listed \cap held[p] = {}
         /\ listed \cup held[p] = all \cup {<<v, -1>> : v \in large}
  BY Zenon DEF HeapExact
<1> DEFINE a == arena[p]
           fl == freeList[p]
           h == held[p]
           small == {v \in Pages(p) : a[v].kind = "small"}
           large == {v \in Pages(p) : a[v].kind = "large"}
           free(v) == {i \in DOMAIN fl[a[v].size] : fl[a[v].size][i][1] = v}
           all == UNION {{<<v, i>> : i \in 1..BlocksPerArena[a[v].size]} : v \in small}
           listed == UNION {Range(fl[c]) : c \in Classes}
           larges == {<<v, -1>> : v \in large}
           pte == mem.pte[p]
<1>1. HeapSound(a, fl, h, pte, None) /\ Pages(p) = ProcPages
  BY Constants, SpacePages DEF MemoryInv, Heaps
<1>2. \A v \in Pages(p) : pte[v] # None => v \in Mapped(mem, p)
  BY DEF Mapped
<1> HIDE DEF a, fl, h, pte
<1>3. \A v \in small : a[v].cnt = Cardinality(free(v))
  <2> SUFFICES ASSUME NEW v \in small PROVE a[v].cnt = Cardinality(free(v))
    OBVIOUS
  <2>1. v \in ProcPages /\ a[v].kind = "small"
    BY <1>1
  <2> DEFINE c == a[v].size
             these == free(v)
  <2>2. these = {i \in DOMAIN fl[c] : fl[c][i][1] = v}
    OBVIOUS
  <2> HIDE DEF c, these
  <2>3. a[v].cnt = Cardinality(these)
    BY <1>1, <2>1, <2>2, FreeCounted DEF c
  <2> QED
    BY <2>3 DEF these
<1>4. \A v \in small : a[v].cnt < BlocksPerArena[a[v].size] /\ v \in Mapped(mem, p)
  <2> SUFFICES ASSUME NEW v \in small
               PROVE  a[v].cnt < BlocksPerArena[a[v].size] /\ v \in Mapped(mem, p)
    OBVIOUS
  <2>1. v \in ProcPages /\ a[v].kind = "small" /\ v \in Pages(p) /\ v # None
    BY <1>1, Constants DEF None
  <2>2. a[v].cnt < BlocksPerArena[a[v].size]
    BY <1>1, <2>1 DEF HeapSound, SomeHeld
  <2>3. pte[v] # None
    BY <1>1, <2>1 DEF HeapSound, SmallArenas
  <2> QED
    BY <1>2, <2>1, <2>2, <2>3
<1>5. \A v \in large : v..(v + a[v].cnt - 1) \subseteq Mapped(mem, p)
  BY <1>1, <1>2 DEF HeapSound, LargeArenas
<1>6. listed \cap h = {}
  BY <1>1 DEF HeapSound, ListsSound
<1>7. /\ \A x : x \in all <=> \E v \in small : \E i \in 1..BlocksPerArena[a[v].size] : x = <<v, i>>
      /\ \A x : x \in larges <=> \E v \in large : x = <<v, -1>>
      /\ \A x : x \in listed <=> \E c \in Classes : x \in Range(fl[c])
      /\ \A v : v \in small <=> v \in ProcPages /\ a[v].kind = "small"
      /\ \A v : v \in large <=> v \in ProcPages /\ a[v].kind = "large"
  <2>1. /\ \A v : v \in small <=> v \in ProcPages /\ a[v].kind = "small"
        /\ \A v : v \in large <=> v \in ProcPages /\ a[v].kind = "large"
    BY <1>1
  <2> HIDE DEF small, large
  <2>2. \A x : x \in all <=> \E v \in small : \E i \in 1..BlocksPerArena[a[v].size] : x = <<v, i>>
    OBVIOUS
  <2>3. /\ \A x : x \in larges <=> \E v \in large : x = <<v, -1>>
        /\ \A x : x \in listed <=> \E c \in Classes : x \in Range(fl[c])
    OBVIOUS
  <2> QED
    BY <2>1, <2>2, <2>3
<1> HIDE DEF small, large, all, listed, larges
<1>8. ASSUME NEW x \in listed PROVE x \in all
  <2>1. PICK c \in Classes : x \in Range(fl[c])
    BY <1>7
  <2>2. a[x[1]].kind = "small" /\ a[x[1]].size = c /\ x[2] \in 1..BlocksPerArena[c]
    BY <1>1, <2>1 DEF HeapSound, ListsSound
  <2>3. x \in ProcPages \X Nat
    BY <1>1, <2>1 DEF HeapSound, HeapTyped, Range
  <2>4. x[1] \in small /\ x = <<x[1], x[2]>>
    BY <1>7, <2>2, <2>3
  <2> QED
    BY <1>7, <2>2, <2>4
<1>9. ASSUME NEW x \in h PROVE x \in all \cup larges
  <2>1. x \in ProcPages \X Int
    BY <1>1 DEF HeapSound, HeapTyped
  <2>2. x = <<x[1], x[2]>> /\ x[1] \in ProcPages
    BY <2>1
  <2>3. \/ a[x[1]].kind = "large" /\ x[2] = -1
        \/ a[x[1]].kind = "small" /\ x[2] \in 1..BlocksPerArena[a[x[1]].size]
    BY <1>1 DEF HeapSound, HeldSound
  <2> QED
    BY <1>7, <2>2, <2>3
<1>10. ASSUME NEW x \in all PROVE x \in listed \cup h
  <2>1. PICK v \in small : \E i \in 1..BlocksPerArena[a[v].size] : x = <<v, i>>
    BY <1>7
  <2>2. PICK i \in 1..BlocksPerArena[a[v].size] : x = <<v, i>>
    BY <2>1
  <2>3. /\ a[v].size \in Classes
        /\ \A k \in NotHeld(v, a[v].size, h) : <<v, k>> \in Range(fl[a[v].size])
    BY <1>1, <1>7 DEF HeapSound, SmallArenas
  <2>4. x \notin h => i \in NotHeld(v, a[v].size, h)
    BY <2>2 DEF NotHeld
  <2> QED
    BY <1>7, <2>2, <2>3, <2>4
<1>11. ASSUME NEW x \in larges PROVE x \in h
  BY <1>1, <1>7 DEF HeapSound, LargeArenas
<1>12. listed \cup h = all \cup larges
  BY <1>8, <1>9, <1>10, <1>11
<1>13. small \subseteq Mapped(mem, p)
  BY <1>4
<1> QED
  BY ONLY <1>3, <1>4, <1>5, <1>6, <1>12, <1>13 DEF a, fl, h, small, large, all, listed, larges

\* A block is given out or on the free list of its size, once, and its arena
\* counts the free ones; no arena stays without a block given out, and no block
\* is in a page that is gone (sysMalloc and sysFree).
THEOREM MemoryHeapExact == Spec => []HeapExact
BY MemoryInvariant, HeapsCounted, PTL

-----------------------------------------------------------------------------
(* The types, which hold of a kernel that has stopped as well              *)

\* A page that allocPage returns is one of the address space.
LEMMA AllocAddr ==
  ASSUME NEW m \in Mems, NEW s \in Spaces, NEW n \in Nat \ {0}
  PROVE  AllocPage(m, s, n).addr \in Pages(s) \cup {None}
<1> DEFINE start == FirstRun(m, s, n)
           x == AllocRun(m, s, start, n)
<1>1. AllocPage(m, s, n) = IF start = None THEN [addr |-> None, m |-> m] ELSE x
  BY DEF AllocPage
<1>2. x.addr \in {start, None}
  <2> HIDE DEF start
  <2> QED
    BY DEF AllocRun
<1>3. ASSUME start # None PROVE start \in Pages(s)
  <2>1. start \in Nat /\ start..(start + n - 1) \subseteq Pages(s)
    BY <1>3, FirstRunIs
  <2>2. start \in start..(start + n - 1)
    BY <2>1
  <2> QED
    BY <2>1, <2>2
<1> HIDE DEF start, x
<1> QED
  BY <1>1, <1>2, <1>3

\* freePage leaves a memory, whatever it is given.
LEMMA FreePageMems ==
  ASSUME NEW m \in Mems, NEW s \in Spaces, NEW v, NEW k
  PROVE  FreePage(m, s, v, k) \in Mems
<1> DEFINE run == v..(v + k - 1)
           frames == {m.pte[s][w] : w \in run}
<1>1. Stop(m) \in Mems /\ Unmap(m, s, run, run) \in Mems
  BY StopIs, UnmapMems
<1>2. FreePage(m, s, v, k) = IF KFrames \in frames THEN Stop(m) ELSE Unmap(m, s, run, run)
  BY DEF FreePage
<1> HIDE DEF frames, run
<1> QED
  BY <1>1, <1>2

\* getOnePage leaves a memory.
LEMMA OnePageMems ==
  ASSUME NEW m \in Mems, NEW p \in Procs, NEW v \in ProcPages
  PROVE  GetOnePage(m, p, v).m \in Mems
<1> DEFINE run == {v}
           m1 == Mark(m, p, run)
<1>1. GetOnePage(m, p, v) = TakeFrame(m1, p, v)
  BY DEF GetOnePage
<1>2. p \in Spaces /\ run \subseteq PageNumbers /\ v \in Pages(p)
  BY Constants, SpacePages
<1> HIDE DEF run
<1>3. m1 \in Mems
  BY <1>2, MarkIs
<1> HIDE DEF m1
<1> QED
  BY <1>1, <1>2, <1>3, TakeFrameTook DEF Took

\* The first state has the types.
LEMMA TypedInit == Init => TypeOK
<1> SUFFICES ASSUME Init PROVE TypeOK
  OBVIOUS
<1> DEFINE r == AllocPage(FirstMem, Kernel, 3)
<1>1. FirstMem \in Mems /\ InitProc \in Procs /\ StackPage \in ProcPages /\ Kernel \in Spaces
  BY FirstMemSound, Constants DEF Sound
<1>2. BootMem = GetOnePage(r.m, InitProc, StackPage).m
  <2>1. PageNumbers = KernelFrames \cup 0..(NPages - 1)
    BY DEF PageNumbers, ProcPages
  <2> QED
    BY <2>1 DEF BootMem, FirstMem, MemOf
<1>3. r.m \in Mems
  BY <1>1, AllocPageIs
<1> HIDE DEF r
<1>4. mem \in Mems
  BY <1>1, <1>2, <1>3, OnePageMems DEF Init
<1>5. 0 \in KernelFrames /\ 1 \in KernelFrames /\ 2 \in KernelFrames
  BY Constants DEF KernelFrames
<1>6. /\ life \in [Procs -> {"none", "alive", "zombie", "stuck"}]
      /\ pcb \in [Procs -> KernelFrames \cup {None}]
      /\ dir \in [Procs -> KernelFrames \cup {None}]
      /\ vapMap \in [Procs -> KernelFrames \cup {None}]
      /\ held \in [Procs -> SUBSET Blocks]
      /\ lock = None /\ lost = {}
  BY <1>5 DEF Init, InitOnly
<1> QED
  BY <1>4, <1>6 DEF TypeOK

\* Every step keeps the types.
LEMMA TypedNext ==
  ASSUME TypeOK, MemoryInv, [Next]_vars
  PROVE  TypeOK'
<1>0. /\ mem \in Mems
      /\ life \in [Procs -> {"none", "alive", "zombie", "stuck"}]
      /\ pcb \in [Procs -> KernelFrames \cup {None}]
      /\ dir \in [Procs -> KernelFrames \cup {None}]
      /\ vapMap \in [Procs -> KernelFrames \cup {None}]
      /\ held \in [Procs -> SUBSET Blocks]
      /\ lock \in KernelFrames \cup {None}
      /\ lost \subseteq Frames
      /\ Procs \subseteq Spaces /\ Kernel \in Spaces /\ 1 \in Nat \ {0}
      /\ Blocks = ProcPages \X Int
  BY Constants DEF TypeOK, Blocks, ProcPages
<1>1. ASSUME NEW p \in Procs, NEW c \in Classes, Malloc(p, c) PROVE TypeOK'
  <2> DEFINE r == IF freeList[p][c] = <<>> THEN AllocPage(mem, p, 1)
                  ELSE [addr |-> None, m |-> mem]
             list == IF r.addr = None THEN freeList[p][c]
                     ELSE [i \in 1..BlocksPerArena[c] |-> <<r.addr, i>>]
             b == Head(list)
  <2>1. /\ mem' = r.m
        /\ list # <<>> => held' = [held EXCEPT ![p] = @ \cup {b}]
        /\ list = <<>> => held' = held
        /\ UNCHANGED <<life, kpages, lock, lost>> /\ ~mem.stopped
    BY <1>1 DEF Malloc, heap, Calls
  <2>2. r.m \in Mems /\ r.addr \in ProcPages \cup {None}
    <3>1. Pages(p) = ProcPages
      BY Constants, SpacePages
    <3>2. CASE freeList[p][c] # <<>>
      <4>1. r = [addr |-> None, m |-> mem]
        BY <3>2
      <4> QED
        BY <1>0, <4>1
    <3>3. CASE freeList[p][c] = <<>>
      <4>1. r = AllocPage(mem, p, 1)
        BY <3>3
      <4> HIDE DEF r
      <4> QED
        BY <1>0, <3>1, <4>1, AllocAddr, AllocPageIs
    <3> QED
      BY <3>2, <3>3
  <2>3. ASSUME list # <<>> PROVE b \in ProcPages \X Int
    <3> HIDE DEF r
    <3>1. CASE r.addr = None
      <4>1. list \in Seq(ProcPages \X Nat)
        BY <2>1, <3>1 DEF MemoryInv, Heaps
      <4> HIDE DEF list
      <4> QED
        BY <2>3, <4>1
    <3>2. CASE r.addr # None
      <4>1. BlocksPerArena[c] \in Nat \ {0}
        BY MemoryAssumption
      <4>2. b = <<r.addr, 1>>
        BY <3>2, <4>1
      <4> HIDE DEF list, b
      <4> QED
        BY <2>2, <3>2, <4>2
    <3> QED
      BY <3>1, <3>2
  <2> HIDE DEF r, list, b
  <2>4. held' \in [Procs -> SUBSET Blocks]
    BY <1>0, <2>1, <2>3
  <2> QED
    BY <1>0, <2>1, <2>2, <2>4 DEF TypeOK, kpages
<1>2. ASSUME NEW p \in Procs, NEW n \in 1..MaxLarge, MallocLarge(p, n) PROVE TypeOK'
  <2> DEFINE r == AllocPage(mem, p, n)
  <2>1. /\ mem' = r.m
        /\ \/ held' = held
           \/ r.addr # None /\ held' = [held EXCEPT ![p] = @ \cup {<<r.addr, -1>>}]
        /\ UNCHANGED <<life, kpages, lock, lost>>
    BY <1>2 DEF MallocLarge, heap
  <2>2. r.m \in Mems /\ r.addr \in ProcPages \cup {None}
    <3>1. Pages(p) = ProcPages /\ n \in Nat \ {0}
      BY Constants, SpacePages, MemoryAssumption
    <3> QED
      BY <1>0, <3>1, AllocAddr, AllocPageIs
  <2> HIDE DEF r
  <2>3. held' \in [Procs -> SUBSET Blocks]
    BY <1>0, <2>1, <2>2
  <2> QED
    BY <1>0, <2>1, <2>2, <2>3 DEF TypeOK, kpages
<1>3. ASSUME NEW p \in Procs, NEW b \in held[p], Free(p, b) PROVE TypeOK'
  <2>1. /\ held' = [held EXCEPT ![p] = @ \ {b}]
        /\ mem' = mem \/ \E k : mem' = FreePage(mem, p, b[1], k)
        /\ UNCHANGED <<life, kpages, lock, lost>>
    BY <1>3 DEF Free
  <2>2. mem' \in Mems
    BY <1>0, <2>1, FreePageMems
  <2>3. held' \in [Procs -> SUBSET Blocks]
    BY <1>0, <2>1
  <2> QED
    BY <1>0, <2>1, <2>2, <2>3 DEF TypeOK, kpages
<1>4. ASSUME NEW p \in Procs, NEW n \in 1..MaxSegment, Exec(p, n) PROVE TypeOK'
  <2> DEFINE r == IF ProgPage \in Mapped(mem, p) THEN [ok |-> TRUE, m |-> mem]
                  ELSE GetOnePage(mem, p, ProgPage)
  <2>1. /\ mem' = Stop(r.m) \/ mem' = r.m
        /\ lock' = lock \/ lock' = pcb[p]
        /\ UNCHANGED <<life, kpages, heap, lost>>
    BY <1>4 DEF Exec
  <2>2. r.m \in Mems
    <3>1. GetOnePage(mem, p, ProgPage).m \in Mems
      BY <1>0, Constants, OnePageMems
    <3>2. CASE ProgPage \in Mapped(mem, p)
      <4>1. r = [ok |-> TRUE, m |-> mem]
        BY <3>2
      <4> QED
        BY <1>0, <4>1
    <3> QED
      BY <3>1, <3>2
  <2> HIDE DEF r
  <2>3. mem' \in Mems
    BY <2>1, <2>2, StopIs
  <2> QED
    BY <1>0, <2>1, <2>3 DEF TypeOK, kpages, heap
<1>5. ASSUME NEW p \in Procs, NEW q \in Procs, Fork(p, q) PROVE TypeOK'
  <2> DEFINE a == AllocPage(mem, Kernel, 1)
             b == AllocPage(a.m, Kernel, 1)
             c == AllocPage(b.m, Kernel, 1)
             d == AllocPage(c.m, Kernel, 1)
  <2>1. /\ lock' = lock /\ lost' = lost
        /\ \/ mem' = d.m /\ UNCHANGED <<kpages, heap>>
              /\ (life' = life \/ life' = [life EXCEPT ![p] = "stuck"])
           \/ /\ mem' = FreePage(CopyPages(d.m, p, q), Kernel, b.addr, 1)
              /\ life' = [life EXCEPT ![q] = "alive"]
              /\ pcb' = [pcb EXCEPT ![q] = a.addr]
              /\ vapMap' = [vapMap EXCEPT ![q] = c.addr]
              /\ dir' = [dir EXCEPT ![q] = d.addr]
              /\ held' = [held EXCEPT ![q] = {}]
    BY <1>5 DEF Fork, NoHeap
  <2>2. a.m \in Mems /\ a.addr \in KernelFrames \cup {None}
    BY <1>0, AllocPageIs, AllocAddr, SpacePages
  <2> HIDE DEF a
  <2>3. b.m \in Mems
    BY <1>0, <2>2, AllocPageIs
  <2> HIDE DEF b
  <2>4. c.m \in Mems /\ c.addr \in KernelFrames \cup {None}
    BY <1>0, <2>3, AllocPageIs, AllocAddr, SpacePages DEF c
  <2> HIDE DEF c
  <2>5. d.m \in Mems /\ d.addr \in KernelFrames \cup {None}
    BY <1>0, <2>4, AllocPageIs, AllocAddr, SpacePages
  <2> HIDE DEF d
  <2>6. CopyPages(d.m, p, q) \in Mems
    BY <2>5, CopyPagesIs DEF Copied
  <2>7. mem' \in Mems
    BY <1>0, <2>1, <2>5, <2>6, FreePageMems
  <2>8. /\ life' \in [Procs -> {"none", "alive", "zombie", "stuck"}]
        /\ pcb' \in [Procs -> KernelFrames \cup {None}]
        /\ dir' \in [Procs -> KernelFrames \cup {None}]
        /\ vapMap' \in [Procs -> KernelFrames \cup {None}]
        /\ held' \in [Procs -> SUBSET Blocks]
    BY <1>0, <2>1, <2>2, <2>4, <2>5 DEF kpages, heap
  <2> QED
    BY <1>0, <2>1, <2>7, <2>8 DEF TypeOK
<1>6. ASSUME NEW p \in Procs, Exit(p) PROVE TypeOK'
  <2> DEFINE x == Released(mem, p)
  <2>1. /\ ~mem.stopped
        /\ life' = [life EXCEPT ![p] = "zombie"]
        /\ mem' = FreePage(x, Kernel, vapMap[p], 1)
        /\ lost' = lost \cup {mem.pte[p][v] : v \in Mapped(mem, p)}
        /\ vapMap' = [vapMap EXCEPT ![p] = None]
        /\ held' = [held EXCEPT ![p] = {}]
        /\ UNCHANGED <<pcb, dir, lock>>
    BY <1>6 DEF Exit, Released, NoHeap
  <2> DEFINE more == lost \cup {mem.pte[p][v] : v \in Mapped(mem, p)}
  <2>2. Sound(mem, lost, lock)
    BY <2>1 DEF MemoryInv
  <2>3. lost' = more
    BY <2>1
  <2> HIDE DEF x
  <2>4. x \in Mems
    <3> DEFINE gone == more
    <3>1. gone = lost \cup {mem.pte[p][v] : v \in Mapped(mem, p)}
      OBVIOUS
    <3> HIDE DEF gone, more
    <3> QED
      BY <2>2, <3>1, ReleasedSound DEF x, Sound
  <2>5. mem' \in Mems
    BY <1>0, <2>1, <2>4, FreePageMems
  <2>6. lost' \subseteq Frames
    <3>1. \A v \in Mapped(mem, p) : mem.pte[p][v] \in Frames
      BY <1>0, MemFields, SpacePages DEF EntriesTyped, Mapped
    <3> QED
      BY <1>0, <2>1, <3>1
  <2>7. /\ life' \in [Procs -> {"none", "alive", "zombie", "stuck"}]
        /\ vapMap' \in [Procs -> KernelFrames \cup {None}]
        /\ held' \in [Procs -> SUBSET Blocks]
    BY <1>0, <2>1
  <2> QED
    BY <1>0, <2>1, <2>5, <2>6, <2>7 DEF TypeOK
<1>7. ASSUME NEW p \in Procs, Reap(p) PROVE TypeOK'
  <2>1. /\ life' = [life EXCEPT ![p] = "none"]
        /\ mem' = FreePage(FreePage(mem, Kernel, dir[p], 1), Kernel, pcb[p], 1)
        /\ pcb' = [pcb EXCEPT ![p] = None]
        /\ dir' = [dir EXCEPT ![p] = None]
        /\ UNCHANGED <<vapMap, heap, lock, lost>>
    BY <1>7 DEF Reap
  <2>2. FreePage(mem, Kernel, dir[p], 1) \in Mems
    BY <1>0, FreePageMems
  <2>3. mem' \in Mems
    BY <1>0, <2>1, <2>2, FreePageMems
  <2>4. /\ life' \in [Procs -> {"none", "alive", "zombie", "stuck"}]
        /\ pcb' \in [Procs -> KernelFrames \cup {None}]
        /\ dir' \in [Procs -> KernelFrames \cup {None}]
    BY <1>0, <2>1
  <2> QED
    BY <1>0, <2>1, <2>3, <2>4 DEF TypeOK, heap
<1>8. CASE UNCHANGED vars
  BY <1>8 DEF vars, kpages, heap, TypeOK
<1> QED
  BY <1>1, <1>2, <1>3, <1>4, <1>5, <1>6, <1>7, <1>8 DEF Next

\* Frames, pages, bits and tables stay in their ranges, also in the memory of a
\* kernel that has stopped in a call.
THEOREM MemoryTyped == Spec => []TypeOK
BY TypedInit, TypedNext, MemoryInvariant, PTL DEF Spec
=============================================================================
