------------------------------- MODULE Memory -------------------------------
(***************************************************************************)
(* Memory: the page allocator and the heap of kernel/memory.c, and what    *)
(* fork, exec, exit and wait take from it and give back.  All of it runs   *)
(* in system calls with interrupts off, under a lock that is only found    *)
(* taken if an earlier call failed to release it; so a call is one step.   *)
(*                                                                         *)
(* Frames and pages are numbers.  The frames of the kernel pool come       *)
(* before those of the user pool, as they do in memory, and freePhyAddr    *)
(* tells the pools apart by that.  The address space Kernel has its page   *)
(* tables from the loader; a process gets one when a page needs it, from   *)
(* the kernel pool.                                                        *)
(***************************************************************************)
EXTENDS Integers, FiniteSets, FiniteSetsExt, Sequences, SequencesExt

CONSTANTS Procs, InitProc,
          Kernel,       \* the kernel's address space
          KFrames,      \* frames of the kernel pool
          UFrames,      \* frames of the user pool
          NPages,       \* pages of a process, of which the last is its stack
          TablePages,   \* pages that share a page table
          ProgPage,     \* the first page of a program from the disk
          MaxSegment,   \* bound: pages of a program
          Classes,      \* block sizes, and how many blocks an arena has
          BlocksPerArena,
          MaxLarge,     \* bound: pages of a large block
          MaxHeld       \* bound: blocks the programs have at a time

ASSUME MemoryAssumption ==
  /\ InitProc \in Procs /\ Kernel \notin Procs
  /\ {UFrames, NPages, TablePages, MaxSegment} \subseteq Nat \ {0}
  /\ {MaxLarge, MaxHeld} \subseteq Nat
  /\ KFrames \in Nat /\ KFrames >= 4
  /\ ProgPage \in 0..(NPages - 2)
  /\ BlocksPerArena \in [Classes -> Nat \ {0}]

VARIABLES mem,       \* the page allocator: see Mems
          life,      \* "none", "alive", "zombie" after exit, or "stuck" in fork
          pcb, dir, vapMap,   \* kernel pages of each process
          arena,     \* what the header of an arena says, per page
          freeList,  \* umbdArr: the free blocks of each size
          held,      \* the blocks the program was given
          lock,      \* the PCB that userPap.lock was left with
          lost       \* history: the frames exited processes had

kpages == <<pcb, dir, vapMap>>
heap == <<arena, freeList, held>>
vars == <<mem, life, kpages, heap, lock, lost>>

None == -1
Spaces == Procs \cup {Kernel}
KernelFrames == 0..(KFrames - 1)
UserFrames == KFrames..(KFrames + UFrames - 1)
Frames == KernelFrames \cup UserFrames
Pages(s) == IF s = Kernel THEN KernelFrames ELSE 0..(NPages - 1)
StackPage == NPages - 1
Table(v) == v \div TablePages
Tables == 0..Table(StackPage)
Pool(s) == IF s = Kernel THEN KernelFrames ELSE UserFrames

\* used and vmap are the bitmaps of the pools and of the address spaces; pte
\* and tables the page tables; stopped says that the kernel hangs in a PANIC,
\* a failed ASSERT or a fault
Mems == [used: SUBSET Frames,
         vmap: [Spaces -> SUBSET (KernelFrames \cup 0..(NPages - 1))],
         pte: [Spaces -> [KernelFrames \cup 0..(NPages - 1) -> Frames \cup {None}]],
         tables: [Procs -> [Tables -> Frames \cup {None}]],
         stopped: BOOLEAN]

Lowest(S) == IF S = {} THEN None ELSE Min(S)

Stop(m) == [m EXCEPT !.stopped = TRUE]

-----------------------------------------------------------------------------
(* Pages *)

FreeFrame(m, pool) == Lowest(pool \ m.used)

\* bitMapScan: the first n pages in a row whose bits are 0
FirstRun(m, s, n) ==
  Lowest({v \in Pages(s) : v..(v + n - 1) \subseteq Pages(s) \ m.vmap[s]})

\* bitMapScanAndSet and bitMapSet: the pages of a run have their bits
Mark(m, s, run) == [m EXCEPT !.vmap[s] = @ \cup run]

Mapped(m, s) == {v \in Pages(s) : m.pte[s][v] # None}

\* mapPageTable; with no frame left for a page table the directory points to
\* frame 0, whose content, the GDT among it, is cleared
MapPage(m, s, v, f) ==
  LET k == FreeFrame(m, KernelFrames)
      noTable == s # Kernel /\ m.tables[s][Table(v)] = None
  IN IF m.pte[s][v] # None \/ (noTable /\ k = None) THEN Stop(m)
     ELSE IF noTable THEN [m EXCEPT !.used = @ \cup {k}, !.tables[s][Table(v)] = k,
                                    !.pte[s][v] = f]
     ELSE [m EXCEPT !.pte[s][v] = f]

\* allocPhyAddr and mapPageTable for page v
TakeFrame(m, s, v) ==
  LET f == FreeFrame(m, Pool(s))
  IN IF f = None THEN [ok |-> FALSE, m |-> m]
     ELSE [ok |-> TRUE, m |-> MapPage([m EXCEPT !.used = @ \cup {f}], s, v, f)]

\* the pages of a run lose their frames and their bits
Unmap(m, s, pages, run) ==
  [m EXCEPT !.used = @ \ {m.pte[s][v] : v \in pages},
            !.pte[s] = [v \in DOMAIN @ |-> IF v \in pages THEN None ELSE @[v]],
            !.vmap[s] = @ \ run]

\* mutant of Rollback: the page table entries stay
RollbackMapped(m, s, run) ==
  [m EXCEPT !.used = @ \ {m.pte[s][v] : v \in run \cap Mapped(m, s)}, !.vmap[s] = @ \ run]

\* mutant of Rollback: the bits of the pages stay set
RollbackBits(m, s, run) == Unmap(m, s, run \cap Mapped(m, s), {})

Rollback(m, s, run) == Unmap(m, s, run \cap Mapped(m, s), run)

\* the loop of allocPage over the n pages from start: it ends at a missing frame
TakeFrames(m, s, start, n) ==
  LET taken[i \in 0..n] ==
        IF i = 0 THEN [ok |-> TRUE, m |-> m]
        ELSE LET before == taken[i - 1]
             IN IF before.ok THEN TakeFrame(before.m, s, start + i - 1) ELSE before
  IN taken[n]

\* freePage; its assertion on user frames excludes the first one
FreePage(m, s, v, n) ==
  LET run == v..(v + n - 1)
      frames == {m.pte[s][w] : w \in run}
  IN IF KFrames \in frames THEN Stop(m) ELSE Unmap(m, s, run, run)

\* getOnePage: without a frame it returns with the page's bit set and the lock
GetOnePage(m, p, v) == TakeFrame(Mark(m, p, {v}), p, v)

\* allocPage for the n pages from start: the first one, or None with
\* everything but page tables undone
AllocRun(m, s, start, n) ==
  LET run == start..(start + n - 1)
      all == TakeFrames(Mark(m, s, run), s, start, n)
  IN IF all.ok THEN [addr |-> start, m |-> all.m]
     ELSE [addr |-> None, m |-> Rollback(all.m, s, run)]

\* allocPage
AllocPage(m, s, n) ==
  LET start == FirstRun(m, s, n)
  IN IF start = None THEN [addr |-> None, m |-> m] ELSE AllocRun(m, s, start, n)

-----------------------------------------------------------------------------
(* malloc and free.  A block is its page and its number there; -1 is the   *)
(* number of a large block.                                                *)

NoArena == [kind |-> "none", size |-> None, cnt |-> 0]

\* a call that takes the lock returns; one that finds it taken never does
Calls(p) == ~mem.stopped /\ life[p] = "alive" /\ lock \in {None, pcb[p]}

BlocksHeld == MapThenSumSet(LAMBDA p : Cardinality(held[p]), Procs)

\* sysMalloc of a block of the class c
Malloc(p, c) ==
  LET r == IF freeList[p][c] = <<>> THEN AllocPage(mem, p, 1) ELSE [addr |-> None, m |-> mem]
      list == IF r.addr = None THEN freeList[p][c]
              ELSE [i \in 1..BlocksPerArena[c] |-> <<r.addr, i>>]
      headers == IF r.addr = None THEN arena[p]
                 ELSE [arena[p] EXCEPT ![r.addr] =
                         [kind |-> "small", size |-> c, cnt |-> BlocksPerArena[c]]]
  IN /\ Calls(p)
     /\ BlocksHeld < MaxHeld
     /\ mem' = r.m
     /\ IF list = <<>> THEN UNCHANGED heap
        ELSE /\ freeList' = [freeList EXCEPT ![p][c] = Tail(list)]
             /\ arena' = [arena EXCEPT ![p] =
                            [headers EXCEPT ![Head(list)[1]].cnt = @ - 1]]
             /\ held' = [held EXCEPT ![p] = @ \cup {Head(list)}]
     /\ UNCHANGED <<life, kpages, lock, lost>>

\* sysMalloc of more than 1024 bytes
MallocLarge(p, n) ==
  LET r == AllocPage(mem, p, n)
  IN /\ Calls(p)
     /\ BlocksHeld < MaxHeld
     /\ mem' = r.m
     /\ IF r.addr = None THEN UNCHANGED heap
        ELSE /\ arena' = [arena EXCEPT ![p][r.addr] =
                            [kind |-> "large", size |-> None, cnt |-> n]]
             /\ held' = [held EXCEPT ![p] = @ \cup {<<r.addr, -1>>}]
             /\ UNCHANGED freeList
     /\ UNCHANGED <<life, kpages, lock, lost>>

\* a free list without the blocks of an arena, as free takes them off
Without(list, v) ==
  LET rest[i \in 0..Len(list)] ==
        IF i = 0 THEN <<>>
        ELSE IF list[i][1] = v THEN rest[i - 1] ELSE Append(rest[i - 1], list[i])
  IN rest[Len(list)]

\* mutant of Free: the blocks of an arena that goes stay on the free list
FreeKept(p, b) ==
  LET a == arena[p][b[1]]
      list == Append(freeList[p][a.size], b)
      last == a.kind = "large" \/ a.cnt + 1 = BlocksPerArena[a.size]
  IN /\ Calls(p)
     /\ b \in held[p]
     /\ held' = [held EXCEPT ![p] = @ \ {b}]
     /\ mem' = IF last THEN FreePage(mem, p, b[1], IF a.kind = "large" THEN a.cnt ELSE 1)
               ELSE mem
     /\ arena' = [arena EXCEPT ![p][b[1]] = IF last THEN NoArena ELSE [a EXCEPT !.cnt = @ + 1]]
     /\ freeList' = IF a.kind = "large" THEN freeList
                    ELSE [freeList EXCEPT ![p][a.size] = list]
     /\ UNCHANGED <<life, kpages, lock, lost>>

\* sysFree by the process in whose heap the block lies.  (inodeClose frees an
\* Inode of a process's heap as if it were the kernel's: not modelled.)
Free(p, b) ==
  LET a == arena[p][b[1]]
      list == Append(freeList[p][a.size], b)
      last == a.kind = "large" \/ a.cnt + 1 = BlocksPerArena[a.size]
  IN /\ Calls(p)
     /\ b \in held[p]
     /\ held' = [held EXCEPT ![p] = @ \ {b}]
     /\ mem' = IF last THEN FreePage(mem, p, b[1], IF a.kind = "large" THEN a.cnt ELSE 1)
               ELSE mem
     /\ arena' = [arena EXCEPT ![p][b[1]] = IF last THEN NoArena ELSE [a EXCEPT !.cnt = @ + 1]]
     /\ freeList' = IF a.kind = "large" THEN freeList
                    ELSE [freeList EXCEPT ![p][a.size] =
                            IF last THEN Without(list, b[1]) ELSE list]
     /\ UNCHANGED <<life, kpages, lock, lost>>

-----------------------------------------------------------------------------
(* Processes *)

NoHeap(p) == /\ arena' = [arena EXCEPT ![p] = [v \in Pages(p) |-> NoArena]]
             /\ freeList' = [freeList EXCEPT ![p] = [c \in Classes |-> <<>>]]
             /\ held' = [held EXCEPT ![p] = {}]

\* segmentLoad for a program of n pages.  In each round of its loop it asks
\* whether the FIRST page is there, and gets the page of the round if not: so
\* the others must be there already, or the read into them faults.
Exec(p, n) ==
  LET r == IF ProgPage \in Mapped(mem, p) THEN [ok |-> TRUE, m |-> mem]
           ELSE GetOnePage(mem, p, ProgPage)
  IN /\ Calls(p)
     /\ mem' = IF r.ok /\ ~(ProgPage..(ProgPage + n - 1) \subseteq Mapped(r.m, p))
               THEN Stop(r.m) ELSE r.m
     /\ lock' = IF r.ok THEN lock ELSE pcb[p]
     /\ UNCHANGED <<life, kpages, heap, lost>>

\* copyBodyStack3: a frame for each page of p whose bit is set; a missing
\* frame, or a page of p that is not there, faults in memcpy
CopyPages(m, p, q) ==
  LET copied[i \in 0..NPages] ==
        IF i = 0 THEN [m EXCEPT !.vmap[q] = m.vmap[p]]
        ELSE LET before == copied[i - 1]
                 r == TakeFrame(before, q, i - 1)
             IN IF i - 1 \notin m.vmap[p] THEN before
                ELSE IF r.ok /\ i - 1 \in Mapped(m, p) THEN r.m
                ELSE Stop(before)
  IN copied[NPages]

\* sysFork: PCB, copy buffer, address bitmap, page directory, then the pages;
\* when one of the four is not to be had, those before it stay taken for good,
\* and so do all when the lock for the pages is
Fork(p, q) ==
  LET a == AllocPage(mem, Kernel, 1)
      b == AllocPage(a.m, Kernel, 1)
      c == AllocPage(b.m, Kernel, 1)
      d == AllocPage(c.m, Kernel, 1)
  IN /\ ~mem.stopped /\ life[p] = "alive" /\ life[q] = "none"
     /\ CASE d.addr = None ->
               mem' = d.m /\ UNCHANGED <<life, kpages, heap>>
          [] d.addr # None /\ ~Calls(p) ->
               /\ mem' = d.m
               /\ life' = [life EXCEPT ![p] = "stuck"]
               /\ UNCHANGED <<kpages, heap>>
          [] OTHER ->
               /\ mem' = FreePage(CopyPages(d.m, p, q), Kernel, b.addr, 1)
               /\ life' = [life EXCEPT ![q] = "alive"]
               /\ pcb' = [pcb EXCEPT ![q] = a.addr]
               /\ vapMap' = [vapMap EXCEPT ![q] = c.addr]
               /\ dir' = [dir EXCEPT ![q] = d.addr]
               /\ NoHeap(q)
     /\ UNCHANGED <<lock, lost>>

\* sysExit: releaseProgramResource goes through the page tables, but takes the
\* entry of the page directory where it means that of the table: the frames of
\* the tables are freed, again and again, those of the pages never
Exit(p) ==
  LET m == [mem EXCEPT !.used = @ \ {mem.tables[p][i] : i \in Tables},
                       !.vmap[p] = {},
                       !.pte[p] = [v \in DOMAIN @ |-> None],
                       !.tables[p] = [i \in Tables |-> None]]
  IN /\ ~mem.stopped /\ life[p] = "alive"
     /\ p # InitProc
     /\ life' = [life EXCEPT ![p] = "zombie"]
     /\ mem' = FreePage(m, Kernel, vapMap[p], 1)
     /\ lost' = lost \cup {mem.pte[p][v] : v \in Mapped(mem, p)}
     /\ vapMap' = [vapMap EXCEPT ![p] = None]
     /\ NoHeap(p)
     /\ UNCHANGED <<pcb, dir, lock>>

\* threadExit, called by the parent in sysWait
Reap(p) ==
  /\ ~mem.stopped /\ life[p] = "zombie"
  /\ life' = [life EXCEPT ![p] = "none"]
  /\ mem' = FreePage(FreePage(mem, Kernel, dir[p], 1), Kernel, pcb[p], 1)
  /\ pcb' = [pcb EXCEPT ![p] = None]
  /\ dir' = [dir EXCEPT ![p] = None]
  /\ UNCHANGED <<vapMap, heap, lock, lost>>

\* the boot thread has started init: PCB, address bitmap, page directory, and
\* the stack with its page table
BootMem ==
  LET none == [v \in KernelFrames \cup 0..(NPages - 1) |-> None]
      m == [used |-> {}, stopped |-> FALSE,
            vmap |-> [s \in Spaces |-> {}], pte |-> [s \in Spaces |-> none],
            tables |-> [p \in Procs |-> [i \in Tables |-> None]]]
  IN GetOnePage(AllocPage(m, Kernel, 3).m, InitProc, StackPage).m

InitOnly(v) == [p \in Procs |-> IF p = InitProc THEN v ELSE None]

Init == /\ mem = BootMem
        /\ life = [p \in Procs |-> IF p = InitProc THEN "alive" ELSE "none"]
        /\ pcb = InitOnly(0) /\ vapMap = InitOnly(1) /\ dir = InitOnly(2)
        /\ arena = [p \in Procs |-> [v \in Pages(p) |-> NoArena]]
        /\ freeList = [p \in Procs |-> [c \in Classes |-> <<>>]]
        /\ held = [p \in Procs |-> {}]
        /\ lock = None
        /\ lost = {}

Next == \E p \in Procs :
          \/ \E c \in Classes : Malloc(p, c)
          \/ \E n \in 1..MaxLarge : MallocLarge(p, n)
          \/ \E b \in held[p] : Free(p, b)
          \/ \E n \in 1..MaxSegment : Exec(p, n)
          \/ \E q \in Procs : Fork(p, q)
          \/ Exit(p) \/ Reap(p)

Spec == Init /\ [][Next]_vars

-----------------------------------------------------------------------------
(* Properties *)

Blocks == (0..(NPages - 1)) \X Int

TypeOK == /\ mem \in Mems
          /\ life \in [Procs -> {"none", "alive", "zombie", "stuck"}]
          /\ {pcb, dir, vapMap} \subseteq [Procs -> KernelFrames \cup {None}]
          /\ held \in [Procs -> SUBSET Blocks]
          /\ lock \in KernelFrames \cup {None}
          /\ lost \subseteq Frames

\* A used frame belongs to one page or is one page table, or else a process
\* that exited had it; a free frame belongs to none.  So no two pages share memory, and every
\* allocation that fails half way gives back what it took.
FramesExact ==
  LET pages == {x \in Spaces \X (KernelFrames \cup 0..(NPages - 1)) :
                  mem.pte[x[1]][x[2]] # None}
      tabs == {x \in Procs \X Tables : mem.tables[x[1]][x[2]] # None}
      frames == {mem.pte[x[1]][x[2]] : x \in pages} \cup {mem.tables[x[1]][x[2]] : x \in tabs}
  IN ~mem.stopped =>
       /\ mem.used = frames \cup lost
       /\ frames \cap lost = {}
       /\ Cardinality(frames) = Cardinality(pages) + Cardinality(tabs)

\* The address bitmap of a process has exactly the bits of the pages that are
\* there, so that fork copies all of them and nothing else; the exception is
\* the page of a getOnePage that found no frame.
PagesExact ==
  ~mem.stopped =>
    \A s \in Spaces :
      \/ mem.vmap[s] = Mapped(mem, s)
      \/ lock # None /\ mem.vmap[s] \ {ProgPage} = Mapped(mem, s)

\* The free blocks of an arena, its count and the blocks given out agree: each
\* block is given out or on the free list of its size, once, an arena without
\* a block given out is gone, and the program's blocks are in pages it has.
HeapExact ==
  ~mem.stopped =>
    \A p \in Procs :
      LET small == {v \in Pages(p) : arena[p][v].kind = "small"}
          large == {v \in Pages(p) : arena[p][v].kind = "large"}
          free(v) == {i \in DOMAIN freeList[p][arena[p][v].size] :
                        freeList[p][arena[p][v].size][i][1] = v}
          all == UNION {{<<v, i>> : i \in 1..BlocksPerArena[arena[p][v].size]} : v \in small}
          listed == UNION {Range(freeList[p][c]) : c \in Classes}
      IN /\ \A v \in small : /\ arena[p][v].cnt = Cardinality(free(v))
                             /\ arena[p][v].cnt < BlocksPerArena[arena[p][v].size]
         /\ \A v \in large : v..(v + arena[p][v].cnt - 1) \subseteq Mapped(mem, p)
         /\ small \subseteq Mapped(mem, p)
         /\ listed \cap held[p] = {}
         /\ listed \cup held[p] = all \cup {<<v, -1>> : v \in large}
=============================================================================
