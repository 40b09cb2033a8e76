------------------------------ MODULE Directory ------------------------------
(***************************************************************************)
(* Directory: inodes in memory and on the disk, the entries of a           *)
(* directory and the way from a path to an inode, from fs/inode.c,         *)
(* fs/dir.c and fs/fs.c, as operators on one record fs.                    *)
(*                                                                         *)
(* A path is the sequence of its names; every path here starts at the      *)
(* root.  Sizes are counted in directory entries.  A block is its place on *)
(* the disk, 0 where the code has none.  A Dir object is the number of its *)
(* inode; the one object that is never freed, &rootDir, is RootDir.        *)
(***************************************************************************)
EXTENDS Integers, FiniteSets, FiniteSetsExt, Sequences, SequencesExt

CONSTANTS NInodes,    \* inodes of the partition
          NBlocks,    \* blocks of the partition
          PerBlock,   \* entries of a block, 21 in the code
          Direct,     \* direct blocks of an inode, 12 in the code
          Total       \* direct and indirect blocks, 140 in the code

ASSUME DirectoryAssumption ==
  /\ {NInodes, NBlocks, PerBlock, Direct, Total} \subseteq Nat \ {0}
  /\ PerBlock >= 2
  /\ Direct < Total

Inos == 0..(NInodes - 1)
Lbas == 1..NBlocks
Indirect == Direct..(Total - 1)
Positions == 0..(Total * PerBlock - 1)
RootDir == -1
None == -2

Entry(name, ino, type) == [name |-> name, ino |-> ino, type |-> type]
NoEntry == Entry("", 0, "unknown")
NoBlocks == [k \in 0..Direct |-> 0]
NoTable == [k \in Indirect |-> 0]

\* cnt is openCnt, 0 for an inode that is not on the list of open inodes; own if
\* it lies in the heap of the task that created the file, not in the kernel's
NoInode == [cnt |-> 0, own |-> FALSE, deny |-> FALSE, size |-> 0, block |-> NoBlocks]

\* a sector with the entries es and zeros behind them
DirSector(es) == [de |-> [p \in 0..(PerBlock - 1) |-> IF p < Len(es) THEN es[p + 1] ELSE NoEntry],
                  table |-> NoTable]

TableSector(all) == [de |-> [p \in 0..(PerBlock - 1) |-> NoEntry],
                     table |-> [k \in Indirect |-> all[k]]]

-----------------------------------------------------------------------------
(* Inodes *)

FreeInode(fs) == LET free == Inos \ fs.inodeBits IN IF free = {} THEN None ELSE Min(free)
FreeBlock(fs) == LET free == Lbas \ fs.blockBits IN IF free = {} THEN 0 ELSE Min(free)

\* an inode as the next inodeOpen returns it
Current(fs, i) == IF fs.open[i].cnt > 0 THEN fs.open[i] ELSE fs.disk[i]

InodeOpen(fs, i) ==
  IF fs.open[i].cnt > 0 THEN [fs EXCEPT !.open[i].cnt = @ + 1]
  ELSE [fs EXCEPT !.open[i] = [NoInode EXCEPT !.cnt = 1, !.size = fs.disk[i].size,
                                              !.block = fs.disk[i].block]]

InodeClose(fs, i) ==
  IF fs.open[i].cnt = 1 THEN [fs EXCEPT !.open[i] = NoInode]
  ELSE [fs EXCEPT !.open[i].cnt = @ - 1]

\* mutant of InodeSync: only the size is written
InodeSyncSize(fs, i) == [fs EXCEPT !.disk[i].size = fs.open[i].size]

InodeSync(fs, i) ==
  [fs EXCEPT !.disk[i] = [size |-> fs.open[i].size, block |-> fs.open[i].block]]

\* the table and the direct blocks are freed, those the table lists are not;
\* inode and sectors stay as they were, and getCwd may still read them
InodeRelease(fs, i) ==
  [fs EXCEPT !.inodeBits = @ \ {i}, !.blockBits = @ \ Range(Current(fs, i).block)]

\* an ASSERT fails
Panic(fs) == [fs EXCEPT !.panic = TRUE]

\* a number is given to a new file; stale if the inode it was before is open
MarkInode(fs, i) ==
  [fs EXCEPT !.inodeBits = @ \cup {i}, !.stale = fs.open[i].cnt > 0]

-----------------------------------------------------------------------------
(* Dir objects *)

InoOf(dir) == IF dir = RootDir THEN 0 ELSE dir

DirOpen(fs, i) == InodeOpen(fs, i)
DirClose(fs, dir) == IF dir = RootDir THEN fs ELSE InodeClose(fs, dir)

\* history: a Dir object nobody will close
LeakDir(fs, dir) == IF dir \in {RootDir, None} THEN fs ELSE [fs EXCEPT !.leak[dir] = @ + 1]

\* the first block of directory i in the directory up; mutant: in the root
EmptyDirInRoot(i, up) == DirSector(<<Entry(".", i, "directory"), Entry("..", 0, "directory")>>)
EmptyDir(i, up) == DirSector(<<Entry(".", i, "directory"), Entry("..", up, "directory")>>)

-----------------------------------------------------------------------------
(* Entries *)

\* allBlocks: the blocks of the directory i, 0 where it has none
AllBlocks(fs, i) ==
  LET block == Current(fs, i).block
  IN [k \in 0..(Total - 1) |-> CASE k < Direct -> block[k]
                                 [] k \in Indirect /\ block[Direct] = 0 -> 0
                                 [] OTHER -> fs.sector[block[Direct]].table[k]]

\* what the loops over the blocks and over their entries come by, in order
EntriesAt(fs, i) ==
  LET all == AllBlocks(fs, i)
  IN [q \in Positions |-> IF all[q \div PerBlock] = 0 THEN NoEntry
                          ELSE fs.sector[all[q \div PerBlock]].de[q % PerBlock]]

SearchDirEntry(fs, i, name) ==
  LET es == EntriesAt(fs, i)
      hits == {q \in Positions : es[q].name = name}
  IN IF hits = {} THEN NoEntry ELSE es[Min(hits)]

\* the block b, now block k of directory i, holds e alone
NewBlock(fs, i, b, e) ==
  [fs EXCEPT !.blockBits = @ \cup {b}, !.sector[b] = DirSector(<<e>>), !.open[i].size = @ + 1]

AddDirect(fs, i, k, e) ==
  LET b == FreeBlock(fs)
  IN IF b = 0 THEN [fs |-> fs, ok |-> FALSE]
     ELSE [fs |-> NewBlock([fs EXCEPT !.open[i].block[k] = b], i, b, e), ok |-> TRUE]

\* the first indirect block always brings a new table, in place of the old
\* one if there is one; without room for both there is no table at all
AddTable(fs, i, e) ==
  LET t == FreeBlock(fs)
      marked == [fs EXCEPT !.blockBits = @ \cup {t}, !.open[i].block[Direct] = t]
      b == FreeBlock(marked)
      all == [AllBlocks(fs, i) EXCEPT ![Direct] = b]
  IN CASE t = 0 -> [fs |-> fs, ok |-> FALSE]
       [] t # 0 /\ b = 0 -> [fs |-> [fs EXCEPT !.open[i].block[Direct] = 0], ok |-> FALSE]
       [] OTHER -> [fs |-> NewBlock([marked EXCEPT !.sector[t] = TableSector(all)], i, b, e),
                    ok |-> TRUE]

AddIndirect(fs, i, k, e) ==
  LET b == FreeBlock(fs)
      t == fs.open[i].block[Direct]
  IN IF b = 0 THEN [fs |-> fs, ok |-> FALSE]
     ELSE [fs |-> NewBlock([fs EXCEPT !.sector[t].table[k] = b], i, b, e), ok |-> TRUE]

\* the entry goes to the place q, in a new block if need be
PutEntry(fs, i, e, q) ==
  LET k == q \div PerBlock
      b == AllBlocks(fs, i)[k]
  IN CASE b # 0 -> [fs |-> [fs EXCEPT !.sector[b].de[q % PerBlock] = e, !.open[i].size = @ + 1],
                    ok |-> TRUE]
       [] b = 0 /\ k < Direct -> AddDirect(fs, i, k, e)
       [] b = 0 /\ k = Direct -> AddTable(fs, i, e)
       [] b = 0 /\ k > Direct -> AddIndirect(fs, i, k, e)

\* the new entry takes the first place that is free
SyncDirEntry(fs, i, e) ==
  LET es == EntriesAt(fs, i)
      free == {q \in Positions : es[q].type = "unknown"}
  IN IF free = {} THEN [fs |-> fs, ok |-> FALSE] ELSE PutEntry(fs, i, e, Min(free))

\* mutant of DropBlock: the inode keeps the block
DropBlockKept(fs, i, k) == [fs EXCEPT !.blockBits = @ \ {AllBlocks(fs, i)[k]}]

\* block k held one entry and goes.  With the last indirect block the table is
\* dropped, not freed; the bit freed is that of the first indirect block, and
\* where that is 0 a bit far outside the bitmap.
DropBlock(fs, i, k) ==
  LET all == AllBlocks(fs, i)
      listed == {j \in Indirect : all[j] # 0}
      freed == [fs EXCEPT !.blockBits = @ \ {all[k]}]
  IN CASE k < Direct -> [freed EXCEPT !.open[i].block[k] = 0]
       [] k \in Indirect /\ Cardinality(listed) > 1 ->
            [freed EXCEPT !.sector[fs.open[i].block[Direct]].table[k] = 0]
       [] OTHER -> [freed EXCEPT !.open[i].block[Direct] = 0, !.panic = @ \/ all[Direct] = 0]

\* an entry less, and the inode on the disk says so; mutant: it does not
OneEntryKept(fs, i) == InodeSync(fs, i)
OneEntryLess(fs, i) == InodeSync([fs EXCEPT !.open[i].size = @ - 1], i)

\* deleteDirEntry: the entry with the number ino in the directory i, if any
DeleteDirEntry(fs, i, ino) ==
  LET es == EntriesAt(fs, i)
      Used(q) == es[q].type # "unknown" /\ es[q].name # "."
      hits == {q \in Positions : Used(q) /\ es[q].ino = ino}
      k == Min(hits) \div PerBlock
      here == {q \in Positions : q \div PerBlock = k}
      alone == Cardinality({q \in here : Used(q)}) = 1 /\ \A q \in here : es[q].name # "."
      b == AllBlocks(fs, i)[k]
      gone == IF alone THEN DropBlock(fs, i, k)
              ELSE [fs EXCEPT !.sector[b].de[Min(hits) % PerBlock] = NoEntry]
  IN CASE hits = {} -> fs
       [] hits # {} /\ Cardinality(hits \cap here) > 1 -> Panic(fs)   \* ASSERT(deFound == NULL)
       [] hits # {} /\ fs.open[i].size < 1 -> Panic(fs)
       [] OTHER -> OneEntryLess(gone, i)

-----------------------------------------------------------------------------
(* Paths *)

\* every directory of the path before its last name was found; mutant: who asks
ReachedAlways(s, path) == TRUE
Reached(s, path) == s.depth = Len(path)

\* mutant of Descend: the parent stays open
DescendKept(s, ino) ==
  [s EXCEPT !.fs = DirOpen(@, ino), !.up = InoOf(s.dir), !.dir = ino, !.ino = ino, !.depth = @ + 1]

\* the Dir of the parent gives way to the Dir of the directory that was found
Descend(s, ino) ==
  [s EXCEPT !.fs = DirOpen(DirClose(@, s.dir), ino), !.up = InoOf(s.dir), !.dir = ino,
            !.ino = ino, !.depth = @ + 1]

\* searchFile has found the entry de
Found(s, de) ==
  CASE de = NoEntry -> [s EXCEPT !.done = TRUE, !.ino = None, !.depth = @ + 1]
    [] de.type = "regular" ->
         [s EXCEPT !.done = TRUE, !.ino = de.ino, !.type = "regular", !.depth = @ + 1]
    [] de.type = "directory" -> Descend(s, de.ino)

\* one name of searchFile's loop; s.dir is parentDir
SearchStep(s, name) == IF s.done THEN s ELSE Found(s, SearchDirEntry(s.fs, InoOf(s.dir), name))

\* with a directory at the end its Dir gives way to that of its parent
Ended(s) ==
  IF s.done THEN s
  ELSE [s EXCEPT !.fs = DirOpen(DirClose(@, s.dir), s.up), !.dir = s.up, !.type = "directory"]

\* searchFile: the number and type of what the path names, None if nothing;
\* dir is record->parentDir, which the caller has to close; depth counts the
\* names of searchPath
SearchFile(fs, path) ==
  LET start == [fs |-> fs, ino |-> 0, type |-> "unknown", dir |-> RootDir, up |-> 0,
                depth |-> 0, done |-> FALSE]
  IN IF path \in {<<>>, <<".">>, <<"..">>} THEN [start EXCEPT !.type = "directory"]
     ELSE Ended(FoldLeft(SearchStep, start, path))

\* mutant of WashPath: ".." stays where it is
WashPathDown(names) == SelectSeq(names, LAMBDA name : name \notin {".", ".."})

\* washPath: "." and ".." are taken out of the text
WashPath(names) ==
  LET Wash(path, name) == CASE name = ".." -> IF path = <<>> THEN path ELSE Front(path)
                            [] name = "." -> path
                            [] OTHER -> Append(path, name)
  IN FoldLeft(Wash, <<>>, names)

\* one turn of sysGetCwd's loop at a directory that is not the root, whose first
\* block is first
UpFrom(fs, w, first) ==
  LET dotdot == fs.sector[first].de[1]
      hits == {q \in Positions : EntriesAt(fs, dotdot.ino)[q].ino = w.child}
  IN CASE first = 0 -> [w EXCEPT !.next = "panic"]
       [] first # 0 /\ dotdot.type # "directory" -> [w EXCEPT !.next = "panic"]
       [] first # 0 /\ dotdot.type = "directory" /\ hits = {} -> [w EXCEPT !.next = "null"]
       [] OTHER -> [w EXCEPT !.child = dotdot.ino,
                             !.path = <<EntriesAt(fs, dotdot.ino)[Min(hits)].name>> \o @]

\* sysGetCwd: from the directory i up to the root by "..", each name searched
\* by number in the parent; who is still on the way at the end goes in circles
GetCwd(fs, i) ==
  LET Up(w, step) == IF w.next # "go" \/ w.child = 0 THEN w
                     ELSE UpFrom(fs, w, Current(fs, w.child).block[0])
      Arrived(w) == IF w.next = "go" /\ w.child # 0 THEN [w EXCEPT !.next = "panic"] ELSE w
  IN Arrived(FoldLeft(Up, [child |-> i, path |-> <<>>, next |-> "go"], [n \in Inos \ {0} |-> n]))
=============================================================================
