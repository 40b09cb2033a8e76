----------------------------- MODULE FileBlocks -----------------------------
(***************************************************************************)
(* FileBlocks: the blocks of regular files, from fs/file.c and fs/inode.c: *)
(* how a file grows through its direct blocks into its indirect table, the *)
(* block bitmap in memory and on the disk, and what a restart leaves.      *)
(*                                                                         *)
(* A block is the number of its bit; bit 0 is the root directory's, so 0   *)
(* also stands for the 0 in an inode's block array.  Byte k of the file f  *)
(* is <<f, k>>.  One call is one step; a restart can come between calls.   *)
(* A member of Files is one file from its creation to its unlink; who has  *)
(* it open, and with which position, is left to the caller.                *)
(***************************************************************************)
EXTENDS Integers, FiniteSets, FiniteSetsExt, Sequences

CONSTANTS Files,
          NBlocks,      \* blocks of the partition
          SectorBytes,  \* SECTOR_BYTE_SIZE
          B,            \* BLOCK_BYTE_SIZE, in units of the bytes written
          Direct,       \* direct blocks of an inode, 12 in the code
          Total,        \* direct and indirect blocks, 140 in the code
          MaxCount,     \* bound: bytes of one write
          Junk          \* a byte no file wrote

ASSUME FileBlocksAssumption ==
  /\ {NBlocks, SectorBytes, B, Direct, Total} \subseteq Nat \ {0}
  /\ Direct < Total
  /\ MaxCount \in Nat

VARIABLES state,    \* "new", "open", "closed" or "gone", per file
          inode,    \* the inode in memory of an open file
          bits,     \* curPart->blockBitMap
          disk,     \* see Disks
          len,      \* history: bytes the writes have accepted
          torn,     \* history: a write failed after it allocated a table
          stopped   \* an ASSERT failed

vars == <<state, inode, bits, disk, len, torn, stopped>>

Blocks == 0..(NBlocks - 1)
Indirect == Direct..(Total - 1)
None == -1

Inodes == [size : 0..(Total * B), block : [0..Direct -> Blocks]]
\* a sector holds the bytes of a file or the entries of a table
Sectors == [data : [0..(B - 1) -> (Files \X (0..(Total * B - 1))) \cup {Junk}],
            table : [Indirect -> Blocks \cup {None}]]
\* overrun: sectors after the bitmap, where the inodes are, were overwritten
Disks == [inode : [Files -> Inodes], bits : SUBSET Blocks,
          sector : [Blocks -> Sectors], overrun : BOOLEAN]

NoData == [o \in 0..(B - 1) |-> Junk]
NoTable == [i \in Indirect |-> None]

\* inodeInit
EmptyInode == [size |-> 0, block |-> [i \in 0..Direct |-> 0]]

-----------------------------------------------------------------------------
(* The bitmap *)

\* BITS_PER_SECTOR is a macro without parentheses: bitIdx / BITS_PER_SECTOR
\* divides by 512 and multiplies by 8
SyncSector(b) == (b \div SectorBytes) * 8

BitSector(b) == b \div (SectorBytes * 8)

\* mutant of BitMapSync: the bit is changed in memory only
BitMapSyncSkipped(d, map, b) == d

\* bitMapSync
BitMapSync(d, map, b) ==
  LET written == {x \in Blocks : BitSector(x) = SyncSector(b)}
  IN [d EXCEPT !.bits = (@ \ written) \cup (map \cap written),
               !.overrun = @ \/ SyncSector(b) > BitSector(NBlocks - 1)]

\* blockBitMapAlloc: the lowest free block, or None
FreeBlock(map) == LET free == Blocks \ map IN IF free = {} THEN None ELSE Min(free)

-----------------------------------------------------------------------------
(* fileWrite works on a record w: the inode, the bitmap, the disk, the     *)
(* block numbers in allBlocks, and how it goes on: "go", "fail" for a      *)
(* return of -1, "stop" for a failed ASSERT.                               *)

Fail(w) == [w EXCEPT !.next = "fail"]

Stop(w) == [w EXCEPT !.next = "stop"]

Check(w, cond) == IF w.next = "go" /\ ~cond THEN Stop(w) ELSE w

\* allocate block i of the file and write the sector of its bit; the ASSERT that
\* its place is free comes before the block is put there
AddBlock(w, i) ==
  LET b == FreeBlock(w.bits)
      map == w.bits \cup {b}
      ino == IF i < Direct THEN [w.ino EXCEPT !.block[i] = b] ELSE w.ino
  IN IF w.next # "go" THEN w
     ELSE IF b = None THEN Fail(w)
     ELSE IF i < Direct /\ w.ino.block[i] # 0 THEN Stop([w EXCEPT !.bits = map])
     ELSE [w EXCEPT !.ino = ino, !.bits = map, !.all[i] = b, !.disk = BitMapSync(@, map, b)]

\* mutant of AddTable: the bit is found but not set
AddTableUnmarked(w) ==
  LET b == FreeBlock(w.bits)
  IN IF w.next # "go" THEN w
     ELSE IF b = None THEN Fail(w)
     ELSE IF w.ino.block[Direct] # 0 THEN Stop(w)
     ELSE [w EXCEPT !.ino.block[Direct] = b]

\* the block for the indirect table; its bit goes to the disk with the next one
AddTable(w) ==
  LET b == FreeBlock(w.bits)
      map == w.bits \cup {b}
  IN IF w.next # "go" THEN w
     ELSE IF b = None THEN Fail(w)
     ELSE IF w.ino.block[Direct] # 0 THEN Stop([w EXCEPT !.bits = map])
     ELSE [w EXCEPT !.ino.block[Direct] = b, !.bits = map]

LoadTable(w) ==
  LET t == w.ino.block[Direct]
  IN Check([w EXCEPT !.all = [i \in DOMAIN @ |-> IF i \in Indirect
                                                 THEN w.disk.sector[t].table[i]
                                                 ELSE @[i]]], t # 0)

StoreTable(w) ==
  IF w.next # "go" THEN w
  ELSE [w EXCEPT !.disk.sector[w.ino.block[Direct]] =
          [data |-> NoData, table |-> [i \in Indirect |-> w.all[i]]]]

\* the loop over the blocks behind used, up to will
AddBlocks(w, used, will) ==
  LET added[i \in used..will] == IF i = used THEN w ELSE AddBlock(added[i - 1], i)
  IN added[will]

\* the blocks a write of n bytes needs
Grow(w, n) ==
  LET used == w.ino.size \div B
      will == (w.ino.size + n) \div B
      first == IF used < Direct
               THEN Check([w EXCEPT !.all[used] = w.ino.block[used]], w.ino.block[used] # 0)
               ELSE LoadTable(w)
      table == IF used < Direct /\ will >= Direct THEN AddTable(first) ELSE first
      all == AddBlocks(table, used, will)
  IN IF used < will /\ will >= Direct THEN StoreTable(all) ELSE all

\* mutant of PutSector: the first sector is not read before it is written
PutSectorUnread(f, w, n, i) ==
  LET data == [o \in 0..(B - 1) |-> IF i * B + o \in w.ino.size..(w.ino.size + n - 1)
                                    THEN <<f, i * B + o>> ELSE Junk]
  IN [w EXCEPT !.disk.sector[w.all[i]] = [data |-> data, table |-> NoTable]]

\* what a write of n bytes to f puts into block i: the first sector is read
\* before, the others are zero where nothing is written
PutSector(f, w, n, i) ==
  LET old == IF i = w.ino.size \div B THEN w.disk.sector[w.all[i]].data ELSE NoData
      data == [o \in 0..(B - 1) |-> IF i * B + o \in w.ino.size..(w.ino.size + n - 1)
                                    THEN <<f, i * B + o>> ELSE old[o]]
  IN [w EXCEPT !.disk.sector[w.all[i]] = [data |-> data, table |-> NoTable]]

\* the loop over the sectors from first to last
PutSectors(f, w, n, first, last) ==
  LET put[i \in (first - 1)..last] ==
        IF i = first - 1 THEN w ELSE PutSector(f, put[i - 1], n, i)
  IN put[last]

\* the data, sector by sector, then the size and inodeSync
PutData(f, w, n) ==
  LET first == w.ino.size \div B
      last == IF n = 0 THEN first - 1 ELSE (w.ino.size + n - 1) \div B
      ino == [w.ino EXCEPT !.size = @ + n]
  IN IF w.next # "go" THEN w
     ELSE [PutSectors(f, w, n, first, last) EXCEPT !.ino = ino, !.disk.inode[f] = ino]

\* the size is checked against Total blocks, the assertion wants fewer
Write(f, n) ==
  LET w == [ino |-> inode[f], bits |-> bits, disk |-> disk, next |-> "go",
            all |-> [i \in 0..(Total - 1) |-> None]]
      started == IF w.ino.block[0] = 0 THEN AddBlock(w, 0) ELSE w
      allowed == Check(started, (w.ino.size + n) \div B < Total)
      done == IF allowed.next = "go" THEN PutData(f, Grow(allowed, n), n) ELSE allowed
  IN /\ ~stopped
     /\ state[f] = "open"
     /\ inode[f].size + n <= Total * B
     /\ inode' = [inode EXCEPT ![f] = done.ino]
     /\ bits' = done.bits
     /\ disk' = done.disk
     /\ len' = IF done.next = "go" THEN [len EXCEPT ![f] = @ + n] ELSE len
     /\ torn' = (torn \/ (done.next = "fail" /\ done.ino.block[Direct] # inode[f].block[Direct]))
     /\ stopped' = (done.next = "stop")
     /\ UNCHANGED state

-----------------------------------------------------------------------------
(* fileRead *)

\* allBlocks for a read from block start to block end
LoadBlocks(ino, start, end) ==
  [i \in 0..(Total - 1) |->
     CASE i < Direct /\ i \in start..end -> ino.block[i]
       [] i >= Direct /\ end >= Direct -> disk.sector[ino.block[Direct]].table[i]
       [] OTHER -> None]

\* the bytes a read of n bytes from pos returns, or <<"stop">>
FileRead(ino, pos, n) ==
  LET size == IF pos + n > ino.size THEN ino.size - pos ELSE n
      start == pos \div B
      end == (pos + size) \div B
      all == LoadBlocks(ino, start, end)
      byte(k) == IF all[k \div B] = None THEN Junk
                 ELSE disk.sector[all[k \div B]].data[k % B]
  IN IF end >= Total \/ (start < end /\ end >= Direct /\ ino.block[Direct] = 0)
     THEN <<"stop">>
     ELSE [i \in 1..size |-> byte(pos + i - 1)]

-----------------------------------------------------------------------------
(* Files come and go *)

\* fileCreate
Create(f) ==
  /\ ~stopped
  /\ state[f] = "new"
  /\ state' = [state EXCEPT ![f] = "open"]
  /\ inode' = [inode EXCEPT ![f] = EmptyInode]
  /\ disk' = [disk EXCEPT !.inode[f] = EmptyInode]
  /\ UNCHANGED <<bits, len, torn, stopped>>

\* the first inodeOpen reads the inode from the disk
Open(f) ==
  /\ ~stopped
  /\ state[f] = "closed"
  /\ state' = [state EXCEPT ![f] = "open"]
  /\ inode' = [inode EXCEPT ![f] = disk.inode[f]]
  /\ UNCHANGED <<bits, disk, len, torn, stopped>>

\* the last inodeClose drops the inode in memory
Close(f) ==
  /\ ~stopped
  /\ state[f] = "open"
  /\ state' = [state EXCEPT ![f] = "closed"]
  /\ inode' = [inode EXCEPT ![f] = EmptyInode]
  /\ UNCHANGED <<bits, disk, len, torn, stopped>>

\* inodeRelease frees the table and then the direct blocks, but, as it raises
\* blockIdx where it means blockCnt, not the blocks the table lists
Release(ino, map, d) ==
  LET freed[i \in 0..(Direct + 1)] ==
        IF i = 0 THEN [bits |-> map, disk |-> d]
        ELSE LET before == freed[i - 1]
                 b == ino.block[IF i = 1 THEN Direct ELSE i - 2]
                 left == before.bits \ {b}
             IN IF b = 0 THEN before
                ELSE [bits |-> left, disk |-> BitMapSync(before.disk, left, b)]
  IN freed[Direct + 1]

\* sysUnlink of a file nobody has open
Unlink(f) ==
  LET r == Release(disk.inode[f], bits, disk)
  IN /\ ~stopped
     /\ state[f] = "closed"
     /\ state' = [state EXCEPT ![f] = "gone"]
     /\ bits' = r.bits
     /\ disk' = r.disk
     /\ UNCHANGED <<inode, len, torn, stopped>>

\* what partitionFormat leaves of the inodes and of the bitmap; data stay
Formatted(sectors) ==
  [inode |-> [f \in Files |-> EmptyInode], bits |-> {0}, sector |-> sectors, overrun |-> FALSE]

\* the machine is reset: fsInit formats a partition whether it has a file
\* system or not, and mountPartition reads the new bitmap
Restart ==
  /\ state' = [f \in Files |-> IF state[f] = "new" THEN "new" ELSE "gone"]
  /\ inode' = [f \in Files |-> EmptyInode]
  /\ disk' = Formatted(disk.sector)
  /\ bits' = disk'.bits
  /\ len' = [f \in Files |-> 0]
  /\ torn' = FALSE
  /\ stopped' = FALSE

\* the first start
Init == /\ state = [f \in Files |-> "new"]
        /\ inode = [f \in Files |-> EmptyInode]
        /\ disk = Formatted([b \in Blocks |-> [data |-> NoData, table |-> NoTable]])
        /\ bits = disk.bits
        /\ len = [f \in Files |-> 0]
        /\ torn = FALSE
        /\ stopped = FALSE

\* with the inodes overwritten the model ends
Next == /\ ~disk.overrun
        /\ \/ \E f \in Files :
                \/ Create(f) \/ Open(f) \/ Close(f) \/ Unlink(f)
                \/ \E n \in 0..MaxCount : Write(f, n)
           \/ Restart

Spec == Init /\ [][Next]_vars

-----------------------------------------------------------------------------
(* Properties *)

Live == {f \in Files : state[f] \in {"open", "closed"}}

Current(f) == IF state[f] = "open" THEN inode[f] ELSE disk.inode[f]

\* the places of a file that have a block: 0 to Direct are the inode's, with the
\* table at Direct, and entry i of the table is i + 1
Places(ino) ==
  {k \in 0..Direct : ino.block[k] # 0} \cup
  {i + 1 : i \in {j \in Indirect : ino.block[Direct] # 0 /\ j <= ino.size \div B}}

\* the number of the block at a place
Number(ino, k) ==
  IF k <= Direct THEN ino.block[k] ELSE disk.sector[ino.block[Direct]].table[k - 1]

Owned(ino) == {Number(ino, k) : k \in Places(ino)}

\* A write that allocates the table of a file and then finds the disk full
\* leaves a table whose bit is not on the disk, and a later write stores its
\* number in the inode.  The three properties hold while that has not happened.

\* Whatever was created, grown, failed half way, removed and formatted
\* before, every read at every position returns what was written there.
ReadsBack ==
  ~torn => \A f \in Live, pos \in 0..(Total * B - 1), n \in 1..(Total * B) :
    pos < len[f] =>
      LET end == IF pos + n > len[f] THEN len[f] ELSE pos + n
      IN FileRead(Current(f), pos, n) = [i \in 1..(end - pos) |-> <<f, pos + i - 1>>]

\* Each block of a file is its block once, belongs to no other file, and is
\* marked in the bitmap that the next allocation looks at.
BlocksOwned ==
  ~stopped /\ ~torn =>
    /\ \A f, g \in Live : \A k \in Places(Current(f)), l \in Places(Current(g)) :
         Number(Current(f), k) = Number(Current(g), l) => f = g /\ k = l
    /\ \A f \in Live : Owned(Current(f)) \subseteq bits \ {0}

\* The blocks of the files on the disk are marked in the bitmap on the disk,
\* which is all that mountPartition knows of them.
MarkedOnDisk == ~torn => \A f \in Live : Owned(disk.inode[f]) \subseteq disk.bits
=============================================================================
