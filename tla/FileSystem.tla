----------------------------- MODULE FileSystem -----------------------------
(***************************************************************************)
(* FileSystem: the system calls of fs/fs.c on directories and files, the   *)
(* file table of fs/file.c, the commands of shell/buildin_cmd.c and a      *)
(* program that makes the calls itself, over the inodes and directories of *)
(* module Directory.                                                       *)
(*                                                                         *)
(* The shell waits while a program runs and a program cannot fork, so that *)
(* one process at a time is in the file system: a command of the shell is  *)
(* a step, and so is a system call of the program.  The data of files is   *)
(* in FileBlocks; here a file is empty or has the one block of a write of  *)
(* 48 bytes, the size of an empty directory.                               *)
(***************************************************************************)
EXTENDS Directory, TLC

CONSTANTS Names,      \* file names
          BootFile,   \* "t1", the program main writes
          Args,       \* what is typed after the name of a command
          ProgPaths,  \* the paths that programs name, from the root
          NSlots,     \* MAX_FILE_OPEN_ALL - 3
          NFds,       \* MAX_FILE_OPEN_PER_PROC - 3
          MaxDepth,   \* bound: names of a path
          MaxLeaks    \* bound: Dir objects that were never closed

ASSUME FileSystemAssumption ==
  /\ BootFile \in Names
  /\ ProgPaths \subseteq Seq(Names)
  /\ {NSlots, NFds, MaxDepth, MaxLeaks} \subseteq Nat
  /\ NSlots > 0 /\ NInodes > 1 /\ NBlocks > 1

VARIABLES fs,    \* the record of Directory, with the file table
          cwd,   \* the shell's cwdIno
          prog,  \* the program that runs, if one does, and its descriptors
          view   \* history: what the disk holds, by path: [path, ino, type]

vars == <<fs, cwd, prog, view>>

Slots == 1..NSlots
Fds == 1..NFds
NoFile == [ino |-> None, write |-> FALSE, lost |-> FALSE]
NoFds == [d \in Fds |-> None]
NoProg == [runs |-> FALSE, fds |-> NoFds]
SmallFile == 2

Result(m, ret) == [fs |-> m, ret |-> ret]

-----------------------------------------------------------------------------
(* Files: f is [fs, fds, fd], the descriptors those of the caller *)

FreeSlot(m) == LET free == {s \in Slots : m.file[s].ino = None}
               IN IF free = {} THEN None ELSE Min(free)

\* pcbFdInstall; with the process's table full the slot is not given back
InstallFd(m, fds, slot) ==
  LET free == {d \in Fds : fds[d] = None}
  IN IF free = {} THEN [fs |-> [m EXCEPT !.file[slot].lost = TRUE], fds |-> fds, fd |-> None]
     ELSE [fs |-> m, fds |-> [fds EXCEPT ![Min(free)] = slot], fd |-> Min(free)]

NoFd(m, fds) == [fs |-> m, fds |-> fds, fd |-> None]

\* fileCreate with the inode i, once the entry was added, or was not; unlike
\* inodeOpen it takes the memory of the inode from the caller's own heap
Created(added, fds, i, slot, dir, write) ==
  LET made == InodeSync(MarkInode(added.fs, i), dir)
      open == [made EXCEPT !.disk[i] = [size |-> 0, block |-> NoBlocks],
                           !.open[i] = [NoInode EXCEPT !.cnt = 1, !.own = TRUE],
                           !.file[slot] = [ino |-> i, write |-> write, lost |-> FALSE]]
  IN IF added.ok THEN InstallFd(open, fds, slot) ELSE NoFd(added.fs, fds)

FileCreate(m, fds, dir, name, write) ==
  LET i == FreeInode(m)
      slot == FreeSlot(m)
  IN IF i = None \/ slot = None THEN NoFd(m, fds)
     ELSE Created(SyncDirEntry(m, dir, Entry(name, i, "regular")), fds, i, slot, dir, write)

\* one writer at a time, unless someone who reads closes the file before
FileOpen(m, fds, i, write) ==
  LET slot == FreeSlot(m)
      held == InodeOpen(m, i)
      open == [held EXCEPT !.file[slot] = [ino |-> i, write |-> write, lost |-> FALSE],
                           !.open[i].deny = @ \/ write]
  IN CASE slot = None -> NoFd(m, fds)
       [] slot # None /\ write /\ held.open[i].deny -> NoFd(InodeClose(held, i), fds)
       [] OTHER -> InstallFd(open, fds, slot)

FileClose(m, slot) ==
  LET i == m.file[slot].ino
  IN InodeClose([m EXCEPT !.file[slot] = NoFile, !.open[i].deny = FALSE], i)

SysOpen(m, fds, path, create, write) ==
  LET Opened(f, dir) == [f EXCEPT !.fs = DirClose(@, dir)]
      At(s) == CASE s.type = "directory" \/ ~Reached(s, path) \/ (s.ino # None) = create ->
                      NoFd(DirClose(s.fs, s.dir), fds)
                 [] s.type # "directory" /\ Reached(s, path) /\ create /\ s.ino = None ->
                      Opened(FileCreate(s.fs, fds, InoOf(s.dir), Last(path), write), s.dir)
                 [] OTHER -> Opened(FileOpen(s.fs, fds, s.ino, write), s.dir)
  IN IF path = <<>> THEN NoFd(m, fds) ELSE At(SearchFile(m, path))

SysClose(m, fds, d) == [fs |-> FileClose(m, fds[d]), fds |-> [fds EXCEPT ![d] = None], fd |-> None]

\* 48 bytes into an empty file, none of them the image of a directory; behind
\* them the sector stays as it was
SysWrite(m, slot) ==
  LET i == m.file[slot].ino
      b == FreeBlock(m)
      Written(de) == [p \in DOMAIN de |-> IF p < SmallFile THEN NoEntry ELSE de[p]]
      grown == [m EXCEPT !.blockBits = @ \cup {b}, !.sector[b].de = Written(@),
                         !.open[i].block[0] = b, !.open[i].size = SmallFile]
  IN IF ~m.file[slot].write \/ b = 0 THEN m ELSE InodeSync(grown, i)

\* a number that is in the file table is not removed
SysUnlink(m, path) ==
  LET InUse(s) == \E slot \in Slots : m.file[slot].ino = s.ino
      Gone(s) == InodeRelease(DeleteDirEntry(s.fs, InoOf(s.dir), s.ino), s.ino)
      At(s) == CASE s.ino = 0 -> Panic(m)
                 [] s.ino # 0 /\ (s.ino = None \/ s.type = "directory" \/ InUse(s)) ->
                      DirClose(s.fs, s.dir)
                 [] OTHER -> DirClose(Gone(s), s.dir)
  IN At(SearchFile(m, path))

-----------------------------------------------------------------------------
(* Directories *)

\* the directory i, its block b marked, is added to the parent s.dir; a failure
\* gives the number back but neither the block nor the parent's Dir
AddDir(s, i, b, name) ==
  LET up == InoOf(s.dir)
      made == [MarkInode(s.fs, i) EXCEPT !.blockBits = @ \cup {b}, !.sector[b] = EmptyDir(i, up)]
      Added(m) == [InodeSync(m, up) EXCEPT !.disk[i] = [size |-> 2,
                                                        block |-> [NoBlocks EXCEPT ![0] = b]]]
      Done(added) == IF added.ok THEN DirClose(Added(added.fs), s.dir)
                     ELSE LeakDir([added.fs EXCEPT !.inodeBits = @ \ {i}, !.stale = FALSE], s.dir)
  IN Done(SyncDirEntry(made, up, Entry(name, i, "directory")))

\* without a block the parent's Dir stays open
SysMkdir(m, path) ==
  LET At(s, i, b) ==
        CASE s.ino = 0 -> Panic(m)
          [] s.ino # 0 /\ (s.ino # None \/ ~Reached(s, path) \/ i = None) -> DirClose(s.fs, s.dir)
          [] s.ino = None /\ Reached(s, path) /\ i # None /\ b = 0 -> LeakDir(s.fs, s.dir)
          [] OTHER -> AddDir(s, i, b, Last(path))
  IN At(SearchFile(m, path), FreeInode(m), FreeBlock(m))

\* a directory is empty when its size is; so is a file of 48 bytes
SysRmdir(m, path) ==
  LET Gone(held, s) == InodeRelease(DeleteDirEntry(held, InoOf(s.dir), s.ino), s.ino)
      Removed(held, s) ==
        LET dir == held.open[s.ino]
        IN CASE dir.size # 2 -> held
             [] dir.size = 2 /\ \E k \in 1..Direct : dir.block[k] # 0 -> Panic(held)
             [] OTHER -> Gone(held, s)
      At(s) == IF s.ino \in {None, 0} THEN DirClose(s.fs, s.dir)
               ELSE DirClose(DirClose(Removed(DirOpen(s.fs, s.ino), s), s.ino), s.dir)
  IN At(SearchFile(m, path))

\* the parent's Dir that searchFile opened is never closed
SysOpenDir(m, path) ==
  LET At(s, kept) == IF s.type = "directory" /\ s.ino # None
                     THEN Result(DirOpen(kept, s.ino), s.ino) ELSE Result(kept, None)
      Kept(s) == At(s, LeakDir(s.fs, s.dir))
  IN IF path = <<>> \/ Head(path) \in {".", ".."} THEN Result(m, RootDir)
     ELSE Kept(SearchFile(m, path))

\* the new working directory, or the old one
SysChDir(m, path, old) ==
  LET At(s) == Result(DirClose(s.fs, s.dir),
                      IF s.ino # None /\ s.type = "directory" THEN s.ino ELSE old)
  IN At(SearchFile(m, path))

-----------------------------------------------------------------------------
(* Boot *)

\* a sector with what it held before the boot, here entries and a table of block 1
OldSector == [de |-> [p \in 0..(PerBlock - 1) |-> Entry(BootFile, 1, "regular")],
              table |-> [k \in Indirect |-> 1]]

\* partitionFormat, mountPartition and openRootDir, which every boot does; but
\* for the root's block, sectors of the data area stay as they were
Formatted ==
  LET root == [size |-> 2, block |-> [NoBlocks EXCEPT ![0] = 1]]
  IN [inodeBits |-> {0}, blockBits |-> {1},
      disk |-> [i \in Inos |-> IF i = 0 THEN root ELSE [size |-> 0, block |-> NoBlocks]],
      sector |-> [b \in Lbas |-> IF b = 1 THEN EmptyDir(0, 0) ELSE OldSector],
      open |-> [i \in Inos |-> IF i = 0 THEN root @@ [NoInode EXCEPT !.cnt = 1] ELSE NoInode],
      file |-> [s \in Slots |-> NoFile],
      leak |-> [i \in Inos |-> 0], panic |-> FALSE, stale |-> FALSE]

\* main writes the file "t1", which is larger than an empty directory
Booted ==
  LET Filled(f) == LET i == f.fs.file[f.fds[f.fd]].ino
                   IN [SysClose(SysWrite(f.fs, f.fds[f.fd]), f.fds, f.fd).fs EXCEPT
                         !.disk[i].size = SmallFile + 1]
  IN Filled(SysOpen(Formatted, NoFds, <<BootFile>>, TRUE, TRUE))

\* an ASSERT failed: the machine stands still until it is reset, and the next
\* boot formats the disk, whatever it holds
Goes(m) == fs' = IF m.panic THEN [Booted EXCEPT !.panic = TRUE] ELSE m

-----------------------------------------------------------------------------
(* The shell, while no program runs *)

\* makeClearAbsPath: the path of the argument arg, [next |-> "go", path];
\* without a working directory the text stays relative, and the next
\* system call fails an ASSERT
ClearAbsPath(arg) ==
  LET From(base) == [next |-> base.next, path |-> WashPath(base.path \o arg.names)]
  IN IF arg.abs THEN [next |-> "go", path |-> WashPath(arg.names)] ELSE From(GetCwd(fs, cwd))

\* a command with the absolute path clear, whose system calls make New(path) of fs
Command(clear, New(_)) ==
  /\ prog = NoProg
  /\ Len(clear.path) <= MaxDepth
  /\ Goes(IF clear.next = "go" THEN New(clear.path) ELSE Panic(fs))

Cd(arg) ==
  LET Go(clear, to) == /\ Command(clear, LAMBDA path : to.fs)
                       /\ cwd' = IF clear.next = "go" THEN to.ret ELSE cwd
      clear == ClearAbsPath(arg)
  IN Go(clear, SysChDir(fs, clear.path, cwd)) /\ UNCHANGED prog

\* readDir and stat leave the counts of open inodes as they were
Ls(arg) ==
  LET Closed(dir) == IF dir.ret = None THEN dir.fs ELSE DirClose(dir.fs, dir.ret)
  IN /\ Command(ClearAbsPath(arg), LAMBDA path : Closed(SysOpenDir(fs, path)))
     /\ UNCHANGED <<cwd, prog>>

Mkdir(arg) ==
  /\ Command(ClearAbsPath(arg), LAMBDA path : IF path = <<>> THEN fs ELSE SysMkdir(fs, path))
  /\ UNCHANGED <<cwd, prog>>

\* mutant of IsCwd: never
IsCwdNever(path, luck) == FALSE

\* buildinRmdir's strcmp with what getCwd left in buf, which is what the stack
\* held if there is no path to the working directory
IsCwd(path, luck) ==
  LET here == GetCwd(fs, cwd)
  IN IF here.next = "null" THEN luck ELSE here.path = path

\* not the root, and not the working directory
Rmdir(arg) ==
  /\ \E luck \in (IF GetCwd(fs, cwd).next = "null" THEN BOOLEAN ELSE {FALSE}) :
       Command(ClearAbsPath(arg), LAMBDA path : CASE path = <<>> -> fs
                                    [] path # <<>> /\ GetCwd(fs, cwd).next = "panic" -> Panic(fs)
                                    [] OTHER -> IF IsCwd(path, luck) THEN fs ELSE SysRmdir(fs, path))
  /\ UNCHANGED <<cwd, prog>>

\* open, 48 bytes if it is a write to an empty file, and close
OpenAndClose(path, create, write) ==
  LET Filled(m, slot) == IF m.open[m.file[slot].ino].size = 0 THEN SysWrite(m, slot) ELSE m
      Done(f) == IF f.fd = None THEN f.fs
                 ELSE SysClose(Filled(f.fs, f.fds[f.fd]), f.fds, f.fd).fs
  IN Done(SysOpen(fs, NoFds, path, create, write))

Touch(arg) ==
  /\ Command(ClearAbsPath(arg), LAMBDA path : OpenAndClose(path, TRUE, FALSE))
  /\ UNCHANGED <<cwd, prog>>

Wf(arg) ==
  /\ Command(ClearAbsPath(arg), LAMBDA path : OpenAndClose(path, FALSE, TRUE))
  /\ UNCHANGED <<cwd, prog>>

Rf(arg) ==
  /\ Command(ClearAbsPath(arg), LAMBDA path : OpenAndClose(path, FALSE, FALSE))
  /\ UNCHANGED <<cwd, prog>>

Rm(arg) ==
  /\ Command(ClearAbsPath(arg), LAMBDA path : SysUnlink(fs, path))
  /\ UNCHANGED <<cwd, prog>>

\* stat, fork and execv; which of the files are programs is left open
Execute(arg) ==
  /\ ClearAbsPath(arg).next = "go"
  /\ SearchFile(fs, ClearAbsPath(arg).path).type = "regular"
  /\ Command(ClearAbsPath(arg), LAMBDA path : OpenAndClose(path, FALSE, FALSE))
  /\ prog' = [NoProg EXCEPT !.runs = TRUE]
  /\ UNCHANGED cwd

-----------------------------------------------------------------------------
(* A program, while the shell waits for it *)

Running == prog.runs

\* a call that may change the descriptors
Calls(f) == Goes(f.fs) /\ prog' = [prog EXCEPT !.fds = f.fds] /\ UNCHANGED cwd

Open(path, create, write) == Running /\ Calls(SysOpen(fs, prog.fds, path, create, write))
Close(d) == prog.fds[d] # None /\ Calls(SysClose(fs, prog.fds, d))

Write(d) ==
  /\ prog.fds[d] # None
  /\ fs.open[fs.file[prog.fds[d]].ino].size = 0
  /\ Goes(SysWrite(fs, prog.fds[d]))
  /\ UNCHANGED <<cwd, prog>>

MakeDir(path) == Running /\ Goes(SysMkdir(fs, path)) /\ UNCHANGED <<cwd, prog>>
RemoveDir(path) == Running /\ Goes(SysRmdir(fs, path)) /\ UNCHANGED <<cwd, prog>>
Unlink(path) == Running /\ Goes(SysUnlink(fs, path)) /\ UNCHANGED <<cwd, prog>>

\* sysExit closes the descriptors
Exit ==
  LET CloseFd(m, d) == IF prog.fds[d] = None THEN m ELSE FileClose(m, prog.fds[d])
  IN /\ Running
     /\ Goes(FoldLeft(CloseFd, fs, [d \in Fds |-> d]))
     /\ prog' = NoProg
     /\ UNCHANGED cwd

-----------------------------------------------------------------------------

\* what the directory i holds, whose own path is given
Under(path, i) ==
  LET blocks == Range(AllBlocks(fs, i)) \ {0}
      used == {e \in UNION {Range(fs.sector[b].de) : b \in blocks} :
                 e.type # "unknown" /\ e.name \notin {".", ".."}}
  IN {[path |-> Append(path, e.name), ino |-> e.ino, type |-> e.type] : e \in used}

View ==
  LET level[n \in 1..MaxDepth] ==
        IF n = 1 THEN Under(<<>>, 0)
        ELSE UNION {Under(v.path, v.ino) : v \in {w \in level[n - 1] : w.type = "directory"}}
  IN UNION {level[n] : n \in 1..MaxDepth}

Init == fs = Booted /\ cwd = 0 /\ prog = NoProg /\ view = View

\* the machine is reset
Reset == fs' = Booted /\ cwd' = 0 /\ prog' = NoProg /\ view' = View'

Shell == \E arg \in Args :
  \/ Cd(arg) \/ Ls(arg) \/ Mkdir(arg) \/ Rmdir(arg) \/ Touch(arg) \/ Wf(arg) \/ Rf(arg)
  \/ Rm(arg) \/ Execute(arg)

Program ==
  \/ \E path \in ProgPaths :
       \/ Open(path, TRUE, FALSE) \/ Open(path, FALSE, TRUE) \/ Open(path, FALSE, FALSE)
       \/ MakeDir(path) \/ RemoveDir(path) \/ Unlink(path)
  \/ \E d \in Fds : Close(d) \/ Write(d)
  \/ Exit

Leaked == FoldFunction(LAMBDA n, sum : n + sum, 0, fs.leak)

\* an inode in the heap of a program that is gone, on the list of open inodes:
\* who walks along the list reads what the shell has at that address
Dangling == ~Running /\ \E i \in Inos : fs.open[i].own

\* What happens once an inode number is given away again while its old inode is
\* still on the list of open inodes is not followed, nor what happens once the
\* list dangles.
Next == \/ /\ ~fs.panic /\ ~Dangling
           /\ Shell \/ Program
           /\ Leaked' <= MaxLeaks
           /\ ~fs'.stale
           /\ view' = IF fs' = fs THEN view ELSE View'
        \/ Reset

Spec == Init /\ [][Next]_vars

-----------------------------------------------------------------------------
(* Properties *)

Dirs == {0} \cup {v.ino : v \in {w \in view : w.type = "directory"}}

\* the entries of directory i, as positions
UsedAt(i) == {q \in Positions : EntriesAt(fs, i)[q].type # "unknown"}
ChildrenAt(i) == {q \in UsedAt(i) : EntriesAt(fs, i)[q].name \notin {".", ".."}}

\* Every use of an inode is counted once: the count of an open inode is the root
\* directory's one, plus the slots of the file table that name it, plus the Dir
\* objects that were never closed; and a slot belongs to a descriptor of the
\* program that runs or was lost when the descriptors ran out.  So the inode of a
\* file outlives the program in whose heap it lies only by a slot that was lost.
OpenCounts ==
  /\ \A i \in Inos :
       fs.open[i].cnt = (IF i = 0 THEN 1 ELSE 0) + fs.leak[i]
                         + Cardinality({s \in Slots : fs.file[s].ino = i})
  /\ \A s \in Slots :
       fs.file[s].ino # None => (fs.file[s].lost <=> \A d \in Fds : prog.fds[d] # s)
  /\ \A i \in Inos :
       fs.open[i].own /\ ~Running => \E s \in Slots : fs.file[s].ino = i /\ fs.file[s].lost

\* The directories are a tree over exactly the inodes in use: each inode but the
\* root has one entry in one directory, each directory knows itself, its parent
\* and the number of its entries.
TreeExact ==
  LET entries == UNION {{<<i, q>> : q \in ChildrenAt(i)} : i \in Dirs}
      At(e) == EntriesAt(fs, e[1])[e[2]]
  IN /\ {At(e).ino : e \in entries} = fs.inodeBits \ {0}
     /\ Cardinality(entries) = Cardinality(fs.inodeBits) - 1
     /\ \A i \in Dirs : /\ Current(fs, i).size = Cardinality(UsedAt(i))
                        /\ SearchDirEntry(fs, i, ".").ino = i
     /\ \A e \in entries :
          At(e).type = "directory" => SearchDirEntry(fs, At(e).ino, "..").ino = e[1]

\* the blocks of an inode: direct ones, the table and those the table lists
BlocksOf(i, dirs) ==
  LET listed == IF i \in dirs THEN Range(AllBlocks(fs, i)) ELSE {}
  IN (Range(Current(fs, i).block) \cup listed) \ {0}

\* No block belongs to two inodes, and the bitmap has every block of every inode,
\* so that no file is given a block of another.
BlocksApart ==
  LET owned == [i \in fs.inodeBits |-> BlocksOf(i, Dirs)]
  IN /\ \A i \in fs.inodeBits : owned[i] \subseteq fs.blockBits
     /\ \A i, j \in fs.inodeBits : i < j => owned[i] \cap owned[j] = {}

\* What an open inode says of size and blocks is on the disk after every command
\* and system call: nothing is lost when it leaves the list of open inodes.
Synced ==
  \A i \in fs.inodeBits :
    fs.open[i].cnt > 0 => /\ fs.open[i].size = fs.disk[i].size
                          /\ fs.open[i].block = fs.disk[i].block

\* The path that getCwd prints leads back to the working directory, as long as
\* no program has removed it.
CwdPath ==
  cwd \in Dirs => /\ GetCwd(fs, cwd).next = "go"
                  /\ SearchFile(fs, GetCwd(fs, cwd).path).ino = cwd

\* No command of the shell removes the directory the shell is in.
ShellKeepsCwd ==
  [][prog = NoProg /\ fs' # fs /\ ~fs'.panic => (cwd \in Dirs => cwd' \in Dirs')]_vars

\* what the names lead to from directory i, "." and ".." by their entries
Walk(i, names) ==
  LET Enter(e, name) == IF e.type = "directory" THEN SearchDirEntry(fs, e.ino, name) ELSE NoEntry
  IN FoldLeft(Enter, Entry("", i, "directory"), names)

\* cd goes where the entries "." and ".." of the directories themselves lead,
\* whatever makeClearAbsPath does to the text, if they lead to a directory.
ChDirResolves ==
  \A arg \in Args :
    LET at == Walk(IF arg.abs THEN 0 ELSE cwd, arg.names)
    IN cwd \in Dirs /\ at.type = "directory" =>
         SysChDir(fs, ClearAbsPath(arg).path, cwd).ret = at.ino

\* The names are a tree that grows and shrinks by a leaf.
Abstract == INSTANCE Namespace WITH
  tree <- {[path |-> v.path, kind |-> v.type] : v \in view},
  Boot <- <<BootFile>>,
  Paths <- UNION {[1..n -> Names] : n \in 1..MaxDepth}
ImplementsNamespace == Abstract!Spec
=============================================================================
