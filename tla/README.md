# A TLA+ model of gogoos

gogoos is a small 32-bit x86 operating system in C: threads and processes on one
CPU, semaphores, locks and monitors, a keyboard and a disk driver, a memory
allocator, a file system with inodes, and a shell. This directory models its
concurrency, its processes, its memory allocator, its file system and what the
shell makes of the keys. TLC checks small instances; TLAPS proves the scheduler,
the lock, the ring queue, the keyboard, the processes, the disk driver, the memory
allocator, the blocks and contents of files, the way from a key to the line and the
cutting of the line into words, for any number of threads, keys, sectors, slots,
frames, pages, files and blocks. Paths below are
relative to `src/`.

## 1. The system

### Interrupts decide what is one step

There is one CPU. A kernel thread runs with interrupts on (`thread.c:39`); a
device or timer interrupt can come between any two instructions. An interrupt
handler and a system call enter through interrupt gates, so both run with
interrupts off, and a system call lets others run only where it sleeps or yields
(`threadBlock`, `threadYield` and through them `semaDown`, `lockWait`,
`sleepMs`). That gives the grain of the modules: one step for each region with
interrupts off, and for each access to shared state outside of one.

### Components

| component | state | operations | what is hard | what makes it correct |
|---|---|---|---|---|
| scheduler: `kernel/thread/thread.c` | `threadReadyList`, `status`, `ticks`, the running thread | `schedule`, `threadBlock`, `threadUnblock`, `threadYield`, `threadStart`, `threadExit`, the idle loop, `intrTimerHandler` | handlers, calls and threads all change the list; a woken thread jumps the queue | a task is on the list, once, exactly if READY; no ASSERT fails; no READY thread starves |
| lock: `kernel/thread/sync.c` | semaphore value, holder, repeat count, blocked list, waiting list | `semaDown`, `semaUp`, `lockLock`, `lockUnlock`, `lockWait`, `lockNotify`, `lockNotifyAll` | preemption between `semaDown` and the assignment of the holder, between clearing the holder and `semaUp`, inside `lockWait` | one owner; no lost wakeup; the behaviour of a Mesa monitor |
| ring queue: `lib/structure/ioqueue.c` | buffer, head, tail, two flags, a lock | `ioQueuePutChar`, `ioQueueGetChar` | producers and consumers wait on one list; head = tail is full or empty | a bounded FIFO in which not everybody waits |
| keyboard: `device/keyboard.c`, `sysRead` of `fs/fs.c` | the ring queue, who waits, the flags of the modifier keys | `intrKeyBoardHandler`, `sysRead` | the handler puts, and may sleep, in the frame of the task it interrupts; scan codes come in pieces | no character lost, order, readers woken; flags that agree with the keys |
| disk: `device/ide.c` | channel lock, `diskDone`, `expectingIntr`, the registers of the disk | `ideRead`, `ideWrite`, `busyWait`, `intrHdHandler` | the interrupt comes early or late; requests are cut into commands | data arrive whole; each sleeper has its interrupt to come |
| processes: `kernel/user/*.c`, `kernel/main.c` | `threadAllList`, pids, parents, sleeping calls | `sysFork`, `sysExecv`, `sysWait`, `sysExit`, adoption | WAITING means wait and read; exit wakes before it hangs | zombies are found; pids are unique; the shell comes back |
| memory: `kernel/memory.c` | frames of two pools, page tables, address bitmaps, arenas, free lists | `allocPage`, `freePage`, `getOnePage`, `sysMalloc`, `sysFree` | what fails half way must be undone | every frame has one user; bitmaps, tables and heap agree |
| file blocks: `fs/file.c`, `fs/inode.c` | inodes and block bitmap, in memory and on disk, indirect tables | `fileWrite`, `fileRead`, `fileCreate`, `inodeOpen`, `inodeClose`, `inodeRelease`, `mountPartition` | three ways to grow, full disk, restart | reads return what was written; blocks have one owner |
| file table: `fs/file.c`, `fs/fs.c`, `fs/inode.c` | global slots, descriptors, open inodes with counts, `writeDeny` | `sysOpen`, `sysClose`, `sysWrite`, `sysUnlink`, exit | tables that are full, errors half way, an inode open in two places | every count is explained by a slot or a `Dir` |
| directories and paths: `fs/dir.c`, `fs/fs.c` | entries in blocks and tables, inode and block bitmaps, the working directory | `sysMkdir`, `sysRmdir`, `sysOpenDir`, `sysChDir`, `getCwd`, adding and deleting entries | rollback, blocks that come and go with entries, sizes kept in three places | a tree over exactly the inodes in use; blocks have one owner |
| shell: `shell/shell.c`, `shell/buildin_cmd.c` | the line, the words | `readLine`, `cmdParse`, `washPath`, the commands | editing while keys come; paths as text against directories | the line is what was typed; `cd` goes where the entries lead |
| interrupt entry, lists, bitmap | | | | as their users need them |
| console, stdio, TSS, boot | | | | not modelled: formatting, constants, code that runs once |

`PROJECT.json` lists every component with its sources, and every hazard with its
line and the properties aimed at it.

### How they interact

`schedule` is called by every sleep and by the timer. The lock puts threads to
sleep with `threadBlock` (BLOCKED for the semaphore, WAITING for the monitor) and
wakes them with `threadUnblock`. The ring queue and the disk channel each hold a
lock, the allocator two. `sysRead` of stdin and the keyboard handler meet in
`keyboardBuf`. `sysExit` and `sysWait` meet in the status of the two tasks.
fork, exec and exit take pages from the allocator and give them back. Files reach
the disk through `ideRead` and `ideWrite`. The shell reads its line from
`keyboardBuf`, turns names into absolute paths and makes the same system calls as
a program; while a program runs it waits, and a program cannot fork, so that one
process at a time is inside the file system.

## 2. The modules

Dependency, lowest first. A module higher up either EXTENDS `Thread`, whose
operators go from a kernel state to a kernel state and can be composed inside one
region with interrupts off, or takes in `Sync` (`IoQueue` EXTENDS it, `Ide`
INSTANCEs it) to use the lock step by step.

| module | models | remarks |
|---|---|---|
| `Thread` | thread.c and the timer tick as operators on a kernel state | no variables |
| `Scheduler` | every legal caller of them: threads, a device handler, the timer, the idle loop | `sched` is the kernel state; its specification is `SchedSpec` |
| `Monitor` | abstract: what a lock of sync.c promises | |
| `Sync` | sync.c in its preemption windows | EXTENDS `Scheduler` for `sched` and its invariant, with steps of its own; `pc[t]` is the window; `KernelThreads` are those that can be preempted, the rest are processes |
| `BoundedFifo` | abstract: a bounded FIFO | |
| `IoQueue` | ioqueue.c on `Sync` | EXTENDS `Sync` with `QueueInit`, `QueueNext`, `QueueSpec`; `op[t]` is the line a put or get is at |
| `Keyboard` | the keyboard queue with the handler in the interrupted frame | on `Thread`: with interrupts off the lock is never found taken |
| `Process` | fork, exec, wait, exit of init, the shell and programs | a system call is a step up to its end or its sleep |
| `Ide` | ide.c on `Sync`, with an external disk | the disk answers at any time after a command |
| `Memory` | memory.c, and what fork, exec, exit and wait take from it | one call is one step |
| `FileBlocks` | the blocks of files, the bitmap, a restart between calls | one call is one step |
| `Namespace` | abstract: a tree of names that changes by a leaf | |
| `Directory` | dir.c, inode.c, the search of a path, `washPath` and `getCwd`, as operators on a record | no variables |
| `FileSystem` | the system calls of fs.c and the file table, called by the shell's commands or by a program, with a reset at any time | `fs` is that record; one command or call is one step |
| `Typing` | keys, scan codes, the handler's flags, the queue, `readLine`, `cmdParse` | the keyboard, the handler and the shell take steps of their own |
| `ThreadProofs` | lemmas about the operators of `Thread` | no variables |
| `SyncProofs` | theorems about `Scheduler`, `Sync` and `IoQueue` | EXTENDS `IoQueue` and `ThreadProofs` |
| `KeyboardProofs`, `ProcessProofs`, `IdeProofs` | theorems about the module each is named after | EXTEND it and `ThreadProofs` |
| `MemoryProofs`, `TypingProofs`, `FileBlocksProofs` | theorems about the module each is named after, and the lemmas on loops they need | EXTEND the module |
| `MC*` | instances for TLC | |

State and code. `sched.status`, `sched.ticks` are fields of `TaskStruct`,
`sched.ready` is `threadReadyList` (head first), `sched.cur` is
`getCurrentThread()`, `sched.panic` says that an ASSERT or PANIC was hit and the
machine spins. `value`, `blockedList`, `waitingList`, `holder`, `repeat` are the
fields of `Lock` and its `Semaphore`. In `Memory`, `mem` bundles the bitmaps of
the two pools (`used`), the address bitmaps (`vmap`) and the page tables (`pte`,
`tables`), because allocator calls compose. In `FileBlocks` a block is its bit in
the bitmap, in `Directory` a block number of the disk with 0 for none. `fs` has
the bitmaps, the inodes on the disk and in memory, the entries of each sector, the
file table, and `leak`, the `Dir` objects nobody will close. Sizes of directories
count entries, so that 2 is an empty directory; a file has 0 bytes, the 48 bytes of
an empty directory, or more. In `Typing` a key is its make code, a character the
code with what shift or Ctrl made of it; `held`, `typed` and `shown` are the
user's side: what is down, what was meant, what the line looks like.

Definitions commented as mutants are deliberate errors. None is used by a
specification: each stands next to the definition it would replace, and a
property is only kept if replacing it makes TLC report that property.

## 3. The runs

| run | question | instance | states |
|---|---|---|---|
| `scheduler` | ready list, starvation | 3 threads, slices of 1 and 2 ticks | 14832 |
| `sync` | exclusion, lists, wakeups, refinement of `Monitor`, progress | 2 kernel threads and 1 process, a lock taken up to twice | 8930 |
| `ioqueue` | the ring is a FIFO under any preemption, and not everybody sleeps | 2 producers, 1 consumer, 2 slots, 2 characters | 419461 |
| `keyboard` | order, loss, wakeups, delivery with an overflowing queue | 2 programs, 2 slots, 4 keys typed | 12273 |
| `keyboard_full` | violation, see section 6 | as above, the idle thread may be interrupted too | |
| `process` | zombies, pids, readers, the shell | init, shell, one program, 5 pids, 1 failing fork, failing execv | 5186 |
| `ide` | transfers, interrupts | boot thread and a process, 3 sectors, commands of at most 2, 2 looks of `busyWait` at the status | 485104 |
| `memory` | frames, bitmaps, heap | init and 2 programs, 12 kernel and 5 user frames | 131404 |
| `files` | contents and blocks | 2 files of up to 4 blocks (2 direct), 8 blocks, restarts | 17007 |
| `file_bitmap` | violation | the same with 4-byte sectors | |
| `filesystem` | counts, tree, blocks, what is synced, working directory, refinement of `Namespace` | 2 names, nesting of 2, 3 inodes, 4 blocks, 3 entries per block, 1 direct block and a table of 1, 2 slots, 1 descriptor | 114941 |
| `typing` | modifiers, line, words | 9 keys with both shifts, both Ctrls and caps lock, a line of 4 characters, 1 word, a queue of 1 | 2155412 |

Why the bounds are enough. Three threads give the lock an owner, a sleeper and a
thread that overtakes it; two of one kind wait on the ring's list with one of the
other, and with two slots the position wraps. The keyboard run types more than
the queue holds. Three tasks are the deepest nest the image makes: init, the
shell, its program. A request of three sectors is cut in two with a remainder, as
one of more than 256 is. In `memory` the kernel pool runs out during a fork and
inside `mapPageTable`, the user pool during `malloc`, `exec` and a run of two
pages: a lock that is never released, a fork that loses pages, and a new process
whose PCB is where the lost lock's owner was are all reached. In `files` the disk
runs out at every point of growth, and sizes cross a block boundary, the last
direct block and the largest size the assertions let through.

In `filesystem` a directory fills its block with one entry besides `.` and `..`,
so that the second entry takes the table and a block, and deleting it gives
blocks back; inodes, blocks, slots and descriptors all run out. With one direct
block and a table of one the branches for a second direct block and a second
block in the table are not taken. The arguments are `/`, `..`, each name, a name
below another and one beside the working directory; a program names paths from
the root without `.` or `..`. `MaxLeaks` bounds the `Dir` objects that `ls` and a
failed `mkdir` leave open. Sectors that no boot writes hold old entries (`OldSector`),
and removed inodes and freed blocks keep what they held, because `getCwd` in a
directory that a program has removed reads them. A state in which the number of a
removed inode is given away while the old inode is still in memory is not entered
(`stale`). A state in which the list of open inodes leads into the heap of a program
that has exited (`Dangling`) is entered and left only by a reset: what the code reads
there is undefined.

In `typing` the line of four can be exceeded and one word is one above the limit
of none, as 17 is above 16. A queue of one makes the handler wait at every second
character, which `Keyboard` has in detail; ports of two bytes hold a code with its
0xe0. Caps lock stays on once pressed, as the code has it. After both shift keys
were down no further key is pressed, because the flag and the keys then differ.

`CHECK_DEADLOCK FALSE` is set where the kernel really stops: in `ide` and
`memory` after a PANIC or a fault, or with everybody asleep on a lost lock.

Fairness. The timer runs at 100 Hz for ever: the tick is weakly fair in
`Scheduler`, strongly fair where a process with interrupts off disables it again
and again. Whoever is on the CPU executes its next instruction, which is strong
fairness of its steps, as it loses the CPU meanwhile; in `Sync` a holder
releases the lock in the end. The idle loop is weakly fair. `Process` also assumes
that a program exits and a key is typed in the end; `Keyboard` that programs read
on. No fairness is assumed of which thread is scheduled: that is `ReadyRuns`.

## 4. What is proved

TLAPS proves the theorems below for every value of the constants that satisfies
the assumptions: any set of threads and any priorities, any size of a ring, a
disk, a command, a line, a block or a partition, any set of keys or files. An invariant that a run checks is
seldom inductive; each paragraph names the one that is, and why it is needed.

**Scheduler.** `SchedulerInvariant` is `SchedSpec => []SchedInv`, which is
`Coherent(sched)`: the kernel state is well typed, exactly the READY tasks are on
the ready list without repetition, the running thread is the one RUNNING task,
the idle thread is RUNNING, READY or BLOCKED, and no panic. `ReadyListExact` alone
is not inductive: `schedule` pops the head, and that this leaves one RUNNING task
needs the rest. `SchedulerReadyList` and `SchedulerNoPanic` follow: no ASSERT of
thread.c fails, and `schedule` always finds a task.

**Lock.** `SyncInvariant` is the lock composed with the scheduler. `LockFields`
ties `holder` and `repeat` to where the threads are; without it
`MutualExclusion` is not inductive, because `lockUnlock` clears the holder before
it gives the semaphore back. `OneListPerSleeper` gives `threadUnblock` its
assertion, and `NoLostWakeup` is inductive only beside it.
`LockMutualExclusion`, `LockOneListPerSleeper`, `LockNoLostWakeup` and
`LockNoPanic` follow. `LockIsMonitor` proves the refinement: each step of sync.c,
under any preemption, is a step of `Monitor` or a stutter. It assumes
`WaitDepth = 1`: who waits has taken the lock once, as at every `lockWait` of the
source (`ioqueue.c` is its only caller).

**Ring queue.** `QueueInvariant` proves `LockUse`, that a thread is past
`lockLock` exactly if it holds the lock, once, and `RingInv`, that head and tail
meet exactly if a flag is set, and that what a thread has tested still holds at
its next line. `QueueTestStillHolds` follows. `QueueIsFifo` proves the refinement
of `BoundedFifo`: the content is what lies between tail and head, and takes
`RingInv` to know which of empty and full a meeting of the two is.
`QueueNotAllWaiting` needs `SleepInv`: who is on the waiting list has nothing to
do at the ring as it is, unless somebody is about to notify. It assumes that there
is a producer and a consumer; a ring that only fills up puts everybody to sleep.
`StepsOfLock` says that each step of the queue is one of the lock or none, so that
`SyncStep` gives the lock's part of it.

**Keyboard.** `KeyboardFlow` counts every character in the queue, in the frames
the handler waits in, and with the programs: `KeyboardInOrder` and
`KeyboardNothingLost` follow. `KeyboardSleepers`, and from it
`KeyboardNoSleepOnInput`, `KeyboardWaitersListed` and `KeyboardNoPanic`, assume
that no key interrupts the idle thread (`Idle \notin Victims`): with one that does
they are false, which is the violation of section 6.

**Processes.** `ProcessTable` is the inductive `TaskInv`: the task table agrees
with the status of the tasks and the scheduler is coherent until an ASSERT fails.
`ProcessReapedByParent` says of every step that a PCB goes away only when its
parent reaps it. `ProcessPids` proves `PidsUnique`, assuming `RoomForPids`, a pid
for each task and for each failed fork that kept one: `PidsUnique` is inductive
only with the count of pids in use (`PidInv`), because the allocator hands out
what is free and stops at the end. `ProcessNoZombieMissed`,
`ProcessReadersListed` and `ProcessOnlyNames` also need `FamilyInv`, who can be
whose child and what each kind of task can be doing, and assume
`NameRoom <= 14`; the code's is 11. The assumption is no convenience. A name
grows by five characters at each fork, and the ASSERT on its length stops the
third nested one. Without that stop a program could have children: a child's
`exit` would wake it in `read` as if it waited for one, and an orphan would go to
whoever has pid 4 (`wait_exit.c:77`), which may be asleep in `wait` already.
With `NameRoom = 30` TLC finds `ReadersListed` violated. So the limit on names
is what makes WAITING unambiguous here; nothing in `wait_exit.c` says so.

**Disk.** `IdeInvariant` has, besides the types and the scheduler, `LockUse` as
for the ring, `LinkInv` (what the holder of the channel, the interrupt and the
disk each expect of the others), `DataInv` (how much of the request is where) and
`SleepInv` (`diskDone` against who sleeps on it). `IdeRequestTransferred`,
`IdeInterruptToCome` and `IdeOnlyRequestedSectors`, an action property, follow.
Neither property is inductive: the transfer is cut into commands, and the
interrupt may come before its sleeper sleeps.

**Typing.** `TypingFlags` proves `FlagsInv`, and `TypingModifiersHeld` follows.
`ModifiersHeld` says nothing while bytes are on their way; `FlagsInv` says what
each flag *will* be when they are handled (`Final`: the last code of the flag that
has no 0xe0 before it decides), that this agrees with the keys, and that 0xe0
never comes alone (`Complete`). `TypingWay` proves `TypedInv`, and
`TypingLineIsTyped` follows. `TypedInv` says that there is a way (`IsWay`), the
flags and the length of the queue after each byte that is still to be handled, and
that it ends with all of the typed characters in the queue and flags that agree
with the keys. Handling a byte takes the first step of the way (`WayHandled`), a
key lengthens it (`WaySent`), a read shortens the count (`WayRead`), and
`KeyMeant` says that the handler and the user mean the same character.
`TypingArgvIsWords` proves that `cmdParse` gives the words of the line, for every
line, and `TypingWords` is its invariant `WordsInv`, that `argv` is what `cmdParse`
makes of the last line that was entered. `Argv` takes the line a character at a time; `CutUpTo`
says that after `i` characters it has the words of the first `i`, in three cases: a
blank, a word that goes on, a word that begins. The reference definition cuts the
line at both ends of each word, and that as many words begin as there are parts is
a bijection between the two (`PairedOff`).

**Memory.** `MemoryInvariant` proves `MemoryInv`: unless the kernel has stopped,
the allocator is `Sound` (its types; `Owned`, that each frame marked used that is
not among the lost ones is in exactly one page or is exactly one table, and each
of these is marked; `BitsExact`, that an address is marked exactly if it has a
page, but for the program's page where the lock was lost), `ProcessPages` (a task
has a PCB and a directory, one that lives an address bitmap, and a task that does
not live no page of its own) and `Heaps` (the headers of the arenas, the counts in
them, the blocks held and the free lists agree). `MemoryFramesExact`, `MemoryPagesExact` and `MemoryHeapExact` follow. None
of the three is inductive: that an `exit` gives back the PCB's frames and no other
takes `ProcessPages`, and a `free` that empties an arena takes the count in its
header. `MemoryTyped` is apart, because it holds for a stopped kernel too. The
calls loop over pages (`allocPage`, `copyBodyStack3`, `sysFree`), in the model as
recursive functions; a lemma says what a round does to the pool, and the loop's
lemma is by induction (below).

**Files.** `FileInvariant` proves `FileInv`. Unless a write has torn a file
(section 6), and beside the types:

- `Held`: the size of a live file is what its writes have accepted, and the file is
  `Whole`: it has a block for each place up to the one its size lies in, and each
  byte is in the sector it will be read from. This holds in a stopped kernel too.
- `Owning`, until an ASSERT fails: blocks are apart and marked, and the inode on
  the disk is a `Part` of the one in memory, with the same size. An open file can
  have blocks its inode on the disk does not know, because a `fileWrite` that finds
  the disk full keeps what it took and does not write the inode.
- `Saving`, on a partition with no more blocks than a sector has bytes: the bitmap
  on the disk is the one in memory, and what the inodes on the disk own is in it.

`FileBlocksOwned`, `FileReadsBack` and `FileMarkedOnDisk` follow. None of the three
properties is inductive: a `Close` and an `Open` replace the inode in memory by the
one on the disk, which is why `Part` and `Complete` speak of both; and that a write
leaves the other files' bytes alone needs the blocks to be apart. `FileMarkedOnDisk`
assumes `NBlocks <= SectorBytes`: above that `bitMapSync` writes the wrong sector and
TLC finds the property violated (`file_bitmap`). The proof follows `fileWrite`: what
one `AddBlock`, `AddTable`, `StoreTable` and `PutSector` does, by induction what the
two loops do, then the three ways to grow (`used` and `will` both direct, one of
each, both in the table) and the three ways to end. The lemmas on a step take the
live files, their inodes and the sectors as parameters, so that one lemma serves the
state before and after.

Induction over a loop. The library's induction theorems take an operator, but a
set of naturals that is not empty has a least element (`Smallest`, from
`WellFoundedInduction`). Applied to the set of rounds that break a
fact, this gives `Induction`, and with it `LoopExists`, that a recursive function
over the rounds is defined. So what a loop does is proved wherever it is a
recursive function; the folds of the community modules hide theirs and cannot
be reached in this way.

The argument. `ThreadProofs` proves once that each operator of `Thread` keeps a
kernel state coherent (`BlockCoherent`, `YieldCoherent`, `TickCoherent`, ...) and
what it does to the status of the other tasks. The step lemmas of the other
modules have one case per action and cite these.

Assumptions on constants are the ASSUMEs of the modules (the boot thread is a
thread, the idle thread is not one of `Threads`, priorities are naturals, make
codes are 1 to 0x5d, sizes are positive), which TLC evaluates, and the hypotheses
named above. `MCProcess` evaluates `RoomForPids` and `NameRoom <= 14` too, so
that the instance is one the theorems speak of; `MCSync` is checked with
`WaitDepth = 1`, `MCKeyboard` without the idle thread among its victims, and
`MCIoQueue` has producers and a consumer.

The type invariants are parts of these invariants (`Memory`'s is a theorem of its
own) and are proved only, as are `SchedInv` and `SyncInv`.

Only model-checked:

- Liveness (`ReadyRuns`, `LockProgress`, `InputDelivered`, `ShellReturns`), out of
  the prover's reach.
- `FileSystem` with `ImplementsNamespace`. Its operators compose through folds and
  paths of any length, and a call that fails half way goes back: the step lemmas
  need what each loop does block by block first, and the paths recursion over data.

## 5. What is abstracted or left out

- Calls of `Memory`, `FileBlocks` and `FileSystem` are single steps. For memory,
  interrupts are off. For files, a call sleeps in the driver, but no second process
  is in the file system meanwhile. A power loss inside a call is not modelled: the
  next boot formats the disk in any case, so that there is no recovery to check.
- The TLB, the contents of pages, blocks a child inherits from its parent's
  heap, and the kernel threads' heap, with it a failing `sysMalloc` in the file
  system.
- The heaps in `Memory` hold no inodes. `fileCreate` takes one from the heap of the
  calling process (`file.c:92`), and `inodeClose` frees it with `pageDir` NULL
  (`inode.c:102-106`), as if it lay in the kernel's: if that empties an arena, the
  page goes, but `freeVirAddr` clears a bit outside `kernelVap`'s bitmap and the bit
  of the process stays. `PagesExact` does not speak of such an address.
- What comes after `stale` and `Dangling` in `FileSystem` (sections 3 and 6).
- What a program writes is never the image of a directory, which `getCwd` in a
  removed directory would take for one once the block is a file's.
- The file position: `fileRead` is checked for every position instead, and the
  negative position after a write of 0 bytes to an empty file (`file.c:307`) is
  left out.
- Name comparison reads 24 entries of a sector that has 21 (`dir.c:56`), three
  of them behind the buffer; the model compares those of the sector.
- A line that is too long: its last character is stored behind `cmdLine` and the
  line has no end; `Typing` drops it.
- The disk of `Ide` interrupts once per command, not once per sector.
- Text, formatting, the ELF headers, the boot sector and loader.
- Liveness of the ring queue: with interrupts that may come at any instruction the
  run is too large for TLC to check fairness on; `NotAllWaiting` is what it checks.

## 6. Disagreements with the code's own statements

Two violation runs, each with the line it contradicts in `PROJECT.json`:

1. `keyboard_full`: with the queue full, a key that interrupts the idle thread
   puts it to sleep in `lockWait`; `schedule` wakes it, it waits again, and
   `ASSERT` of `sync.c:83` fails.
2. `file_bitmap`: `BITS_PER_SECTOR` (`fs.h:11`) has no parentheses, so
   `bitMapSync` (`file.c:63`) writes another sector than the one with the bit from
   bit 512 on, and behind a bitmap of S sectors once (bit / 512) * 8 reaches S.

Other behaviour the models contain or the survey found, without a run of its own:

- `fork.c:33`: names grow by `_fork` at every fork, and the third nested fork fails
  the `ASSERT` on their length. `Process` has it; with three tasks no program finds
  a PCB to fork into. With a longer limit a child's exit would wake a program that
  sleeps in `read`, because WAITING means both (section 4).
- `fs.c:711-719`: both branches format, so that a boot finds an empty disk.
- `fs.c:364`: `rm /` fails `ASSERT(ino != 0)`, and so does a program's
  `mkdir("/")`.
- `fs.c:363`: `sysUnlink` does not compare how far the path was found: `rm t/x`
  removes the file `t`.
- `fs.c:552`: a directory is told from its size; a file of 48 bytes can be removed
  with `rmdir`, also while it is open.
- A program can remove the shell's working directory; `getCwd` reads its inode and
  first block all the same, does not find it in the parent and returns NULL, or fails
  an `ASSERT` if the block was given away; the next relative path of a command fails
  one too. `rmdir` then compares with a buffer nobody has written
  (`buildin_cmd.c:198`).
- `fs.c:509`, `fs.c:490-497`: `Dir` objects that are never closed (`leak`), and a
  block that is never given back.
- `file.c:126`, `file.c:166`: with no descriptor free the slot is lost.
- `file.c:92`: `fileCreate` takes the inode from the heap of the calling process,
  where `inodeOpen` takes care to use the kernel's (`inode.c:75-79`), and puts it on
  the list all processes walk along. A program that creates a file with no descriptor
  free, or that opens its new file once more with none free, leaves it there when it
  exits, and the next `inodeOpen` of the shell follows an address of a process that
  is gone. `OpenCounts` says that this takes a lost slot; with one descriptor the run
  reaches it (`Dangling`).
- `dir.c:132-149`: the first block behind the direct ones overwrites the number of
  the table, whether there is one or not. With three names, `Direct = 1`,
  `Total = 3`, `PerBlock = 2` and `NBlocks = 5` TLC finds a directory that loses
  entries within five steps.
- `dir.c:295`: with the last block of the table, that block's bit is cleared twice
  and the table's never.
- `keyboard.c:172`: 0xe0 is made 0xe800, not 0xe000, so that the right Ctrl and Alt
  keys do nothing; `keyboard.c:204` is a break code in a branch for make codes, so
  that caps lock stays on; one shift flag serves two keys.
- `shell.c:87`: one word more than `MAX_ARG_NUM` is accepted, and the word that is
  refused is stored before.
- `shell.c:153`: after a failed `execv` the child goes on as a second shell.
- `file.c:180` lets a file grow to 71680 bytes, `ASSERT` at `file.c:222` does not
  (`stopped` in `FileBlocks`). The same module has the assertion that fails when a
  write that ran out of blocks is retried (`file.c:247`).
- `file.c:259-273`: a write that gets a block for the indirect table and no block
  after it leaves the table's bit off the disk; a later write saves the number in
  the inode. `torn` records it, and the properties of `files` hold up to there.
- `inode.c:136` assigns `blockIdx` for `blockCnt`: indirect blocks stay marked.
- `wait_exit.c:33` reads the page directory for the page table: the frames of
  exited processes are never free again (`lost` in `Memory`).
- `exec.c:82` tests the first page in every round: a program of more than one
  page faults unless the pages were there.
- `memory.c:286` returns with the lock; `fork.c:97-101` keeps what it took.
- `wait_exit.c:77`: `initAdoptChild` gives orphans to pid 4, and init is pid 1. With
  the limit on names no program has children to leave behind.
- `wait_exit.c:88` stores the scheduler status, not what was passed to exit.
- `ide.c:120`: inside a system call no tick comes, so `busyWait` never times out
  while no other task is ready.
- `keyboard.c:232`: if every program that reads was interrupted by a key that
  found the queue full, nobody ever reads (`InputDelivered` allows for it).

## 7. Plan

Order of the remaining work, most important first.

1. `readDir`, `lseek` and the position of a descriptor in `FileSystem`; a larger
   table in `Directory` with the defect of `dir.c:132-149` as a run of its own.
2. Stale inodes: what follows when the number of an inode that is still in memory
   is given away.
3. A disk that interrupts once per sector, and the request queue of two
   processes, in `Ide`.
4. Inherited heaps and kernel-thread heaps in `Memory`.
5. Proofs: `OpenCounts` and `BlocksApart` of `FileSystem`, with its folds as
   recursive functions and a lemma about one round, as in `FileBlocks`; then the
   steps of `ImplementsNamespace`.
