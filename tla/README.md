# A TLA+ development of the TrueOS kernel

TrueOS is a small 32-bit x86 teaching kernel in C: kernel threads and user
processes, a round-robin scheduler, locks, a keyboard and an IDE driver, a
file system, pipes and a shell.  This directory holds TLA+ modules for the parts of it
whose correctness depends on the order in which things happen or on sizes at their
limits, TLC
configurations that check them on small instances, and TLAPS proofs of the
main results for every size.  Paths below are relative to `src/`.

## 1. The system

### Execution model

One processor.  `thread/switch.s` changes stacks; everything else is data
structures.  All gates of the IDT are interrupt gates (`kernel/global.h`), so
a system call runs with interrupts off from its first instruction to its
`iret`: inside the kernel a thread loses the processor only where it calls
`thread_block`, `thread_yield` or `schedule` itself.  The exceptions are
kernel threads, which `kernel_thread` starts with interrupts on:
`start_process` (which allocates a page) and `idle`.  `main` runs with
interrupts off until all initialisation is done; the first `thread_block`, in the
disk driver, lets `init` and the shell start.

`ASSERT` is live: `panic_spin` turns interrupts off and loops.  The models
record a failed `ASSERT` or `PANIC` (or an access through NULL) in a variable
`panic`, after which nothing happens.

### Inventory

| Component | State | Operations | What makes it correct |
|---|---|---|---|
| Scheduler, `thread/thread.c` | PCB status, ticks, ready list, all list, idle thread | `schedule`, `thread_block/unblock/yield/start/exit`, clock handler | no ASSERT fails; the ready list is exactly the ready threads; no starvation |
| Semaphore and lock, `thread/sync.c` | value, waiters, holder, nesting | `sema_down/up`, `lock_acquire/release` | exclusion, no lost wakeup, one list per link field |
| Timer, `device/timer.c` | `ticks` | handler, `mtime_sleep` | sleeps end |
| Processes, `userprog/fork.c`, `wait_exit.c`, `exec.c`, `process.c` | all list, pids, parents, kernel pages | fork, execv, exit, wait | unique pids, living parents, no missed exit, zombies and pages reclaimed |
| Ring buffer, `device/ioqueue.c`; keyboard; pipes, `shell/pipe.c` | ring, registered sleeper, lock | `ioq_getchar/putchar`, `pipe_read/write`, keyboard handler | FIFO, no lost wakeup, calls return |
| Disk driver, `device/ide.c` | channel lock, `expecting_intr`, `disk_done` | `ide_read/write`, handler, `busy_wait` | command, data and interrupt belong together; reads are not torn |
| Open files, `fs/file.c`, `fs/inode.c`, `fs/fs.c` | `file_table`, `fd_table`, `open_inodes` | open, create, close, pipe, fork, exit | counts, write exclusion, one inode per file |
| Directories, `fs/dir.c`, `fs/fs.c`, `fs/inode.c` | directory blocks, inode table and bitmaps on disk and in memory | create, unlink, mkdir, rmdir; mount after a crash | entries, inodes and bitmaps agree; what was created survives |
| File data, `fs/file.c`, `fs/dir.c` | block bitmap, `i_sectors`, `i_size`, `fd_pos` | `file_write`, `file_read`, `sys_lseek`, `sync_dir_entry`, `delete_dir_entry`, `inode_release`, format | a byte is read where it was written; a block has one owner |
| Memory, `kernel/memory.c` | physical pools, address bitmaps, page tables, arenas, free lists | `malloc_page`, `mfree_page`, `sys_malloc`, `sys_free`, and fork, execv, exit on them | no page twice, none leaked; heap and counts in step |
| Bitmap, list, `lib/kernel` | bits, links | scan, set; append, push, pop, remove | scan against a reference; lists are sequences |
| Shell, `shell/shell.c`, `shell/buildin_cmd.c` | line, position, descriptors, `cwd_cache` | `readline`, `cmd_parse`, builtins, pipelines, fork and exec | the line shown is the line run; descriptors are restored; the prompt is true |
| System call table, console, printing, TSS, boot, libraries | | | not modelled: tables, output, one-time setup |

Components interact by direct calls.  The scheduler is below everything; locks
use it; the ring buffer, the disk driver and the allocator use locks; fork and
exit act on the scheduler's lists, on the allocator and on the open files;
handlers (clock, keyboard, disk) come in only when the running thread has
interrupts on.

The hard parts are the points where a system call sleeps with something half
done (`inode_open`, `file_create`, `load`, `sync_dir_entry`, `inode_sync`, `ioq_getchar`,
`sys_wait`, `ide_read`), state that two lists or two processes share (link fields, `file_table`
slots, `parent_pid`, the sectors of the inode table), several disk writes for one
operation with the power lost in between, and resources at their limit.  `PROJECT.json` lists these hazards with their
lines.

## 2. Modules

| Module | Models | Notes |
|---|---|---|
| `Sched` | scheduler, idle, clock | one action per operation; `intr[t]` is the interrupt flag t resumes with |
| `Mutex` | abstract reentrant mutex | specification only |
| `Sync` | `struct lock` on top of `Sched` | one action per statement of `lock_acquire` and `lock_release`, as they run with the caller's interrupt flag |
| `Sleep` | `mtime_sleep` on top of all of `Sched` | the counter `ticks` as the ticks still to wait |
| `Proc` | fork, execv, exit, wait, pids, kernel pages | system calls are atomic between their sleeps; the scheduler is any order |
| `Fifo` | abstract bounded queue | specification only |
| `IoQueue` | ring buffer, keyboard put, `sys_read` of stdin, pipes | `busy` is the thread in a system call; the lock is abstract (`Mutex`) |
| `Ide` | one IDE channel and the disk | the disk is external |
| `FileTable` | open files | the sleeps are the `ide_read` of `inode_open` and the disk writes of `file_create` |
| `MemPool` | pools, page tables, heaps; fork, execv, exit on them | calls are single steps, except `sys_execv`, which sleeps on the disk, and `start_process`, which runs with interrupts on |
| `Blocks` | data blocks of files and entries of a directory, one bitmap | one call at a time |
| `Dir` | the directory tree on disk, several processes, crashes | an action is one disk access and the code up to the next |
| `Shell` | `my_shell`, its builtins, paths, `cwd` | file system calls are single steps, other processes change the tree in between |
| `ThreadProofs` | theorems about `Sched`, `Sleep` and `Sync` | the last two are built on the first |
| `DiskProofs` | theorems about `Ide` and `Dir` | the driver and the tree on disk, each for itself |
| `ProcProofs`, `IoQueueProofs`, `FileTableProofs`, `MemPoolProofs`, `BlocksProofs`, `ShellProofs` | theorems | each extends the module it is named after |
| `MC*` | instances for TLC | model values, symmetry |

`Sync` and `Sleep` extend `Sched`, so their threads are scheduled by the real
scheduler.  `IoQueue`, `Ide`, `Proc`, `FileTable` and `Dir` leave the order of
runnable threads open, which covers whatever the scheduler does; they use the
lock as the atomic mutex that `Sync` is proved to implement, with any waiter
next, which covers both the queue and overtaking.

The file system is taken apart along what its parts can do wrong.  `FileTable` has
the tables in memory and the races of `inode_open` and `file_create`, `Blocks` the arithmetic of
blocks with nobody else around, `Dir` the order of the disk accesses of several calls
with one block to a directory and empty files, and `Shell` the paths.

Definitions called mutants in comments are deliberate errors.  None is part of
a specification: each stands in for one definition to show that a property
notices the error.

### Correspondence and abstractions

* **Sched.** `ready` is `thread_ready_list` in order; `thread_unblock` pushes at
  the front, everything else appends.  `Dispatch` is the second half of
  `schedule`.  A PCB that is not in use is `TASK_DIED`.  `idlepc` is the place
  in the loop of `idle`.  The page directory switch and the stack switch have no
  state of their own here.
* **Sync.** `pc[t]` is the next statement.  `retry` is the inside of the `while` of
  `sema_down`: interrupts are off there, and the thread was blocked or woken.
* **Proc.** `kpages` counts the pages of PCBs, page directories and address
  bitmaps; page tables, heap and user pages are not counted.  `bitmap_scan`
  asserts that some bit is free before it could report that none is, so an
  empty pool stops the machine, while a run of pages that cannot be found lets
  fork return -1 (`Scattered` says whether free pages may lie apart).  Names
  are their lengths.  `init` has forked the shell; neither exits.
  `thread_exit` reads the pid from a PCB whose page it has just freed; nothing
  can reuse the page in between, and the model reads the value.
* **IoQueue.** `kind` and `users` are chosen at the start and never change: the
  ring is the keyboard's or a pipe's, with some of the readers and writers.  A key that meets a full ring is dropped.  `left` is what a read
  or write has still to do; bytes are model values.  The mapping to `Fifo`
  reads the ring from `tail` to `head`.
* **Ide.** Sectors from 0 on stand for a request; `Chunk` stands for 256 and
  `SecCnt` keeps the wrap of 256 to 0 in an 8-bit parameter.  The disk
  withdraws its interrupt when a command is written (INTRQ), as ATA disks do.
* **FileTable.** A slot is free when its `fd_inode` is NULL, as in the code.
  A pipe keeps its page in `fd_inode` and its count in `fd_pos`.  The code loses
  slots in two ways (section 3): a close frees a slot
  other descriptors refer to, or an open that sleeps on the disk finds its slot
  filled.  A file is created in steps (`CreateStart`, `CreateWrite`, `CreateFails`,
  `CreateEnd`): between them the slot is filled, the inode has the count 0 and is not
  in `open_inodes`, and once the entry is written another process can open the file,
  for which `inode_open` makes a second inode, or reads a blank one if the creator's is
  not on disk yet (`disk`).  The new inode is in the heap of its creator (`own`);
  `HeapLost` says that it was used from outside this heap: closed for the last
  time (the ASSERT of `sys_free` stops the machine), met by another process in
  `open_inodes`, copied by a fork, or left behind by an exit.  The history variable
  `stale` records the first lost slot, the first such use, and a `sys_pipe` that used
  slot -1 of a full table; the counts are stated up to it.  What a path leads to does not
  matter here: any of `Files` may be opened or, if it has no entry, created.
* **MemPool.** Addresses are page numbers, and there is one size of small blocks.  The
  few virtual pages of a process lie under one page table.  `arena[s][v]` is the
  header at the start of a page, with the owner of the descriptor array it points to;
  `held` is what programs were given and not freed.  The bitmap of a process is its
  last page, which exit leaks.  `raced` records that the page `start_process` found
  for a page table was taken before it was marked, `stray` that a heap's lists and
  arenas went apart (a child frees a block of an inherited arena, a child is given the PCB
  that the arenas it inherits name, an execv fails, or a load replaces an arena of its
  own); exactness is stated up to them.  `sys_execv` empties the lists and then
  runs `load` on the emptied heap, one action for the `sys_open` (`ExecvOpen`; `ExecvOpenBelow`
  when the file is below the root, where the `struct dir` that is never closed leaves an arena
  with one block lost and the others in the list), one for each page of a segment
  (`SegmentLoad`, which frees the page that is mapped there), and one for its success or
  failure (`ExecvJumps`, `ExecvFails`, after any number of pages); other tasks run in between.
  `old` are the pages with headers of the program being replaced, whose blocks are in no list.
  Buffers that `load` allocates and frees again leave no trace, but there must be room for
  them (`Room`, `ExecvNoRoom`).
* **Blocks.** A block is its address counted from the block of the root directory.
  The byte of file f at offset i is written as that, so a byte read tells where it was
  written.  `fd_pos` is kept modulo `Word`, which stands for 2^32.  Rollbacks after
  a failed allocation are not there, as `bitmap_scan` stops the machine first.  The
  blocks that a series of scans for one bit grants are the lowest free ones, in
  order (`Alloc`); what `dir_read` returns is the set of the places with an entry, each with
  the number of places before it.
  `spilled` records that the directory has used an indirect block, after which the code
  loses entries.
* **Dir.** `call[p].pc` is the next disk access; `buf` and `pure` are the copies a call
  has read and will write back.  `clash` records that a call acted on something
  another call has changed since: it wrote back an old block, sector or inode, took a
  number still being released, or removed what somebody had looked up.  The tree is
  claimed to be in order only for behaviours without it; the run `dir_lost` shows what
  happens with it.  `Crash` keeps what is on disk and mounts it again;
  `torn` records that the disk was not sound then: some directory had an entry whose
  inode is not there or not marked, a wrong size, or its block in common with another
  directory (`DiskSound`).
* **Shell.** A key stands for a word, a slash, a blank, a bar or a control key.
  Cell `COUNT` of `cmd_line` is the byte behind the buffer.  `opens` is `fd_pos` of a
  pipe, and is counted: a shell, a shell that waits and a child each have what their
  descriptors name (`Holders`, `ChildOpens`).  A child whose execv fails returns into `my_shell`; the model follows
  the child as the shell and keeps the pipe of its parent in `waiting`.
  `trusted` says that the directory of the last `cd` was not removed and `cwd_cache` not
  overwritten.  What `ls` and `ps` print is left out.

## 3. Runs

Passing runs.  TLC explores the whole instance: `sched` takes two minutes,
the others about a minute or less with two workers.

| Run | Instance | Shows |
|---|---|---|
| `sched` | 4 threads, one of which sleeps up to 2 ticks; a turn of one tick; fair; 123,840 states | `NoPanic`, `ReadyListExact`, `AllListLive` over all interleavings and no deadlock; `ReadyRuns`: no starvation in spite of pushing to the front; `SleepEndsWithInterrupts` |
| `sync` | idle and 2 competitors, nesting 2, exit and restart; fair; 11,552 states | exclusion, tags, no lost wakeup, ASSERTs, refinement of `Mutex`, a queued thread is woken |
| `proc` | 4 processes, 6 pids, 22 pages, scattered pages; fair; 82,812 states | list, pids, parents, exits; only fork stops the machine; the shell reaps every child |
| `ioqueue` | ring of 3 for the keyboard (1 or 2 readers) or a pipe (1 or 2 readers and writers), calls of up to 3 bytes; fair; 67,232 states | `RingWaits`: ASSERTs, sleepers registered and asleep for a reason, readers of a pipe never sleep; FIFO refinement; with one reader of the keyboard every read returns; `PipeWriteWaitsFull`: with one writer, and nobody bound to read, a write returns or sleeps for its last byte on a full ring |
| `ide` | 2 threads, 3 sectors, 2 per command, 3 rounds of polling; fair; 37,322 states | `IdeInStep`: command, data and interrupt belong together and only the disk stops the machine; no torn read; every request ends or the machine stops |
| `file` | 2 processes, 3 slots, 2 descriptors, 2 files that exist or not, and pipes; files and inode memory (for two inodes) interchangeable; 986,529 states | up to the first lost slot or use of an inode outside its heap: open counts exact, a creation keeps slot and inode to itself, no close through NULL; a pipe keeps its page |
| `mem` | kernel and 2 processes, 9 kernel and 4 user pages, 4 virtual pages, programs on the first 3, 2 blocks to an arena, large allocations of 2 pages, 2 allocations held; 207,733 states | `FramesExact`: bitmaps, mappings and page tables agree, no page twice, none leaked; `HeapExact`: lists, counts, arenas; `ScanFindsRun`: `bitmap_scan` finds the lowest run |
| `blocks` | 2 files written and 2 empty ones, blocks of 2 bytes, 2 direct and 2 indirect, 2 entries to a block, 6 blocks; 80,760 states | `FileIntact`, `BlocksOnce`, `DirExact`; `OnlyLimitsStop`: no ASSERT on sectors fails |
| `dir` | 2 processes, 2 names, 2 inodes and blocks besides the root's, one crash; 863,758 states | `TreeConsistent` for calls that do not overtake each other; `CrashWindow`: where a crash can hurt; `ReturnedOnDisk`: what was created is on disk |
| `shell` | a buffer of 5 keys, 9 lines and all their corrections, 1 name, 2 inodes, 2 pipes, 2 shells that wait; 546,438 states | `LineShown`, `DescriptorsExact`, `PromptTrue`, `WashedAgrees` |

Bounds.  Two threads are enough for each race on a lock: the one that
releases can overtake the one it woke.  A ring of three has an empty, a partly
filled and a full state and wraps around; four processes make two generations below
the shell; six pids and 22 pages run out; three sectors in chunks of two make a full
and a short command; three slots and two descriptors fill up, and two files let one be opened while the other is created.  Nine kernel pages hold the
PCB, directory, bitmap and page table of two processes and run out with the
kernel's own allocations; four user pages let a fork succeed and fail,
and a load run out of pages for its buffers; four virtual pages hold the stack, a program, and an arena or
a large allocation.  One-page large allocations take the run past its time; the proof has
them (`LargeSizes` is any set of positive numbers).  With blocks of
two bytes, counts of 0, 2 and 3 end before, at and behind the end of a
block, reach the indirect block and its end, and the six blocks, with the one too
many that format leaves free, run out; three names are more than the direct blocks of
the directory hold.  Two processes and two names make every pair of calls meet
in one directory, with one inside the other; one crash comes at every point of
every pair of calls, and calls go on after it.  The
lines of `shell` have a line as long as the buffer and longer, absolute and
relative paths, each builtin with an effect, pipelines of two and three commands with and without
programs, and more words than `argv` has room for.  The proofs remove the bounds
where they exist.

Runs without a check for deadlock (`proc`, `ide`, `file`, `mem`, `blocks`, `dir`,
`shell`) have behaviours that end: `panic` or `stop` ends them, because fork, the
disk, an empty pool, a full partition or a NULL really stop the machine; in `dir` a
call that finds no free inode or no room in a directory goes no further, as
exhaustion is the subject of `blocks`.  Constraints: `file` follows behaviours up to the first
`stale` (`UpToLoss`), `mem` to the first race or stray list (`UpToStray`), `dir` to
the first clash or torn disk (`UpToClash`), as behind it counts grow without bound and
nothing is claimed any more; `shell` up to two waiting shells (`Nested`).

Runs that end in a violation.  Each states what a comment of the source says, and
TLC gives a behaviour of the code that contradicts it:

| Run | Says | Behaviour |
|---|---|---|
| `file_shared` | file.c:179, later reads and writes find the inode through the fd | a child closes an inherited file; the shared slot is freed under the parent |
| `dir_lost` | file.c:136, `sync_dir_entry` has written the entry to disk when it returns true | two creators read the same block, both write it back: one entry is gone, both calls succeeded |

Met while modelling, part of the models, and without a run of their own:

* A sleep in a system call, with interrupts off and nobody else ready, yields to itself
  while the clock stands still (timer.c:59): `SleepEndsWithInterrupts` has its premise
  for this reason.
* A child that exited before its parent is handed to `init` without waking it
  (wait_exit.c:104): `NoMissedExit` excepts `init`.
* `release_prog_resource` frees the bitmap of the address space rounded down
  (wait_exit.c:56), `create_user_vaddr_bitmap` allocates it rounded up: a page stays
  with every exit (`SysExit`).
* The ASSERT on the name in fork (fork.c:36) fails for a process two forks
  below the shell without an exec, as each fork appends `_fork` (`ForkAsserts`).
* `bitmap_scan` asserts that a bit is free before it could return -1 (bitmap.c:31), so
  the error paths of its callers are not taken for single bits.
* `time_limit -= 10 >= 0` in `busy_wait` (ide.c:136) takes 1 in each round of ten
  milliseconds, so the 30 seconds are 300 (`BusyWait`).
* `pipe_write` computes the room one byte too large (pipe.c:64): a write that fills the ring
  sleeps for its last byte, against the comment "to avoid blocking" (pipe.c:63).
  `my_shell` starts the reader of a pipeline only when the writer has ended (shell.c:137,
  196), so such a writer sleeps for ever.  `PipeWriteWaitsFull` says that this sleep is the
  only one.  With two writers the second waits for the lock of the ring and then
  sleeps without testing the ring again, which may be empty by then; readers of an
  empty pipe wake nobody.  Hence `SoleWriter` and `SoleReader` in the properties.
* `get_free_slot_in_global` marks nothing (file.c:186): two opens that wait for the
  disk can get the same slot (`SlotLost`); two opens of one file that both miss
  `open_inodes` leave two inodes in memory (inode.c:102); closing a reader clears
  `write_deny` of a writer (file.c:213).
* `file_create` takes the inode from the heap of the calling process (file.c:108), `inode_open`
  from the kernel's (inode.c:90).  The last close of a created file therefore fails an
  ASSERT of `sys_free` (memory.c:505), and other processes that walk `open_inodes` read their own
  memory at its address (`LastOfUser`, `Foreign`, `HeapLost`).  A file being created can
  be found by another process before it is counted (file.c:125 to 156), which makes a second inode
  for it (`OpenStart`); the opener of a created file may write although the
  creator does, as `file_create` does not set `write_deny` (`CreateEnd`).
* `sys_pipe` does not test the -1 of a full `file_table` (pipe.c:17, `SysPipeNoSlot`).
* `start_process` takes a page for a page table from the kernel pool holding only the lock
  of the user pool (`StartScan`, `StartSet`).
* The arenas of a forked child name the parent's descriptors (`ForkHeap`), and an
  execv that fails has emptied the free lists already, and may have replaced pages of the
  program it returns to (`ExecvFails`).
* `sys_open` of a file below the root never closes the directory it was found in
  (fs.c:346).  In `load` its `struct dir` is the first allocation of the emptied heap; when its arena lies on
  a page of the program, as in a fresh shell on 0x08048000, `segment_load` replaces the page
  and the arena's other blocks stay in the free list.  That is what the reset of the lists
  is to avoid (exec.c:167); `SegmentLoad` sets `stray` there.
* A scan for several bits tests one bit past the end of the bitmap (`bitmap_scan`).
* A file of exactly 71680 bytes passes the check of `file_write` and fails its
  ASSERT; a read that touches block 139 fails another (`WriteStops`, `ReadStops`).
* `partition_format` clears one bit too many in the last byte of the bitmap
  (`Formatted`).
* A directory past its twelve direct blocks gets a new indirect block with every
  entry, and the loop of `delete_dir_entry` for such a block does not end
  (`SyncDirEntry`, `SysUnlink`).
* `search_file` stops at an ordinary file, so `rm /f/x` removes `/f` (`SearchFile`).
* Removing the current directory makes the next relative path fail an ASSERT
  (fs.c:730), or lead elsewhere when the inode is used again (`GetcwdPanics`).
* In `my_shell`: a blank line or an empty command of a pipeline hands NULL to `strcmp`
  (`CmdNothing`); `cmd_parse` stores two words more than `argv` holds before it
  refuses (`CmdParse`); `readline` stores a byte behind its buffer (`Readline`);
  the name of a directory or of a file that is no program starts a nested shell
  (`ExecFails`); `ls` rewinds NULL when its directory goes away between two lookups
  (`LsOpen`).
* Outside the models: `file_write` hands a buffer of one sector to `inode_sync`, which
  may read two (file.c:414); `sys_getcwd` in the root does not free its buffer
  (fs.c:799).

### Fairness

* The clock ticks again and again whenever interrupts are let in again and
  again (`SF` of `Timer`): the 8253 interrupts at 100 Hz and the request stays
  pending while interrupts are off.
* The idle thread runs when it has the processor (`WF`).
* A thread that gets the processor again and again inside the kernel leaves
  some time (`SF` per thread), because system calls end; a thread with
  interrupts off keeps the processor, so nothing else would be fair to assume.
* `Sleep`: the loop of `ticks_to_sleep` goes on when its thread has the processor.
* `Sync`: owners release the lock, however often they nest, and devices answer.
* `Proc`: a process inside wait that can run does run; `init` and the shell
  call wait for ever, as their loops do.
* `IoQueue`, `Ide`: threads that can run do run, which is what `ReadyRuns` says
  of the scheduler; keys are typed and the disk ends each command.  Nothing is assumed
  of the readers of a pipe: the shell may have none when the writer runs.
* `FileTable`, `MemPool`, `Blocks`, `Dir`, `Shell`: none, their properties are
  invariants.

## 4. Proofs

Checked by TLAPS for any number of threads, processes, pids, pages, sectors and slots,
under the named assumptions on constants (`SchedAssumption`, `SyncAssumption`,
`ProcAssumption`, `IoqAssumption`, `IdeAssumption`, `FileTableAssumption`,
`MemAssumption`, `BlocksAssumption`, `ShAssumption`, `DirAssumption`).  They say that the constants have sensible types and that special
values differ, that a ring has at least two cells, that the processes of `Dir` and the processes, slots and
descriptors of `FileTable` are finite sets, and that the kernel pool has the three pages
`init` starts with.  Those of `Blocks` say that a partition has at least the blocks of
one byte of its bitmap and fewer than a sector of the bitmap counts, that a block of a
directory has room for `.` and `..`, and that
no count is so near 2^32 that `fd_pos + count` wraps; with fewer blocks
`partition_format` would clear the bit of the root directory.  Those of `Shell` say that there are the three
standard descriptors and two for a pipe, and that no key is the character 0, which
`intr_keyboard_handler` filters out (keyboard.c:181).

* `ThreadProofs`, for the scheduler: `Spec => []SchedInv`, and from it types, `NoPanic`,
  `ReadyListExact` and `AllListLive`.  `NoPanic` is not inductive: that `schedule` finds an idle
  thread it can wake needs that idle is only ever running, ready or
  `TASK_BLOCKED` (`IdleAvailable`); that a thread is not queued twice needs
  that the ready list is exact and that only `cur` is running (`OneRunning`).
* `ThreadProofs`, for sleeping threads: `SleepSpec => Spec`.  The run `sched` checks the scheduler
  together with sleeping threads; the theorem carries the safety results of `Sched`
  over to it.
* `ThreadProofs`, for locks: `SyncSpec => []SyncInv`, from it exclusion, no lost wakeup, one
  list per tag and no failed ASSERT in lock and scheduler together; and
  `SyncSpec => ImplementsMutex`, the refinement.  The strengthening ties value,
  holder and nesting to the place of the one owner (`ValueExact`,
  `HolderExact`, `RepeatExact`) and says that a thread in the loop of
  `sema_down` that is in no queue can run (`RetryRuns`), which is what makes
  `NoLostWakeup` inductive: a woken thread that finds the value taken queues
  up again, and then the value is 0.
* `ProcProofs`: `ProcSpec => []ProcInv`, from it unique pids, living parents,
  the exact list, no missed exit, and `OnlyForkStops`.  The parts need one another:
  a parent lives because adoption goes to pid 1, which is unique and never
  hangs (`InitStays`), and a reaped process hangs, so it is nobody's parent;
  no exit is missed because the parent found by pid is the only process with it.

* `IoQueueProofs`: `IoqSpec => []RingWaits`, and `IoqSpec => ImplementsFifo`, the
  refinement of the bounded queue by the ring, step by step: `ioq_putchar` appends,
  `ioq_getchar` takes the first byte, everything else stutters.  That a sleeper has a
  reason to sleep is inductive only with `CallsExact`: who is inside a call, that a
  reader of a pipe asks for no more than `ioq_length`, and that only a thread that is not
  alone on its side waits for the lock.  The refinement rests on lemmas on the wrap of
  `next_pos` and on the length of the ring.
* `DiskProofs`, for the driver: `IdeSpec => []IdeInv`, from it `IdeInStep` and `NoTornRead`.  The
  invariant is the handshake of thread, interrupt handler and disk: `OwnerInLoop` (the
  holder of the channel lock is the thread inside the loop) and `Handshake` (at each
  place of that thread, the states that the disk, `expecting_intr` and `disk_done` can be
  in together).  `SecCntExact` is the lemma that 256 survives the 8-bit register.
* `DiskProofs`, for the directory tree: `DirSpec => []SteadyInv`, from it `TreeConsistent`,
  `CrashWindow` and `ReturnedOnDisk`, for any number of processes, names, inodes, blocks,
  entries and crashes.  `SteadyInv` is `DirInv` as long as neither `clash` nor `torn` is
  set.  Nothing is said of the buffers of a call: a write of an old copy sets
  `clash`, so under `Steady` every write acts on the block or sector as it is.  What has to
  be said is who owns what.  A call goes through stages (`Making`, `Entered`,
  `Chosen`, `Removed`, `Freed`); a number that is marked belongs to an entry or to exactly
  one call that makes or removes it (`NumbersOwned`, `EntriesOnce`, `OwnedEntries`), a
  marked block to one directory or to one mkdir or rmdir (`KeptDirs`,
  `NewBlocks`, `Occupied`), and without a crash there are no others (`NoneLeaked`).
  `i_open_cnts` is the number of calls that hold the inode and of those that release it,
  as cardinalities (`CountsExact`); this is why no `inode_close` frees an inode another
  call works on.  While unlink or rmdir is on its way to the entry it has chosen, nobody makes
  a new file with that number, and what unlink has chosen stays a file
  (`ChosenFresh`, `ChosenFiles`).  `CrashWindow` follows
  from the stages: size, inode or mark of an entry can lag behind only at the five
  places it names.  `MadeThere` with `MarkedOnDisk` and `FilesKept` gives
  `ReturnedOnDisk`.  A crash of a sound disk re-establishes `DirInv`.  This step could not be
  proved with the first definition of `DiskSound`, which did not exclude two
  directories with one block: when a crash cuts `inode_delete` off, the inode of a number
  that is free again stays in the table and still names its block.  `DiskSound` asks for
  distinct blocks now.
* `FileTableProofs`: `FtSpec => []FtInv`, from it `PipeKept` and `OpenCountExact`.  The
  counts are sums of two cardinalities, the descriptors of slots that name an inode and
  the slots without descriptor; every action, fork included, changes them by what it does
  to the count.  Opens that sleep
  are covered by `SlotsUsed`: the slot they will fill is free, or `stale` is set; creations
  by `CreationsAlone`: their slots are filled, count as none, and are in no descriptor
  table.
* `MemPoolProofs`, for the pages: `MemSpec => []MemInv`, from it `FramesExact`.
  `MemInv` states exactness per pool (`KernelExact`, `UserExact`): a bit is set
  if and only if the page is behind a mapping, is a page table, or is the stack page
  that `start_process` has not mapped yet.  It needs that kernel and processes take
  their pages from different pools (`PagesAgree`) and that mapped pages and virtual bitmap
  agree (`VaddrExact`), because fork copies by the bitmap and exit frees by the tables.  For
  bitmaps: `ScanIsLowest`, that `bitmap_scan` returns the lowest run of clear bits, by
  lemmas about the recursive count of its loop (`CountsRight`: what the count at a bit
  says of the bits before it; a least counterexample stands in for induction).
* `MemPoolProofs`, for the heaps: `MemSpec => [](MemInv /\ LoadInv /\ HeapInv)`, from it
  `HeapExact`.  `LoadInv` says which processes load and that only they have old pages; the
  counts are claimed of the headers that are not old, and the list has no block of an old page.  The ASSERT of `sys_free` holds because the count of a header is the
  number of its blocks in the list; giving pages back is safe because no page behind a
  header has a header of its own, and because PCBs and page directories are not among
  them (`KownApart`).  The attempt found a case that two processes cannot show and the run
  does not reach: a grandchild created in the place of its ended grandparent inherits
  arenas that name its own, empty, lists.  `stray` is set in this case now too, as it is
  the same defect: copied arenas keep the descriptor address of whoever made them.
* `BlocksProofs`: `BlocksSpec => []BlocksInv`, from it `BlocksOnce`, `FileIntact`,
  `DirExact` and `OnlyLimitsStop`, for blocks, inodes, bitmaps and directories of any
  size.  None of the four is inductive alone.  That a byte is not overwritten needs that
  blocks are owned once (`Apart`, `Distinct`) and marked (`Marked`); that the ASSERTs on
  `i_sectors` hold needs that the filled entries are exactly those below the size
  (`Shapes`); that a position leads to a byte needs `PosFits`.  The argument follows
  the code: the blocks `block_bitmap_alloc` grants are free and differ, by
  a lemma on ranks (`NthIn`); a step that only adds grants to one owner, or only takes an
  owner away, keeps ownership (`Grow`, `UnlinkFrame`); `file_write` extends
  `i_sectors` by the missing blocks, with the indirect block where the size crosses the direct ones
  (`Sectors`, `NewBlocks`, `TableWritten`), and then puts each byte where `file_read` looks for it
  (`DataWritten`); `sync_dir_entry` and `delete_dir_entry` add and drop one place (`DirAdd`,
  `DirDrop`); and the n-th call of `dir_read` returns the n-th place in use.
  `BlocksInv` says more of the directory than the run asked for: even after the directory
  has spilled into an indirect block no entry is there twice, none names a file that
  does not exist and `i_size` still counts the names; entries are only lost.
  The attempt also showed where `OnlyLimitsStop` has to put the limit of a full
  partition: the largest file takes one block more than its bytes, the indirect block.
* `ShellProofs`: `ShSpec => []LineShown`, for lines of any keys and a buffer of any
  length: it needs that the cells below `pos` hold neither a control key nor the
  character 0 and that the screen shows exactly these (`LineInv`).  And
  `ShSpec => []DescriptorsExact`, for any number of descriptors, pipes and waiting shells.
  `DescInv` adds to it which descriptors name a pipe at each step of a pipeline (`FdInv`)
  and that the tree has an entry for every inode number, the current directory
  among them (`TreeInv`); the count of a pipe is a
  cardinality over shells and children, and each of fork, exit, `fd_redirect` and close changes
  both sides by the same.

`IdeInStep`, `RingWaits`, `OpenCountExact`, `FramesExact` and `HeapExact` contain the
strengthenings, so that the runs check the inductive invariants as well; `BlocksInv` and
`SteadyInv` were checked by TLC on the instances of the runs `blocks` and `dir`.

Only model-checked:

* all liveness properties (`ReadyRuns`, `WaiterIsWoken`, `SleepEndsWithInterrupts`,
  `ShellReaps`, `KbdReadReturns`, `PipeWriteWaitsFull`, `RequestEnds`), since fairness is out
  of the prover's reach;
* `PromptTrue` and `WashedAgrees` in `Shell`: what `SearchFile`, `WashPath` and `PathOf`
  compute is defined by recursion over data.

## 5. Plan

Done: all modules above, and proofs about every module; every invariant of a run has its
theorem except the two above.  Worth adding next: directories deeper than one level and
files with data in `Dir`, which has one block to a directory and empty files, and the
decoding of scan codes in front of `IoQueue`.

## 6. Not modelled

* Boot code, IDT, GDT and TSS setup, the identification of the disks and the partition
  scan: done once, in a fixed order, before a second thread runs.
* The table of system calls: each call is an action of its component's module.
* Scan code tables, the console, printing, string functions, the example programs:
  straight-line code without state to relate.
* The assembly stubs and the register switch: one assignment to `cur` in `Sched`.
* The layout of stack frames for a process's first instruction, the contents of an ELF
  file: data no property here tells apart.
* Byte addresses inside kernel buffers, hence overruns into a neighbour (file.c:414).
