# A TLA+ verification of the ComputerScienceProjects repository

The repository collects the projects of a computer science degree. Most of its logic, and nearly all of its
concurrency, is in two extensions of the xv6 kernel; beside them stand an on-disk B+ tree, a web
application for course registration, an assembler and simulators of a small processor and a number of exercises. This
directory models the parts with state worth relating, checks them with TLC and proves what it can with
TLAPS. `PROJECT.json` lists components, runs, mutants, the source lines behind each definition, the
hazards and the theorems.

Two kernels appear below. The *file system kernel* is `src/Operating system/file system/xv6-public`, the
*thread kernel* is `src/Operating system/thread,scheduler/xv6-public`. Their README files are swapped:
the one in `thread,scheduler/` documents threads, users and permissions, the one in `file system/`
documents the two schedulers. Both kernels are built for two CPUs (`CPUS := 2` in the Makefiles).

## 1. The system

| Component | State | Operations | Talks to | What is hard |
|---|---|---|---|---|
| Write-ahead log (`log.c`) | header and blocks on disk; `lh`, `outstanding`, `committing` | `begin_op`, `log_write`, `end_op`, `commit`, recovery | buffer cache below, every file system call above | group commit by whoever ends last, an unlocked length test, a crash between any two block writes, sleepers of `begin_op` |
| Buffer cache, sleep locks, IDE driver (`bio.c`, `sleeplock.c`, `ide.c`) | `struct buf`, LRU list, lock owners, `idequeue` | `bget`, `bread`, `bwrite`, `brelse`, `acquiresleep`, `iderw`, `ideintr` | the disk's interrupt; log pins dirty buffers | three kinds of lock, an interrupt, recycling a buffer whose last user is still inside `brelse` |
| Inodes and directories (`fs.c`, `sysfile.c`) | dinodes, directory entries, inode cache (`ref`, lock), `cwd`, open files | `iget`, `iput`, `namex`, `create`, `link`, `unlink`, `mkdir`, `chdir`, `open`, `close` | log and buffer cache | hand-over-hand walks of two processes, a lock dropped between test and deed, counts that must match pointers |
| Block allocation and contents (`balloc`, `bmap`, `readi`, `writei`, `itrunc`) | bitmap, block lists of inodes, contents | allocate, free, grow, truncate | log | partial failure on a full disk, the step from direct to indirect blocks |
| Users and permissions (`fs.c:732-926`, `sysfile.c`) | the table of users and its file `userS`, owner and mode of inodes | `addUser`, `deleteUser`, `login`, `logout`, `chmod`, checks in `namex`, `open`, `create`, `unlink` | inodes, log | one kernel-wide user, references that outlive their call |
| Pipes and the file table (`pipe.c`, `file.c`) | ring buffer, two ends, `struct file` counts | read, write, dup, close | processes, inodes | a count shared over `fork`, `dup`, `exec` and `exit`; sleepers at both ends |
| Shell, user programs, boot (`init.c`, `login.c`, `sh.c`, `usertests.c`, tools) | descriptors, variables, what is typed | commands, pipelines, redirections, tests | every system call | 36 tests and pipelines whose processes interleave |
| Processes and threads (`proc.c`, `exec.c`, `trap.c` of the thread kernel) | `struct proc` per slot: state, pid, tid, master, parent, killed, chan, page table | `fork`, `exit`, `wait`, `kill`, `thread_create`, `thread_exit`, `thread_join`, `exec`, `sleep`, `wakeup` | the schedulers; the timer | slots that are freed and taken again, lost wakeups, one page table under many slots, `exec` by a thread on two CPUs |
| User memory of threads (`growproc`, `sys_sbrk`, `thread_create`, `vm.c`) | `sz`, `vir_add`, `empty_mem`, mapped pages | `sbrk`, taking and leaving a stack, `copyuvm`, `freevm` | processes and threads | one address space that many slots grow and leave |
| MLFQ scheduler (`scheduler` under `MLFQ_SCHED`, `trap.c`, `syscall.c`) | level, ticks, mark and priority of each slot; `prev` of each CPU | scan, timer accounting, boost, `yield`, `sleep`, `setpriority` | processes | accounting split over three files, CPUs that remember a process another one runs |
| Multilevel queue scheduler (`MULTILEVEL_SCHED`) | a ring of odd processes shared by the CPUs, places in the table | even-first pass, push, pop | processes | passes interrupted by every process they run, on two CPUs |
| On-disk B+ tree (`bpt.c`) | pages of a file | `db_insert`, `db_delete`, `db_find` | the file | logical deletion, purge of a full leaf, splits that copy stale slots |
| Course registration (Spring, JPA) | users, classes, registrations, hopes | register, cancel, hope, grade, edit, administer | a database; concurrent requests | check-then-act on snapshots, whole-row writes, requests of several transactions |
| LC-2K assembler and simulators | labels, memory, registers, pipeline registers | two passes, one instruction, one cycle | - | a branch decided in MEM, no forwarding |
| Join operations; MUPL, SML and Racket exercises; design patterns; analyzer samples; graphics; SQL | - | - | - | I/O, arithmetic or exercises without state of their own |

What makes each of the modelled components correct:

* **Log**: an operation is on the disk whole or not at all; a commit runs alone; the reservation of
  `begin_op` is enough for every `log_write`; nobody sleeps in `begin_op` for ever.
* **Buffer cache**: one holder per block, who sees what the last holder left; every request served once;
  no buffer forgotten, so that `bget` panics only when there really is none; no missed wakeup.
* **Inodes**: `ref` is the number of pointers, `nlink` covers the entries, an inode is freed only when
  nothing refers to it.
* **File system calls and programs**: the repository's own tests pass in every interleaving; every page, block,
  descriptor and inode reference is accounted for after every call, error paths included; a sleeper at a pipe is owed a wakeup.
* **Processes and threads**: a slot on one CPU at a time; a sleeper has somebody to wake it; nobody runs
  on a freed page table or on another thread's stack; no dead parents or masters; a killed process dies.
* **Schedulers**: quanta are bounded, the best process is chosen, CPUs do not all wait for a busy process, no
  runnable process is lapped.
* **B+ tree**: one balanced tree which is a map.
* **Course registration**: seats, credit limit, timetable, finished classes and sums, whatever overlaps.
* **LC-2K**: the assembler's output is what the project ships; simulator and pipeline end as the instruction set says.

## 2. The modules

| Module | Models | Correspondence |
|---|---|---|
| `Log`, `Log_proofs` | `log.c` | each critical section under `log.lock` is a step, and each block write of `commit` and of recovery is a step. `home`, `logd`, `head` are the disk; `cache` the buffer cache. `Crash` resets the memory in any state |
| `AtomicDisk` | what `log.c:10-20` promises | `durable`, `view`, `active`; implemented by `Log` through `durable <- Recovered` |
| `Bcache`, `Bcache_proofs` | `bio.c`, `sleeplock.c`, `ide.c` | one step per critical section; `owner` is the sleep lock of a buffer, `pc` says where in `bread`/`brelse`/`iderw` a process is with its first and with its second buffer (its two "hands") |
| `BlockStore` | what the cache promises | `contents`, `holder`; implemented by `Bcache` |
| `Fs`, `Fs_proofs` | `fs.c`, `sysfile.c`, lock by lock | a step is what is done under one inode's lock; `at`, `ip` are the local variables that hold references, `puts` the `iput`s due, each of which takes three steps as in the code |
| `FileSys` | `fs.c`, `mkfs.c`, the users of `fs.c` | a file system is one record and each routine that changes it an operator; `balloc`, `bmap`, `itrunc`, `readi`, `writei`, `namex` with rights, whose walk is a function of the number of elements it has taken |
| `Sys`, `Sys_proofs` | `sysfile.c`, `file.c`, `pipe.c`, `sysproc.c`, `proc.c`, `exec.c`, `kalloc.c` of the file system kernel | an action per system call; a write that fills a pipe or takes several transactions, `exit`, and a call that sleeps at a pipe take several. `SysSpec` is the kernel under programs of any kind |
| `UserCode` | system calls as instructions of user programs | - |
| `UserTests`, `Programs` | `usertests.c`; `init.c`, `login.c`, `sh.c` (`runcmd`), the tools and the project's test programs | a program is the sequence of calls it makes and the results it insists on |
| `Session` | the machine from boot | composes `Sys` and `Programs`; a step is one call, or one decision, of one process |
| `Threads`, `Threads_proofs` | `proc.c`, `exec.c`, `trap.c` of the thread kernel | one step per critical section under `ptable.lock`; `cpu` says what really runs, which `exec` makes differ from `state`; the policy picks any RUNNABLE slot |
| `ThreadMem`, `Threads_proofs` | `growproc`, `sys_sbrk`, thread stacks, `copyuvm`, `freevm` | composes the steps of `Threads` with what each does to memory; `MemNext` is the next-state relation of both |
| `Mlfq`, `Mlfq_proofs` | `scheduler()` with `MLFQ_SCHED` | one step per choice, per timer tick, per call that touches the queues; `Scan` is the loop over the table |
| `Multilevel`, `Mlfq_proofs` | `scheduler()` with `MULTILEVEL_SCHED` and `DEFAULT` | over `Mlfq`'s processes: a step is what a pass does from where a process comes back to the switch to the next one |
| `Bpt`, `Bpt_proofs` | `bpt.c` | one step per `db_` call; pages with their stale slots. The loops of `find_leaf`, of the purge and of `insert_into_parent` are functions of the number of rounds |
| `KeyMap` | what the tree promises | a map; implemented by `Bpt` until the first purge |
| `CourseReg`, `CourseReg_proofs` | services, entities and controllers of the web application | a request is one or more transactions; `Begin` takes a snapshot, `Commit` writes whole rows, `Rollback` is a failed flush |
| `Lc2k` | `assemble.c`, both `simulator.c` | one step per line and pass, per instruction, per cycle; `isa` is the instruction set |
| `MCLog`, `MCBcache`, `MCFs`, `MCThreads`, `MCMlfq`, `MCBpt`, `MCSession`, `MCCourseReg`, `MCLc2k` | - | instances for TLC |

The `..._proofs` modules hold the theorems of section 5. `Mut...` definitions in a module are plausible bugs of the definition that follows them. Each property of
a passing run is violated when one of them takes its place, so no property holds by the shape of the model.

**Composition.** `AtomicDisk` is the interface between the log and the file system: `Fs` and `Sys` rely on it when they
treat a call as one transaction and leave crashes out. `BlockStore` is the interface between the cache
and the log: `Log` relies on it when it reads and writes blocks in one step. `Fs` shows what two processes do to each
other inside the calls that `Sys` takes in one step. `Session` runs `Programs` over `Sys` over `FileSys`. `Threads` leaves the
scheduling policy open, `Mlfq` and `Multilevel` close it and leave the threads out; `ThreadMem` adds memory to `Threads`.

**Mixes.** Several constants are sets of *mixes*: which programs run, on how many CPUs, in how many slots. The initial state
picks one, so that one run covers several small machines, each with the calls that are interesting there.

### Abstractions, module by module

* `Fs`: contents and rights are left out, the user is
  root, the inode cache is unlimited, and running out of inodes (a panic of the code) is excluded by a guard.
* `Bcache`: the LRU order is left out (any unused buffer may be recycled) and the disk never fails. A process takes a second buffer only
  in the order `Second`.
* `Threads`: `Orderly` are the programs in which only processes without threads call `exec` and main threads end by `exit`, not by `thread_exit`.
  What is stated under it is false of the others (section 6). Two names for bounds: without `init` in a mix, `init` forks only when it has no child, and a
  `thread_join` names no tid beyond the next one. `thread_join(0)` is left out: it matches a zombie process and reads through its null `master`.
* `ThreadMem`: memory is counted in pages, so growth by part of a page is left out. It is followed in mixes with `sbrk`; in the others
  its variables stay as they are. `fork` copies the pages and the size in one step, although the copy is made
  without `ptable.lock`. Fields of a freed slot count as empty. A step that would panic in `mappages` is not taken; `NothingRemapped` says when
  there is none.
* `Mlfq`: the ticks of a marked process stop counting, since
  the code never looks at them again before it resets them.
* `Multilevel`: pids are 1, 2, odd or even. Places of the ring that are never read again count as empty. `setpriority` and the clock are
  left out, neither policy looks at them. After `StrayTimer` (section 6) the code's behaviour is undefined and the model stops.
* `Bpt`: the merging half of `delete_entry`
  (`bpt.c:546-724`) is left out because `NeverUnderfull` shows that it is not reached. A program may end after any call and open its table again (`Reopen`).
  A record that `calloc` made has the value `Blank`, which `db_find` does return for key 0 once a split has counted it in (section 6).
* `FileSys`, `Sys`, `Session`: data is counted in cells, what the code moves whole (a directory entry, a block number, a run of bytes, a user
  record). Inode locks, `p->lock` and `ftable.lock` are the atomicity of a step. What the console reads is merged with the call it
  feeds; contents of memory and printed text are left out. Loops of `usertests` are cut to the bounds of `UserTests`; `bsstest`, `dirtest` and
  `fsfull` are not run, and the tests are run in groups (the program's `argv`) because those that leave a different image in every
  interleaving multiply. `wait`'s sleep is left to `Threads`: here a parent stands at its wait until it can return.
* `CourseReg`: a connection is one student or the administrator, so one student's requests follow each other. Grades are 2 and 8, one on each
  side of B0, and 99, which the form offers and which takes a grade back. Password checks, contact data and pages are left out. Two variables are histories: `isolated`,
  that every commit so far saw the latest rows, and `reopened`, the registrations whose grade was taken back.
* `Lc2k`: memory that was never written reads as 0. The reference machine runs before the simulators, which do not interact.

## 3. The runs

| Run | Instance | Shows | States |
|---|---|---|---|
| `log` | 2 processes, 3 blocks, 2 values, 2 blocks reserved per operation, room for 2 reservations, crashes anywhere | `NoPanic`, `CommitAlone`, `WakeupOwed`, `QuiescentDurable`, `SleepersWake`; `Log` implements `AtomicDisk` | 141 thousand, up to symmetry |
| `bcache_store` | 2 processes with up to 2 buffers each, 4 blocks, 3 buffers, 2 pinned | `Bcache` implements `BlockStore`; `BlockStays`, `NoLostWakeup`, `PanicsOnlyWhenFull` | 196 thousand, up to symmetry |
| `fs_tree` | 2 processes, 3 inodes, 2 names, three paths, up to two names deep | `RefsCounted`, `LinksHold`, `NoDangling`, `FreedUnused` | 1.8 million |
| `session_all` | 4 scripts of logins and commands, 5 groups of `usertests`; 8 processes, 12 files, pipes of 2 cells | `TestsPass`, `SleepersOwed`, `ReferencesCounted`, `PagesCounted`, `BlocksOwned` | 15 thousand |
| `threads_life` | nine mixes, up to 4 slots, 2 CPUs, 5 pids | `OneCpu`, `NotForgotten`, `MemoryKept`, `NotBornKilled`, `FamilyAlive`, `ZombieStays` | 1.1 million, up to symmetry |
| `threads_live` | 3 slots, 2 CPUs, 3 pids, fairness | `KilledDies` | 5 thousand |
| `threads_two_cpus` | 3 slots, 2 CPUs, `exec` by threads | `OneCpu` is **violated** | - |
| `mlfq_two_cpus` | 3 slots; MLFQ on 2 CPUs with 2 levels, quanta of 1 and 2 ticks, a boost every 2; DEFAULT on 2; MULTILEVEL on 1 and 2 | `QuantumBound`, `SomeCpuFree`, `TurnsKept`, `PicksBest` | 2.8 million |
| `bpt_tree` | 8 keys, 3 records per leaf, 2 keys per internal page, 7 pages | `NeverUnderfull`, `BalancedTree`, `MapUntilPurged` | 518 thousand |
| `bpt_lost_key` | 3 keys, 3 records per leaf | the tree being a map is **violated** | - |
| `course_terms` | 2 students and an administrator, 4 classes, 3 grades, 5 mixes of 3 or 4 requests | `TimetableFree`, `RecordRight`, `SeatsRespected`, `CreditsCapped`, `KeptOnceDone` | 1.4 million |
| `lc2k_programs` | the repository's 12 test programs with machine code, every pair of 7 instructions, next to each other and up to four apart, 6 wrong programs | `AssembledAsShipped`, `SimulatorsAgree` | 35 thousand |

Why the bounds are enough:

* `log`: two reservations fill the log (`LOGSIZE = 4`), so a third operation waits while one commits, sleeps across a
  commit and across a crash; three blocks make an operation add to a group that already lists another block, and absorb one. `OpMax = 1` with two
  reserved blocks is the ratio that leaves room for the header block (section 6). Operations of several blocks and any sizes are what the
  proofs of section 5 cover.
* `bcache_store`: a buffer is free only if neither of two processes nor the pin has it; a fourth block makes
  recycling necessary, and two processes meet at one buffer in each state of `bread` and `brelse`. The log may pin all buffers but
  one, as in the code (30 buffers, 29 blocks in a full log), so the run reaches states where `bget` panics. One block is
  the one that is held while another is read (the log block of `write_log` and `install_trans`, the indirect block of `bmap` and
  `itrunc`); nested the other way round too, two processes could wait for each other, but the code always takes
  the log or indirect block first.
* `fs_tree`: one process makes and enters directories, the other creates, links and removes below them; the
  paths are `/a`, `/a/b` and `b`, so that the walk of one meets the removal of the other at each level. `MaxLinks`
  bounds what `link` leaks (see `LinksExact` below).
* `session_all`: the disk (56 blocks), the inode cache (8), descriptors (8), files (12), processes (8) and pages (60) are small enough that the tests which run into those
  limits in xv6 (`forktest`, `sbrktest`, the write to a full pipe) run into them here; files reach from the direct blocks into the indirect one. A pipe of two
  cells makes readers and writers sleep in turn. The scripts add, delete and log in users, change modes, and run pipelines, lists, redirections and background commands.
* `threads_life`: a process with two threads, or with a thread and a child, each on a CPU of its own, and
  three allocations, so that slots are taken again. One mix has `exec` on two CPUs by processes without threads. `exec` by threads is
  on one CPU because two CPUs break `OneCpu`, and everything after it, within a few steps
  (`threads_two_cpus`); its mixes run out of slots or of pids. The mixes with memory are on one CPU: each step on memory holds `ptable.lock`, and the timer already lets any
  other thread in between two steps. Three threads come and go in two stacks (`{"thread", "sbrk"}`), so addresses are used again in both orders while the heap grows between them. Threads that fork and start threads
  run with kills, device sleeps and failing allocations in four slots, where a thread's child outlives the thread and a failed fork's pid is killed; a last mix has `kill(0)` and
  main threads that call `thread_exit`. In every mix `kill` and `thread_join` take any pid and tid, their own process's or not, in use or not.
* `threads_live`: the last thread and the first child of a process are killed in every place where they can wait.
* `mlfq_two_cpus`: three slots are the least with two runnable processes besides the running one; a marked,
  an expired and a new process coexist; slots are reused. The ring has 80 places in the code, which take long to fill: here 4 on two CPUs and 6 on one, so that
  it comes round. Histories watch one slot at a time, each in a mix of its own.
* `bpt_tree`: eight keys, 0 among them, in every order give three levels, splits of leaves, of internal pages and of the
  root; two deletable keys give marked records at both ends of a leaf. The file's growth is bounded by `MaxPages`.
* `course_terms`: the four classes are two of one course, two in one slot, and two that exceed 18 credits together, so every
  check of a registration decides. Two overlapping requests are what a lost update takes, a third one the state it is applied to. Four requests
  are also what it takes to grade a registration, take the grade back and register another student (`register`, `grade`): section 6 says what comes of it.
* `lc2k_programs`: the pipeline's registers hold what the last four instructions left, so pairs at distances up to four with three noops before them
  meet every state of it that a hazard or a squash depends on. Registers 1 and 2 hold 1 and -3, so every load and store of the pairs is at an address of the
  program. The seven are `add`, `nor`, `lw`, two `sw` and two `beq`, one always and one sometimes taken; a `jalr` runs only in `testcase4`, which the simulator alone is compared on.

Deadlock is checked by every run except three groups. `bpt_*`: the file is full at `MaxPages`. `fs_tree`: the
code really can deadlock (section 6). `threads_*`: a thread whose `exec` finds no file leaves the
other threads asleep for ever, and a `thread_join` of a tid that nobody has sleeps until it is killed. In `session_all` no liveness is stated: every script and test ends and no state comes back, so the deadlock check
(the session ends only in `Finished`) is what shows that pipes and waits never leave everybody waiting.

Each module's `TypeOK`, where it has one, documents the state; for `Log` and `Mlfq` it is part of what is proved. No run repeats them.

## 4. Fairness

* `Log`: weak fairness of each step inside `log.c`, because no step of it waits for anything but the disk
  and, for `CommitDone`, a spin lock. Strong fairness of `EndOp`, because a file system call makes finitely
  many `log_write`s and then calls `end_op`, and the enabling condition comes and goes between them. Nothing
  obliges a process to begin a call.
* `Threads`: strong fairness of `Preempt` and `Schedule`, because the round robin of the default policy gives
  each runnable slot a CPU after each of the others and the timer takes it away; of `Kernel`, because code between two
  critical sections runs on whenever its slot has a CPU; weak fairness of the body of a wait loop (`LoopBody`), which runs with
  `ptable.lock` held; strong fairness of the forced exit of a killed slot in `trap()`. Nothing obliges a process that was
  not killed to call anything. These assumptions do not hold under MLFQ (see `BoostReaches`). That the default policy does give every slot its turn
  is `TurnsKept`: no runnable process is lapped more than once.
* `Mlfq` states `FairSpec` only for the liveness claim that fails.

## 5. What is proved

Eight modules hold proofs. Each theorem is about all values of the constants that satisfy the assumptions of its module (`...Assumption`), and about
every mix of programs unless a hypothesis below says otherwise. A hypothesis is there when the statement is false without it; section 6 gives the behaviour.

| Module | Theorem | States | Supposing |
|---|---|---|---|
| `Log_proofs` | `TypeCorrect`, `CommitRunsAlone` | `TypeOK`, `CommitAlone` | - |
| | `NeverPanics`, `LogStaysInBounds` | `NoPanic`, `LogFits` | `Roomy` |
| | `NobodyForgotten`, `ReturnedIsDurable` | `WakeupOwed`, `QuiescentDurable` | - |
| | `HomeFollowsLog`, `OperationsAtomic` | `WriteAhead`, `Atomic`, the refinement of `AtomicDisk` | - |
| `Bcache_proofs` | `TypeHolds`, `NoLostWakeupHolds`, `BlockStaysHolds` | `TypeOK`, `NoLostWakeup`, `BlockStays` | - |
| | `StoreHolds` | `StoreSpec`, the refinement of `BlockStore` | - |
| | `PanicsOnlyWhenFullHolds` | `PanicsOnlyWhenFull` | - |
| `Fs_proofs` | `RefsCountedHolds` | `RefsCounted` | - |
| | `TypeHolds`, `LinksHoldHolds`, `NoDanglingHolds`, `FreedUnusedHolds` | `TypeOK`, `LinksHold`, `NoDangling`, `FreedUnused` | `DotFree` |
| `Threads_proofs` | `OneCpuHolds`, `MasterAliveHolds` | `OneCpu`, `MasterAlive` | `Orderly` |
| | `ZombieStaysHolds`, `NotForgottenHolds` | `ZombieStays`, `NotForgotten` | `Orderly` (in the properties) |
| | `FamilyAliveHolds` | `FamilyAlive` | `Orderly`, and `Plain` for the parents (in the property) |
| | `NotBornKilledHolds` | `NotBornKilled` | `Orderly`, no `kill(0)`, but for failed forks (in the property) |
| | `PageTableAliveHolds`, `MemoryKeptHolds` | `PageTableAlive`, `MemoryKept` | `Orderly`, `Frugal` (in the properties) |
| `Sys_proofs` | `PagesCountedHolds`, `FilesCountedHolds` | `PagesCounted`, `FilesCounted` | - |
| | `SleepersOwedHolds` | `SleepersOwed` | no write longer than the pipe |
| `Mlfq_proofs` | `QuantaRespected`, `SomeCpuFreeHolds`, `PicksBestHolds` | `QuantumBound`, `SomeCpuFree`, `PicksBest` | - |
| | `TurnsKeptHolds` | `TurnsKept` of `Multilevel` | - |
| `CourseReg_proofs` | `KeptOnceDoneHolds` | `KeptOnceDone` | - |
| | `TimetableFreeHolds` | `TimetableFree` | `OneConnection`; but for grades taken back (in the property) |
| | `SeatsRespectedHolds`, `CreditsCappedHolds` | `SeatsRespected`, `CreditsCapped` | but for grades taken back (in the properties) |
| | `RecordRightHolds` | `RecordRight` | - |
| `Bpt_proofs` | `NeverUnderfullHolds`, `BalancedTreeHolds` | `NeverUnderfull`, `BalancedTree` | - |
| | `MapUntilPurgedHolds` | `MapUntilPurged`, the refinement of `KeyMap` up to the first purge | - |

No invariant below is inductive as it stands; each paragraph says what has to be known with it.

**Log.** `IInv == TypeOK /\ Control /\ LoopIndex /\ Space`. `Control` ties `CommitAlone` to the counters (`outstanding` is the number of
processes in an operation, `committing` holds exactly when somebody commits, and then nobody is in an
operation). `LoopIndex` keeps the loops of `write_log` and `install_trans` within the header. `Space` is the
reservation argument: `begin_op` admits an operation if the header's length plus the reservations of everybody active
fit; from then on each active operation has entries reserved that it has not used. The length test of
`log_write` is made without the lock, so several processes can pass it and append later; the proof counts,
for every process in an operation, the pairs (process, entry still reserved) in the finite set `Reserved`. Each
append takes at least one pair away and adds at most one entry, so that length plus cardinality never grows
until the next admission. `Roomy` says that an operation
writes at least two blocks less than `MAXOPBLOCKS`: `mkfs.c:25` gives the log `LOGSIZE` blocks, header
included, which is one entry less than `begin_op` counts with, and the test of `log_write` also rejects a block that is
listed already. The bound is sufficient, not necessary:
the run `log` gets by with one block less, because an operation is never admitted alone to a log that is not empty.

For what the log is for, `Inv == IInv /\ Headers /\ Copies`. A block has up to four copies (cache, log block, home block, and
the header decides which of the last two a reboot would use); `Headers` says when the header on the disk is the one in
memory and when it is empty, and that it lists no block twice; `Copies` says which copies agree at each point
of `commit` and of recovery, and that a block whose cache and home differ is in the header or about to enter it.
In the refinement `BeginAdmit` is `Begin`, `Modify` is
`Write`, `EndOp` is `End`, `WriteHead` is `Sync`, `Crash` is `Crash`, and every other step of the log changes
nothing that `AtomicDisk` knows of. `NobodyForgotten` uses that a reservation fits an empty log (`MAXOPBLOCKS <= LOGSIZE`).

**Buffer cache.** `IInv` relates four views of the same buffers: the reference counts (`Counted`: `refcnt` is the number of hands between
`bget` and `brelse`), the sleep locks (`Owners`: a lock belongs to exactly the hand that is past it), what is valid and dirty (`Reads`: a clean valid buffer is
what the disk has) and the disk queue (`Queue`: the requests are those of the processes asleep in `iderw`, one each). `BlockStays` needs the counts,
`NoLostWakeup` the queue, and the refinement of `BlockStore` all of them. In the mapping a
block's holder is the process whose hand is past the lock (`HandAt`); no process has more than two. `PanicsOnlyWhenFull` follows from
`Counted`. No theorem says that `bget` never panics, because the code does not guarantee it (section 6).

**Inodes.** `RefsCounted` counts pointers in five places (`cwd`, open file, `at`, `ip`, `puts`), so its invariant `RInv` adds which of them are set at which
program point (`Shape`) and that `open` starts without an open file (`OneFile`). Each step moves a pointer from one place to
another, drops one, or makes one; `CountMove` says what that does to a count.
The rest is one invariant, `IInv`, because the parts hold each other up: `Locks` (who holds which inode lock), `Tree` (entries are in
directories and name allocated inodes, `.` names itself), `Kept` (what a process refers to is allocated),
`Freeing` (between the test of `iput` and what follows it nobody finds the inode) and `Covered` (links in
directories, and those owed to calls that are half done, are at most `nlink`). The core is that `iput` frees only
with `ref = 1` and `nlink = 0`: the first says that no process has it (`RefsCounted`), the second that no directory does (`Covered`). `DotFree` says that no path
has `..`, which may outlive the directory it names.

**Threads.** `Core` is the family tree as `proc.c` relies on it: who is on a CPU is RUNNING (`OnCpu`), the slot between `allocproc` and the end of
`fork` or `thread_create` is an EMBRYO that belongs to one creator (`Embryos`), a thread has a living master that is not past the
point in `exit` where it waited for its threads (`Masters`), two slots have one pid only inside a family (`Pids`), and `init` lives. `OneCpu` needs
`Embryos`, since a `fork` that loses its slot would make a running process RUNNABLE. To `NotForgotten` belongs, for each place where a process sleeps,
what will wake it (`Awaits`), and each step that could take that away is shown to wake it. `NotBornKilled` is about what a free slot still
holds (`Fresh`). `Orderly` excludes `exec` by a process with other threads, whose `thread_kill` writes states over those of running threads, and `thread_exit` by a main thread. `Plain` excludes
threads that fork. `kill` finds any slot, zombies and free ones included, and may mark `init`, whose `exit` panics: `init` is then on a CPU for ever and nothing more is asked of it.

**User memory.** `Tables` says that each process owns a page table and each thread has its master's; a table is alive exactly when a process owns it. That a
new process finds a free one is the pigeonhole principle (`FreshTable`). `Memory` describes the memory of a family: the stacks of its threads are mapped and apart
(`Stacks`), those on the list of addresses to use again are unmapped, apart and not listed twice (`Spare`), and all lie below the size. A process in `exit` keeps `Stacks` and gives up
`Spare`, since `exit` lists addresses without unmapping them (`proc.c:436`); nothing in the family maps a page after that, because only the process itself creates threads (`Frugal`).

**System calls.** The theorems of `Sys` are about `SysSpec(Lens)`: a process that runs makes any call with any arguments, in any order, may fault at any
moment, and need not go on with a write that has begun; only the lengths of what it writes come from `Lens`. The programs of `Session` are some of these, since each of its
actions that enters the kernel takes an action of `Sys` with the arguments of one program. What the file system answers (which inode a path
names, how much a read finds, whether a program can be executed) is left open in the proofs, so they do not depend on `FileSys`. `Books` relates the five tables. `Refs` is `FilesCounted`. `Ends` says
that a pipe's `readopen` and `writeopen` are set just when an open file stands for that end, and then only one: it makes the last `fileclose` of an end right to clear
the flag, and it is why `pipe` finds a free pipe when it finds two free open files (`PipeThere`, an injection of pipes into open files in use). `Paged` is `PagesCounted`: a slot with a kernel stack (`kstack`) owns that, its page directory and tables, and the user pages that are `Mapped`. `exit` closes
its descriptors one by one and clears them all at the end, so within its loop the books are kept without those that are closed (`Left`), round by round (`DroppedKeeps`). For `SleepersOwed`
there is `Owed`: every step that fills or empties a pipe or closes an end wakes those whose reason to sleep it takes away (`Rightly`). A pipe has 512 bytes, `cat` writes at most 512 at a time
(`cat.c:5`) and `printf` one; a line that `grep` prints may have 1023 (`grep.c:7`), and `pipe1` of `usertests` writes 1033. Section 6 says what can happen then. The run covers
that test, where nobody kills the writer. `SysAssumption` says that the tables are not empty and that there is memory for the first process, without which `userinit` panics.

**MLFQ.** For `QuantumBound`: a step either gives a slot level 0 and no ticks (boost,
`yield`, `sleep`, a newborn), or moves it to the next level with no ticks, or marks it, or counts a tick that stays
below the quantum, and touches nobody else's level. `PicksBest` is about the loop over the table, which the model has as a recursive function on slot numbers:
the proof takes the least number at which the loop would go wrong (`Nat` is well-founded) and shows that it does not.
`SomeCpuFree` needs the types of the table: a CPU that lets its process go is not left waiting, and while no CPU runs anything nothing stops being runnable.

**Multilevel queue.** The invariant is `TurnInv`. Under `DEFAULT` and `MULTILEVEL_SCHED` it has three parts. `Runners` ties the place of a pass to what its CPU runs. `Laps` bounds,
for each place a pass can be at, how often its CPU can have run `q` while the watched process stood runnable: a pass that is before the watched slot cannot
get past it, so `q` is run at most once by what is left of the pass under way and once by the next up to that slot. An even process can become runnable
during a pass that found none at its start; such a pass goes by it, but it stops at pid 1 and pid 2 only (`Evens`) and runs the first of the ring
only when it is over, which is why two turns are the bound and not more. `Waits` is about the ring on one CPU: while `rear` has not come round, the process of
the ring that was interrupted is at `front`, and is runnable when the pass ends, unless it has slept or exited. A pass pushes at most one
entry per slot (`CollectedGrown`, by induction over the loop), so with a ring longer than the table (`MultilevelAssumption`; the code has 80 places and 64 slots) `rear` moves by less than one
round, and that it has come round shows as `rear` going down. On two CPUs `TurnsKept` says nothing about the ring.

**Course registration.** A transaction writes what it made of its snapshot over the tables as they are now. `IInv` says how far the two may be apart (`Since`): a row that is in
both is of the same student and class, a class that is in both is of the same kind, and a row that is gone does not come back, because
the id of a new row is that of the request that inserts it and ids are not reused (`Assigned`). `TimetableFree` then needs that the snapshot of a registration has all of the student's rows
(`Seen`), which holds when a student has one connection (`OneConnection`); whatever others commit meanwhile cannot add any. For `SeatsRespected` the cached number of students is never below the true one (`Covered`), through
cancellations, edits and the four transactions in which a grade is posted. An administrator may post 99, the value of "no grade yet": that sets a finished class running again, which
nothing has checked, so these three properties leave out the registrations whose grade was taken back (`reopened`), and the invariants bound the others (`Runs`, `Held`, `Carried`).

`CreditsCapped` and `RecordRight` are about sums over rows, taken with `SumFunctionOnSet` of the community modules. The library has no facts about it, and its definition chooses
the next element: `SumFromIs` shows that the function it folds with exists (by induction over the size of the set), `SumSame` that a sum depends on nothing but the values added,
`SumTaken` that any of them may be taken out first, `SumFewer` that fewer rows add up to no more. Induction is `SubsetInduction`, by a least counterexample. The invariant
is `Recorded`, for as long as transactions have not overlapped: every row is of a student and class that exist (`Ledger`); the stored `thisYearGrade` is at least the credits
of the running registrations that were let in as such (`Enough`, what the check of a registration needs); what each connection has read names rows that exist (`Known`); and what
is stored with a student is right unless somebody is in the middle of posting that student a grade (`Posting`), which ends with `UserService.update`. `RecordRight` excludes mixes
in which classes are closed, because closing removes graded rows and updates nobody. `CourseRegAssumption` says that every class that can be opened has a kind, that credits are not negative, and that
a connection belongs to a student or the administrator.

**B+ tree.** The pages are of any size from 2 (the code has `LEAF_MAX` 3 and `INTERNAL_MAX` 24, `bpt.h:15`), keys are natural numbers: `BptAssumption`. `BptInv` says that there is a height for each page (`Tree`: the children of
a page are one level below it, are nobody else's and name it as their parent, and every page but the root has one) and that each leaf but the root has half of its slots or more in use (`Filled`). Until something was purged there is also
a set of keys for each page (`Order`: the keys of an internal page divide its set among its children, and the root's set is all keys), and the records of a leaf are in order and in
its set, and of the records of one key only the first can be live (`Records`). A split leaves the tree with one page that no page names, and hands it to `insert_into_parent`; so `Tree` and `Order` are stated with that page `new` and its
left neighbour `old`, and `new = 0` means there is none. `Link`, one round of `insert_into_parent`, either links it, in a parent that has room or in a new root, or splits the parent, and then the unlinked page is one level
higher: after as many rounds as there are levels nothing is unlinked. That the tree has at most `Levels` levels (half as many as pages) is part of `Tree`, and is why `Levels` rounds
do for `find_leaf` too. These are inductions on the number of the round (`NatsIn`, by a least counterexample). `NeverUnderfull` needs no `Order`: it holds after purges too, when keys get lost
(section 6), because `TooSmall` stops the purge as well. For `MapUntilPurged` the value `db_find` shows is the live record of the key (`Agrees`), and each call
adds one live record or takes one away (`Added`, `Dropped`).

### Only model-checked

* Liveness (`SleepersWake`, `KilledDies`): fairness and ENABLED are beyond the prover.
* `TestsPass`: the programs and the shell's `runcmd` are recursive operators, which the prover does not support, and what a recursive operator computes for every input would
  need induction over data in any case.
* `ReferencesCounted` and `BlocksOwned`: the first counts descriptors, which is `FilesCounted`, and references to inodes, which is false after `deleteUser` but for `userS`. Both
  need an invariant of the file system under every call of `FileSys`, on top of what is proved.
* `Lc2k` (`AssembledAsShipped`, `SimulatorsAgree`): bitwise operators, which no prover knows.

## 6. Where code and documentation disagree

Two runs end in a violation on purpose; each is one finding of `PROJECT.json`.

* `threads_two_cpus`: `exec` puts a thread that is running on the other CPU to SLEEPING and then to RUNNABLE,
  and a second CPU runs it on the same kernel stack.
* `bpt_lost_key`: insert 1, delete 1, insert 1, 2 and 3. The purge of the full leaf removes the live record of key 1.

Other disagreements met on the way. The definitions named here are in the modules, in sections
headed "Stated of the code, and false of it", or are properties that fail under the constants named; no run checks them.

**Log.** With `OpMax = MAXOPBLOCKS` and `NLOG = LOGSIZE` the `log_write` panic is reachable: `begin_op` admits an operation
although the log has one entry less than `LOGSIZE` (`param.h:10-11`, `mkfs.c:25`).

**Buffer cache.** The panic of `bget` (`bio.c:92`) can be reached: there are as many buffers as log entries (30, `param.h:11-12`) and 64
processes, a full log pins 29 blocks, and the commit itself wants two buffers at a time. The run stands in states with `BgetPanics`; what
it and the theorem show is that no buffer is lost on the way (`PanicsOnlyWhenFull`).

**Inodes.** `NoOrphan` fails: two processes that put the last two references of an unlinked inode at once both read `ref = 2`
and neither frees it (`fs.c:356`, against the comment at `fs.c:116`).
`NoDeadlock` fails: `create` and `unlink` hold one inode and lock a directory again in `iput`
(`sysfile.c:234`, `sysfile.c:310`), and `link` to `.` waits for itself. `LinksExact` fails: files left in a removed directory keep
their links. `NoDangling` fails once paths contain `..`: `mkdir a; mkdir a/b; chdir a/b; unlink /a/b; unlink /a; chdir ..`
walks to an inode that was freed.

**Users and files.** `get_modeBit` tests `own_mode&(ip->permission)==0` (`fs.c:902`), which is `own_mode & (... == 0)`: the owner's bits are never looked at and the
owner passes every check. `logout` sets the current user to entry 0, which is root, so whoever calls the kernel before the next login is root. `O_CREATE` on an existing file rewrites its owner and mode. A user whose name begins with `x` looks like an empty
entry of the table. `sys_addUser` adds the user and makes the home directory in two transactions, so a crash in between leaves a user without a home.
`sys_myopen` drives `nlink` of a temporary inode below zero and puts a new `userS` twice; `deleteUser` keeps a reference to `userS`, which is why `ReferencesCounted` excludes it.
`kill(0)` marks an unused slot, whose next owner is born killed; so does the `kill` of the pid that a failed `fork` leaves in its slot (`proc.c:90`).
`sbrk(-sz)` frees every page of the process, returns -1 and leaves `sz` as it was, because `growproc` takes the new size 0 for a failure (`proc.c:168-171`). `PagesCounted` counts
these pages as free (`low` of `Sys` says which pages below `sz` are missing); the process faults as soon as it runs, and a `fork` before that panics in `copyuvm`. `sbrk` of less than
`-sz` wraps around, frees nothing and succeeds.

**Pipes.** `SleepersOwed` fails when a write is longer than the pipe and the writer is killed. It sleeps with the pipe full; a reader takes everything, wakes it and sleeps again on the
empty pipe; the writer is killed, fills the pipe once more, finds that it is killed and returns -1 at `pipe.c:86-89` without `wakeup(&p->nread)`. The reader sleeps on although there is
data, until somebody else writes or the last write end is closed.

**Processes and threads.** `TidUnique` fails, since `nexttid++` is not locked (`proc.c:1143`). `NoZombieExit` fails when threads call
`exec` at once. Where threads call `exec`, `PageTableAlive` fails (`exec.c:119` frees the table other threads run on), and so do `NotForgotten` and `ZombieStays`, whose states
`thread_kill` overwrites. Where a main thread calls `thread_exit` (`proc.c:1212` does not ask who calls), it becomes a zombie whose threads go on: `MasterAlive` fails. The
`wakeup1` is for whoever sleeps on its null `master`, so a parent asleep in `wait` is forgotten (`NotForgotten`), its children keep a dead parent (`ParentAlive`), and a `wait` that does find it
frees the page table its threads run on (`PageTableAlive`). `ParentAlive` fails also once threads
fork (`threadfork`), because `thread_exit` does not pass children on as `exit` does (`proc.c:486`). `KilledDies` fails
for a thread in a device sleep (`io`) and for an `exec` that finds no file (`exec.c:39`). A free slot is killed in two ways, and its next owner is killed before it has run:
a failed fork leaves its pid in the slot, where `kill` finds it (`NotBornKilled` says that no other slot is killed), and `kill(0)` finds the first slot that was never used or has been freed. `kill(1)` makes
`init` exit, which panics; that CPU stands still. `thread_join` finds a zombie thread of any process and frees it, and of an unknown tid waits until it is killed.

**User memory.** `sys_sbrk` calls `growproc(n)` twice (`sysproc.c:73-77`), so the heap grows by 2n; if only the second call fails, -1 is
returned and the first growth stays. `sbrktest` of the same tree's `usertests.c`, which insists that two calls of `sbrk(1)` are one byte apart, cannot pass. `MemoryKept` is about
the programs of `Frugal`, and each of its conditions is needed:

* a thread that creates threads (`nested`, five slots): `exit` hands the address of a dead thread's stack back without unmapping it (`proc.c:436`), then waits for the
  other threads; one of them, inside `thread_create`, takes the address and `mappages` panics with "remap";
* `exec` after a join: `exec` forgets the memory and keeps the list of addresses, so a later `thread_create` takes an address inside the new image and panics;
* `sbrk` with a negative argument (`shrink`) unmaps the stacks of living threads, which lie above the heap;
* `fork` by a thread: the child gets a copy of all of the memory and the size of the thread's stack end, so that its next `sbrk` maps pages that are there when another stack or the heap lies above;
* a failed `allocuvm` (`oom`): `thread_create` does not look at the result, and starts a thread without a stack.

**MLFQ.** `BoostReaches` fails: the boost resets only the process that runs at that tick (`trap.c:126-139`), while the README
says that it lifts every queue ("모든 큐들을 최하위(L0)큐에 올려주는 작업"), so of two processes that compute one starves. `OutWaits`
fails: a marked process is chosen although the README says it is left out. `PrevRunnable` holds on one CPU and fails on
two. `NewbornPriority` fails: the `setpriority(pid, 0)` of `allocproc` has no effect, since the parent is not set yet.

**Multilevel queue.** `CpuProc` fails: `c->proc` is not reset after a process of the ring has run (`proc.c:758`), so that on two CPUs the timer between two passes yields
for a process that another CPU runs. `TurnsKept` holds with a bound of two laps, not one: `even_exist` may be older than the process that waits. The README says
that the queue has no duplicates and that odd processes are served first come, first served (`file system/README.md:45`, `:116`): both fail once the ring has come round, since
`in_qu` finds nothing when `front > rear`, and the ring overflows.

**B+ tree.** A table that is opened again before its first `db_insert` has no root page, and `open_table` takes the header for one (`bpt.c:51`): `rt` is not NULL, and the
next `db_find` or `db_insert` follows the number of pages, 1, as an offset, reads beyond the end of the file and dereferences NULL. `Reopen` leads there, and no call follows it.
`db_delete` before the first insert dereferences NULL too (`bpt.c:512`). After a purge (`bpt_lost_key`) the unused slot that a split counts in answers for key 0: `db_find(0)` returns
an empty string, and key 0 cannot be inserted.

**Course registration.** `SeatsCounted` fails without any overlap: a cancellation counts the students of the class before it deletes the registration
(`TakeClassService.java:97`, `:102`), against the comment at `Classes.java:120`. A grade of 99 posted over another makes the registration a running one, and `UserController.java:275` skips the count for
just that grade. So a class of one seat is oversold without any overlap: A registers, is graded 8, is graded 99, nobody counts, and B finds the seat free. The same posting sets a finished
class running beside one that A has taken in its slot since, or on top of a full load of credits. `Running` leaves such registrations out; without that `SeatsRespected`, `CreditsCapped` and `TimetableFree` fail.
A student with two connections gets two classes of one slot by registering on both at once: each transaction checks a snapshot without the other's row, and inserts of different rows do
not conflict (`OneConnection`). With overlapping
transactions (`isolated` false) `SeatsRespected`, `CreditsCapped`, `RecordRight` and `KeptOnceDone` fail: no entity has a version, and every column of a row is written.

**LC-2K.** The `sw` of project 1's `simulator.c:103` writes a register, not the memory, so `SimulatorsAgree` is about programs that do not store. The assembler puts
`pc + 1` where the second register of `jalr` belongs (`assemble.c:256`), assembles an unknown label of `.fill` as -1 (`:277`), and lets a negative offset of `lw` and `sw` spill into the register fields
(it clears the upper bits for `beq` only, `:233`).
The pipeline needs three instructions between a write and a read, as the test programs' comments say.

## 7. What is not modelled, and the plan

Left out for good: device drivers other than the disk's, the parser of the shell, `printf` and `malloc` (no state that matters to the others); the joins (sequential, nearly all reading
and writing of csv lines); the MUPL interpreter and the SML and Racket exercises (functions over unbounded data and closures); the graphics projects (floating-point geometry);
SQL queries, analyzer samples and design pattern exercises (no state of their own); slides.

Not covered by a property, and listed among the hazards with a note: disk errors in `ideintr`, a crash inside
`sys_addUser`, the deadlock of two `unlink`s, and what section 6 states and the code breaks. A crash between the page writes of a B+ tree split is outside the model, in which
a `db_` call is one step: the tree has no log, and promises nothing of it.

Theorems worth proving next: `BlocksOwned` and the inodes of `ReferencesCounted` under `SysSpec`, for which each operator of `FileSys` would get a lemma of the form that `FilecloseKeeps`
has; and that each step of `Session` is a step of `SysNext`, for which its programs would have to be a constant of the module.

## 8. Running it

    tlc -workers 2 -config MCLog.cfg MCLog
    tlapm Log_proofs.tla
    tlapm Bcache_proofs.tla
    tlapm Fs_proofs.tla
    tlapm Threads_proofs.tla
    tlapm Sys_proofs.tla
    tlapm Mlfq_proofs.tla
    tlapm CourseReg_proofs.tla
    tlapm Bpt_proofs.tla

Each run of `PROJECT.json` names its module and configuration. The longest takes under three minutes.
