-------------------------------- MODULE Sys --------------------------------
(***************************************************************************)
(* The system calls of the xv6 tree "file system" (sysfile.c, sysproc.c,   *)
(* proc.c, exec.c, file.c, pipe.c): processes, open files, pipes, pages of *)
(* memory, over the file system of FileSys.                                *)
(*                                                                         *)
(* One action is one system call of process p, except where the call gives *)
(* other processes a turn: a write goes on for as long as the pipe fills   *)
(* up or the file takes more than one transaction, exit first drops what   *)
(* the process holds and then turns it into a zombie, and a call on a pipe *)
(* that has to wait goes to sleep on a channel until somebody wakes it.    *)
(* The sleep of wait is left to Threads: here a parent stands at its wait  *)
(* until it can return.  Finer interleavings of the same code are modelled *)
(* by Fs (inode locks), Bcache and Log.                                    *)
(***************************************************************************)
EXTENDS FileSys

CONSTANTS NPROC, NOFILE, NFILE,
          PIPESIZE,   \* cells a pipe holds
          MaxChunk,   \* cells filewrite writes in one transaction
          NPAGE,      \* pages of physical memory
          PGSIZE,     \* bytes of a page
          KVM         \* pages of a page directory and its tables

ASSUME SysAssumption ==
    /\ {NPROC, NOFILE, NFILE, PIPESIZE, MaxChunk, PGSIZE} \subseteq Nat \ {0}
    /\ KVM \in Nat /\ NPAGE \in Nat /\ NPAGE >= KVM + 2

VARIABLES fs,      \* the file system
          proc,    \* ptable: slot -> process
          ftable,  \* ftable: slot -> open file
          pipes,   \* the pipes: number -> pipe
          kmem,    \* pages on kalloc's free list
          nextpid,
          ret      \* slot -> what the last system call gave back: eax and the bytes read

sysvars == <<fs, proc, ftable, pipes, kmem, nextpid, ret>>

Slot == 1..NPROC
initproc == 1
Fd   == 0..(NOFILE - 1)
File == 1..NFILE
Pipe == 1..NFILE

\* kstack: 1 for a kernel stack.  mem: sz, and the user pages below it that are unmapped.
NoProc == [st |-> "UNUSED", pid |-> 0, parent |-> 0, killed |-> FALSE, kstack |-> 0,
           mem |-> [sz |-> 0, low |-> 0],
           chan |-> <<"", 0>>, ofile |-> [d \in Fd |-> 0], cwd |-> 0, rest |-> <<>>]
NoFile == [type |-> "none", ref |-> 0, r |-> FALSE, w |-> FALSE, ip |-> 0, off |-> 0, pipe |-> 0]
NoPipe == [data |-> <<>>, ro |-> FALSE, wo |-> FALSE]

Pages(sz) == (sz + PGSIZE - 1) \div PGSIZE
Mapped(m) == Pages(m.sz) - m.low

\* The pages of process q: kernel stack, page tables, user pages.
Footprint(q) == 1 + KVM + Mapped(q.mem)

\* What a call returns: r in eax and, for read, the cells s.
Return(p, r, s) == ret' = [ret EXCEPT ![p] = [r |-> r, s |-> s]]

\* sleep: on channel <<"nread", pipe>> or <<"nwrite", pipe>>.  A process that was woken
\* keeps its channel until its call has looked again.
Asleep(q, ch) == [q EXCEPT !.st = "SLEEPING", !.chan = ch]
Awake(q) == [q EXCEPT !.chan = NoProc.chan]

\* wakeup: the table pr with everybody up who sleeps on ch.
Woken(pr, ch) ==
    [x \in Slot |-> IF pr[x].st = "SLEEPING" /\ pr[x].chan = ch
                    THEN [pr[x] EXCEPT !.st = "RUNNABLE"] ELSE pr[x]]

-----------------------------------------------------------------------------
(* Open files and pipes.  k = [fs, ft, pp, km, pr] is what closing a file  *)
(* may change.                                                             *)

Objects == [fs |-> fs, ft |-> ftable, pp |-> pipes, km |-> kmem, pr |-> proc]
SetObjects(k) == fs' = k.fs /\ ftable' = k.ft /\ pipes' = k.pp /\ kmem' = k.km

\* The ends of pipe pi after one of them is closed, and the waking of the other one.
EndClosed(k, pi, writable) ==
    [k EXCEPT !.pp[pi] = IF writable THEN [@ EXCEPT !.wo = FALSE] ELSE [@ EXCEPT !.ro = FALSE],
              !.pr = Woken(@, <<IF writable THEN "nread" ELSE "nwrite", pi>>)]
Freed(k, pi) == IF k.pp[pi].ro \/ k.pp[pi].wo THEN k
                ELSE [k EXCEPT !.pp[pi] = NoPipe, !.km = @ + 1]

\* mutants: the last close of a pipe does not free its page; a close wakes its own side.
MutPipecloseKeeps(k, pi, writable) == EndClosed(k, pi, writable)
MutPipecloseWakesOwn(k, pi, writable) ==
    Freed([EndClosed(k, pi, writable) EXCEPT
              !.pr = Woken(k.pr, <<IF writable THEN "nwrite" ELSE "nread", pi>>)], pi)

pipeclose(k, pi, writable) == Freed(EndClosed(k, pi, writable), pi)

fileclose(k, i) ==
    LET ff == k.ft[i]
        h  == [k EXCEPT !.ft[i] = NoFile]
    IN IF ff.ref > 1 THEN [k EXCEPT !.ft[i].ref = @ - 1]
       ELSE CASE ff.type = "pipe"  -> pipeclose(h, ff.pipe, ff.w)
              [] ff.type = "inode" -> [h EXCEPT !.fs = iput(@, ff.ip)]
              [] OTHER             -> h

FreeFiles == {i \in File : ftable[i].ref = 0}
FreeFds(p) == {d \in Fd : proc[p].ofile[d] = 0}

\* argfd: the open file behind a descriptor, 0 when there is none.
argfd(p, d) == IF d \in Fd THEN proc[p].ofile[d] ELSE 0

-----------------------------------------------------------------------------
(* File system calls.                                                      *)

\* acc is O_RDONLY, O_WRONLY or O_RDWR; O_CREATE hides it from the permission check.
Denied(f, i, acc) ==
    \/ f.ino[i].type = "dir" /\ acc # "R"
    \/ acc \in {"W", "RW"} /\ ~get_modeBit(f, i, "WOTH")
    \/ acc \in {"R", "RW"} /\ ~get_modeBit(f, i, "ROTH")
Owned(c) == IF c.ip = 0 THEN c
            ELSE [c EXCEPT !.f.ino[c.ip].owner = get_now(c.f),
                           !.f.ino[c.ip].perm = {"RUSR", "WUSR", "ROTH"}]
OpenFails(p, f) == fs' = f /\ Return(p, -1, <<>>) /\ UNCHANGED <<proc, ftable>>
Opens(p, o, acc, i, d) ==
    /\ fs' = o.f
    /\ ftable' = [ftable EXCEPT ![i] = [type |-> "inode", ref |-> 1, r |-> acc # "W", w |-> acc # "R",
                                        ip |-> o.ip, off |-> 0, pipe |-> 0]]
    /\ proc' = [proc EXCEPT ![p].ofile[d] = i]
    /\ Return(p, d, <<>>)
Opened(p, o, creat, acc) ==
    IF o.ip = 0 THEN OpenFails(p, o.f)
    ELSE IF (~creat /\ Denied(o.f, o.ip, acc)) \/ FreeFiles = {} \/ FreeFds(p) = {}
    THEN OpenFails(p, iput(o.f, o.ip))
    ELSE Opens(p, o, acc, Min(FreeFiles), Min(FreeFds(p)))
sys_open(p, path, creat, acc) ==
    /\ Opened(p, IF creat THEN Owned(create(fs, proc[p].cwd, path, "file"))
                 ELSE namei(fs, proc[p].cwd, path), creat, acc)
    /\ UNCHANGED <<pipes, kmem, nextpid>>

sys_close(p, d) ==
    /\ IF argfd(p, d) = 0
       THEN Return(p, -1, <<>>) /\ UNCHANGED <<fs, proc, ftable, pipes, kmem>>
       ELSE /\ SetObjects(fileclose(Objects, argfd(p, d)))
            /\ proc' = [fileclose(Objects, argfd(p, d)).pr EXCEPT ![p].ofile[d] = 0]
            /\ Return(p, 0, <<>>)
    /\ UNCHANGED nextpid

sys_dup(p, d) ==
    /\ IF argfd(p, d) = 0 \/ FreeFds(p) = {}
       THEN Return(p, -1, <<>>) /\ UNCHANGED <<proc, ftable>>
       ELSE /\ ftable' = [ftable EXCEPT ![argfd(p, d)].ref = @ + 1]
            /\ proc' = [proc EXCEPT ![p].ofile[Min(FreeFds(p))] = argfd(p, d)]
            /\ Return(p, Min(FreeFds(p)), <<>>)
    /\ UNCHANGED <<fs, pipes, kmem, nextpid>>

\* piperead, while there is nothing to read and a writer may still come.
pipe_sleep(p, d) ==
    LET f == ftable[argfd(p, d)]
    IN /\ argfd(p, d) # 0 /\ f.type = "pipe" /\ f.r
       /\ pipes[f.pipe].data = <<>> /\ pipes[f.pipe].wo /\ ~proc[p].killed
       /\ proc' = [proc EXCEPT ![p] = Asleep(@, <<"nread", f.pipe>>)]
       /\ UNCHANGED <<fs, ftable, pipes, kmem, nextpid, ret>>

\* piperead: the cells there are, or -1 for a process killed in its sleep.
piperead(p, pi, n) ==
    LET data == pipes[pi].data
        m    == Min({n, Len(data)})
    IN /\ data # <<>> \/ ~pipes[pi].wo \/ proc[p].killed
       /\ IF data = <<>> /\ pipes[pi].wo
          THEN Return(p, -1, <<>>) /\ proc' = [proc EXCEPT ![p] = Awake(@)] /\ UNCHANGED pipes
          ELSE /\ pipes' = [pipes EXCEPT ![pi].data = SubSeq(@, m + 1, Len(@))]
               /\ proc' = Woken([proc EXCEPT ![p] = Awake(@)], <<"nwrite", pi>>)
               /\ Return(p, m, SubSeq(data, 1, m))
       /\ UNCHANGED ftable

fileread(p, i, in) ==
    /\ ftable' = [ftable EXCEPT ![i].off = @ + Max({in.r, 0})]
    /\ Return(p, in.r, in.s)
    /\ UNCHANGED <<proc, pipes>>

\* argptr refuses a negative size.
sys_read(p, d, n) ==
    LET i == argfd(p, d)
    IN /\ IF i = 0 \/ n < 0 \/ ~ftable[i].r
          THEN Return(p, -1, <<>>) /\ UNCHANGED <<proc, ftable, pipes>>
          ELSE IF ftable[i].type = "pipe" THEN piperead(p, ftable[i].pipe, n)
          ELSE fileread(p, i, readi(fs, ftable[i].ip, ftable[i].off, n))
       /\ UNCHANGED <<fs, kmem, nextpid>>

\* A write of the cells s: rest is what is left of one that has begun.
Todo(p, s) == IF proc[p].rest = <<>> THEN s ELSE proc[p].rest

\* pipewrite: m cells of todo fit.  When that is not all, a writer that nobody will read
\* or that was killed gives up, and any other one wakes the readers and sleeps.
pipewrite(p, pi, todo, m, n) ==
    LET left   == SubSeq(todo, m + 1, Len(todo))
        giveUp == left # <<>> /\ (~pipes[pi].ro \/ proc[p].killed)
        over   == [proc EXCEPT ![p] = [Awake(@) EXCEPT !.rest = <<>>]]
        sleeps == [proc EXCEPT ![p] = [Asleep(@, <<"nwrite", pi>>) EXCEPT !.rest = left]]
    IN /\ pipes' = [pipes EXCEPT ![pi].data = @ \o SubSeq(todo, 1, m)]
       /\ IF left # <<>> /\ ~giveUp
          THEN proc' = Woken(sleeps, <<"nread", pi>>) /\ UNCHANGED ret
          ELSE /\ proc' = IF giveUp THEN over ELSE Woken(over, <<"nread", pi>>)
               /\ Return(p, IF giveUp THEN -1 ELSE n, <<>>)
       /\ UNCHANGED <<fs, ftable>>

\* filewrite: one transaction, of at most MaxChunk cells; w is what writei made of it.
filewrite(p, i, left, w, n) ==
    /\ fs' = w.f
    /\ ftable' = [ftable EXCEPT ![i].off = @ + Max({w.r, 0})]
    /\ proc' = [proc EXCEPT ![p].rest = IF w.r < 0 THEN <<>> ELSE left]
    /\ IF w.r < 0 THEN Return(p, -1, <<>>) ELSE IF left = <<>> THEN Return(p, n, <<>>) ELSE UNCHANGED ret
    /\ UNCHANGED pipes
WriteChunk(p, i, todo, m, n) ==
    filewrite(p, i, SubSeq(todo, m + 1, Len(todo)),
              writei(fs, ftable[i].ip, ftable[i].off, SubSeq(todo, 1, m)), n)

\* The console takes all there is.
sys_write(p, d, s) ==
    LET i == argfd(p, d)
        todo == Todo(p, s)
    IN /\ IF i = 0 \/ ~ftable[i].w
          THEN Return(p, -1, <<>>) /\ UNCHANGED <<fs, proc, ftable, pipes>>
          ELSE IF ftable[i].type = "pipe"
          THEN pipewrite(p, ftable[i].pipe, todo,
                         Min({Len(todo), PIPESIZE - Len(pipes[ftable[i].pipe].data)}), Len(s))
          ELSE IF fs.ino[ftable[i].ip].type = "dev"
          THEN Return(p, Len(s), <<>>) /\ UNCHANGED <<fs, proc, ftable, pipes>>
          ELSE WriteChunk(p, i, todo, Min({Len(todo), MaxChunk}), Len(s))
       /\ UNCHANGED <<kmem, nextpid>>

sys_fstat(p, d) ==
    LET f == ftable[argfd(p, d)]
    IN /\ IF argfd(p, d) = 0 THEN Return(p, -1, <<>>)
          ELSE IF f.type # "inode" THEN Return(p, -1, <<>>)
          ELSE Return(p, 0, <<stati(fs, f.ip)>>)
       /\ UNCHANGED <<fs, proc, ftable, pipes, kmem, nextpid>>

\* The calls whose whole effect is on the file system: o is the outcome [f, r].
FsCall(p, o) ==
    /\ fs' = o.f
    /\ Return(p, o.r, <<>>)
    /\ UNCHANGED <<proc, ftable, pipes, kmem, nextpid>>

sys_link(p, old, new) == FsCall(p, link(fs, proc[p].cwd, old, new))
sys_unlink(p, path)   == FsCall(p, unlink(fs, proc[p].cwd, path))
sys_chmod(p, path, perm) == FsCall(p, chmod(fs, proc[p].cwd, path, perm))
sys_myopen(p)         == FsCall(p, [f |-> myopen(fs, proc[p].cwd), r |-> 0])
sys_login(p, name, pw)   == FsCall(p, login(fs, name, pw))
sys_logout(p)         == FsCall(p, [f |-> logout(fs), r |-> 0])
sys_addUser(p, name, pw) == FsCall(p, addUser(fs, proc[p].cwd, name, pw))
sys_deleteUser(p, name)  == FsCall(p, deleteUser(fs, proc[p].cwd, name))

Created(c, owner, perm) ==
    IF c.ip = 0 THEN [f |-> c.f, r |-> -1]
    ELSE [f |-> iput([c.f EXCEPT !.ino[c.ip].owner = owner, !.ino[c.ip].perm = perm], c.ip), r |-> 0]
sys_mkdir(p, path) ==
    FsCall(p, Created(create(fs, proc[p].cwd, path, "dir"), get_now(fs), Modes \ {"WOTH"}))
sys_mknod(p, path) == FsCall(p, Created(create(fs, proc[p].cwd, path, "dev"), "", Modes))

Enterable(n) == n.ip # 0 /\ n.f.ino[n.ip].type = "dir" /\ get_modeBit(n.f, n.ip, "XOTH")

\* mutant: the old directory is not put back.
MutChangeKeeps(n, old) == IF n.ip # 0 /\ ~Enterable(n) THEN iput(n.f, n.ip) ELSE n.f

\* The directory namei found takes the place of old, or is put back.
Change(n, old) ==
    IF n.ip = 0 THEN n.f ELSE iput(n.f, IF Enterable(n) THEN old ELSE n.ip)

ChangeDir(p, n) ==
    /\ fs' = Change(n, proc[p].cwd)
    /\ proc' = [proc EXCEPT ![p].cwd = IF Enterable(n) THEN n.ip ELSE @]
    /\ Return(p, IF Enterable(n) THEN 0 ELSE -1, <<>>)
    /\ UNCHANGED <<ftable, pipes, kmem, nextpid>>
sys_chdir(p, path) == ChangeDir(p, namei(fs, proc[p].cwd, path))

\* pipe: both descriptors come back in s.
sys_pipe(p) ==
    LET i  == Min(FreeFiles)
        j  == Min(FreeFiles \ {i})
        d  == Min(FreeFds(p))
        e  == Min(FreeFds(p) \ {d})
        pi == Min({x \in Pipe : pipes[x] = NoPipe})
        end(w) == [type |-> "pipe", ref |-> 1, r |-> ~w, w |-> w, ip |-> 0, off |-> 0, pipe |-> pi]
    IN /\ IF Cardinality(FreeFiles) < 2 \/ Cardinality(FreeFds(p)) < 2 \/ kmem = 0
          THEN Return(p, -1, <<>>) /\ UNCHANGED <<proc, ftable, pipes, kmem>>
          ELSE /\ pipes' = [pipes EXCEPT ![pi] = [data |-> <<>>, ro |-> TRUE, wo |-> TRUE]]
               /\ kmem' = kmem - 1
               /\ ftable' = [ftable EXCEPT ![i] = end(FALSE), ![j] = end(TRUE)]
               /\ proc' = [proc EXCEPT ![p].ofile[d] = i, ![p].ofile[e] = j]
               /\ Return(p, 0, <<d, e>>)
       /\ UNCHANGED <<fs, nextpid>>

-----------------------------------------------------------------------------
(* Processes and memory.                                                   *)

Unused == {x \in Slot : proc[x].st = "UNUSED"}

\* fork: c is the child's slot, 0 when there is no slot or not enough memory.  A fork
\* that runs out of memory leaves its pid in the slot.  copyuvm panics when page 0 is
\* missing.
sys_fork(p, c) ==
    LET room == kmem >= Footprint(proc[p])
        held == {d \in Fd : proc[p].ofile[d] # 0}
        dups(i) == Cardinality({d \in held : proc[p].ofile[d] = i})
    IN /\ c = IF Unused # {} /\ room THEN Min(Unused) ELSE 0
       /\ nextpid' = IF Unused # {} THEN nextpid + 1 ELSE nextpid
       /\ ~(proc[p].mem.low > 0 /\ Unused # {} /\ kmem > KVM)
       /\ IF c = 0 THEN /\ proc' = IF Unused = {} THEN proc ELSE [proc EXCEPT ![Min(Unused)].pid = nextpid]
                        /\ Return(p, -1, <<>>) /\ UNCHANGED <<fs, ftable, kmem>>
          ELSE /\ kmem' = kmem - Footprint(proc[p])
               /\ ftable' = [i \in File |-> [ftable[i] EXCEPT !.ref = @ + dups(i)]]
               /\ fs' = idup(fs, proc[p].cwd)
               /\ proc' = [proc EXCEPT ![c] = [proc[p] EXCEPT !.pid = nextpid, !.parent = p,
                                                               !.killed = proc[c].killed]]
               /\ ret' = [ret EXCEPT ![p] = [r |-> nextpid, s |-> <<>>],
                                     ![c] = [r |-> 0, s |-> <<>>]]
       /\ UNCHANGED pipes

\* exit, first half: close the files and put the directory.
Dropped(p) ==
    LET after[d \in 0..NOFILE] ==
          IF d = 0 THEN Objects
          ELSE IF proc[p].ofile[d - 1] = 0 THEN after[d - 1]
          ELSE fileclose(after[d - 1], proc[p].ofile[d - 1])
    IN after[NOFILE]
ExitWith(p, k) ==
    /\ SetObjects([k EXCEPT !.fs = IF p = initproc THEN Panic(@) ELSE iput(@, proc[p].cwd)])
    /\ proc' = [k.pr EXCEPT ![p] = [@ EXCEPT !.st = "EXITING", !.ofile = NoProc.ofile,
                                             !.cwd = 0, !.rest = <<>>]]
exit_close(p) ==
    /\ proc[p].st = "RUNNABLE"
    /\ ExitWith(p, Dropped(p))
    /\ UNCHANGED <<nextpid, ret>>

\* exit, second half: hand the children to init and become a zombie.
exit_zombie(p) ==
    /\ proc[p].st = "EXITING"
    /\ proc' = [x \in Slot |-> IF x = p THEN [proc[p] EXCEPT !.st = "ZOMBIE"]
                               ELSE IF proc[x].parent = p THEN [proc[x] EXCEPT !.parent = initproc]
                               ELSE proc[x]]
    /\ UNCHANGED <<fs, ftable, pipes, kmem, nextpid, ret>>

Kids(p) == {x \in Slot : proc[x].parent = p}
Dead(p) == {x \in Kids(p) : proc[x].st = "ZOMBIE"}

\* wait: not enabled while p has children and none of them is a zombie.
Buried(p, x) ==
    /\ kmem' = kmem + Footprint(proc[x])
    /\ proc' = [proc EXCEPT ![x] = NoProc]
    /\ ret' = [ret EXCEPT ![p] = [r |-> proc[x].pid, s |-> <<>>], ![x] = [r |-> 0, s |-> <<>>]]
sys_wait(p) ==
    /\ Kids(p) = {} \/ Dead(p) # {}
    /\ IF Dead(p) # {} THEN Buried(p, Min(Dead(p)))
       ELSE Return(p, -1, <<>>) /\ UNCHANGED <<proc, kmem>>
    /\ UNCHANGED <<fs, ftable, pipes, nextpid>>

\* kill: a sleeper is woken to see that it is killed.  An unused slot has pid 0, or that
\* of a fork that failed.
Struck(q) == [q EXCEPT !.killed = TRUE, !.st = IF @ = "SLEEPING" THEN "RUNNABLE" ELSE @]
sys_kill(p, pid) ==
    LET at == {x \in Slot : proc[x].pid = pid}
    IN /\ proc' = IF at = {} THEN proc ELSE [proc EXCEPT ![Min(at)] = Struck(@)]
       /\ Return(p, IF at = {} THEN -1 ELSE 0, <<>>)
       /\ UNCHANGED <<fs, ftable, pipes, kmem, nextpid>>

\* exec: ok says whether the new image runs.  A program is the cells <<0, "ELF">> and
\* <<bytes it loads, its name>>; args counts the bytes of its arguments, which must fit
\* the stack page.  Two pages come on top: a guard and the stack.  Bytes are counted in a
\* uint, and a segment whose end would wrap around is refused.
Loads(n, args) ==
    /\ n.ip # 0
    /\ get_modeBit(n.f, n.ip, "XOTH")
    /\ readi(n.f, n.ip, 0, 1).s = << <<0, "ELF">> >>
    /\ CellOf(n.f, n.ip, 1)[1] \in Nat
    /\ kmem >= KVM + Pages(CellOf(n.f, n.ip, 1)[1]) + 2
    /\ args <= PGSIZE
NewImage(p, pages) ==
    /\ proc' = [proc EXCEPT ![p].mem = [sz |-> PGSIZE * pages, low |-> 0]]
    /\ kmem' = kmem + Mapped(proc[p].mem) - pages
    /\ Return(p, 0, <<>>)
ExecFound(p, n, args, ok) ==
    /\ ok = Loads(n, args)
    /\ fs' = IF n.ip = 0 THEN n.f ELSE iput(n.f, n.ip)
    /\ IF ok THEN NewImage(p, Pages(CellOf(n.f, n.ip, 1)[1]) + 2)
       ELSE Return(p, -1, <<>>) /\ UNCHANGED <<proc, kmem>>
    /\ UNCHANGED <<ftable, pipes, nextpid>>
sys_exec(p, path, args, ok) == ExecFound(p, namei(fs, proc[p].cwd, path), args, ok)

\* The name of the program that path holds.
Image(p, path) == CellOf(fs, namei(fs, proc[p].cwd, path).ip, 1)[2]

\* sbrk: growproc.  allocuvm gives back what it took when memory runs out.  deallocuvm
\* frees the pages from the new size up.  It returns the new size, and 0 means failure:
\* sbrk(-sz) returns -1 with every page gone and sz as it was.  Below 0 the new size wraps
\* around, nothing is freed and the call succeeds.
Resized(m, n) ==
    IF n = 0 THEN [m EXCEPT !.low = Pages(m.sz)]
    ELSE [sz |-> n, low |-> IF m.low < Pages(n) THEN m.low ELSE Pages(n)]
sys_sbrk(p, n) ==
    LET m    == proc[p].mem
        new  == Resized(m, m.sz + n)
        need == Mapped(new) - Mapped(m)
    IN /\ IF m.sz + n < 0
          THEN Return(p, m.sz, <<>>) /\ UNCHANGED <<proc, kmem>>
          ELSE IF need > kmem
          THEN Return(p, -1, <<>>) /\ UNCHANGED <<proc, kmem>>
          ELSE /\ proc' = [proc EXCEPT ![p].mem = new]
               /\ kmem' = kmem - need
               /\ Return(p, IF m.sz + n = 0 THEN -1 ELSE m.sz, <<>>)
       /\ UNCHANGED <<fs, ftable, pipes, nextpid>>

\* sleep: some ticks later.
sys_sleep(p) ==
    Return(p, 0, <<>>) /\ UNCHANGED <<fs, proc, ftable, pipes, kmem, nextpid>>

sys_getpid(p) ==
    Return(p, proc[p].pid, <<>>) /\ UNCHANGED <<fs, proc, ftable, pipes, kmem, nextpid>>

\* A fault in user mode: trap marks the process killed.
fault(p) ==
    /\ proc' = [proc EXCEPT ![p].killed = TRUE]
    /\ UNCHANGED <<fs, ftable, pipes, kmem, nextpid, ret>>

\* trap ends a killed process at its next entry to or return from the kernel: not in
\* the middle of a write or of a sleep.
MustExit(p) ==
    /\ proc[p].st = "RUNNABLE" /\ proc[p].killed
    /\ proc[p].rest = <<>> /\ proc[p].chan = NoProc.chan

\* userinit: the first process, in the root directory.
userinit(f) ==
    /\ fs = iget(f, ROOTINO)
    /\ proc = [x \in Slot |-> IF x # 1 THEN NoProc
                              ELSE [NoProc EXCEPT !.st = "RUNNABLE", !.pid = 1, !.kstack = 1,
                                                  !.mem.sz = PGSIZE, !.cwd = ROOTINO]]
    /\ ftable = [i \in File |-> NoFile]
    /\ pipes = [x \in Pipe |-> NoPipe]
    /\ kmem = NPAGE - Footprint([mem |-> [sz |-> PGSIZE, low |-> 0]])
    /\ nextpid = 2
    /\ ret = [x \in Slot |-> [r |-> 0, s |-> <<>>]]

-----------------------------------------------------------------------------
(* The kernel with programs of any kind: a process that runs makes any     *)
(* call, with any arguments, whether or not an earlier one is over; only   *)
(* the lengths of what it writes are those of Lens.                        *)

Text(s) == \E S : s \in Seq(S)

FileCall(p, Lens) ==
    \/ \E path, creat, acc : sys_open(p, path, creat, acc)
    \/ \E d : sys_close(p, d) \/ sys_dup(p, d) \/ sys_fstat(p, d) \/ pipe_sleep(p, d)
    \/ \E d : \E n \in Int : sys_read(p, d, n)
    \/ \E d, s : Text(s) /\ Len(s) \in Lens /\ sys_write(p, d, s)
    \/ \E path : sys_unlink(p, path) \/ sys_mkdir(p, path) \/ sys_mknod(p, path) \/ sys_chdir(p, path)
    \/ \E old, new : sys_link(p, old, new)
    \/ \E path, perm : sys_chmod(p, path, perm)
    \/ \E name, pw : sys_login(p, name, pw) \/ sys_addUser(p, name, pw) \/ sys_deleteUser(p, name)
    \/ sys_myopen(p) \/ sys_logout(p) \/ sys_pipe(p)

ProcessCall(p) ==
    \/ \E c \in Slot \cup {0} : sys_fork(p, c)
    \/ \E pid : sys_kill(p, pid)
    \/ \E path, args, ok : sys_exec(p, path, args, ok)
    \/ \E n \in Int : sys_sbrk(p, n)
    \/ sys_wait(p) \/ sys_sleep(p) \/ sys_getpid(p) \/ fault(p) \/ exit_close(p)

SysInit == \E f : userinit(f)
SysNext(Lens) ==
    \E p \in Slot :
        \/ proc[p].st = "RUNNABLE" /\ (FileCall(p, Lens) \/ ProcessCall(p))
        \/ exit_zombie(p)
SysSpec(Lens) == SysInit /\ [][SysNext(Lens)]_sysvars

-----------------------------------------------------------------------------
(* What must hold of the kernel's books between any two steps.             *)

\* Nobody sleeps through what it waits for: a reader sleeps while its pipe is empty and
\* somebody may write, a writer while it is full and somebody may read, and nobody once
\* it is killed.
SleepersOwed ==
    \A p \in Slot : proc[p].st = "SLEEPING" =>
        LET ch == proc[p].chan
        IN /\ ~proc[p].killed
           /\ ch[1] = "nread"  => pipes[ch[2]].data = <<>> /\ pipes[ch[2]].wo
           /\ ch[1] = "nwrite" => Len(pipes[ch[2]].data) = PIPESIZE /\ pipes[ch[2]].ro

\* No page is lost or handed out twice: the free pages, those of the processes and
\* those of the pipes are all the memory there is.
PagesOf(pr) == UNION {{x} \X (1..Footprint(pr[x])) : x \in {y \in Slot : pr[y].kstack # 0}}
PagesCounted ==
    NPAGE = kmem + Cardinality({x \in Pipe : pipes[x] # NoPipe}) + Cardinality(PagesOf(proc))

\* An open file counts the descriptors of all processes that refer to it.
FilesCounted ==
    \A i \in File :
        ftable[i].ref = Cardinality({z \in Slot \X Fd : proc[z[1]].ofile[z[2]] = i})

\* A block that is in use belongs to one inode, and an inode only to blocks in use:
\* writers of different files never meet in a block (usertests.c, fourfiles: "to test
\* block allocation").
BlocksOwned ==
    LET live == {i \in Inum : fs.ino[i].type # "none"}
    IN /\ fs.map = UNION {Holds(fs, i) : i \in live}
       /\ MapThenSumSet(LAMBDA i : Cardinality(Holds(fs, i)), live) = Cardinality(fs.map)

=============================================================================
