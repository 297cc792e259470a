------------------------------ MODULE Session ------------------------------
(***************************************************************************)
(* The machine at work: from the first process to what is typed at the     *)
(* console.  Every process runs its program's code (Programs, UserTests)   *)
(* against the system calls of Sys, in any interleaving; a step is one     *)
(* call or one local decision.                                             *)
(***************************************************************************)
EXTENDS Sys

CONSTANT BIG

P == INSTANCE Programs

VARIABLES code,    \* slot -> what the process has still to run
          env,     \* slot -> its variables
          acc,     \* slot -> the cells a reading loop has seen
          input    \* what is still to be typed at the console

vars == <<sysvars, code, env, acc, input>>

NoEnv == [v \in {"r", "fd", "fd1", "st", "pr", "pw", "pid", "pid1", "pid2", "pid3",
                 "a", "b", "c", "old", "n", "w"} |-> 0]
          @@ "0" :> 0 @@ "1" :> 1 @@ "2" :> 2

\* Jumps take no step.
RECURSIVE Expand(_)
Expand(c) == IF c = <<>> THEN c
             ELSE IF Head(c).op = "goto" THEN Expand(P!Loop(Head(c))) ELSE c

Ready(p) == proc[p].st = "RUNNABLE" /\ ~MustExit(p) /\ code[p] # <<>>
At(p, op) == Ready(p) /\ Head(code[p]).op = op
I(p) == Head(code[p])
V(p, v) == env[p][v]

\* p goes on with c and keeps the result of its call in the instruction's variable.
GoOn(p, c) ==
    /\ code' = [code EXCEPT ![p] = Expand(c)]
    /\ env' = [env EXCEPT ![p][I(p).v] = ret'[p].r]
    /\ UNCHANGED <<acc, input>>

\* The rest of the program after the call has returned.
Then(p) == IF ret'[p].r \in I(p).want THEN Tail(code[p]) ELSE I(p).alt
Done(p) == GoOn(p, Then(p))

Local == UNCHANGED sysvars
Goto(p, c) == code' = [code EXCEPT ![p] = Expand(c)] /\ UNCHANGED <<env, acc, input>>

-----------------------------------------------------------------------------
(* Calls that only touch files.                                            *)

Open(p) ==
    /\ At(p, "open")
    /\ sys_open(p, I(p).path, I(p).mode \in {"C", "CW", "CRW"},
                CASE I(p).mode \in {"R", "C"} -> "R" [] I(p).mode \in {"W", "CW"} -> "W"
                  [] OTHER -> "RW")
    /\ Done(p)
Close(p)  == At(p, "close") /\ sys_close(p, V(p, I(p).d)) /\ Done(p)
Dup(p)    == At(p, "dup") /\ sys_dup(p, V(p, I(p).d)) /\ Done(p)
Fstat(p)  == At(p, "fstat") /\ sys_fstat(p, V(p, I(p).d)) /\ Done(p)
Link(p)   == At(p, "link") /\ sys_link(p, I(p).old, I(p).new) /\ Done(p)
Unlink(p) == At(p, "unlink") /\ sys_unlink(p, I(p).path) /\ Done(p)
Mkdir(p)  == At(p, "mkdir") /\ sys_mkdir(p, I(p).path) /\ Done(p)
Mknod(p)  == At(p, "mknod") /\ sys_mknod(p, I(p).path) /\ Done(p)
Chdir(p)  == At(p, "chdir") /\ sys_chdir(p, I(p).path) /\ Done(p)
Chmod(p)  == At(p, "chmod") /\ sys_chmod(p, I(p).path, I(p).perm) /\ Done(p)
Myopen(p) == At(p, "myopen") /\ sys_myopen(p) /\ Done(p)

PipeCall(p) ==
    /\ At(p, "pipe")
    /\ sys_pipe(p)
    /\ code' = [code EXCEPT ![p] = Then(p)]
    /\ env' = IF ret'[p].r < 0 THEN env
              ELSE [env EXCEPT ![p]["pr"] = ret'[p].s[1], ![p]["pw"] = ret'[p].s[2]]
    /\ UNCHANGED <<acc, input>>

\* A write stays at its instruction until all of it is written.
Write(p) ==
    /\ At(p, "write")
    /\ sys_write(p, V(p, I(p).d), I(p).s)
    /\ IF proc'[p].rest = <<>> THEN Done(p) ELSE UNCHANGED <<code, env, acc, input>>

Read(p) ==
    /\ At(p, "read")
    /\ sys_read(p, V(p, I(p).d), I(p).n)
    /\ GoOn(p, IF I(p).see = <<>> \/ ret'[p].s = I(p).see THEN Then(p) ELSE P!Oops)

\* One turn of a reading loop; at the end of the file right says if all that came is right.
ReadLoop(p, again, right) ==
    /\ sys_read(p, V(p, I(p).d), I(p).n)
    /\ IF ret'[p].r > 0
       THEN /\ acc' = [acc EXCEPT ![p] = @ \o ret'[p].s]
            /\ code' = [code EXCEPT ![p] = <<again>> \o Tail(@)]
       ELSE /\ acc' = [acc EXCEPT ![p] = <<>>]
            /\ code' = [code EXCEPT ![p] = IF right THEN Tail(@) ELSE P!Oops]
    /\ UNCHANGED <<env, input>>

ReadSeq(p) ==
    /\ At(p, "readseq")
    /\ ReadLoop(p, [I(p) EXCEPT !.n = Min({@ * I(p).grow, I(p).max})], acc[p] = I(p).see)

ReadBag(p) ==
    /\ At(p, "readbag")
    /\ ReadLoop(p, I(p), \A c \in DOMAIN I(p).bag :
           Cardinality({k \in 1..Len(acc[p]) : acc[p][k][2] = c[2]})
               = I(p).bag[c])

\* cat: what one read brings is written to descriptor 1 before the next.
Copy(p) ==
    /\ At(p, "copy")
    /\ sys_read(p, V(p, I(p).d), 1)
    /\ GoOn(p, IF ret'[p].r > 0
               THEN << [P!write("1", ret'[p].s) EXCEPT !.want = {ret'[p].r}] >> \o code[p]
               ELSE IF ret'[p].r = 0 THEN Tail(code[p]) ELSE <<>>)

\* ls: stat of the next entry of a directory.
Entries_(p) ==
    /\ At(p, "entries")
    /\ sys_read(p, V(p, "fd"), 1)
    /\ code' = [code EXCEPT ![p] =
           IF fs.ino[ftable[proc[p].ofile[V(p, "fd")]].ip].type # "dir" \/ ret'[p].r < 1 THEN Tail(@)
           ELSE IF ret'[p].s[1][1] = 0 THEN @
           ELSE P!stat(I(p).path \o <<ret'[p].s[1][2]>>) \o @]
    /\ UNCHANGED <<env, acc, input>>

\* A read from an empty pipe goes to sleep at its instruction.
ReadSleep(p) ==
    /\ Ready(p) /\ I(p).op \in {"read", "readseq", "readbag", "copy"}
    /\ pipe_sleep(p, V(p, I(p).d))
    /\ UNCHANGED <<code, env, acc, input>>

FileStep(p) ==
    \/ Open(p) \/ Close(p) \/ Dup(p) \/ Fstat(p) \/ Link(p) \/ Unlink(p) \/ Mkdir(p)
    \/ Mknod(p) \/ Chdir(p) \/ Chmod(p) \/ Myopen(p) \/ PipeCall(p) \/ Write(p) \/ Read(p)
    \/ ReadSeq(p) \/ ReadBag(p) \/ Copy(p) \/ Entries_(p) \/ ReadSleep(p)

-----------------------------------------------------------------------------
(* Calls about processes and memory.                                       *)

\* fork: the child starts with its parent's variables; again is where the parent goes.
ForkTo(p, next(_)) ==
    \E c \in Slot \cup {0} :
        /\ sys_fork(p, c)
        /\ code' = [x \in Slot |-> IF x = p THEN Expand(next(ret'[p].r))
                                   ELSE IF x = c THEN Expand(I(p).child) ELSE code[x]]
        /\ acc' = acc

Fork(p) ==
    /\ At(p, "fork")
    /\ ForkTo(p, LAMBDA r : Then(p))
    /\ env' = [x \in Slot |-> IF x = p THEN [env[p] EXCEPT ![I(p).v] = ret'[p].r]
                              ELSE IF code[x] = <<>> /\ code'[x] # <<>> THEN env[p] ELSE env[x]]
    /\ UNCHANGED input

ForkAll(p) ==
    /\ At(p, "forkall")
    /\ ForkTo(p, LAMBDA r : IF r < 0 THEN Tail(code[p]) ELSE code[p])
    /\ env' = [env EXCEPT ![p]["n"] = IF ret'[p].r < 0 THEN @ ELSE @ + 1]
    /\ UNCHANGED input

WaitAll(p) ==
    /\ At(p, "waitall")
    /\ IF V(p, "n") = 0
       THEN Local /\ Goto(p, Tail(code[p]))
       ELSE /\ sys_wait(p)
            /\ code' = [code EXCEPT ![p] = IF ret'[p].r < 0 THEN P!Oops ELSE @]
            /\ env' = [env EXCEPT ![p]["n"] = @ - 1]
            /\ UNCHANGED <<acc, input>>

Wait(p) == At(p, "wait") /\ sys_wait(p) /\ Done(p)

\* init waits for its login and buries the orphans it is handed.
WaitFor(p) ==
    /\ At(p, "waitfor")
    /\ sys_wait(p)
    /\ Goto(p, IF ret'[p].r \in {-1, V(p, I(p).d)} THEN Tail(code[p]) ELSE code[p])

Kill(p) == At(p, "kill") /\ sys_kill(p, V(p, I(p).pid)) /\ Done(p)
KillPid(p) == At(p, "killpid") /\ sys_kill(p, I(p).n) /\ Done(p)
Getpid(p) == At(p, "getpid") /\ sys_getpid(p) /\ Done(p)
Sleep(p) == At(p, "sleep") /\ sys_sleep(p) /\ Done(p)
Sbrk(p) == At(p, "sbrk") /\ sys_sbrk(p, I(p).n + V(p, I(p).plus) - V(p, I(p).minus)) /\ Done(p)
SbrkAll(p) ==
    At(p, "sbrkall") /\ sys_sbrk(p, I(p).n) /\ GoOn(p, IF ret'[p].r < 0 THEN Tail(code[p]) ELSE code[p])

Exec(p) ==
    /\ At(p, "exec")
    /\ \E ok \in BOOLEAN :
        /\ sys_exec(p, I(p).path, I(p).bytes, ok)
        /\ code' = [code EXCEPT ![p] = IF ok THEN P!Main(Image(p, I(p).path), I(p).argv) ELSE Then(p)]
        /\ env' = [env EXCEPT ![p] = IF ok THEN NoEnv ELSE @]
    /\ UNCHANGED <<acc, input>>

Fault(p) == At(p, "fault") /\ fault(p) /\ Goto(p, Tail(code[p]))

\* A process whose code is used up, or that was killed, exits.
ExitClose(p) ==
    /\ MustExit(p) \/ code[p] = <<>>
    /\ exit_close(p)
    /\ code' = [code EXCEPT ![p] = <<>>]
    /\ env' = [env EXCEPT ![p] = NoEnv]
    /\ acc' = [acc EXCEPT ![p] = <<>>]
    /\ UNCHANGED input
ExitZombie(p) == exit_zombie(p) /\ UNCHANGED <<code, env, acc, input>>

ProcessStep(p) ==
    \/ Fork(p) \/ ForkAll(p) \/ Wait(p) \/ WaitAll(p) \/ WaitFor(p) \/ Kill(p) \/ KillPid(p)
    \/ Sleep(p) \/ Getpid(p) \/ Sbrk(p) \/ SbrkAll(p) \/ Exec(p) \/ Fault(p) \/ ExitClose(p) \/ ExitZombie(p)

-----------------------------------------------------------------------------
(* Decisions of a program and what it reads from the console.              *)

If(p) ==
    /\ At(p, "if") /\ Local
    /\ Goto(p, (IF V(p, I(p).v) >= 0 THEN I(p).then ELSE <<>>) \o Tail(code[p]))

Same(p) ==
    /\ At(p, "same") /\ Local
    /\ Goto(p, IF V(p, I(p).v) = V(p, I(p).w) + I(p).d THEN Tail(code[p]) ELSE P!Oops)

Zero_(p) ==
    /\ At(p, "zero") /\ Local
    /\ env' = [env EXCEPT ![p][I(p).v] = 0]
    /\ code' = [code EXCEPT ![p] = Tail(@)]
    /\ UNCHANGED <<acc, input>>

Choose(p) ==
    /\ At(p, "choose") /\ Local
    /\ \E k \in DOMAIN I(p).codes : Goto(p, I(p).codes[k] \o Tail(code[p]))

\* The next line typed, when the process is at a gets of kind op and the line is of kind t.
Typed(p, op, t) ==
    /\ At(p, op) /\ input # <<>>
    /\ Head(input).t = t
    /\ input' = Tail(input)
    /\ UNCHANGED <<env, acc>>
Next_(p, c) == code' = [code EXCEPT ![p] = Expand(c)]

Command(p) == Typed(p, "getcmd", "run") /\ Local /\ Next_(p, P!command(Head(input).cmd))
Cd(p) == Typed(p, "getcmd", "cd") /\ sys_chdir(p, Head(input).path) /\ Next_(p, P!getcmd)
Logout(p) == Typed(p, "getcmd", "logout") /\ sys_logout(p) /\ Next_(p, <<>>)
Login(p) ==
    /\ Typed(p, "getlogin", "user")
    /\ sys_login(p, Head(input).name, Head(input).pw)
    /\ Next_(p, IF ret'[p].r = 0 THEN P!session ELSE P!login)
AddUser(p) ==
    Typed(p, "getuser", "user") /\ sys_addUser(p, Head(input).name, Head(input).pw) /\ Next_(p, <<>>)
DeleteUser(p) ==
    Typed(p, "getname", "user") /\ sys_deleteUser(p, Head(input).name) /\ Next_(p, <<>>)

LocalStep(p) ==
    \/ If(p) \/ Same(p) \/ Zero_(p) \/ Choose(p)
    \/ Command(p) \/ Cd(p) \/ Logout(p) \/ Login(p) \/ AddUser(p) \/ DeleteUser(p)

-----------------------------------------------------------------------------
\* Nothing is left to type: init, login and the shell wait and nobody else is alive.
Finished ==
    /\ input = <<>>
    /\ \A p \in Slot : proc[p].st # "UNUSED" =>
        /\ Ready(p)
        /\ I(p).op \in {"wait", "waitfor", "getcmd", "getlogin"}
        /\ I(p).op \in {"wait", "waitfor"} => Dead(p) = {}

Boot(files, typed) ==
    /\ userinit(mkfs(files))
    /\ code = [x \in Slot |-> IF x = initproc THEN << P!exec(<<"/", "init">>, <<"init">>, 1) >> ELSE <<>>]
    /\ env = [x \in Slot |-> NoEnv]
    /\ acc = [x \in Slot |-> <<>>]
    /\ input = typed

Step(p) == FileStep(p) \/ ProcessStep(p) \/ LocalStep(p)
Idle == Finished /\ UNCHANGED vars
Next == (\E p \in Slot : Step(p)) \/ Idle

-----------------------------------------------------------------------------
\* The tests of the repository pass whatever the interleaving: no process ever meets a
\* result its test forbids, and the kernel does not panic on the way.
TestsPass == ~fs.panic /\ \A p \in Slot : ~At(p, "oops")

\* Every reference is held by somebody: to an open file by as many descriptors of all
\* processes, to an inode by a current directory or an open file.  What filedup, fork and
\* the system calls take, close, exit and their error paths give back.  userS is not
\* meant: deleteUser keeps the reference it takes.
ReferencesCounted ==
    LET userS == Lookup(fs, ROOTINO, "userS")
        held(i) == Cardinality({x \in Slot : proc[x].cwd = i})
                   + Cardinality({k \in File : ftable[k].type = "inode" /\ ftable[k].ip = i})
    IN /\ FilesCounted
       /\ \A i \in Inum \ {userS} : fs.ref[i] = held(i)

=============================================================================
