------------------------------- MODULE Threads -------------------------------
(***************************************************************************)
(* Processes and threads of the thread kernel (proc.c, exec.c, trap.c).    *)
(* A thread is a slot of ptable that shares the pid and the page table of  *)
(* its `master' slot.                                                      *)
(*                                                                         *)
(* One step is one critical section under ptable.lock, or one stretch of   *)
(* code outside it.  `pc' is the place of a slot's kernel code:            *)
(*   user    in user mode, or about to return to it                        *)
(*   fork    between allocproc() and the end of fork()                     *)
(*   tnew, tgo        between allocproc() and the end of thread_create()   *)
(*   wait, join, reap inside the loops of wait, thread_join and exit       *)
(*   exit    past the loop of exit(), files not closed yet                 *)
(*   texit   in thread_exit(), files not closed yet                        *)
(*   kill, load, wake, adopt  inside exec()                                *)
(*   io      in a system call that sleeps on another channel               *)
(*   dead    past the last sched()                                         *)
(*   panic   init after panic("init exiting")                              *)
(* A step of slot p needs p on a CPU, whatever state[p] says.  ThreadMem    *)
(* puts the steps together, each with what it does to user memory.         *)
(***************************************************************************)
EXTENDS Integers, FiniteSets, FiniteSetsExt

CONSTANTS
  NPROC,    \* slots of ptable
  CPUs,
  MaxPid,   \* bound: pids handed out
  Mixes     \* the machines and programs of a run: [calls, cpus, slots, pids, oom], where
            \* `calls' are the system calls that programs make (`nested', `threadfork'
            \* and `threadexec': those that threads make; `mainexit': thread_exit() of a
            \* process; `kill0': kill(0); `init': init forks at any time), `oom' says whether
            \* kalloc() and copyuvm() may fail

Slots == 1..NPROC
IO == NPROC + 1      \* the channel of some device, pipe or timer
initproc == 1
AllCalls ==
  {"init", "fork", "threadfork", "thread", "nested", "mainexit", "exec", "threadexec", "kill", "kill0",
   "io", "sbrk", "shrink"}

ASSUME ThreadsAssumption ==
  /\ NPROC \in Nat \ {0}
  /\ MaxPid \in Nat \ {0}
  /\ Mixes \subseteq [calls: SUBSET AllCalls, cpus: SUBSET CPUs, slots: Slots, pids: 1..MaxPid,
                        oom: BOOLEAN]

VARIABLES
  state, pid, tid, parent, master, killed, chan, pg,   \* struct proc
  nextpid, nexttid, livePg,                            \* counters; page tables in use
  cpu,                                                 \* what each CPU runs, 0 for none
  pc, np, loc,                                         \* place in the kernel; local variables
  mix                                                  \* the machine and programs of this run
slot == <<state, pid, tid, parent, master, killed, chan, pg>>
vars == <<slot, nextpid, nexttid, livePg, cpu, pc, np, loc, mix>>

Init ==
  /\ mix \in Mixes
  /\ state = [p \in Slots |-> IF p = initproc THEN "RUNNABLE" ELSE "UNUSED"]
  /\ pid = [p \in Slots |-> IF p = initproc THEN 1 ELSE 0]
  /\ tid = [p \in Slots |-> 0]
  /\ parent = [p \in Slots |-> 0]
  /\ master = [p \in Slots |-> 0]
  /\ killed = [p \in Slots |-> FALSE]
  /\ chan = [p \in Slots |-> 0]
  /\ pg = [p \in Slots |-> IF p = initproc THEN 1 ELSE 0]
  /\ nextpid = 2 /\ nexttid = 1 /\ livePg = {1}
  /\ cpu = [c \in CPUs |-> 0]
  /\ pc = [p \in Slots |-> "user"]
  /\ np = [p \in Slots |-> 0]
  /\ loc = [p \in Slots |-> 0]

-----------------------------------------------------------------------------
Running(p) == \E c \in CPUs : cpu[c] = p

(* sleep() returns with ptable.lock held: a slot resumed inside one of these *)
(* loops runs the body of the loop before anybody else gets the lock.       *)
InLoop(p) == pc[p] \in {"wait", "join", "reap"}
LockFree == \A p \in Slots : Running(p) => ~InLoop(p)

(* p calls the kernel; trap() lets a killed process do nothing but exit.   *)
Enters(p) == Running(p) /\ LockFree /\ pc[p] = "user" /\ ~killed[p]
At(p, place) == Running(p) /\ LockFree /\ pc[p] = place

LeaveCpu(p) == cpu' = [c \in CPUs |-> IF cpu[c] = p THEN 0 ELSE cpu[c]]

(* wakeup1(): the states after waking who sleeps on channel ch. *)
MutAwakenNobody(st, ch) == st
Awaken(st, ch) ==
  [q \in Slots |-> IF st[q] = "SLEEPING" /\ chan[q] = ch THEN "RUNNABLE" ELSE st[q]]

Asleep(p, ch, place) ==
  /\ state' = [state EXCEPT ![p] = "SLEEPING"]
  /\ chan' = [chan EXCEPT ![p] = ch]
  /\ pc' = [pc EXCEPT ![p] = place]
  /\ LeaveCpu(p)

Return(p) == pc' = [pc EXCEPT ![p] = "user"]

FreshPg == Min({g \in 1..(NPROC + 1) :
                  g \notin livePg /\ \A q \in Slots : state[q] # "UNUSED" => pg[q] # g})

-----------------------------------------------------------------------------
(* Scheduling: any policy that picks RUNNABLE slots. *)

Schedule(c, p) ==
  /\ c \in mix.cpus /\ cpu[c] = 0 /\ LockFree
  /\ state[p] = "RUNNABLE"
  /\ state' = [state EXCEPT ![p] = "RUNNING"]
  /\ chan' = [chan EXCEPT ![p] = 0]
  /\ cpu' = [cpu EXCEPT ![c] = p]
  /\ UNCHANGED <<pid, tid, parent, master, killed, pg, nextpid, nexttid, livePg, pc, np, loc, mix>>

(* The timer: trap() yields only a slot whose state still is RUNNING; panic() *)
(* has turned interrupts off.                                              *)
Preempt(c) ==
  /\ cpu[c] # 0 /\ LockFree /\ pc[cpu[c]] # "panic"
  /\ state[cpu[c]] = "RUNNING"
  /\ state' = [state EXCEPT ![cpu[c]] = "RUNNABLE"]
  /\ cpu' = [cpu EXCEPT ![c] = 0]
  /\ UNCHANGED <<pid, tid, parent, master, killed, chan, pg, nextpid, nexttid, livePg, pc, np, loc, mix>>

-----------------------------------------------------------------------------
(* fork() *)

PidAfter(n) == n + 1

(* allocproc(): the first unused slot becomes EMBRYO. *)
AllocProc(p, place) ==
  LET unused == {q \in 1..mix.slots : state[q] = "UNUSED"} IN
    /\ unused # {} /\ nextpid <= mix.pids
    /\ LET q == Min(unused) IN
         /\ state' = [state EXCEPT ![q] = "EMBRYO"]
         /\ pid' = [pid EXCEPT ![q] = nextpid]
         /\ tid' = [tid EXCEPT ![q] = 0]
         /\ master' = [master EXCEPT ![q] = 0]
         /\ np' = [np EXCEPT ![p] = q]
    /\ nextpid' = PidAfter(nextpid)
    /\ pc' = [pc EXCEPT ![p] = place]

(* Without `init' in the mix (a bound) init forks when it has no child left. *)
Fork(p) ==
  /\ Enters(p)
  /\ p = initproc /\ "init" \notin mix.calls => \A q \in Slots : parent[q] # initproc
  /\ p = initproc \/ (IF tid[p] = 0 THEN "fork" ELSE "threadfork") \in mix.calls
  /\ AllocProc(p, "fork")
  /\ UNCHANGED <<parent, killed, chan, pg, nexttid, livePg, cpu, loc, mix>>

(* kalloc() or copyuvm() failed: the slot is freed, its pid stays in it. *)
ForkFail(p) ==
  /\ mix.oom /\ At(p, "fork")
  /\ state' = [state EXCEPT ![np[p]] = "UNUSED"]
  /\ np' = [np EXCEPT ![p] = 0]
  /\ Return(p)
  /\ UNCHANGED <<pid, tid, parent, master, killed, chan, pg, nextpid, nexttid, livePg, cpu, loc, mix>>

ForkDone(p) ==
  /\ At(p, "fork")
  /\ parent' = [parent EXCEPT ![np[p]] = p]
  /\ pg' = [pg EXCEPT ![np[p]] = FreshPg]
  /\ livePg' = livePg \cup {FreshPg}
  /\ state' = [state EXCEPT ![np[p]] = "RUNNABLE"]
  /\ pc' = [pc EXCEPT ![np[p]] = "user", ![p] = "user"]
  /\ np' = [np EXCEPT ![p] = 0]
  /\ UNCHANGED <<pid, tid, master, killed, chan, nextpid, nexttid, cpu, loc, mix>>

-----------------------------------------------------------------------------
(* thread_create() *)

MasterOf(p) == IF master[p] = 0 THEN p ELSE master[p]

(* allocproc(), then the read of `nexttid++', which no lock protects. *)
ThreadCreate(p) ==
  /\ Enters(p) /\ p # initproc /\ "thread" \in mix.calls
  /\ tid[p] = 0 \/ "nested" \in mix.calls
  /\ AllocProc(p, "tnew")
  /\ loc' = [loc EXCEPT ![p] = nexttid]
  /\ UNCHANGED <<parent, killed, chan, pg, nexttid, livePg, cpu, mix>>

(* The write of `nexttid++'; the new slot joins its master. *)
ThreadInit(p) ==
  /\ At(p, "tnew")
  /\ nexttid' = loc[p] + 1
  /\ tid' = [tid EXCEPT ![np[p]] = loc[p]]
  /\ master' = [master EXCEPT ![np[p]] = MasterOf(p)]
  /\ pid' = [pid EXCEPT ![np[p]] = pid[MasterOf(p)]]
  /\ pg' = [pg EXCEPT ![np[p]] = pg[MasterOf(p)]]
  /\ loc' = [loc EXCEPT ![p] = 0]
  /\ pc' = [pc EXCEPT ![p] = "tgo"]
  /\ UNCHANGED <<state, parent, killed, chan, nextpid, livePg, cpu, np, mix>>

ThreadGo(p) ==
  /\ At(p, "tgo")
  /\ state' = [state EXCEPT ![np[p]] = "RUNNABLE"]
  /\ pc' = [pc EXCEPT ![np[p]] = "user", ![p] = "user"]
  /\ np' = [np EXCEPT ![p] = 0]
  /\ UNCHANGED <<pid, tid, parent, master, killed, chan, pg, nextpid, nexttid, livePg, cpu, loc, mix>>

-----------------------------------------------------------------------------
(* thread_exit(): a main thread that calls it leaves its threads, children  *)
(* and parent alone, and wakes whoever sleeps on the null pointer.          *)

ThreadExit(p) ==
  /\ Enters(p) /\ p # initproc
  /\ tid[p] > 0 \/ "mainexit" \in mix.calls
  /\ pc' = [pc EXCEPT ![p] = "texit"]
  /\ UNCHANGED <<slot, nextpid, nexttid, livePg, cpu, np, loc, mix>>

ThreadExitDone(p) ==
  /\ At(p, "texit")
  /\ state' = [Awaken(state, master[p]) EXCEPT ![p] = "ZOMBIE"]
  /\ pc' = [pc EXCEPT ![p] = "dead"]
  /\ LeaveCpu(p)
  /\ UNCHANGED <<pid, tid, parent, master, killed, chan, pg, nextpid, nexttid, livePg, np, loc, mix>>

-----------------------------------------------------------------------------
(* exit() *)

(* Called, or forced by trap() on a killed slot.  A thread has no threads. *)
ExitThread(p) ==
  /\ At(p, "user") /\ p # initproc /\ tid[p] # 0
  /\ pc' = [pc EXCEPT ![p] = "exit"]
  /\ UNCHANGED <<slot, nextpid, nexttid, livePg, cpu, np, loc, mix>>

MutLiveThreadsOnCpu(p) == {q \in Slots : master[q] = p /\ state[q] = "RUNNING"}
LiveThreads(p) == {q \in Slots : master[q] = p /\ state[q] # "ZOMBIE"}

(* The loop of a master: free zombie threads, kill the others and wait.    *)
(* wakeup1(p) wakes a thread only where it sleeps on its own slot.         *)
ReapThreads(p) ==
  /\ Running(p) /\ p # initproc /\ tid[p] = 0
  /\ pc[p] = "reap" \/ (pc[p] = "user" /\ LockFree)
  /\ LET dead == {q \in Slots : master[q] = p /\ state[q] = "ZOMBIE"}
         alive == LiveThreads(p)
         reaped(f, v) == [q \in Slots |-> IF q \in dead THEN v ELSE f[q]]
         woken == [q \in Slots |->
                     IF q \in dead THEN "UNUSED"
                     ELSE IF q \in alive /\ state[q] = "SLEEPING" /\ chan[q] = q
                          THEN "RUNNABLE" ELSE state[q]]
     IN /\ pid' = reaped(pid, 0) /\ parent' = reaped(parent, 0) /\ master' = reaped(master, 0)
        /\ killed' = [q \in Slots |-> (killed[q] \/ q \in alive) /\ q \notin dead]
        /\ IF alive = {}
             THEN /\ state' = woken
                  /\ pc' = [pc EXCEPT ![p] = "exit"]
                  /\ UNCHANGED <<chan, cpu>>
             ELSE /\ state' = [woken EXCEPT ![p] = "SLEEPING"]
                  /\ chan' = [chan EXCEPT ![p] = p]
                  /\ pc' = [pc EXCEPT ![p] = "reap"]
                  /\ LeaveCpu(p)
  /\ UNCHANGED <<tid, pg, nextpid, nexttid, livePg, np, loc, mix>>

(* exit() gives the children of p to init. *)
MutHandOverNone(p) == parent
HandOver(p) == [q \in Slots |-> IF parent[q] = p THEN initproc ELSE parent[q]]

(* Wake the parent, or the master of a thread; give the children to init.  *)
ExitDone(p) ==
  /\ At(p, "exit")
  /\ LET notify == IF tid[p] = 0 THEN parent[p] ELSE master[p]
         woken == IF tid[p] = 0 \/ master[p] # 0 THEN Awaken(state, notify) ELSE state
         adopted == {q \in Slots : parent[q] = p /\ state[q] = "ZOMBIE"}
     IN /\ state' = [IF adopted = {} THEN woken ELSE Awaken(woken, initproc)
                       EXCEPT ![p] = "ZOMBIE"]
        /\ killed' = IF tid[p] # 0 /\ master[p] # 0
                     THEN [killed EXCEPT ![master[p]] = TRUE] ELSE killed
        /\ parent' = HandOver(p)
  /\ pc' = [pc EXCEPT ![p] = "dead"]
  /\ LeaveCpu(p)
  /\ UNCHANGED <<pid, tid, master, chan, pg, nextpid, nexttid, livePg, np, loc, mix>>

(* panic("init exiting"): that CPU stands still, the other one goes on. *)
InitPanic(p) ==
  /\ At(p, "user") /\ p = initproc /\ killed[p]
  /\ pc' = [pc EXCEPT ![p] = "panic"]
  /\ UNCHANGED <<slot, nextpid, nexttid, livePg, cpu, np, loc, mix>>

-----------------------------------------------------------------------------
(* What wait() and thread_join() clear of a zombie's slot. *)
MutFreeSlotKeepsKilled(q) ==
  /\ state' = [state EXCEPT ![q] = "UNUSED"]
  /\ pid' = [pid EXCEPT ![q] = 0]
  /\ parent' = [parent EXCEPT ![q] = 0]
  /\ UNCHANGED killed
FreeSlot(q) ==
  /\ state' = [state EXCEPT ![q] = "UNUSED"]
  /\ pid' = [pid EXCEPT ![q] = 0]
  /\ parent' = [parent EXCEPT ![q] = 0]
  /\ killed' = [killed EXCEPT ![q] = FALSE]

(* wait(), called by user programs and at the end of exec() *)

Wait(p) ==
  /\ \/ Enters(p)
     \/ At(p, "adopt")
     \/ Running(p) /\ pc[p] = "wait"
  /\ LET kids == {q \in Slots : parent[q] = p}
         dead == {q \in kids : state[q] = "ZOMBIE"}
     IN \/ /\ dead # {}
           /\ LET q == Min(dead) IN
                /\ FreeSlot(q)
                /\ livePg' = livePg \ {pg[q]}
           /\ Return(p)
           /\ UNCHANGED <<chan, cpu>>
        \/ /\ dead = {}
           /\ IF kids = {} \/ killed[p]
                THEN Return(p) /\ UNCHANGED <<state, chan, cpu>>
                ELSE Asleep(p, p, "wait")
           /\ UNCHANGED <<pid, parent, killed, livePg>>
  /\ UNCHANGED <<tid, master, pg, nextpid, nexttid, np, loc, mix>>

-----------------------------------------------------------------------------
(* thread_join(): p waits for a thread with tid t, its own one, that of      *)
(* another process, or one that is not there.  init has no threads.         *)
(* (Bound: no tid beyond the next one.)                                     *)

ThreadJoin(p, t) ==
  /\ \/ Enters(p) /\ p # initproc /\ master[p] = 0 /\ "thread" \in mix.calls /\ t <= nexttid
     \/ Running(p) /\ pc[p] = "join" /\ loc[p] = t
  /\ LET dead == {q \in Slots : tid[q] = t /\ state[q] = "ZOMBIE"} IN
       \/ /\ dead # {}
          /\ LET q == Min(dead) IN
               /\ FreeSlot(q)
               /\ master' = [master EXCEPT ![q] = 0]
          /\ Return(p)
          /\ loc' = [loc EXCEPT ![p] = 0]
          /\ UNCHANGED <<chan, cpu>>
       \/ /\ dead = {}
          /\ IF killed[p]
               THEN Return(p) /\ loc' = [loc EXCEPT ![p] = 0] /\ UNCHANGED <<state, chan, cpu>>
               ELSE Asleep(p, p, "join") /\ loc' = [loc EXCEPT ![p] = t]
          /\ UNCHANGED <<pid, parent, master, killed>>
  /\ UNCHANGED <<tid, pg, nextpid, nexttid, livePg, np, mix>>

-----------------------------------------------------------------------------
(* kill(): the first slot with that pid, in use or not.  A slot that was    *)
(* never used, or has been freed, has the pid 0.                            *)

MutRousedAlways(st) == "RUNNABLE"
Roused(st) == IF st = "SLEEPING" THEN "RUNNABLE" ELSE st

Kill(p, k) ==
  /\ Enters(p) /\ p # initproc /\ "kill" \in mix.calls
  /\ k = 0 => "kill0" \in mix.calls
  /\ \E q \in Slots : pid[q] = k
  /\ LET q == Min({r \in Slots : pid[r] = k}) IN
       /\ killed' = [killed EXCEPT ![q] = TRUE]
       /\ state' = [state EXCEPT ![q] = Roused(@)]
  /\ UNCHANGED <<pid, tid, parent, master, chan, pg, nextpid, nexttid, livePg, cpu, pc, np, loc, mix>>

-----------------------------------------------------------------------------
(* exec() *)

(* A thread takes the place of its master; loc remembers prev_tid. *)
Exec(p) ==
  /\ Enters(p) /\ p # initproc
  /\ "exec" \in mix.calls
  /\ "threadexec" \in mix.calls \/ (master[p] = 0 /\ \A q \in Slots : master[q] # p)
  /\ IF master[p] # 0
       THEN /\ parent' = [parent EXCEPT ![p] = parent[master[p]]]
            /\ master' = [master EXCEPT ![p] = 0]
            /\ tid' = [tid EXCEPT ![p] = 0]
            /\ loc' = [loc EXCEPT ![p] = tid[p]]
       ELSE UNCHANGED <<parent, master, tid, loc>>
  /\ pc' = [pc EXCEPT ![p] = "kill"]
  /\ UNCHANGED <<state, pid, killed, chan, pg, nextpid, nexttid, livePg, cpu, np, mix>>

(* thread_kill(): whatever the other slots of this pid do, they now sleep. *)
ThreadKill(p) ==
  /\ At(p, "kill")
  /\ LET hit == IF killed[p] THEN {} ELSE {q \in Slots \ {p} : pid[q] = pid[p]} IN
       /\ state' = [q \in Slots |-> IF q \in hit THEN "SLEEPING" ELSE state[q]]
       /\ killed' = [q \in Slots |-> killed[q] \/ q \in hit]
       /\ chan' = [q \in Slots |-> IF q \in hit THEN 0 ELSE chan[q]]
  /\ pc' = [pc EXCEPT ![p] = "load"]
  /\ UNCHANGED <<pid, tid, parent, master, pg, nextpid, nexttid, livePg, cpu, np, loc, mix>>

(* namei() fails: return -1; nobody wakes the threads put to sleep. *)
ExecNoFile(p) ==
  /\ At(p, "load")
  /\ Return(p)
  /\ loc' = [loc EXCEPT ![p] = 0]
  /\ UNCHANGED <<slot, nextpid, nexttid, livePg, cpu, np, mix>>

(* The image is loaded, or found bad.  Only a slot that was a process before *)
(* frees the old page table.                                               *)
ExecLoad(p) ==
  /\ At(p, "load")
  /\ \/ UNCHANGED <<pg, livePg>>
     \/ /\ pg' = [pg EXCEPT ![p] = FreshPg]
        /\ livePg' = (livePg \cup {FreshPg}) \ (IF loc[p] = 0 THEN {pg[p]} ELSE {})
  /\ pc' = [pc EXCEPT ![p] = "wake"]
  /\ loc' = [loc EXCEPT ![p] = 0]
  /\ UNCHANGED <<state, pid, tid, parent, master, killed, chan, nextpid, nexttid, cpu, np, mix>>

(* thread_wakeup(): let them run to their exit(); adopt those with a parent *)
(* and wait for one.                                                       *)
ThreadWakeup(p) ==
  /\ At(p, "wake")
  /\ LET hit == {q \in Slots \ {p} : state[q] = "SLEEPING" /\ pid[q] = pid[p]}
         kids == {q \in hit : parent[q] # 0}
     IN /\ state' = [q \in Slots |-> IF q \in hit THEN "RUNNABLE" ELSE state[q]]
        /\ parent' = [q \in Slots |-> IF q \in kids THEN p ELSE parent[q]]
        /\ pc' = [pc EXCEPT ![p] = IF kids = {} THEN "user" ELSE "adopt"]
  /\ UNCHANGED <<pid, tid, master, killed, chan, pg, nextpid, nexttid, livePg, cpu, np, loc, mix>>

-----------------------------------------------------------------------------
(* Any other sleep: a pipe, the disk, the timer *)

IoSleep(p) ==
  /\ Enters(p) /\ p # initproc /\ "io" \in mix.calls
  /\ Asleep(p, IO, "io")
  /\ UNCHANGED <<pid, tid, parent, master, killed, pg, nextpid, nexttid, livePg, np, loc, mix>>

IoWakeup ==
  /\ LockFree
  /\ \E p \in Slots : state[p] = "SLEEPING" /\ chan[p] = IO
  /\ state' = Awaken(state, IO)
  /\ UNCHANGED <<pid, tid, parent, master, killed, chan, pg, nextpid, nexttid, livePg, cpu, pc, np, loc, mix>>

IoReturn(p) ==
  /\ At(p, "io")
  /\ Return(p)
  /\ UNCHANGED <<slot, nextpid, nexttid, livePg, cpu, np, loc, mix>>

-----------------------------------------------------------------------------
Kernel(p) ==
  \/ ForkFail(p) \/ ForkDone(p) \/ ThreadInit(p) \/ ThreadGo(p) \/ ThreadExitDone(p)
  \/ ExitDone(p) \/ ThreadKill(p) \/ ExecNoFile(p) \/ ExecLoad(p) \/ ThreadWakeup(p)
  \/ IoReturn(p)

LoopBody(p) ==
  /\ InLoop(p)
  /\ ReapThreads(p) \/ Wait(p) \/ \E t \in 1..MaxPid : ThreadJoin(p, t)

(* The timer gives every runnable slot a CPU in turn, kernel code outside a *)
(* sleep runs on, and a killed slot is forced into exit() by trap().        *)
Fairness ==
  /\ \A c \in CPUs : SF_vars(Preempt(c))
  /\ \A p \in Slots :
       /\ SF_vars(\E c \in CPUs : Schedule(c, p))
       /\ SF_vars(Kernel(p))
       /\ WF_vars(LoopBody(p))
       /\ SF_vars(killed[p] /\ (ExitThread(p) \/ ReapThreads(p)))
  /\ SF_vars(InitPanic(initproc))

-----------------------------------------------------------------------------
(* Programs that call exec() only in processes without threads (elsewhere    *)
(* thread_kill() forces states upon the other threads), and whose main       *)
(* thread ends by exit() (thread_exit() would leave its threads without a    *)
(* master, its children without a parent and its own parent asleep).  Both   *)
(* break what is stated under Orderly.                                       *)
Orderly == {"threadexec", "mainexit"} \cap mix.calls = {}

(* Programs whose threads do not fork: thread_exit() hands nobody over.      *)
Plain == "threadfork" \notin mix.calls

InUse(p) == state[p] \notin {"UNUSED", "EMBRYO"}

TypeOK ==
  /\ state \in [Slots -> {"UNUSED", "EMBRYO", "SLEEPING", "RUNNABLE", "RUNNING", "ZOMBIE"}]
  /\ pid \in [Slots -> 0..(nextpid - 1)]
  /\ tid \in [Slots -> 0..(nexttid - 1)]
  /\ parent \in [Slots -> {0} \cup Slots]
  /\ master \in [Slots -> {0} \cup Slots]
  /\ killed \in [Slots -> BOOLEAN]
  /\ chan \in [Slots -> 0..IO]
  /\ pg \in [Slots -> 0..(NPROC + 1)]
  /\ livePg \subseteq 1..(NPROC + 1)
  /\ cpu \in [CPUs -> {0} \cup Slots]
  /\ np \in [Slots -> {0} \cup Slots]
  /\ loc \in [Slots -> 0..MaxPid]

(* No two CPUs run on the same kernel stack: a slot is offered to a second  *)
(* scheduler() only after it has left the first (proc.c:935-965).          *)
OneCpu == \A c, d \in CPUs : cpu[c] = cpu[d] /\ cpu[c] # 0 => c = d

(* A zombie is freed by whoever waits for it and is never set going again,  *)
(* whatever kill() and wakeup1() do meanwhile.                              *)
ZombieStays == [][Orderly => \A p \in Slots : state[p] = "ZOMBIE" => state'[p] \in {"ZOMBIE", "UNUSED"}]_vars

(* Who sleeps in wait() or exit() still has somebody to wait for; nobody     *)
(* sleeps past the death of a child or thread it waits for, in wait() or     *)
(* thread_join() past its own killing.  (A thread_join of a tid that is not  *)
(* there sleeps until then.)                                                *)
NotForgotten ==
  Orderly => \A p \in Slots : state[p] = "SLEEPING" =>
    /\ pc[p] = "wait" =>
         /\ \E q \in Slots : parent[q] = p
         /\ \A q \in Slots : parent[q] = p => state[q] # "ZOMBIE"
    /\ pc[p] = "reap" => \E q \in Slots : master[q] = p /\ state[q] # "ZOMBIE"
    /\ pc[p] = "join" => \A q \in Slots : master[q] = p /\ tid[q] = loc[p] => state[q] # "ZOMBIE"
    /\ pc[p] \in {"wait", "join"} => ~killed[p]

(* freevm() frees no page table that a slot still runs on, sleeps on, or    *)
(* that thread_join will still unmap a stack from.                          *)
PageTableAlive == Orderly => \A p \in Slots : InUse(p) => pg[p] \in livePg

(* A thread never outlives its process, and shares its pid (proc.c:417-450). *)
MasterAlive ==
  \A p \in Slots : InUse(p) /\ master[p] # 0 =>
    state[master[p]] \notin {"UNUSED", "ZOMBIE"} /\ pid[master[p]] = pid[p] /\ master[master[p]] = 0

(* "Pass abandoned children to init": no slot has a dead parent.            *)
ParentAlive ==
  \A p \in Slots : InUse(p) /\ parent[p] # 0 => state[parent[p]] \notin {"UNUSED", "ZOMBIE"}

(* Every slot in use has its elders alive; where threads fork, its master.   *)
FamilyAlive == Orderly => MasterAlive /\ (Plain => ParentAlive)

(* The slot that fork() or thread_create() takes next was not killed before, *)
(* unless somebody has called kill(0), or a fork that failed has left its    *)
(* pid there, for kill() to find.                                           *)
NotBornKilled ==
  Orderly /\ "kill0" \notin mix.calls =>
    \A p \in Slots : state[p] = "UNUSED" /\ killed[p] => pid[p] # 0 /\ mix.oom

(* A killed process or thread dies: kill() reaches it wherever it waits.    *)
(* Only a killed init stops the machine instead.                            *)
KilledDies ==
  \A p \in Slots : killed[p] ~> (state[p] \in {"ZOMBIE", "UNUSED"} \/ pc[initproc] = "panic")
-----------------------------------------------------------------------------
(* Stated of the code, and false of it; no run checks these.                *)

(* panic("zombie exit") at proc.c:500 and 1241: sched() never returns to a  *)
(* slot past its exit.  It does when threads call exec() at the same time.  *)
NoZombieExit == \A p \in Slots : Running(p) => pc[p] # "dead"

(* README: threads of one process are told apart by their own tid.  Two     *)
(* CPUs can read the same nexttid (proc.c:1143).                            *)
TidUnique ==
  \A p, q \in Slots : InUse(p) /\ InUse(q) /\ tid[p] # 0 /\ tid[p] = tid[q] => p = q
=============================================================================
