-------------------------------- MODULE Mlfq --------------------------------
(***************************************************************************)
(* The multilevel feedback queue of the xv6 kernel (make                   *)
(* SCHED_POLICY=MLFQ_SCHED): scheduler() of proc.c on every CPU, the       *)
(* accounting of the timer interrupt in trap.c, and the system calls that  *)
(* reset it.  There is no queue in memory: each process carries its level, *)
(* the ticks it used there and a mark that it used up the last level, and  *)
(* each CPU remembers in `prev' the process it means to go on with.        *)
(*                                                                         *)
(* scheduler(), yield() and sleep() hold ptable.lock from the choice of a  *)
(* process to the switch and from the switch back to the update of `prev', *)
(* so each of the two is one step.  Processes are slots of ptable.proc;    *)
(* threads are left out, and so is EMBRYO, a state no scheduler looks at.  *)
(***************************************************************************)
EXTENDS Integers

CONSTANTS
  NPROC,        \* slots of the process table; slot 1 holds init
  CPUs,
  Boot,         \* the CPU that counts ticks (cpuid() = 0)
  K,            \* MLFQ_K, the number of levels
  Base, Step,   \* a quantum of level l is Base + Step*l ticks (the code: 2 and 4)
  Boost,        \* ticks from one boost to the next (the code: 100)
  Priorities    \* priorities that setpriority is called with (the code: 0..10)

ASSUME MlfqAssumption ==
  /\ NPROC \in Nat \ {0, 1}
  /\ Boot \in CPUs
  /\ {K, Base, Boost} \subseteq Nat \ {0} /\ Step \in Nat
  /\ Priorities \subseteq Nat

VARIABLES
  ticks,                                     \* the clock, modulo Boost
  state, parent, level, pticks, last_out, priority,   \* struct proc
  proc, prev, prev_lev                       \* of each CPU: c->proc, prev, prev_lev
queues == <<level, pticks, last_out>>
cpu == <<proc, prev, prev_lev>>
vars == <<ticks, state, parent, queues, priority, cpu>>

Slots == 1..NPROC
None == 0
initproc == 1
Quantum(l) == Base + Step * l

(* userinit() leaves init ready to run; every CPU enters scheduler().       *)
Init ==
  /\ ticks = 0
  /\ state = [s \in Slots |-> IF s = initproc THEN "RUNNABLE" ELSE "UNUSED"]
  /\ parent = [s \in Slots |-> None]
  /\ level = [s \in Slots |-> 0]
  /\ pticks = [s \in Slots |-> 0]
  /\ last_out = [s \in Slots |-> FALSE]
  /\ priority = [s \in Slots |-> 0]
  /\ proc = [c \in CPUs |-> None]
  /\ prev = [c \in CPUs |-> None]
  /\ prev_lev = [c \in CPUs |-> 0]
-----------------------------------------------------------------------------
(* scheduler()                                                              *)

(* What the loop over ptable keeps after it has looked at slot s.  The      *)
(* first runnable process is kept even when it is marked.                   *)
Better(s, tmp) ==
  level[s] < level[tmp] \/ (level[s] = level[tmp] /\ priority[s] > priority[tmp])
\* mutant: a later process of the same level is kept, whatever the priorities
MutKeep(tmp, s) ==
  IF state[s] = "RUNNABLE" /\ (tmp = None \/ (~last_out[s] /\ level[s] <= level[tmp]))
  THEN s ELSE tmp
Keep(tmp, s) ==
  IF state[s] = "RUNNABLE" /\ (s = initproc \/ tmp = None \/ (~last_out[s] /\ Better(s, tmp)))
  THEN s ELSE tmp

(* What it has kept after the first slots of the table, and after all.     *)
Best[s \in 0..NPROC] == IF s = 0 THEN None ELSE Keep(Best[s - 1], s)
Scan == Best[NPROC]

Choice(c) == IF prev[c] # None THEN prev[c] ELSE Scan

Schedule(c) ==
  /\ proc[c] = None
  /\ LET s == Choice(c)
     IN /\ s # None
        /\ state[s] = "RUNNABLE"
        /\ state' = [state EXCEPT ![s] = "RUNNING"]
        /\ proc' = [proc EXCEPT ![c] = s]
        /\ prev_lev' = [prev_lev EXCEPT ![c] = level[s]]
  /\ UNCHANGED <<ticks, parent, queues, priority, prev>>

(* The running process of CPU c stops in state st and the scheduler decides *)
(* whether to go on with it.                                                *)
MutGoesOn(c, st) == prev_lev[c] = level'[proc[c]] /\ ~last_out'[proc[c]]
GoesOn(c, st) ==
  prev_lev[c] = level'[proc[c]] /\ ~last_out'[proc[c]] /\ st = "RUNNABLE"

Back(c, st) ==
  /\ state' = [state EXCEPT ![proc[c]] = st]
  /\ prev' = [prev EXCEPT ![c] = IF GoesOn(c, st) THEN proc[c] ELSE None]
  /\ proc' = [proc EXCEPT ![c] = None]
  /\ prev_lev' = [prev_lev EXCEPT ![c] = 0]
-----------------------------------------------------------------------------
(* The timer interrupt                                                      *)

Clock(c) == IF c = Boot THEN (ticks + 1) % Boost ELSE ticks

(* A marked process runs on without its ticks being looked at: they stop    *)
(* counting here at the last quantum.                                       *)
Counted(s) == IF last_out[s] THEN pticks[s] ELSE pticks[s] + 1

Demotes(l) == l < K - 1

(* Only the process that was interrupted is boosted, and only at the tick.  *)
Timer(c) ==
  LET s == proc[c]
      boosted == Clock(c) = 0
      l == IF boosted THEN 0 ELSE level[s]
      t == IF boosted THEN 0 ELSE Counted(s)
      out == ~boosted /\ last_out[s]
      expired == ~out /\ t >= Quantum(l)
  IN /\ s # None
     /\ ticks' = Clock(c)
     /\ level' = [level EXCEPT ![s] = IF expired /\ Demotes(l) THEN l + 1 ELSE l]
     /\ pticks' = [pticks EXCEPT ![s] = IF expired /\ Demotes(l) THEN 0 ELSE t]
     /\ last_out' = [last_out EXCEPT ![s] = out \/ (expired /\ ~Demotes(l))]
     /\ Back(c, "RUNNABLE")
     /\ UNCHANGED <<parent, priority>>

(* The clock goes on while the boot CPU has nothing to run.                 *)
IdleTick ==
  /\ proc[Boot] = None
  /\ ticks' = Clock(Boot)
  /\ UNCHANGED <<state, parent, queues, priority, cpu>>
-----------------------------------------------------------------------------
(* System calls of the process that runs on CPU c                           *)

(* syscall() on the way into sleep and yield; the mark stays.               *)
Reset(s) ==
  /\ level' = [level EXCEPT ![s] = 0]
  /\ pticks' = [pticks EXCEPT ![s] = 0]
  /\ UNCHANGED last_out

Yield(c) ==
  /\ proc[c] # None
  /\ Reset(proc[c])
  /\ Back(c, "RUNNABLE")
  /\ UNCHANGED <<ticks, parent, priority>>

SysSleep(c) ==
  /\ proc[c] # None
  /\ Reset(proc[c])
  /\ Back(c, "SLEEPING")
  /\ UNCHANGED <<ticks, parent, priority>>

(* sleep(0), or a sleep of a killed process: the levels are reset and the   *)
(* process runs on.                                                         *)
SysSleepReturns(c) ==
  /\ proc[c] # None
  /\ Reset(proc[c])
  /\ UNCHANGED <<ticks, state, parent, priority, cpu>>

(* sleep() of the kernel: wait(), a pipe, the disk, a sleep lock.           *)
Sleep(c) ==
  /\ proc[c] # None
  /\ UNCHANGED <<ticks, parent, queues, priority>>
  /\ Back(c, "SLEEPING")

Wakeup(s) ==
  /\ state[s] = "SLEEPING"
  /\ state' = [state EXCEPT ![s] = "RUNNABLE"]
  /\ UNCHANGED <<ticks, parent, queues, priority, cpu>>

Unused(s) == state[s] = "UNUSED" /\ \A r \in 1..(s - 1) : state[r] # "UNUSED"

(* allocproc() and the rest of fork().  Its setpriority(pid, 0) has no      *)
(* effect, because the parent is not set yet: the priority that the last    *)
(* process of the slot had stays.                                           *)
MutNewborn(s) ==
  /\ level' = [level EXCEPT ![s] = 0]
  /\ last_out' = [last_out EXCEPT ![s] = FALSE]
  /\ UNCHANGED pticks
Newborn(s) ==
  /\ level' = [level EXCEPT ![s] = 0]
  /\ pticks' = [pticks EXCEPT ![s] = 0]
  /\ last_out' = [last_out EXCEPT ![s] = FALSE]

Fork(c, s) ==
  /\ proc[c] # None
  /\ Unused(s)
  /\ state' = [state EXCEPT ![s] = "RUNNABLE"]
  /\ parent' = [parent EXCEPT ![s] = proc[c]]
  /\ Newborn(s)
  /\ UNCHANGED <<ticks, priority, cpu>>

Setpriority(c, s, v) ==
  /\ proc[c] # None
  /\ state[s] # "UNUSED"
  /\ parent[s] = proc[c]
  /\ priority' = [priority EXCEPT ![s] = v]
  /\ UNCHANGED <<ticks, state, parent, queues, cpu>>

(* The timer interrupt of a killed process moves the clock before it exits. *)
Exit(c) ==
  /\ proc[c] \notin {None, initproc}
  /\ ticks' \in {ticks, Clock(c)}
  /\ parent' = [s \in Slots |-> IF parent[s] = proc[c] THEN initproc ELSE parent[s]]
  /\ UNCHANGED <<queues, priority>>
  /\ Back(c, "ZOMBIE")

Wait(c, s) ==
  /\ proc[c] # None
  /\ parent[s] = proc[c]
  /\ state[s] = "ZOMBIE"
  /\ state' = [state EXCEPT ![s] = "UNUSED"]
  /\ parent' = [parent EXCEPT ![s] = None]
  /\ UNCHANGED <<ticks, queues, priority, cpu>>

Next ==
  \/ IdleTick
  \/ \E s \in Slots : Wakeup(s)
  \/ \E c \in CPUs :
       \/ Schedule(c) \/ Timer(c) \/ Exit(c) \/ Sleep(c)
       \/ Yield(c) \/ SysSleep(c) \/ SysSleepReturns(c)
       \/ \E s \in Slots : Fork(c, s) \/ Wait(c, s)
       \/ \E s \in Slots, v \in Priorities : Setpriority(c, s, v)

Spec == Init /\ [][Next]_vars

(* The clock interrupts every CPU that runs a process, and every CPU loops  *)
(* in scheduler().                                                          *)
FairSpec == Spec /\ \A c \in CPUs : WF_vars(Schedule(c)) /\ WF_vars(Timer(c))
-----------------------------------------------------------------------------
(* Properties                                                               *)

TypeOK ==
  /\ ticks \in 0..(Boost - 1)
  /\ state \in [Slots -> {"UNUSED", "RUNNABLE", "RUNNING", "SLEEPING", "ZOMBIE"}]
  /\ parent \in [Slots -> Slots \cup {None}]
  /\ level \in [Slots -> 0..(K - 1)]
  /\ pticks \in [Slots -> 0..Quantum(K - 1)]
  /\ last_out \in [Slots -> BOOLEAN]
  /\ priority \in [Slots -> Nat]
  /\ proc \in [CPUs -> Slots \cup {None}]
  /\ prev \in [CPUs -> Slots \cup {None}]
  /\ prev_lev \in [CPUs -> 0..(K - 1)]

(* A process that has not used up the last level has not used up its own    *)
(* level either: quanta are cut at every timer interrupt, whatever the      *)
(* system calls, the boost and the reuse of slots did in between            *)
(* (trap.c:124-160, syscall.c:160-167, proc.c:97-102).                      *)
QuantumBound == \A s \in Slots : ~last_out[s] => pticks[s] < Quantum(level[s])

(* A CPU may wait for the process in its `prev' while another CPU runs it   *)
(* or has let it sleep; this never happens to all CPUs at once, so whatever *)
(* is runnable gets to run (proc.c:799-849).                                *)
SomeCpuFree ==
  \E c \in CPUs : proc[c] # None \/ prev[c] = None \/ state[prev[c]] = "RUNNABLE"

Outranks(p, q) ==
  level[p] < level[q] \/ (level[p] = level[q] /\ priority[p] >= priority[q])

(* A CPU that scans the table passes over no runnable unmarked process of a *)
(* better level, or of the same level and a higher priority, although it    *)
(* takes init and the first runnable process it meets unseen                *)
(* (proc.c:803-828).                                                        *)
PicksBest ==
  [][\A c \in CPUs, q \in Slots :
       /\ proc[c] = None /\ proc'[c] # None /\ prev[c] = None
       /\ state[q] = "RUNNABLE" /\ ~last_out[q]
       => Outranks(proc'[c], q)]_vars
-----------------------------------------------------------------------------
(* Stated of the code, and false of it; no run checks these.                *)

(* A marked process waits until the next boost, which lifts every process   *)
(* to level 0.  The boost resets only the process that is running, so of    *)
(* two processes that compute, the second in the table is never run again.  *)
BoostReaches == \A s \in Slots : last_out[s] ~> (~last_out[s] \/ state[s] # "RUNNABLE")

(* A marked process is left out while another one can run.  It is not when  *)
(* it comes first in the table and no other one outranks it.                *)
OutWaits ==
  [][\A c \in CPUs, q \in Slots :
       /\ proc[c] = None /\ proc'[c] # None /\ state[q] = "RUNNABLE" /\ ~last_out[q]
       => ~last_out[proc'[c]]]_vars

(* No CPU waits for a process that is not runnable: true of one CPU only.   *)
PrevRunnable ==
  \A c \in CPUs : proc[c] = None /\ prev[c] # None => state[prev[c]] = "RUNNABLE"

(* A new process starts with priority 0.                                    *)
NewbornPriority ==
  [][\A s \in Slots : state[s] = "UNUSED" /\ state'[s] # "UNUSED" => priority'[s] = 0]_vars
=============================================================================
