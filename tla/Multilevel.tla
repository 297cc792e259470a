----------------------------- MODULE Multilevel -----------------------------
(***************************************************************************)
(* The other two policies of scheduler() (make SCHED_POLICY=DEFAULT and    *)
(* SCHED_POLICY=MULTILEVEL_SCHED), beside MLFQ.  Both go through the table *)
(* in passes that are interrupted by every process they run, and keep      *)
(* their place in it.  MULTILEVEL_SCHED runs pid 1, pid 2 and the even     *)
(* pids as the pass meets them and collects the odd ones in a ring, whose  *)
(* first is run at the end of a pass that found no even pid at its start.  *)
(*                                                                         *)
(* A pass holds ptable.lock from the place where a process comes back to   *)
(* the switch to the next one: that is one step.                           *)
(***************************************************************************)
EXTENDS Mlfq, FiniteSets, FiniteSetsExt

CONSTANT Builds      \* what is looked at: [sched, cpus, ring, watch], ring being the places
                     \* of the ring (the code: 80), watch the slot whose waiting is counted

\* The code has more places (80) than slots (64).
ASSUME MultilevelAssumption ==
  \A b \in Builds :
    /\ b.sched \in {"MLFQ", "DEFAULT", "MULTILEVEL"}
    /\ b.cpus \subseteq CPUs /\ IsFiniteSet(b.cpus)
    /\ b.ring \in Nat \ {0}
    /\ b.sched = "MULTILEVEL" => b.ring > NPROC
    /\ b.watch \in Slots

VARIABLES mix,
          pid,         \* of each slot: 0, 1, 2, or 3 and 4 for any later odd and even one
          nextpid,     \* 2 until the shell is forked, then 3
          at,          \* of each CPU: the slot its pass has reached, 0 between passes
          even_exist,  \* of each CPU
          ring,        \* [arr, front, rear]
          turns,       \* history: how often a CPU ran q while mix.watch stood runnable
          strayed,     \* a CPU has yielded for a process that another CPU runs
          last,        \* history, on one CPU: the odd process that is to be run next
          wrapped      \* history, on one CPU: rear has come round

passes == <<pid, nextpid, at, even_exist, ring, turns, last, wrapped, strayed>>
allvars == <<vars, mix, passes>>

InRing == NPROC + 1     \* the place of a pass that runs the first of the ring
Odd(s) == pid[s] % 2 = 1 /\ pid[s] > 2

SchedInit ==
  /\ Init
  /\ mix \in Builds
  /\ pid = [s \in Slots |-> IF s = initproc THEN 1 ELSE 0]
  /\ nextpid = 2
  /\ at = [c \in CPUs |-> 0]
  /\ even_exist = [c \in CPUs |-> FALSE]
  /\ ring = [arr |-> [i \in 0..(mix.ring - 1) |-> None], front |-> 0, rear |-> 0]
  /\ turns = [c \in CPUs |-> [q \in Slots |-> 0]]
  /\ last = None
  /\ wrapped = FALSE
  /\ strayed = FALSE
-----------------------------------------------------------------------------
(* The ring.  A slot stays in it when its process is gone.  Places that are *)
(* not between front and rear are never read and stand for None: all of     *)
(* them when rear runs into front, which empties the ring.                  *)

Places == 0..(mix.ring - 1)
in_qu(r, s) == \E i \in r.front..(r.rear - 1) : r.arr[i] = s
emp(r) == r.front = r.rear
Added(r, s) == [r EXCEPT !.arr[r.rear] = s, !.rear = (@ + 1) % mix.ring]
Forgets(r) == IF emp(r) THEN [r EXCEPT !.arr = [i \in Places |-> None]] ELSE r
push(r, s) == IF in_qu(r, s) THEN r ELSE Forgets(Added(r, s))
pop(r) == [r EXCEPT !.arr[r.front] = None, !.front = (@ + 1) % mix.ring]
-----------------------------------------------------------------------------
(* A pass, with the table's states st and even_exist = e.                   *)

RunsHere(st, e, s) ==
  st[s] = "RUNNABLE" /\ (mix.sched = "DEFAULT" \/ pid[s] \in {1, 2} \/ (e /\ pid[s] = 4))
Stop(st, e, from) ==
  LET here == {s \in from..NPROC : RunsHere(st, e, s)}
  IN IF here = {} THEN None ELSE Min(here)

(* The ring when the pass has looked at the slots before `upto'.            *)
Collects(st, r, s) == IF st[s] = "RUNNABLE" /\ Odd(s) THEN push(r, s) ELSE r
Collected(st, from, upto) ==
  LET after[s \in 0..NPROC] == IF s < from THEN ring ELSE Collects(st, after[s - 1], s)
  IN after[upto - 1]

Runs(c, st, s, place) ==
  /\ state' = [st EXCEPT ![s] = "RUNNING"]
  /\ proc' = [proc EXCEPT ![c] = s]
  /\ at' = [at EXCEPT ![c] = place]
\* c->proc is reset after a process of the table has run, not after one of the ring.
Left(c) == IF at[c] \in Slots THEN None ELSE proc[c]
PassOver(c, st) ==
  /\ state' = st
  /\ proc' = [proc EXCEPT ![c] = Left(c)]
  /\ at' = [at EXCEPT ![c] = 0]

(* The end of a pass that has collected the ring r.                         *)
RingTurn(c, st, e, r) ==
  IF e \/ emp(r) \/ mix.sched = "DEFAULT"
  THEN ring' = r /\ PassOver(c, st)
  ELSE IF st[r.arr[r.front]] # "RUNNABLE"
  THEN ring' = pop(r) /\ PassOver(c, st)
  ELSE ring' = r /\ Runs(c, st, r.arr[r.front], InRing)

(* The pass of CPU c goes on from slot `from' to the next process it runs.  *)
\* mutant: it starts over after each process
MutGo(c, st, e, from) ==
  IF Stop(st, e, 1) # None
  THEN ring' = Collected(st, 1, Stop(st, e, 1)) /\ Runs(c, st, Stop(st, e, 1), Stop(st, e, 1))
  ELSE RingTurn(c, st, e, Collected(st, from, InRing))
Go(c, st, e, from) ==
  IF Stop(st, e, from) # None
  THEN ring' = Collected(st, from, Stop(st, e, from)) /\ Runs(c, st, Stop(st, e, from), Stop(st, e, from))
  ELSE RingTurn(c, st, e, Collected(st, from, InRing))

(* What a step of CPU c adds to the histories.                              *)
OneCpu == Cardinality(mix.cpus) = 1
Timely(s) == mix.sched = "DEFAULT" \/ pid[s] \in {1, 2, 4}
Recorded(c) ==
  /\ turns' = IF state'[mix.watch] # "RUNNABLE" \/ ~Timely(mix.watch)
              THEN [x \in CPUs |-> [q \in Slots |-> 0]]
              ELSE IF at'[c] = 0 \/ turns[c][proc'[c]] = 3 THEN turns
              ELSE [turns EXCEPT ![c][proc'[c]] = @ + 1]
  /\ IF OneCpu
     THEN /\ last' = IF at'[c] = InRing THEN proc'[c]
                     ELSE IF last # None /\ state'[last] \in {"SLEEPING", "ZOMBIE"} THEN None ELSE last
          /\ wrapped' = (wrapped \/ ring'.rear < ring.rear)
     ELSE UNCHANGED <<last, wrapped>>

PassStart(c) ==
  /\ at[c] = 0
  /\ even_exist' = [even_exist EXCEPT ![c] = \E s \in Slots : state[s] = "RUNNABLE" /\ pid[s] = 4]
  /\ Go(c, state, even_exist'[c], 1)
  /\ Recorded(c)
  /\ UNCHANGED <<ticks, parent, queues, priority, prev, prev_lev, pid, nextpid, strayed>>

(* The process of CPU c stops in state st; one from the ring ends the pass. *)
ComesBack(c, st) ==
  /\ at[c] # 0
  /\ IF at[c] = InRing
     THEN ring' = ring /\ PassOver(c, [state EXCEPT ![proc[c]] = st])
     ELSE Go(c, [state EXCEPT ![proc[c]] = st], even_exist[c], at[c] + 1)
  /\ Recorded(c)
  /\ UNCHANGED <<ticks, queues, priority, prev, prev_lev, pid, nextpid, even_exist, strayed>>
-----------------------------------------------------------------------------
(* What the processes do: the calls of Mlfq, with the pids they set.        *)

PassTimer(c) == ComesBack(c, "RUNNABLE") /\ UNCHANGED parent
PassSleep(c) == ComesBack(c, "SLEEPING") /\ UNCHANGED parent
PassExit(c) ==
  /\ proc[c] # initproc
  /\ parent' = [s \in Slots |-> IF parent[s] = proc[c] THEN initproc ELSE parent[s]]
  /\ ComesBack(c, "ZOMBIE")
PassWakeup(s) == Wakeup(s) /\ UNCHANGED passes
PassFork(c, s) ==
  /\ at[c] # 0 /\ Fork(c, s)
  /\ \E n \in IF nextpid = 2 THEN {2} ELSE {3, 4} : pid' = [pid EXCEPT ![s] = n]
  /\ nextpid' = 3
  /\ UNCHANGED <<at, even_exist, ring, turns, last, wrapped, strayed>>
PassWait(c, s) ==
  /\ at[c] # 0 /\ Wait(c, s)
  /\ pid' = [pid EXCEPT ![s] = 0]
  /\ UNCHANGED <<nextpid, at, even_exist, ring, turns, last, wrapped, strayed>>

(* The timer interrupts CPU c between two passes.  With the process of the  *)
(* ring left in c->proc and running elsewhere, trap() yields for it: it is  *)
(* made runnable while it runs and gets this CPU's context.  What comes     *)
(* after is not defined.                                                    *)
StrayTimer(c) ==
  /\ at[c] = 0 /\ proc[c] # None
  /\ state[proc[c]] = "RUNNING"
  /\ state' = [state EXCEPT ![proc[c]] = "RUNNABLE"]
  /\ strayed' = TRUE
  /\ UNCHANGED <<ticks, parent, queues, priority, cpu, pid, nextpid, at, even_exist, ring, turns, last, wrapped>>

PassNext ==
  \/ \E s \in Slots : PassWakeup(s)
  \/ \E c \in mix.cpus :
       \/ PassStart(c) \/ PassTimer(c) \/ PassSleep(c) \/ PassExit(c) \/ StrayTimer(c)
       \/ \E s \in Slots : PassFork(c, s) \/ PassWait(c, s)

SchedNext ==
  /\ UNCHANGED mix
  /\ \/ mix.sched = "MLFQ" /\ Next /\ UNCHANGED passes
     \/ mix.sched # "MLFQ" /\ ~strayed /\ PassNext
     \/ strayed /\ UNCHANGED <<vars, passes>>

SchedSpec == SchedInit /\ [][SchedNext]_allvars
-----------------------------------------------------------------------------
(* A process waits its turn and no longer.  While one that passes run (any  *)
(* under DEFAULT; an even pid, 1 or 2 under MULTILEVEL_SCHED) stands        *)
(* runnable, no CPU runs another one a second time: a third time when       *)
(* even_exist is of before it became runnable.  An odd process that was     *)
(* interrupted goes on before any other odd one (file system/README.md:116: *)
(* "FCFS"), on one CPU and as long as the ring has not come round: then     *)
(* in_qu finds nothing, the ring overflows and forgets who was first.       *)
TurnsKept ==
  /\ \A c \in CPUs, q \in Slots : turns[c][q] <= IF mix.sched = "DEFAULT" THEN 1 ELSE 2
  /\ last # None /\ ~wrapped => ring.arr[ring.front] = last
-----------------------------------------------------------------------------
(* Stated of the code, and false of it under MULTILEVEL_SCHED; no run       *)
(* checks it.  proc.h:10: "The process running on this cpu or null".        *)
CpuProc ==
  \A c \in CPUs : mix.sched # "MLFQ" /\ proc[c] # None => at[c] # 0
=============================================================================
