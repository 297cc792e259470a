---------------------------- MODULE Mlfq_proofs ----------------------------
(***************************************************************************)
(* Proofs about Mlfq: what the timer interrupt, the system calls and the   *)
(* reuse of slots do to the accounting; which process a scan of the table  *)
(* finds; and that the CPUs never all wait.  Then about Multilevel: what a *)
(* pass over the table runs and collects, and that processes wait their    *)
(* turn.  For any number of processes, CPUs and levels, any quanta and any *)
(* ring longer than the table.                                             *)
(***************************************************************************)
EXTENDS Multilevel, FiniteSetTheorems, WellFoundedInduction, TLAPS

(* The fields that the accounting reads and writes.                         *)
QueuesOK ==
  /\ level \in [Slots -> 0..(K - 1)]
  /\ pticks \in [Slots -> Nat]
  /\ last_out \in [Slots -> BOOLEAN]

IInv == QueuesOK /\ QuantumBound

LEMMA QuantumPositive ==
  ASSUME NEW l \in Nat
  PROVE  Quantum(l) \in Nat \ {0}
  BY MlfqAssumption DEF Quantum

LEMMA InitIInv == Init => IInv
  BY MlfqAssumption, QuantumPositive DEF Init, IInv, QueuesOK, QuantumBound

(* A process that starts over at level 0 is below the quantum of level 0;    *)
(* the others are where they were.                                          *)
LEMMA StartsOver ==
  ASSUME IInv, NEW s,
         level' = [level EXCEPT ![s] = 0],
         pticks' = [pticks EXCEPT ![s] = 0],
         last_out' \in [Slots -> BOOLEAN],
         \A q \in Slots \ {s} : last_out'[q] = last_out[q]
  PROVE  IInv'
<1>1. QueuesOK'
  <2>1. 0 \in 0..(K - 1)
    BY MlfqAssumption
  <2> QED BY <2>1 DEF IInv, QueuesOK
<1>2. ASSUME NEW q \in Slots, ~last_out'[q]
      PROVE  pticks'[q] < Quantum(level'[q])
  <2>1. CASE q = s
    <3>1. level'[q] = 0 /\ pticks'[q] = 0
      BY <2>1 DEF IInv, QueuesOK
    <3> QED BY <3>1, QuantumPositive
  <2>2. CASE q # s
    BY <1>2, <2>2 DEF IInv, QueuesOK, QuantumBound
  <2> QED BY <2>1, <2>2
<1> QED BY <1>1, <1>2 DEF IInv, QuantumBound, Quantum

LEMMA ResetKeeps ==
  ASSUME IInv, NEW s, Reset(s)
  PROVE  IInv'
  BY StartsOver DEF Reset, IInv, QueuesOK

LEMMA NewbornKeeps ==
  ASSUME IInv, NEW s, Newborn(s)
  PROVE  IInv'
  BY StartsOver DEF Newborn, IInv, QueuesOK

LEMMA QueuesKept ==
  ASSUME IInv, UNCHANGED queues
  PROVE  IInv'
  BY DEF IInv, QueuesOK, QuantumBound, queues, Quantum

(* The timer interrupt charges one tick: an unmarked process that is not    *)
(* moved or marked is still below its quantum.                              *)
LEMMA TimerKeeps ==
  ASSUME IInv, NEW c \in CPUs, Timer(c)
  PROVE  IInv'
<1> DEFINE s == proc[c]
           boosted == Clock(c) = 0
           l == IF boosted THEN 0 ELSE level[s]
           t == IF boosted THEN 0 ELSE Counted(s)
           out == ~boosted /\ last_out[s]
           expired == ~out /\ t >= Quantum(l)
<1>1. /\ level' = [level EXCEPT ![s] = IF expired /\ Demotes(l) THEN l + 1 ELSE l]
      /\ pticks' = [pticks EXCEPT ![s] = IF expired /\ Demotes(l) THEN 0 ELSE t]
      /\ last_out' = [last_out EXCEPT ![s] = out \/ (expired /\ ~Demotes(l))]
  BY DEF Timer
<1>2. CASE s \notin Slots
  <2>1. level' = level /\ pticks' = pticks /\ last_out' = last_out
    BY <1>1, <1>2 DEF IInv, QueuesOK
  <2> QED BY <2>1, QueuesKept DEF queues
<1>3. CASE s \in Slots
  <2>1. l \in 0..(K - 1) /\ t \in Nat /\ out \in BOOLEAN /\ K \in Nat \ {0}
    BY <1>3, MlfqAssumption DEF IInv, QueuesOK, Counted
  <2>2. QueuesOK'
    BY <1>1, <1>3, <2>1 DEF IInv, QueuesOK, Demotes
  <2>3. ASSUME NEW q \in Slots, ~last_out'[q]
        PROVE  pticks'[q] < Quantum(level'[q])
    <3>1. CASE q # s
      BY <1>1, <2>3, <3>1 DEF IInv, QueuesOK, QuantumBound
    <3>2. CASE q = s
      <4>1. ~out /\ (expired => Demotes(l))
        BY <1>1, <1>3, <2>3, <3>2 DEF IInv, QueuesOK
      <4>2. CASE expired
        <5>1. pticks'[q] = 0 /\ level'[q] = l + 1
          BY <1>1, <1>3, <3>2, <4>1, <4>2 DEF IInv, QueuesOK
        <5> QED BY <5>1, <2>1, QuantumPositive
      <4>3. CASE ~expired
        <5>1. pticks'[q] = t /\ level'[q] = l
          BY <1>1, <1>3, <3>2, <4>3 DEF IInv, QueuesOK
        <5>2. Quantum(l) \in Nat
          BY <2>1, QuantumPositive
        <5> QED BY <5>1, <5>2, <2>1, <4>1, <4>3
      <4> QED BY <4>2, <4>3
    <3> QED BY <3>1, <3>2
  <2> QED BY <2>2, <2>3 DEF IInv, QuantumBound, Quantum
<1> QED BY <1>2, <1>3

LEMMA NextIInv == IInv /\ [Next]_vars => IInv'
<1> SUFFICES ASSUME IInv, [Next]_vars
             PROVE  IInv'
  OBVIOUS
<1>1. CASE UNCHANGED vars
  BY <1>1, QueuesKept DEF vars, queues
<1>2. CASE IdleTick
  BY <1>2, QueuesKept DEF IdleTick, queues
<1>3. ASSUME NEW s \in Slots, Wakeup(s)
      PROVE  IInv'
  BY <1>3, QueuesKept DEF Wakeup, queues
<1>4. ASSUME NEW c \in CPUs, Schedule(c) \/ Exit(c) \/ Sleep(c)
      PROVE  IInv'
  BY <1>4, QueuesKept DEF Schedule, Exit, Sleep, queues
<1>5. ASSUME NEW c \in CPUs, Timer(c)
      PROVE  IInv'
  BY <1>5, TimerKeeps
<1>6. ASSUME NEW c \in CPUs, Yield(c) \/ SysSleep(c) \/ SysSleepReturns(c)
      PROVE  IInv'
  BY <1>6, ResetKeeps DEF Yield, SysSleep, SysSleepReturns
<1>7. ASSUME NEW c \in CPUs, NEW s \in Slots, Fork(c, s)
      PROVE  IInv'
  BY <1>7, NewbornKeeps DEF Fork
<1>8. ASSUME NEW c \in CPUs, NEW s \in Slots, NEW v \in Priorities, Setpriority(c, s, v)
      PROVE  IInv'
  BY <1>8, QueuesKept DEF Setpriority, queues
<1>9. ASSUME NEW c \in CPUs, NEW s \in Slots, Wait(c, s)
      PROVE  IInv'
  BY <1>9, QueuesKept DEF Wait, queues
<1> QED BY <1>1, <1>2, <1>3, <1>4, <1>5, <1>6, <1>7, <1>8, <1>9 DEF Next

(* No unmarked process keeps a level beyond its quantum: the boost, the     *)
(* system calls that reset a process and the reuse of its slot included     *)
(* (trap.c:124-160), for all sizes.                                         *)
THEOREM QuantaRespected == Spec => []QuantumBound
<1>1. IInv => QuantumBound
  BY DEF IInv
<1> QED BY <1>1, InitIInv, NextIInv, PTL DEF Spec
-----------------------------------------------------------------------------
(* What the scheduler reads besides the queues.                             *)
TableOK ==
  /\ state \in [Slots -> {"UNUSED", "RUNNABLE", "RUNNING", "SLEEPING", "ZOMBIE"}]
  /\ priority \in [Slots -> Nat]
  /\ proc \in [CPUs -> Slots \cup {None}]
  /\ prev \in [CPUs -> Slots \cup {None}]

LEMMA NatMin ==
  ASSUME NEW S, S \subseteq Nat, S # {}
  PROVE  \E m \in S : \A n \in S : m <= n
<1> DEFINE R == {ss \in Nat \X Nat : ss[1] < ss[2]}
<1>1. IsWellFoundedOn(R, Nat)
  BY NatLessThanWellFounded, Zenon DEF OpToRel
<1>2. PICK m \in S : \A n \in S : ~(<<n, m>> \in R)
  <2> HIDE DEF R
  <2> QED BY <1>1, WFMin
<1>3. ASSUME NEW n \in S PROVE m <= n
  <2>1. m \in Nat /\ n \in Nat
    OBVIOUS
  <2>2. <<n, m>> \in R <=> n < m
    BY <2>1
  <2> QED BY <1>2, <2>1, <2>2
<1> QED BY <1>3

(* What holds of 0 and of the next number holds up to NPROC.                *)
LEMMA UpToNPROC ==
  ASSUME NEW S, 0 \in S, \A k \in 0..(NPROC - 1) : k \in S => k + 1 \in S
  PROVE  0..NPROC \subseteq S
<1>1. NPROC \in Nat
  BY MlfqAssumption
<1>2. SUFFICES ASSUME (0..NPROC) \ S # {} PROVE FALSE
  OBVIOUS
<1>3. PICK m \in (0..NPROC) \ S : \A n \in (0..NPROC) \ S : m <= n
  <2>1. (0..NPROC) \ S \subseteq Nat
    BY <1>1
  <2> QED BY <1>2, <2>1, NatMin
<1>4. m # 0 /\ m - 1 \in 0..(NPROC - 1) /\ m - 1 \in 0..NPROC
  BY <1>1, <1>3
<1>5. m - 1 \in S
  BY <1>3, <1>4
<1> QED BY <1>3, <1>4, <1>5

(* The loop over the table, slot by slot.                                   *)
LEMMA BestStep ==
  /\ Best[0] = None
  /\ \A k \in 1..NPROC : Best[k] = Keep(Best[k - 1], k)
<1>1. NPROC \in Nat
  BY MlfqAssumption
<1> DEFINE Upto(f, k) == /\ f = [j \in 0..NPROC |-> f[j]]
                         /\ f[0] = None
                         /\ \A j \in 1..k : f[j] = Keep(f[j - 1], j)
           S == {k \in 0..NPROC : \E f : Upto(f, k)}
           all == [s \in 0..NPROC |-> None]
<1>2. 0 \in S
  <2>1. Upto(all, 0)
    BY <1>1
  <2>2. 0 \in 0..NPROC
    BY <1>1
  <2> HIDE DEF Upto
  <2> QED BY <2>1, <2>2
<1>3. ASSUME NEW k \in 0..(NPROC - 1), k \in S PROVE k + 1 \in S
  <2>1. PICK f : Upto(f, k)
    BY <1>3
  <2> DEFINE g == [j \in 0..NPROC |-> IF j = k + 1 THEN Keep(f[k], j) ELSE f[j]]
  <2>2. g = [j \in 0..NPROC |-> g[j]]
    OBVIOUS
  <2>3. g[0] = None /\ k + 1 \in 0..NPROC
    <3>1. 0 \in 0..NPROC /\ 0 # k + 1 /\ k + 1 \in 0..NPROC
      BY <1>1
    <3>2. f[0] = None
      BY <2>1
    <3> QED BY <3>1, <3>2
  <2>4. ASSUME NEW j \in 1..(k + 1) PROVE g[j] = Keep(g[j - 1], j)
    <3>1. j - 1 \in 0..NPROC /\ j - 1 # k + 1 /\ j \in 0..NPROC
      BY <1>1
    <3>2. g[j - 1] = f[j - 1]
      BY <3>1
    <3>3. CASE j = k + 1
      BY <3>1, <3>2, <3>3
    <3>4. CASE j # k + 1
      <4>1. j \in 1..k /\ g[j] = f[j]
        BY <1>1, <3>1, <3>4
      <4> QED BY <2>1, <3>2, <4>1
    <3> QED BY <3>3, <3>4
  <2>5. Upto(g, k + 1)
    <3> HIDE DEF g
    <3> QED BY <2>2, <2>3, <2>4
  <2> HIDE DEF g, Upto
  <2> QED BY <2>3, <2>5
<1>4. NPROC \in S
  <2> HIDE DEF S
  <2>1. 0..NPROC \subseteq S
    BY <1>2, <1>3, UpToNPROC
  <2> QED BY <1>1, <2>1
<1>5. PICK f : Upto(f, NPROC)
  BY <1>4
<1>6. f = [s \in 0..NPROC |-> IF s = 0 THEN None ELSE Keep(f[s - 1], s)]
  <2>1. ASSUME NEW s \in 0..NPROC PROVE f[s] = IF s = 0 THEN None ELSE Keep(f[s - 1], s)
    <3>1. CASE s = 0
      BY <1>5, <3>1
    <3>2. CASE s # 0
      <4>1. s \in 1..NPROC
        BY <1>1, <3>2
      <4> QED BY <1>5, <3>2, <4>1
    <3> QED BY <3>1, <3>2
  <2> QED BY <1>5, <2>1
<1>7. Best = [s \in 0..NPROC |-> IF s = 0 THEN None ELSE Keep(Best[s - 1], s)]
  <2> HIDE DEF Upto
  <2> QED BY <1>6 DEF Best
<1>8. 0 \in 0..NPROC /\ \A k \in 1..NPROC : k \in 0..NPROC /\ k # 0
  BY <1>1
<1> QED BY <1>7, <1>8

(* After k slots the loop has kept nothing, all of them being out of the    *)
(* running, or one that outranks the unmarked ones among them.              *)
Picked(t, k) ==
  /\ t \in Slots \cup {None}
  /\ t = None => \A q \in 1..k : state[q] # "RUNNABLE"
  /\ t # None => /\ state[t] = "RUNNABLE"
                 /\ \A q \in 1..k : state[q] = "RUNNABLE" /\ ~last_out[q] => Outranks(t, q)

LEMMA KeepPicks ==
  ASSUME QueuesOK, TableOK, NEW k \in 0..(NPROC - 1), NEW t, Picked(t, k)
  PROVE  Picked(Keep(t, k + 1), k + 1)
<1> DEFINE s == k + 1
<1>1. s \in Slots /\ s # None /\ k \in Nat /\ \A q \in 1..s : q \in 1..k \/ q = s
  BY MlfqAssumption DEF Slots, None
<1>2. \A q \in 1..k : q \in Slots
  BY MlfqAssumption DEF Slots
<1>3. \A q \in Slots : level[q] \in Nat /\ priority[q] \in Nat
  BY MlfqAssumption DEF QueuesOK, TableOK
<1>4. s = initproc => k = 0
  BY <1>1 DEF initproc
<1> HIDE DEF s
<1>5. CASE state[s] # "RUNNABLE"
  <2>1. Keep(t, s) = t
    BY <1>5 DEF Keep
  <2> QED BY <1>1, <1>5, <2>1 DEF Picked, s
<1>6. CASE state[s] = "RUNNABLE" /\ (s = initproc \/ t = None)
  <2>1. Keep(t, s) = s
    BY <1>6 DEF Keep
  <2>2. Outranks(s, s)
    BY <1>1, <1>3 DEF Outranks
  <2>3. \A q \in 1..k : state[q] # "RUNNABLE"
    BY <1>1, <1>4, <1>6 DEF Picked
  <2> QED BY <1>1, <1>6, <2>1, <2>2, <2>3 DEF Picked, s
<1>7. CASE state[s] = "RUNNABLE" /\ s # initproc /\ t # None
  <2>1. t \in Slots /\ state[t] = "RUNNABLE"
    BY <1>7 DEF Picked
  <2>2. CASE last_out[s]
    <3>1. Keep(t, s) = t
      BY <1>7, <2>2 DEF Keep
    <3> QED BY <1>1, <1>7, <2>1, <2>2, <3>1 DEF Picked, s
  <2>3. CASE ~last_out[s]
    <3>1. CASE Better(s, t)
      <4>1. Keep(t, s) = s
        BY <1>7, <2>3, <3>1 DEF Keep
      <4>2. Outranks(s, s)
        BY <1>1, <1>3 DEF Outranks
      <4>3. ASSUME NEW q \in 1..k, Outranks(t, q) PROVE Outranks(s, q)
        BY <1>1, <1>2, <1>3, <2>1, <3>1, <4>3 DEF Outranks, Better
      <4> QED BY <1>1, <1>7, <4>1, <4>2, <4>3 DEF Picked, s
    <3>2. CASE ~Better(s, t)
      <4>1. Keep(t, s) = t
        BY <1>7, <2>3, <3>2 DEF Keep
      <4>2. Outranks(t, s)
        BY <1>1, <1>3, <2>1, <3>2 DEF Outranks, Better
      <4> QED BY <1>1, <1>7, <2>1, <4>1, <4>2 DEF Picked, s
    <3> QED BY <3>1, <3>2
  <2> QED BY <2>2, <2>3
<1> QED BY <1>5, <1>6, <1>7 DEF s

LEMMA ScanPicks ==
  ASSUME QueuesOK, TableOK
  PROVE  Picked(Scan, NPROC)
<1> DEFINE S == {k \in 0..NPROC : Picked(Best[k], k)}
<1>1. NPROC \in Nat /\ 0 \in 0..NPROC
  BY MlfqAssumption
<1>2. 0 \in S
  BY <1>1, BestStep DEF Picked
<1>3. ASSUME NEW k \in 0..(NPROC - 1), k \in S PROVE k + 1 \in S
  <2>1. k + 1 \in 1..NPROC /\ k + 1 \in 0..NPROC /\ (k + 1) - 1 = k
    BY <1>1
  <2>2. Best[k + 1] = Keep(Best[k], k + 1)
    BY <2>1, BestStep
  <2> QED BY <1>3, <2>1, <2>2, KeepPicks
<1>4. NPROC \in S
  <2>1. 0..NPROC \subseteq S
    <3> HIDE DEF S
    <3> QED BY <1>2, <1>3, UpToNPROC
  <2> QED BY <1>1, <2>1
<1> QED BY <1>4 DEF Scan

LEMMA InitTable == Init => TableOK
  BY MlfqAssumption DEF Init, TableOK, Slots, None, initproc

(* Both ways in which a CPU changes what it runs.                           *)
LEMMA ScheduleTable ==
  ASSUME QueuesOK, TableOK, NEW c \in CPUs, Schedule(c)
  PROVE  TableOK' /\ proc'[c] # None
<1>1. Choice(c) \in Slots /\ Choice(c) # None
  <2>1. Choice(c) # None
    BY DEF Schedule
  <2>2. Scan \in Slots \cup {None}
    BY ScanPicks DEF Picked
  <2> QED BY <2>1, <2>2 DEF Choice, TableOK
<1> QED BY <1>1 DEF Schedule, TableOK

LEMMA BackTable ==
  ASSUME TableOK, NEW c \in CPUs, NEW st \in {"RUNNABLE", "SLEEPING", "ZOMBIE"},
         proc[c] # None, Back(c, st), UNCHANGED priority
  PROVE  /\ TableOK' /\ proc'[c] = None
         /\ prev'[c] = None \/ state'[prev'[c]] = "RUNNABLE"
         /\ \A d \in CPUs \ {c} : proc'[d] = proc[d]
<1>1. proc[c] \in Slots
  BY DEF TableOK
<1>2. TableOK'
  BY <1>1 DEF Back, TableOK
<1>3. prev'[c] = None \/ (prev'[c] = proc[c] /\ st = "RUNNABLE")
  BY DEF Back, GoesOn, TableOK
<1>4. state'[proc[c]] = st
  BY <1>1 DEF Back, TableOK
<1> QED BY <1>2, <1>3, <1>4 DEF Back, TableOK

(* What every step of Mlfq does to the table: CPU c takes a process or lets *)
(* one go, or none does and what was runnable stays so.                     *)
Takes(c) == Schedule(c)
LetsGo(c) ==
  /\ proc[c] # None /\ proc'[c] = None
  /\ prev'[c] = None \/ state'[prev'[c]] = "RUNNABLE"
  /\ \A d \in CPUs \ {c} : proc'[d] = proc[d]
GoOn ==
  /\ UNCHANGED <<proc, prev>>
  /\ (\E c \in CPUs : proc[c] # None)
     \/ \A s \in Slots : state[s] = "RUNNABLE" => state'[s] = "RUNNABLE"

LEMMA NextTable ==
  ASSUME QueuesOK, TableOK, [Next]_vars
  PROVE  /\ TableOK'
         /\ GoOn \/ \E c \in CPUs : Takes(c) \/ LetsGo(c)
<1>1. CASE UNCHANGED vars
  BY <1>1 DEF vars, cpu, TableOK, GoOn
<1>2. CASE IdleTick
  BY <1>2 DEF IdleTick, cpu, TableOK, GoOn
<1>3. ASSUME NEW s \in Slots, Wakeup(s)
      PROVE  TableOK' /\ GoOn
  BY <1>3 DEF Wakeup, cpu, TableOK, GoOn
<1>4. ASSUME NEW c \in CPUs, Schedule(c)
      PROVE  TableOK' /\ Takes(c)
  BY <1>4, ScheduleTable DEF Takes
<1>5. ASSUME NEW c \in CPUs, Timer(c) \/ Yield(c) \/ SysSleep(c) \/ Sleep(c) \/ Exit(c)
      PROVE  TableOK' /\ LetsGo(c)
  <2>1. PICK st \in {"RUNNABLE", "SLEEPING", "ZOMBIE"} : Back(c, st) /\ UNCHANGED priority
    BY <1>5 DEF Timer, Yield, SysSleep, Sleep, Exit
  <2>2. proc[c] # None
    BY <1>5 DEF Timer, Yield, SysSleep, Sleep, Exit
  <2> QED BY <2>1, <2>2, BackTable DEF LetsGo
<1>6. ASSUME NEW c \in CPUs, SysSleepReturns(c)
      PROVE  TableOK' /\ GoOn
  BY <1>6 DEF SysSleepReturns, cpu, TableOK, GoOn
<1>7. ASSUME NEW c \in CPUs, NEW s \in Slots, Fork(c, s) \/ Wait(c, s)
      PROVE  TableOK' /\ GoOn
  BY <1>7 DEF Fork, Wait, cpu, TableOK, GoOn
<1>8. ASSUME NEW c \in CPUs, NEW s \in Slots, NEW v \in Priorities, Setpriority(c, s, v)
      PROVE  TableOK' /\ GoOn
  BY <1>8, MlfqAssumption DEF Setpriority, cpu, TableOK, GoOn
<1> QED BY <1>1, <1>2, <1>3, <1>4, <1>5, <1>6, <1>7, <1>8 DEF Next

(* Queues and table are typed in every state.                               *)
LEMMA Typed == Spec => [](IInv /\ TableOK)
<1>1. IInv /\ TableOK /\ [Next]_vars => TableOK'
  BY NextTable DEF IInv
<1> QED BY <1>1, InitIInv, NextIInv, InitTable, PTL DEF Spec

(* A CPU that lets its process go is not left waiting, and while no CPU     *)
(* runs anything nothing stops being runnable (proc.c:799-849): the CPUs    *)
(* never all wait, for any number of them.                                  *)
THEOREM SomeCpuFreeHolds == Spec => []SomeCpuFree
<1>1. Init => SomeCpuFree
  BY MlfqAssumption DEF Init, SomeCpuFree
<1>2. ASSUME IInv, TableOK, SomeCpuFree, [Next]_vars
      PROVE  SomeCpuFree'
  <2>1. CASE GoOn
    <3>1. PICK c \in CPUs : proc[c] # None \/ (prev[c] = None \/ state[prev[c]] = "RUNNABLE")
      BY <1>2 DEF SomeCpuFree
    <3>2. CASE \E d \in CPUs : proc[d] # None
      BY <2>1, <3>2 DEF GoOn, SomeCpuFree
    <3>3. CASE ~\E d \in CPUs : proc[d] # None
      <4>1. prev'[c] = None \/ (prev[c] \in Slots /\ state[prev[c]] = "RUNNABLE")
        BY <1>2, <2>1, <3>1, <3>3 DEF GoOn, TableOK
      <4>2. prev'[c] = prev[c]
        BY <2>1 DEF GoOn
      <4>3. prev'[c] = None \/ state'[prev'[c]] = "RUNNABLE"
        BY <2>1, <3>3, <4>1, <4>2 DEF GoOn
      <4> QED BY <4>3 DEF SomeCpuFree
    <3> QED BY <3>2, <3>3
  <2>2. ASSUME NEW c \in CPUs, Takes(c)
        PROVE  SomeCpuFree'
    <3>1. proc'[c] # None
      BY <1>2, <2>2, ScheduleTable DEF Takes, IInv
    <3> QED BY <3>1 DEF SomeCpuFree
  <2>3. ASSUME NEW c \in CPUs, LetsGo(c)
        PROVE  SomeCpuFree'
    BY <2>3 DEF LetsGo, SomeCpuFree
  <2> QED BY <1>2, <2>1, <2>2, <2>3, NextTable DEF IInv
<1> QED BY <1>1, <1>2, Typed, PTL DEF Spec

(* A scan of the table passes over no runnable unmarked process that        *)
(* outranks what it finds, although it takes init and the first runnable    *)
(* process unseen (proc.c:803-828), for any table, levels and priorities.   *)
THEOREM PicksBestHolds == Spec => PicksBest
<1>1. ASSUME IInv, TableOK, [Next]_vars, NEW c \in CPUs, NEW q \in Slots,
             proc[c] = None, proc'[c] # None, prev[c] = None,
             state[q] = "RUNNABLE", ~last_out[q]
      PROVE  Outranks(proc'[c], q)
  <2>1. Schedule(c)
    <3>1. PICK d \in CPUs : Takes(d) \/ LetsGo(d)
      BY <1>1, NextTable DEF IInv, GoOn
    <3>2. ASSUME d # c PROVE proc'[c] = proc[c]
      BY <1>1, <3>1, <3>2 DEF Takes, LetsGo, Schedule, TableOK
    <3> QED BY <1>1, <3>1, <3>2 DEF Takes, LetsGo
  <2>2. proc'[c] = Scan
    BY <1>1, <2>1 DEF Schedule, Choice, TableOK
  <2>3. q \in 1..NPROC
    BY DEF Slots
  <2> QED BY <1>1, <2>2, <2>3, ScanPicks DEF Picked, IInv
<1>2. IInv /\ TableOK /\ [Next]_vars
      => [\A c \in CPUs, q \in Slots :
            /\ proc[c] = None /\ proc'[c] # None /\ prev[c] = None
            /\ state[q] = "RUNNABLE" /\ ~last_out[q]
            => Outranks(proc'[c], q)]_vars
  BY <1>1
<1> QED BY <1>2, Typed, PTL DEF Spec, PicksBest
-----------------------------------------------------------------------------
(* Passes over the table (Multilevel).                                      *)

PassTypes ==
  /\ state \in [Slots -> {"UNUSED", "RUNNABLE", "RUNNING", "SLEEPING", "ZOMBIE"}]
  /\ proc \in [CPUs -> Slots \cup {None}]
  /\ pid \in [Slots -> 0..4]
  /\ nextpid \in {2, 3}
  /\ at \in [CPUs -> 0..InRing]
  /\ even_exist \in [CPUs -> BOOLEAN]
  /\ turns \in [CPUs -> [Slots -> 0..3]]

(* Pid 1 is init's, and pid 2 is given once.                                *)
PidsGiven ==
  /\ pid[initproc] = 1 /\ state[initproc] \notin {"UNUSED", "ZOMBIE"}
  /\ \A s \in Slots \ {initproc} : pid[s] # 1 /\ (nextpid = 2 => pid[s] = 0)
  /\ \A s, t \in Slots : pid[s] = 2 /\ pid[t] = 2 => s = t

(* The places of the ring that are in use, and who may be in one.           *)
Held(r, i) ==
  IF r.front <= r.rear THEN r.front <= i /\ i < r.rear ELSE r.front <= i \/ i < r.rear
Rings == [arr : [Places -> Slots \cup {None}], front : Places, rear : Places]
Ringed(s) == s # initproc /\ pid[s] # 2 /\ nextpid = 3
RingOK(r) ==
  /\ r \in Rings
  /\ \A i \in Places : Held(r, i) => r.arr[i] # None
  /\ \A i \in Places : r.arr[i] # None => Ringed(r.arr[i])

LEMMA Numbers ==
  /\ NPROC \in Nat /\ NPROC > 1 /\ 1 \in Slots /\ None \notin Slots /\ InRing \notin Slots
  /\ \A s : s \in Slots <=> s \in Nat /\ 1 <= s /\ s <= NPROC
  BY MlfqAssumption DEF Slots, None, InRing

LEMMA SlotMin ==
  ASSUME NEW S, S \subseteq Nat, S # {}
  PROVE  Min(S) \in S /\ \A n \in S : Min(S) <= n
  BY NatMin DEF Min

(* The next process of a pass is the first that may run.                    *)
LEMMA StopIs ==
  ASSUME NEW st, NEW e, NEW from \in 1..InRing
  PROVE  LET b == Stop(st, e, from) IN
           \/ b = None /\ \A q \in from..NPROC : ~RunsHere(st, e, q)
           \/ /\ b \in from..NPROC /\ b \in Slots /\ b # None /\ RunsHere(st, e, b)
              /\ \A q \in from..(b - 1) : ~RunsHere(st, e, q)
<1> DEFINE all == {s \in from..NPROC : RunsHere(st, e, s)}
<1>0. from \in Nat /\ from >= 1 /\ NPROC \in Nat
  BY Numbers DEF InRing
<1>1. PICK here : here = all
  OBVIOUS
<1>2. Stop(st, e, from) = IF here = {} THEN None ELSE Min(here)
  BY <1>1 DEF Stop
<1>3. \A q : q \in here <=> q \in from..NPROC /\ RunsHere(st, e, q)
  BY <1>1
<1> HIDE DEF all
<1>4. CASE here = {}
  BY <1>2, <1>3, <1>4
<1>5. CASE here # {}
  <2>1. PICK b : b = Min(here)
    OBVIOUS
  <2>2. b \in here /\ \A n \in here : b <= n
    BY <1>0, <1>3, <1>5, <2>1, SlotMin
  <2>3. b \in from..NPROC /\ RunsHere(st, e, b)
    BY <1>3, <2>2
  <2>4. b \in Nat /\ b \in Slots /\ b # None
    BY <1>0, <2>3, Numbers DEF None
  <2>5. ASSUME NEW q \in from..(b - 1) PROVE ~RunsHere(st, e, q)
    <3>1. q \in from..NPROC /\ ~(b <= q)
      BY <1>0, <2>3, <2>4
    <3> QED BY <1>3, <2>2, <3>1
  <2> QED BY <1>2, <1>5, <2>1, <2>3, <2>4, <2>5
<1> QED BY <1>4, <1>5

LEMMA RingLength ==
  ASSUME mix \in Builds
  PROVE  /\ mix.ring \in Nat /\ mix.ring > 0 /\ Places = 0..(mix.ring - 1)
         /\ mix.sched = "MULTILEVEL" => mix.ring > NPROC
         /\ mix.watch \in Slots /\ mix.cpus \subseteq CPUs
         /\ mix.sched \in {"MLFQ", "DEFAULT", "MULTILEVEL"}
  BY MultilevelAssumption DEF Places

LEMMA NextPlace ==
  ASSUME mix \in Builds, NEW i \in Places
  PROVE  (i + 1) % mix.ring = IF i = mix.ring - 1 THEN 0 ELSE i + 1
  BY RingLength

LEMMA AddedIs ==
  ASSUME mix \in Builds, NEW r \in Rings, NEW s \in Slots
  PROVE  /\ Added(r, s) \in Rings /\ Added(r, s).front = r.front
         /\ Added(r, s).rear = IF r.rear = mix.ring - 1 THEN 0 ELSE r.rear + 1
         /\ \A i \in Places : Added(r, s).arr[i] = IF i = r.rear THEN s ELSE r.arr[i]
<1>1. r.rear \in Places /\ r.arr \in [Places -> Slots \cup {None}]
  BY DEF Rings
<1>2. (r.rear + 1) % mix.ring \in Places
  BY <1>1, NextPlace, RingLength
<1> QED BY <1>1, <1>2, NextPlace DEF Added, Rings

LEMMA PushOK ==
  ASSUME mix \in Builds, NEW r, RingOK(r), NEW s \in Slots, Ringed(s)
  PROVE  RingOK(push(r, s))
<1> DEFINE a == Added(r, s)
<1>0. r \in Rings /\ r.front \in Places /\ r.rear \in Places /\ a \in Rings /\ a.front \in Places /\ a.rear \in Places
  BY AddedIs DEF RingOK, Rings
<1>1. a.front = r.front /\ a.rear = (IF r.rear = mix.ring - 1 THEN 0 ELSE r.rear + 1)
      /\ \A i \in Places : a.arr[i] = IF i = r.rear THEN s ELSE r.arr[i]
  BY <1>0, AddedIs
<1> HIDE DEF a
<1>2. CASE emp(a)
  <2>1. Forgets(a) \in Rings /\ Forgets(a).front = Forgets(a).rear /\ \A i \in Places : Forgets(a).arr[i] = None
    BY <1>0, <1>2 DEF Forgets, Rings, emp
  <2> QED BY <1>0, <2>1, RingLength DEF push, RingOK, Held, a, Rings
<1>3. CASE ~emp(a)
  <2>1. Forgets(a) = a
    BY <1>3 DEF Forgets
  <2>2. ASSUME NEW i \in Places, Held(a, i) PROVE i = r.rear \/ Held(r, i)
    BY <1>0, <1>1, <1>3, <2>2, RingLength DEF Held, emp
  <2>3. RingOK(a)
    BY <1>0, <1>1, <2>2, Numbers DEF RingOK
  <2> QED BY <2>1, <2>3 DEF push, a
<1> QED BY <1>2, <1>3

LEMMA PopOK ==
  ASSUME mix \in Builds, NEW r, RingOK(r), ~emp(r)
  PROVE  RingOK(pop(r)) /\ pop(r).rear = r.rear
<1>0. r \in Rings /\ r.front \in Places /\ r.rear \in Places /\ r.front # r.rear
  BY DEF RingOK, Rings, emp
<1>1. (r.front + 1) % mix.ring = (IF r.front = mix.ring - 1 THEN 0 ELSE r.front + 1)
  BY <1>0, NextPlace
<1>2. (r.front + 1) % mix.ring \in Places
  BY <1>0, <1>1, RingLength
<1>3. pop(r) \in Rings /\ pop(r).rear = r.rear /\ pop(r).front = (r.front + 1) % mix.ring
      /\ \A i \in Places : pop(r).arr[i] = IF i = r.front THEN None ELSE r.arr[i]
  BY <1>0, <1>2 DEF pop, Rings
<1> DEFINE p == pop(r)
<1>4. p.front = (IF r.front = mix.ring - 1 THEN 0 ELSE r.front + 1) /\ p.rear = r.rear
  BY <1>1, <1>3
<1> HIDE DEF p
<1>5. ASSUME NEW i \in Places, Held(p, i) PROVE i # r.front /\ Held(r, i)
  BY <1>0, <1>4, <1>5, RingLength DEF Held
<1> QED BY <1>3, <1>5 DEF RingOK, p

(* The pass's loop over the table, slot by slot.                            *)
LEMMA CollectedStep ==
  ASSUME NEW st, NEW from \in 1..InRing
  PROVE  /\ Collected(st, from, from) = ring
         /\ \A s \in from..NPROC : Collected(st, from, s + 1) = Collects(st, Collected(st, from, s), s)
<1>0. /\ from \in Nat /\ from >= 1 /\ NPROC \in Nat /\ from <= NPROC + 1
      /\ from - 1 \in 0..NPROC /\ from - 1 < from
  BY Numbers DEF InRing
<1> DEFINE Upto(f, k) ==
             /\ f = [j \in 0..NPROC |-> f[j]]
             /\ \A j \in 0..k : f[j] = IF j < from THEN ring ELSE Collects(st, f[j - 1], j)
           S == {k \in 0..NPROC : \E f : Upto(f, k)}
           none == [s \in 0..NPROC |-> ring]
           after == CHOOSE f : f = [s \in 0..NPROC |-> IF s < from THEN ring ELSE Collects(st, f[s - 1], s)]
<1>1. 0 \in S
  <2>1. Upto(none, 0)
    BY <1>0
  <2> HIDE DEF Upto
  <2> QED BY <1>0, <2>1
<1>2. ASSUME NEW k \in 0..(NPROC - 1), k \in S PROVE k + 1 \in S
  <2>1. PICK f : Upto(f, k)
    BY <1>2
  <2> DEFINE g == [j \in 0..NPROC |-> IF j <= k THEN f[j]
                                      ELSE IF j < from THEN ring ELSE Collects(st, f[k], j)]
  <2>2. g = [j \in 0..NPROC |-> g[j]]
    OBVIOUS
  <2>3. ASSUME NEW j \in 0..(k + 1)
        PROVE  g[j] = IF j < from THEN ring ELSE Collects(st, g[j - 1], j)
    <3>1. j \in 0..NPROC
      BY <1>0
    <3>2. CASE j <= k
      <4>1. j \in 0..k /\ g[j] = f[j]
        BY <3>1, <3>2
      <4>2. j >= from => j - 1 \in 0..NPROC /\ g[j - 1] = f[j - 1]
        BY <1>0, <3>1, <3>2
      <4>3. f[j] = IF j < from THEN ring ELSE Collects(st, f[j - 1], j)
        BY <2>1, <4>1
      <4> HIDE DEF g
      <4>4. j \in Int
        BY <3>1
      <4> QED BY <1>0, <4>1, <4>2, <4>3, <4>4
    <3>3. CASE j = k + 1
      <4>1. j - 1 = k /\ ~(j <= k) /\ k \in 0..NPROC /\ k <= k
        BY <1>0, <3>3
      <4>2. g[k] = f[k]
        BY <4>1
      <4>3. g[j] = IF j < from THEN ring ELSE Collects(st, f[k], j)
        BY <3>1, <4>1
      <4> HIDE DEF g
      <4> QED BY <4>1, <4>2, <4>3
    <3> QED BY <3>2, <3>3
  <2>4. Upto(g, k + 1)
    <3> HIDE DEF g
    <3> QED BY <2>2, <2>3
  <2>5. k + 1 \in 0..NPROC
    BY <1>0
  <2> HIDE DEF g, Upto
  <2> QED BY <2>4, <2>5
<1>3. NPROC \in S
  <2> HIDE DEF S
  <2>1. 0..NPROC \subseteq S
    BY <1>1, <1>2, UpToNPROC
  <2> QED BY <1>0, <2>1
<1>4. PICK f : Upto(f, NPROC)
  BY <1>3
<1>5. f = [s \in 0..NPROC |-> IF s < from THEN ring ELSE Collects(st, f[s - 1], s)]
  BY <1>4
<1>6. after = [s \in 0..NPROC |-> IF s < from THEN ring ELSE Collects(st, after[s - 1], s)]
  <2> HIDE DEF Upto
  <2> QED BY <1>5
<1>7. \A u : Collected(st, from, u) = after[u - 1]
  BY DEF Collected
<1> HIDE DEF after
<1>8. Collected(st, from, from) = ring
  BY <1>0, <1>6, <1>7
<1>9. ASSUME NEW s \in from..NPROC
      PROVE  Collected(st, from, s + 1) = Collects(st, Collected(st, from, s), s)
  <2>1. s \in 0..NPROC /\ ~(s < from) /\ (s + 1) - 1 = s
    BY <1>0
  <2>2. after[s] = Collects(st, after[s - 1], s)
    BY <1>6, <2>1
  <2>3. Collected(st, from, s + 1) = after[s]
    BY <1>7, <2>1
  <2>4. Collected(st, from, s) = after[s - 1]
    BY <1>7
  <2> QED BY <2>2, <2>3, <2>4
<1> QED BY <1>8, <1>9

LEMMA OddRinged ==
  ASSUME PassTypes, PidsGiven, NEW s \in Slots, Odd(s)
  PROVE  Ringed(s)
<1>1. pid[s] \in 0..4 /\ pid[s] > 2
  BY DEF PassTypes, Odd
<1> QED BY <1>1, Numbers DEF PidsGiven, Ringed, PassTypes, Odd

LEMMA CollectsOK ==
  ASSUME mix \in Builds, PassTypes, PidsGiven, NEW st, NEW r, RingOK(r), NEW s \in Slots
  PROVE  RingOK(Collects(st, r, s))
  BY OddRinged, PushOK DEF Collects

LEMMA CollectedOK ==
  ASSUME mix \in Builds, PassTypes, PidsGiven, RingOK(ring), NEW st, NEW from \in 1..InRing,
         NEW upto \in from..InRing
  PROVE  RingOK(Collected(st, from, upto))
<1> DEFINE S == {k \in 0..NPROC : k + 1 >= from => RingOK(Collected(st, from, k + 1))}
<1>0. from \in Nat /\ from >= 1 /\ NPROC \in Nat /\ upto - 1 \in 0..NPROC /\ upto >= from /\ upto = (upto - 1) + 1
  BY Numbers DEF InRing
<1>1. \A k \in 0..NPROC : k + 1 = from => k \in S
  BY CollectedStep
<1>2. 0 \in S
  BY <1>0, <1>1
<1>3. ASSUME NEW k \in 0..(NPROC - 1), k \in S PROVE k + 1 \in S
  <2>1. k + 1 \in 0..NPROC /\ k + 1 \in Slots
    BY <1>0, Numbers
  <2>2. CASE (k + 1) + 1 <= from
    BY <1>0, <1>1, <2>1, <2>2
  <2>3. CASE k + 1 >= from
    <3>1. k + 1 \in from..NPROC
      BY <1>0, <2>1, <2>3
    <3>2. RingOK(Collected(st, from, k + 1))
      BY <1>3, <2>3
    <3>3. Collected(st, from, (k + 1) + 1) = Collects(st, Collected(st, from, k + 1), k + 1)
      BY <3>1, CollectedStep
    <3> QED BY <2>1, <3>2, <3>3, CollectsOK
  <2> QED BY <1>0, <2>2, <2>3
<1>4. upto - 1 \in S
  <2> HIDE DEF S
  <2>1. 0..NPROC \subseteq S
    BY <1>2, <1>3, UpToNPROC
  <2> QED BY <1>0, <2>1
<1> QED BY <1>0, <1>4

-----------------------------------------------------------------------------
(* What a pass does from slot `from': it runs the next slot that may run, or *)
(* it is over, or it runs the first of the ring.                            *)
Here(c, st, e, from) ==
  \E b \in from..NPROC :
    /\ b \in Slots /\ RunsHere(st, e, b) /\ Runs(c, st, b, b)
    /\ \A q \in from..(b - 1) : ~RunsHere(st, e, q)
FromRing(c, st, e) ==
  /\ ~e /\ mix.sched = "MULTILEVEL"
  /\ \E q \in Slots : /\ Ringed(q) /\ st[q] = "RUNNABLE" /\ Runs(c, st, q, InRing)
                      /\ ring'.front \in Places /\ q = ring'.arr[ring'.front]
GoesTo(c, st, e, from) ==
  \/ Here(c, st, e, from)
  \/ /\ \A q \in from..NPROC : ~RunsHere(st, e, q)
     /\ PassOver(c, st) \/ FromRing(c, st, e)

LEMMA RingSame ==
  ASSUME NEW r, RingOK(r), UNCHANGED <<mix, pid, nextpid>>, ring' = r
  PROVE  RingOK(ring)'
  BY DEF RingOK, Rings, Ringed, Places, Held

LEMMA GoDoes ==
  ASSUME mix \in Builds, mix.sched # "MLFQ", PassTypes, PidsGiven, RingOK(ring),
         UNCHANGED <<mix, pid, nextpid>>, NEW c \in CPUs, NEW st, NEW e, NEW from \in 1..InRing,
         Go(c, st, e, from)
  PROVE  RingOK(ring)' /\ GoesTo(c, st, e, from)
<1>0. from \in Nat /\ NPROC \in Nat /\ from <= InRing /\ InRing \in from..InRing
  BY Numbers DEF InRing
<1> PICK b : b = Stop(st, e, from)
  OBVIOUS
<1>1. CASE b # None
  <2>1. /\ b \in from..NPROC /\ b \in Slots /\ RunsHere(st, e, b)
        /\ \A q \in from..(b - 1) : ~RunsHere(st, e, q)
    BY <1>1, StopIs
  <2>2. ring' = Collected(st, from, b) /\ Runs(c, st, b, b)
    BY <1>1 DEF Go
  <2>3. b \in from..InRing
    BY <1>0, <2>1 DEF InRing
  <2>4. RingOK(Collected(st, from, b))
    BY <2>3, CollectedOK
  <2> QED BY <2>1, <2>2, <2>4, RingSame DEF GoesTo, Here
<1>2. CASE b = None
  <2> PICK r : r = Collected(st, from, InRing)
    OBVIOUS
  <2>1. RingOK(r)
    BY <1>0, CollectedOK
  <2>2. RingTurn(c, st, e, r) /\ \A q \in from..NPROC : ~RunsHere(st, e, q)
    <3>1. \A q \in from..NPROC : ~RunsHere(st, e, q)
      BY <1>2, StopIs
    <3> QED BY <1>2, <3>1 DEF Go
  <2>3. CASE e \/ emp(r) \/ mix.sched = "DEFAULT"
    BY <2>1, <2>2, <2>3, RingSame DEF RingTurn, GoesTo
  <2>4. CASE ~(e \/ emp(r) \/ mix.sched = "DEFAULT") /\ st[r.arr[r.front]] # "RUNNABLE"
    <3>1. ring' = pop(r) /\ PassOver(c, st)
      BY <2>2, <2>4 DEF RingTurn
    <3>2. RingOK(pop(r))
      BY <2>1, <2>4, PopOK
    <3> QED BY <2>2, <3>1, <3>2, RingSame DEF GoesTo
  <2>5. CASE ~(e \/ emp(r) \/ mix.sched = "DEFAULT") /\ st[r.arr[r.front]] = "RUNNABLE"
    <3>1. ring' = r /\ Runs(c, st, r.arr[r.front], InRing)
      BY <2>2, <2>5 DEF RingTurn
    <3>2. r.front \in Places /\ r.rear \in Places /\ r.arr \in [Places -> Slots \cup {None}] /\ r.front # r.rear
      BY <2>1, <2>5 DEF RingOK, Rings, emp
    <3>3. Held(r, r.front)
      BY <3>2, RingLength DEF Held
    <3>4. r.arr[r.front] \in Slots /\ Ringed(r.arr[r.front])
      BY <2>1, <3>2, <3>3 DEF RingOK
    <3>5. mix.sched = "MULTILEVEL"
      BY <2>5, RingLength
    <3>6. ring'.front \in Places
      BY <3>1, <3>2
    <3> QED BY <2>1, <2>2, <2>5, <3>1, <3>4, <3>5, <3>6, RingSame DEF GoesTo, FromRing
  <2> QED BY <2>3, <2>4, <2>5
<1> QED BY <1>1, <1>2

(* A step of the pass of CPU c: its process has stopped in one of three     *)
(* states, or the pass begins; st is the table then.                        *)
Stopped(c, st) ==
  \E x \in {"RUNNABLE", "SLEEPING", "ZOMBIE"} :
    st = [state EXCEPT ![proc[c]] = x] /\ (x = "ZOMBIE" => proc[c] # initproc)
Moves(c, st, e) ==
  /\ c \in mix.cpus /\ e = even_exist'[c]
  /\ \/ at[c] = 0 /\ st = state /\ e = \E s \in Slots : state[s] = "RUNNABLE" /\ pid[s] = 4
     \/ at[c] # 0 /\ e = even_exist[c] /\ Stopped(c, st)
  /\ \/ at[c] # InRing /\ GoesTo(c, st, e, at[c] + 1)
     \/ at[c] = InRing /\ PassOver(c, st)
  /\ Recorded(c) /\ RingOK(ring)'
  /\ even_exist' \in [CPUs -> BOOLEAN] /\ \A d \in CPUs \ {c} : even_exist'[d] = even_exist[d]
  /\ UNCHANGED <<mix, pid, nextpid, strayed>>

\* The ring that it leaves: see Go.
Walks(c, st, e) == IF at[c] = InRing THEN ring' = ring ELSE Go(c, st, e, at[c] + 1)

PassOK == mix \in Builds /\ mix.sched # "MLFQ" /\ PassTypes /\ PidsGiven /\ RingOK(ring)

LEMMA StepMoves ==
  ASSUME PassOK, UNCHANGED mix, NEW c \in mix.cpus,
         PassStart(c) \/ PassTimer(c) \/ PassSleep(c) \/ PassExit(c)
  PROVE  \E st, e : Moves(c, st, e) /\ Walks(c, st, e)
<1>0. c \in CPUs /\ at[c] \in 0..InRing /\ NPROC \in Nat
  BY RingLength, Numbers DEF PassOK, PassTypes
<1>1. CASE PassStart(c)
  <2> PICK e : e = even_exist'[c]
    OBVIOUS
  <2>1. /\ at[c] = 0 /\ Go(c, state, e, 1) /\ Recorded(c) /\ UNCHANGED <<mix, pid, nextpid, strayed>>
        /\ even_exist' = [even_exist EXCEPT ![c] = \E s \in Slots : state[s] = "RUNNABLE" /\ pid[s] = 4]
    BY <1>1 DEF PassStart
  <2>2. /\ e = (\E s \in Slots : state[s] = "RUNNABLE" /\ pid[s] = 4)
        /\ even_exist' \in [CPUs -> BOOLEAN] /\ \A d \in CPUs \ {c} : even_exist'[d] = even_exist[d]
    BY <1>0, <2>1 DEF PassOK, PassTypes
  <2>3. 1 \in 1..InRing /\ at[c] # InRing /\ at[c] + 1 = 1
    BY <1>0, <2>1 DEF InRing
  <2>4. RingOK(ring)' /\ GoesTo(c, state, e, 1)
    BY <1>0, <2>1, <2>3, GoDoes DEF PassOK
  <2>5. Moves(c, state, e) /\ Walks(c, state, e)
    BY <2>1, <2>2, <2>3, <2>4 DEF Moves, Walks
  <2> QED BY <2>5
<1>2. ASSUME NEW x \in {"RUNNABLE", "SLEEPING", "ZOMBIE"}, ComesBack(c, x), x = "ZOMBIE" => proc[c] # initproc
      PROVE  \E st, e : Moves(c, st, e) /\ Walks(c, st, e)
  <2> PICK st : st = [state EXCEPT ![proc[c]] = x]
    OBVIOUS
  <2> PICK e : e = even_exist[c]
    OBVIOUS
  <2>1. /\ at[c] # 0 /\ Recorded(c) /\ UNCHANGED <<mix, pid, nextpid, strayed, even_exist>>
        /\ IF at[c] = InRing THEN ring' = ring /\ PassOver(c, st) ELSE Go(c, st, e, at[c] + 1)
    BY <1>2 DEF ComesBack
  <2>2. Stopped(c, st) /\ e = even_exist'[c] /\ even_exist' \in [CPUs -> BOOLEAN]
        /\ \A d \in CPUs \ {c} : even_exist'[d] = even_exist[d]
    BY <1>2, <2>1 DEF Stopped, PassOK, PassTypes
  <2>3. CASE at[c] = InRing
    <3>1. RingOK(ring)'
      BY <2>1, <2>3, RingSame DEF PassOK
    <3>2. Moves(c, st, e) /\ Walks(c, st, e)
      BY <2>1, <2>2, <2>3, <3>1 DEF Moves, Walks
    <3> QED BY <3>2
  <2>4. CASE at[c] # InRing
    <3>1. at[c] + 1 \in 1..InRing
      BY <1>0, <2>4 DEF InRing
    <3>2. RingOK(ring)' /\ GoesTo(c, st, e, at[c] + 1)
      BY <1>0, <2>1, <2>4, <3>1, GoDoes DEF PassOK
    <3>3. Moves(c, st, e) /\ Walks(c, st, e)
      BY <2>1, <2>2, <2>4, <3>2 DEF Moves, Walks
    <3> QED BY <3>3
  <2> QED BY <2>3, <2>4
<1> QED BY <1>1, <1>2 DEF PassTimer, PassSleep, PassExit

(* Who runs, and where: a pass stands at the slot that it runs, or past the *)
(* table with the first of the ring.                                        *)
Runners ==
  /\ \A c \in CPUs : at[c] # 0 => c \in mix.cpus /\ proc[c] \in Slots /\ state[proc[c]] = "RUNNING"
  /\ \A c \in CPUs : at[c] \in Slots => proc[c] = at[c]
  /\ \A c, d \in CPUs : at[c] # 0 /\ at[d] # 0 /\ proc[c] = proc[d] => c = d
  /\ \A s \in Slots : state[s] = "RUNNING" => \E c \in mix.cpus : at[c] # 0 /\ proc[c] = s

(* A step of a pass, seen from outside: it is over, or it runs b.           *)
LEMMA MoveEnds ==
  ASSUME NEW c, NEW st, NEW e, Moves(c, st, e)
  PROVE  \/ PassOver(c, st)
         \/ \E b \in Slots : \E place \in {b, InRing} : Runs(c, st, b, place) /\ st[b] = "RUNNABLE"
<1>1. CASE Here(c, st, e, at[c] + 1)
  BY <1>1 DEF Here, RunsHere
<1>2. CASE FromRing(c, st, e)
  BY <1>2 DEF FromRing
<1> QED BY <1>1, <1>2 DEF Moves, GoesTo

LEMMA TableThen ==
  ASSUME PassTypes, NEW c \in CPUs, NEW st, (at[c] = 0 /\ st = state) \/ (at[c] # 0 /\ Stopped(c, st))
  PROVE  /\ st \in [Slots -> {"UNUSED", "RUNNABLE", "RUNNING", "SLEEPING", "ZOMBIE"}]
         /\ \A s \in Slots : st[s] # state[s] =>
              at[c] # 0 /\ s = proc[c] /\ st[s] \in {"RUNNABLE", "SLEEPING", "ZOMBIE"} /\ (s = initproc => st[s] # "ZOMBIE")
         /\ at[c] # 0 /\ proc[c] \in Slots => st[proc[c]] # "RUNNING"
  BY DEF PassTypes, Stopped

LEMMA MoveTypes ==
  ASSUME PassOK, NEW c \in CPUs, NEW st, NEW e, Moves(c, st, e)
  PROVE  PassTypes' /\ PidsGiven'
<1>0. PassTypes /\ PidsGiven /\ mix.cpus \subseteq CPUs
  BY RingLength DEF PassOK
<1>1. /\ st \in [Slots -> {"UNUSED", "RUNNABLE", "RUNNING", "SLEEPING", "ZOMBIE"}]
      /\ st[initproc] \notin {"UNUSED", "ZOMBIE"}
  <2>1. (at[c] = 0 /\ st = state) \/ (at[c] # 0 /\ Stopped(c, st))
    BY DEF Moves
  <2>2. /\ st \in [Slots -> {"UNUSED", "RUNNABLE", "RUNNING", "SLEEPING", "ZOMBIE"}]
        /\ \A s \in Slots : st[s] # state[s] =>
             st[s] \in {"RUNNABLE", "SLEEPING", "ZOMBIE"} /\ (s = initproc => st[s] # "ZOMBIE")
    BY <1>0, <2>1, TableThen
  <2>3. initproc \in Slots /\ state[initproc] \notin {"UNUSED", "ZOMBIE"}
    BY <1>0, Numbers DEF initproc, PidsGiven
  <2> QED BY <2>2, <2>3
<1> DEFINE WellTyped ==
      /\ state' \in [Slots -> {"UNUSED", "RUNNABLE", "RUNNING", "SLEEPING", "ZOMBIE"}]
      /\ state'[initproc] \notin {"UNUSED", "ZOMBIE"}
      /\ proc' \in [CPUs -> Slots \cup {None}] /\ at' \in [CPUs -> 0..InRing]
      /\ at'[c] # 0 => proc'[c] \in Slots
<1>2. WellTyped
  <2>1. CASE PassOver(c, st)
    BY <1>0, <1>1, <2>1, Numbers DEF PassOver, Left, PassTypes, InRing
  <2>2. ASSUME NEW b \in Slots, NEW place \in {b, InRing}, Runs(c, st, b, place)
        PROVE  WellTyped
    BY <1>0, <1>1, <2>2, Numbers DEF Runs, PassTypes, InRing
  <2> QED BY <2>1, <2>2, MoveEnds
<1>3. turns' \in [CPUs -> [Slots -> 0..3]]
  <2>1. CASE turns' = [x \in CPUs |-> [q \in Slots |-> 0]]
    BY <2>1
  <2>2. CASE turns' = turns
    BY <1>0, <2>2 DEF PassTypes
  <2>3. CASE /\ at'[c] # 0 /\ turns[c][proc'[c]] # 3
             /\ turns' = [turns EXCEPT ![c][proc'[c]] = @ + 1]
    <3>1. proc'[c] \in Slots /\ turns[c][proc'[c]] \in 0..3 /\ turns[c][proc'[c]] + 1 \in 0..3
      BY <1>0, <1>2, <2>3 DEF PassTypes
    <3> QED BY <1>0, <2>3, <3>1 DEF PassTypes
  <2> QED BY <2>1, <2>2, <2>3 DEF Moves, Recorded
<1> QED BY <1>0, <1>2, <1>3 DEF Moves, PassTypes, PidsGiven

LEMMA MoveRunners ==
  ASSUME PassOK, Runners, NEW c \in CPUs, NEW st, NEW e, Moves(c, st, e)
  PROVE  Runners'
<1>0. /\ PassTypes /\ c \in mix.cpus /\ mix' = mix /\ mix.cpus \subseteq CPUs
      /\ 0 \notin Slots /\ None = 0
      /\ at' \in [CPUs -> 0..InRing] /\ proc' \in [CPUs -> Slots \cup {None}]
  <2>1. PassTypes' /\ at' \in [CPUs -> 0..InRing] /\ proc' \in [CPUs -> Slots \cup {None}]
    BY MoveTypes DEF PassTypes
  <2>2. PassTypes /\ c \in mix.cpus /\ mix' = mix
    BY DEF PassOK, Moves
  <2>3. mix.cpus \subseteq CPUs /\ 0 \notin Slots /\ None = 0
    BY RingLength, Numbers DEF PassOK, None
  <2> QED BY <2>1, <2>2, <2>3
<1>1. /\ \A s \in Slots : st[s] # state[s] => at[c] # 0 /\ s = proc[c] /\ st[s] # "RUNNING"
      /\ at[c] # 0 => st[proc[c]] # "RUNNING"
      /\ st \in [Slots -> {"UNUSED", "RUNNABLE", "RUNNING", "SLEEPING", "ZOMBIE"}]
  <2>1. (at[c] = 0 /\ st = state) \/ (at[c] # 0 /\ Stopped(c, st))
    BY DEF Moves
  <2>2. at[c] # 0 => proc[c] \in Slots
    BY DEF Runners
  <2>3. /\ \A s \in Slots : st[s] # state[s] => at[c] # 0 /\ s = proc[c]
        /\ at[c] # 0 => st[proc[c]] # "RUNNING"
        /\ st \in [Slots -> {"UNUSED", "RUNNABLE", "RUNNING", "SLEEPING", "ZOMBIE"}]
    BY <1>0, <2>1, <2>2, TableThen
  <2> QED BY <2>3
<1> DEFINE Others == \A d \in CPUs \ {c} : at'[d] = at[d] /\ proc'[d] = proc[d]
<1>2. Others
  <2>1. CASE PassOver(c, st)
    BY <1>0, <2>1 DEF PassOver, PassTypes
  <2>2. ASSUME NEW b \in Slots, NEW place \in {b, InRing}, Runs(c, st, b, place)
        PROVE  Others
    BY <1>0, <2>2 DEF Runs, PassTypes
  <2> QED BY <2>1, <2>2, MoveEnds
<1>3. \A d \in CPUs \ {c} : at[d] # 0 => proc[d] \in Slots /\ st[proc[d]] = "RUNNING"
  BY <1>1 DEF Runners
<1>4. \A s \in Slots : st[s] = "RUNNING" => \E d \in mix.cpus : d # c /\ at[d] # 0 /\ proc[d] = s
  BY <1>1 DEF Runners
<1>5. CASE PassOver(c, st)
  <2>1. at'[c] = 0 /\ state' = st
    BY <1>0, <1>5 DEF PassOver, PassTypes
  <2> QED BY <1>0, <1>2, <1>3, <1>4, <2>1 DEF Runners
<1>6. ASSUME NEW b \in Slots, NEW place \in {b, InRing}, Runs(c, st, b, place), st[b] = "RUNNABLE"
      PROVE  Runners'
  <2>1. /\ at'[c] = place /\ place # 0 /\ proc'[c] = b /\ state'[b] = "RUNNING"
        /\ \A s \in Slots \ {b} : state'[s] = st[s]
    BY <1>0, <1>1, <1>6, Numbers DEF Runs, PassTypes, InRing
  <2>2. place \in Slots => place = b
    BY Numbers
  <2>3. \A d \in CPUs \ {c} : at'[d] # 0 => proc'[d] # b /\ state'[proc'[d]] = "RUNNING" /\ proc'[d] \in Slots
    BY <1>2, <1>3, <1>6, <2>1
  <2>4. \A d \in CPUs : at'[d] # 0 => d \in mix.cpus
    BY <1>0, <1>2 DEF Runners
  <2>5. \A d \in CPUs : at'[d] \in Slots => proc'[d] = at'[d]
    BY <1>2, <2>1, <2>2 DEF Runners
  <2>6. \A f, d \in CPUs : at'[f] # 0 /\ at'[d] # 0 /\ proc'[f] = proc'[d] => f = d
    BY <1>2, <2>1, <2>3 DEF Runners
  <2>7. \A s \in Slots : state'[s] = "RUNNING" => \E d \in mix.cpus : at'[d] # 0 /\ proc'[d] = s
    BY <1>0, <1>2, <1>4, <2>1
  <2>8. \A d \in CPUs : at'[d] # 0 => proc'[d] \in Slots /\ state'[proc'[d]] = "RUNNING"
    BY <2>1, <2>3
  <2> QED BY <1>0, <2>4, <2>5, <2>6, <2>7, <2>8 DEF Runners
<1> QED BY <1>5, <1>6, MoveEnds

-----------------------------------------------------------------------------
(* A pass that found no even pid at its start runs pid 1 and pid 2 only.    *)
Evens ==
  mix.sched = "MULTILEVEL" => \A c \in CPUs : ~even_exist[c] /\ at[c] \in Slots => pid[at[c]] \in {1, 2}

Wanted == state[mix.watch] = "RUNNABLE" /\ Timely(mix.watch)
Rested == ~Wanted => \A c \in CPUs, q \in Slots : turns[c][q] = 0

(* Whether the pass of a CPU, with even_exist = e, stops for the watched     *)
(* process; and how often a CPU whose pass is at a can have run q meanwhile. *)
(* A pass that stops for it and is before it has begun while it waited.     *)
StopsForIt(e) == mix.sched = "DEFAULT" \/ pid[mix.watch] \in {1, 2} \/ e
DefaultLap(t, a, q) ==
  LET w == mix.watch
  IN  t <= IF \/ a = 0 /\ q > w
              \/ 0 < a /\ a < w /\ (q <= a \/ q > w)
              \/ a >= w /\ w < q /\ q <= a
           THEN 1 ELSE 0
LevelLap(t, a, e, q) ==
  IF a \in {0, InRing} THEN t <= 1
  ELSE IF a < mix.watch /\ StopsForIt(e) THEN t <= IF q <= a THEN 2 ELSE 1
  ELSE /\ t <= IF q <= a THEN 1 ELSE 0
       /\ ~e /\ t > 0 => q \in {initproc, a}
Lap(t, a, e, q) ==
  IF mix.sched = "DEFAULT" THEN DefaultLap(t, a, q) ELSE LevelLap(t, a, e, q)
Laps == \A c \in CPUs, q \in Slots : Lap(turns[c][q], at[c], even_exist[c], q)

NoRing == mix.sched = "DEFAULT" => \A c \in CPUs : at[c] # InRing

LEMMA NoLap ==
  ASSUME NEW a, NEW e, NEW q
  PROVE  Lap(0, a, e, q)
  BY DEF Lap, DefaultLap, LevelLap

(* While the watched process goes on waiting, a step of CPU c counts what    *)
(* the CPU runs, and nothing else.                                          *)
LEMMA MoveCounts ==
  ASSUME PassOK, NEW c \in CPUs, NEW st, NEW e, Moves(c, st, e)
  PROVE  /\ ~Wanted' => \A d \in CPUs, q \in Slots : turns'[d][q] = 0
         /\ Wanted' => /\ \A d \in CPUs \ {c}, q \in Slots : turns'[d][q] = turns[d][q]
                       /\ \A q \in Slots : \/ turns'[c][q] = turns[c][q]
                                           \/ /\ at'[c] # 0 /\ q = proc'[c]
                                              /\ turns'[c][q] = turns[c][q] + 1
<1>1. PassTypes /\ Recorded(c) /\ UNCHANGED <<mix, pid>>
  BY DEF PassOK, Moves
<1>2. Wanted' <=> state'[mix.watch] = "RUNNABLE" /\ Timely(mix.watch)
  BY <1>1 DEF Wanted, Timely
<1>3. turns' = IF state'[mix.watch] # "RUNNABLE" \/ ~Timely(mix.watch)
               THEN [x \in CPUs |-> [q \in Slots |-> 0]]
               ELSE IF at'[c] = 0 \/ turns[c][proc'[c]] = 3 THEN turns
               ELSE [turns EXCEPT ![c][proc'[c]] = @ + 1]
  BY <1>1 DEF Recorded
<1>4. CASE ~Wanted'
  BY <1>2, <1>3, <1>4
<1>5. CASE Wanted'
  <2>1. CASE at'[c] = 0 \/ turns[c][proc'[c]] = 3
    BY <1>2, <1>3, <1>5, <2>1
  <2>2. CASE ~(at'[c] = 0 \/ turns[c][proc'[c]] = 3)
    <3>1. turns' = [turns EXCEPT ![c][proc'[c]] = @ + 1] /\ turns \in [CPUs -> [Slots -> 0..3]]
      BY <1>1, <1>2, <1>3, <1>5, <2>2 DEF PassTypes
    <3> QED BY <1>5, <2>2, <3>1
  <2> QED BY <2>1, <2>2
<1> QED BY <1>4, <1>5

LEMMA MoveEvens ==
  ASSUME PassOK, Evens, NEW c \in CPUs, NEW st, NEW e, Moves(c, st, e)
  PROVE  Evens'
<1>1. PassTypes /\ UNCHANGED <<mix, pid>> /\ e = even_exist'[c] /\ InRing \notin Slots /\ 0 \notin Slots
  BY Numbers DEF PassOK, Moves, None
<1>2. SUFFICES ASSUME mix.sched = "MULTILEVEL", NEW d \in CPUs, ~even_exist'[d], at'[d] \in Slots
      PROVE  pid[at'[d]] \in {1, 2}
  BY <1>1 DEF Evens
<1>3. CASE PassOver(c, st)
  <2>1. d # c /\ at'[d] = at[d]
    BY <1>1, <1>2, <1>3 DEF PassOver, PassTypes
  <2> QED BY <1>2, <2>1 DEF Evens, Moves
<1>4. CASE Here(c, st, e, at[c] + 1)
  <2>1. PICK b \in Slots : RunsHere(st, e, b) /\ at' = [at EXCEPT ![c] = b]
    BY <1>4 DEF Here, Runs
  <2>2. CASE d = c
    BY <1>1, <1>2, <2>1, <2>2 DEF RunsHere, PassTypes
  <2>3. CASE d # c
    BY <1>1, <1>2, <2>1, <2>3 DEF Evens, PassTypes, Moves
  <2> QED BY <2>2, <2>3
<1>5. CASE FromRing(c, st, e)
  <2>1. at' = [at EXCEPT ![c] = InRing]
    BY <1>5 DEF FromRing, Runs
  <2>2. d # c /\ at'[d] = at[d]
    BY <1>1, <1>2, <2>1 DEF PassTypes
  <2> QED BY <1>2, <2>2 DEF Evens, Moves
<1> QED BY <1>3, <1>4, <1>5 DEF Moves, GoesTo

LEMMA MoveNoRing ==
  ASSUME PassOK, NoRing, NEW c \in CPUs, NEW st, NEW e, Moves(c, st, e)
  PROVE  NoRing'
<1>1. PassTypes /\ mix' = mix /\ InRing # 0 /\ InRing \notin Slots
  BY Numbers DEF PassOK, Moves, InRing
<1>2. CASE PassOver(c, st)
  BY <1>1, <1>2 DEF PassOver, PassTypes, NoRing
<1>3. CASE Here(c, st, e, at[c] + 1)
  BY <1>1, <1>3 DEF Here, Runs, PassTypes, NoRing
<1>4. CASE FromRing(c, st, e)
  BY <1>1, <1>4 DEF FromRing, NoRing
<1> QED BY <1>2, <1>3, <1>4 DEF Moves, GoesTo

(* The watched process stands where the pass has already looked, or where   *)
(* it does not run anything.                                                *)
LEMMA LetsWait ==
  ASSUME PassOK, NEW c \in CPUs, NEW st, NEW e, Moves(c, st, e), Wanted', at[c] # InRing
  PROVE  /\ Here(c, st, e, at[c] + 1) =>
              \E b \in Slots : /\ at'[c] = b /\ proc'[c] = b /\ b > at[c] /\ b # mix.watch /\ RunsHere(st, e, b)
                               /\ StopsForIt(e) => mix.watch <= at[c] \/ mix.watch > b
         /\ ~Here(c, st, e, at[c] + 1) /\ StopsForIt(e) => mix.watch <= at[c]
         /\ at[c] = 0 => StopsForIt(e)
<1> DEFINE w == mix.watch
<1>0. /\ PassTypes /\ UNCHANGED <<mix, pid>> /\ w \in Slots /\ Timely(w) /\ state'[w] = "RUNNABLE"
      /\ at[c] \in Nat /\ at[c] <= NPROC /\ mix.sched \in {"DEFAULT", "MULTILEVEL"}
  <2>1. PassTypes /\ UNCHANGED <<mix, pid>> /\ w \in Slots
    BY RingLength DEF PassOK, Moves
  <2>2. Timely(w) /\ state'[w] = "RUNNABLE"
    BY <2>1 DEF Wanted, Timely
  <2>3. at[c] \in Nat /\ at[c] <= NPROC
    BY <2>1, Numbers DEF PassTypes, InRing
  <2> QED BY <2>1, <2>2, <2>3, RingLength DEF PassOK
<1>1. st \in [Slots -> {"UNUSED", "RUNNABLE", "RUNNING", "SLEEPING", "ZOMBIE"}]
  BY <1>0, TableThen DEF Moves
<1>2. st[w] = "RUNNABLE" /\ \A b \in Slots : \A place : Runs(c, st, b, place) => b # w
  <2>1. ASSUME NEW b \in Slots, NEW place, Runs(c, st, b, place) PROVE b # w /\ st[w] = "RUNNABLE"
    BY <1>0, <1>1, <2>1 DEF Runs
  <2>2. CASE PassOver(c, st)
    BY <1>0, <2>1, <2>2 DEF PassOver
  <2> QED BY <2>1, <2>2, MoveEnds
<1>3. StopsForIt(e) => RunsHere(st, e, w)
  BY <1>0, <1>2 DEF StopsForIt, RunsHere, Timely
<1>4. at[c] = 0 => StopsForIt(e)
  <2> SUFFICES ASSUME at[c] = 0 PROVE StopsForIt(e)
    OBVIOUS
  <2>1. st = state /\ (e <=> \E s \in Slots : state[s] = "RUNNABLE" /\ pid[s] = 4)
    BY DEF Moves
  <2>2. pid[w] = 4 => e
    BY <1>0, <1>2, <2>1
  <2> QED BY <1>0, <2>2 DEF StopsForIt, Timely
<1>5. ASSUME Here(c, st, e, at[c] + 1)
      PROVE  \E b \in Slots : /\ at'[c] = b /\ proc'[c] = b /\ b > at[c] /\ b # w /\ RunsHere(st, e, b)
                              /\ StopsForIt(e) => w <= at[c] \/ w > b
  <2>1. PICK b \in (at[c] + 1)..NPROC :
          /\ b \in Slots /\ RunsHere(st, e, b) /\ Runs(c, st, b, b)
          /\ \A q \in (at[c] + 1)..(b - 1) : ~RunsHere(st, e, q)
    BY <1>5 DEF Here
  <2>2. at'[c] = b /\ proc'[c] = b /\ b # w
    BY <1>0, <1>2, <2>1 DEF Runs, PassTypes
  <2>3. b > at[c] /\ (StopsForIt(e) => w <= at[c] \/ w > b)
    BY <1>0, <1>3, <2>1, <2>2, Numbers
  <2> QED BY <2>1, <2>2, <2>3
<1>6. ASSUME ~Here(c, st, e, at[c] + 1), StopsForIt(e) PROVE w <= at[c]
  <2>1. \A q \in (at[c] + 1)..NPROC : ~RunsHere(st, e, q)
    BY <1>6 DEF Moves, GoesTo
  <2> QED BY <1>0, <1>3, <1>6, <2>1, Numbers
<1> QED BY <1>4, <1>5, <1>6

LEMMA MoveLap ==
  ASSUME PassOK, Evens, Laps, NoRing, NEW c \in CPUs, NEW st, NEW e, Moves(c, st, e), Wanted', NEW q \in Slots
  PROVE  Lap(turns'[c][q], at'[c], e, q)
<1> DEFINE w == mix.watch
           a == at[c]
           t == turns[c][q]
           a2 == at'[c]
           t2 == turns'[c][q]
<1>0. /\ PassTypes /\ w \in Nat /\ a \in Nat /\ q \in Nat /\ q >= 1 /\ w >= 1 /\ t \in Nat
      /\ mix.sched \in {"DEFAULT", "MULTILEVEL"} /\ InRing \in Nat /\ InRing # 0 /\ InRing \notin Slots
      /\ q < InRing /\ w < InRing /\ 0 \notin Slots
  BY RingLength, Numbers DEF PassOK, PassTypes, InRing
<1>1. Lap(t, a, even_exist[c], q) /\ (a # 0 => e = even_exist[c])
  BY DEF Laps, Moves
<1>2. t2 = t \/ (a2 # 0 /\ q = proc'[c] /\ t2 = t + 1)
  BY MoveCounts
<1>3. CASE a = InRing
  <2>1. PassOver(c, st) /\ mix.sched = "MULTILEVEL"
    BY <1>0, <1>3 DEF Moves, NoRing
  <2>2. a2 = 0
    BY <1>0, <2>1 DEF PassOver, PassTypes
  <2> QED BY <1>0, <1>1, <1>2, <1>3, <2>1, <2>2 DEF Lap, LevelLap
<1>4. CASE a # InRing /\ Here(c, st, e, a + 1)
  <2>1. PICK b \in Slots : /\ a2 = b /\ proc'[c] = b /\ b > a /\ b # w /\ RunsHere(st, e, b)
                           /\ StopsForIt(e) => w <= a \/ w > b
    BY <1>4, LetsWait
  <2>2. b \in Nat /\ b >= 1 /\ b # InRing /\ (a = 0 => StopsForIt(e))
    BY <1>0, <1>4, <2>1, Numbers, LetsWait
  <2>3. t2 = t \/ (q = b /\ t2 = t + 1)
    BY <1>2, <2>1
  <2>4. CASE mix.sched = "DEFAULT"
    <3>1. DefaultLap(t, a, q) /\ (w <= a \/ w > b)
      BY <1>1, <2>1, <2>4 DEF Lap, StopsForIt
    <3>2. DefaultLap(t2, b, q)
      <4> HIDE DEF w, a, t, a2, t2
      <4> QED BY <1>0, <2>1, <2>2, <2>3, <3>1 DEF DefaultLap, w
    <3> QED BY <2>1, <2>4, <3>2 DEF Lap
  <2>5. CASE mix.sched = "MULTILEVEL"
    <3>1. LevelLap(t, a, even_exist[c], q)
      BY <1>1, <2>5 DEF Lap
    <3>2. CASE a = 0 \/ (a < w /\ StopsForIt(e))
      <4>1. StopsForIt(e) /\ b < w /\ t <= IF a # 0 /\ q <= a THEN 2 ELSE 1
        BY <1>0, <1>1, <1>4, <2>1, <2>2, <3>1, <3>2 DEF LevelLap
      <4>2. t2 <= IF q <= b THEN 2 ELSE 1
        <5> HIDE DEF w, a, t, a2, t2
        <5> QED BY <1>0, <2>1, <2>2, <2>3, <4>1
      <4> QED BY <2>1, <2>2, <2>5, <4>1, <4>2 DEF Lap, LevelLap
    <3>3. CASE a # 0 /\ ~(a < w /\ StopsForIt(e))
      <4>1. (t <= IF q <= a THEN 1 ELSE 0) /\ (~e /\ t > 0 => q \in {initproc, a})
        BY <1>1, <1>4, <3>1, <3>3 DEF LevelLap
      <4>2. t2 <= IF q <= b THEN 1 ELSE 0
        <5> HIDE DEF w, a, t, a2, t2
        <5> QED BY <1>0, <2>1, <2>2, <2>3, <4>1
      <4>3. ~e => a = initproc
        <5> SUFFICES ASSUME ~e PROVE a = initproc
          OBVIOUS
        <5>1. a \in Slots
          BY <1>0, <1>4, <3>3, Numbers DEF PassTypes, InRing
        <5>2. pid[a] \in {1, 2} /\ pid[b] \in {1, 2}
          BY <1>1, <2>1, <2>5, <3>3, <5>1 DEF Evens, RunsHere
        <5>3. b # initproc /\ a # b
          BY <1>0, <2>1, <2>2, <3>3 DEF initproc
        <5> QED BY <2>1, <5>1, <5>2, <5>3 DEF PassOK, PidsGiven
      <4>4. ~e /\ t2 > 0 => q \in {initproc, b}
        <5> HIDE DEF w, a, t, a2, t2
        <5> QED BY <1>0, <2>3, <4>1, <4>3
      <4>5. t2 <= IF q <= b THEN 2 ELSE 1
        <5> HIDE DEF w, a, t, a2, t2
        <5> QED BY <1>0, <2>3, <4>2
      <4>6. a2 = b /\ b \notin {0, InRing}
        BY <1>0, <2>1
      <4>7. Lap(t2, b, e, q)
        <5> HIDE DEF w, a, t, a2, t2
        <5> QED BY <2>5, <4>2, <4>4, <4>5, <4>6 DEF Lap, LevelLap
      <4> QED BY <4>6, <4>7
    <3> QED BY <3>2, <3>3
  <2> QED BY <1>0, <2>4, <2>5
<1>5. CASE a # InRing /\ ~Here(c, st, e, a + 1)
  <2>1. (a = 0 => StopsForIt(e)) /\ (StopsForIt(e) => w <= a)
    BY <1>5, LetsWait
  <2>2. a # 0 /\ (StopsForIt(e) => w <= a)
    BY <1>0, <2>1
  <2>3. PassOver(c, st) \/ FromRing(c, st, e)
    BY <1>5 DEF Moves, GoesTo
  <2>4. CASE mix.sched = "DEFAULT"
    <3>1. a2 = 0 /\ w <= a
      BY <1>0, <2>2, <2>3, <2>4 DEF PassOver, FromRing, PassTypes, StopsForIt
    <3>2. DefaultLap(t, a, q) /\ t2 = t
      BY <1>1, <1>2, <2>4, <3>1 DEF Lap
    <3>3. DefaultLap(t2, 0, q)
      <4> HIDE DEF w, a, t, a2, t2
      <4> QED BY <1>0, <2>2, <3>1, <3>2 DEF DefaultLap, w
    <3> QED BY <2>4, <3>1, <3>3 DEF Lap
  <2>5. CASE mix.sched = "MULTILEVEL"
    <3>1. t <= 1 /\ (~e /\ t > 0 => q \in {initproc, a})
      <4>1. LevelLap(t, a, even_exist[c], q) /\ e = even_exist[c]
        BY <1>1, <2>2, <2>5 DEF Lap
      <4>2. a # InRing /\ ~(a < w /\ StopsForIt(e))
        BY <1>0, <1>5, <2>2
      <4>3. (t <= IF q <= a THEN 1 ELSE 0) /\ (~e /\ t > 0 => q \in {initproc, a})
        BY <2>2, <4>1, <4>2 DEF LevelLap
      <4> QED BY <1>0, <4>3
    <3>2. CASE PassOver(c, st)
      <4>1. a2 = 0 /\ t2 = t
        BY <1>0, <1>2, <3>2 DEF PassOver, PassTypes
      <4> QED BY <2>5, <3>1, <4>1 DEF Lap, LevelLap
    <3>3. CASE FromRing(c, st, e)
      <4>1. PICK r \in Slots : Ringed(r) /\ Runs(c, st, r, InRing) /\ ~e
        BY <3>3 DEF FromRing
      <4>2. a2 = InRing /\ proc'[c] = r
        BY <1>0, <4>1 DEF Runs, PassTypes
      <4>3. r # initproc /\ r # a
        <5>1. a \in Slots
          BY <1>0, <1>5, <2>2, Numbers DEF PassTypes, InRing
        <5>2. pid[a] \in {1, 2}
          BY <1>1, <2>2, <2>5, <4>1, <5>1 DEF Evens
        <5>3. pid[r] # 2 /\ r # initproc
          BY <4>1 DEF Ringed
        <5> QED BY <4>1, <5>2, <5>3 DEF PassOK, PidsGiven
      <4>4. q = r => t = 0
        <5> HIDE DEF w, a, t, a2, t2
        <5> QED BY <1>0, <3>1, <4>1, <4>3
      <4>5. t2 <= 1
        <5> HIDE DEF w, a, t, a2, t2
        <5> QED BY <1>0, <1>2, <3>1, <4>2, <4>4
      <4> QED BY <2>5, <4>2, <4>5 DEF Lap, LevelLap
    <3> QED BY <2>3, <3>2, <3>3
  <2> QED BY <1>0, <2>4, <2>5
<1> QED BY <1>3, <1>4, <1>5

LapsOK == Evens /\ NoRing /\ Rested /\ Laps

LEMMA MoveLaps ==
  ASSUME PassOK, LapsOK, NEW c \in CPUs, NEW st, NEW e, Moves(c, st, e)
  PROVE  LapsOK'
<1>1. /\ mix' = mix /\ pid' = pid /\ e = even_exist'[c] /\ PassTypes
      /\ \A d \in CPUs \ {c} : at'[d] = at[d] /\ even_exist'[d] = even_exist[d]
  <2>1. /\ mix' = mix /\ pid' = pid /\ e = even_exist'[c] /\ PassTypes
        /\ \A d \in CPUs \ {c} : even_exist'[d] = even_exist[d]
    BY DEF PassOK, Moves
  <2>2. PassOver(c, st) \/ \E b \in Slots : \E place : Runs(c, st, b, place)
    BY MoveEnds
  <2>3. \A d \in CPUs \ {c} : at'[d] = at[d]
    BY <2>1, <2>2 DEF PassOver, Runs, PassTypes
  <2> QED BY <2>1, <2>3
<1>2. Evens' /\ NoRing'
  BY MoveEvens, MoveNoRing DEF LapsOK
<1>3. Rested'
  BY MoveCounts DEF Rested
<1>4. \A t, a, v, q : Lap(t, a, v, q)' <=> Lap(t, a, v, q)
  BY <1>1 DEF Lap, DefaultLap, LevelLap, StopsForIt, InRing
<1>5. ASSUME NEW d \in CPUs, NEW q \in Slots
      PROVE  Lap(turns'[d][q], at'[d], even_exist'[d], q)
  <2>1. CASE ~Wanted'
    <3>1. turns'[d][q] = 0
      BY <2>1, MoveCounts
    <3> QED BY <3>1, NoLap
  <2>2. CASE Wanted' /\ d = c
    BY <1>1, <2>2, MoveLap DEF LapsOK
  <2>3. CASE Wanted' /\ d # c
    <3>1. turns'[d][q] = turns[d][q] /\ at'[d] = at[d] /\ even_exist'[d] = even_exist[d]
      BY <1>1, <2>3, MoveCounts
    <3> QED BY <3>1 DEF LapsOK, Laps
  <2> QED BY <2>1, <2>2, <2>3
<1>6. Laps'
  BY <1>1, <1>5 DEF Laps, Lap, DefaultLap, LevelLap, StopsForIt, InRing
<1> QED BY <1>2, <1>3, <1>6 DEF LapsOK

(* What the processes themselves do to the table.                           *)
Quiet ==
  /\ UNCHANGED <<mix, turns, at, even_exist, proc, ring, last, wrapped>>
  /\ \A s \in Slots : /\ state[s] = "RUNNABLE" => state'[s] = "RUNNABLE"
                      /\ state[s] = "RUNNING" => state'[s] \in {"RUNNABLE", "RUNNING"}
                      /\ state[s] \in {"RUNNABLE", "RUNNING"} => pid'[s] = pid[s]

LEMMA QuietLaps ==
  ASSUME PassOK, Runners, LapsOK, Quiet
  PROVE  LapsOK'
<1>0. UNCHANGED <<mix, turns, at, even_exist, proc>> /\ mix.watch \in Slots
  BY RingLength DEF Quiet, PassOK
<1>1. Wanted => Wanted' /\ pid'[mix.watch] = pid[mix.watch]
  BY <1>0 DEF Wanted, Quiet, Timely
<1>2. Rested'
  BY <1>0, <1>1 DEF LapsOK, Rested
<1>3. Evens'
  <2>1. \A c \in CPUs : at[c] \in Slots => pid'[at[c]] = pid[at[c]]
    <3>1. \A c \in CPUs : at[c] \in Slots => state[at[c]] = "RUNNING"
      BY Numbers DEF Runners, None
    <3> QED BY <3>1 DEF Quiet
  <2> QED BY <1>0, <2>1 DEF LapsOK, Evens
<1>4. NoRing'
  BY <1>0 DEF LapsOK, NoRing, InRing
<1>5. Laps'
  <2>1. CASE Wanted
    <3>1. pid'[mix.watch] = pid[mix.watch]
      BY <1>1, <2>1
    <3>2. StopsForIt(TRUE)' = StopsForIt(TRUE) /\ \A v : StopsForIt(v)' <=> StopsForIt(v)
      BY <1>0, <3>1 DEF StopsForIt
    <3>3. \A c \in CPUs, q \in Slots : Lap(turns[c][q], at[c], even_exist[c], q)
      BY DEF LapsOK, Laps
    <3> QED BY <1>0, <3>1, <3>3 DEF Laps, Lap, DefaultLap, LevelLap, StopsForIt, InRing
  <2>2. CASE ~Wanted
    <3>1. \A c \in CPUs, q \in Slots : turns'[c][q] = 0
      BY <1>0, <2>2 DEF LapsOK, Rested
    <3> QED BY <1>0, <3>1 DEF Laps, Lap, DefaultLap, LevelLap
  <2> QED BY <2>1, <2>2
<1> QED BY <1>2, <1>3, <1>4, <1>5 DEF LapsOK

LEMMA QuietRunners ==
  ASSUME Runners, UNCHANGED <<mix, at, proc>>, \A s \in Slots : state'[s] = "RUNNING" <=> state[s] = "RUNNING"
  PROVE  Runners'
  BY DEF Runners

LEMMA SameOK ==
  ASSUME PassOK, UNCHANGED <<mix, pid, nextpid, ring, at, even_exist, turns, proc>>,
         state' \in [Slots -> {"UNUSED", "RUNNABLE", "RUNNING", "SLEEPING", "ZOMBIE"}],
         state'[initproc] \notin {"UNUSED", "ZOMBIE"}
  PROVE  PassOK'
<1>1. RingOK(ring)' /\ PassTypes' /\ PidsGiven'
  BY RingSame DEF PassOK, PassTypes, PidsGiven, InRing
<1> QED BY <1>1 DEF PassOK

LEMMA WakeupStep ==
  ASSUME PassOK, UNCHANGED mix, NEW s \in Slots, PassWakeup(s)
  PROVE  PassOK' /\ Quiet /\ \A r \in Slots : state'[r] = "RUNNING" <=> state[r] = "RUNNING"
<1>1. /\ state[s] = "SLEEPING" /\ state' = [state EXCEPT ![s] = "RUNNABLE"] /\ PassTypes
      /\ UNCHANGED <<pid, nextpid, ring, at, even_exist, turns, proc, last, wrapped>> /\ PidsGiven
  BY DEF PassWakeup, Wakeup, passes, cpu, PassOK
<1>2. state' \in [Slots -> {"UNUSED", "RUNNABLE", "RUNNING", "SLEEPING", "ZOMBIE"}]
      /\ state'[initproc] \notin {"UNUSED", "ZOMBIE"}
  BY <1>1, Numbers DEF PassTypes, PidsGiven, initproc
<1>3. PassOK'
  BY <1>1, <1>2, SameOK
<1>4. Quiet /\ \A r \in Slots : state'[r] = "RUNNING" <=> state[r] = "RUNNING"
  BY <1>1 DEF PassTypes, Quiet
<1> QED BY <1>3, <1>4

LEMMA StrayStep ==
  ASSUME PassOK, UNCHANGED mix, NEW c \in CPUs, StrayTimer(c)
  PROVE  PassOK' /\ Quiet /\ strayed'
<1>1. /\ state[proc[c]] = "RUNNING" /\ state' = [state EXCEPT ![proc[c]] = "RUNNABLE"] /\ PassTypes
      /\ UNCHANGED <<pid, nextpid, ring, at, even_exist, turns, proc, last, wrapped>> /\ strayed' /\ PidsGiven
  BY DEF StrayTimer, cpu, PassOK
<1>2. state' \in [Slots -> {"UNUSED", "RUNNABLE", "RUNNING", "SLEEPING", "ZOMBIE"}]
      /\ state'[initproc] \notin {"UNUSED", "ZOMBIE"}
  BY <1>1, Numbers DEF PassTypes, PidsGiven, initproc
<1>3. PassOK'
  BY <1>1, <1>2, SameOK
<1>4. Quiet
  BY <1>1 DEF PassTypes, Quiet
<1> QED BY <1>1, <1>3, <1>4

LEMMA ForkStep ==
  ASSUME PassOK, UNCHANGED mix, NEW c \in CPUs, NEW s \in Slots, PassFork(c, s)
  PROVE  PassOK' /\ Quiet /\ \A r \in Slots : state'[r] = "RUNNING" <=> state[r] = "RUNNING"
<1>1. /\ state[s] = "UNUSED" /\ state' = [state EXCEPT ![s] = "RUNNABLE"] /\ nextpid' = 3
      /\ UNCHANGED <<ring, at, even_exist, turns, proc, last, wrapped>> /\ PidsGiven /\ PassTypes /\ RingOK(ring)
  BY DEF PassFork, Fork, Unused, cpu, PassOK
<1>2. PICK n \in IF nextpid = 2 THEN {2} ELSE {3, 4} : pid' = [pid EXCEPT ![s] = n]
  BY DEF PassFork
<1>3. s # initproc /\ n \in {2, 3, 4} /\ (n = 2 => nextpid = 2) /\ (nextpid = 2 => n = 2) /\ initproc \in Slots
  BY <1>1, <1>2, Numbers DEF PidsGiven, PassTypes, initproc
<1>4. PassTypes'
  BY <1>1, <1>2, <1>3 DEF PassTypes, InRing
<1>5. PidsGiven'
  BY <1>1, <1>2, <1>3 DEF PidsGiven, PassTypes
<1>6. RingOK(ring)'
  <2>1. ring \in Rings /\ \A i \in Places : Held(ring, i) => ring.arr[i] # None
    BY <1>1 DEF RingOK
  <2>2. ASSUME NEW i \in Places, ring.arr[i] # None PROVE Ringed(ring.arr[i])'
    <3>1. Ringed(ring.arr[i]) /\ ring.arr[i] \in Slots
      BY <1>1, <2>2 DEF RingOK, Rings
    <3> QED BY <1>1, <1>2, <1>3, <3>1 DEF Ringed, PassTypes
  <2> QED BY <1>1, <2>1, <2>2 DEF RingOK, Rings, Held, Places
<1>7. Quiet /\ \A r \in Slots : state'[r] = "RUNNING" <=> state[r] = "RUNNING"
  BY <1>1, <1>2 DEF PassTypes, Quiet
<1> QED BY <1>4, <1>5, <1>6, <1>7 DEF PassOK

LEMMA WaitStep ==
  ASSUME PassOK, UNCHANGED mix, NEW c \in CPUs, NEW s \in Slots, PassWait(c, s)
  PROVE  PassOK' /\ Quiet /\ \A r \in Slots : state'[r] = "RUNNING" <=> state[r] = "RUNNING"
<1>1. /\ state[s] = "ZOMBIE" /\ state' = [state EXCEPT ![s] = "UNUSED"] /\ pid' = [pid EXCEPT ![s] = 0]
      /\ UNCHANGED <<nextpid, ring, at, even_exist, turns, proc, last, wrapped>> /\ PidsGiven /\ PassTypes /\ RingOK(ring)
  BY DEF PassWait, Wait, cpu, PassOK
<1>2. s # initproc /\ initproc \in Slots
  BY <1>1, Numbers DEF PidsGiven, initproc
<1>3. PassTypes'
  BY <1>1 DEF PassTypes, InRing
<1>4. PidsGiven'
  BY <1>1, <1>2 DEF PidsGiven, PassTypes
<1>5. RingOK(ring)'
  <2>1. ring \in Rings /\ \A i \in Places : Held(ring, i) => ring.arr[i] # None
    BY <1>1 DEF RingOK
  <2>2. ASSUME NEW i \in Places, ring.arr[i] # None PROVE Ringed(ring.arr[i])'
    <3>1. Ringed(ring.arr[i]) /\ ring.arr[i] \in Slots
      BY <1>1, <2>2 DEF RingOK, Rings
    <3> QED BY <1>1, <3>1 DEF Ringed, PassTypes
  <2> QED BY <1>1, <2>1, <2>2 DEF RingOK, Rings, Held, Places
<1>6. Quiet /\ \A r \in Slots : state'[r] = "RUNNING" <=> state[r] = "RUNNING"
  BY <1>1 DEF PassTypes, Quiet
<1> QED BY <1>3, <1>4, <1>5, <1>6 DEF PassOK

-----------------------------------------------------------------------------
(* Who is first in the ring, on one CPU.                                    *)

LEMMA Alone ==
  ASSUME mix \in Builds, OneCpu, NEW c \in mix.cpus
  PROVE  mix.cpus = {c}
<1>1. IsFiniteSet(mix.cpus)
  BY MultilevelAssumption
<1> QED BY <1>1, FS_Singleton DEF OneCpu

(* The ring r is that of the pass's start, with at most k more at its end:  *)
(* they may have gone past the last place and begun again at the first.     *)
Grown(r, k) ==
  /\ r.front = ring.front
  /\ \/ /\ ring.rear <= r.rear /\ r.rear <= ring.rear + k
        /\ \A i \in Places : i < ring.rear => r.arr[i] = ring.arr[i]
     \/ r.rear < ring.rear /\ r.rear + mix.ring <= ring.rear + k

LEMMA PushGrows ==
  ASSUME mix \in Builds, mix.ring > NPROC, ring \in Rings, ring.front <= ring.rear,
         NEW r \in Rings, NEW s \in Slots, NEW k \in Nat, k < NPROC, Grown(r, k)
  PROVE  Grown(push(r, s), k + 1) /\ Grown(r, k + 1)
<1> DEFINE a == Added(r, s)
<1>0. /\ r.front \in Nat /\ r.rear \in Nat /\ ring.front \in Nat /\ ring.rear \in Nat /\ r.rear < mix.ring
      /\ ring.rear < mix.ring /\ r.rear \in Places /\ r.front \in Places
      /\ mix.ring \in Nat /\ NPROC \in Nat /\ Places = 0..(mix.ring - 1)
  BY RingLength, Numbers DEF Rings
<1>1. /\ a.front = r.front /\ a.rear = (IF r.rear = mix.ring - 1 THEN 0 ELSE r.rear + 1)
      /\ \A i \in Places : a.arr[i] = IF i = r.rear THEN s ELSE r.arr[i]
  BY AddedIs
<1>2. Grown(r, k + 1)
  BY <1>0 DEF Grown
<1> HIDE DEF a
<1>3. Grown(a, k + 1) /\ (emp(a) => a.rear < ring.rear)
  <2>1. CASE r.rear < ring.rear /\ r.rear + mix.ring <= ring.rear + k
    <3>1. a.rear = r.rear + 1 /\ a.rear < ring.rear /\ a.rear + mix.ring <= ring.rear + (k + 1)
      BY <1>0, <1>1, <2>1
    <3> QED BY <1>1, <3>1 DEF Grown
  <2>2. CASE r.rear >= ring.rear /\ r.rear = mix.ring - 1
    <3>1. a.rear = 0
      BY <1>1, <2>2
    <3>2. r.rear <= ring.rear + k
      BY <1>0, <2>2 DEF Grown
    <3>3. a.rear < ring.rear /\ a.rear + mix.ring <= ring.rear + (k + 1)
      BY <1>0, <2>2, <3>1, <3>2
    <3> QED BY <1>1, <3>3 DEF Grown
  <2>3. CASE r.rear >= ring.rear /\ r.rear # mix.ring - 1
    <3>1. a.rear = r.rear + 1 /\ a.front = ring.front
      BY <1>1, <2>3 DEF Grown
    <3>2. r.rear <= ring.rear + k /\ \A i \in Places : i < ring.rear => r.arr[i] = ring.arr[i]
      BY <1>0, <2>3 DEF Grown
    <3>3. \A i \in Places : i < ring.rear => a.arr[i] = ring.arr[i]
      BY <1>0, <1>1, <2>3, <3>2
    <3>4. ring.rear <= a.rear /\ a.rear <= ring.rear + (k + 1) /\ a.front # a.rear
      BY <1>0, <2>3, <3>1, <3>2
    <3> QED BY <3>1, <3>3, <3>4 DEF Grown, emp
  <2> QED BY <1>0, <2>1, <2>2, <2>3 DEF Grown
<1>4. Forgets(a).front = a.front /\ Forgets(a).rear = a.rear /\ (~emp(a) => Forgets(a) = a)
  <2>1. a \in Rings
    BY AddedIs DEF a
  <2> QED BY <2>1 DEF Forgets, Rings
<1>5. Grown(Forgets(a), k + 1)
  <2>1. CASE ~emp(a)
    BY <1>3, <1>4, <2>1
  <2>2. CASE emp(a)
    <3>1. a.rear \in Nat /\ a.rear < ring.rear
      BY <1>0, <1>1, <1>3, <2>2
    <3>2. a.front = ring.front /\ a.rear + mix.ring <= ring.rear + (k + 1)
      BY <1>0, <1>3, <3>1 DEF Grown
    <3> QED BY <1>4, <3>1, <3>2 DEF Grown
  <2> QED BY <2>1, <2>2
<1> QED BY <1>2, <1>5 DEF push, a

LEMMA CollectedGrown ==
  ASSUME PassOK, mix.ring > NPROC, ring.front <= ring.rear, NEW st, NEW from \in 1..InRing,
         NEW upto \in from..InRing
  PROVE  Grown(Collected(st, from, upto), upto - from)
<1> DEFINE S == {k \in 0..NPROC : k + 1 >= from => Grown(Collected(st, from, k + 1), (k + 1) - from)}
<1>0. /\ from \in Nat /\ from >= 1 /\ NPROC \in Nat /\ from <= NPROC + 1
      /\ upto - 1 \in 0..NPROC /\ upto >= from /\ upto = (upto - 1) + 1
  BY Numbers DEF InRing
<1>1. \A k \in 0..NPROC : k + 1 = from => k \in S
  <2>1. Grown(ring, 0) /\ from - from = 0
    BY <1>0, RingLength DEF Grown, PassOK, RingOK, Rings
  <2> QED BY <2>1, CollectedStep
<1>2. 0 \in S
  BY <1>0, <1>1
<1>3. ASSUME NEW k \in 0..(NPROC - 1), k \in S PROVE k + 1 \in S
  <2>1. k + 1 \in 0..NPROC /\ k + 1 \in Slots
    BY <1>0, Numbers
  <2>2. CASE (k + 1) + 1 <= from
    BY <1>0, <1>1, <2>1, <2>2
  <2>3. CASE k + 1 >= from
    <3> PICK r : r = Collected(st, from, k + 1)
      OBVIOUS
    <3>1. k + 1 \in from..NPROC /\ k + 1 \in from..InRing
      BY <1>0, <2>1, <2>3 DEF InRing
    <3>2. Grown(r, (k + 1) - from) /\ r \in Rings /\ ring \in Rings
      BY <1>3, <2>3, <3>1, CollectedOK DEF PassOK, RingOK
    <3>3. Collected(st, from, (k + 1) + 1) = Collects(st, r, k + 1)
      BY <3>1, CollectedStep
    <3>4. (k + 1) - from \in Nat /\ (k + 1) - from < NPROC /\ ((k + 1) - from) + 1 = ((k + 1) + 1) - from
      BY <1>0, <2>1, <2>3
    <3>5. Grown(push(r, k + 1), ((k + 1) - from) + 1) /\ Grown(r, ((k + 1) - from) + 1)
      BY <2>1, <3>2, <3>4, PushGrows DEF PassOK
    <3>6. Grown(Collects(st, r, k + 1), ((k + 1) + 1) - from)
      BY <3>4, <3>5 DEF Collects
    <3> QED BY <2>1, <3>3, <3>6
  <2> QED BY <1>0, <2>2, <2>3
<1>4. upto - 1 \in S
  <2> HIDE DEF S
  <2>1. 0..NPROC \subseteq S
    BY <1>2, <1>3, UpToNPROC
  <2> QED BY <1>0, <2>1
<1> QED BY <1>0, <1>4

(* What a step of a pass does with the ring.                                *)
Keeps(r) ==
  /\ r \in Rings /\ r.front = ring.front
  /\ \/ /\ ring.rear <= r.rear
        /\ \A i \in Places : i < ring.rear => r.arr[i] = ring.arr[i]
     \/ r.rear < ring.rear
RingDoes(c, st) ==
  \E r : /\ Keeps(r)
         /\ \/ ring' = r /\ at'[c] # InRing
            \/ ring' = pop(r) /\ ~emp(r) /\ st[r.arr[r.front]] # "RUNNABLE" /\ PassOver(c, st)
            \/ /\ ring' = r /\ ~emp(r) /\ at'[c] = InRing /\ proc'[c] = r.arr[r.front]
               /\ proc'[c] \in Slots /\ state'[proc'[c]] = "RUNNING"

LEMMA CollectedKeeps ==
  ASSUME PassOK, mix.sched = "MULTILEVEL", ring.front <= ring.rear, NEW st, NEW from \in 1..InRing,
         NEW upto \in from..InRing
  PROVE  Keeps(Collected(st, from, upto))
<1> PICK r : r = Collected(st, from, upto)
  OBVIOUS
<1>1. /\ from \in Nat /\ NPROC \in Nat /\ upto \in Nat /\ upto - from <= NPROC /\ upto - from \in Nat
      /\ mix.ring \in Nat /\ mix.ring > NPROC
  BY RingLength, Numbers DEF PassOK, InRing
<1>2. Grown(r, upto - from)
  BY <1>1, CollectedGrown
<1>3. r \in Rings /\ ring \in Rings
  BY CollectedOK DEF PassOK, RingOK
<1> QED BY <1>1, <1>2, <1>3, RingLength DEF Grown, Keeps, Rings, PassOK

LEMMA GoRing ==
  ASSUME PassOK, mix.sched = "MULTILEVEL", ring.front <= ring.rear, NEW c \in CPUs, NEW st, NEW e,
         st \in [Slots -> {"UNUSED", "RUNNABLE", "RUNNING", "SLEEPING", "ZOMBIE"}],
         NEW from \in 1..InRing, Go(c, st, e, from)
  PROVE  RingDoes(c, st)
<1>0. /\ from \in Nat /\ NPROC \in Nat /\ from <= InRing /\ InRing \in from..InRing
      /\ 0 # InRing /\ InRing \notin Slots /\ PassTypes
  BY Numbers DEF InRing, PassOK
<1> PICK b : b = Stop(st, e, from)
  OBVIOUS
<1>1. CASE b # None
  <2>1. b \in from..NPROC /\ b \in Slots
    BY <1>1, StopIs
  <2>2. ring' = Collected(st, from, b) /\ Runs(c, st, b, b)
    BY <1>1 DEF Go
  <2>3. Keeps(ring')
    BY <1>0, <2>1, <2>2, CollectedKeeps DEF InRing
  <2>4. at'[c] # InRing
    BY <1>0, <2>1, <2>2 DEF Runs, PassTypes
  <2> QED BY <2>3, <2>4 DEF RingDoes
<1>2. CASE b = None
  <2> PICK r : r = Collected(st, from, InRing)
    OBVIOUS
  <2>1. Keeps(r) /\ RingTurn(c, st, e, r)
    BY <1>0, <1>2, CollectedKeeps DEF Go
  <2>2. RingOK(r)
    BY <1>0, CollectedOK DEF PassOK
  <2>3. PassOver(c, st) => at'[c] # InRing
    BY <1>0 DEF PassOver, PassTypes
  <2>4. CASE e \/ emp(r)
    BY <2>1, <2>3, <2>4 DEF RingTurn, RingDoes
  <2>5. CASE ~e /\ ~emp(r) /\ st[r.arr[r.front]] # "RUNNABLE"
    <3>1. ring' = pop(r) /\ PassOver(c, st)
      BY <2>1, <2>5 DEF RingTurn
    <3> QED BY <2>1, <2>5, <3>1 DEF RingDoes
  <2>6. CASE ~e /\ ~emp(r) /\ st[r.arr[r.front]] = "RUNNABLE"
    <3>1. ring' = r /\ Runs(c, st, r.arr[r.front], InRing)
      BY <2>1, <2>6 DEF RingTurn
    <3>2. r.front \in Places /\ r.rear \in Places /\ r.arr \in [Places -> Slots \cup {None}] /\ r.front # r.rear
      BY <2>2, <2>6 DEF RingOK, Rings, emp
    <3>3. Held(r, r.front)
      BY <3>2, RingLength DEF Held, PassOK
    <3>4. r.arr[r.front] \in Slots
      BY <2>2, <3>2, <3>3 DEF RingOK
    <3>5. at'[c] = InRing /\ proc'[c] = r.arr[r.front] /\ state'[proc'[c]] = "RUNNING"
      BY <1>0, <3>1, <3>4 DEF Runs, PassTypes
    <3> QED BY <2>1, <2>6, <3>1, <3>4, <3>5 DEF RingDoes
  <2> QED BY <2>4, <2>5, <2>6
<1> QED BY <1>1, <1>2

(* The process that is to be run next: it comes back as runnable, or it is  *)
(* forgotten.                                                               *)
Waits ==
  /\ last # None => /\ OneCpu /\ mix.sched = "MULTILEVEL" /\ last \in Slots
                    /\ state[last] \in {"RUNNABLE", "RUNNING"}
  /\ OneCpu /\ mix.sched = "MULTILEVEL" /\ ~wrapped =>
       /\ ring.front <= ring.rear
       /\ last # None => ring.front < ring.rear /\ ring.arr[ring.front] = last

(* On one CPU it is runnable when the pass goes on, or is not waited for.   *)
LEMMA MoveLast ==
  ASSUME PassOK, Runners, Waits, OneCpu, NEW c \in CPUs, NEW st, NEW e, Moves(c, st, e),
         at'[c] # InRing, last' # None
  PROVE  last' = last /\ st[last] = "RUNNABLE" /\ state'[last] \in {"RUNNABLE", "RUNNING"}
<1>0. PassTypes /\ c \in mix.cpus /\ mix \in Builds /\ Recorded(c)
  BY DEF PassOK, Moves
<1>1. last' = last /\ state'[last] \notin {"SLEEPING", "ZOMBIE"} /\ last # None
  BY <1>0 DEF Recorded
<1>2. last \in Slots /\ state[last] \in {"RUNNABLE", "RUNNING"}
  BY <1>1 DEF Waits
<1>3. (at[c] = 0 /\ st = state) \/ (at[c] # 0 /\ Stopped(c, st))
  BY DEF Moves
<1>4. /\ st \in [Slots -> {"UNUSED", "RUNNABLE", "RUNNING", "SLEEPING", "ZOMBIE"}]
      /\ \A s \in Slots : st[s] # state[s] => st[s] \in {"RUNNABLE", "SLEEPING", "ZOMBIE"}
      /\ at[c] # 0 /\ proc[c] \in Slots => st[proc[c]] # "RUNNING"
  BY <1>0, <1>3, TableThen
<1>5. state[last] = "RUNNING" => at[c] # 0 /\ proc[c] = last
  <2>1. mix.cpus = {c}
    BY <1>0, Alone
  <2> QED BY <1>2, <2>1 DEF Runners
<1>6. st[last] \in {"RUNNABLE", "SLEEPING", "ZOMBIE"}
  BY <1>2, <1>4, <1>5
<1>7. state'[last] = st[last] \/ (st[last] = "RUNNABLE" /\ state'[last] = "RUNNING")
  <2>1. CASE PassOver(c, st)
    BY <2>1 DEF PassOver
  <2>2. ASSUME NEW b \in Slots, NEW place, Runs(c, st, b, place), st[b] = "RUNNABLE"
        PROVE  state'[last] = st[last] \/ (st[last] = "RUNNABLE" /\ state'[last] = "RUNNING")
    BY <1>2, <1>4, <2>2 DEF Runs
  <2> QED BY <2>1, <2>2, MoveEnds
<1> QED BY <1>1, <1>6, <1>7

LEMMA MoveWaits ==
  ASSUME PassOK, Runners, NoRing, Waits, NEW c \in CPUs, NEW st, NEW e, Moves(c, st, e), Walks(c, st, e)
  PROVE  Waits'
<1>0. /\ PassTypes /\ c \in mix.cpus /\ mix \in Builds /\ Recorded(c) /\ mix' = mix /\ RingOK(ring)
      /\ at[c] \in 0..InRing /\ NPROC \in Nat /\ mix.sched \in {"DEFAULT", "MULTILEVEL"}
  BY RingLength, Numbers DEF PassOK, Moves, PassTypes
<1>1. OneCpu' <=> OneCpu
  BY <1>0 DEF OneCpu
<1>2. CASE ~OneCpu
  <2>1. last = None /\ last' = last
    BY <1>0, <1>2 DEF Waits, Recorded
  <2> QED BY <1>1, <1>2, <2>1 DEF Waits
<1>3. CASE OneCpu /\ mix.sched = "DEFAULT"
  <2>1. last = None /\ at'[c] # InRing
    BY <1>0, <1>3, MoveNoRing DEF Waits, NoRing
  <2>2. last' = None
    BY <1>3, <2>1, MoveLast
  <2> QED BY <1>0, <1>3, <2>2 DEF Waits
<1>4. CASE OneCpu /\ mix.sched = "MULTILEVEL" /\ wrapped
  <2>1. wrapped'
    BY <1>0, <1>4 DEF Recorded
  <2>2. CASE at'[c] = InRing
    <3>1. last' = proc'[c]
      BY <1>0, <1>4, <2>2 DEF Recorded
    <3>2. Runners'
      BY MoveRunners
    <3>3. last' \in Slots /\ state'[last'] = "RUNNING"
      BY <2>2, <3>1, <3>2, Numbers DEF Runners, InRing
    <3> QED BY <1>0, <1>1, <1>4, <2>1, <3>3 DEF Waits
  <2>3. CASE at'[c] # InRing
    <3>1. last' # None => last' \in Slots /\ state'[last'] \in {"RUNNABLE", "RUNNING"}
      BY <1>4, <2>3, MoveLast DEF Waits
    <3> QED BY <1>0, <1>1, <1>4, <2>1, <3>1 DEF Waits
  <2> QED BY <2>2, <2>3
<1>5. CASE OneCpu /\ mix.sched = "MULTILEVEL" /\ ~wrapped
  <2>0. /\ ring.front <= ring.rear
        /\ last # None => ring.front < ring.rear /\ ring.arr[ring.front] = last
        /\ wrapped' <=> ring'.rear < ring.rear
        /\ ring.front \in Nat /\ ring.rear \in Nat /\ ring.rear < mix.ring /\ mix.ring \in Nat
        /\ ring.front \in Places /\ Places = 0..(mix.ring - 1)
    <3>1. ring.front \in Places /\ ring.rear \in Places /\ mix.ring \in Nat /\ Places = 0..(mix.ring - 1)
      BY <1>0, RingLength DEF RingOK, Rings
    <3>2. wrapped' <=> ring'.rear < ring.rear
      BY <1>0, <1>5 DEF Recorded
    <3> QED BY <1>5, <3>1, <3>2 DEF Waits
  <2>1. st \in [Slots -> {"UNUSED", "RUNNABLE", "RUNNING", "SLEEPING", "ZOMBIE"}]
    BY <1>0, TableThen DEF Moves
  <2>2. RingDoes(c, st)
    <3>1. CASE at[c] = InRing
      <4>1. ring' = ring /\ PassOver(c, st)
        BY <1>0, <3>1, Numbers DEF Walks, Moves
      <4>2. at'[c] # InRing
        BY <1>0, <4>1 DEF PassOver, PassTypes, InRing
      <4>3. Keeps(ring)
        BY <1>0, <2>0 DEF Keeps, RingOK
      <4> QED BY <4>1, <4>2, <4>3 DEF RingDoes
    <3>2. CASE at[c] # InRing
      <4>1. at[c] + 1 \in 1..InRing
        BY <1>0, <3>2 DEF InRing
      <4> QED BY <1>5, <2>0, <2>1, <3>2, <4>1, GoRing DEF Walks
    <3> QED BY <3>1, <3>2
  <2>3. PICK r : /\ Keeps(r)
                 /\ \/ ring' = r /\ at'[c] # InRing
                    \/ ring' = pop(r) /\ ~emp(r) /\ st[r.arr[r.front]] # "RUNNABLE" /\ PassOver(c, st)
                    \/ /\ ring' = r /\ ~emp(r) /\ at'[c] = InRing /\ proc'[c] = r.arr[r.front]
                       /\ proc'[c] \in Slots /\ state'[proc'[c]] = "RUNNING"
    BY <2>2 DEF RingDoes
  <2>4. r \in Rings /\ r.front = ring.front /\ r.rear \in Nat /\ r.rear < mix.ring
    BY <2>0, <2>3 DEF Keeps, Rings
  <2>5. r.rear >= ring.rear => /\ r.front <= r.rear
                               /\ last # None => r.front < r.rear /\ r.arr[r.front] = last
    BY <2>0, <2>3, <2>4 DEF Keeps
  <2>6. CASE ring' = r /\ at'[c] # InRing
    <3>1. last' # None => last' = last /\ last' \in Slots /\ state'[last'] \in {"RUNNABLE", "RUNNING"}
      BY <1>5, <2>6, MoveLast DEF Waits
    <3>2. ~wrapped' => r.rear >= ring.rear
      BY <2>0, <2>4, <2>6
    <3> QED BY <1>0, <1>1, <1>5, <2>5, <2>6, <3>1, <3>2 DEF Waits
  <2>7. CASE ring' = pop(r) /\ ~emp(r) /\ st[r.arr[r.front]] # "RUNNABLE" /\ PassOver(c, st)
    <3>1. at'[c] # InRing
      BY <1>0, <2>7 DEF PassOver, PassTypes, InRing
    <3>2. last' # None => last' = last /\ st[last] = "RUNNABLE" /\ last' \in Slots /\ state'[last'] \in {"RUNNABLE", "RUNNING"}
      BY <1>5, <3>1, MoveLast DEF Waits
    <3>3. ring'.front = (r.front + 1) % mix.ring /\ ring'.rear = r.rear
      BY <2>4, <2>7 DEF pop, Rings
    <3>4. ring'.front = IF r.front = mix.ring - 1 THEN 0 ELSE r.front + 1
      BY <1>0, <2>0, <2>4, <3>3, NextPlace
    <3>5. ~wrapped' => r.rear >= ring.rear
      BY <2>0, <2>4, <3>3
    <3>6. ~wrapped' => ring'.front <= ring'.rear
      BY <2>0, <2>4, <2>5, <2>7, <3>3, <3>4, <3>5 DEF emp
    <3>7. ~wrapped' => last' = None
      BY <2>5, <2>7, <3>2, <3>5
    <3> QED BY <1>0, <1>1, <1>5, <3>2, <3>6, <3>7 DEF Waits
  <2>8. CASE /\ ring' = r /\ ~emp(r) /\ at'[c] = InRing /\ proc'[c] = r.arr[r.front]
             /\ proc'[c] \in Slots /\ state'[proc'[c]] = "RUNNING"
    <3>1. last' = proc'[c]
      BY <1>0, <1>5, <2>8 DEF Recorded
    <3>2. ~wrapped' => r.rear >= ring.rear
      BY <2>0, <2>4, <2>8
    <3>3. ~wrapped' => r.front < r.rear
      BY <2>0, <2>4, <2>5, <2>8, <3>2 DEF emp
    <3>4. last' \in Slots /\ state'[last'] = "RUNNING" /\ ring'.arr[ring'.front] = last'
      BY <2>8, <3>1
    <3>5. ~wrapped' => ring'.front < ring'.rear /\ ring'.front <= ring'.rear
      BY <2>0, <2>4, <2>8, <3>3
    <3> QED BY <1>0, <1>1, <1>5, <3>4, <3>5 DEF Waits
  <2> QED BY <2>3, <2>6, <2>7, <2>8
<1> QED BY <1>0, <1>2, <1>3, <1>4, <1>5

LEMMA QuietWaits ==
  ASSUME Waits, Quiet
  PROVE  Waits'
<1>1. UNCHANGED <<mix, ring, last, wrapped>> /\ (OneCpu' <=> OneCpu)
  BY DEF Quiet, OneCpu
<1>2. last # None => last \in Slots /\ state'[last] \in {"RUNNABLE", "RUNNING"}
  BY DEF Quiet, Waits
<1> QED BY <1>1, <1>2 DEF Waits
-----------------------------------------------------------------------------
(* What holds of every step.  After a CPU has yielded for a process of      *)
(* another the model says nothing more of who runs where.                   *)
TurnInv ==
  IF mix.sched = "MLFQ"
  THEN /\ mix \in Builds /\ last = None
       /\ \A c \in CPUs, q \in Slots : turns[c][q] = 0
  ELSE PassOK /\ LapsOK /\ Waits /\ (~strayed => Runners)

LEMMA TurnInit == SchedInit => TurnInv
<1> SUFFICES ASSUME SchedInit PROVE TurnInv
  OBVIOUS
<1>0. /\ mix \in Builds /\ mix.ring \in Nat /\ mix.ring > 0 /\ 0 \in Places /\ Places = 0..(mix.ring - 1)
      /\ NPROC \in Nat /\ NPROC > 1 /\ initproc \in Slots /\ None \notin Slots /\ 0 \notin Slots
      /\ InRing # 0 /\ last = None
  <2>1. mix \in Builds /\ last = None
    BY DEF SchedInit
  <2> QED BY <2>1, RingLength, Numbers DEF initproc, None, InRing
<1>1. /\ state = [s \in Slots |-> IF s = initproc THEN "RUNNABLE" ELSE "UNUSED"]
      /\ proc = [c \in CPUs |-> None]
      /\ pid = [s \in Slots |-> IF s = initproc THEN 1 ELSE 0] /\ nextpid = 2
      /\ at = [c \in CPUs |-> 0] /\ even_exist = [c \in CPUs |-> FALSE]
      /\ ring = [arr |-> [i \in 0..(mix.ring - 1) |-> None], front |-> 0, rear |-> 0]
      /\ turns = [c \in CPUs |-> [q \in Slots |-> 0]] /\ strayed = FALSE
  BY DEF SchedInit, Init
<1>2. PassTypes /\ PidsGiven
  <2>1. PassTypes
    BY <1>0, <1>1 DEF PassTypes, InRing
  <2>2. PidsGiven
    BY <1>0, <1>1 DEF PidsGiven
  <2> QED BY <2>1, <2>2
<1>3. RingOK(ring)
  <2>1. ring \in Rings /\ \A i \in Places : ring.arr[i] = None
    BY <1>0, <1>1 DEF Rings
  <2>2. \A i \in Places : ~Held(ring, i)
    BY <1>0, <1>1 DEF Held
  <2> QED BY <2>1, <2>2 DEF RingOK
<1>4. Runners
  BY <1>0, <1>1 DEF Runners
<1>5. LapsOK
  <2>1. Evens /\ NoRing
    BY <1>0, <1>1 DEF Evens, NoRing
  <2>2. \A c \in CPUs, q \in Slots : turns[c][q] = 0
    BY <1>1
  <2> QED BY <2>1, <2>2, NoLap DEF LapsOK, Rested, Laps
<1>6. Waits
  BY <1>0, <1>1 DEF Waits
<1>7. \A c \in CPUs, q \in Slots : turns[c][q] = 0
  BY <1>1
<1> QED BY <1>0, <1>2, <1>3, <1>4, <1>5, <1>6, <1>7 DEF TurnInv, PassOK

LEMMA TurnSame ==
  ASSUME TurnInv, UNCHANGED allvars
  PROVE  TurnInv'
<1>1. /\ UNCHANGED <<state, proc, mix, pid, nextpid, at, even_exist, ring, turns, last, wrapped, strayed>>
  BY DEF allvars, vars, cpu, passes
<1>2. CASE mix.sched = "MLFQ"
  BY <1>1, <1>2 DEF TurnInv
<1>3. CASE mix.sched # "MLFQ"
  <2>1. PassOK /\ LapsOK /\ Waits /\ (~strayed => Runners) /\ PassTypes /\ PidsGiven
    BY <1>3 DEF TurnInv, PassOK
  <2>2. PassOK'
    BY <1>1, <2>1, SameOK DEF PassTypes, PidsGiven
  <2>3. Waits' /\ (~strayed' => Runners')
    <3>1. OneCpu' <=> OneCpu
      BY <1>1 DEF OneCpu
    <3>2. Waits'
      BY <1>1, <2>1, <3>1 DEF Waits
    <3>3. Runners <=> Runners'
      BY <1>1 DEF Runners
    <3> QED BY <1>1, <2>1, <3>2, <3>3
  <2>4. LapsOK'
    BY <1>1, <2>1 DEF LapsOK, Evens, NoRing, Rested, Wanted, Timely, Laps, Lap, DefaultLap, LevelLap, StopsForIt, InRing
  <2> QED BY <1>1, <1>3, <2>2, <2>3, <2>4 DEF TurnInv
<1> QED BY <1>2, <1>3

LEMMA TurnStep ==
  ASSUME TurnInv, [SchedNext]_allvars
  PROVE  TurnInv'
<1>1. CASE UNCHANGED allvars \/ (strayed /\ UNCHANGED <<mix, vars, passes>>)
  BY <1>1, TurnSame DEF allvars
<1>2. CASE mix.sched = "MLFQ" /\ UNCHANGED <<mix, passes>>
  BY <1>2 DEF TurnInv, passes
<1>3. ASSUME mix.sched # "MLFQ", ~strayed, UNCHANGED mix, PassNext
      PROVE  TurnInv'
  <2>0. /\ PassOK /\ LapsOK /\ Waits /\ Runners /\ mix.cpus \subseteq CPUs /\ mix'.sched # "MLFQ"
    BY <1>3, RingLength DEF TurnInv, PassOK
  <2>1. ASSUME PassOK', Quiet, UNCHANGED mix,
               strayed' \/ \A r \in Slots : state'[r] = "RUNNING" <=> state[r] = "RUNNING"
        PROVE  TurnInv'
    <3>1. LapsOK' /\ Waits'
      BY <2>0, <2>1, QuietLaps, QuietWaits
    <3>2. strayed' \/ Runners'
      BY <2>0, <2>1, QuietRunners DEF Quiet
    <3> QED BY <2>0, <2>1, <3>1, <3>2 DEF TurnInv
  <2>2. ASSUME NEW s \in Slots, PassWakeup(s) PROVE TurnInv'
    BY <1>3, <2>0, <2>1, <2>2, WakeupStep
  <2>3. ASSUME NEW c \in mix.cpus, PassStart(c) \/ PassTimer(c) \/ PassSleep(c) \/ PassExit(c)
        PROVE  TurnInv'
    <3>1. PICK st, e : Moves(c, st, e) /\ Walks(c, st, e)
      BY <1>3, <2>0, <2>3, StepMoves
    <3>2. LapsOK' /\ Runners'
      BY <2>0, <3>1, MoveLaps, MoveRunners
    <3>3. Waits'
      BY <2>0, <3>1, MoveWaits DEF LapsOK
    <3>4. PassTypes' /\ PidsGiven'
      BY <2>0, <3>1, MoveTypes
    <3>5. PassOK'
      BY <1>3, <2>0, <3>1, <3>4 DEF PassOK, Moves
    <3> QED BY <2>0, <3>2, <3>3, <3>5 DEF TurnInv
  <2>4. ASSUME NEW c \in mix.cpus, StrayTimer(c) PROVE TurnInv'
    BY <1>3, <2>0, <2>1, <2>4, StrayStep
  <2>5. ASSUME NEW c \in mix.cpus, NEW s \in Slots, PassFork(c, s) PROVE TurnInv'
    BY <1>3, <2>0, <2>1, <2>5, ForkStep
  <2>6. ASSUME NEW c \in mix.cpus, NEW s \in Slots, PassWait(c, s) PROVE TurnInv'
    BY <1>3, <2>0, <2>1, <2>6, WaitStep
  <2> QED BY <1>3, <2>2, <2>3, <2>4, <2>5, <2>6 DEF PassNext
<1> QED BY <1>1, <1>2, <1>3 DEF SchedNext

(* A lap is at most one turn under DEFAULT and two under MULTILEVEL_SCHED.  *)
LEMMA LapEnds ==
  ASSUME PassTypes, NEW c \in CPUs, NEW q \in Slots, NEW e, Lap(turns[c][q], at[c], e, q)
  PROVE  turns[c][q] <= IF mix.sched = "DEFAULT" THEN 1 ELSE 2
<1>1. turns[c][q] \in 0..3
  BY DEF PassTypes
<1> QED BY <1>1 DEF Lap, DefaultLap, LevelLap

(* Processes wait their turn and no longer, for any table, CPUs and rings   *)
(* longer than the table (proc.c:702-783: the loop goes on in the table     *)
(* after each process, and who was interrupted stays first in the ring).    *)
THEOREM TurnsKeptHolds == SchedSpec => []TurnsKept
<1>1. TurnInv => TurnsKept
  <2> SUFFICES ASSUME TurnInv PROVE TurnsKept
    OBVIOUS
  <2>1. CASE mix.sched = "MLFQ"
    BY <2>1 DEF TurnInv, TurnsKept
  <2>2. CASE mix.sched # "MLFQ"
    <3>1. \A c \in CPUs, q \in Slots : turns[c][q] <= IF mix.sched = "DEFAULT" THEN 1 ELSE 2
      BY <2>2, LapEnds DEF TurnInv, PassOK, LapsOK, Laps
    <3>2. last # None /\ ~wrapped => ring.arr[ring.front] = last
      BY <2>2 DEF TurnInv, Waits
    <3> QED BY <3>1, <3>2 DEF TurnsKept
  <2> QED BY <2>1, <2>2
<1> QED BY <1>1, TurnInit, TurnStep, PTL DEF SchedSpec
=============================================================================
