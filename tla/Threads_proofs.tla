---------------------------- MODULE Threads_proofs ----------------------------
(***************************************************************************)
(* Proofs about processes and threads, for every number of slots, CPUs and *)
(* pids and every mix of programs in which only processes without threads  *)
(* call exec() and no main thread calls thread_exit() (Orderly).           *)
(*                                                                         *)
(* `Core' is the family tree of ptable as the kernel code relies on it: who *)
(* is on a CPU is RUNNING, the slot between allocproc() and the end of      *)
(* fork() or thread_create() belongs to one creator, a thread has a living  *)
(* master that is not on its way out, slots share a pid only inside one     *)
(* family, and parents are alive.  Every conjunct needs the others.         *)
(*                                                                         *)
(* The second half is about page tables and user memory.  `Tables' says who *)
(* owns which page table: each process one of its own, each thread that of  *)
(* its master, and a table is in use just when a process owns it.  `Memory' *)
(* says what is in the one of a process: the stacks of its threads, mapped  *)
(* and apart, and the stacks that joined threads have left, unmapped and    *)
(* apart, all below the size.  An exiting process gives up the second half, *)
(* because exit() puts addresses on the list without unmapping anything     *)
(* (proc.c:436).                                                            *)
(***************************************************************************)
EXTENDS ThreadMem, FiniteSetTheorems, WellFoundedInduction, TLAPS

Live == {"SLEEPING", "RUNNABLE", "RUNNING"}
Unborn == {"UNUSED", "EMBRYO"}
Creating == {"fork", "tnew", "tgo"}
Loners == {"exit", "dead", "kill", "load", "wake"}
States == Unborn \cup Live \cup {"ZOMBIE"}
Stops ==
  {"user", "fork", "tnew", "tgo", "wait", "join", "reap", "exit", "texit",
   "kill", "load", "wake", "adopt", "io", "dead", "grow", "shrink", "panic"}

Types ==
  /\ state \in [Slots -> States]
  /\ nextpid \in Nat \ {0}
  /\ pid \in [Slots -> 0..(nextpid - 1)]
  /\ nexttid \in Nat \ {0}
  /\ tid \in [Slots -> Nat]
  /\ parent \in [Slots -> {0} \cup Slots]
  /\ master \in [Slots -> {0} \cup Slots]
  /\ killed \in [Slots -> BOOLEAN]
  /\ chan \in [Slots -> 0..IO]
  /\ cpu \in [CPUs -> {0} \cup Slots]
  /\ pc \in [Slots -> Stops]
  /\ np \in [Slots -> {0} \cup Slots]
  /\ loc \in [Slots -> Nat]
  /\ mix \in Mixes

OnCpu == \A c \in CPUs : cpu[c] # 0 => state[cpu[c]] = "RUNNING"

Places ==
  \A p \in Slots :
    /\ pc[p] # "adopt"
    /\ pc[p] \in {"kill", "load", "wake"} => master[p] = 0
    /\ pc[p] = "texit" => master[p] # 0
    /\ state[p] \in Unborn => pc[p] \in {"user", "dead"}
    /\ state[p] = "ZOMBIE" => pc[p] = "dead"

Embryos ==
  \A p \in Slots : pc[p] \in Creating =>
    /\ np[p] \in Slots /\ state[np[p]] = "EMBRYO"
    /\ pc[p] # "tgo" => master[np[p]] = 0
    /\ pc[p] = "tnew" => loc[p] > 0
    /\ \A q \in Slots \ {p} : pc[q] \in Creating => np[q] # np[p]

Masters ==
  \A p \in Slots :
    /\ state[p] # "UNUSED" => (master[p] = 0 <=> tid[p] = 0)
    /\ master[p] # 0 =>
         /\ state[p] # "UNUSED"
         /\ state[master[p]] \in Live
         /\ master[master[p]] = 0
         /\ pc[master[p]] \notin Loners
    /\ parent[p] # 0 => state[p] \notin Unborn /\ master[p] = 0

Pids ==
  /\ \A p \in Slots : state[p] # "UNUSED" => pid[p] # 0
  /\ \A p, q \in Slots : pid[p] # 0 /\ pid[p] = pid[q] => MasterOf(p) = MasterOf(q)
  /\ \A p \in Slots : master[p] # 0 => pid[p] = pid[master[p]]

Rooted ==
  /\ state[initproc] \in Live /\ tid[initproc] = 0 /\ pc[initproc] \notin Loners
  /\ parent[initproc] = 0 /\ \A p \in Slots : parent[p] # p

Parents ==
  /\ \A p \in Slots : parent[p] # 0 =>
       state[parent[p]] \in Live /\ master[parent[p]] = 0
  /\ \A p \in Slots : pc[p] = "fork" => master[p] = 0

(* What NotForgotten says of one slot, which sleeps on itself.               *)
Awaits(p) ==
  state[p] = "SLEEPING" /\ pc[p] \in {"wait", "join", "reap"} =>
    /\ chan[p] = p
    /\ pc[p] = "wait" =>
         /\ \E q \in Slots : parent[q] = p
         /\ \A q \in Slots : parent[q] = p => state[q] # "ZOMBIE"
    /\ pc[p] = "reap" => \E q \in Slots : master[q] = p /\ state[q] # "ZOMBIE"
    /\ pc[p] = "join" => \A q \in Slots : master[q] = p /\ tid[q] = loc[p] => state[q] # "ZOMBIE"
    /\ pc[p] \in {"wait", "join"} => ~killed[p]

(* A free slot was killed only where kill() finds a pid, which only a fork   *)
(* that fails leaves there.                                                 *)
Fresh(p) ==
  state[p] = "UNUSED" => (killed[p] => pid[p] # 0) /\ (pid[p] # 0 => mix.oom)

Shape == Places /\ Embryos /\ Masters /\ Pids /\ Rooted
Core == Types /\ OnCpu /\ OneCpu /\ Shape

Undead == \A q \in Slots : state[q] = "ZOMBIE" => state'[q] \in {"ZOMBIE", "UNUSED"}

-----------------------------------------------------------------------------
LEMMA MinElement ==
  ASSUME NEW S, S \subseteq Nat, S # {}
  PROVE  Min(S) \in S
<1> DEFINE R == {ss \in Nat \X Nat : ss[1] < ss[2]}
<1>1. IsWellFoundedOn(R, Nat)
  BY NatLessThanWellFounded, Zenon DEF OpToRel
<1>2. PICK x \in S : \A y \in S : ~(<<y, x>> \in R)
  <2> HIDE DEF R
  <2>1. QED
    BY <1>1, WFMin
<1>3. ASSUME NEW y \in S PROVE x =< y
  <2>1. x \in Nat /\ y \in Nat
    OBVIOUS
  <2>2. <<y, x>> \in R <=> y < x
    BY <2>1
  <2>3. QED
    BY <1>2, <2>1, <2>2
<1>4. QED
  BY <1>3 DEF Min

LEMMA FirstSlot ==
  ASSUME NEW S \in SUBSET Slots, S # {}
  PROVE  Min(S) \in S
<1>1. S \subseteq Nat
  BY DEF Slots
<1>2. QED
  BY <1>1, MinElement

(* The slot that allocproc() takes. *)
LEMMA FirstUnused ==
  ASSUME Types, NEW p, NEW place, AllocProc(p, place)
  PROVE  LET e == Min({q \in 1..mix.slots : state[q] = "UNUSED"})
         IN  e \in Slots /\ state[e] = "UNUSED"
<1> DEFINE unused == {q \in 1..mix.slots : state[q] = "UNUSED"}
<1>1. mix.slots \in Slots
  BY ThreadsAssumption DEF Types
<1>2. unused \in SUBSET Slots /\ unused # {}
  BY <1>1, ThreadsAssumption DEF AllocProc, Slots
<1>3. Min(unused) \in unused
  BY <1>2, FirstSlot
<1>4. QED
  BY <1>2, <1>3

(* A step that moves living slots among their places and states, and leaves  *)
(* the families alone.                                                       *)
Calm ==
  /\ UNCHANGED <<pid, tid, parent, master, np>>
  /\ \A q \in Slots : state'[q] = state[q] \/ {state[q], state'[q]} \subseteq Live
  /\ \A q \in Slots : pc'[q] # pc[q] =>
       /\ state[q] \in Live
       /\ pc[q] \notin Creating
       /\ pc'[q] \notin Creating \cup {"adopt"}
       /\ pc'[q] \in Loners =>
            pc[q] \in Loners \/ (q # initproc /\ \A r \in Slots : master[r] # q)
       /\ pc'[q] \in {"kill", "load", "wake"} => master[q] = 0
       /\ pc'[q] = "texit" => master[q] # 0
  /\ \A q \in Slots : pc[q] = "tnew" => loc'[q] = loc[q]

LEMMA CalmFrame ==
  ASSUME Core, Calm
  PROVE  Shape' /\ Undead /\ (Parents => Parents')
<1> USE DEF Unborn, Live
<1>0. Types /\ Places /\ Embryos /\ Masters /\ Pids /\ Rooted
  BY DEF Core, Shape
<1>1. /\ pid' = pid /\ tid' = tid /\ parent' = parent /\ master' = master /\ np' = np
      /\ \A q \in Slots : state[q] \in Live <=> state'[q] \in Live
      /\ \A q \in Slots : state[q] \notin Live => state'[q] = state[q]
  BY DEF Calm
<1>2. Places'
  BY <1>0, <1>1 DEF Places, Calm
<1>3. Embryos'
  <2> SUFFICES ASSUME NEW p \in Slots, pc'[p] \in Creating
               PROVE  /\ np[p] \in Slots /\ state'[np[p]] = "EMBRYO"
                      /\ pc'[p] # "tgo" => master[np[p]] = 0
                      /\ pc'[p] = "tnew" => loc'[p] > 0
                      /\ \A q \in Slots \ {p} : pc'[q] \in Creating => np[q] # np[p]
    BY <1>1 DEF Embryos
  <2>1. pc'[p] = pc[p] /\ \A q \in Slots : pc'[q] \in Creating => pc'[q] = pc[q]
    BY DEF Calm
  <2>2. QED
    BY <1>0, <1>1, <2>1 DEF Embryos, Calm
<1>4. Masters'
  <2>1. ASSUME NEW p \in Slots, master[p] # 0 PROVE pc'[master[p]] \notin Loners
    <3>1. master[p] \in Slots /\ pc[master[p]] \notin Loners
      BY <1>0, <2>1 DEF Masters, Types
    <3>2. QED
      BY <2>1, <3>1 DEF Calm
  <2>2. \A p \in Slots : master[p] # 0 => master[p] \in Slots
    BY <1>0 DEF Types
  <2>3. QED
    BY <1>0, <1>1, <2>1, <2>2 DEF Masters
<1>5. Pids'
  BY <1>0, <1>1 DEF Pids, MasterOf
<1>6. Rooted'
  <2>1. initproc \in Slots
    BY ThreadsAssumption DEF initproc, Slots
  <2>2. pc'[initproc] \notin Loners
    BY <1>0, <2>1 DEF Rooted, Calm
  <2>3. QED
    BY <1>0, <1>1, <2>1, <2>2 DEF Rooted
<1>7. ASSUME Parents PROVE Parents'
  <2>1. \A p \in Slots : parent[p] # 0 => parent[p] \in Slots
    BY <1>0 DEF Types
  <2>2. QED
    BY <1>1, <1>7, <2>1 DEF Parents, Calm, Creating
<1>8. Undead
  BY <1>1 DEF Undead
<1>9. QED
  BY <1>2, <1>3, <1>4, <1>5, <1>6, <1>7, <1>8 DEF Shape

-----------------------------------------------------------------------------
(* Who runs: a CPU that does not pick a slot up keeps it only while RUNNING. *)

LEMMA CpuFrame ==
  ASSUME OneCpu,
         \A c \in CPUs : cpu'[c] # 0 => cpu'[c] = cpu[c] /\ state'[cpu[c]] = "RUNNING"
  PROVE  OnCpu' /\ OneCpu'
BY DEF OnCpu, OneCpu

LEMMA RunningState ==
  ASSUME Core, NEW p \in Slots, Running(p)
  PROVE  state[p] = "RUNNING"
BY DEF Core, OnCpu, Running, Types, Slots

(* A slot that changes state and is not on a CPU disturbs no CPU. *)
LEMMA CpuKept ==
  ASSUME Core, UNCHANGED cpu,
         \A q \in Slots : state[q] = "RUNNING" => state'[q] = "RUNNING"
  PROVE  OnCpu' /\ OneCpu'
<1>1. OneCpu /\ \A c \in CPUs : cpu[c] # 0 => cpu[c] \in Slots /\ state[cpu[c]] = "RUNNING"
  BY DEF Core, OnCpu, Types
<1>2. QED
  BY <1>1, CpuFrame

LEMMA CpuLeft ==
  ASSUME Core, NEW p \in Slots, LeaveCpu(p),
         \A q \in Slots : q # p /\ state[q] = "RUNNING" => state'[q] = "RUNNING"
  PROVE  OnCpu' /\ OneCpu'
<1>1. OneCpu /\ \A c \in CPUs : cpu[c] # 0 => cpu[c] \in Slots /\ state[cpu[c]] = "RUNNING"
  BY DEF Core, OnCpu, Types
<1>2. \A c \in CPUs : cpu'[c] = IF cpu[c] = p THEN 0 ELSE cpu[c]
  BY DEF LeaveCpu
<1>3. QED
  BY <1>1, <1>2, CpuFrame

(* The living slots that exec() in a process without threads looks for:      *)
(* nobody else has its pid.                                                  *)
LEMMA LonePid ==
  ASSUME Core, NEW p \in Slots, state[p] \in Live,
         pc[p] \in {"kill", "load", "wake"}, NEW q \in Slots \ {p}
  PROVE  pid[q] # pid[p]
<1>1. Types /\ Places /\ Masters /\ Pids
  BY DEF Core, Shape
<1>2. pid[p] # 0 /\ MasterOf(p) = p
  BY <1>1 DEF Places, Pids, Live, MasterOf
<1>3. MasterOf(q) # p
  BY <1>1 DEF Masters, Loners, MasterOf
<1>4. QED
  BY <1>1, <1>2, <1>3 DEF Pids

-----------------------------------------------------------------------------
(* allocproc(): the creator p gets a slot nobody refers to. *)
LEMMA AllocStep ==
  ASSUME Core, NEW p \in Slots, Running(p), pc[p] = "user",
         NEW place \in {"fork", "tnew"}, AllocProc(p, place), UNCHANGED parent,
         place = "tnew" => loc'[p] > 0,
         \A q \in Slots \ {p} : loc'[q] = loc[q]
  PROVE  /\ Shape' /\ Undead
         /\ Parents /\ (place = "fork" => master[p] = 0) => Parents'
<1>0. Types /\ Places /\ Embryos /\ Masters /\ Pids /\ Rooted
  BY DEF Core, Shape
<1> DEFINE unused == {q \in 1..mix.slots : state[q] = "UNUSED"}
           e == Min(unused)
<1>1. e \in Slots /\ state[e] = "UNUSED"
  BY <1>0, FirstUnused
<1>2. /\ state' = [state EXCEPT ![e] = "EMBRYO"]
      /\ pid' = [pid EXCEPT ![e] = nextpid]
      /\ tid' = [tid EXCEPT ![e] = 0]
      /\ master' = [master EXCEPT ![e] = 0]
      /\ np' = [np EXCEPT ![p] = e]
      /\ pc' = [pc EXCEPT ![p] = place]
  BY DEF AllocProc
<1> HIDE DEF e
<1>3. state[p] = "RUNNING" /\ p # e
  BY <1>1, RunningState
<1>4. /\ state'[e] = "EMBRYO" /\ pid'[e] = nextpid /\ tid'[e] = 0 /\ master'[e] = 0
      /\ \A q \in Slots \ {e} : /\ state'[q] = state[q] /\ pid'[q] = pid[q]
                               /\ tid'[q] = tid[q] /\ master'[q] = master[q]
      /\ np'[p] = e /\ pc'[p] = place
      /\ \A q \in Slots \ {p} : np'[q] = np[q] /\ pc'[q] = pc[q]
  BY <1>0, <1>1, <1>2 DEF Types
<1>5. master[e] = 0 /\ \A q \in Slots : master[q] # e
  BY <1>0, <1>1 DEF Masters, Live, Slots
<1>6. parent[e] = 0 /\ parent' = parent
  BY <1>0, <1>1 DEF Masters, Unborn
<1>7. Places'
  BY <1>0, <1>1, <1>3, <1>4 DEF Places, Unborn
<1>8. Embryos'
  <2>1. \A q \in Slots : pc[q] \in Creating => np[q] \in Slots /\ np[q] # e
    BY <1>0, <1>1 DEF Embryos
  <2>2. \A q \in Slots \ {p} : pc'[q] \in Creating => loc'[q] = loc[q]
    OBVIOUS
  <2>3. QED
    BY <1>0, <1>1, <1>3, <1>4, <2>1, <2>2 DEF Embryos, Creating
<1>9. Masters'
  <2>1. \A q \in Slots : master[q] # 0 => master[q] \in Slots \ {e}
    BY <1>0, <1>5 DEF Types
  <2>2. pc'[p] \notin Loners
    BY <1>4 DEF Loners
  <2>3. QED
    BY <1>0, <1>1, <1>4, <1>5, <1>6, <2>1, <2>2 DEF Masters, Unborn
<1>10. Pids'
  <2>1. \A q \in Slots : MasterOf(q)' = MasterOf(q)
    BY <1>4, <1>5 DEF MasterOf
  <2>2. \A q \in Slots \ {e} : master[q] # 0 => master[q] \in Slots \ {e}
    BY <1>0, <1>5 DEF Types
  <2>3. nextpid # 0 /\ \A q \in Slots : pid[q] # nextpid
    BY <1>0 DEF Types
  <2>4. QED
    BY <1>0, <1>1, <1>4, <1>5, <2>1, <2>2, <2>3 DEF Pids
<1>11. Rooted'
  <2>1. initproc \in Slots /\ initproc # e
    BY <1>0, <1>1, ThreadsAssumption DEF initproc, Slots, Rooted, Live
  <2>2. QED
    BY <1>0, <1>4, <1>6, <2>1 DEF Rooted, Loners
<1>12. ASSUME Parents, place = "fork" => master[p] = 0 PROVE Parents'
  <2>1. \A q \in Slots : parent[q] # 0 => parent[q] \in Slots \ {e}
    BY <1>0, <1>1, <1>6, <1>12 DEF Types, Parents, Live
  <2>2. \A q \in Slots : pc'[q] = "fork" => master'[q] = 0
    BY <1>3, <1>4, <1>12 DEF Parents
  <2>3. QED
    BY <1>1, <1>4, <1>6, <1>12, <2>1, <2>2 DEF Parents, Unborn
<1>13. Undead
  BY <1>1, <1>4 DEF Undead
<1>14. QED
  BY <1>7, <1>8, <1>9, <1>10, <1>11, <1>12, <1>13 DEF Shape

(* The end of fork() and of thread_create(), and the failure of fork(): the  *)
(* new slot leaves its creator.                                              *)
Delivered(p, st) ==
  /\ pc[p] \in Creating /\ (st = "UNUSED" => pc[p] = "fork")
  /\ state' = [state EXCEPT ![np[p]] = st]
  /\ np' = [np EXCEPT ![p] = 0]
  /\ pc' = IF st = "UNUSED" THEN [pc EXCEPT ![p] = "user"]
           ELSE [pc EXCEPT ![np[p]] = "user", ![p] = "user"]
  /\ UNCHANGED <<pid, tid, master, loc>>
  /\ \/ parent' = parent
     \/ st = "RUNNABLE" /\ pc[p] = "fork" /\ parent' = [parent EXCEPT ![np[p]] = p]

LEMMA EmbryoLeft ==
  ASSUME Core, NEW p \in Slots, Running(p), NEW st \in {"UNUSED", "RUNNABLE"}, Delivered(p, st)
  PROVE  Shape' /\ Undead /\ (Parents => Parents')
<1>0. Types /\ Places /\ Embryos /\ Masters /\ Pids /\ Rooted
  BY DEF Core, Shape
<1> DEFINE e == np[p]
<1>1. e \in Slots /\ state[e] = "EMBRYO" /\ state[p] = "RUNNING" /\ p # e
  BY <1>0, RunningState DEF Embryos, Delivered
<1>2. /\ state'[e] = st /\ \A q \in Slots \ {e} : state'[q] = state[q]
      /\ pid' = pid /\ tid' = tid /\ master' = master /\ loc' = loc
      /\ \A q \in Slots \ {p} : np'[q] = np[q]
      /\ pc'[p] = "user" /\ pc'[e] \in {"user", "dead"}
      /\ \A q \in Slots \ {p, e} : pc'[q] = pc[q]
      /\ pc[e] \in {"user", "dead"}
      /\ st = "RUNNABLE" => pc'[e] = "user"
  BY <1>0, <1>1 DEF Types, Places, Unborn, Delivered
<1>3. /\ \A q \in Slots : master[q] # e
      /\ pc[p] = "fork" => master[e] = 0
  BY <1>0, <1>1 DEF Masters, Live, Slots, Embryos, Creating
<1>4. \A q \in Slots : parent'[q] = parent[q] \/ (q = e /\ st = "RUNNABLE" /\ master[e] = 0 /\ parent'[e] = p)
  BY <1>0, <1>1, <1>3 DEF Types, Delivered
<1>6. parent[e] = 0
  BY <1>0, <1>1 DEF Masters, Unborn
<1> HIDE DEF e
<1>7. Places'
  <2>1. ASSUME NEW q \in Slots
        PROVE  /\ pc'[q] # "adopt"
               /\ pc'[q] = "texit" => master[q] # 0
               /\ pc'[q] \in {"kill", "load", "wake"} => master[q] = 0
               /\ state'[q] \in Unborn => pc'[q] \in {"user", "dead"}
               /\ state'[q] = "ZOMBIE" => pc'[q] = "dead"
    <3>1. CASE q = p
      BY <3>1, <1>1, <1>2 DEF Unborn
    <3>2. CASE q = e
      BY <3>2, <1>1, <1>2
    <3>3. CASE q \notin {p, e}
      BY <3>3, <1>0, <1>2 DEF Places
    <3>4. QED
      BY <3>1, <3>2, <3>3
  <2>2. master' = master
    BY <1>2
  <2>3. QED
    BY <2>1, <2>2 DEF Places
<1>8. Embryos'
  <2>1. \A q \in Slots \ {p} : pc[q] \in Creating => np[q] \in Slots /\ np[q] # e
    BY <1>0, <1>1 DEF Embryos, Delivered, e
  <2>2. \A q \in Slots : pc'[q] \in Creating => q # p /\ pc'[q] = pc[q]
    BY <1>2 DEF Creating
  <2>3. ASSUME NEW q \in Slots, pc'[q] \in Creating
        PROVE  /\ np'[q] = np[q] /\ np[q] \in Slots \ {e} /\ pc'[q] = pc[q] /\ q # p
               /\ state'[np[q]] = state[np[q]]
    BY <1>2, <2>1, <2>2, <2>3
  <2>4. ASSUME NEW q \in Slots, pc'[q] \in Creating
        PROVE  /\ np'[q] \in Slots /\ state'[np'[q]] = "EMBRYO"
               /\ pc'[q] # "tgo" => master'[np'[q]] = 0
               /\ pc'[q] = "tnew" => loc'[q] > 0
    <3>1. /\ state[np[q]] = "EMBRYO"
          /\ pc[q] # "tgo" => master[np[q]] = 0
          /\ pc[q] = "tnew" => loc[q] > 0
      BY <1>0, <2>3, <2>4 DEF Embryos
    <3>2. np'[q] = np[q]
      BY <2>3, <2>4
    <3>3. pc'[q] = pc[q] /\ np[q] \in Slots /\ state'[np[q]] = state[np[q]]
      BY <2>3, <2>4
    <3>4. master'[np[q]] = master[np[q]] /\ loc'[q] = loc[q]
      BY <1>2
    <3>5. QED
      BY <3>1, <3>2, <3>3, <3>4
  <2>5. ASSUME NEW q \in Slots, pc'[q] \in Creating, NEW r \in Slots \ {q}, pc'[r] \in Creating
        PROVE  np'[r] # np'[q]
    BY <1>0, <2>3, <2>5 DEF Embryos
  <2>6. QED
    BY <2>4, <2>5 DEF Embryos
<1>9. Masters'
  <2>1. \A q \in Slots : master[q] # 0 => master[q] \in Slots \ {e}
    BY <1>0, <1>3 DEF Types
  <2>2. st = "UNUSED" => master[e] = 0
    BY <1>3 DEF Delivered
  <2>3. pc'[p] \notin Loners
    BY <1>2 DEF Loners
  <2>4. \A q \in Slots : pc'[q] \in Loners /\ q # e => pc[q] \in Loners
    BY <1>2, <2>3
  <2>5. \A q \in Slots : state'[q] # "UNUSED" => state[q] # "UNUSED"
    BY <1>1, <1>2
  <2>6. \A q \in Slots : master[q] # 0 => state'[q] # "UNUSED"
    BY <1>0, <1>1, <1>2, <2>2 DEF Masters
  <2>7. ASSUME NEW q \in Slots, master[q] # 0
        PROVE  /\ state'[master[q]] \in Live /\ master[master[q]] = 0
               /\ pc'[master[q]] \notin Loners
    BY <1>0, <1>2, <2>1, <2>4, <2>7 DEF Masters
  <2>8. ASSUME NEW q \in Slots, state'[q] # "UNUSED"
        PROVE  master[q] = 0 <=> tid[q] = 0
    BY <1>0, <2>5, <2>8 DEF Masters
  <2>9. \A q \in Slots : parent'[q] # 0 => state'[q] \notin Unborn /\ master[q] = 0
    BY <1>0, <1>1, <1>2, <1>3, <1>4, <1>6 DEF Masters, Unborn
  <2>10. master' = master /\ tid' = tid
    BY <1>2
  <2>11. QED
    BY <2>6, <2>7, <2>8, <2>9, <2>10 DEF Masters
<1>10. Pids'
  BY <1>0, <1>1, <1>2 DEF Pids, MasterOf
<1>11. Rooted'
  <2>1. initproc \in Slots /\ initproc # e
    BY <1>0, <1>1, ThreadsAssumption DEF initproc, Slots, Rooted, Live
  <2>2. QED
    BY <1>0, <1>1, <1>2, <1>4, <2>1 DEF Rooted, Loners
<1>12. ASSUME Parents PROVE Parents'
  <2>1. parent[e] = 0 /\ \A q \in Slots : parent[q] # 0 => parent[q] \in Slots \ {e}
    BY <1>0, <1>1, <1>6, <1>12 DEF Types, Parents, Live
  <2>2. \A q \in Slots : pc'[q] = "fork" => master[q] = 0
    BY <1>2, <1>12 DEF Parents
  <2>3. parent'[e] # 0 => parent'[e] = p /\ st = "RUNNABLE" /\ master[e] = 0 /\ master[p] = 0
    BY <1>4, <1>1, <1>12, <2>1 DEF Parents, Delivered
  <2>4. ASSUME NEW q \in Slots, parent'[q] # 0
        PROVE  state'[parent'[q]] \in Live /\ master[parent'[q]] = 0
    <3>1. CASE q = e
      BY <1>1, <1>2, <2>3, <2>4, <3>1 DEF Live, Unborn
    <3>2. CASE q # e
      BY <1>2, <1>4, <1>12, <2>1, <2>4, <3>2 DEF Parents
    <3>3. QED
      BY <3>1, <3>2
  <2>5. QED
    BY <1>2, <1>12, <2>2, <2>4 DEF Parents
<1>13. Undead
  BY <1>1, <1>2 DEF Undead
<1>14. QED
  BY <1>7, <1>8, <1>9, <1>10, <1>11, <1>12, <1>13 DEF Shape

(* thread_create() makes the new slot a thread of the creator's master. *)
LEMMA InitStep ==
  ASSUME Core, NEW p \in Slots, ThreadInit(p)
  PROVE  Shape' /\ Undead /\ (Parents => Parents')
<1>0. Types /\ Places /\ Embryos /\ Masters /\ Pids /\ Rooted
  BY DEF Core, Shape
<1> DEFINE e == np[p]
           m == MasterOf(p)
<1>1. /\ e \in Slots /\ state[e] = "EMBRYO" /\ master[e] = 0 /\ loc[p] > 0
      /\ state[p] = "RUNNING" /\ pc[p] = "tnew" /\ p # e
  BY <1>0, RunningState DEF Embryos, Creating, ThreadInit, At
<1>2. /\ m \in Slots \ {e} /\ state[m] \in Live /\ master[m] = 0 /\ pc[m] \notin Loners
      /\ MasterOf(m) = m
  BY <1>0, <1>1 DEF MasterOf, Masters, Types, Live, Loners
<1>3. /\ tid'[e] = loc[p] /\ master'[e] = m /\ pid'[e] = pid[m]
      /\ \A q \in Slots \ {e} : tid'[q] = tid[q] /\ master'[q] = master[q] /\ pid'[q] = pid[q]
      /\ pc'[p] = "tgo"
      /\ \A q \in Slots \ {p} : pc'[q] = pc[q] /\ loc'[q] = loc[q]
      /\ state' = state /\ parent' = parent /\ np' = np
  BY <1>0, <1>1 DEF ThreadInit, Types
<1>4. \A q \in Slots : master[q] # e
  BY <1>0, <1>1 DEF Masters, Live, Slots
<1>6. parent[e] = 0
  BY <1>0, <1>1 DEF Masters, Unborn
<1> HIDE DEF e, m
<1>7. Places'
  BY <1>0, <1>1, <1>3 DEF Places, Unborn
<1>8. Embryos'
  <2>1. \A q \in Slots \ {p} : pc[q] \in Creating => np[q] \in Slots /\ np[q] # e
    BY <1>0, <1>1 DEF Embryos, Creating, e
  <2>2. QED
    BY <1>0, <1>1, <1>3, <2>1 DEF Embryos, Creating, e
<1>9. Masters'
  <2>1. \A q \in Slots : master[q] # 0 => master[q] \in Slots \ {e}
    BY <1>0, <1>4 DEF Types
  <2>2. \A q \in Slots : pc'[q] \in Loners => pc[q] \in Loners
    BY <1>3 DEF Loners
  <2>3. m # 0 /\ loc[p] # 0
    BY <1>0, <1>1, <1>2 DEF Slots, Types
  <2>4. QED
    BY <1>0, <1>1, <1>2, <1>3, <1>6, <2>1, <2>2, <2>3 DEF Masters
<1>10. Pids'
  <2>1. \A q \in Slots : MasterOf(q)' = IF q = e THEN m ELSE MasterOf(q)
    BY <1>2, <1>3 DEF MasterOf, Slots
  <2>2. pid[m] # 0
    BY <1>0, <1>2 DEF Pids, Live
  <2>3. \A q \in Slots : pid[q] = pid[m] => MasterOf(q) = m
    BY <1>0, <1>2, <2>2 DEF Pids
  <2>4. \A q \in Slots : master[q] # 0 => master[q] \in Slots \ {e}
    BY <1>0, <1>4 DEF Types
  <2>5. QED
    BY <1>0, <1>1, <1>2, <1>3, <2>1, <2>2, <2>3, <2>4 DEF Pids
<1>11. Rooted'
  <2>1. initproc \in Slots /\ initproc # e
    BY <1>0, <1>1, ThreadsAssumption DEF initproc, Slots, Rooted, Live
  <2>2. QED
    BY <1>0, <1>3, <2>1 DEF Rooted, Loners
<1>12. ASSUME Parents PROVE Parents'
  <2>1. \A q \in Slots : parent[q] # 0 => parent[q] \in Slots \ {e}
    BY <1>0, <1>1, <1>6, <1>12 DEF Types, Parents, Live
  <2>2. \A q \in Slots : pc'[q] = "fork" => q # e /\ pc[q] = "fork"
    BY <1>0, <1>1, <1>3 DEF Places, Unborn
  <2>3. QED
    BY <1>1, <1>3, <1>12, <2>1, <2>2 DEF Parents
<1>13. Undead
  BY <1>3 DEF Undead
<1>14. QED
  BY <1>7, <1>8, <1>9, <1>10, <1>11, <1>12, <1>13 DEF Shape

(* exit() and thread_exit(): p becomes a zombie that nobody depends on. *)
Dies(p) ==
  /\ pc[p] \in {"exit", "texit"}
  /\ state'[p] = "ZOMBIE" /\ pc' = [pc EXCEPT ![p] = "dead"]
  /\ \A q \in Slots \ {p} : state'[q] = state[q] \/ {state[q], state'[q]} \subseteq Live
  /\ UNCHANGED <<pid, tid, master, np, loc>>
  /\ parent' = IF pc[p] = "exit" THEN HandOver(p) ELSE parent

LEMMA DieStep ==
  ASSUME Core, NEW p \in Slots, Running(p), Dies(p)
  PROVE  Shape' /\ Undead /\ (Parents => Parents')
<1>0. Types /\ Places /\ Embryos /\ Masters /\ Pids /\ Rooted
  BY DEF Core, Shape
<1>1. state[p] = "RUNNING" /\ \A q \in Slots : master[q] # p
  <2>1. state[p] = "RUNNING" /\ pc[p] \in {"exit", "texit"}
    BY RunningState DEF Dies
  <2>2. CASE pc[p] = "exit"
    BY <1>0, <2>1, <2>2 DEF Masters, Loners, Slots
  <2>3. CASE pc[p] = "texit"
    BY <1>0, <2>1, <2>3 DEF Masters, Places, Slots
  <2>4. QED
    BY <2>1, <2>2, <2>3
<1>2. /\ state'[p] = "ZOMBIE" /\ pc'[p] = "dead" /\ pc[p] \in {"exit", "texit"}
      /\ \A q \in Slots \ {p} : state[q] \in Live <=> state'[q] \in Live
      /\ \A q \in Slots \ {p} : state[q] \notin Live => state'[q] = state[q]
      /\ \A q \in Slots \ {p} : pc'[q] = pc[q]
      /\ pid' = pid /\ tid' = tid /\ master' = master /\ np' = np /\ loc' = loc
  BY <1>0 DEF Dies, Types
<1>3. \A q \in Slots : parent'[q] = parent[q] \/ (parent[q] = p /\ parent'[q] = initproc /\ pc[p] = "exit")
  BY <1>0 DEF Dies, HandOver
<1>4. \A q \in Slots \ {p} : state'[q] \in Unborn <=> state[q] \in Unborn
  BY <1>2 DEF Live, Unborn
<1>7. Places'
  BY <1>0, <1>1, <1>2, <1>4 DEF Places, Live, Unborn
<1>8. Embryos'
  <2>1. \A q \in Slots : pc[q] \in Creating => np[q] \in Slots \ {p} /\ state'[np[q]] = "EMBRYO"
    BY <1>0, <1>1, <1>2 DEF Embryos, Live
  <2>2. \A q \in Slots : pc'[q] \in Creating => pc'[q] = pc[q]
    BY <1>2 DEF Creating
  <2>3. QED
    BY <1>0, <1>2, <2>1, <2>2 DEF Embryos
<1>9. Masters'
  <2>1. \A q \in Slots : master[q] # 0 => master[q] \in Slots \ {p}
    BY <1>0, <1>1 DEF Types
  <2>2. \A q \in Slots : state'[q] = "UNUSED" <=> state[q] = "UNUSED"
    BY <1>1, <1>2 DEF Live
  <2>3. \A q \in Slots : parent'[q] # 0 => parent[q] # 0 /\ state'[q] \notin Unborn
    BY <1>0, <1>1, <1>2, <1>3, <1>4 DEF Masters, Slots, Unborn
  <2>4. QED
    BY <1>0, <1>2, <2>1, <2>2, <2>3 DEF Masters
<1>10. Pids'
  <2>1. \A q \in Slots : state'[q] = "UNUSED" <=> state[q] = "UNUSED"
    BY <1>1, <1>2 DEF Live
  <2>2. QED
    BY <1>0, <1>2, <2>1 DEF Pids, MasterOf
<1>11. Rooted' /\ initproc \in Slots \ {p} /\ master[initproc] = 0
  <2>1. initproc \in Slots /\ state[initproc] \in Live /\ tid[initproc] = 0
    BY <1>0, ThreadsAssumption DEF initproc, Slots, Rooted
  <2>2. master[initproc] = 0
    BY <1>0, <2>1 DEF Masters, Live
  <2>3. initproc # p
    BY <1>0, <1>2, <2>2 DEF Rooted, Places, Loners
  <2>4. QED
    BY <1>0, <1>2, <1>3, <2>1, <2>2, <2>3 DEF Rooted, Slots
<1>12. ASSUME Parents PROVE Parents'
  <2>1. ASSUME NEW q \in Slots, parent'[q] # 0
        PROVE  parent'[q] \in Slots \ {p} /\ state'[parent'[q]] \in Live /\ master[parent'[q]] = 0
    <3>1. CASE parent[q] = p
      <4>1. p # 0 /\ master[p] = 0
        BY <1>12, <3>1 DEF Parents, Slots
      <4>2. pc[p] = "exit"
        BY <1>0, <1>2, <4>1 DEF Places
      <4>3. parent'[q] = initproc
        BY <3>1, <4>2 DEF Dies, HandOver
      <4>4. QED
        BY <1>0, <1>2, <1>11, <4>3 DEF Rooted
    <3>2. CASE parent[q] # p
      <4>1. parent'[q] = parent[q] /\ parent[q] \in Slots \ {p}
        BY <1>0, <1>3, <2>1, <3>2 DEF Types
      <4>2. QED
        BY <1>2, <1>12, <2>1, <4>1 DEF Parents
    <3>3. QED
      BY <3>1, <3>2
  <2>2. \A q \in Slots : pc'[q] = "fork" => q # p /\ pc[q] = "fork"
    BY <1>2
  <2>3. QED
    BY <1>2, <1>12, <2>1, <2>2 DEF Parents
<1>13. Undead
  BY <1>1, <1>2 DEF Undead, Live
<1>14. QED
  BY <1>7, <1>8, <1>9, <1>10, <1>11, <1>12, <1>13 DEF Shape

(* wait(), thread_join() and the loop of exit(): p frees a set of zombies. *)
Buries(p, D) ==
  /\ D \subseteq Slots \ {p} /\ state[p] \in Live /\ pc[p] \notin Creating
  /\ \A q \in D : /\ state[q] = "ZOMBIE" /\ state'[q] = "UNUSED"
                 /\ pid'[q] = 0 /\ parent'[q] = 0 /\ master'[q] = 0
  /\ \A q \in Slots \ D :
       /\ pid'[q] = pid[q] /\ parent'[q] = parent[q] /\ master'[q] = master[q]
       /\ state'[q] = state[q] \/ {state[q], state'[q]} \subseteq Live
  /\ \A q \in Slots \ {p} : pc'[q] = pc[q]
  /\ pc'[p] \in {"user", "reap", "exit"}
  /\ pc'[p] = "exit" => p # initproc /\ \A q \in Slots \ D : master[q] # p
  /\ UNCHANGED <<tid, np>>
  /\ \A q \in Slots : pc[q] = "tnew" => loc'[q] = loc[q]

LEMMA BuryStep ==
  ASSUME Core, NEW p \in Slots, NEW D, Buries(p, D)
  PROVE  Shape' /\ Undead /\ (Parents => Parents')
<1>0. Types /\ Places /\ Embryos /\ Masters /\ Pids /\ Rooted
  BY DEF Core, Shape
<1>1. /\ D \subseteq Slots \ {p} /\ state[p] \in Live
      /\ \A q \in D : /\ state[q] = "ZOMBIE" /\ state'[q] = "UNUSED"
                     /\ pid'[q] = 0 /\ parent'[q] = 0 /\ master'[q] = 0
      /\ \A q \in Slots \ D : pid'[q] = pid[q] /\ parent'[q] = parent[q] /\ master'[q] = master[q]
      /\ \A q \in Slots \ {p} : pc'[q] = pc[q]
      /\ pc'[p] \in {"user", "reap", "exit"} /\ tid' = tid /\ np' = np
      /\ pc'[p] = "exit" => p # initproc /\ \A q \in Slots \ D : master[q] # p
      /\ \A q \in Slots : pc[q] = "tnew" => loc'[q] = loc[q]
  BY DEF Buries
<1>2. /\ \A q \in Slots \ D : state[q] \in Live <=> state'[q] \in Live
      /\ \A q \in Slots \ D : state[q] \notin Live => state'[q] = state[q]
  BY DEF Buries
<1>3. \A q \in Slots : master[q] \notin D
  <2>1. 0 \notin D /\ \A q \in D : state[q] \notin Live
    BY <1>1 DEF Slots, Live
  <2>2. QED
    BY <1>0, <2>1 DEF Masters
<1>4. \A q \in Slots \ D : state'[q] \in Unborn <=> state[q] \in Unborn
  BY <1>2 DEF Live, Unborn
<1>7. Places'
  BY <1>0, <1>1, <1>2, <1>4 DEF Places, Live, Unborn
<1>8. Embryos'
  <2>1. \A q \in Slots : pc[q] \in Creating => np[q] \in Slots \ D /\ state'[np[q]] = "EMBRYO"
    BY <1>0, <1>1, <1>2 DEF Embryos, Live
  <2>2. \A q \in Slots : pc'[q] \in Creating => pc'[q] = pc[q]
    BY <1>1 DEF Creating
  <2>3. QED
    BY <1>0, <1>1, <2>1, <2>2 DEF Embryos
<1>9. Masters'
  <2>1. \A q \in Slots : master'[q] # 0 =>
          q \in Slots \ D /\ master'[q] = master[q] /\ master[q] \in Slots \ D
    BY <1>0, <1>1, <1>3 DEF Types
  <2>2. \A q \in Slots \ D : state'[q] = "UNUSED" <=> state[q] = "UNUSED"
    BY <1>2 DEF Live
  <2>3. \A q \in Slots : pc'[q] \in Loners => pc[q] \in Loners \/ (q = p /\ pc'[p] = "exit")
    BY <1>1 DEF Loners
  <2>4. ASSUME NEW q \in Slots, master'[q] # 0
        PROVE  /\ state'[q] # "UNUSED" /\ state'[master'[q]] \in Live
               /\ master'[master'[q]] = 0 /\ pc'[master'[q]] \notin Loners
    BY <1>0, <1>1, <1>2, <2>1, <2>2, <2>3, <2>4 DEF Masters
  <2>5. \A q \in Slots : state'[q] # "UNUSED" => (master'[q] = 0 <=> tid'[q] = 0)
    BY <1>0, <1>1, <2>2 DEF Masters
  <2>6. \A q \in Slots : parent'[q] # 0 => state'[q] \notin Unborn /\ master'[q] = 0
    BY <1>0, <1>1, <1>4 DEF Masters
  <2>7. QED
    BY <2>4, <2>5, <2>6 DEF Masters
<1>10. Pids'
  <2>1. \A q \in Slots \ D : MasterOf(q)' = MasterOf(q)
    BY <1>1 DEF MasterOf
  <2>2. \A q \in Slots : pid'[q] # 0 => q \notin D
    BY <1>1
  <2>3. \A q \in Slots \ D : state'[q] # "UNUSED" => pid'[q] # 0
    BY <1>0, <1>1, <1>2 DEF Pids, Live
  <2>4. \A q \in Slots : master'[q] # 0 =>
          q \in Slots \ D /\ master'[q] = master[q] /\ master[q] \in Slots \ D
    BY <1>0, <1>1, <1>3 DEF Types
  <2>5. QED
    BY <1>0, <1>1, <2>1, <2>2, <2>3, <2>4 DEF Pids
<1>11. Rooted'
  <2>1. initproc \in Slots \ D
    BY <1>0, <1>1, ThreadsAssumption DEF initproc, Slots, Rooted, Live
  <2>2. QED
    BY <1>0, <1>1, <1>2, <2>1 DEF Rooted, Loners, Slots
<1>12. ASSUME Parents PROVE Parents'
  <2>1. \A q \in Slots : parent'[q] # 0 =>
          q \in Slots \ D /\ parent'[q] = parent[q] /\ parent[q] \in Slots \ D
    BY <1>0, <1>1, <1>12 DEF Types, Parents, Live
  <2>2. \A q \in Slots : pc'[q] = "fork" => q # p /\ pc[q] = "fork"
    BY <1>1
  <2>3. \A q \in Slots : master[q] = 0 => master'[q] = 0
    BY <1>1
  <2>4. QED
    BY <1>1, <1>2, <1>12, <2>1, <2>2, <2>3 DEF Parents
<1>13. Undead
  BY <1>1, <1>2 DEF Undead, Live
<1>14. QED
  BY <1>7, <1>8, <1>9, <1>10, <1>11, <1>12, <1>13 DEF Shape

-----------------------------------------------------------------------------
(* Every step of slot p, for programs in which no thread calls exec(). *)

LEMMA TypesStep ==
  ASSUME Core, Orderly, NEW p \in Slots, Call(p) \/ NoMemory(p)
  PROVE  Types'
<1> USE DEF Types, States, Unborn, Live, Stops
<1>0. Types
  BY DEF Core
<1> DEFINE e == Min({q \in 1..mix.slots : state[q] = "UNUSED"})
<1>1. CASE Fork(p)
  <2>1. e \in Slots
    BY <1>0, <1>1, FirstUnused DEF Fork
  <2>2. QED
    BY <1>0, <1>1, <2>1 DEF Fork, AllocProc, PidAfter
<1>2. CASE ForkDone(p)
  BY <1>0, <1>2 DEF ForkDone
<1>3. CASE ThreadCreate(p)
  <2>1. e \in Slots
    BY <1>0, <1>3, FirstUnused DEF ThreadCreate
  <2>2. QED
    BY <1>0, <1>3, <2>1 DEF ThreadCreate, AllocProc, PidAfter
<1>4. CASE ThreadInit(p)
  <2>1. MasterOf(p) \in Slots
    BY <1>0 DEF MasterOf
  <2>2. pid[MasterOf(p)] \in 0..(nextpid - 1) /\ loc[p] + 1 \in Nat \ {0}
    BY <1>0, <2>1
  <2>3. QED
    BY <1>0, <1>4, <2>1, <2>2 DEF ThreadInit
<1>5. CASE ReapThreads(p)
  <2>1. 0 \in 0..(nextpid - 1) /\ p \in 0..IO
    BY <1>0, ThreadsAssumption DEF IO, Slots
  <2>2. pid' \in [Slots -> 0..(nextpid - 1)]
    BY <1>0, <1>5, <2>1 DEF ReapThreads
  <2>3. parent' \in [Slots -> {0} \cup Slots] /\ master' \in [Slots -> {0} \cup Slots]
    BY <1>0, <1>5 DEF ReapThreads
  <2>4. killed' \in [Slots -> BOOLEAN]
    BY <1>5 DEF ReapThreads
  <2>5. state' \in [Slots -> States]
    <3>1. PICK woken \in [Slots -> States] : state' = woken \/ state' = [woken EXCEPT ![p] = "SLEEPING"]
      BY <1>0, <1>5, Zenon DEF ReapThreads
    <3>2. QED
      BY <3>1
  <2>6. chan' \in [Slots -> 0..IO] /\ cpu' \in [CPUs -> {0} \cup Slots]
    BY <1>0, <1>5, <2>1 DEF ReapThreads, LeaveCpu
  <2>7. QED
    BY <1>0, <1>5, <2>2, <2>3, <2>4, <2>5, <2>6 DEF ReapThreads
<1>6. ASSUME NEW t \in 1..MaxPid, ThreadJoin(p, t) PROVE Types'
  <2> DEFINE dead == {q \in Slots : tid[q] = t /\ state[q] = "ZOMBIE"}
             d == Min(dead)
  <2>1. 0 \in 0..(nextpid - 1) /\ p \in 0..IO /\ t \in Nat
    BY <1>0, ThreadsAssumption DEF IO, Slots
  <2>2. CASE dead # {} /\ FreeSlot(d) /\ master' = [master EXCEPT ![d] = 0] /\ Return(p)
             /\ loc' = [loc EXCEPT ![p] = 0] /\ UNCHANGED <<chan, cpu>>
    <3>1. d \in Slots
      BY <2>2, FirstSlot
    <3>2. QED
      BY <1>0, <1>6, <2>1, <2>2, <3>1 DEF ThreadJoin, FreeSlot, Return
  <2>3. CASE /\ IF killed[p]
                  THEN Return(p) /\ loc' = [loc EXCEPT ![p] = 0] /\ UNCHANGED <<state, chan, cpu>>
                  ELSE Asleep(p, p, "join") /\ loc' = [loc EXCEPT ![p] = t]
             /\ UNCHANGED <<pid, parent, master, killed>>
    BY <1>0, <1>6, <2>1, <2>3 DEF ThreadJoin, Asleep, LeaveCpu, Return
  <2>4. QED
    BY <1>6, <2>2, <2>3 DEF ThreadJoin
<1>7. CASE Wait(p)
  <2> DEFINE dead == {q \in {r \in Slots : parent[r] = p} : state[q] = "ZOMBIE"}
             d == Min(dead)
  <2>1. 0 \in 0..(nextpid - 1) /\ p \in 0..IO
    BY <1>0, ThreadsAssumption DEF IO, Slots
  <2>2. CASE dead # {} /\ FreeSlot(d) /\ Return(p) /\ UNCHANGED <<chan, cpu>>
    <3>1. d \in Slots
      BY <2>2, FirstSlot
    <3>2. QED
      BY <1>0, <1>7, <2>1, <2>2, <3>1 DEF Wait, FreeSlot, Return
  <2>3. CASE /\ (Return(p) /\ UNCHANGED <<state, chan, cpu>>) \/ Asleep(p, p, "wait")
             /\ UNCHANGED <<pid, parent, killed>>
    BY <1>0, <1>7, <2>1, <2>3 DEF Wait, Asleep, LeaveCpu, Return
  <2>4. QED
    BY <1>7, <2>2, <2>3 DEF Wait
<1>8. CASE Exec(p)
  BY <1>0, <1>8 DEF Exec, Orderly
<1>9. CASE ExecLoad(p)
  BY <1>0, <1>9 DEF ExecLoad
<1>10. ASSUME NEW n \in {1, -1}, Sbrk(p, n) \/ SbrkAgain(p, n) PROVE Types'
  BY <1>0, <1>10 DEF Sbrk, SbrkAgain, slot, Return, Growing
<1>11. CASE ForkFail(p)
  BY <1>0, <1>11 DEF ForkFail, Return
<1>12. CASE ThreadGo(p)
  BY <1>0, <1>12 DEF ThreadGo
<1>13. CASE ThreadExit(p)
  BY <1>0, <1>13 DEF ThreadExit, slot
<1>14. CASE ThreadExitDone(p)
  BY <1>0, <1>14 DEF ThreadExitDone, Awaken, LeaveCpu
<1>15. CASE ExitThread(p)
  BY <1>0, <1>15 DEF ExitThread, slot
<1>16. CASE ExitDone(p)
  <2>1. initproc \in Slots
    BY ThreadsAssumption DEF initproc, Slots
  <2>2. parent' \in [Slots -> {0} \cup Slots]
    BY <1>0, <1>16, <2>1 DEF ExitDone, HandOver
  <2>3. killed' \in [Slots -> BOOLEAN]
    BY <1>0, <1>16 DEF ExitDone
  <2>4. state' \in [Slots -> States]
    BY <1>0, <1>16 DEF ExitDone, Awaken
  <2>5. QED
    BY <1>0, <1>16, <2>2, <2>3, <2>4 DEF ExitDone, LeaveCpu
<1>17. CASE ThreadKill(p)
  <2>1. 0 \in 0..IO
    BY ThreadsAssumption DEF IO
  <2>2. killed' \in [Slots -> BOOLEAN]
    BY <1>17 DEF ThreadKill
  <2>3. chan' \in [Slots -> 0..IO]
    BY <1>0, <1>17, <2>1 DEF ThreadKill
  <2>4. QED
    BY <1>0, <1>17, <2>2, <2>3 DEF ThreadKill
<1>18. CASE ExecNoFile(p) \/ InitPanic(p)
  BY <1>0, <1>18 DEF ExecNoFile, InitPanic, Return, slot
<1>19. CASE ThreadWakeup(p)
  BY <1>0, <1>19 DEF ThreadWakeup
<1>20. ASSUME NEW k \in 0..MaxPid, Kill(p, k) PROVE Types'
  BY <1>0, <1>20 DEF Kill, Roused
<1>21. CASE IoSleep(p)
  BY <1>0, <1>21, ThreadsAssumption DEF IoSleep, Asleep, LeaveCpu, IO
<1>22. CASE IoReturn(p)
  BY <1>0, <1>22 DEF IoReturn, Return, slot
<1>23. QED
  BY <1>1, <1>2, <1>3, <1>4, <1>5, <1>6, <1>7, <1>8, <1>9, <1>10, <1>11, <1>12, <1>13,
     <1>14, <1>15, <1>16, <1>17, <1>18, <1>19, <1>20, <1>21, <1>22 DEF Call, NoMemory

LEMMA MixKept ==
  ASSUME MemNext \/ UNCHANGED memVars
  PROVE  mix' = mix
<1>1. ASSUME NEW p \in Slots, Call(p) PROVE mix' = mix
  <2>1. CASE Fork(p)
    BY <2>1 DEF Fork
  <2>2. CASE ForkDone(p)
    BY <2>2 DEF ForkDone
  <2>3. CASE ThreadCreate(p)
    BY <2>3 DEF ThreadCreate
  <2>4. CASE ThreadInit(p)
    BY <2>4 DEF ThreadInit
  <2>5. CASE ReapThreads(p)
    BY <2>5 DEF ReapThreads
  <2>6. ASSUME NEW t \in 1..MaxPid, ThreadJoin(p, t) PROVE mix' = mix
    BY <2>6 DEF ThreadJoin
  <2>7. CASE Wait(p)
    BY <2>7 DEF Wait
  <2>8. CASE Exec(p)
    BY <2>8 DEF Exec
  <2>9. CASE ExecLoad(p)
    BY <2>9 DEF ExecLoad
  <2>10. ASSUME NEW n \in {1, -1}, Sbrk(p, n) \/ SbrkAgain(p, n) PROVE mix' = mix
    BY <2>10 DEF Sbrk, SbrkAgain
  <2>11. QED
    BY <1>1, <2>1, <2>2, <2>3, <2>4, <2>5, <2>6, <2>7, <2>8, <2>9, <2>10 DEF Call
<1>2. ASSUME NEW p \in Slots, NoMemory(p) PROVE mix' = mix
  BY <1>2 DEF NoMemory, ForkFail, ThreadGo, ThreadExit, ThreadExitDone, ExitThread, ExitDone,
     ThreadKill, ExecNoFile, InitPanic, ThreadWakeup, Kill, IoSleep, IoReturn
<1>3. QED
  BY <1>1, <1>2 DEF MemNext, Preempt, Schedule, IoWakeup, memVars, vars

(* The calm steps. *)
LEMMA WakeupCalm ==
  ASSUME Core, NEW p \in Slots, Orderly, ThreadKill(p) \/ ThreadWakeup(p)
  PROVE  /\ state' = state /\ parent' = parent
         /\ pc' = [pc EXCEPT ![p] = IF pc[p] = "kill" THEN "load" ELSE "user"]
         /\ pc[p] \in {"kill", "wake"}
<1>1. Types /\ state[p] = "RUNNING" /\ pc[p] \in {"kill", "wake"}
  BY RunningState DEF ThreadKill, ThreadWakeup, At, Core
<1>2. {q \in Slots \ {p} : pid[q] = pid[p]} = {}
  BY <1>1, LonePid DEF Live
<1>3. CASE ThreadKill(p)
  BY <1>1, <1>2, <1>3 DEF ThreadKill, At, Types
<1>4. CASE ThreadWakeup(p)
  <2>1. {q \in Slots \ {p} : state[q] = "SLEEPING" /\ pid[q] = pid[p]} = {}
    BY <1>2
  <2>2. QED
    BY <1>1, <1>4, <2>1 DEF ThreadWakeup, At, Types
<1>5. QED
  BY <1>3, <1>4

LEMMA CalmStep ==
  ASSUME Core, Orderly, NEW p \in Slots,
         \/ ExitThread(p) \/ ThreadExit(p) \/ Exec(p) \/ ThreadKill(p) \/ ExecNoFile(p) \/ InitPanic(p)
         \/ ExecLoad(p) \/ ThreadWakeup(p) \/ IoSleep(p) \/ IoReturn(p)
         \/ \E k \in 0..MaxPid : Kill(p, k)
         \/ \E n \in {1, -1} : Sbrk(p, n) \/ SbrkAgain(p, n)
  PROVE  Calm
<1> USE DEF Live, Creating, Loners
<1>0. Types /\ Places /\ Masters
  BY DEF Core, Shape
<1>1. Running(p) /\ state[p] = "RUNNING"
  BY RunningState DEF ExitThread, ThreadExit, Exec, ThreadKill, ExecNoFile, InitPanic, ExecLoad, ThreadWakeup,
     IoSleep, IoReturn, Kill, Sbrk, SbrkAgain, Enters, At
<1>2. CASE ExitThread(p)
  <2>1. master[p] # 0 /\ \A r \in Slots : master[r] # p
    BY <1>0, <1>1, <1>2 DEF ExitThread, Masters, Types, Slots
  <2>2. QED
    BY <1>0, <1>1, <1>2, <2>1 DEF ExitThread, At, Calm, slot, Types
<1>3. CASE ThreadExit(p)
  <2>1. master[p] # 0
    BY <1>0, <1>1, <1>3 DEF ThreadExit, Orderly, Masters, Types
  <2>2. QED
    BY <1>0, <1>1, <1>3, <2>1 DEF ThreadExit, Enters, Calm, slot, Types
<1>4. CASE Exec(p)
  BY <1>0, <1>1, <1>4 DEF Exec, Enters, Calm, Orderly, Types
<1>5. CASE ThreadKill(p) \/ ThreadWakeup(p)
  <2>1. master[p] = 0
    BY <1>0, <1>1, <1>5, WakeupCalm DEF Places
  <2>2. QED
    BY <1>0, <1>1, <1>5, <2>1, WakeupCalm DEF ThreadKill, ThreadWakeup, Calm, Types
<1>6. CASE ExecNoFile(p) \/ InitPanic(p) \/ IoReturn(p)
  BY <1>0, <1>1, <1>6 DEF ExecNoFile, InitPanic, IoReturn, At, Return, Calm, slot, Types
<1>7. CASE ExecLoad(p)
  BY <1>0, <1>1, <1>7 DEF ExecLoad, At, Calm, Places, Types
<1>8. CASE IoSleep(p)
  BY <1>0, <1>1, <1>8 DEF IoSleep, Enters, Asleep, Calm, Types
<1>9. ASSUME NEW k \in 0..MaxPid, Kill(p, k) PROVE Calm
  <2>1. \A q \in Slots : state'[q] = state[q] \/ {state[q], state'[q]} \subseteq Live
    BY <1>0, <1>9 DEF Kill, Roused, Types
  <2>2. QED
    BY <1>9, <2>1 DEF Kill, Calm
<1>10. ASSUME NEW n \in {1, -1}, Sbrk(p, n) \/ SbrkAgain(p, n) PROVE Calm
  BY <1>0, <1>1, <1>10 DEF Sbrk, SbrkAgain, Enters, At, Return, Growing, slot, Calm, Types
<1>11. QED
  BY <1>2, <1>3, <1>4, <1>5, <1>6, <1>7, <1>8, <1>9, <1>10

LEMMA SlotStep ==
  ASSUME Core, Orderly, NEW p \in Slots, Call(p) \/ NoMemory(p)
  PROVE  Shape' /\ Undead /\ (Plain /\ Parents => Parents')
<1>0. Types /\ Masters /\ Places /\ Rooted
  BY DEF Core, Shape
<1>1. CASE Calm
  BY <1>1, CalmFrame
<1>2. CASE Fork(p)
  <2>1. Running(p) /\ state[p] = "RUNNING" /\ pc[p] = "user"
    BY <1>2, RunningState DEF Fork, Enters
  <2>2. Plain /\ Parents => master[p] = 0
    BY <1>0, <1>2, <2>1 DEF Fork, Plain, Rooted, Masters
  <2>3. AllocProc(p, "fork") /\ UNCHANGED <<parent, loc>>
    BY <1>2 DEF Fork
  <2>4. QED
    BY <2>1, <2>2, <2>3, AllocStep
<1>3. CASE ThreadCreate(p)
  <2>1. Running(p) /\ pc[p] = "user" /\ AllocProc(p, "tnew") /\ UNCHANGED parent
    BY <1>3 DEF ThreadCreate, Enters
  <2>2. loc'[p] > 0 /\ \A q \in Slots \ {p} : loc'[q] = loc[q]
    BY <1>0, <1>3 DEF ThreadCreate, Types
  <2>3. QED
    BY <2>1, <2>2, AllocStep
<1>4. ASSUME NEW st \in {"UNUSED", "RUNNABLE"}, Running(p), Delivered(p, st)
      PROVE  Shape' /\ Undead /\ (Plain /\ Parents => Parents')
  BY <1>4, EmbryoLeft
<1>5. CASE ForkFail(p)
  <2>1. Running(p) /\ Delivered(p, "UNUSED")
    BY <1>5 DEF ForkFail, At, Return, Delivered, Creating
  <2>2. QED
    BY <1>4, <2>1
<1>6. CASE ForkDone(p) \/ ThreadGo(p)
  <2>1. Running(p) /\ Delivered(p, "RUNNABLE")
    BY <1>6 DEF ForkDone, ThreadGo, At, Delivered, Creating
  <2>2. QED
    BY <1>4, <2>1
<1>7. CASE ThreadInit(p)
  BY <1>7, InitStep
<1>8. CASE ThreadExitDone(p)
  <2>1. Running(p) /\ Dies(p)
    BY <1>0, <1>8 DEF ThreadExitDone, At, Dies, Awaken, Types, Live
  <2>2. QED
    BY <2>1, DieStep
<1>9. CASE ExitDone(p)
  <2>1. Running(p) /\ Dies(p)
    <3>1. \A q \in Slots \ {p} : state'[q] = state[q] \/ {state[q], state'[q]} \subseteq Live
      BY <1>0, <1>9 DEF ExitDone, Awaken, Types, Live
    <3>2. state'[p] = "ZOMBIE"
      BY <1>0, <1>9 DEF ExitDone, Awaken, Types
    <3>3. QED
      BY <1>9, <3>1, <3>2 DEF ExitDone, At, Dies
  <2>2. QED
    BY <2>1, DieStep
<1>10. ASSUME NEW D, Buries(p, D) PROVE Shape' /\ Undead /\ (Plain /\ Parents => Parents')
  BY <1>10, BuryStep
<1>11. CASE ReapThreads(p)
  <2> DEFINE D == {q \in Slots : master[q] = p /\ state[q] = "ZOMBIE"}
  <2>1. state[p] = "RUNNING" /\ p \notin D /\ pc[p] \in {"user", "reap"}
    BY <1>11, RunningState DEF ReapThreads
  <2>2. \A q \in D : state'[q] = "UNUSED" /\ pid'[q] = 0 /\ parent'[q] = 0 /\ master'[q] = 0
    BY <1>0, <1>11, <2>1 DEF ReapThreads, Types
  <2>3. \A q \in Slots \ D :
          /\ pid'[q] = pid[q] /\ parent'[q] = parent[q] /\ master'[q] = master[q]
          /\ state'[q] = state[q] \/ {state[q], state'[q]} \subseteq Live
    <3>1. \A q \in Slots \ D : pid'[q] = pid[q] /\ parent'[q] = parent[q] /\ master'[q] = master[q]
      BY <1>0, <1>11 DEF ReapThreads, Types
    <3>2. p \in Slots \ D /\ state'[p] \in {state[p], "SLEEPING"}
      BY <1>0, <1>11, <2>1 DEF ReapThreads, Types
    <3>3. ASSUME NEW q \in Slots \ D, q # p
          PROVE  state'[q] = state[q] \/ (state[q] = "SLEEPING" /\ state'[q] = "RUNNABLE")
      <4> DEFINE woken == [r \in Slots |->
                             IF r \in D THEN "UNUSED"
                             ELSE IF r \in LiveThreads(p) /\ state[r] = "SLEEPING" /\ chan[r] = r
                                  THEN "RUNNABLE" ELSE state[r]]
      <4>1. state' = woken \/ state' = [woken EXCEPT ![p] = "SLEEPING"]
        BY <1>11, Zenon DEF ReapThreads
      <4>2. state'[q] = woken[q]
        BY <3>3, <4>1
      <4>3. QED
        BY <3>3, <4>2
    <3>4. QED
      BY <2>1, <3>1, <3>2, <3>3 DEF Live
  <2>4. /\ \A q \in Slots \ {p} : pc'[q] = pc[q]
        /\ pc'[p] \in {"reap", "exit"}
        /\ pc'[p] = "exit" => \A q \in Slots \ D : master[q] # p
    BY <1>0, <1>11 DEF ReapThreads, LiveThreads, Types
  <2>5. p # initproc /\ UNCHANGED <<tid, np, loc>>
    BY <1>11 DEF ReapThreads
  <2>6. Buries(p, D)
    BY <2>1, <2>2, <2>3, <2>4, <2>5 DEF Buries, Live, Creating
  <2>7. QED
    BY <1>10, <2>6
<1>12. ASSUME NEW t \in 1..MaxPid, ThreadJoin(p, t)
       PROVE  Shape' /\ Undead /\ (Plain /\ Parents => Parents')
  <2> DEFINE dead == {q \in Slots : tid[q] = t /\ state[q] = "ZOMBIE"}
             d == Min(dead)
  <2>1. Running(p) /\ state[p] = "RUNNING" /\ pc[p] \in {"user", "join"}
    BY <1>12, RunningState DEF ThreadJoin, Enters
  <2>2. CASE dead # {} /\ FreeSlot(d) /\ master' = [master EXCEPT ![d] = 0] /\ Return(p)
             /\ loc' = [loc EXCEPT ![p] = 0] /\ UNCHANGED <<chan, cpu>>
    <3>1. d \in Slots /\ state[d] = "ZOMBIE"
      BY <2>2, FirstSlot
    <3>2. Buries(p, {d})
      BY <1>0, <1>12, <2>1, <2>2, <3>1 DEF ThreadJoin, FreeSlot, Return, Buries, Types, Live, Creating
    <3>3. QED
      BY <1>10, <3>2
  <2>3. CASE /\ IF killed[p]
                  THEN Return(p) /\ loc' = [loc EXCEPT ![p] = 0] /\ UNCHANGED <<state, chan, cpu>>
                  ELSE Asleep(p, p, "join") /\ loc' = [loc EXCEPT ![p] = t]
             /\ UNCHANGED <<pid, parent, master, killed>>
    <3>1. Calm
      BY <1>0, <1>12, <2>1, <2>3
      DEF ThreadJoin, Asleep, Return, Calm, Types, Live, Creating, Loners
    <3>2. QED
      BY <1>1, <3>1
  <2>4. QED
    BY <1>12, <2>2, <2>3 DEF ThreadJoin
<1>13. CASE Wait(p)
  <2> DEFINE dead == {q \in {r \in Slots : parent[r] = p} : state[q] = "ZOMBIE"}
             d == Min(dead)
  <2>1. Running(p) /\ state[p] = "RUNNING" /\ pc[p] \in {"user", "wait"}
    BY <1>0, <1>13, RunningState DEF Wait, Enters, At, Places
  <2>2. CASE dead # {} /\ FreeSlot(d) /\ Return(p) /\ UNCHANGED <<chan, cpu>>
    <3>1. d \in Slots /\ state[d] = "ZOMBIE" /\ parent[d] = p
      BY <2>2, FirstSlot
    <3>2. master[d] = 0
      BY <1>0, <3>1 DEF Masters, Slots
    <3>3. Buries(p, {d})
      BY <1>0, <1>13, <2>1, <2>2, <3>1, <3>2
      DEF Wait, FreeSlot, Return, Buries, Types, Live, Creating
    <3>4. QED
      BY <1>10, <3>3
  <2>3. CASE /\ (Return(p) /\ UNCHANGED <<state, chan, cpu>>) \/ Asleep(p, p, "wait")
             /\ UNCHANGED <<pid, parent, killed>>
    <3>1. Calm
      BY <1>0, <1>13, <2>1, <2>3 DEF Wait, Asleep, Return, Calm, Types, Live, Creating, Loners
    <3>2. QED
      BY <1>1, <3>1
  <2>4. QED
    BY <1>13, <2>2, <2>3 DEF Wait
<1>14. QED
  BY <1>1, <1>2, <1>3, <1>5, <1>6, <1>7, <1>8, <1>9, <1>11, <1>12, <1>13, CalmStep
  DEF Call, NoMemory

-----------------------------------------------------------------------------
(* Who is on a CPU stays RUNNING until it leaves it. *)

LEMMA CpuStep ==
  ASSUME Core, Orderly, NEW p \in Slots, Call(p) \/ NoMemory(p)
  PROVE  OnCpu' /\ OneCpu'
<1>0. Types /\ Embryos
  BY DEF Core, Shape
<1>1. Running(p) /\ state[p] = "RUNNING"
  BY RunningState DEF Call, NoMemory, Fork, ForkDone, ThreadCreate, ThreadInit, ReapThreads,
     ThreadJoin, Wait, Exec, ExecLoad, Sbrk, SbrkAgain, ForkFail, ThreadGo, ThreadExit,
     ThreadExitDone, ExitThread, ExitDone, ThreadKill, ExecNoFile, InitPanic, ThreadWakeup, Kill, IoSleep,
     IoReturn, Enters, At
<1>2. ASSUME UNCHANGED cpu, \A q \in Slots : state[q] = "RUNNING" => state'[q] = "RUNNING"
      PROVE  OnCpu' /\ OneCpu'
  BY <1>2, CpuKept
<1>3. ASSUME LeaveCpu(p), \A q \in Slots : q # p /\ state[q] = "RUNNING" => state'[q] = "RUNNING"
      PROVE  OnCpu' /\ OneCpu'
  BY <1>3, CpuLeft
<1>4. CASE Fork(p) \/ ThreadCreate(p)
  <2>1. PICK place : AllocProc(p, place) /\ UNCHANGED cpu
    BY <1>4 DEF Fork, ThreadCreate
  <2>2. QED
    BY <1>0, <1>2, <2>1, FirstUnused DEF AllocProc, Types
<1>5. CASE ForkDone(p) \/ ForkFail(p) \/ ThreadGo(p)
  <2>1. np[p] \in Slots /\ state[np[p]] = "EMBRYO"
    BY <1>0, <1>5 DEF ForkDone, ForkFail, ThreadGo, At, Embryos, Creating
  <2>2. QED
    BY <1>0, <1>2, <1>5, <2>1 DEF ForkDone, ForkFail, ThreadGo, Types
<1>6. CASE ThreadInit(p) \/ Exec(p) \/ ExecLoad(p)
  BY <1>2, <1>6 DEF ThreadInit, Exec, ExecLoad
<1>7. CASE ThreadExit(p) \/ ExitThread(p) \/ ExecNoFile(p) \/ InitPanic(p) \/ IoReturn(p)
           \/ \E n \in {1, -1} : Sbrk(p, n) \/ SbrkAgain(p, n)
  BY <1>2, <1>7 DEF ThreadExit, ExitThread, ExecNoFile, InitPanic, IoReturn, Sbrk, SbrkAgain, slot
<1>8. CASE ThreadKill(p) \/ ThreadWakeup(p)
  BY <1>2, <1>8, WakeupCalm DEF ThreadKill, ThreadWakeup
<1>9. ASSUME NEW k \in 0..MaxPid, Kill(p, k) PROVE OnCpu' /\ OneCpu'
  BY <1>0, <1>2, <1>9 DEF Kill, Roused, Types
<1>10. CASE ThreadExitDone(p)
  BY <1>0, <1>3, <1>10 DEF ThreadExitDone, Awaken, Types
<1>11. CASE ExitDone(p)
  BY <1>0, <1>3, <1>11 DEF ExitDone, Awaken, Types
<1>12. CASE IoSleep(p)
  BY <1>0, <1>3, <1>12 DEF IoSleep, Asleep, Types
<1>13. CASE ReapThreads(p)
  <2>1. \A q \in Slots : q # p /\ state[q] = "RUNNING" => state'[q] = "RUNNING"
    BY <1>0, <1>13 DEF ReapThreads, Types
  <2>2. CASE LeaveCpu(p)
    BY <1>3, <2>1, <2>2
  <2>3. CASE LiveThreads(p) = {}
    BY <1>0, <1>1, <1>2, <1>13, <2>1, <2>3 DEF ReapThreads, Types
  <2>4. QED
    BY <1>13, <2>2, <2>3 DEF ReapThreads
<1>14. ASSUME NEW t \in 1..MaxPid, ThreadJoin(p, t) PROVE OnCpu' /\ OneCpu'
  <2> DEFINE dead == {q \in Slots : tid[q] = t /\ state[q] = "ZOMBIE"}
             d == Min(dead)
  <2>1. CASE dead # {} /\ FreeSlot(d) /\ UNCHANGED cpu
    <3>1. d \in Slots /\ state[d] = "ZOMBIE"
      BY <2>1, FirstSlot
    <3>2. QED
      BY <1>0, <1>2, <2>1, <3>1 DEF FreeSlot, Types
  <2>2. CASE UNCHANGED <<state, cpu>> \/ Asleep(p, p, "join")
    BY <1>0, <1>2, <1>3, <2>2 DEF Asleep, Types
  <2>3. QED
    BY <1>14, <2>1, <2>2 DEF ThreadJoin
<1>15. CASE Wait(p)
  <2> DEFINE dead == {q \in {r \in Slots : parent[r] = p} : state[q] = "ZOMBIE"}
             d == Min(dead)
  <2>1. CASE dead # {} /\ FreeSlot(d) /\ UNCHANGED cpu
    <3>1. d \in Slots /\ state[d] = "ZOMBIE"
      BY <2>1, FirstSlot
    <3>2. QED
      BY <1>0, <1>2, <2>1, <3>1 DEF FreeSlot, Types
  <2>2. CASE UNCHANGED <<state, cpu>> \/ Asleep(p, p, "wait")
    BY <1>0, <1>2, <1>3, <2>2 DEF Asleep, Types
  <2>3. QED
    BY <1>15, <2>1, <2>2 DEF Wait
<1>16. QED
  BY <1>4, <1>5, <1>6, <1>7, <1>8, <1>9, <1>10, <1>11, <1>12, <1>13, <1>14, <1>15 DEF Call, NoMemory

LEMMA CoreStep ==
  ASSUME Core, Orderly, MemNext \/ UNCHANGED memVars
  PROVE  Core' /\ Undead /\ (Plain /\ Parents => Parents')
<1>0. Types
  BY DEF Core
<1>1. ASSUME NEW p \in Slots, Call(p) \/ NoMemory(p)
      PROVE  Core' /\ Undead /\ (Plain /\ Parents => Parents')
  <2>1. Types'
    BY <1>1, TypesStep
  <2>2. OnCpu' /\ OneCpu'
    BY <1>1, CpuStep
  <2>3. Shape' /\ Undead /\ (Plain /\ Parents => Parents')
    BY <1>1, SlotStep
  <2>4. QED
    BY <2>1, <2>2, <2>3 DEF Core
<1>2. ASSUME Calm, Types', OnCpu' /\ OneCpu'
      PROVE  Core' /\ Undead /\ (Plain /\ Parents => Parents')
  BY <1>2, CalmFrame DEF Core
<1>3. ASSUME NEW c \in CPUs, NEW p \in Slots, Schedule(c, p)
      PROVE  Core' /\ Undead /\ (Plain /\ Parents => Parents')
  <2>1. \A d \in CPUs : cpu[d] # p
    BY <1>3 DEF Core, OnCpu, Schedule, Slots
  <2>2. OnCpu' /\ OneCpu'
    BY <1>0, <1>3, <2>1 DEF Core, OnCpu, OneCpu, Schedule, Types
  <2>3. Calm
    BY <1>0, <1>3 DEF Schedule, Calm, Types, Live
  <2>4. Types'
    BY <1>0, <1>3, ThreadsAssumption DEF Schedule, Types, IO, States, Live
  <2>5. QED
    BY <1>2, <2>2, <2>3, <2>4
<1>4. ASSUME NEW c \in CPUs, Preempt(c)
      PROVE  Core' /\ Undead /\ (Plain /\ Parents => Parents')
  <2>1. cpu[c] \in Slots
    BY <1>0, <1>4 DEF Preempt, Types
  <2>2. OnCpu' /\ OneCpu'
    BY <1>0, <1>4, <2>1 DEF Core, OnCpu, OneCpu, Preempt, Types
  <2>3. Calm
    BY <1>0, <1>4, <2>1 DEF Preempt, Calm, Types, Live
  <2>4. Types'
    BY <1>0, <1>4, <2>1 DEF Preempt, Types, States, Live
  <2>5. QED
    BY <1>2, <2>2, <2>3, <2>4
<1>5. CASE IoWakeup
  <2>1. OnCpu' /\ OneCpu'
    BY <1>0, <1>5, CpuKept DEF IoWakeup, Awaken, Types
  <2>2. Calm
    BY <1>0, <1>5 DEF IoWakeup, Awaken, Calm, Types, Live
  <2>3. Types'
    BY <1>0, <1>5 DEF IoWakeup, Awaken, Types, States, Live
  <2>4. QED
    BY <1>2, <2>1, <2>2, <2>3
<1>6. CASE UNCHANGED memVars
  <2>1. UNCHANGED <<state, pid, tid, parent, master, killed, chan, nextpid, nexttid, cpu, pc, np, loc, mix>>
    BY <1>6 DEF memVars, vars, slot
  <2>2. OnCpu' /\ OneCpu'
    BY <2>1, CpuKept
  <2>3. Calm /\ Types'
    BY <1>0, <2>1 DEF Calm, Types
  <2>4. QED
    BY <1>2, <2>2, <2>3
<1>7. QED
  BY <1>1, <1>3, <1>4, <1>5, <1>6 DEF MemNext

LEMMA CoreInit ==
  MemInit => Core /\ Parents
<1> SUFFICES ASSUME MemInit PROVE Core /\ Parents
  OBVIOUS
<1>1. initproc \in Slots /\ IO \in Nat
  BY ThreadsAssumption DEF initproc, Slots, IO
<1>2. Types
  BY <1>1 DEF MemInit, Init, Types, States, Live, Unborn, Stops, initproc
<1>3. OnCpu /\ OneCpu
  BY DEF MemInit, Init, OnCpu, OneCpu
<1>4. Shape
  BY <1>1 DEF MemInit, Init, Shape, Places, Embryos, Masters, Pids, Rooted, MasterOf, Unborn,
     Live, Creating, Loners, initproc, Slots
<1>5. Parents
  BY <1>1 DEF MemInit, Init, Parents, Live, Loners
<1>6. QED
  BY <1>2, <1>3, <1>4, <1>5 DEF Core

LEMMA CoreHolds == MemSpec => [](Orderly => Core)
<1>1. MemInit => (Orderly => Core)
  BY CoreInit
<1>2. (Orderly => Core) /\ [MemNext]_memVars => (Orderly => Core)'
  BY CoreStep, MixKept DEF Orderly
<1>3. QED
  BY <1>1, <1>2, PTL DEF MemSpec

(* No two CPUs run on the same kernel stack: scheduler() takes only RUNNABLE *)
(* slots, and whoever is on a CPU is RUNNING until it calls sched()         *)
(* (proc.c:935-1010), unless thread_kill() puts it to sleep from outside.   *)
THEOREM OneCpuHolds == MemSpec => [](Orderly => OneCpu)
<1>1. (Orderly => Core) => (Orderly => OneCpu)
  BY DEF Core
<1>2. QED
  BY <1>1, CoreHolds, PTL

(* wakeup1(), kill() and wait() never bring a zombie back: a slot past       *)
(* exit() or thread_exit() stays ZOMBIE until it is freed.                  *)
THEOREM ZombieStaysHolds == MemSpec => ZombieStays
<1>1. (Orderly => Core) /\ [MemNext]_memVars =>
        [Orderly => \A p \in Slots : state[p] = "ZOMBIE" => state'[p] \in {"ZOMBIE", "UNUSED"}]_vars
  BY CoreStep DEF Undead
<1>2. QED
  BY <1>1, CoreHolds, PTL DEF MemSpec, ZombieStays

(* A thread never outlives its process and shares its pid, whatever exit(),  *)
(* thread_exit(), wait() and thread_join() do at the same time              *)
(* (proc.c:417-450, 1190-1290).                                             *)
THEOREM MasterAliveHolds == MemSpec => [](Orderly => MasterAlive)
<1>1. (Orderly => Core) => (Orderly => MasterAlive)
  BY DEF Core, Shape, Types, Masters, Pids, MasterAlive, Live, InUse
<1>2. QED
  BY <1>1, CoreHolds, PTL

(* The elders of every slot in use are alive: only exit() ends a process     *)
(* that has threads or, when threads do not fork, children; it waits for    *)
(* the former and gives the latter to init, which never exits.              *)
THEOREM FamilyAliveHolds == MemSpec => []FamilyAlive
<1> DEFINE Inv == Orderly => Core /\ (Plain => Parents)
<1>1. MemInit => Inv
  BY CoreInit
<1>2. Inv /\ [MemNext]_memVars => Inv'
  BY CoreStep, MixKept DEF Orderly, Plain
<1>3. Inv => FamilyAlive
  BY DEF Core, Shape, Types, Masters, Pids, Parents, FamilyAlive, MasterAlive, ParentAlive, Live, InUse
<1>4. QED
  BY <1>1, <1>2, <1>3, PTL DEF MemSpec

-----------------------------------------------------------------------------
(* Nothing happens to the sleeper q: it loses no child or thread that it     *)
(* waits for, and none of them dies.                                        *)
Undisturbed(q) ==
  /\ state[q] = "SLEEPING" /\ pc'[q] = pc[q] /\ chan'[q] = chan[q] /\ loc'[q] = loc[q]
  /\ pc[q] \in {"wait", "join"} => killed'[q] = killed[q]
  /\ \A r \in Slots :
       /\ parent[r] = q => parent'[r] = q
       /\ parent'[r] = q /\ state'[r] = "ZOMBIE" => parent[r] = q /\ state[r] = "ZOMBIE"
       /\ master[r] = q /\ state[r] # "ZOMBIE" => master'[r] = q /\ state'[r] # "ZOMBIE"
       /\ master'[r] = q /\ state'[r] = "ZOMBIE" =>
            master[r] = q /\ state[r] = "ZOMBIE" /\ tid'[r] = tid[r]

LEMMA StillAwaits ==
  ASSUME NEW q \in Slots, Awaits(q),
         state'[q] = "SLEEPING" /\ pc'[q] \in {"wait", "join", "reap"} => Undisturbed(q)
  PROVE  Awaits(q)'
<1> SUFFICES ASSUME state'[q] = "SLEEPING", pc'[q] \in {"wait", "join", "reap"} PROVE Awaits(q)'
  BY DEF Awaits
<1>1. Undisturbed(q) /\ pc[q] \in {"wait", "join", "reap"} /\ pc'[q] = pc[q]
  BY DEF Undisturbed
<1>2. chan'[q] = q
  BY <1>1 DEF Awaits, Undisturbed
<1>3. CASE pc[q] = "wait"
  BY <1>1, <1>2, <1>3 DEF Awaits, Undisturbed
<1>4. CASE pc[q] = "reap"
  BY <1>1, <1>2, <1>4 DEF Awaits, Undisturbed
<1>5. CASE pc[q] = "join"
  BY <1>1, <1>2, <1>5 DEF Awaits, Undisturbed
<1>6. QED
  BY <1>1, <1>3, <1>4, <1>5

(* Calm steps wake sleepers, or leave them as they are. *)
LEMMA CalmAwaits ==
  ASSUME Core, Calm, NEW q \in Slots, Awaits(q),
         state'[q] = "SLEEPING" /\ pc'[q] \in {"wait", "join", "reap"} =>
           /\ state[q] = "SLEEPING"
           /\ UNCHANGED <<pc[q], chan[q], loc[q], killed[q]>>
  PROVE  Awaits(q)'
<1>1. \A r \in Slots : state'[r] = "ZOMBIE" <=> state[r] = "ZOMBIE"
  BY DEF Calm, Live
<1>2. QED
  BY <1>1, StillAwaits DEF Calm, Undisturbed

LEMMA AwaitStep ==
  ASSUME Core, Orderly, NEW p \in Slots, Call(p) \/ NoMemory(p), NEW q \in Slots, Awaits(q)
  PROVE  Awaits(q)'
<1>0. Types /\ Masters /\ Places /\ Embryos /\ Rooted
  BY DEF Core, Shape
<1>1. Running(p) /\ state[p] = "RUNNING"
  BY RunningState DEF Call, NoMemory, Fork, ForkDone, ThreadCreate, ThreadInit, ReapThreads,
     ThreadJoin, Wait, Exec, ExecLoad, Sbrk, SbrkAgain, ForkFail, ThreadGo, ThreadExit,
     ThreadExitDone, ExitThread, ExitDone, ThreadKill, ExecNoFile, InitPanic, ThreadWakeup, Kill, IoSleep,
     IoReturn, Enters, At
<1>2. ASSUME Undisturbed(q) \/ state'[q] # "SLEEPING" \/ pc'[q] \notin {"wait", "join", "reap"}
      PROVE  Awaits(q)'
  BY <1>2, StillAwaits
<1>3. CASE Fork(p) \/ ThreadCreate(p)
  <2> DEFINE e == Min({r \in 1..mix.slots : state[r] = "UNUSED"})
  <2>1. PICK place \in {"fork", "tnew"} : AllocProc(p, place)
    BY <1>3 DEF Fork, ThreadCreate
  <2>2. e \in Slots /\ state[e] = "UNUSED" /\ master[e] = 0
    BY <1>0, <2>1, FirstUnused DEF Masters
  <2>3. /\ state' = [state EXCEPT ![e] = "EMBRYO"] /\ master' = [master EXCEPT ![e] = 0]
        /\ tid' = [tid EXCEPT ![e] = 0] /\ pc' = [pc EXCEPT ![p] = place]
        /\ UNCHANGED <<parent, killed, chan>> /\ \A r \in Slots \ {p} : loc'[r] = loc[r]
    BY <1>0, <1>3, <2>1 DEF AllocProc, Fork, ThreadCreate, Types
  <2>4. q # p => Undisturbed(q) \/ state'[q] # "SLEEPING"
    BY <1>0, <2>2, <2>3 DEF Undisturbed, Types, Slots
  <2>5. q = p => pc'[q] \notin {"wait", "join", "reap"}
    BY <1>0, <2>3 DEF Types
  <2>6. QED
    BY <1>2, <2>4, <2>5
<1>4. CASE ForkFail(p) \/ ForkDone(p) \/ ThreadGo(p)
  <2> DEFINE e == np[p]
  <2>1. e \in Slots /\ state[e] = "EMBRYO"
    BY <1>0, <1>4 DEF ForkFail, ForkDone, ThreadGo, At, Embryos, Creating
  <2>2. parent[e] = 0
    BY <1>0, <2>1 DEF Masters, Unborn
  <2>3. PICK st \in {"UNUSED", "RUNNABLE"} :
          /\ state' = [state EXCEPT ![e] = st]
          /\ \A r \in Slots \ {p, e} : pc'[r] = pc[r]
          /\ \A r \in Slots : parent'[r] = parent[r] \/ (r = e /\ parent'[r] = p)
          /\ UNCHANGED <<master, tid, killed, chan, loc>>
    BY <1>0, <1>4, <2>1 DEF ForkFail, ForkDone, ThreadGo, Return, Types
  <2>4. QED
    BY <1>0, <1>1, <1>2, <2>1, <2>2, <2>3 DEF Undisturbed, Types, Slots
<1>5. CASE ThreadInit(p)
  <2>1. np[p] \in Slots /\ state[np[p]] = "EMBRYO" /\ master[np[p]] = 0
    BY <1>0, <1>5 DEF ThreadInit, At, Embryos, Creating
  <2>2. /\ \A r \in Slots \ {np[p]} : master'[r] = master[r] /\ tid'[r] = tid[r]
        /\ \A r \in Slots \ {p} : pc'[r] = pc[r] /\ loc'[r] = loc[r]
        /\ UNCHANGED <<state, parent, killed, chan>>
    BY <1>0, <1>5 DEF ThreadInit, Types
  <2>3. q # p => Undisturbed(q) \/ state'[q] # "SLEEPING"
    BY <2>1, <2>2 DEF Undisturbed, Slots
  <2>4. QED
    BY <1>1, <1>2, <2>2, <2>3
<1>6. ASSUME Calm,
             state'[q] = "SLEEPING" /\ pc'[q] \in {"wait", "join", "reap"} =>
               state[q] = "SLEEPING" /\ UNCHANGED <<pc[q], chan[q], loc[q], killed[q]>>
      PROVE  Awaits(q)'
  BY <1>6, CalmAwaits
<1>7. CASE ExitThread(p) \/ ThreadExit(p) \/ Exec(p) \/ ExecNoFile(p) \/ InitPanic(p) \/ ExecLoad(p) \/ IoReturn(p)
  <2>1. Calm
    BY <1>7, CalmStep
  <2>2. /\ UNCHANGED <<state, chan, killed>>
        /\ \A r \in Slots \ {p} : pc'[r] = pc[r] /\ loc'[r] = loc[r]
    BY <1>0, <1>7
    DEF ExitThread, ThreadExit, Exec, ExecNoFile, InitPanic, ExecLoad, IoReturn, Return, slot, Types
  <2>3. QED
    BY <1>1, <1>6, <2>1, <2>2
<1>8. CASE \E n \in {1, -1} : Sbrk(p, n) \/ SbrkAgain(p, n)
  <2>1. Calm
    BY <1>8, CalmStep
  <2>2. /\ UNCHANGED <<state, chan, killed, loc>>
        /\ \A r \in Slots \ {p} : pc'[r] = pc[r]
    BY <1>0, <1>8 DEF Sbrk, SbrkAgain, Return, slot, Types
  <2>3. QED
    BY <1>1, <1>6, <2>1, <2>2
<1>9. CASE ThreadKill(p) \/ ThreadWakeup(p)
  <2>1. Calm /\ state' = state
    BY <1>9, CalmStep, WakeupCalm
  <2>2. {r \in Slots \ {p} : pid[r] = pid[p]} = {}
    BY <1>1, <1>9, LonePid DEF ThreadKill, ThreadWakeup, At, Live
  <2>3. killed'[q] = killed[q] /\ chan'[q] = chan[q]
    <3>1. CASE ThreadKill(p)
      <4>1. killed[q] \in BOOLEAN
        BY <1>0 DEF Types
      <4>2. killed'[q] = (killed[q] \/ FALSE) /\ chan'[q] = chan[q]
        BY <2>2, <3>1 DEF ThreadKill
      <4>3. QED
        BY <4>1, <4>2
    <3>2. CASE ThreadWakeup(p)
      BY <3>2 DEF ThreadWakeup
    <3>3. QED
      BY <1>9, <3>1, <3>2
  <2>4. loc' = loc /\ \A r \in Slots \ {p} : pc'[r] = pc[r]
    BY <1>0, <1>9 DEF ThreadKill, ThreadWakeup, Types
  <2>5. QED
    BY <1>1, <1>6, <2>1, <2>3, <2>4
<1>10. CASE IoSleep(p)
  <2>1. Calm
    BY <1>10, CalmStep
  <2>2. /\ pc'[p] = "io"
        /\ \A r \in Slots \ {p} : UNCHANGED <<state[r], pc[r], chan[r]>>
        /\ UNCHANGED <<killed, loc>>
    BY <1>0, <1>10 DEF IoSleep, Asleep, Types
  <2>3. QED
    BY <1>6, <2>1, <2>2
<1>11. ASSUME NEW k \in 0..MaxPid, Kill(p, k) PROVE Awaits(q)'
  <2>1. Calm
    BY <1>11, CalmStep
  <2>2. PICK s : /\ killed' = [killed EXCEPT ![s] = TRUE]
                 /\ state' = [state EXCEPT ![s] = Roused(@)]
                 /\ UNCHANGED <<pc, chan, loc>>
    BY <1>11 DEF Kill
  <2>3. q = s => state'[q] # "SLEEPING"
    BY <1>0, <2>2 DEF Roused, Types
  <2>4. q # s => UNCHANGED <<state[q], killed[q]>>
    BY <1>0, <2>2 DEF Types
  <2>5. QED
    BY <1>6, <2>1, <2>2, <2>3, <2>4
<1>12. CASE ThreadExitDone(p)
  <2>1. master[p] # 0 /\ parent[p] = 0
    BY <1>0, <1>12 DEF ThreadExitDone, At, Places, Masters
  <2>2. /\ state'[p] = "ZOMBIE" /\ \A r \in Slots \ {p} : pc'[r] = pc[r]
        /\ \A r \in Slots \ {p} :
             state'[r] = IF state[r] = "SLEEPING" /\ chan[r] = master[p] THEN "RUNNABLE" ELSE state[r]
        /\ UNCHANGED <<tid, parent, master, killed, chan, loc>>
    BY <1>0, <1>12 DEF ThreadExitDone, Awaken, Types
  <2>3. q # p /\ state'[q] = "SLEEPING" /\ pc'[q] \in {"wait", "join", "reap"} => Undisturbed(q)
    BY <2>1, <2>2 DEF Awaits, Undisturbed, Slots
  <2>4. QED
    BY <1>2, <2>2, <2>3
<1>13. CASE ExitDone(p)
  <2> DEFINE notify == IF tid[p] = 0 THEN parent[p] ELSE master[p]
             adopted == {r \in Slots : parent[r] = p /\ state[r] = "ZOMBIE"}
  <2>1. master[p] = 0 <=> tid[p] = 0
    BY <1>0, <1>1 DEF Masters
  <2>2. /\ state'[p] = "ZOMBIE"
        /\ \A r \in Slots \ {p} : pc'[r] = pc[r]
        /\ UNCHANGED <<tid, master, chan, loc>>
        /\ \A r \in Slots : parent'[r] = IF parent[r] = p THEN initproc ELSE parent[r]
    BY <1>0, <1>13 DEF ExitDone, HandOver, Awaken, Types
  <2>3. \A r \in Slots \ {p} :
          state'[r] = IF state[r] = "SLEEPING" /\ (chan[r] = notify \/ (adopted # {} /\ chan[r] = initproc))
                      THEN "RUNNABLE" ELSE state[r]
    BY <1>0, <1>13, <2>1 DEF ExitDone, Awaken, Types
  <2>4. killed' = IF master[p] # 0 THEN [killed EXCEPT ![master[p]] = TRUE] ELSE killed
    BY <1>13, <2>1 DEF ExitDone
  <2>5. ASSUME q # p, state'[q] = "SLEEPING", pc'[q] \in {"wait", "join", "reap"}
        PROVE  Undisturbed(q)
    <3>1. state[q] = "SLEEPING" /\ pc'[q] = pc[q] /\ chan[q] = q /\ q # notify
          /\ (q = initproc => adopted = {})
      BY <2>2, <2>3, <2>5 DEF Awaits
    <3>2. killed'[q] = killed[q]
      BY <1>0, <2>1, <2>4, <3>1 DEF Types
    <3>3. master[p] # q /\ parent[p] # q
      BY <1>0, <2>1, <3>1 DEF Masters, Slots
    <3>4. \A r \in Slots \ {p} : state'[r] = "ZOMBIE" <=> state[r] = "ZOMBIE"
      BY <2>3
    <3>5. \A r \in Slots : parent'[r] = q /\ parent[r] # q => q = initproc /\ parent[r] = p
      BY <2>2
    <3>6. parent[p] # p
      BY <1>0 DEF Rooted
    <3>7. ASSUME NEW r \in Slots, parent'[r] = q, state'[r] = "ZOMBIE"
          PROVE  parent[r] = q /\ state[r] = "ZOMBIE"
      BY <2>2, <2>5, <3>1, <3>3, <3>4, <3>5, <3>6, <3>7
    <3>8. QED
      BY <2>2, <2>5, <3>1, <3>2, <3>3, <3>4, <3>7 DEF Undisturbed
  <2>6. QED
    BY <1>2, <2>2, <2>5
<1>14. CASE ReapThreads(p)
  <2> DEFINE D == {r \in Slots : master[r] = p /\ state[r] = "ZOMBIE"}
             woken == [r \in Slots |->
                         IF r \in D THEN "UNUSED"
                         ELSE IF r \in LiveThreads(p) /\ state[r] = "SLEEPING" /\ chan[r] = r
                              THEN "RUNNABLE" ELSE state[r]]
  <2>1. /\ \A r \in Slots \ D : parent'[r] = parent[r] /\ master'[r] = master[r]
        /\ \A r \in D : parent'[r] = 0 /\ master'[r] = 0 /\ parent[r] = 0
        /\ \A r \in Slots \ {p} : pc'[r] = pc[r]
        /\ UNCHANGED <<tid, loc>>
    <3>1. \A r \in D : parent[r] = 0
      BY <1>0 DEF Masters, Slots
    <3>2. QED
      BY <1>0, <1>14, <3>1 DEF ReapThreads, Types
  <2>2. \A r \in Slots : killed'[r] = ((killed[r] \/ r \in LiveThreads(p)) /\ r \notin D)
    BY <1>14, Zenon DEF ReapThreads
  <2>3. state' = woken \/ state' = [woken EXCEPT ![p] = "SLEEPING"]
    BY <1>14, Zenon DEF ReapThreads
  <2>4. \A r \in Slots \ {p} : state'[r] = woken[r] /\ chan'[r] = chan[r]
    <3>1. \A r \in Slots \ {p} : chan'[r] = chan[r]
      BY <1>0, <1>14 DEF ReapThreads, Types
    <3>2. QED
      BY <2>3, <3>1
  <2>5. \A r \in Slots \ (D \cup {p}) : state'[r] = "ZOMBIE" <=> state[r] = "ZOMBIE"
    BY <2>4
  <2>6. ASSUME q # p, state'[q] = "SLEEPING", pc'[q] \in {"wait", "join", "reap"}
        PROVE  Undisturbed(q)
    <3>1. q \notin D /\ state[q] = "SLEEPING" /\ q \notin LiveThreads(p)
      BY <2>1, <2>4, <2>6 DEF Awaits
    <3>2. killed'[q] = killed[q]
      BY <1>0, <2>2, <3>1 DEF Types
    <3>3. state'[p] # "ZOMBIE"
      BY <1>1, <2>3
    <3>4. QED
      BY <1>1, <2>1, <2>4, <2>5, <2>6, <3>1, <3>2, <3>3 DEF Undisturbed, Slots
  <2>7. CASE q = p
    <3>1. CASE LiveThreads(p) = {}
      <4>1. pc'[p] = "exit"
        BY <1>0, <1>14, <3>1 DEF ReapThreads, Types
      <4>2. QED
        BY <1>2, <2>7, <4>1
    <3>2. CASE LiveThreads(p) # {}
      <4>1. pc'[p] = "reap" /\ chan'[p] = p
        BY <1>0, <1>14, <3>2 DEF ReapThreads, Types
      <4>2. PICK r \in Slots : master[r] = p /\ state[r] # "ZOMBIE"
        BY <3>2 DEF LiveThreads
      <4>3. r \notin D /\ r # p
        BY <1>0, <4>2 DEF Masters, Slots
      <4>4. master'[r] = p /\ state'[r] # "ZOMBIE"
        BY <2>1, <2>5, <4>2, <4>3
      <4>5. QED
        BY <2>7, <4>1, <4>4 DEF Awaits
    <3>3. QED
      BY <3>1, <3>2
  <2>8. QED
    BY <1>2, <2>6, <2>7
<1>15. ASSUME NEW d \in Slots, state[d] = "ZOMBIE", FreeSlot(d), Return(p),
              master' = [master EXCEPT ![d] = 0] \/ (parent[d] = p /\ UNCHANGED master),
              parent[d] \in {0, p}, UNCHANGED <<tid, chan>>,
              \A r \in Slots \ {p} : loc'[r] = loc[r]
       PROVE  Awaits(q)'
  <2>1. /\ pc'[p] = "user" /\ \A r \in Slots \ {p} : pc'[r] = pc[r]
        /\ state'[d] = "UNUSED" /\ parent'[d] = 0
        /\ \A r \in Slots \ {d} : /\ state'[r] = state[r] /\ parent'[r] = parent[r]
                                 /\ master'[r] = master[r] /\ killed'[r] = killed[r]
    BY <1>0, <1>15 DEF FreeSlot, Return, Types
  <2>2. q # p /\ state'[q] = "SLEEPING" => Undisturbed(q)
    BY <1>15, <2>1 DEF Undisturbed, Slots
  <2>3. QED
    BY <1>2, <2>1, <2>2
<1>16. ASSUME NEW place \in {"wait", "join"}, Asleep(p, p, place), ~killed[p],
              UNCHANGED <<tid, parent, master, killed>>,
              \A r \in Slots \ {p} : loc'[r] = loc[r],
              place = "wait" => /\ \E r \in Slots : parent[r] = p
                                /\ \A r \in Slots : parent[r] = p => state[r] # "ZOMBIE",
              place = "join" => \A r \in Slots : tid[r] = loc'[p] => state[r] # "ZOMBIE"
       PROVE  Awaits(q)'
  <2>1. /\ pc'[p] = place /\ state'[p] = "SLEEPING" /\ chan'[p] = p
        /\ \A r \in Slots \ {p} : pc'[r] = pc[r] /\ state'[r] = state[r] /\ chan'[r] = chan[r]
    BY <1>0, <1>16 DEF Asleep, Types
  <2>2. q # p /\ state'[q] = "SLEEPING" => Undisturbed(q)
    BY <1>1, <1>16, <2>1 DEF Undisturbed
  <2>3. q = p => Awaits(q)'
    BY <1>1, <1>16, <2>1 DEF Awaits
  <2>4. QED
    BY <1>2, <2>2, <2>3
<1>17. ASSUME Return(p), UNCHANGED <<state, tid, parent, master, killed, chan>>,
              \A r \in Slots \ {p} : loc'[r] = loc[r]
       PROVE  Awaits(q)'
  <2>1. pc'[p] = "user" /\ \A r \in Slots \ {p} : pc'[r] = pc[r]
    BY <1>0, <1>17 DEF Return, Types
  <2>2. q # p /\ state'[q] = "SLEEPING" => Undisturbed(q)
    BY <1>17, <2>1 DEF Undisturbed
  <2>3. QED
    BY <1>2, <2>1, <2>2
<1>18. ASSUME NEW t \in 1..MaxPid, ThreadJoin(p, t) PROVE Awaits(q)'
  <2> DEFINE dead == {r \in Slots : tid[r] = t /\ state[r] = "ZOMBIE"}
             d == Min(dead)
  <2>1. CASE dead # {} /\ FreeSlot(d) /\ master' = [master EXCEPT ![d] = 0] /\ Return(p)
             /\ loc' = [loc EXCEPT ![p] = 0] /\ UNCHANGED <<chan, cpu>>
    <3>1. d \in Slots /\ state[d] = "ZOMBIE" /\ tid[d] = t
      BY <2>1, FirstSlot
    <3>2. parent[d] = 0
      BY <1>0, <3>1 DEF Masters
    <3>3. \A r \in Slots \ {p} : loc'[r] = loc[r]
      BY <1>0, <2>1 DEF Types
    <3>4. QED
      BY <1>15, <1>18, <2>1, <3>1, <3>2, <3>3 DEF ThreadJoin
  <2>2. CASE dead = {} /\ UNCHANGED <<pid, parent, master, killed>>
             /\ killed[p] /\ Return(p) /\ loc' = [loc EXCEPT ![p] = 0] /\ UNCHANGED <<state, chan, cpu>>
    BY <1>0, <1>17, <1>18, <2>2 DEF ThreadJoin, Types
  <2>3. CASE dead = {} /\ UNCHANGED <<pid, parent, master, killed>>
             /\ ~killed[p] /\ Asleep(p, p, "join") /\ loc' = [loc EXCEPT ![p] = t]
    BY <1>0, <1>16, <1>18, <2>3 DEF ThreadJoin, Types
  <2>4. QED
    BY <1>18, <2>1, <2>2, <2>3 DEF ThreadJoin
<1>19. CASE Wait(p)
  <2> DEFINE kids == {r \in Slots : parent[r] = p}
             dead == {r \in kids : state[r] = "ZOMBIE"}
             d == Min(dead)
  <2>1. CASE dead # {} /\ FreeSlot(d) /\ Return(p) /\ UNCHANGED <<chan, cpu>>
    <3>1. d \in Slots /\ state[d] = "ZOMBIE" /\ parent[d] = p
      BY <2>1, FirstSlot
    <3>2. QED
      BY <1>15, <1>19, <2>1, <3>1 DEF Wait
  <2>2. CASE dead = {} /\ UNCHANGED <<pid, parent, killed>>
             /\ Return(p) /\ UNCHANGED <<state, chan, cpu>>
    BY <1>17, <1>19, <2>2 DEF Wait
  <2>3. CASE dead = {} /\ UNCHANGED <<pid, parent, killed>>
             /\ kids # {} /\ ~killed[p] /\ Asleep(p, p, "wait")
    BY <1>16, <1>19, <2>3 DEF Wait
  <2>4. QED
    BY <1>19, <2>1, <2>2, <2>3 DEF Wait
<1>20. QED
  BY <1>3, <1>4, <1>5, <1>7, <1>8, <1>9, <1>10, <1>11, <1>12, <1>13, <1>14, <1>18, <1>19
  DEF Call, NoMemory

LEMMA AwaitsHold == MemSpec => [](Orderly => Core /\ \A q \in Slots : Awaits(q))
<1> DEFINE Inv == Orderly => Core /\ \A q \in Slots : Awaits(q)
<1>1. MemInit => Inv
  BY CoreInit DEF MemInit, Init, Awaits
<1>2. ASSUME Inv, MemNext \/ UNCHANGED memVars, Orderly, NEW q \in Slots PROVE Awaits(q)'
  <2>1. Core /\ Awaits(q) /\ Types
    BY <1>2 DEF Core
  <2>2. ASSUME Calm,
               \A r \in Slots : state'[r] = "SLEEPING" => state[r] = "SLEEPING" /\ chan'[r] = chan[r],
               UNCHANGED <<pc, loc, killed>>
        PROVE  Awaits(q)'
    BY <2>1, <2>2, CalmAwaits
  <2>3. ASSUME NEW p \in Slots, Call(p) \/ NoMemory(p) PROVE Awaits(q)'
    BY <1>2, <2>1, <2>3, AwaitStep
  <2>4. ASSUME NEW c \in CPUs, NEW p \in Slots, Schedule(c, p) PROVE Awaits(q)'
    BY <2>1, <2>2, <2>4 DEF Schedule, Calm, Types, Live
  <2>5. ASSUME NEW c \in CPUs, Preempt(c) PROVE Awaits(q)'
    <3>1. cpu[c] \in Slots
      BY <2>1, <2>5 DEF Preempt, Types
    <3>2. QED
      BY <2>1, <2>2, <2>5, <3>1 DEF Preempt, Calm, Types, Live
  <2>6. CASE IoWakeup
    BY <2>1, <2>2, <2>6 DEF IoWakeup, Awaken, Calm, Types, Live
  <2>7. CASE UNCHANGED memVars
    BY <2>1, <2>7 DEF memVars, vars, slot, Awaits
  <2>8. QED
    BY <1>2, <2>3, <2>4, <2>5, <2>6, <2>7 DEF MemNext
<1>3. Inv /\ [MemNext]_memVars => Inv'
  BY <1>2, CoreStep, MixKept DEF Orderly
<1>4. QED
  BY <1>1, <1>3, PTL DEF MemSpec

(* No wakeup is lost between sleep() and wakeup1(): who sleeps in wait() or  *)
(* exit() still has somebody to wait for, and nobody sleeps past the death   *)
(* of a child or thread it waits for, in wait() and thread_join() past its   *)
(* own killing (proc.c:410-560, 1190-1290), whatever tids are joined.        *)
THEOREM NotForgottenHolds == MemSpec => []NotForgotten
<1>1. (Orderly => Core /\ \A q \in Slots : Awaits(q)) => NotForgotten
  BY DEF NotForgotten, Awaits
<1>2. QED
  BY <1>1, AwaitsHold, PTL

-----------------------------------------------------------------------------
NoKill0 == "kill0" \notin mix.calls

LEMMA FreshStep ==
  ASSUME Core, Orderly, NoKill0, NEW p \in Slots, Call(p) \/ NoMemory(p),
         NEW q \in Slots, Fresh(q), mix' = mix
  PROVE  Fresh(q)'
<1>0. Types /\ Pids /\ Masters /\ Places /\ Embryos
  BY DEF Core, Shape
<1>1. ASSUME state'[q] \in Unborn => /\ state'[q] = state[q] /\ pid'[q] = pid[q] /\ master'[q] = master[q]
                                     /\ killed'[q] = killed[q]
      PROVE  Fresh(q)'
  BY <1>1 DEF Fresh, Unborn
<1>2. CASE Fork(p) \/ ThreadCreate(p)
  <2> DEFINE e == Min({r \in 1..mix.slots : state[r] = "UNUSED"})
  <2>1. PICK place : AllocProc(p, place) /\ UNCHANGED killed
    BY <1>2 DEF Fork, ThreadCreate
  <2>2. e \in Slots /\ state[e] = "UNUSED"
    BY <1>0, <2>1, FirstUnused
  <2>3. /\ state' = [state EXCEPT ![e] = "EMBRYO"] /\ master' = [master EXCEPT ![e] = 0]
        /\ pid' = [pid EXCEPT ![e] = nextpid]
    BY <2>1 DEF AllocProc
  <2>4. CASE q = e
    BY <1>0, <2>1, <2>2, <2>3, <2>4 DEF Fresh, Types
  <2>5. CASE q # e
    BY <1>0, <1>1, <2>1, <2>3, <2>5 DEF Types
  <2>6. QED
    BY <2>4, <2>5
<1>3. CASE ForkFail(p)
  <2>1. np[p] \in Slots /\ state[np[p]] = "EMBRYO" /\ mix.oom
    BY <1>0, <1>3 DEF ForkFail, At, Embryos, Creating
  <2>2. pid'[np[p]] # 0
    BY <1>0, <1>3, <2>1 DEF ForkFail, Pids
  <2>3. QED
    BY <1>0, <1>3, <2>1, <2>2 DEF ForkFail, Fresh, Types
<1>4. CASE ForkDone(p) \/ ThreadGo(p)
  <2>1. np[p] \in Slots
    BY <1>0, <1>4 DEF ForkDone, ThreadGo, At, Embryos, Creating
  <2>2. QED
    BY <1>0, <1>1, <1>4, <2>1 DEF ForkDone, ThreadGo, Types, Unborn
<1>5. CASE ThreadInit(p)
  <2>1. np[p] \in Slots /\ state[np[p]] = "EMBRYO" /\ MasterOf(p) \in Slots
    BY <1>0, <1>5 DEF ThreadInit, At, Embryos, Creating, MasterOf, Types
  <2>2. CASE q = np[p]
    BY <1>0, <1>5, <2>1, <2>2 DEF ThreadInit, Fresh, Types, Slots
  <2>3. CASE q # np[p]
    BY <1>0, <1>1, <1>5, <2>3 DEF ThreadInit, Types
  <2>4. QED
    BY <2>2, <2>3
<1>6. ASSUME Calm, killed'[q] = killed[q] PROVE Fresh(q)'
  BY <1>1, <1>6 DEF Calm, Live, Unborn
<1>7. CASE ExitThread(p) \/ ThreadExit(p) \/ Exec(p) \/ ExecNoFile(p) \/ InitPanic(p) \/ ExecLoad(p)
           \/ IoSleep(p) \/ IoReturn(p) \/ \E n \in {1, -1} : Sbrk(p, n) \/ SbrkAgain(p, n)
  BY <1>6, <1>7, CalmStep
  DEF ExitThread, ThreadExit, Exec, ExecNoFile, InitPanic, ExecLoad, IoSleep, IoReturn, Sbrk, SbrkAgain, slot
<1>8. CASE ThreadWakeup(p)
  BY <1>6, <1>8, CalmStep DEF ThreadWakeup
<1>9. CASE ThreadKill(p)
  <2>1. state[p] = "RUNNING" /\ pc[p] = "kill"
    BY <1>9, RunningState DEF ThreadKill, At
  <2>2. {r \in Slots \ {p} : pid[r] = pid[p]} = {}
    BY <2>1, LonePid DEF Live
  <2>3. killed[q] \in BOOLEAN /\ killed'[q] = (killed[q] \/ FALSE)
    BY <1>0, <1>9, <2>2 DEF ThreadKill, Types
  <2>4. QED
    BY <1>6, <1>9, <2>3, CalmStep
<1>10. ASSUME NEW k \in 0..MaxPid, Kill(p, k) PROVE Fresh(q)'
  <2> DEFINE S == {r \in Slots : pid[r] = k}
             s == Min(S)
  <2>1. s \in Slots /\ pid[s] # 0
    <3>1. s \in S
      BY <1>10, FirstSlot DEF Kill
    <3>2. k # 0
      BY <1>10 DEF Kill, NoKill0
    <3>3. QED
      BY <3>1, <3>2
  <2>2. /\ pid' = pid /\ Calm
        /\ killed' = [killed EXCEPT ![s] = TRUE]
    BY <1>10, CalmStep DEF Kill
  <2>3. state'[q] = "UNUSED" => state[q] = "UNUSED"
    BY <2>2 DEF Calm, Live
  <2>4. q # s => killed'[q] = killed[q]
    BY <1>0, <2>2 DEF Types
  <2>5. QED
    BY <2>1, <2>2, <2>3, <2>4 DEF Fresh
<1>11. CASE ThreadExitDone(p)
  BY <1>0, <1>1, <1>11 DEF ThreadExitDone, Awaken, Types, Unborn
<1>12. CASE ExitDone(p)
  <2>1. state'[q] \in Unborn => state'[q] = state[q]
    BY <1>0, <1>12 DEF ExitDone, Awaken, Types, Unborn
  <2>2. state[q] \in Unborn => q # master[p]
    BY <1>0 DEF Masters, Unborn, Live, Slots
  <2>3. state[q] \in Unborn => killed'[q] = killed[q]
    BY <1>0, <1>12, <2>2 DEF ExitDone, Types
  <2>4. QED
    BY <1>1, <1>12, <2>1, <2>3 DEF ExitDone
<1>13. CASE ReapThreads(p)
  <2> DEFINE D == {r \in Slots : master[r] = p /\ state[r] = "ZOMBIE"}
             woken == [r \in Slots |->
                         IF r \in D THEN "UNUSED"
                         ELSE IF r \in LiveThreads(p) /\ state[r] = "SLEEPING" /\ chan[r] = r
                              THEN "RUNNABLE" ELSE state[r]]
  <2>1. killed'[q] = ((killed[q] \/ q \in LiveThreads(p)) /\ q \notin D)
    BY <1>13, Zenon DEF ReapThreads
  <2>2. state' = woken \/ state' = [woken EXCEPT ![p] = "SLEEPING"]
    BY <1>13, Zenon DEF ReapThreads
  <2>3. CASE q \in D
    <3>1. ~killed'[q]
      BY <2>1, <2>3
    <3>2. pid'[q] = 0
      BY <1>0, <1>13, <2>3 DEF ReapThreads
    <3>3. QED
      BY <3>1, <3>2 DEF Fresh
  <2>4. CASE q \notin D
    <3>1. state'[q] \in Unborn => state'[q] = state[q]
      BY <2>2, <2>4 DEF Unborn
    <3>2. pid'[q] = pid[q] /\ master'[q] = master[q]
      BY <1>0, <1>13, <2>4 DEF ReapThreads
    <3>3. state[q] = "UNUSED" \/ master[q] = 0 => q \notin LiveThreads(p)
      BY <1>0 DEF LiveThreads, Masters, Slots
    <3>4. q \notin LiveThreads(p) /\ ~killed[q] => ~killed'[q]
      BY <2>1
    <3>5. QED
      BY <3>1, <3>2, <3>3, <3>4 DEF Fresh, Unborn
  <2>5. QED
    BY <2>3, <2>4
<1>14. ASSUME NEW d \in Slots, FreeSlot(d),
              \A r \in Slots \ {d} : master'[r] = master[r]
       PROVE  Fresh(q)'
  <2>1. CASE q = d
    BY <1>0, <1>14, <2>1 DEF FreeSlot, Fresh, Types
  <2>2. CASE q # d
    BY <1>0, <1>1, <1>14, <2>2 DEF FreeSlot, Types
  <2>3. QED
    BY <2>1, <2>2
<1>15. ASSUME NEW place, UNCHANGED <<pid, master, killed>>, state' = state \/ Asleep(p, p, place)
       PROVE  Fresh(q)'
  BY <1>0, <1>1, <1>15 DEF Asleep, Types, Unborn
<1>16. ASSUME NEW t \in 1..MaxPid, ThreadJoin(p, t) PROVE Fresh(q)'
  <2> DEFINE dead == {r \in Slots : tid[r] = t /\ state[r] = "ZOMBIE"}
             d == Min(dead)
  <2>1. CASE dead # {} /\ FreeSlot(d) /\ master' = [master EXCEPT ![d] = 0]
    <3>1. d \in Slots
      BY <2>1, FirstSlot
    <3>2. \A r \in Slots \ {d} : master'[r] = master[r]
      BY <1>0, <2>1 DEF Types
    <3>3. QED
      BY <1>14, <2>1, <3>1, <3>2
  <2>2. CASE (state' = state \/ Asleep(p, p, "join")) /\ UNCHANGED <<pid, master, killed>>
    BY <1>15, <2>2
  <2>3. QED
    BY <1>16, <2>1, <2>2 DEF ThreadJoin
<1>17. CASE Wait(p)
  <2> DEFINE dead == {r \in {s \in Slots : parent[s] = p} : state[r] = "ZOMBIE"}
             d == Min(dead)
  <2>1. CASE dead # {} /\ FreeSlot(d)
    <3>1. d \in Slots
      BY <2>1, FirstSlot
    <3>2. QED
      BY <1>14, <1>17, <2>1, <3>1 DEF Wait
  <2>2. CASE (state' = state \/ Asleep(p, p, "wait")) /\ UNCHANGED <<pid, killed>>
    BY <1>15, <1>17, <2>2 DEF Wait
  <2>3. QED
    BY <1>17, <2>1, <2>2 DEF Wait
<1>18. QED
  BY <1>2, <1>3, <1>4, <1>5, <1>7, <1>8, <1>9, <1>10, <1>11, <1>12, <1>13, <1>16, <1>17
  DEF Call, NoMemory

(* fork() and thread_create() take no slot that was killed beforehand: every *)
(* path that frees a slot clears `killed' and the pid, so that kill() of a   *)
(* pid finds no free slot (proc.c:640-665, 1053-1070, 1280-1288).  A fork()  *)
(* that fails leaves its pid behind for kill() to find.                     *)
THEOREM NotBornKilledHolds == MemSpec => []NotBornKilled
<1> DEFINE Inv == Orderly /\ NoKill0 => Core /\ \A q \in Slots : Fresh(q)
<1>1. MemInit => Inv
  BY CoreInit DEF MemInit, Init, Fresh
<1>2. ASSUME Core, Orderly, NoKill0, MemNext \/ UNCHANGED memVars, NEW q \in Slots, Fresh(q)
      PROVE  Fresh(q)'
  <2>1. Types /\ mix' = mix
    BY <1>2, MixKept DEF Core
  <2>2. ASSUME UNCHANGED <<pid, master, killed>>, state'[q] \in Unborn => state'[q] = state[q]
        PROVE  Fresh(q)'
    BY <1>2, <2>1, <2>2 DEF Fresh, Unborn
  <2>3. ASSUME NEW p \in Slots, Call(p) \/ NoMemory(p) PROVE Fresh(q)'
    BY <1>2, <2>1, <2>3, FreshStep
  <2>4. ASSUME NEW c \in CPUs, NEW p \in Slots, Schedule(c, p) PROVE Fresh(q)'
    BY <2>1, <2>2, <2>4 DEF Schedule, Types, Unborn
  <2>5. ASSUME NEW c \in CPUs, Preempt(c) PROVE Fresh(q)'
    BY <2>1, <2>2, <2>5 DEF Preempt, Types, Unborn
  <2>6. CASE IoWakeup
    BY <2>1, <2>2, <2>6 DEF IoWakeup, Awaken, Types, Unborn
  <2>7. CASE UNCHANGED memVars
    BY <2>2, <2>7 DEF memVars, vars, slot
  <2>8. QED
    BY <1>2, <2>3, <2>4, <2>5, <2>6, <2>7 DEF MemNext
<1>3. Inv /\ [MemNext]_memVars => Inv'
  BY <1>2, CoreStep, MixKept DEF Orderly, NoKill0
<1>4. Inv => NotBornKilled
  BY DEF Fresh, NotBornKilled, NoKill0
<1>5. QED
  BY <1>1, <1>3, <1>4, PTL DEF MemSpec

-----------------------------------------------------------------------------
(* Page tables and user memory.                                            *)

Process(p) == InUse(p) /\ master[p] = 0
Closing == {"reap", "exit", "dead"}

(* Local variables and places that the page tables depend on.               *)
Books ==
  /\ \A p \in Slots : pc[p] \notin {"tnew", "join"} => loc[p] = 0
  /\ \A p \in Slots : pc[p] = "tgo" => master[np[p]] # 0
  /\ Frugal => \A p \in Slots : pc[p] # "shrink" /\ (pc[p] \in Creating => master[p] = 0)

Tables ==
  /\ pg \in [Slots -> 0..(NPROC + 1)]
  /\ livePg \subseteq 1..(NPROC + 1)
  /\ \A p \in Slots : Process(p) => pg[p] \in livePg
  /\ \A g \in livePg : \E p \in Slots : Process(p) /\ pg[p] = g
  /\ \A p, q \in Slots : Process(p) /\ Process(q) /\ pg[p] = pg[q] => p = q
  /\ \A p \in Slots : master[p] # 0 => pg[p] = pg[master[p]]

MemTypes ==
  /\ sz \in [Slots -> Nat]
  /\ vir_add \in [Slots -> Nat]
  /\ empty_mem = [p \in Slots |-> empty_mem[p]]
  /\ mapped = [g \in 1..(NPROC + 1) |-> mapped[g]]

(* The stacks of the threads of process m. *)
Stacks(m) ==
  /\ mapped[pg[m]] \subseteq 0..(sz[m] - 1)
  /\ \A t \in Slots : master[t] = m =>
       Stack(vir_add[t]) \subseteq mapped[pg[m]] /\ sz[t] = vir_add[t] + StackPages
  /\ \A t, u \in Slots : master[t] = m /\ master[u] = m /\ t # u =>
       Stack(vir_add[t]) \cap Stack(vir_add[u]) = {}

(* The stacks that joined threads have left to process m. *)
Spare(m) ==
  /\ empty_mem[m] \in Seq(Nat)
  /\ \A i \in 1..Len(empty_mem[m]) :
       /\ Stack(empty_mem[m][i]) \subseteq 0..(sz[m] - 1)
       /\ Stack(empty_mem[m][i]) \cap mapped[pg[m]] = {}
  /\ \A i, j \in 1..Len(empty_mem[m]) :
       i # j => Stack(empty_mem[m][i]) \cap Stack(empty_mem[m][j]) = {}

Family(m) == Process(m) => Stacks(m) /\ (pc[m] \notin Closing => Spare(m))

(* A newborn process, and one that calls exec(), has nothing on its list.    *)
Emptied ==
  /\ \A p \in Slots : pc[p] = "fork" => empty_mem[np[p]] = <<>>
  /\ \A p \in Slots : pc[p] \in {"kill", "load"} => empty_mem[p] = <<>>

Memory == MemTypes /\ Emptied /\ \A m \in Slots : Family(m)

TablesInv == Core /\ Books /\ Tables
MemoryInv == TablesInv /\ Memory

(* A step after which the same processes and threads own the same tables.   *)
Steady ==
  /\ UNCHANGED <<pg, livePg>>
  /\ \A q \in Slots : Process(q)' <=> Process(q)
  /\ \A q \in Slots : master'[q] # 0 => master'[q] = master[q]

-----------------------------------------------------------------------------
(* A page table is free whenever a process needs one: NPROC slots use at     *)
(* most NPROC of them.                                                      *)
LEMMA FreshTable ==
  ASSUME Tables
  PROVE  /\ FreshPg \in 1..(NPROC + 1) /\ FreshPg \notin livePg
         /\ \A q \in Slots : state[q] # "UNUSED" => pg[q] # FreshPg
<1> DEFINE G == 1..(NPROC + 1)
           T == {pg[q] : q \in Slots}
           free == {g \in G : g \notin livePg /\ \A q \in Slots : state[q] # "UNUSED" => pg[q] # g}
<1>1. IsFiniteSet(Slots) /\ Cardinality(Slots) = NPROC
  BY FS_Interval, ThreadsAssumption DEF Slots
<1>2. IsFiniteSet(T) /\ Cardinality(T) <= NPROC
  <2>1. [q \in Slots |-> pg[q]] \in Surjection(Slots, T)
    BY DEF Surjection
  <2>2. QED
    BY <1>1, <2>1, FS_Surjection
<1>3. IsFiniteSet(G) /\ Cardinality(G) = NPROC + 1
  BY FS_Interval, ThreadsAssumption
<1>4. PICK g \in G : g \notin T
  <2>1. SUFFICES ASSUME G \subseteq T PROVE FALSE
    OBVIOUS
  <2>2. Cardinality(G) <= Cardinality(T)
    <3> HIDE DEF G, T
    <3>1. QED
      BY <1>2, <2>1, FS_Subset
  <2>3. Cardinality(T) \in Nat
    BY <1>2, FS_CardinalityType
  <2>4. QED
    BY <1>2, <1>3, <2>2, <2>3, ThreadsAssumption
<1>5. g \in free
  BY <1>4 DEF Tables
<1>6. Min(free) \in free
  <2>1. free \subseteq Nat
    BY ThreadsAssumption
  <2>2. QED
    BY <1>5, <2>1, MinElement
<1>7. QED
  BY <1>6 DEF FreshPg

LEMMA BooksFrame ==
  ASSUME Core, Books, mix' = mix, NEW p \in Slots,
         \A q \in Slots \ {p} :
           /\ pc'[q] = pc[q] \/ (pc'[q] = "user" /\ pc[q] \in {"user", "dead"})
           /\ loc'[q] = loc[q] /\ np'[q] = np[q],
         \A q \in Slots :
           master'[q] = master[q] \/ master'[q] # 0 \/ state[q] # "EMBRYO",
         \A q \in Slots : master[q] = 0 /\ master'[q] # 0 => pc'[q] \notin Creating,
         pc'[p] \notin {"tnew", "join"} => loc'[p] = 0,
         pc'[p] = "tgo" => master'[np'[p]] # 0,
         Frugal => pc'[p] # "shrink" /\ (pc'[p] \in Creating => master'[p] = 0)
  PROVE  Books'
<1>1. ASSUME NEW q \in Slots PROVE pc'[q] \notin {"tnew", "join"} => loc'[q] = 0
  <2>1. CASE q = p
    BY <2>1
  <2>2. CASE q # p
    BY <2>2 DEF Books
  <2>3. QED
    BY <2>1, <2>2
<1>2. ASSUME NEW q \in Slots, pc'[q] = "tgo" PROVE master'[np'[q]] # 0
  <2>1. CASE q = p
    BY <1>2, <2>1
  <2>2. CASE q # p
    <3>1. pc[q] = "tgo" /\ np'[q] = np[q]
      BY <1>2, <2>2
    <3>2. np[q] \in Slots /\ state[np[q]] = "EMBRYO" /\ master[np[q]] # 0
      BY <3>1 DEF Core, Shape, Embryos, Creating, Books
    <3>3. QED
      BY <3>1, <3>2
  <2>3. QED
    BY <2>1, <2>2
<1>3. Frugal' <=> Frugal
  BY DEF Frugal
<1>4. ASSUME Frugal, NEW q \in Slots
      PROVE  pc'[q] # "shrink" /\ (pc'[q] \in Creating => master'[q] = 0)
  <2>1. CASE q = p
    BY <1>4, <2>1
  <2>2. CASE q # p
    BY <1>4, <2>2 DEF Books, Creating
  <2>3. QED
    BY <2>1, <2>2
<1>5. QED
  BY <1>1, <1>2, <1>3, <1>4 DEF Books

LEMMA TablesFrame ==
  ASSUME Tables, Types', Steady
  PROVE  Tables'
<1>1. pg' = pg /\ livePg' = livePg
  BY DEF Steady
<1>2. \A q \in Slots : Process(q)' <=> Process(q)
  BY DEF Steady
<1>3. \A q \in Slots : master'[q] # 0 => master'[q] = master[q]
  BY DEF Steady
<1> HIDE DEF Process
<1>4. QED
  BY <1>1, <1>2, <1>3 DEF Tables

(* The slots behind np, and what the steps do to it.                        *)
LEMMA BooksStep ==
  ASSUME Core, Orderly, Books, NEW p \in Slots, Call(p) \/ NoMemory(p)
  PROVE  Books'
<1> USE DEF Creating
<1>0. /\ Types /\ Places /\ Embryos /\ Masters /\ mix' = mix
      /\ pc[p] \notin {"tnew", "join"} => loc[p] = 0
  <2>1. mix' = mix
    BY MixKept DEF MemNext
  <2>2. QED
    BY <2>1 DEF Core, Shape, Books
<1>1. Running(p) /\ state[p] = "RUNNING"
  BY RunningState DEF Call, NoMemory, Fork, ForkDone, ThreadCreate, ThreadInit, ReapThreads,
     ThreadJoin, Wait, Exec, ExecLoad, Sbrk, SbrkAgain, ForkFail, ThreadGo, ThreadExit,
     ThreadExitDone, ExitThread, ExitDone, ThreadKill, ExecNoFile, InitPanic, ThreadWakeup, Kill, IoSleep,
     IoReturn, Enters, At
<1>2. Frugal => (tid[p] # 0 => "nested" \notin mix.calls /\ "threadfork" \notin mix.calls)
  BY DEF Frugal
<1>3. CASE Fork(p)
  <2>1. Frugal => master[p] = 0
    BY <1>0, <1>1, <1>2, <1>3 DEF Fork, Masters, Core, Shape, Rooted
  <2> DEFINE e == Min({q \in 1..mix.slots : state[q] = "UNUSED"})
  <2>2. e \in Slots /\ state[e] = "UNUSED" /\ AllocProc(p, "fork") /\ loc' = loc /\ pc[p] = "user"
    BY <1>0, <1>3, FirstUnused DEF Fork, Enters
  <2>3. /\ np' = [np EXCEPT ![p] = e] /\ master' = [master EXCEPT ![e] = 0]
        /\ pc' = [pc EXCEPT ![p] = "fork"]
    BY <2>2 DEF AllocProc
  <2> HIDE DEF e
  <2>4. QED
    BY <1>0, <1>1, <2>1, <2>2, <2>3, BooksFrame DEF Types
<1>4. CASE ThreadCreate(p)
  <2>1. Frugal => master[p] = 0
    BY <1>0, <1>1, <1>2, <1>4 DEF ThreadCreate, Masters
  <2> DEFINE e == Min({q \in 1..mix.slots : state[q] = "UNUSED"})
  <2>2. e \in Slots /\ state[e] = "UNUSED" /\ AllocProc(p, "tnew") /\ pc[p] = "user"
    BY <1>0, <1>4, FirstUnused DEF ThreadCreate, Enters
  <2>3. /\ np' = [np EXCEPT ![p] = e] /\ master' = [master EXCEPT ![e] = 0]
        /\ pc' = [pc EXCEPT ![p] = "tnew"] /\ loc' = [loc EXCEPT ![p] = nexttid]
    BY <1>4, <2>2 DEF AllocProc, ThreadCreate
  <2> HIDE DEF e
  <2>4. QED
    BY <1>0, <1>1, <2>1, <2>2, <2>3, BooksFrame DEF Types
<1>5. CASE ForkDone(p) \/ ForkFail(p) \/ ThreadGo(p)
  <2>1. /\ np[p] \in Slots /\ state[np[p]] = "EMBRYO" /\ np[p] # p
        /\ pc[np[p]] \in {"user", "dead"}
    BY <1>0, <1>1, <1>5 DEF ForkDone, ForkFail, ThreadGo, At, Embryos, Places, Unborn
  <2>2. /\ loc' = loc /\ master' = master /\ np' = [np EXCEPT ![p] = 0]
        /\ \/ pc' = [pc EXCEPT ![np[p]] = "user", ![p] = "user"]
           \/ pc' = [pc EXCEPT ![p] = "user"]
        /\ pc[p] \notin {"tnew", "join"}
    BY <1>5 DEF ForkDone, ForkFail, ThreadGo, Return, At
  <2>3. /\ pc'[p] = "user"
        /\ \A q \in Slots \ {p} : pc'[q] = pc[q] \/ (pc'[q] = "user" /\ pc[q] \in {"user", "dead"})
    BY <1>0, <2>1, <2>2 DEF Types
  <2>4. QED
    BY <1>0, <1>1, <2>1, <2>2, <2>3, BooksFrame DEF Types
<1>6. CASE ThreadInit(p)
  <2>1. /\ np[p] \in Slots /\ state[np[p]] = "EMBRYO" /\ np[p] # p
        /\ pc[np[p]] \in {"user", "dead"}
    BY <1>0, <1>1, <1>6 DEF ThreadInit, At, Embryos, Places, Unborn
  <2>2. MasterOf(p) # 0
    BY <1>1 DEF MasterOf, Slots
  <2>3. Frugal => master[p] = 0
    BY <1>6 DEF ThreadInit, At, Books
  <2>4. /\ master' = [master EXCEPT ![np[p]] = MasterOf(p)] /\ np' = np
        /\ loc' = [loc EXCEPT ![p] = 0] /\ pc' = [pc EXCEPT ![p] = "tgo"]
    BY <1>6 DEF ThreadInit
  <2>5. QED
    BY <1>0, <1>1, <2>1, <2>2, <2>3, <2>4, BooksFrame DEF Types
<1>7. ASSUME np' = np, \A q \in Slots : master'[q] = master[q] \/ (state[q] = "ZOMBIE" /\ master'[q] = 0),
             \A q \in Slots \ {p} : pc'[q] = pc[q] /\ loc'[q] = loc[q],
             pc'[p] \notin {"fork", "tnew", "tgo", "shrink"}, pc'[p] # "join" => loc'[p] = 0
      PROVE  Books'
  <2>3. \A q \in Slots : master'[q] = master[q] \/ master'[q] # 0 \/ state[q] # "EMBRYO"
    BY <1>7
  <2>4. \A q \in Slots : master[q] = 0 /\ master'[q] # 0 => pc'[q] \notin Creating
    BY <1>7
  <2>5. QED
    BY <1>0, <1>7, <2>3, <2>4, BooksFrame
<1>8. CASE ReapThreads(p)
  <2>1. \A q \in Slots : master'[q] = master[q] \/ (state[q] = "ZOMBIE" /\ master'[q] = 0)
    BY <1>8 DEF ReapThreads
  <2>2. pc' = [pc EXCEPT ![p] = "exit"] \/ pc' = [pc EXCEPT ![p] = "reap"]
    BY <1>8 DEF ReapThreads
  <2>3. loc' = loc /\ np' = np /\ loc[p] = 0
    BY <1>0, <1>8 DEF ReapThreads
  <2>4. QED
    BY <1>0, <1>7, <2>1, <2>2, <2>3 DEF Types
<1>9. ASSUME NEW t \in 1..MaxPid, ThreadJoin(p, t) PROVE Books'
  <2> DEFINE dead == {q \in Slots : tid[q] = t /\ state[q] = "ZOMBIE"}
             d == Min(dead)
  <2>1. CASE dead # {} /\ master' = [master EXCEPT ![d] = 0] /\ Return(p)
             /\ loc' = [loc EXCEPT ![p] = 0]
    <3>1. d \in Slots /\ state[d] = "ZOMBIE"
      BY <2>1, FirstSlot
    <3>2. /\ \A q \in Slots : master'[q] = master[q] \/ (state[q] = "ZOMBIE" /\ master'[q] = 0)
          /\ pc' = [pc EXCEPT ![p] = "user"] /\ loc' = [loc EXCEPT ![p] = 0] /\ np' = np
      BY <1>0, <1>9, <2>1, <3>1 DEF ThreadJoin, Return, Types
    <3>3. QED
      BY <1>0, <1>7, <3>2 DEF Types
  <2>2. CASE /\ \/ Return(p) /\ loc' = [loc EXCEPT ![p] = 0]
                \/ Asleep(p, p, "join") /\ loc' = [loc EXCEPT ![p] = t]
             /\ master' = master
    <3>1. np' = np /\ \A q \in Slots \ {p} : pc'[q] = pc[q] /\ loc'[q] = loc[q]
      BY <1>0, <1>9, <2>2 DEF ThreadJoin, Return, Asleep, Types
    <3>2. (pc'[p] = "user" /\ loc'[p] = 0) \/ pc'[p] = "join"
      BY <1>0, <2>2 DEF Return, Asleep, Types
    <3>3. QED
      BY <1>7, <2>2, <3>1, <3>2
  <2>3. QED
    BY <1>9, <2>1, <2>2 DEF ThreadJoin
<1>10. CASE Wait(p)
  <2>1. pc' = [pc EXCEPT ![p] = "user"] \/ pc' = [pc EXCEPT ![p] = "wait"]
    BY <1>10 DEF Wait, Return, Asleep
  <2>2. master' = master /\ loc' = loc /\ np' = np /\ loc[p] = 0
    BY <1>0, <1>10 DEF Wait, Enters, At
  <2>3. QED
    BY <1>0, <1>7, <2>1, <2>2 DEF Types
<1>11. CASE Exec(p)
  <2>1. pc' = [pc EXCEPT ![p] = "kill"] /\ master' = master /\ loc' = loc /\ np' = np /\ loc[p] = 0
    BY <1>0, <1>11 DEF Exec, Enters, Orderly
  <2>2. QED
    BY <1>0, <1>7, <2>1 DEF Types
<1>12. CASE ExecNoFile(p) \/ ExecLoad(p)
  <2>1. /\ pc' = [pc EXCEPT ![p] = "user"] \/ pc' = [pc EXCEPT ![p] = "wake"]
        /\ master' = master /\ loc' = [loc EXCEPT ![p] = 0] /\ np' = np
    BY <1>12 DEF ExecNoFile, ExecLoad, Return, slot
  <2>2. QED
    BY <1>0, <1>7, <2>1 DEF Types
<1>13. ASSUME NEW n \in {1, -1}, Sbrk(p, n) \/ SbrkAgain(p, n) PROVE Books'
  <2>1. master' = master /\ loc' = loc /\ np' = np /\ loc[p] = 0
    BY <1>0, <1>13 DEF Sbrk, SbrkAgain, Enters, At, slot, Growing
  <2>2. Frugal => n = 1
    <3>1. Frugal => pc[p] # "shrink" /\ "shrink" \notin mix.calls
      BY DEF Books, Frugal
    <3>2. QED
      BY <1>13, <3>1 DEF Sbrk, SbrkAgain, At, Growing
  <2>3. pc' = pc \/ pc' = [pc EXCEPT ![p] = "user"] \/ pc' = [pc EXCEPT ![p] = Growing(n)]
    BY <1>0, <1>13 DEF Sbrk, SbrkAgain, Return, Types
  <2>4. pc[p] \notin Creating
    BY <1>13 DEF Sbrk, SbrkAgain, Enters, At, Growing
  <2>5. pc'[p] \in {pc[p], "user", Growing(n)} /\ \A q \in Slots \ {p} : pc'[q] = pc[q]
    BY <1>0, <2>3 DEF Types
  <2>6. Frugal => pc'[p] # "shrink"
    BY <2>2, <2>5 DEF Books, Growing
  <2>7. pc'[p] \notin Creating
    BY <2>4, <2>5 DEF Growing
  <2>8. QED
    BY <1>0, <2>1, <2>5, <2>6, <2>7, BooksFrame
<1>14. CASE ThreadExit(p) \/ ExitThread(p) \/ InitPanic(p) \/ IoReturn(p) \/ IoSleep(p)
            \/ ThreadExitDone(p) \/ ExitDone(p) \/ ThreadKill(p) \/ ThreadWakeup(p)
  <2>1. /\ master' = master /\ loc' = loc /\ np' = np /\ loc[p] = 0
        /\ pc[p] \in {"user", "io", "texit", "exit", "kill", "wake"}
    BY <1>0, <1>14 DEF ThreadExit, ExitThread, InitPanic, IoReturn, IoSleep, ThreadExitDone, ExitDone, ThreadKill,
       ThreadWakeup, Enters, At, slot
  <2>2. \E place \in {"texit", "exit", "panic", "user", "io", "dead", "load", "adopt"} :
          pc' = [pc EXCEPT ![p] = place]
    BY <1>14 DEF ThreadExit, ExitThread, InitPanic, IoReturn, IoSleep, ThreadExitDone, ExitDone, ThreadKill,
       ThreadWakeup, Return, Asleep
  <2>3. QED
    BY <1>0, <1>7, <2>1, <2>2 DEF Types
<1>15. ASSUME NEW k \in 0..MaxPid, Kill(p, k) PROVE Books'
  <2>1. master' = master /\ loc' = loc /\ np' = np /\ pc' = pc /\ pc[p] = "user"
    BY <1>15 DEF Kill, Enters
  <2>2. QED
    BY <1>0, <1>7, <2>1
<1>16. QED
  BY <1>3, <1>4, <1>5, <1>6, <1>8, <1>9, <1>10, <1>11, <1>12, <1>13, <1>14, <1>15 DEF Call, NoMemory

-----------------------------------------------------------------------------
(* Who owns which page table. *)

(* allocproc() takes a slot that is not in use, and leaves it so. *)
LEMMA AllocSteady ==
  ASSUME Core, NEW p \in Slots, NEW place, AllocProc(p, place), UNCHANGED <<pg, livePg>>
  PROVE  Steady
<1>1. Types
  BY DEF Core
<1> DEFINE e == Min({q \in 1..mix.slots : state[q] = "UNUSED"})
<1>2. e \in Slots /\ state[e] = "UNUSED"
  BY <1>1, FirstUnused
<1>3. state' = [state EXCEPT ![e] = "EMBRYO"] /\ master' = [master EXCEPT ![e] = 0]
  BY DEF AllocProc
<1> HIDE DEF e
<1>4. QED
  BY <1>1, <1>2, <1>3 DEF Steady, Process, InUse, Types

(* Steps that neither begin nor end a process. *)
LEMMA SteadyStep ==
  ASSUME Core, Orderly, Books, NEW p \in Slots,
         \/ Fork(p) \/ ThreadCreate(p) \/ ForkFail(p) \/ ThreadGo(p) \/ ReapThreads(p)
         \/ \E t \in 1..MaxPid : ThreadJoin(p, t)
         \/ Exec(p) \/ \E n \in {1, -1} : Sbrk(p, n) \/ SbrkAgain(p, n)
         \/ ThreadExit(p) \/ ThreadExitDone(p) \/ ExitThread(p) \/ ExitDone(p)
         \/ ThreadKill(p) \/ ExecNoFile(p) \/ InitPanic(p) \/ ThreadWakeup(p)
         \/ \E k \in 0..MaxPid : Kill(p, k)
         \/ IoSleep(p) \/ IoReturn(p)
  PROVE  Steady
<1>0. Types /\ Embryos /\ Masters /\ Rooted
  BY DEF Core, Shape
<1>1. CASE Fork(p) \/ ThreadCreate(p)
  BY <1>1, AllocSteady DEF Fork, ThreadCreate
<1>2. CASE ForkFail(p) \/ ThreadGo(p)
  <2>1. np[p] \in Slots /\ state[np[p]] = "EMBRYO"
    BY <1>0, <1>2 DEF ForkFail, ThreadGo, At, Embryos, Creating
  <2>2. CASE ForkFail(p)
    BY <1>0, <2>1, <2>2 DEF ForkFail, Steady, Process, InUse, Types
  <2>3. CASE ThreadGo(p)
    <3>1. master[np[p]] # 0
      BY <2>3 DEF ThreadGo, At, Books
    <3>2. QED
      BY <1>0, <2>1, <2>3, <3>1 DEF ThreadGo, Steady, Process, InUse, Types
  <2>4. QED
    BY <1>2, <2>2, <2>3
<1>3. ASSUME UNCHANGED <<pg, livePg>>,
             \A q \in Slots : \/ master'[q] = master[q] /\ (state'[q] \in Unborn <=> state[q] \in Unborn)
                              \/ master[q] # 0 /\ master'[q] = 0 /\ state'[q] = "UNUSED"
      PROVE  Steady
  BY <1>3 DEF Steady, Process, InUse, Unborn
<1>4. CASE ReapThreads(p)
  <2> DEFINE dead == {q \in Slots : master[q] = p /\ state[q] = "ZOMBIE"}
             woken == [q \in Slots |->
                         IF q \in dead THEN "UNUSED"
                         ELSE IF q \in LiveThreads(p) /\ state[q] = "SLEEPING" /\ chan[q] = q
                              THEN "RUNNABLE" ELSE state[q]]
  <2>1. state[p] = "RUNNING" /\ p # 0
    BY <1>4, RunningState DEF ReapThreads, Slots
  <2>2. state' = woken \/ state' = [woken EXCEPT ![p] = "SLEEPING"]
    BY <1>4, Zenon DEF ReapThreads
  <2>3. \A q \in Slots : master'[q] = IF q \in dead THEN 0 ELSE master[q]
    BY <1>4 DEF ReapThreads
  <2>4. ASSUME NEW q \in Slots, q \notin dead PROVE state'[q] \in Unborn <=> state[q] \in Unborn
    BY <2>1, <2>2, <2>4 DEF Unborn
  <2>5. ASSUME NEW q \in dead PROVE state'[q] = "UNUSED"
    BY <2>1, <2>2, <2>5
  <2>6. UNCHANGED <<pg, livePg>>
    BY <1>4 DEF ReapThreads
  <2>7. QED
    BY <1>3, <2>1, <2>3, <2>4, <2>5, <2>6
<1>5. ASSUME NEW t \in 1..MaxPid, ThreadJoin(p, t) PROVE Steady
  <2> DEFINE dead == {q \in Slots : tid[q] = t /\ state[q] = "ZOMBIE"}
             d == Min(dead)
  <2>1. CASE dead # {} /\ FreeSlot(d) /\ master' = [master EXCEPT ![d] = 0]
    <3>1. d \in Slots /\ state[d] = "ZOMBIE" /\ tid[d] # 0
      BY <2>1, FirstSlot
    <3>2. master[d] # 0
      BY <1>0, <3>1 DEF Masters
    <3>3. QED
      BY <1>0, <1>5, <2>1, <3>1, <3>2 DEF ThreadJoin, FreeSlot, Steady, Process, InUse, Types
  <2>2. CASE (UNCHANGED state \/ Asleep(p, p, "join")) /\ master' = master
    <3>1. state[p] = "RUNNING"
      BY <1>5, RunningState DEF ThreadJoin, Enters
    <3>2. QED
      BY <1>0, <1>5, <2>2, <3>1 DEF ThreadJoin, Asleep, Steady, Process, InUse, Types
  <2>3. QED
    BY <1>5, <2>1, <2>2 DEF ThreadJoin
<1>6. CASE ThreadExitDone(p) \/ ExitDone(p)
  <2>1. state[p] = "RUNNING"
    BY <1>6, RunningState DEF ThreadExitDone, ExitDone, At
  <2>2. \A q \in Slots : state'[q] \in Unborn <=> state[q] \in Unborn
    <3>1. CASE ThreadExitDone(p)
      BY <1>0, <2>1, <3>1 DEF ThreadExitDone, Awaken, Unborn
    <3>2. CASE ExitDone(p)
      BY <1>0, <2>1, <3>2 DEF ExitDone, Awaken, Unborn
    <3>3. QED
      BY <1>6, <3>1, <3>2
  <2>3. UNCHANGED <<pg, livePg, master>>
    BY <1>6 DEF ThreadExitDone, ExitDone
  <2>4. QED
    BY <1>3, <2>2, <2>3
<1>7. ASSUME Calm, UNCHANGED <<pg, livePg>> PROVE Steady
  BY <1>7 DEF Calm, Steady, Process, InUse, Live
<1>8. CASE \/ Exec(p) \/ \E n \in {1, -1} : Sbrk(p, n) \/ SbrkAgain(p, n)
           \/ ThreadExit(p) \/ ExitThread(p) \/ ThreadKill(p) \/ ExecNoFile(p) \/ InitPanic(p) \/ ThreadWakeup(p)
           \/ (\E k \in 0..MaxPid : Kill(p, k)) \/ IoSleep(p) \/ IoReturn(p)
  <2>1. UNCHANGED <<pg, livePg>>
    BY <1>8 DEF Exec, Sbrk, SbrkAgain, ThreadExit, ExitThread, ThreadKill, ExecNoFile, InitPanic, ThreadWakeup,
       Kill, IoSleep, IoReturn, slot
  <2>2. QED
    BY <1>7, <1>8, <2>1, CalmStep
<1>9. QED
  BY <1>1, <1>2, <1>4, <1>5, <1>6, <1>8

LEMMA TablesStep ==
  ASSUME TablesInv, Orderly, Types', NEW p \in Slots, Call(p) \/ NoMemory(p)
  PROVE  Tables'
<1>0. Types /\ Embryos /\ Masters /\ Places /\ Tables /\ Books /\ Core
  BY DEF Core, Shape, TablesInv
<1>1. CASE Steady
  BY <1>0, <1>1, TablesFrame
<1>2. CASE ForkDone(p)
  <2> DEFINE e == np[p]
             g == FreshPg
  <2>1. e \in Slots /\ state[e] = "EMBRYO" /\ master[e] = 0
    BY <1>0, <1>2 DEF ForkDone, At, Embryos, Creating
  <2>2. g \in 1..(NPROC + 1) /\ g \notin livePg
    BY <1>0, FreshTable
  <2>3. \A q \in Slots : master[q] # e
    BY <1>0, <2>1 DEF Masters, Live, Slots
  <2>4. /\ pg' = [pg EXCEPT ![e] = g] /\ livePg' = livePg \cup {g}
        /\ state' = [state EXCEPT ![e] = "RUNNABLE"] /\ master' = master
    BY <1>2 DEF ForkDone
  <2> HIDE DEF e, g
  <2>5. \A q \in Slots : Process(q)' <=> Process(q) \/ q = e
    BY <1>0, <2>1, <2>4 DEF Process, InUse, Types
  <2>6. ~Process(e)
    BY <2>1 DEF Process, InUse
  <2>7. pg' \in [Slots -> 0..(NPROC + 1)] /\ pg'[e] = g /\ \A q \in Slots \ {e} : pg'[q] = pg[q]
    BY <1>0, <2>1, <2>2, <2>4, ThreadsAssumption DEF Tables
  <2> HIDE DEF Process
  <2>8. \A q \in Slots : Process(q) => pg[q] # g
    BY <1>0, <2>2 DEF Tables
  <2>9. \A q \in Slots : master'[q] # 0 => pg'[q] = pg'[master'[q]]
    <3>1. ASSUME NEW q \in Slots, master[q] # 0 PROVE pg'[q] = pg'[master[q]]
      <4>1. q # e /\ master[q] \in Slots \ {e}
        BY <1>0, <2>1, <2>3, <3>1 DEF Types
      <4>2. QED
        BY <1>0, <2>7, <3>1, <4>1 DEF Tables
    <3>2. QED
      BY <2>4, <3>1
  <2>10. \A q \in Slots : Process(q)' => pg'[q] \in livePg'
    BY <1>0, <2>1, <2>4, <2>5, <2>7 DEF Tables
  <2>11. \A h \in livePg' : \E q \in Slots : Process(q)' /\ pg'[q] = h
    <3>1. ASSUME NEW h \in livePg PROVE \E q \in Slots : Process(q)' /\ pg'[q] = h
      <4>1. PICK q \in Slots : Process(q) /\ pg[q] = h
        BY <1>0 DEF Tables
      <4>2. QED
        BY <2>5, <2>6, <2>7, <4>1
    <3>2. QED
      BY <2>1, <2>4, <2>5, <2>7, <3>1
  <2>12. \A q, r \in Slots : Process(q)' /\ Process(r)' /\ pg'[q] = pg'[r] => q = r
    BY <1>0, <2>5, <2>7, <2>8 DEF Tables
  <2>13. livePg' \subseteq 1..(NPROC + 1)
    BY <1>0, <2>2, <2>4 DEF Tables
  <2>14. QED
    BY <2>7, <2>9, <2>10, <2>11, <2>12, <2>13 DEF Tables
<1>3. CASE ThreadInit(p)
  <2> DEFINE e == np[p]
             m == MasterOf(p)
  <2>1. e \in Slots /\ state[e] = "EMBRYO"
    BY <1>0, <1>3 DEF ThreadInit, At, Embryos, Creating
  <2>2. m \in Slots /\ m # e /\ state[p] = "RUNNING"
    <3>1. state[p] = "RUNNING"
      BY <1>0, <1>3, RunningState DEF ThreadInit, At
    <3>2. QED
      BY <1>0, <2>1, <3>1 DEF MasterOf, Masters, Live, Types
  <2>3. \A q \in Slots : master[q] # e
    BY <1>0, <2>1 DEF Masters, Live, Slots
  <2>4. /\ pg' = [pg EXCEPT ![e] = pg[m]] /\ livePg' = livePg
        /\ master' = [master EXCEPT ![e] = m] /\ state' = state
    BY <1>3 DEF ThreadInit
  <2> HIDE DEF e, m
  <2>5. \A q \in Slots : Process(q)' <=> Process(q)
    BY <1>0, <2>1, <2>4 DEF Process, InUse, Types
  <2>6. ~Process(e)
    BY <2>1 DEF Process, InUse
  <2>7. /\ pg' \in [Slots -> 0..(NPROC + 1)] /\ pg'[e] = pg[m] /\ \A q \in Slots \ {e} : pg'[q] = pg[q]
        /\ master'[e] = m /\ \A q \in Slots \ {e} : master'[q] = master[q]
    BY <1>0, <2>1, <2>2, <2>4 DEF Tables, Types
  <2> HIDE DEF Process
  <2>8. \A q \in Slots : master'[q] # 0 => pg'[q] = pg'[master'[q]]
    <3>1. ASSUME NEW q \in Slots, q # e, master[q] # 0 PROVE pg'[q] = pg'[master'[q]]
      <4>1. master[q] \in Slots \ {e} /\ master'[q] = master[q]
        BY <1>0, <2>3, <2>7, <3>1 DEF Types
      <4>2. QED
        BY <1>0, <2>7, <3>1, <4>1 DEF Tables
    <3>2. QED
      BY <2>2, <2>7, <3>1
  <2>9. QED
    BY <1>0, <2>4, <2>5, <2>6, <2>7, <2>8 DEF Tables
<1>4. CASE Wait(p)
  <2> DEFINE dead == {q \in {r \in Slots : parent[r] = p} : state[q] = "ZOMBIE"}
             d == Min(dead)
  <2>1. CASE dead # {} /\ FreeSlot(d) /\ livePg' = livePg \ {pg[d]}
    <3>1. d \in Slots /\ state[d] = "ZOMBIE" /\ parent[d] = p
      BY <2>1, FirstSlot
    <3>2. master[d] = 0 /\ \A q \in Slots : master[q] # d
      BY <1>0, <3>1 DEF Masters, Live, Slots
    <3>3. /\ state' = [state EXCEPT ![d] = "UNUSED"] /\ livePg' = livePg \ {pg[d]}
          /\ pg' = pg /\ master' = master
      BY <1>4, <2>1 DEF Wait, FreeSlot
    <3> HIDE DEF d
    <3>4. Process(d) /\ \A q \in Slots : Process(q)' <=> Process(q) /\ q # d
      BY <1>0, <3>1, <3>2, <3>3 DEF Process, InUse, Types
    <3> HIDE DEF Process
    <3>5. \A h \in livePg' : \E q \in Slots : Process(q)' /\ pg'[q] = h
      BY <1>0, <3>3, <3>4 DEF Tables
    <3>6. QED
      BY <1>0, <3>1, <3>3, <3>4, <3>5 DEF Tables
  <2>2. CASE (UNCHANGED state \/ Asleep(p, p, "wait")) /\ UNCHANGED livePg
    <3>1. state[p] = "RUNNING"
      BY <1>0, <1>4, RunningState DEF Wait, Enters, At
    <3>2. Steady
      BY <1>0, <1>4, <2>2, <3>1 DEF Wait, Asleep, Steady, Process, InUse, Types
    <3>3. QED
      BY <1>1, <3>2
  <2>3. QED
    BY <1>4, <2>1, <2>2 DEF Wait
<1>5. CASE ExecLoad(p)
  <2> DEFINE g == FreshPg
  <2>1. /\ state[p] = "RUNNING" /\ master[p] = 0 /\ \A q \in Slots : master[q] # p
        /\ loc[p] = 0
    <3>1. state[p] = "RUNNING" /\ pc[p] = "load" /\ loc[p] = 0
      BY <1>0, <1>5, RunningState DEF ExecLoad, At, Books
    <3>2. QED
      BY <1>0, <3>1 DEF Places, Masters, Loners, Slots
  <2>2. g \in 1..(NPROC + 1) /\ g \notin livePg
    BY <1>0, FreshTable
  <2>3. Process(p) /\ \A q \in Slots : Process(q)' <=> Process(q)
    BY <1>5, <2>1 DEF ExecLoad, Process, InUse
  <2>4. CASE UNCHANGED <<pg, livePg>>
    <3>1. Steady
      BY <1>5, <2>3, <2>4 DEF ExecLoad, Steady
    <3>2. QED
      BY <1>1, <3>1
  <2>5. CASE pg' = [pg EXCEPT ![p] = g] /\ livePg' = (livePg \cup {g}) \ {pg[p]}
    <3> HIDE DEF g, Process
    <3>1. pg' \in [Slots -> 0..(NPROC + 1)] /\ pg'[p] = g /\ \A q \in Slots \ {p} : pg'[q] = pg[q]
      BY <1>0, <2>2, <2>5, ThreadsAssumption DEF Tables
    <3>2. pg[p] \in livePg /\ pg[p] # g
      BY <1>0, <2>2, <2>3 DEF Tables
    <3>3. \A q \in Slots \ {p} : Process(q) => pg[q] # pg[p] /\ pg[q] # g /\ pg[q] \in livePg
      BY <1>0, <2>2, <2>3 DEF Tables
    <3>4. \A h \in livePg' : \E q \in Slots : Process(q)' /\ pg'[q] = h
      <4>1. ASSUME NEW h \in livePg, h # pg[p] PROVE \E q \in Slots : Process(q)' /\ pg'[q] = h
        <5>1. PICK q \in Slots : Process(q) /\ pg[q] = h
          BY <1>0 DEF Tables
        <5>2. QED
          BY <2>3, <3>1, <4>1, <5>1
      <4>2. QED
        BY <2>3, <2>5, <3>1, <4>1
    <3>5. \A q \in Slots : master'[q] # 0 => pg'[q] = pg'[master'[q]]
      <4>1. master' = master
        BY <1>5 DEF ExecLoad
      <4>2. ASSUME NEW q \in Slots, master[q] # 0 PROVE pg'[q] = pg'[master[q]]
        <5>1. q # p /\ master[q] \in Slots \ {p}
          BY <1>0, <2>1, <4>2 DEF Types
        <5>2. QED
          BY <1>0, <3>1, <4>2, <5>1 DEF Tables
      <4>3. QED
        BY <4>1, <4>2
    <3>6. livePg' \subseteq 1..(NPROC + 1)
      BY <1>0, <2>2, <2>5 DEF Tables
    <3>7. \A q \in Slots : Process(q)' => pg'[q] \in livePg'
      BY <2>3, <2>5, <3>1, <3>2, <3>3
    <3>8. \A q, r \in Slots : Process(q)' /\ Process(r)' /\ pg'[q] = pg'[r] => q = r
      BY <1>0, <2>3, <3>1, <3>3 DEF Tables
    <3>9. QED
      BY <3>1, <3>4, <3>5, <3>6, <3>7, <3>8 DEF Tables
  <2>6. QED
    BY <1>5, <2>1, <2>4, <2>5 DEF ExecLoad
<1>6. QED
  BY <1>0, <1>1, <1>2, <1>3, <1>4, <1>5, SteadyStep DEF Call, NoMemory

LEMMA InvKept ==
  ASSUME TablesInv, Orderly, MemNext \/ UNCHANGED memVars
  PROVE  TablesInv'
<1>0. Core /\ Types /\ Books /\ Tables /\ mix' = mix
  BY MixKept DEF TablesInv, Core
<1>1. Core'
  BY <1>0, CoreStep
<1>2. Types'
  BY <1>1 DEF Core
<1>3. ASSUME NEW p \in Slots, Call(p) \/ NoMemory(p) PROVE TablesInv'
  BY <1>0, <1>1, <1>2, <1>3, BooksStep, TablesStep DEF TablesInv
<1>4. ASSUME UNCHANGED <<pid, tid, parent, master, pg, livePg, pc, np, loc>>,
             \A q \in Slots : state'[q] = state[q] \/ {state[q], state'[q]} \subseteq Live
      PROVE  TablesInv'
  <2>1. Books'
    BY <1>0, <1>4 DEF Books, Frugal
  <2>2. \A q \in Slots : Process(q)' <=> Process(q)
    BY <1>4 DEF Process, InUse, Live
  <2>3. Steady
    BY <1>4, <2>2 DEF Steady
  <2>4. QED
    BY <1>0, <1>1, <1>2, <2>1, <2>3, TablesFrame DEF TablesInv
<1>5. ASSUME NEW c \in CPUs, Preempt(c) \/ \E p \in Slots : Schedule(c, p) PROVE TablesInv'
  <2>1. \A q \in Slots : state'[q] = state[q] \/ {state[q], state'[q]} \subseteq Live
    BY <1>0, <1>5 DEF Preempt, Schedule, Types, Live
  <2>2. UNCHANGED <<pid, tid, parent, master, pg, livePg, pc, np, loc>>
    BY <1>5 DEF Preempt, Schedule
  <2>3. QED
    BY <1>4, <2>1, <2>2
<1>6. CASE IoWakeup
  <2>1. \A q \in Slots : state'[q] = state[q] \/ {state[q], state'[q]} \subseteq Live
    BY <1>0, <1>6 DEF IoWakeup, Awaken, Live
  <2>2. UNCHANGED <<pid, tid, parent, master, pg, livePg, pc, np, loc>>
    BY <1>6 DEF IoWakeup
  <2>3. QED
    BY <1>4, <2>1, <2>2
<1>7. CASE UNCHANGED memVars
  BY <1>4, <1>7 DEF memVars, vars, slot
<1>8. QED
  BY <1>3, <1>5, <1>6, <1>7 DEF MemNext

LEMMA InvInit ==
  MemInit => TablesInv
<1> SUFFICES ASSUME MemInit PROVE TablesInv
  OBVIOUS
<1>1. initproc \in Slots
  BY ThreadsAssumption DEF initproc, Slots
<1>2. Books
  BY DEF MemInit, Init, Books, Creating
<1>3. \A q \in Slots : Process(q) <=> q = initproc
  BY DEF MemInit, Init, Process, InUse
<1>4. Tables
  BY <1>1, <1>3, ThreadsAssumption DEF MemInit, Init, Tables
<1>5. QED
  BY <1>2, <1>4, CoreInit DEF TablesInv

LEMMA TablesHold == MemSpec => [](Orderly => TablesInv)
<1>1. MemInit => (Orderly => TablesInv)
  BY InvInit
<1>2. (Orderly => TablesInv) /\ [MemNext]_memVars => (Orderly => TablesInv)'
  BY InvKept, MixKept DEF Orderly
<1>3. QED
  BY <1>1, <1>2, PTL DEF MemSpec

LEMMA Alive == TablesInv => \A p \in Slots : InUse(p) => pg[p] \in livePg
<1> SUFFICES ASSUME TablesInv, NEW p \in Slots, InUse(p) PROVE pg[p] \in livePg
  OBVIOUS
<1>1. CASE master[p] = 0
  BY <1>1 DEF TablesInv, Tables, Process
<1>2. CASE master[p] # 0
  <2>1. master[p] \in Slots /\ Process(master[p]) /\ pg[p] = pg[master[p]]
    BY <1>2 DEF TablesInv, Tables, Core, Shape, Masters, Types, Live, Process, InUse
  <2>2. QED
    BY <2>1 DEF TablesInv, Tables
<1>3. QED
  BY <1>1, <1>2

(* freevm() frees no page table under a slot in use: neither wait() nor     *)
(* exec() (proc.c:530, exec.c:119) meets one that a thread shares, whatever  *)
(* the interleaving, when only processes without threads call exec().       *)
THEOREM PageTableAliveHolds == MemSpec => []PageTableAlive
<1>1. (Orderly => TablesInv) => PageTableAlive
  BY Alive DEF PageTableAlive
<1>2. QED
  BY <1>1, TablesHold, PTL

-----------------------------------------------------------------------------
(* The memory of each family. *)

LEMMA FamilyKept ==
  ASSUME NEW m \in Slots, Family(m), pg'[m] = pg[m],
         Process(m)' =>
           /\ Process(m)
           /\ mapped'[pg[m]] = mapped[pg[m]] /\ sz'[m] = sz[m]
           /\ pc'[m] \notin Closing => pc[m] \notin Closing /\ empty_mem'[m] = empty_mem[m]
           /\ \A t \in Slots : master'[t] = m =>
                master[t] = m /\ vir_add'[t] = vir_add[t] /\ sz'[t] = sz[t]
  PROVE  Family(m)'
<1> SUFFICES ASSUME Process(m)'
             PROVE  Stacks(m)' /\ (pc'[m] \notin Closing => Spare(m)')
  BY DEF Family
<1>1. Stacks(m) /\ (pc[m] \notin Closing => Spare(m))
  BY DEF Family
<1>2. mapped'[pg'[m]] = mapped[pg[m]] /\ sz'[m] = sz[m]
  OBVIOUS
<1>3. Stacks(m)'
  BY <1>1, <1>2 DEF Stacks
<1>4. ASSUME pc'[m] \notin Closing PROVE Spare(m)'
  BY <1>1, <1>2, <1>4 DEF Spare
<1>5. QED
  BY <1>3, <1>4

(* Where a slot can be after a step. *)
LEMMA PlaceStep ==
  ASSUME Core, Orderly, NEW p \in Slots, Call(p) \/ NoMemory(p), NEW q \in Slots
  PROVE  /\ pc'[q] = "fork" => (pc[q] = "fork" /\ np'[q] = np[q]) \/ (q = p /\ Fork(p))
         /\ pc'[q] \in {"kill", "load"} => pc[q] \in {"kill", "load"} \/ (q = p /\ Exec(p))
         /\ Process(q) /\ pc'[q] \notin Closing => pc[q] \notin Closing
<1> USE DEF Closing
<1>0. Types /\ Embryos /\ Places
  BY DEF Core, Shape
<1>1. ASSUME pc'[q] = pc[q], np'[q] = np[q]
      PROVE  /\ pc'[q] = "fork" => (pc[q] = "fork" /\ np'[q] = np[q]) \/ (q = p /\ Fork(p))
             /\ pc'[q] \in {"kill", "load"} => pc[q] \in {"kill", "load"} \/ (q = p /\ Exec(p))
             /\ Process(q) /\ pc'[q] \notin Closing => pc[q] \notin Closing
  BY <1>1
<1>2. CASE q = p
  <2>1. CASE Fork(p) \/ ThreadCreate(p)
    BY <1>0, <1>2, <2>1 DEF Fork, ThreadCreate, Enters, AllocProc, Types
  <2>2. CASE ForkDone(p) \/ ThreadInit(p) \/ ForkFail(p) \/ ThreadGo(p)
    BY <1>0, <1>2, <2>2 DEF ForkDone, ThreadInit, ForkFail, ThreadGo, At, Return, Types
  <2>3. CASE ReapThreads(p)
    BY <1>0, <1>2, <2>3 DEF ReapThreads, Types
  <2>4. ASSUME NEW t \in 1..MaxPid, ThreadJoin(p, t)
        PROVE  pc[p] \in {"user", "join"} /\ pc'[p] \in {"user", "join"}
    BY <1>0, <2>4 DEF ThreadJoin, Enters, Return, Asleep, Types
  <2>5. CASE Wait(p)
    BY <1>0, <1>2, <2>5 DEF Wait, Enters, At, Return, Asleep, Types
  <2>6. CASE Exec(p) \/ ExecLoad(p) \/ ExecNoFile(p) \/ InitPanic(p) \/ ThreadKill(p) \/ ThreadWakeup(p)
    BY <1>0, <1>2, <2>6
    DEF Exec, ExecLoad, ExecNoFile, InitPanic, ThreadKill, ThreadWakeup, Enters, At, Return, Types
  <2>7. ASSUME NEW n \in {1, -1}, Sbrk(p, n) \/ SbrkAgain(p, n)
        PROVE  pc[p] \in {"user", "grow", "shrink"} /\ pc'[p] \in {"user", "grow", "shrink"}
    BY <1>0, <2>7 DEF Sbrk, SbrkAgain, Enters, At, Growing, Return, Types
  <2>8. CASE ThreadExit(p) \/ ThreadExitDone(p) \/ ExitThread(p) \/ ExitDone(p)
    BY <1>0, <1>2, <2>8 DEF ThreadExit, ThreadExitDone, ExitThread, ExitDone, Enters, At, Types
  <2>9. ASSUME NEW k \in 0..MaxPid, Kill(p, k) PROVE pc' = pc /\ np' = np
    BY <2>9 DEF Kill
  <2>10. CASE IoSleep(p) \/ IoReturn(p)
    BY <1>0, <1>2, <2>10 DEF IoSleep, IoReturn, Enters, At, Asleep, Return, Types
  <2>11. QED
    BY <1>1, <1>2, <2>1, <2>2, <2>3, <2>4, <2>5, <2>6, <2>7, <2>8, <2>9, <2>10 DEF Call, NoMemory
<1>3. CASE q # p
  <2>1. CASE ForkDone(p) \/ ThreadGo(p)
    <3>1. np[p] \in Slots /\ state[np[p]] = "EMBRYO" /\ pc' = [pc EXCEPT ![np[p]] = "user", ![p] = "user"]
          /\ np'[q] = np[q]
      BY <1>0, <1>3, <2>1 DEF ForkDone, ThreadGo, At, Embryos, Creating, Types
    <3>2. CASE q = np[p]
      BY <1>0, <1>3, <3>1, <3>2 DEF Types, Process, InUse
    <3>3. CASE q # np[p]
      BY <1>0, <1>1, <1>3, <3>1, <3>3 DEF Types
    <3>4. QED
      BY <3>2, <3>3
  <2>2. ASSUME NEW place, NEW e, pc' = [pc EXCEPT ![p] = place], np' = [np EXCEPT ![p] = e]
        PROVE  pc'[q] = pc[q] /\ np'[q] = np[q]
    BY <1>0, <1>3, <2>2 DEF Types
  <2>3. ASSUME NEW place, pc' = [pc EXCEPT ![p] = place], np' = np
        PROVE  pc'[q] = pc[q] /\ np'[q] = np[q]
    BY <1>0, <1>3, <2>3 DEF Types
  <2>4. CASE Fork(p) \/ ThreadCreate(p) \/ ForkFail(p)
    BY <1>1, <2>2, <2>4 DEF Fork, ThreadCreate, AllocProc, ForkFail, Return
  <2>5. CASE \/ ThreadInit(p) \/ ReapThreads(p) \/ (\E t \in 1..MaxPid : ThreadJoin(p, t)) \/ Wait(p)
             \/ Exec(p) \/ ExecLoad(p) \/ ExecNoFile(p) \/ InitPanic(p) \/ ThreadKill(p) \/ ThreadWakeup(p)
    <3>1. np' = np
      BY <2>5 DEF ThreadInit, ReapThreads, ThreadJoin, Wait, Exec, ExecLoad, ExecNoFile, InitPanic, ThreadKill,
         ThreadWakeup
    <3>2. \E place : pc' = [pc EXCEPT ![p] = place]
      BY <2>5, Zenon DEF ThreadInit, ReapThreads, ThreadJoin, Wait, Exec, ExecLoad, ExecNoFile, InitPanic,
         ThreadKill, ThreadWakeup, Return, Asleep
    <3>3. QED
      BY <1>1, <2>3, <3>1, <3>2
  <2>6. CASE \/ (\E n \in {1, -1} : Sbrk(p, n) \/ SbrkAgain(p, n))
             \/ (\E k \in 0..MaxPid : Kill(p, k))
             \/ ThreadExit(p) \/ ThreadExitDone(p) \/ ExitThread(p) \/ ExitDone(p)
             \/ IoSleep(p) \/ IoReturn(p)
    <3>1. np' = np
      BY <2>6 DEF Sbrk, SbrkAgain, Kill, ThreadExit, ThreadExitDone, ExitThread, ExitDone, IoSleep,
         IoReturn
    <3>2. pc'[q] = pc[q]
      BY <1>0, <1>3, <2>6 DEF Sbrk, SbrkAgain, Kill, ThreadExit, ThreadExitDone, ExitThread, ExitDone,
         IoSleep, IoReturn, Return, Asleep, Types
    <3>3. QED
      BY <1>1, <3>1, <3>2
  <2>7. QED
    BY <2>1, <2>4, <2>5, <2>6 DEF Call, NoMemory
<1>4. QED
  BY <1>2, <1>3

LEMMA EmptiedKept ==
  ASSUME Core, Orderly, Emptied, NEW p \in Slots, Call(p) \/ NoMemory(p),
         \A q \in Slots : \/ empty_mem'[q] \in {empty_mem[q], <<>>}
                          \/ state[q] \in Live /\ pc'[q] \notin {"kill", "load"},
         Fork(p) => empty_mem'[np'[p]] = <<>>,
         Exec(p) => empty_mem'[p] = <<>>
  PROVE  Emptied'
<1>1. ASSUME NEW q \in Slots, pc'[q] = "fork" PROVE empty_mem'[np'[q]] = <<>>
  <2>1. CASE pc[q] = "fork" /\ np'[q] = np[q]
    <3>1. np[q] \in Slots /\ state[np[q]] = "EMBRYO" /\ empty_mem[np[q]] = <<>>
      BY <2>1 DEF Core, Shape, Embryos, Creating, Emptied
    <3>2. QED
      BY <2>1, <3>1 DEF Live
  <2>2. QED
    BY <1>1, <2>1, PlaceStep
<1>2. ASSUME NEW q \in Slots, pc'[q] \in {"kill", "load"} PROVE empty_mem'[q] = <<>>
  <2>1. CASE pc[q] \in {"kill", "load"}
    BY <1>2, <2>1 DEF Emptied
  <2>2. QED
    BY <1>2, <2>1, PlaceStep
<1>3. QED
  BY <1>1, <1>2 DEF Emptied

(* The families whose memory a step leaves alone.                           *)
LEMMA OthersKept ==
  ASSUME MemoryInv, Orderly, NEW p \in Slots, Call(p) \/ NoMemory(p), NEW m \in Slots,
         Process(m)' => Process(m) /\ pg'[m] = pg[m],
         Process(m)' =>
           /\ mapped'[pg[m]] = mapped[pg[m]] /\ sz'[m] = sz[m]
           /\ empty_mem'[m] = empty_mem[m] \/ pc'[m] \in Closing
           /\ \A t \in Slots : master'[t] = m =>
                master[t] = m /\ vir_add'[t] = vir_add[t] /\ sz'[t] = sz[t]
  PROVE  Family(m)'
<1>1. Family(m) /\ Core
  BY DEF MemoryInv, Memory, TablesInv
<1>2. CASE Process(m)'
  BY <1>1, <1>2, FamilyKept, PlaceStep
<1>3. CASE ~Process(m)'
  BY <1>3 DEF Family
<1>4. QED
  BY <1>2, <1>3

(* Steps that do not touch memory at all. *)
LEMMA IdleStep ==
  ASSUME MemoryInv, Orderly, Frugal, NEW p \in Slots, Call(p) \/ NoMemory(p), Steady,
         UNCHANGED mem, Fork(p) => FALSE, Exec(p) => empty_mem[p] = <<>>
  PROVE  Memory'
<1>1. UNCHANGED <<sz, vir_add, empty_mem, mapped>>
  BY DEF mem
<1>2. MemTypes' /\ Emptied'
  BY <1>1, EmptiedKept DEF MemoryInv, Memory, TablesInv, MemTypes
<1>3. ASSUME NEW m \in Slots PROVE Family(m)'
  <2>1. \A t \in Slots : master'[t] = m => master[t] = m
    BY DEF Steady, Slots
  <2>2. pg'[m] = pg[m] /\ (Process(m)' => Process(m))
    BY DEF Steady
  <2>3. QED
    BY <1>1, <2>1, <2>2, OthersKept
<1>4. QED
  BY <1>2, <1>3 DEF Memory

(* A slot that gets ready for its new owner. *)
LEMMA ClearStep ==
  ASSUME MemoryInv, Orderly, NEW p \in Slots, Call(p), Fork(p) \/ ThreadCreate(p),
         ClearStacks(np'[p])
  PROVE  Memory'
<1> DEFINE e == Min({q \in 1..mix.slots : state[q] = "UNUSED"})
<1>0. Core /\ Types /\ Memory /\ MemTypes /\ Books
  BY DEF MemoryInv, TablesInv, Core, Memory
<1>1. e \in Slots /\ state[e] = "UNUSED"
  BY <1>0, FirstUnused DEF Fork, ThreadCreate
<1>2. /\ state' = [state EXCEPT ![e] = "EMBRYO"] /\ np'[p] = e
      /\ pc'[p] \in {"fork", "tnew"}
  BY <1>0 DEF Fork, ThreadCreate, AllocProc, Types
<1> HIDE DEF e
<1>3. Steady
  BY <1>0, SteadyStep
<1>4. /\ empty_mem' = [empty_mem EXCEPT ![e] = <<>>]
      /\ UNCHANGED <<sz, vir_add, mapped>>
  BY <1>2 DEF ClearStacks
<1>5. \A q \in Slots : empty_mem'[q] = IF q = e THEN <<>> ELSE empty_mem[q]
  BY <1>0, <1>4 DEF MemTypes
<1>6. MemTypes'
  BY <1>0, <1>4 DEF MemTypes
<1>7. Emptied'
  <2>1. ~Exec(p)
    BY <1>0, <1>2 DEF Exec, Types
  <2>2. empty_mem'[np'[p]] = <<>> /\ \A q \in Slots : empty_mem'[q] \in {empty_mem[q], <<>>}
    BY <1>1, <1>2, <1>5
  <2>3. Emptied
    BY <1>0 DEF Memory
  <2>4. QED
    BY <1>0, <2>1, <2>2, <2>3, EmptiedKept
<1>8. ASSUME NEW m \in Slots PROVE Family(m)'
  <2>1. (Process(m)' => Process(m)) /\ pg'[m] = pg[m] /\ \A t \in Slots : master'[t] = m => master[t] = m
    BY <1>3 DEF Steady, Slots
  <2>2. Process(m)' => m # e
    BY <1>0, <1>1, <1>2 DEF Process, InUse, Types
  <2>3. QED
    BY <1>4, <1>5, <2>1, <2>2, OthersKept
<1>9. QED
  BY <1>6, <1>7, <1>8 DEF Memory

(* fork() gives the child a copy of what its parent has below its size.     *)
LEMMA CopyStep ==
  ASSUME MemoryInv, Orderly, Frugal, NEW p \in Slots, Call(p), ForkDone(p), CopyUvm(p)
  PROVE  Memory'
<1>0. Core /\ Types /\ Memory /\ MemTypes /\ Books /\ Tables /\ Masters
  BY DEF MemoryInv, TablesInv, Core, Memory, Shape
<1>1. PICK e \in Slots : /\ e = np[p] /\ state[e] = "EMBRYO" /\ master[e] = 0 /\ pc[p] = "fork"
                         /\ master[p] = 0
  BY <1>0 DEF ForkDone, At, Core, Shape, Embryos, Creating, Books
<1>2. PICK g \in 1..(NPROC + 1) : g = FreshPg /\ g \notin livePg
  BY <1>0, FreshTable
<1>3. \A q \in Slots : master[q] # e
  BY <1>0, <1>1 DEF Masters, Live, Slots
<1>4. /\ pg' = [pg EXCEPT ![e] = g] /\ master' = master
      /\ state' = [state EXCEPT ![e] = "RUNNABLE"]
  BY <1>1, <1>2 DEF ForkDone
<1>5. /\ sz' = [sz EXCEPT ![e] = sz[p]] /\ UNCHANGED <<vir_add, empty_mem>>
      /\ mapped' = [mapped EXCEPT ![g] = mapped[pg[p]] \cap 0..(sz[p] - 1)]
  <2>1. pg'[e] = g
    BY <1>0, <1>1, <1>4 DEF Tables
  <2>2. QED
    BY <1>1, <2>1 DEF CopyUvm, MasterOf
<1>6. empty_mem[e] = <<>>
  BY <1>0, <1>1 DEF Memory, Emptied
<1>7. /\ sz'[e] = sz[p] /\ \A q \in Slots \ {e} : sz'[q] = sz[q] /\ pg'[q] = pg[q]
      /\ pg'[e] = g /\ mapped'[g] = mapped[pg[p]] \cap 0..(sz[p] - 1)
      /\ \A h \in (1..(NPROC + 1)) \ {g} : mapped'[h] = mapped[h]
  BY <1>0, <1>1, <1>2, <1>4, <1>5 DEF MemTypes, Tables
<1>8. MemTypes'
  BY <1>0, <1>5 DEF MemTypes
<1>9. Emptied'
  <2>1. ~Fork(p) /\ ~Exec(p)
    BY <1>1 DEF Fork, Enters, Exec
  <2>2. Emptied
    BY <1>0 DEF Memory
  <2>3. QED
    BY <1>0, <1>5, <2>1, <2>2, EmptiedKept
<1>10. Family(e)'
  <2>1. \A t \in Slots : master'[t] # e
    BY <1>3, <1>4
  <2>2. Stacks(e)'
    BY <1>7, <2>1 DEF Stacks
  <2>3. Spare(e)'
    BY <1>5, <1>6 DEF Spare
  <2>4. QED
    BY <2>2, <2>3 DEF Family
<1>11. ASSUME NEW m \in Slots, m # e PROVE Family(m)'
  <2>1. Process(m)' => Process(m)
    BY <1>0, <1>4, <1>11 DEF Process, InUse, Types
  <2>2. Process(m) => pg[m] \in 1..(NPROC + 1) /\ pg[m] # g
    BY <1>0, <1>2 DEF Tables
  <2>3. \A t \in Slots : master'[t] = m => t # e
    BY <1>1, <1>4 DEF Slots
  <2>4. QED
    BY <1>4, <1>5, <1>7, <1>11, <2>1, <2>2, <2>3, OthersKept
<1>12. QED
  BY <1>8, <1>9, <1>10, <1>11 DEF Memory

LEMMA FrontOf ==
  ASSUME NEW s \in Seq(Nat), s # <<>>
  PROVE  /\ Front(s) \in Seq(Nat) /\ Len(Front(s)) = Len(s) - 1
         /\ \A i \in 1..Len(Front(s)) : i \in 1..(Len(s) - 1) /\ Front(s)[i] = s[i]
         /\ Len(s) \in Nat \ {0} /\ Last(s) = s[Len(s)]
<1>1. Len(s) \in Nat \ {0}
  OBVIOUS
<1>2. SubSeq(s, 1, Len(s) - 1) = [i \in 1..(Len(s) - 1) |-> s[i]]
  BY <1>1
<1>3. Front(s) = [i \in 1..(Len(s) - 1) |-> s[i]]
  BY <1>2 DEF Front
<1>5. Len(s) - 1 \in Nat /\ \A i \in 1..(Len(s) - 1) : s[i] \in Nat
  BY <1>1
<1>6. Front(s) \in Seq(Nat) /\ Len(Front(s)) = Len(s) - 1
  BY <1>3, <1>5
<1>4. QED
  BY <1>1, <1>3, <1>6 DEF Last

(* The family of a slot that runs. *)
LEMMA RunnerFamily ==
  ASSUME MemoryInv, NEW p \in Slots, Running(p)
  PROVE  /\ MasterOf(p) \in Slots /\ Process(MasterOf(p))
         /\ pg[p] = pg[MasterOf(p)] /\ pg[p] \in 1..(NPROC + 1)
<1>0. Core /\ Types /\ Masters /\ Tables
  BY DEF MemoryInv, TablesInv, Core, Shape
<1>1. state[p] = "RUNNING"
  BY <1>0, RunningState
<1>2. CASE master[p] = 0
  BY <1>0, <1>1, <1>2 DEF MasterOf, Process, InUse, Tables
<1>3. CASE master[p] # 0
  <2>1. MasterOf(p) = master[p] /\ master[p] \in Slots /\ Process(master[p])
    BY <1>0, <1>3 DEF MasterOf, Masters, Types, Live, Process, InUse
  <2>2. QED
    BY <1>0, <1>3, <2>1 DEF Tables
<1>4. QED
  BY <1>2, <1>3

(* thread_create() takes the last address on the list, or new pages at the   *)
(* end of the memory.                                                       *)
LEMMA TakeStep ==
  ASSUME MemoryInv, Orderly, Frugal, NEW p \in Slots, Call(p), ThreadInit(p), TakeStack(p)
  PROVE  Memory'
<1>0. Core /\ Types /\ Memory /\ MemTypes /\ Books /\ Tables /\ Masters /\ mix.oom = FALSE
  BY ThreadsAssumption DEF MemoryInv, TablesInv, Core, Memory, Shape, Frugal, Types
<1>1. /\ Running(p) /\ pc[p] = "tnew" /\ master[p] = 0 /\ MasterOf(p) = p
      /\ pc' = [pc EXCEPT ![p] = "tgo"]
  BY <1>0 DEF ThreadInit, At, Books, Creating, MasterOf
<1>2. PICK e \in Slots : e = np[p] /\ state[e] = "EMBRYO" /\ e # p
  <2>1. state[p] = "RUNNING"
    BY <1>0, <1>1, RunningState
  <2>2. QED
    BY <1>0, <1>1, <2>1 DEF Core, Shape, Embryos, Creating
<1>3. PICK g \in 1..(NPROC + 1) : g = pg[p]
  BY <1>1, RunnerFamily
<1>4. PICK a : a = StackFor(p)
  OBVIOUS
<1>5. /\ pg' = [pg EXCEPT ![e] = g] /\ master' = [master EXCEPT ![e] = p]
      /\ state' = state
  BY <1>1, <1>2, <1>3 DEF ThreadInit
<1>7. Process(p) /\ Stacks(p) /\ Spare(p)
  <2>1. Process(p)
    BY <1>1, RunnerFamily
  <2>2. QED
    BY <1>0, <1>1, <2>1 DEF Memory, Family, Closing
<1>8. /\ a \in Nat
      /\ empty_mem[p] = <<>> => a = sz[p]
      /\ empty_mem[p] # <<>> =>
           /\ Len(empty_mem[p]) \in Nat \ {0} /\ a = empty_mem[p][Len(empty_mem[p])]
           /\ Stack(a) \subseteq 0..(sz[p] - 1)
  <2>1. CASE empty_mem[p] = <<>>
    BY <1>0, <1>4, <2>1 DEF StackFor, MemTypes
  <2>2. CASE empty_mem[p] # <<>>
    <3>1. PICK l \in Seq(Nat) : l = empty_mem[p] /\ l # <<>>
      BY <1>7, <2>2 DEF Spare
    <3>2. Last(l) = l[Len(l)] /\ Len(l) \in Nat \ {0}
      BY <3>1, FrontOf
    <3>3. l[Len(l)] \in Nat /\ Len(l) \in 1..Len(l)
      BY <3>1, <3>2
    <3>4. QED
      BY <1>4, <1>7, <2>2, <3>1, <3>2, <3>3 DEF StackFor, Spare
  <2>3. QED
    BY <2>1, <2>2
<1>6. /\ mapped[g] \cap Stack(a) = {}
      /\ vir_add' = [vir_add EXCEPT ![e] = a]
      /\ empty_mem' = [empty_mem EXCEPT ![p] = IF @ = <<>> THEN @ ELSE Front(@)]
      /\ mapped' = [mapped EXCEPT ![g] = @ \cup Stack(a)]
      /\ sz' = [sz EXCEPT ![p] = IF empty_mem[p] = <<>> THEN @ + StackPages ELSE @,
                          ![e] = a + StackPages]
  <2>1. /\ mapped[g] \cap Stack(a) = {}
        /\ vir_add' = [vir_add EXCEPT ![e] = a]
        /\ empty_mem' = [empty_mem EXCEPT ![p] = IF @ = <<>> THEN @ ELSE Front(@)]
    BY <1>1, <1>2, <1>3, <1>4 DEF TakeStack
  <2>2. PICK ok \in BOOLEAN :
          /\ ok \/ mix.oom
          /\ mapped' = allocuvm(g, a, a + StackPages, ok)
          /\ sz' = [sz EXCEPT ![p] = IF empty_mem[p] = <<>> THEN @ + StackPages ELSE @,
                              ![e] = IF ok THEN a + StackPages ELSE 0]
    BY <1>1, <1>2, <1>3, <1>4 DEF TakeStack
  <2>3. ok = TRUE
    BY <1>0, <2>2
  <2>4. mapped' = [mapped EXCEPT ![g] = @ \cup Stack(a)]
    <3>1. mapped' = allocuvm(g, a, a + StackPages, TRUE)
      BY <2>2, <2>3
    <3>2. QED
      BY <1>8, <3>1 DEF allocuvm, Stack, StackPages
  <2>5. QED
    BY <2>1, <2>2, <2>3, <2>4
<1>9. /\ sz'[e] = a + StackPages /\ vir_add'[e] = a /\ mapped'[g] = mapped[g] \cup Stack(a)
      /\ sz'[p] = IF empty_mem[p] = <<>> THEN sz[p] + StackPages ELSE sz[p]
      /\ empty_mem'[p] = IF empty_mem[p] = <<>> THEN <<>> ELSE Front(empty_mem[p])
      /\ \A q \in Slots \ {e} : vir_add'[q] = vir_add[q] /\ pg'[q] = pg[q] /\ master'[q] = master[q]
      /\ \A q \in Slots \ {p, e} : sz'[q] = sz[q]
      /\ \A q \in Slots \ {p} : empty_mem'[q] = empty_mem[q]
      /\ \A h \in (1..(NPROC + 1)) \ {g} : mapped'[h] = mapped[h]
      /\ master'[e] = p
  BY <1>0, <1>2, <1>5, <1>6 DEF MemTypes, Tables, Types
<1>10. MemTypes'
  <2>1. sz' \in [Slots -> Nat]
    <3>1. a + StackPages \in Nat /\ sz[p] + StackPages \in Nat
      BY <1>0, <1>8 DEF MemTypes, StackPages
    <3>2. QED
      BY <1>0, <1>6, <3>1 DEF MemTypes
  <2>2. QED
    BY <1>0, <1>6, <1>8, <2>1 DEF MemTypes
<1>11. Emptied'
  <2>1. state[p] \in Live /\ pc'[p] = "tgo"
    BY <1>0, <1>1, RunningState DEF Live, Types
  <2>2. Emptied /\ ~Fork(p) /\ ~Exec(p)
    BY <1>0, <1>1 DEF Memory, Fork, Exec, Enters
  <2>3. \A q \in Slots : \/ empty_mem'[q] \in {empty_mem[q], <<>>}
                         \/ state[q] \in Live /\ pc'[q] \notin {"kill", "load"}
    BY <1>9, <2>1
  <2>4. QED
    BY <1>0, <2>2, <2>3, EmptiedKept
<1>12. Family(p)'
  <2>1. \A t \in Slots \ {e} : master[t] = p => Stack(vir_add[t]) \cap Stack(a) = {} /\ t # p
    BY <1>1, <1>3, <1>6, <1>7 DEF Stacks, Slots
  <2>2. Stacks(p)'
    <3>1. mapped'[pg'[p]] \subseteq 0..(sz'[p] - 1)
      <4>1. sz[p] \in Nat /\ mapped[g] \subseteq 0..(sz[p] - 1)
        BY <1>0, <1>3, <1>7 DEF MemTypes, Stacks
      <4>2. CASE empty_mem[p] = <<>>
        BY <1>2, <1>3, <1>8, <1>9, <4>1, <4>2 DEF Stack, StackPages
      <4>3. CASE empty_mem[p] # <<>>
        BY <1>2, <1>3, <1>8, <1>9, <4>1, <4>3
      <4>4. QED
        BY <4>2, <4>3
    <3>2. ASSUME NEW t \in Slots, master'[t] = p
          PROVE  Stack(vir_add'[t]) \subseteq mapped'[pg'[p]] /\ sz'[t] = vir_add'[t] + StackPages
      <4>1. CASE t = e
        BY <1>2, <1>3, <1>9, <4>1
      <4>2. CASE t # e
        BY <1>2, <1>3, <1>7, <1>9, <2>1, <3>2, <4>2 DEF Stacks
      <4>3. QED
        BY <4>1, <4>2
    <3>3. ASSUME NEW t \in Slots, NEW u \in Slots, master'[t] = p, master'[u] = p, t # u
          PROVE  Stack(vir_add'[t]) \cap Stack(vir_add'[u]) = {}
      <4>1. CASE t # e /\ u # e
        BY <1>7, <1>9, <3>3, <4>1 DEF Stacks
      <4>2. CASE t = e
        BY <1>9, <2>1, <3>3, <4>2
      <4>3. CASE u = e
        BY <1>9, <2>1, <3>3, <4>3
      <4>4. QED
        BY <4>1, <4>2, <4>3
    <3>4. QED
      BY <3>1, <3>2, <3>3 DEF Stacks, Stack
  <2>3. Spare(p)'
    <3>1. CASE empty_mem[p] = <<>>
      BY <1>9, <3>1 DEF Spare
    <3>2. CASE empty_mem[p] # <<>>
      <4> PICK l \in Seq(Nat) : l = empty_mem[p] /\ l # <<>>
        BY <1>7, <3>2 DEF Spare
      <4> PICK f : f = Front(l)
        OBVIOUS
      <4>1. /\ f \in Seq(Nat) /\ Len(f) = Len(l) - 1 /\ Len(l) \in Nat \ {0}
            /\ \A i \in 1..Len(f) : i \in 1..Len(l) /\ i # Len(l) /\ f[i] = l[i]
        <5>1. /\ f \in Seq(Nat) /\ Len(f) = Len(l) - 1 /\ Len(l) \in Nat \ {0}
              /\ \A i \in 1..Len(f) : i \in 1..(Len(l) - 1) /\ f[i] = l[i]
          BY FrontOf
        <5>2. QED
          BY <5>1
      <4>2. empty_mem'[p] = f /\ a = l[Len(l)] /\ Len(l) \in 1..Len(l) /\ sz'[p] = sz[p] /\ pg'[p] = g
        BY <1>2, <1>3, <1>8, <1>9, <3>2
      <4>3. /\ \A i \in 1..Len(l) :
                 Stack(l[i]) \subseteq 0..(sz[p] - 1) /\ Stack(l[i]) \cap mapped[g] = {}
            /\ \A i, j \in 1..Len(l) : i # j => Stack(l[i]) \cap Stack(l[j]) = {}
        BY <1>3, <1>7 DEF Spare
      <4>4. \A i \in 1..Len(f) :
              Stack(f[i]) \subseteq 0..(sz'[p] - 1) /\ Stack(f[i]) \cap mapped'[g] = {}
        <5> SUFFICES ASSUME NEW i \in 1..Len(f)
                     PROVE  /\ Stack(f[i]) \subseteq 0..(sz'[p] - 1)
                            /\ Stack(f[i]) \cap mapped'[g] = {}
          OBVIOUS
        <5>1. i \in 1..Len(l) /\ i # Len(l) /\ f[i] = l[i]
          BY <4>1
        <5>2. /\ Stack(l[i]) \subseteq 0..(sz[p] - 1) /\ Stack(l[i]) \cap mapped[g] = {}
              /\ Stack(l[i]) \cap Stack(a) = {}
          BY <4>2, <4>3, <5>1
        <5>3. QED
          BY <1>9, <4>2, <5>1, <5>2
      <4>5. \A i, j \in 1..Len(f) : i # j => Stack(f[i]) \cap Stack(f[j]) = {}
        BY <4>1, <4>3
      <4>6. QED
        BY <4>1, <4>2, <4>4, <4>5 DEF Spare, Stack
    <3>3. QED
      BY <3>1, <3>2
  <2>4. QED
    BY <2>2, <2>3 DEF Family
<1>13. ASSUME NEW m \in Slots, m # p PROVE Family(m)'
  <2>1. Process(m)' => Process(m) /\ m # e
    BY <1>2, <1>5, <1>9 DEF Process, InUse
  <2>2. Process(m) => pg[m] \in 1..(NPROC + 1) /\ pg[m] # g
    BY <1>0, <1>3, <1>7, <1>13 DEF Tables
  <2>3. \A t \in Slots : master'[t] = m => t \notin {e, p} /\ master[t] = m
    BY <1>1, <1>2, <1>9, <1>13 DEF Slots
  <2>4. QED
    BY <1>9, <1>13, <2>1, <2>2, <2>3, OthersKept
<1>14. QED
  BY <1>10, <1>11, <1>12, <1>13 DEF Memory

(* thread_join() puts the address of a dead thread on its master's list and  *)
(* unmaps the stack, be the master the caller's own or not.                 *)
LEMMA LeaveStep ==
  ASSUME MemoryInv, Orderly, Frugal, NEW p \in Slots, Call(p), NEW t \in 1..MaxPid,
         ThreadJoin(p, t), LeaveStack(t)
  PROVE  Memory'
<1> DEFINE dead == {q \in Slots : tid[q] = t /\ state[q] = "ZOMBIE"}
<1>0. Core /\ Types /\ Memory /\ MemTypes /\ Books /\ Tables /\ Masters
  BY DEF MemoryInv, TablesInv, Core, Memory, Shape
<1>1. Steady
  BY <1>0, SteadyStep
<1>2. Running(p) /\ state[p] = "RUNNING" /\ pc'[p] \in {"user", "join"}
  BY <1>0, RunningState DEF ThreadJoin, Enters, Return, Asleep, Types
<1>3. ~Fork(p) /\ ~Exec(p)
  BY <1>0, <1>2 DEF Fork, AllocProc, Exec, Types
<1>4. /\ \A q \in Slots : /\ sz'[q] = IF state'[q] = "UNUSED" THEN 0 ELSE sz[q]
                          /\ vir_add'[q] = IF state'[q] = "UNUSED" THEN 0 ELSE vir_add[q]
      /\ sz' \in [Slots -> Nat] /\ vir_add' \in [Slots -> Nat]
  BY <1>0 DEF LeaveStack, Kept, MemTypes
<1>5. CASE dead = {}
  <2>1. UNCHANGED <<empty_mem, mapped>>
    BY <1>5 DEF LeaveStack
  <2>2. MemTypes' /\ Emptied'
    BY <1>0, <1>3, <1>4, <2>1, EmptiedKept DEF Memory, MemTypes
  <2>3. ASSUME NEW m \in Slots PROVE Family(m)'
    <3>1. Process(m)' => state'[m] # "UNUSED"
      BY DEF Process, InUse
    <3>2. \A q \in Slots : master'[q] = m => state'[q] # "UNUSED" /\ master[q] = m
      <4>1. UNCHANGED master /\ \A q \in Slots : state'[q] = state[q] \/ state'[q] = "SLEEPING"
        BY <1>0, <1>5 DEF ThreadJoin, Asleep, Types
      <4>2. QED
        BY <1>0, <4>1 DEF Masters, Slots
    <3>3. (Process(m)' => Process(m)) /\ pg'[m] = pg[m]
      BY <1>1 DEF Steady
    <3>4. QED
      BY <1>4, <2>1, <3>1, <3>2, <3>3, OthersKept
  <2>4. QED
    BY <2>2, <2>3 DEF Memory
<1>6. CASE dead # {}
  <2>1. PICK d \in Slots : d = Min(dead) /\ state[d] = "ZOMBIE" /\ tid[d] = t
    BY <1>6, FirstSlot
  <2>2. PICK m \in Slots : m = master[d] /\ state[m] \in Live /\ master[m] = 0 /\ pc[m] \notin Loners
    <3>1. master[d] # 0
      BY <1>0, <2>1 DEF Masters
    <3>2. master[d] \in Slots
      BY <1>0, <3>1 DEF Types
    <3>3. QED
      BY <1>0, <3>1, <3>2 DEF Masters
  <2>3. PICK g \in 1..(NPROC + 1) : g = pg[d] /\ g = pg[m]
    <3>1. master[d] # 0 /\ Process(m)
      BY <2>2 DEF Process, InUse, Live, Slots
    <3>2. QED
      BY <1>0, <2>2, <3>1 DEF Tables
  <2>4. m # d /\ Process(m) /\ Stacks(m) /\ (pc[m] \notin Closing => Spare(m))
    BY <1>0, <2>1, <2>2 DEF Process, InUse, Live, Memory, Family
  <2>5. PICK a \in Nat : a = vir_add[d] /\ sz[d] = a + StackPages /\ Stack(a) \subseteq mapped[g]
    BY <1>0, <2>2, <2>3, <2>4 DEF Stacks, MemTypes
  <2>6. /\ FreeSlot(d) /\ master' = [master EXCEPT ![d] = 0]
        /\ empty_mem' = [empty_mem EXCEPT ![m] = Append(@, a)]
        /\ mapped' = deallocuvm(g, sz[d], a)
    BY <1>6, <2>1, <2>2, <2>3, <2>5 DEF ThreadJoin, LeaveStack
  <2>7. mapped' = [mapped EXCEPT ![g] = @ \ Stack(a)]
    <3>1. Stack(a) = a..(sz[d] - 1)
      BY <2>5 DEF Stack, StackPages
    <3>2. QED
      BY <2>6, <3>1 DEF deallocuvm
  <2>8. /\ empty_mem'[m] = Append(empty_mem[m], a) /\ mapped'[g] = mapped[g] \ Stack(a)
        /\ \A q \in Slots \ {m} : empty_mem'[q] = empty_mem[q]
        /\ \A h \in (1..(NPROC + 1)) \ {g} : mapped'[h] = mapped[h]
        /\ state'[d] = "UNUSED" /\ \A q \in Slots \ {d} : state'[q] = state[q]
        /\ master'[d] = 0 /\ \A q \in Slots \ {d} : master'[q] = master[q]
    BY <1>0, <2>6, <2>7 DEF MemTypes, FreeSlot, Types
  <2>9. MemTypes'
    BY <1>0, <1>4, <2>6, <2>7 DEF MemTypes
  <2>10. Emptied'
    <3>1. pc'[m] \notin {"kill", "load"}
      BY <1>0, <1>3, <2>2, PlaceStep DEF Loners
    <3>2. Emptied
      BY <1>0 DEF Memory
    <3>3. QED
      BY <1>0, <1>3, <2>2, <2>8, <3>1, <3>2, EmptiedKept
  <2>11. \A q \in Slots : master'[q] # 0 =>
           /\ q # d /\ master[q] = master'[q] /\ state'[q] # "UNUSED"
           /\ vir_add'[q] = vir_add[q] /\ sz'[q] = sz[q]
    BY <1>0, <1>4, <2>8 DEF Masters
  <2>12. pg'[m] = g /\ sz'[m] = sz[m]
    BY <1>1, <1>4, <2>2, <2>3, <2>4, <2>8 DEF Steady, Live
  <2>13. Family(m)'
    <3>1. Stacks(m)'
      <4>1. mapped'[pg'[m]] \subseteq 0..(sz'[m] - 1)
        BY <2>3, <2>4, <2>8, <2>12 DEF Stacks
      <4>2. ASSUME NEW q \in Slots, master'[q] = m
            PROVE  /\ Stack(vir_add'[q]) \subseteq mapped'[pg'[m]]
                   /\ sz'[q] = vir_add'[q] + StackPages
        <5>1. /\ q # d /\ master[q] = m /\ vir_add'[q] = vir_add[q] /\ sz'[q] = sz[q]
          BY <2>11, <4>2 DEF Slots
        <5>2. /\ Stack(vir_add[q]) \subseteq mapped[g] /\ sz[q] = vir_add[q] + StackPages
              /\ Stack(vir_add[q]) \cap Stack(a) = {}
          BY <2>2, <2>3, <2>4, <2>5, <5>1 DEF Stacks
        <5>3. QED
          BY <2>8, <2>12, <5>1, <5>2
      <4>3. ASSUME NEW q \in Slots, NEW u \in Slots, master'[q] = m, master'[u] = m, q # u
            PROVE  Stack(vir_add'[q]) \cap Stack(vir_add'[u]) = {}
        <5>1. /\ master[q] = m /\ vir_add'[q] = vir_add[q]
              /\ master[u] = m /\ vir_add'[u] = vir_add[u]
          BY <2>11, <4>3 DEF Slots
        <5>2. QED
          BY <2>4, <4>3, <5>1 DEF Stacks
      <4>4. QED
        BY <4>1, <4>2, <4>3 DEF Stacks, Stack
    <3>2. ASSUME pc'[m] \notin Closing PROVE Spare(m)'
      <4>1. Spare(m)
        BY <1>0, <2>4, <3>2, PlaceStep
      <4> PICK l \in Seq(Nat) : l = empty_mem[m]
        BY <4>1 DEF Spare
      <4> PICK f : f = Append(l, a)
        OBVIOUS
      <4>2. /\ f \in Seq(Nat) /\ Len(f) = Len(l) + 1 /\ f[Len(l) + 1] = a /\ Len(l) \in Nat
            /\ \A i \in 1..Len(f) : i = Len(l) + 1 \/ (i \in 1..Len(l) /\ f[i] = l[i])
        OBVIOUS
      <4>3. /\ \A i \in 1..Len(l) :
                 Stack(l[i]) \subseteq 0..(sz[m] - 1) /\ Stack(l[i]) \cap mapped[g] = {}
            /\ \A i, j \in 1..Len(l) : i # j => Stack(l[i]) \cap Stack(l[j]) = {}
        BY <2>3, <4>1 DEF Spare
      <4>4. Stack(a) \subseteq mapped[g] /\ mapped[g] \subseteq 0..(sz[m] - 1)
        BY <2>3, <2>4, <2>5 DEF Stacks
      <4>5. ASSUME NEW i \in 1..Len(f)
            PROVE  Stack(f[i]) \subseteq 0..(sz[m] - 1) /\ Stack(f[i]) \cap mapped'[g] = {}
        <5>1. CASE i = Len(l) + 1
          BY <2>8, <4>2, <4>4, <5>1
        <5>2. CASE i \in 1..Len(l) /\ f[i] = l[i]
          <6>1. Stack(l[i]) \subseteq 0..(sz[m] - 1) /\ Stack(l[i]) \cap mapped[g] = {}
            BY <4>3, <5>2
          <6>2. QED
            BY <2>8, <5>2, <6>1
        <5>3. QED
          BY <4>2, <5>1, <5>2
      <4>6. ASSUME NEW i \in 1..Len(f), NEW j \in 1..Len(f), i # j
            PROVE  Stack(f[i]) \cap Stack(f[j]) = {}
        <5>1. ASSUME NEW k \in 1..Len(l), f[k] = l[k] PROVE Stack(f[k]) \cap Stack(a) = {}
          <6>1. Stack(l[k]) \cap mapped[g] = {}
            BY <4>3
          <6>2. QED
            BY <4>4, <5>1, <6>1
        <5>2. CASE i = Len(l) + 1 /\ j \in 1..Len(l) /\ f[j] = l[j]
          BY <4>2, <5>1, <5>2
        <5>3. CASE j = Len(l) + 1 /\ i \in 1..Len(l) /\ f[i] = l[i]
          BY <4>2, <5>1, <5>3
        <5>4. CASE i \in 1..Len(l) /\ f[i] = l[i] /\ j \in 1..Len(l) /\ f[j] = l[j]
          BY <4>3, <4>6, <5>4
        <5>5. QED
          <6>1. /\ i = Len(l) + 1 \/ (i \in 1..Len(l) /\ f[i] = l[i])
                /\ j = Len(l) + 1 \/ (j \in 1..Len(l) /\ f[j] = l[j])
            BY <4>2
          <6>2. QED
            BY <4>6, <5>2, <5>3, <5>4, <6>1
      <4>7. empty_mem'[m] = f /\ sz'[m] = sz[m] /\ pg'[m] = g
        BY <2>8, <2>12
      <4>8. QED
        BY <4>2, <4>5, <4>6, <4>7 DEF Spare, Stack
    <3>3. QED
      BY <3>1, <3>2 DEF Family
  <2>14. ASSUME NEW n \in Slots, n # m PROVE Family(n)'
    <3>1. (Process(n)' => Process(n) /\ state'[n] # "UNUSED") /\ pg'[n] = pg[n]
      BY <1>1 DEF Steady, Process, InUse
    <3>2. Process(n) => pg[n] \in 1..(NPROC + 1) /\ pg[n] # g
      BY <1>0, <2>3, <2>4, <2>14 DEF Tables
    <3>3. Process(n)' => mapped'[pg[n]] = mapped[pg[n]]
      BY <2>8, <3>1, <3>2
    <3>4. empty_mem'[n] = empty_mem[n]
      BY <2>8, <2>14
    <3>5. Process(n)' => sz'[n] = sz[n]
      BY <1>4, <2>8, <2>14, <3>1
    <3>6. \A t2 \in Slots : master'[t2] = n =>
            master[t2] = n /\ vir_add'[t2] = vir_add[t2] /\ sz'[t2] = sz[t2]
      BY <2>11 DEF Slots
    <3>7. QED
      BY <3>1, <3>3, <3>4, <3>5, <3>6, OthersKept
  <2>15. QED
    BY <2>9, <2>10, <2>13, <2>14 DEF Memory
<1>7. QED
  BY <1>5, <1>6

(* exit() puts the addresses of its dead threads on a list that nobody will  *)
(* read again.                                                              *)
LEMMA ReapStep ==
  ASSUME MemoryInv, Orderly, NEW p \in Slots, Call(p), ReapThreads(p), LeaveAllStacks(p)
  PROVE  Memory'
<1>0. Core /\ Types /\ Memory /\ MemTypes /\ Books /\ Masters
  BY DEF MemoryInv, TablesInv, Core, Memory, Shape
<1>1. Steady
  BY <1>0, SteadyStep
<1>2. state[p] = "RUNNING" /\ pc'[p] \in {"reap", "exit"}
  BY <1>0, RunningState DEF ReapThreads, Types
<1>3. ~Fork(p) /\ ~Exec(p)
  BY <1>0, <1>2 DEF Fork, AllocProc, Exec, Types
<1>4. \E l : empty_mem' = [empty_mem EXCEPT ![p] = @ \o l]
  BY Zenon DEF LeaveAllStacks
<1>5. /\ \A q \in Slots : /\ sz'[q] = IF state'[q] = "UNUSED" THEN 0 ELSE sz[q]
                          /\ vir_add'[q] = IF state'[q] = "UNUSED" THEN 0 ELSE vir_add[q]
      /\ sz' \in [Slots -> Nat] /\ vir_add' \in [Slots -> Nat] /\ mapped' = mapped
  BY <1>0 DEF LeaveAllStacks, Kept, MemTypes
<1>6. \A q \in Slots \ {p} : empty_mem'[q] = empty_mem[q]
  BY <1>0, <1>4 DEF MemTypes
<1>7. MemTypes'
  BY <1>0, <1>4, <1>5 DEF MemTypes
<1>8. Emptied'
  <2>1. Emptied /\ state[p] \in Live /\ pc'[p] \notin {"kill", "load"}
    BY <1>0, <1>2 DEF Memory, Live
  <2>2. QED
    BY <1>0, <1>3, <1>6, <2>1, EmptiedKept
<1>9. ASSUME NEW m \in Slots PROVE Family(m)'
  <2>1. /\ Process(m)' => Process(m) /\ state'[m] # "UNUSED"
        /\ pg'[m] = pg[m]
    BY <1>1 DEF Steady, Process, InUse
  <2>2. ASSUME NEW t \in Slots, master'[t] = m
        PROVE  master[t] = m /\ state'[t] # "UNUSED"
    <3>1. master[t] = m
      BY <1>1, <2>2 DEF Steady, Slots
    <3>2. ~(master[t] = p /\ state[t] = "ZOMBIE")
      BY <2>2 DEF ReapThreads, Slots
    <3>3. state[t] # "UNUSED"
      BY <1>0, <3>1 DEF Masters, Slots
    <3>4. state'[t] # "UNUSED"
      <4> DEFINE woken == [q \in Slots |->
                             IF q \in {r \in Slots : master[r] = p /\ state[r] = "ZOMBIE"} THEN "UNUSED"
                             ELSE IF q \in LiveThreads(p) /\ state[q] = "SLEEPING" /\ chan[q] = q
                                  THEN "RUNNABLE" ELSE state[q]]
      <4>1. state' = woken \/ state' = [woken EXCEPT ![p] = "SLEEPING"]
        BY Zenon DEF ReapThreads
      <4>2. woken[t] # "UNUSED"
        BY <3>2, <3>3
      <4>3. QED
        BY <4>1, <4>2
    <3>5. QED
      BY <3>1, <3>4
  <2>3. \A t \in Slots : master'[t] = m =>
          master[t] = m /\ vir_add'[t] = vir_add[t] /\ sz'[t] = sz[t]
    BY <1>5, <2>2
  <2>4. empty_mem'[m] = empty_mem[m] \/ pc'[m] \in Closing
    BY <1>2, <1>6 DEF Closing
  <2>5. QED
    BY <1>5, <2>1, <2>3, <2>4, OthersKept
<1>10. QED
  BY <1>7, <1>8, <1>9 DEF Memory

(* wait() frees a page table that nobody uses any more. *)
LEMMA FreeStep ==
  ASSUME MemoryInv, TablesInv', Orderly, NEW p \in Slots, Call(p), Wait(p), FreeVm
  PROVE  Memory'
<1>0. Core /\ Types /\ Memory /\ MemTypes /\ Books /\ Masters /\ Places /\ Tables
  BY DEF MemoryInv, TablesInv, Core, Memory, Shape
<1>1. Running(p) /\ state[p] = "RUNNING" /\ pc'[p] \in {"user", "wait"}
  BY <1>0, RunningState DEF Wait, Enters, At, Return, Asleep, Types
<1>2. ~Fork(p) /\ ~Exec(p)
  BY <1>0, <1>1 DEF Fork, AllocProc, Exec, Types
<1>3. /\ \A q \in Slots : /\ sz'[q] = IF state'[q] = "UNUSED" THEN 0 ELSE sz[q]
                          /\ vir_add'[q] = IF state'[q] = "UNUSED" THEN 0 ELSE vir_add[q]
                          /\ empty_mem'[q] = IF state'[q] = "UNUSED" THEN <<>> ELSE empty_mem[q]
      /\ sz' \in [Slots -> Nat] /\ vir_add' \in [Slots -> Nat]
      /\ empty_mem' = [q \in Slots |-> empty_mem'[q]]
  BY <1>0 DEF FreeVm, Kept, MemTypes
<1>4. /\ mapped' = [g \in 1..(NPROC + 1) |-> Present(g)]
  BY <1>0 DEF FreeVm, MemTypes
<1>5. MemTypes'
  BY <1>3, <1>4 DEF MemTypes
<1>6. Emptied'
  <2>1. Emptied
    BY <1>0 DEF Memory
  <2>2. QED
    BY <1>0, <1>2, <1>3, <2>1, EmptiedKept
<1>7. master' = master /\ pg' = pg
  BY DEF Wait
<1>8. \A q \in Slots : state'[q] # "UNUSED" =>
        (state'[q] \in Unborn <=> state[q] \in Unborn)
  <2> DEFINE dead == {q \in {r \in Slots : parent[r] = p} : state[q] = "ZOMBIE"}
             d == Min(dead)
  <2>1. CASE dead # {} /\ FreeSlot(d)
    <3>1. d \in Slots /\ state[d] = "ZOMBIE"
      BY <2>1, FirstSlot
    <3>2. QED
      BY <1>0, <2>1, <3>1 DEF FreeSlot, Types
  <2>2. CASE UNCHANGED state \/ Asleep(p, p, "wait")
    BY <1>0, <1>1, <2>2 DEF Asleep, Types, Unborn
  <2>3. QED
    BY <2>1, <2>2 DEF Wait
<1>9. \A q \in Slots : master'[q] # 0 => master[q] = master'[q] /\ state'[q] # "UNUSED"
  BY <1>7 DEF TablesInv, Core, Shape, Masters
<1>10. ASSUME NEW m \in Slots PROVE Family(m)'
  <2>1. Process(m)' => Process(m) /\ state'[m] # "UNUSED"
    BY <1>7, <1>8 DEF Process, InUse, Unborn
  <2>2. Process(m)' => pg[m] \in livePg' /\ pg[m] \in 1..(NPROC + 1)
    BY <1>7 DEF TablesInv, Tables
  <2>3. Process(m)' => mapped'[pg[m]] = mapped[pg[m]]
    BY <1>4, <2>2 DEF Present
  <2>4. \A t \in Slots : master'[t] = m =>
          master[t] = m /\ vir_add'[t] = vir_add[t] /\ sz'[t] = sz[t]
    BY <1>3, <1>9 DEF Slots
  <2>5. QED
    BY <1>3, <1>7, <2>1, <2>3, <2>4, OthersKept
<1>11. QED
  BY <1>5, <1>6, <1>10 DEF Memory

(* exec() in a process without threads: a new image, or the old one.        *)
LEMMA ImageStep ==
  ASSUME MemoryInv, TablesInv', Orderly, NEW p \in Slots, Call(p), ExecLoad(p), NewImage(p)
  PROVE  Memory'
<1>0. Core /\ Types /\ Memory /\ MemTypes /\ Books /\ Masters /\ Places /\ Tables
  BY DEF MemoryInv, TablesInv, Core, Memory, Shape
<1>1. /\ state[p] = "RUNNING" /\ pc[p] = "load" /\ pc'[p] = "wake"
      /\ master[p] = 0 /\ \A q \in Slots : master[q] # p
      /\ Process(p) /\ empty_mem[p] = <<>>
  <2>1. Running(p) /\ pc[p] = "load" /\ pc'[p] = "wake"
    BY <1>0 DEF ExecLoad, At, Types
  <2>2. state[p] = "RUNNING" /\ master[p] = 0 /\ \A q \in Slots : master[q] # p
    BY <1>0, <2>1, RunningState DEF Places, Masters, Loners, Slots
  <2>3. QED
    BY <1>0, <2>1, <2>2 DEF Process, InUse, Memory, Emptied
<1>2. UNCHANGED <<state, master, vir_add, empty_mem>>
  BY DEF ExecLoad, NewImage
<1>3. \A q \in Slots : Process(q)' <=> Process(q)
  BY <1>2 DEF Process, InUse
<1>4. \A q \in Slots \ {p} : pg'[q] = pg[q]
  BY <1>0 DEF ExecLoad, Tables
<1>5. \A q \in Slots : Process(q) => pg'[q] \in livePg' /\ pg'[q] \in 1..(NPROC + 1)
  BY <1>3 DEF TablesInv, Tables
<1>6. \A q \in Slots \ {p} : Process(q) => pg'[q] # pg'[p]
  BY <1>1, <1>3 DEF TablesInv, Tables
<1>7. /\ sz' = [sz EXCEPT ![p] = IF pg'[p] # pg[p] THEN ImagePages ELSE @]
      /\ mapped' = [g \in 1..(NPROC + 1) |->
                      IF pg'[p] # pg[p] /\ g = pg'[p] THEN 0..(ImagePages - 1) ELSE Present(g)]
  BY <1>0 DEF NewImage, MemTypes
<1>8. MemTypes'
  <2>1. ImagePages \in Nat
    BY DEF ImagePages
  <2>2. QED
    BY <1>0, <1>2, <1>7, <2>1 DEF MemTypes
<1>9. Emptied'
  <2>1. Emptied /\ ~Fork(p) /\ ~Exec(p)
    BY <1>0, <1>1 DEF Memory, Fork, AllocProc, Exec, Types
  <2>2. QED
    BY <1>0, <1>2, <2>1, EmptiedKept
<1>10. Family(p)'
  <2>1. Spare(p)'
    <3>1. empty_mem'[p] = <<>>
      BY <1>1, <1>2
    <3>2. <<>> \in Seq(Nat) /\ Len(<<>>) = 0
      OBVIOUS
    <3>3. QED
      BY <3>1, <3>2 DEF Spare
  <2>2. mapped'[pg'[p]] \subseteq 0..(sz'[p] - 1)
    <3>1. CASE pg'[p] # pg[p]
      BY <1>0, <1>1, <1>5, <1>7, <3>1 DEF MemTypes
    <3>2. CASE pg'[p] = pg[p]
      <4>1. mapped'[pg'[p]] = mapped[pg[p]] /\ sz'[p] = sz[p]
        BY <1>0, <1>1, <1>5, <1>7, <3>2 DEF Present, MemTypes
      <4>2. QED
        BY <1>0, <1>1, <4>1 DEF Memory, Family, Stacks
    <3>3. QED
      BY <3>1, <3>2
  <2>3. Stacks(p)'
    BY <1>1, <1>2, <2>2 DEF Stacks
  <2>4. QED
    BY <2>1, <2>3 DEF Family
<1>11. ASSUME NEW m \in Slots, m # p PROVE Family(m)'
  <2>1. sz'[m] = sz[m] /\ (Process(m) => mapped'[pg[m]] = mapped[pg[m]])
    BY <1>0, <1>4, <1>5, <1>6, <1>7, <1>11 DEF Present, MemTypes
  <2>2. \A t \in Slots : master'[t] = m =>
          master[t] = m /\ vir_add'[t] = vir_add[t] /\ sz'[t] = sz[t]
    BY <1>0, <1>1, <1>2, <1>7, <1>11 DEF MemTypes, Slots
  <2>3. QED
    BY <1>2, <1>3, <1>4, <1>11, <2>1, <2>2, OthersKept
<1>12. QED
  BY <1>8, <1>9, <1>10, <1>11 DEF Memory

(* sbrk(): the memory grows at its end, for the whole family. *)
LEMMA GrowStep ==
  ASSUME MemoryInv, Orderly, Frugal, NEW p \in Slots, Call(p),
         NEW n \in {1, -1}, Sbrk(p, n) \/ SbrkAgain(p, n)
  PROVE  Memory'
<1>0. Core /\ Types /\ Memory /\ MemTypes /\ Books /\ Tables /\ mix.oom = FALSE
  BY ThreadsAssumption DEF MemoryInv, TablesInv, Core, Memory, Frugal, Types
<1>1. Steady
  BY <1>0, SteadyStep
<1>2. n = 1
  <2>1. pc[p] # "shrink" /\ "shrink" \notin mix.calls
    BY <1>0 DEF Books, Frugal
  <2>2. QED
    BY <2>1 DEF Sbrk, SbrkAgain, At, Growing
<1>3. Running(p) /\ ~Fork(p) /\ ~Exec(p)
  <2>1. Running(p)
    BY DEF Sbrk, SbrkAgain, Enters, At
  <2>2. pc'[p] \in {"user", "grow"}
    BY <1>0, <1>2 DEF Sbrk, SbrkAgain, Enters, Return, Growing, Types
  <2>3. QED
    BY <1>0, <2>1, <2>2 DEF Fork, AllocProc, Exec, Types
<1>4. PICK m \in Slots : m = MasterOf(p) /\ Process(m) /\ pg[p] = pg[m]
  BY <1>3, RunnerFamily
<1>5. PICK g \in 1..(NPROC + 1) : g = pg[p]
  BY <1>3, RunnerFamily
<1>6. PICK s \in Nat : s = sz[m]
  BY <1>0 DEF MemTypes
<1>7. /\ sz' = [sz EXCEPT ![m] = s + 1]
      /\ mapped' = [mapped EXCEPT ![g] = @ \cup {s}]
      /\ UNCHANGED <<vir_add, empty_mem>>
  <2>1. PICK ok \in BOOLEAN : growproc(p, 1, ok)
    BY <1>2 DEF Sbrk, SbrkAgain
  <2>2. ok = TRUE
    BY <1>0, <2>1 DEF growproc
  <2>3. growproc(p, 1, TRUE)
    BY <2>1, <2>2
  <2>4. s..(s + 1 - 1) = {s}
    BY <1>6
  <2>5. /\ sz' = [sz EXCEPT ![m] = s + 1] /\ UNCHANGED <<vir_add, empty_mem>>
        /\ mapped' = allocuvm(g, s, s + 1, TRUE)
    BY <1>4, <1>5, <1>6, <2>3 DEF growproc
  <2>6. QED
    BY <2>4, <2>5 DEF allocuvm
<1>8. /\ sz'[m] = s + 1 /\ mapped'[g] = mapped[g] \cup {s}
      /\ \A q \in Slots \ {m} : sz'[q] = sz[q]
      /\ \A h \in (1..(NPROC + 1)) \ {g} : mapped'[h] = mapped[h]
  BY <1>0, <1>7 DEF MemTypes
<1>9. MemTypes'
  <2>1. sz' \in [Slots -> Nat]
    <3>1. s + 1 \in Nat
      BY <1>6
    <3>2. QED
      BY <1>0, <1>7, <3>1 DEF MemTypes
  <2>2. mapped' = [h \in 1..(NPROC + 1) |-> mapped'[h]]
    BY <1>0, <1>7 DEF MemTypes
  <2>3. QED
    BY <1>0, <1>7, <2>1, <2>2 DEF MemTypes
<1>10. Emptied'
  <2>1. Emptied
    BY <1>0 DEF Memory
  <2>2. QED
    BY <1>0, <1>3, <1>7, <2>1, EmptiedKept
<1>11. pg' = pg /\ \A q \in Slots : master'[q] # 0 => master[q] = master'[q]
  BY <1>1 DEF Steady
<1>12. Family(m)'
  <2>1. Stacks(m) /\ (pc[m] \notin Closing => Spare(m)) /\ pg'[m] = g /\ pg[m] = g
    BY <1>0, <1>4, <1>5, <1>11 DEF Memory, Family
  <2>2. master[m] = 0
    BY <1>4 DEF Process
  <2>3. Stacks(m)'
    <3>1. mapped'[g] \subseteq 0..(sz'[m] - 1)
      <4>1. mapped[g] \subseteq 0..(s - 1)
        BY <1>6, <2>1 DEF Stacks
      <4>2. QED
        BY <1>8, <4>1
    <3>2. \A t \in Slots : master'[t] = m =>
            /\ master[t] = m /\ sz'[t] = sz[t] /\ vir_add'[t] = vir_add[t]
      BY <1>7, <1>8, <1>11, <2>2 DEF Slots
    <3>3. ASSUME NEW t \in Slots, master'[t] = m
          PROVE  Stack(vir_add'[t]) \subseteq mapped'[g] /\ sz'[t] = vir_add'[t] + StackPages
      BY <1>8, <2>1, <3>2, <3>3 DEF Stacks
    <3>4. ASSUME NEW t \in Slots, NEW u \in Slots, master'[t] = m, master'[u] = m, t # u
          PROVE  Stack(vir_add'[t]) \cap Stack(vir_add'[u]) = {}
      BY <2>1, <3>2, <3>4 DEF Stacks
    <3>5. QED
      BY <2>1, <3>1, <3>3, <3>4 DEF Stacks, Stack
  <2>4. ASSUME pc'[m] \notin Closing PROVE Spare(m)'
    <3>1. Spare(m)
      BY <1>0, <1>4, <2>1, <2>4, PlaceStep
    <3> PICK l \in Seq(Nat) : l = empty_mem[m]
      BY <3>1 DEF Spare
    <3>2. /\ \A i \in 1..Len(l) :
               Stack(l[i]) \subseteq 0..(s - 1) /\ Stack(l[i]) \cap mapped[g] = {}
          /\ \A i, j \in 1..Len(l) : i # j => Stack(l[i]) \cap Stack(l[j]) = {}
      BY <1>6, <2>1, <3>1 DEF Spare
    <3>3. s \notin 0..(s - 1) /\ 0..(s - 1) \subseteq 0..(s + 1 - 1)
      BY <1>6
    <3>4. \A i \in 1..Len(l) :
            Stack(l[i]) \subseteq 0..(sz'[m] - 1) /\ Stack(l[i]) \cap mapped'[g] = {}
      <4> SUFFICES ASSUME NEW i \in 1..Len(l)
                   PROVE  /\ Stack(l[i]) \subseteq 0..(sz'[m] - 1)
                          /\ Stack(l[i]) \cap mapped'[g] = {}
        OBVIOUS
      <4>1. Stack(l[i]) \subseteq 0..(s - 1) /\ Stack(l[i]) \cap mapped[g] = {}
        BY <3>2
      <4>2. s \notin Stack(l[i])
        BY <3>3, <4>1
      <4>3. Stack(l[i]) \cap mapped'[g] = {}
        BY <1>8, <4>1, <4>2
      <4>4. QED
        BY <1>8, <3>3, <4>1, <4>3
    <3>5. QED
      BY <1>7, <2>1, <3>2, <3>4 DEF Spare, Stack
  <2>5. QED
    BY <2>3, <2>4 DEF Family
<1>13. ASSUME NEW k \in Slots, k # m PROVE Family(k)'
  <2>1. Process(k)' => Process(k)
    BY <1>1 DEF Steady
  <2>2. Process(k) => pg[k] \in 1..(NPROC + 1) /\ pg[k] # g
    BY <1>0, <1>4, <1>5, <1>13 DEF Tables
  <2>3. \A t \in Slots : master'[t] = k => master[t] = k /\ t # m
    BY <1>4, <1>11 DEF Process, Slots
  <2>4. QED
    BY <1>7, <1>8, <1>11, <1>13, <2>1, <2>2, <2>3, OthersKept
<1>14. QED
  BY <1>9, <1>10, <1>12, <1>13 DEF Memory

LEMMA MemoryStep ==
  ASSUME MemoryInv, TablesInv', Orderly, Tracked, Frugal, MemNext \/ UNCHANGED memVars
  PROVE  Memory'
<1>0. Core /\ Types /\ Memory /\ Books
  BY DEF MemoryInv, TablesInv, Core
<1>1. ASSUME NEW p \in Slots, Call(p) PROVE Memory'
  <2>1. CASE Fork(p) /\ ClearStacks(np'[p])
    BY <1>1, <2>1, ClearStep
  <2>2. CASE ForkDone(p) /\ CopyUvm(p)
    BY <1>1, <2>2, CopyStep
  <2>3. CASE ThreadCreate(p) /\ ClearStacks(np'[p])
    BY <1>1, <2>3, ClearStep
  <2>4. CASE ThreadInit(p) /\ TakeStack(p)
    BY <1>1, <2>4, TakeStep
  <2>5. CASE ReapThreads(p) /\ LeaveAllStacks(p)
    BY <1>1, <2>5, ReapStep
  <2>6. ASSUME NEW t \in 1..MaxPid, ThreadJoin(p, t) /\ LeaveStack(t) PROVE Memory'
    BY <1>1, <2>6, LeaveStep
  <2>7. CASE Wait(p) /\ FreeVm
    BY <1>1, <2>7, FreeStep
  <2>8. CASE Exec(p) /\ ExecOf(p) /\ UNCHANGED mem
    <3>1. empty_mem[p] = <<>>
      BY <2>8 DEF ExecOf, Frugal
    <3>2. Steady
      BY <1>0, <2>8, SteadyStep
    <3>3. ~Fork(p)
      BY <1>0, <2>8 DEF Fork, AllocProc, Exec, Types
    <3>4. QED
      BY <1>1, <2>8, <3>1, <3>2, <3>3, IdleStep
  <2>9. CASE ExecLoad(p) /\ NewImage(p)
    BY <1>1, <2>9, ImageStep
  <2>10. ASSUME NEW n \in {1, -1}, Sbrk(p, n) \/ SbrkAgain(p, n) PROVE Memory'
    BY <1>1, <2>10, GrowStep
  <2>11. QED
    BY <1>1, <2>1, <2>2, <2>3, <2>4, <2>5, <2>6, <2>7, <2>8, <2>9, <2>10 DEF Call, Follow
<1>2. ASSUME NEW p \in Slots, NoMemory(p) PROVE Memory'
  <2>1. ~Fork(p) /\ ~Exec(p)
    <3>1. pc'[p] \notin {"fork", "kill"} \/ pc' = pc
      <4>1. CASE ThreadGo(p)
        <5>1. np[p] \in Slots
          BY <1>0, <4>1 DEF ThreadGo, At, Core, Shape, Embryos, Creating
        <5>2. QED
          BY <1>0, <4>1, <5>1 DEF ThreadGo, Types
      <4>2. CASE \E k \in 0..MaxPid : Kill(p, k)
        BY <4>2 DEF Kill
      <4>3. CASE \/ ForkFail(p) \/ ThreadExit(p) \/ ThreadExitDone(p) \/ ExitThread(p)
                 \/ ExitDone(p) \/ ThreadKill(p) \/ ExecNoFile(p) \/ InitPanic(p) \/ ThreadWakeup(p)
                 \/ IoSleep(p) \/ IoReturn(p)
        <5>1. \E place \in Stops \ {"fork", "kill"} : pc' = [pc EXCEPT ![p] = place]
          BY <4>3 DEF ForkFail, ThreadExit, ThreadExitDone, ExitThread, ExitDone, ThreadKill,
             ExecNoFile, InitPanic, ThreadWakeup, IoSleep, IoReturn, Return, Asleep, Stops
        <5>2. QED
          BY <1>0, <5>1 DEF Types
      <4>4. QED
        BY <1>2, <4>1, <4>2, <4>3 DEF NoMemory
    <3>2. Fork(p) \/ Exec(p) => pc[p] = "user" /\ pc'[p] \in {"fork", "kill"}
      BY <1>0 DEF Fork, AllocProc, Exec, Enters, Types
    <3>3. QED
      BY <3>1, <3>2
  <2>2. Steady
    BY <1>0, <1>2, SteadyStep DEF NoMemory
  <2>3. UNCHANGED mem
    BY <1>2 DEF NoMemory
  <2>4. QED
    BY <1>2, <2>1, <2>2, <2>3, IdleStep
<1>3. ASSUME UNCHANGED <<tid, master, pg, pc, np, mem>>,
             \A q \in Slots : state'[q] = state[q] \/ {state[q], state'[q]} \subseteq Live
      PROVE  Memory'
  <2>1. UNCHANGED <<sz, vir_add, empty_mem, mapped>>
    BY <1>3 DEF mem
  <2>2. MemTypes' /\ Emptied'
    BY <1>0, <1>3, <2>1 DEF Memory, MemTypes, Emptied
  <2>3. ASSUME NEW m \in Slots PROVE Family(m)'
    <3>1. Process(m)' => Process(m)
      BY <1>3 DEF Process, InUse, Live
    <3>2. Family(m)
      BY <1>0 DEF Memory
    <3>3. QED
      BY <1>3, <2>1, <3>1, <3>2, FamilyKept
  <2>4. QED
    BY <2>2, <2>3 DEF Memory
<1>4. ASSUME NEW c \in CPUs, (Preempt(c) \/ \E p \in Slots : Schedule(c, p)) /\ UNCHANGED mem
      PROVE  Memory'
  <2>1. \A q \in Slots : state'[q] = state[q] \/ {state[q], state'[q]} \subseteq Live
    BY <1>0, <1>4 DEF Preempt, Schedule, Types, Live
  <2>2. UNCHANGED <<tid, master, pg, pc, np>>
    BY <1>4 DEF Preempt, Schedule
  <2>3. QED
    BY <1>3, <1>4, <2>1, <2>2
<1>5. CASE IoWakeup /\ UNCHANGED mem
  <2>1. \A q \in Slots : state'[q] = state[q] \/ {state[q], state'[q]} \subseteq Live
    BY <1>0, <1>5 DEF IoWakeup, Awaken, Live
  <2>2. UNCHANGED <<tid, master, pg, pc, np>>
    BY <1>5 DEF IoWakeup
  <2>3. QED
    BY <1>3, <1>5, <2>1, <2>2
<1>6. CASE UNCHANGED memVars
  BY <1>3, <1>6 DEF memVars, vars, slot
<1>7. QED
  BY <1>1, <1>2, <1>4, <1>5, <1>6 DEF MemNext

LEMMA MemoryInit ==
  MemInit => Memory
<1> SUFFICES ASSUME MemInit PROVE Memory
  OBVIOUS
<1>1. initproc \in Slots /\ 1 \in 1..(NPROC + 1)
  BY ThreadsAssumption DEF initproc, Slots
<1>2. MemTypes /\ Emptied
  BY DEF MemInit, Init, MemTypes, Emptied
<1>3. ASSUME NEW m \in Slots PROVE Family(m)
  <2>1. CASE m = initproc
    <3>1. sz[m] = 1 /\ mapped[pg[m]] = {0} /\ empty_mem[m] = <<>> /\ \A t \in Slots : master[t] # m
      BY <1>1, <2>1 DEF MemInit, Init, Slots
    <3>2. Stacks(m)
      BY <3>1 DEF Stacks
    <3>3. Spare(m)
      BY <3>1 DEF Spare
    <3>4. QED
      BY <3>2, <3>3 DEF Family
  <2>2. CASE m # initproc
    BY <2>2 DEF MemInit, Init, Family, Process, InUse
  <2>3. QED
    BY <2>1, <2>2
<1>4. QED
  BY <1>2, <1>3 DEF Memory

LEMMA MemoryHolds ==
  MemSpec => [](Orderly => TablesInv /\ (Tracked /\ Frugal => Memory))
<1> DEFINE I == Orderly => TablesInv /\ (Tracked /\ Frugal => Memory)
<1>1. MemInit => I
  BY InvInit, MemoryInit
<1>2. I /\ [MemNext]_memVars => I'
  <2> SUFFICES ASSUME I, [MemNext]_memVars, Orderly' PROVE TablesInv' /\ (Tracked' /\ Frugal' => Memory')
    OBVIOUS
  <2>1. mix' = mix
    BY MixKept
  <2>2. Orderly /\ (Tracked' => Tracked) /\ (Frugal' => Frugal)
    BY <2>1 DEF Orderly, Tracked, Frugal
  <2>3. TablesInv'
    BY <2>2, InvKept
  <2>4. ASSUME Tracked, Frugal PROVE Memory'
    BY <2>2, <2>3, <2>4, MemoryStep DEF MemoryInv
  <2>5. QED
    BY <2>2, <2>3, <2>4
<1> HIDE DEF I
<1>3. MemSpec => []I
  BY <1>1, <1>2, PTL DEF MemSpec
<1>4. QED
  BY <1>3 DEF I

(* mappages() never meets a mapped page and no thread loses its stack, in    *)
(* any order of creations, joins, growths, forks, execs and deaths           *)
(* (proc.c:1157-1170, 1265-1275, vm.c:71), for the programs of Frugal.       *)
THEOREM MemoryKeptHolds == MemSpec => []MemoryKept
<1> DEFINE I == Orderly => TablesInv /\ (Tracked /\ Frugal => Memory)
<1>1. I => PageTableAlive
  BY Alive DEF PageTableAlive
<1>2. I => StacksApart /\ NothingRemapped
  <2> SUFFICES ASSUME I, Tracked, Frugal PROVE StacksApart /\ NothingRemapped
    BY DEF StacksApart, NothingRemapped
  <2>0. Orderly
    BY DEF Frugal, Orderly
  <2>1. TablesInv /\ Memory /\ Core /\ Masters /\ Types /\ Tables /\ Books
    BY <2>0 DEF TablesInv, Core, Shape
  <2>2. ASSUME NEW p \in Slots, master[p] # 0
        PROVE  /\ master[p] \in Slots /\ Process(master[p]) /\ Stacks(master[p])
               /\ pg[p] = pg[master[p]]
    <3>1. master[p] \in Slots /\ Process(master[p]) /\ pg[p] = pg[master[p]]
      BY <2>1, <2>2 DEF Masters, Types, Live, Process, InUse, Tables
    <3>2. QED
      BY <2>1, <3>1 DEF Memory, Family
  <2>3. StacksApart
    BY <2>2 DEF StacksApart, Threaded, Stacks
  <2>4. ASSUME NEW p \in Slots, InUse(p)
        PROVE  mapped[pg[p]] \subseteq 0..(sz[MasterOf(p)] - 1)
    <3>1. CASE master[p] = 0
      BY <2>1, <2>4, <3>1 DEF MasterOf, Process, Memory, Family, Stacks
    <3>2. CASE master[p] # 0
      BY <2>2, <3>2 DEF MasterOf, Stacks
    <3>3. QED
      BY <3>1, <3>2
  <2>5. ASSUME NEW p \in Slots, InUse(p), pc[p] = "tnew"
        PROVE  mapped[pg[MasterOf(p)]] \cap Stack(StackFor(MasterOf(p))) = {}
    <3>1. master[p] = 0 /\ MasterOf(p) = p /\ Process(p)
      BY <2>1, <2>5 DEF Books, Creating, MasterOf, Process
    <3>2. Stacks(p) /\ Spare(p) /\ sz[p] \in Nat
      BY <2>1, <2>5, <3>1 DEF Memory, Family, Closing, MemTypes
    <3>3. CASE empty_mem[p] = <<>>
      <4>1. Stack(sz[p]) \cap 0..(sz[p] - 1) = {}
        BY <3>2 DEF Stack, StackPages
      <4>2. mapped[pg[p]] \subseteq 0..(sz[p] - 1)
        BY <3>2 DEF Stacks
      <4>3. QED
        BY <3>1, <3>3, <4>1, <4>2 DEF StackFor
    <3>4. CASE empty_mem[p] # <<>>
      <4>1. PICK l \in Seq(Nat) : l = empty_mem[p] /\ l # <<>>
        BY <3>2, <3>4 DEF Spare
      <4>2. Last(l) = l[Len(l)] /\ Len(l) \in 1..Len(l)
        BY <4>1, FrontOf
      <4>3. Stack(l[Len(l)]) \cap mapped[pg[p]] = {}
        BY <3>2, <4>1, <4>2 DEF Spare
      <4>4. QED
        BY <3>1, <3>4, <4>1, <4>2, <4>3 DEF StackFor
    <3>5. QED
      BY <3>3, <3>4
  <2>6. NothingRemapped
    BY <2>4, <2>5 DEF NothingRemapped
  <2>7. QED
    BY <2>3, <2>6
<1>3. I => MemoryKept
  BY <1>1, <1>2 DEF MemoryKept
<1>4. QED
  BY <1>3, MemoryHolds, PTL
=============================================================================
