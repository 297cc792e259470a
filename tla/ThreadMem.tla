------------------------------ MODULE ThreadMem ------------------------------
(***************************************************************************)
(* The user memory of processes and threads (proc.c, sysproc.c, exec.c and *)
(* vm.c of the thread kernel), in pages.  The threads of a process share   *)
(* one page table; the slot of the master holds the size of the memory and *)
(* a stack of addresses that joined threads have left.  A step of Threads  *)
(* that touches memory is taken together with what it does to it; sbrk()   *)
(* is added.  mappages() panics on a page that is mapped already: a step   *)
(* that would do so is not taken, and MemoryKept says when none would.     *)
(***************************************************************************)
EXTENDS Threads, SequencesExt

CONSTANT MaxSz       \* bound: pages of a process

VARIABLES
  sz,         \* struct proc: end of the memory, of a thread the end of its stack
  vir_add,    \* struct proc: where the stack of a thread begins
  empty_mem,  \* struct proc: addresses to use again, the last one first
  mapped      \* per page table, the pages that are present
mem == <<sz, vir_add, empty_mem, mapped>>
memVars == <<vars, mem>>

ImagePages == 3      \* what exec() maps: a program of one page, a guard, a stack
StackPages == 2

(* Memory is followed in the mixes whose programs call sbrk(). *)
Tracked == "sbrk" \in mix.calls
Follow(A) == IF Tracked THEN A ELSE UNCHANGED mem

MemInit ==
  /\ Init
  /\ sz = [p \in Slots |-> IF p = initproc THEN 1 ELSE 0]
  /\ vir_add = [p \in Slots |-> 0]
  /\ empty_mem = [p \in Slots |-> <<>>]
  /\ mapped = [g \in 1..(NPROC + 1) |-> IF g = 1 THEN {0} ELSE {}]

Stack(a) == a..(a + StackPages - 1)

(* What a freed slot still holds is never read again: it counts as empty. *)
Kept(f, nothing) == [q \in Slots |-> IF state'[q] = "UNUSED" THEN nothing ELSE f[q]]

-----------------------------------------------------------------------------
(* allocuvm() maps the pages from a up to b of page table g, all or none of *)
(* them; deallocuvm() takes away the pages from b up to a.                  *)
allocuvm(g, a, b, ok) ==
  [mapped EXCEPT ![g] = IF ok THEN @ \cup a..(b - 1) ELSE @ \ a..(b - 1)]
MutDeallocNothing(g, a, b) == mapped
deallocuvm(g, a, b) == [mapped EXCEPT ![g] = @ \ b..(a - 1)]

(* growproc(), on the memory of the master.  A growth may fail for want of  *)
(* a page; memory that would become empty is freed, and -1 returned.        *)
growproc(p, n, ok) ==
  LET m == MasterOf(p)
      g == pg[p]
      end == sz[m] + n
  IN /\ end <= MaxSz
     /\ sz' = [sz EXCEPT ![m] = IF ok THEN end ELSE @]
     /\ IF n > 0
          THEN /\ mapped[g] \cap sz[m]..(end - 1) = {}
               /\ ok \/ mix.oom
               /\ mapped' = allocuvm(g, sz[m], end, ok)
          ELSE /\ ok <=> end # 0
               /\ mapped' = deallocuvm(g, sz[m], end)
     /\ UNCHANGED <<vir_add, empty_mem>>

Growing(n) == IF n > 0 THEN "grow" ELSE "shrink"

(* sys_sbrk() calls growproc() twice, each time under the lock. *)
Sbrk(p, n) ==
  /\ Enters(p) /\ p # initproc
  /\ Tracked /\ (n > 0 \/ "shrink" \in mix.calls)
  /\ \E ok \in BOOLEAN : growproc(p, n, ok) /\ pc' = [pc EXCEPT ![p] = IF ok THEN Growing(n) ELSE @]
  /\ UNCHANGED <<slot, nextpid, nexttid, livePg, cpu, np, loc, mix>>

SbrkAgain(p, n) ==
  /\ At(p, Growing(n))
  /\ \E ok \in BOOLEAN : growproc(p, n, ok)
  /\ Return(p)
  /\ UNCHANGED <<slot, nextpid, nexttid, livePg, cpu, np, loc, mix>>

-----------------------------------------------------------------------------
(* allocproc() forgets the addresses that the slot collected before.        *)
ClearStacks(q) ==
  /\ empty_mem' = [empty_mem EXCEPT ![q] = <<>>]
  /\ UNCHANGED <<sz, vir_add, mapped>>

(* fork() copies the pages below the size of the master; the child takes    *)
(* over the size of whoever called.                                         *)
CopyUvm(p) ==
  LET q == np[p] IN
    /\ sz' = [sz EXCEPT ![q] = sz[p]]
    /\ mapped' = [mapped EXCEPT ![pg'[q]] = mapped[pg[p]] \cap 0..(sz[MasterOf(p)] - 1)]
    /\ UNCHANGED <<vir_add, empty_mem>>

StackFor(m) == IF empty_mem[m] = <<>> THEN sz[m] ELSE Last(empty_mem[m])

(* thread_create() does not look whether allocuvm() failed: the thread then *)
(* has a size of 0, and the address is used up all the same.                *)
TakeStack(p) ==
  LET m == MasterOf(p)
      q == np[p]
      g == pg[m]
      a == StackFor(m)
  IN /\ a + StackPages <= MaxSz
     /\ mapped[g] \cap Stack(a) = {}
     /\ vir_add' = [vir_add EXCEPT ![q] = a]
     /\ empty_mem' = [empty_mem EXCEPT ![m] = IF @ = <<>> THEN @ ELSE Front(@)]
     /\ \E ok \in BOOLEAN :
          /\ ok \/ mix.oom
          /\ mapped' = allocuvm(g, a, a + StackPages, ok)
          /\ sz' = [sz EXCEPT ![m] = IF empty_mem[m] = <<>> THEN @ + StackPages ELSE @,
                              ![q] = IF ok THEN a + StackPages ELSE 0]

(* thread_join() leaves the address to the master and unmaps the stack.     *)
LeaveStack(t) ==
  LET dead == {q \in Slots : tid[q] = t /\ state[q] = "ZOMBIE"} IN
    /\ IF dead = {} THEN UNCHANGED <<empty_mem, mapped>>
       ELSE LET q == Min(dead) IN
         /\ empty_mem' = [empty_mem EXCEPT ![master[q]] = Append(@, vir_add[q])]
         /\ mapped' = deallocuvm(pg[q], sz[q], vir_add[q])
    /\ sz' = Kept(sz, 0) /\ vir_add' = Kept(vir_add, 0)

(* exit() only notes the addresses, the pages go with the page table.       *)
LeaveAllStacks(p) ==
  LET dead == SetToSortSeq({q \in Slots : master[q] = p /\ state[q] = "ZOMBIE"}, <) IN
    /\ empty_mem' = [empty_mem EXCEPT ![p] = @ \o [i \in DOMAIN dead |-> vir_add[dead[i]]]]
    /\ sz' = Kept(sz, 0) /\ vir_add' = Kept(vir_add, 0)
    /\ UNCHANGED mapped

Present(g) == IF g \in livePg' THEN mapped[g] ELSE {}

(* wait() calls freevm(). *)
FreeVm ==
  /\ mapped' = [g \in DOMAIN mapped |-> Present(g)]
  /\ sz' = Kept(sz, 0) /\ vir_add' = Kept(vir_add, 0)
  /\ empty_mem' = Kept(empty_mem, <<>>)

(* exec(): a new page table, or the old one after a failure.  The list of   *)
(* stacks outlives the memory it speaks of.                                 *)
NewImage(p) ==
  LET loaded == pg'[p] # pg[p] IN
    /\ sz' = [sz EXCEPT ![p] = IF loaded THEN ImagePages ELSE @]
    /\ mapped' = [g \in DOMAIN mapped |->
                    IF loaded /\ g = pg'[p] THEN 0..(ImagePages - 1) ELSE Present(g)]
    /\ UNCHANGED <<vir_add, empty_mem>>

(* Programs that call exec() before they start threads, or all of them.     *)
ExecOf(p) == "threadexec" \in mix.calls \/ empty_mem[p] = <<>>

-----------------------------------------------------------------------------
Call(p) ==
  \/ Fork(p) /\ Follow(ClearStacks(np'[p]))
  \/ ForkDone(p) /\ Follow(CopyUvm(p))
  \/ ThreadCreate(p) /\ Follow(ClearStacks(np'[p]))
  \/ ThreadInit(p) /\ Follow(TakeStack(p))
  \/ ReapThreads(p) /\ Follow(LeaveAllStacks(p))
  \/ \E t \in 1..MaxPid : ThreadJoin(p, t) /\ Follow(LeaveStack(t))
  \/ Wait(p) /\ Follow(FreeVm)
  \/ Exec(p) /\ ExecOf(p) /\ UNCHANGED mem
  \/ ExecLoad(p) /\ Follow(NewImage(p))
  \/ \E n \in {1, -1} : Sbrk(p, n) \/ SbrkAgain(p, n)

NoMemory(p) ==
  /\ \/ ForkFail(p) \/ ThreadGo(p) \/ ThreadExit(p) \/ ThreadExitDone(p)
     \/ ExitThread(p) \/ InitPanic(p) \/ ExitDone(p) \/ ThreadKill(p) \/ ExecNoFile(p) \/ ThreadWakeup(p)
     \/ \E k \in 0..MaxPid : Kill(p, k)
     \/ IoSleep(p) \/ IoReturn(p)
  /\ UNCHANGED mem

MemNext ==
  \/ \E p \in Slots : Call(p) \/ NoMemory(p)
  \/ \E c \in CPUs : (Preempt(c) \/ \E p \in Slots : Schedule(c, p)) /\ UNCHANGED mem
  \/ IoWakeup /\ UNCHANGED mem

MemSpec == MemInit /\ [][MemNext]_memVars
FairSpec == MemSpec /\ Fairness

-----------------------------------------------------------------------------
(* The programs for which the kernel keeps memory apart: only the process   *)
(* itself starts threads, forks and calls exec(), the latter before it has  *)
(* joined any, and ends by exit(); nobody gives memory back; and no page is  *)
(* missing.                                                                 *)
Frugal ==
  /\ mix.calls \cap {"threadexec", "mainexit", "threadfork", "nested", "shrink"} = {}
  /\ ~mix.oom

Threaded(p) == InUse(p) /\ master[p] # 0

(* No page is mapped twice, which mappages() panics on (vm.c:71): what the   *)
(* next thread or the next growth would take is free.  Each thread keeps a   *)
(* stack of its own until it is joined, and no other thread's join unmaps    *)
(* it, whatever the order of creations, joins, growths, forks and deaths     *)
(* (proc.c:1157-1170, 1265-1275).                                            *)
StacksApart ==
  Tracked /\ Frugal => \A p \in Slots : Threaded(p) =>
    /\ Stack(vir_add[p]) \subseteq mapped[pg[p]]
    /\ \A q \in Slots \ {p} : Threaded(q) /\ master[q] = master[p] =>
         Stack(vir_add[q]) \cap Stack(vir_add[p]) = {}

NothingRemapped ==
  Tracked /\ Frugal => \A p \in Slots : InUse(p) /\ pg[p] \in livePg =>
    LET m == MasterOf(p) IN
      /\ mapped[pg[p]] \subseteq 0..(sz[m] - 1)
      /\ pc[p] = "tnew" => mapped[pg[m]] \cap Stack(StackFor(m)) = {}

MemoryKept == PageTableAlive /\ StacksApart /\ NothingRemapped
=============================================================================
