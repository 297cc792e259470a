----------------------------- MODULE Sys_proofs -----------------------------
(***************************************************************************)
(* Proofs about the kernel of Sys under programs of any kind (SysSpec), for *)
(* every number of processes, descriptors, open files and pages.            *)
(*                                                                         *)
(* `Books' is what the tables say of each other, with a parameter for the   *)
(* set of descriptors that still count: exit() closes its files one by one  *)
(* and forgets the descriptors only at the end, so inside its loop the      *)
(* books are in order without those it has closed.  A pipe says of its two  *)
(* ends exactly whether an open file stands for them, with at most one on   *)
(* each side; that is why the last fileclose() of an end may clear the      *)
(* pipe's flag, and why a free pair of open files leaves a free pipe.       *)
(*                                                                         *)
(* `Owed' is what a sleeper on a pipe may rely on.  It survives every step  *)
(* but one: a writer whose text is longer than the pipe may be killed in    *)
(* its sleep and, when it is scheduled, fill the emptied pipe again and     *)
(* leave without a wakeup() (pipe.c:86).  `Brief' rules such texts out.     *)
(***************************************************************************)
EXTENDS Sys, FiniteSetTheorems, WellFoundedInduction, TLAPS

-----------------------------------------------------------------------------
(* Facts about numbers, texts and pages.                                   *)

LEMMA Sizes ==
  /\ NPROC \in Nat \ {0} /\ NOFILE \in Nat \ {0} /\ NFILE \in Nat \ {0} /\ PIPESIZE \in Nat \ {0}
  /\ PGSIZE \in Nat \ {0} /\ KVM \in Nat /\ NPAGE \in Nat /\ NPAGE >= KVM + 2
BY SysAssumption

LEMMA Finite ==
  /\ IsFiniteSet(Slot) /\ IsFiniteSet(Fd) /\ IsFiniteSet(File) /\ IsFiniteSet(Pipe)
  /\ IsFiniteSet(Slot \X Fd)
  /\ Cardinality(File) = NFILE /\ Cardinality(Pipe) = NFILE
<1> USE Sizes DEF Slot, Fd, File, Pipe
<1>1. IsFiniteSet(Slot) /\ IsFiniteSet(File) /\ IsFiniteSet(Pipe) /\ IsFiniteSet(Fd)
  BY FS_Interval
<1>2. IsFiniteSet(Slot \X Fd)
  <2> HIDE DEF Slot, Fd
  <2> QED BY <1>1, FS_Product
<1>3. Cardinality(1..NFILE) = NFILE
  BY FS_Interval
<1> QED BY <1>1, <1>2, <1>3

(* FiniteSetsExt: the least of some natural numbers is one of them.         *)
LEMMA MinIs ==
  ASSUME NEW S, S \subseteq Nat, S # {}
  PROVE  Min(S) \in S /\ \A y \in S : Min(S) <= y
<1>1. \E x \in S : \A y \in S : x <= y
  <2> DEFINE R == {ss \in Nat \X Nat : ss[1] < ss[2]}
  <2>1. IsWellFoundedOn(R, Nat)
    BY NatLessThanWellFounded, Zenon DEF OpToRel
  <2>2. PICK x \in S : \A y \in S : ~(<<y, x>> \in R)
    <3> HIDE DEF R
    <3> QED BY <2>1, WFMin
  <2>3. ASSUME NEW y \in S PROVE x <= y
    <3>1. ~(<<y, x>> \in R)
      BY <2>2
    <3>2. x \in Nat /\ y \in Nat
      OBVIOUS
    <3> QED BY <3>1, <3>2
  <2> QED BY <2>2, <2>3
<1> QED BY <1>1 DEF Min

(* What holds of 0 and is handed on holds of every number: a least counterexample. *)
LEMMA NatsIn ==
  ASSUME NEW S, 0 \in S, \A n \in Nat : n \in S => n + 1 \in S
  PROVE  Nat \subseteq S
<1> SUFFICES ASSUME Nat \ S # {} PROVE FALSE
  OBVIOUS
<1> DEFINE R == {ss \in Nat \X Nat : ss[1] < ss[2]}
<1>1. IsWellFoundedOn(R, Nat)
  BY NatLessThanWellFounded, Zenon DEF OpToRel
<1>2. PICK m \in Nat \ S : \A n \in Nat \ S : ~(<<n, m>> \in R)
  <2> HIDE DEF R
  <2> QED BY <1>1, WFMin
<1>3. m # 0 /\ m - 1 \in Nat /\ (m - 1) + 1 = m /\ <<m - 1, m>> \in R
  OBVIOUS
<1>4. m - 1 \in S
  <2> HIDE DEF R
  <2> QED BY <1>2, <1>3
<1> QED BY <1>3, <1>4

LEMMA PagesNat == \A n \in Nat : Pages(n) \in Nat
BY Sizes DEF Pages

LEMMA PagesExact == \A n \in Nat : Pages(PGSIZE * n) = n
<1> TAKE n \in Nat
<1>1. PGSIZE * n \in Nat
  BY Sizes
<1> QED BY <1>1, Sizes DEF Pages

LEMMA TextCut ==
  ASSUME NEW s, Text(s), NEW m \in 0..Len(s)
  PROVE  /\ Text(SubSeq(s, 1, m)) /\ Len(SubSeq(s, 1, m)) = m
         /\ Text(SubSeq(s, m + 1, Len(s))) /\ Len(SubSeq(s, m + 1, Len(s))) = Len(s) - m
<1>1. PICK S : s \in Seq(S)
  BY DEF Text
<1>2. Len(s) \in Nat
  BY <1>1
<1>3. /\ SubSeq(s, 1, m) \in Seq(S) /\ Len(SubSeq(s, 1, m)) = m
      /\ SubSeq(s, m + 1, Len(s)) \in Seq(S) /\ Len(SubSeq(s, m + 1, Len(s))) = Len(s) - m
  BY <1>1, <1>2
<1> QED BY <1>3 DEF Text

LEMMA TextJoin ==
  ASSUME NEW s, NEW t, Text(s), Text(t)
  PROVE  Text(s \o t) /\ Len(s \o t) = Len(s) + Len(t)
<1>1. PICK S : s \in Seq(S)
  BY DEF Text
<1>2. PICK T : t \in Seq(T)
  BY DEF Text
<1>3. s \in Seq(S \cup T) /\ t \in Seq(S \cup T)
  BY <1>1, <1>2
<1>4. s \o t \in Seq(S \cup T) /\ Len(s \o t) = Len(s) + Len(t)
  BY <1>3
<1> QED BY <1>4 DEF Text

LEMMA TextLen ==
  /\ \A s : Text(s) => Len(s) \in Nat /\ (Len(s) = 0 <=> s = <<>>)
  /\ Text(<<>>) /\ Len(<<>>) = 0
<1>1. ASSUME NEW s, Text(s) PROVE Len(s) \in Nat /\ (Len(s) = 0 <=> s = <<>>)
  <2>1. PICK S : s \in Seq(S)
    BY <1>1 DEF Text
  <2> QED BY <2>1
<1>2. <<>> \in Seq({}) /\ Len(<<>>) = 0
  OBVIOUS
<1> QED BY <1>1, <1>2 DEF Text


-----------------------------------------------------------------------------
(* The invariant.                                                          *)

States == {"UNUSED", "RUNNABLE", "SLEEPING", "EXITING", "ZOMBIE"}
Channels == {"nread", "nwrite"} \X Pipe

(* User memory: the first `low' pages below sz are not mapped.             *)
Memory(m) ==
  m = [sz |-> m.sz, low |-> m.low] /\ m.sz \in Nat /\ m.low \in Nat /\ m.low <= Pages(m.sz)

(* A slot of ptable.                                                       *)
Process(q) ==
  /\ q = [st |-> q.st, pid |-> q.pid, parent |-> q.parent, killed |-> q.killed, kstack |-> q.kstack, mem |-> q.mem,
          chan |-> q.chan, ofile |-> q.ofile, cwd |-> q.cwd, rest |-> q.rest]
  /\ q.st \in States /\ q.kstack \in {0, 1} /\ q.killed \in BOOLEAN /\ Memory(q.mem) /\ Text(q.rest)
  /\ q.kstack = 0 <=> q.st = "UNUSED"
  /\ q.ofile \in [Fd -> File \cup {0}]
  /\ q.st \notin {"RUNNABLE", "SLEEPING"} => \A d \in Fd : q.ofile[d] = 0
  /\ q.st = "SLEEPING" => q.chan \in Channels

(* An entry of the file table.                                             *)
OpenFile(f) ==
  /\ f = [type |-> f.type, ref |-> f.ref, r |-> f.r, w |-> f.w, ip |-> f.ip, off |-> f.off,
          pipe |-> f.pipe]
  /\ f.ref \in Nat /\ f.w \in BOOLEAN
  /\ f.type = "pipe" => f.pipe \in Pipe /\ f.ref > 0

IsPipe(b) ==
  /\ b = [data |-> b.data, ro |-> b.ro, wo |-> b.wo]
  /\ Text(b.data) /\ Len(b.data) <= PIPESIZE /\ b.ro \in BOOLEAN /\ b.wo \in BOOLEAN
  /\ ~b.ro /\ ~b.wo => b.data = <<>>

Procs(pr) == pr = [x \in Slot |-> pr[x]] /\ \A x \in Slot : Process(pr[x])
Files(ft) == ft = [i \in File |-> ft[i]] /\ \A i \in File : OpenFile(ft[i])
Pipes(pp) == pp = [x \in Pipe |-> pp[x]] /\ \A x \in Pipe : IsPipe(pp[x])

(* Open file i is the end of pipe x that is written, or read.              *)
End(ft, i, x, w) == ft[i].type = "pipe" /\ ft[i].pipe = x /\ ft[i].w = w
OneEnd(ft, x) == \A w \in BOOLEAN : \A i, j \in File : End(ft, i, x, w) /\ End(ft, j, x, w) => i = j
Ends(ft, pp) ==
  \A x \in Pipe : /\ pp[x].ro <=> \E i \in File : End(ft, i, x, FALSE)
                  /\ pp[x].wo <=> \E i \in File : End(ft, i, x, TRUE)
                  /\ OneEnd(ft, x)

(* The descriptors among D that refer to open file i.                      *)
Fds(pr, D, i) == {z \in D : pr[z[1]].ofile[z[2]] = i}
Refs(ft, pr, D) == \A i \in File : ft[i].ref = Cardinality(Fds(pr, D, i))

InUsePipes(pp) == {x \in Pipe : pp[x] # NoPipe}
Paged(pp, km, pr) ==
  km \in Nat /\ NPAGE = km + Cardinality(InUsePipes(pp)) + Cardinality(PagesOf(pr))

(* What process q is owed when it sleeps.                                  *)
Empty(s) == s = <<>>
OwedOne(q, pp) ==
  /\ ~q.killed
  /\ q.chan[1] = "nread"  => Empty(pp[q.chan[2]].data) /\ pp[q.chan[2]].wo
  /\ q.chan[1] = "nwrite" => Len(pp[q.chan[2]].data) = PIPESIZE /\ pp[q.chan[2]].ro
Owed(pr, pp) == \A p \in Slot : pr[p].st = "SLEEPING" => OwedOne(pr[p], pp)

(* The books, with the descriptors of D.                                   *)
Books(ft, pp, km, pr, D) ==
  Procs(pr) /\ Files(ft) /\ Pipes(pp) /\ Ends(ft, pp) /\ Refs(ft, pr, D) /\ Paged(pp, km, pr)

SysInv == nextpid \in Nat \ {0} /\ Books(ftable, pipes, kmem, proc, Slot \X Fd)

Brief(pr) == \A p \in Slot : Len(pr[p].rest) <= PIPESIZE

-----------------------------------------------------------------------------
(* Pages.                                                                  *)

PagesAt(q) == IF q.kstack = 0 THEN 0 ELSE Footprint(q)
PagesIn(pr, S) == UNION {{x} \X (1..Footprint(pr[x])) : x \in {y \in S : pr[y].kstack # 0}}

LEMMA MemoryOf == \A n \in Nat : Memory([sz |-> n, low |-> 0])
BY PagesNat DEF Memory

LEMMA MappedNat == \A m : Memory(m) => Mapped(m) \in Nat
BY PagesNat DEF Memory, Mapped

LEMMA PagesAtNat == \A q : Process(q) => PagesAt(q) \in Nat /\ Footprint(q) \in Nat
<1> SUFFICES ASSUME NEW q, Process(q) PROVE PagesAt(q) \in Nat /\ Footprint(q) \in Nat
  OBVIOUS
<1>1. Mapped(q.mem) \in Nat
  BY MappedNat DEF Process
<1>2. Footprint(q) \in Nat
  BY <1>1, Sizes DEF Footprint
<1> QED BY <1>2 DEF PagesAt

(* A process has as many pages as PagesAt says.                            *)
LEMMA PagesOfOne ==
  ASSUME NEW x, NEW n \in Nat
  PROVE  IsFiniteSet({x} \X (1..n)) /\ Cardinality({x} \X (1..n)) = n
<1>1. IsFiniteSet(1..n) /\ Cardinality(1..n) = n
  BY FS_Interval
<1>2. IsFiniteSet({x}) /\ Cardinality({x}) = 1
  BY FS_Singleton
<1>3. IsFiniteSet({x} \X (1..n)) /\ Cardinality({x} \X (1..n)) = Cardinality({x}) * Cardinality(1..n)
  BY <1>1, <1>2, FS_Product
<1> QED BY <1>1, <1>2, <1>3

LEMMA PagesFinite ==
  ASSUME NEW pr, Procs(pr), NEW S \in SUBSET Slot
  PROVE  IsFiniteSet(PagesIn(pr, S))
<1> DEFINE T == {y \in S : pr[y].kstack # 0}
           f == [x \in T |-> {x} \X (1..Footprint(pr[x]))]
           U == {{x} \X (1..Footprint(pr[x])) : x \in T}
<1>1. IsFiniteSet(T)
  <2>1. T \in SUBSET Slot
    OBVIOUS
  <2> QED BY <2>1, Finite, FS_Subset
<1>2. f \in Surjection(T, U)
  BY DEF Surjection
<1>3. IsFiniteSet(U)
  <2> HIDE DEF f, T, U
  <2> QED BY <1>1, <1>2, FS_Surjection
<1>4. ASSUME NEW V \in U PROVE IsFiniteSet(V)
  <2>1. PICK x \in T : V = {x} \X (1..Footprint(pr[x]))
    OBVIOUS
  <2>2. Footprint(pr[x]) \in Nat
    BY PagesAtNat DEF Procs
  <2> QED BY <2>1, <2>2, PagesOfOne
<1>5. IsFiniteSet(UNION U)
  <2> HIDE DEF U
  <2> QED BY <1>3, <1>4, FS_UNION
<1> QED BY <1>5 DEF PagesIn

(* The pages of one process and those of the others.                       *)
LEMMA PagesParted ==
  ASSUME NEW pr, Procs(pr), NEW x \in Slot
  PROVE  /\ Cardinality(PagesOf(pr)) = Cardinality(PagesIn(pr, Slot \ {x})) + PagesAt(pr[x])
         /\ Cardinality(PagesIn(pr, Slot \ {x})) \in Nat
<1> DEFINE R == PagesIn(pr, Slot \ {x})
           X == {x} \X (1..PagesAt(pr[x]))
<1>1. PagesAt(pr[x]) \in Nat
  BY PagesAtNat DEF Procs
<1>2. IsFiniteSet(R) /\ IsFiniteSet(X) /\ Cardinality(X) = PagesAt(pr[x])
  BY <1>1, PagesFinite, PagesOfOne
<1>3. PagesOf(pr) = R \cup X
  <2>1. ASSUME NEW z PROVE z \in PagesOf(pr) <=> z \in R \cup X
    <3>1. z \in PagesOf(pr) <=> \E y \in Slot : pr[y].kstack # 0 /\ z \in {y} \X (1..Footprint(pr[y]))
      BY DEF PagesOf
    <3>2. z \in R <=> \E y \in Slot \ {x} : pr[y].kstack # 0 /\ z \in {y} \X (1..Footprint(pr[y]))
      BY DEF PagesIn
    <3>3. z \in X <=> pr[x].kstack # 0 /\ z \in {x} \X (1..Footprint(pr[x]))
      BY DEF PagesAt
    <3> HIDE DEF R, X
    <3> QED BY <3>1, <3>2, <3>3
  <2> HIDE DEF R, X
  <2> QED BY <2>1
<1>4. R \cap X = {}
  BY DEF PagesIn
<1>5. Cardinality(R \cup X) = Cardinality(R) + Cardinality(X)
  <2> HIDE DEF R, X
  <2>1. Cardinality(R \cup X) = Cardinality(R) + Cardinality(X) - Cardinality(R \cap X)
    BY <1>2, FS_Union
  <2>2. Cardinality(R \cap X) = 0
    BY <1>4, FS_EmptySet
  <2>3. Cardinality(R) \in Nat /\ Cardinality(X) \in Nat
    BY <1>2, FS_CardinalityType
  <2> QED BY <2>1, <2>2, <2>3
<1>6. Cardinality(R) \in Nat
  BY <1>2, FS_CardinalityType
<1> QED BY <1>2, <1>3, <1>5, <1>6

(* One process changes, the others keep their pages.                       *)
LEMMA PagesMoved ==
  ASSUME NEW pr, NEW qr, Procs(pr), Procs(qr), NEW x \in Slot,
         \A y \in Slot \ {x} : qr[y].kstack = pr[y].kstack /\ qr[y].mem = pr[y].mem
  PROVE  /\ Cardinality(PagesOf(qr)) = Cardinality(PagesOf(pr)) - PagesAt(pr[x]) + PagesAt(qr[x])
         /\ Cardinality(PagesOf(pr)) \in Nat /\ PagesAt(pr[x]) \in Nat /\ PagesAt(qr[x]) \in Nat
         /\ PagesAt(pr[x]) <= Cardinality(PagesOf(pr))
<1>1. \A y \in Slot \ {x} : qr[y].kstack = pr[y].kstack /\ Footprint(qr[y]) = Footprint(pr[y])
  BY DEF Footprint
<1>2. PagesIn(qr, Slot \ {x}) = PagesIn(pr, Slot \ {x})
  BY <1>1 DEF PagesIn
<1>3. PagesAt(pr[x]) \in Nat /\ PagesAt(qr[x]) \in Nat
  BY PagesAtNat DEF Procs
<1> QED BY <1>2, <1>3, PagesParted

LEMMA PagesKept ==
  ASSUME NEW pr, NEW qr, \A y \in Slot : qr[y].kstack = pr[y].kstack /\ qr[y].mem = pr[y].mem
  PROVE  PagesOf(qr) = PagesOf(pr)
BY DEF PagesOf, Footprint

-----------------------------------------------------------------------------
(* Waking.                                                                 *)

(* Some of those who sleep in pr are up in qr.                             *)
Roused(pr, qr) ==
  \A x \in Slot : qr[x] = pr[x] \/ (pr[x].st = "SLEEPING" /\ qr[x] = [pr[x] EXCEPT !.st = "RUNNABLE"])

(* What a process keeps when it is woken.                                  *)
Alike(a, b) ==
  /\ b.kstack = a.kstack /\ b.killed = a.killed /\ b.mem = a.mem /\ b.chan = a.chan /\ b.ofile = a.ofile
  /\ b.rest = a.rest /\ b.parent = a.parent /\ b.cwd = a.cwd
  /\ b.st = a.st \/ (a.st = "SLEEPING" /\ b.st = "RUNNABLE")

LEMMA RousedAlike ==
  ASSUME NEW pr, NEW qr, Procs(pr), Roused(pr, qr), NEW x \in Slot
  PROVE  Process(qr[x]) /\ Alike(pr[x], qr[x])
<1>1. Process(pr[x])
  BY DEF Procs
<1>2. CASE qr[x] = pr[x]
  BY <1>1, <1>2 DEF Alike
<1>3. CASE pr[x].st = "SLEEPING" /\ qr[x] = [pr[x] EXCEPT !.st = "RUNNABLE"]
  <2> DEFINE a == pr[x]
  <2>1. a = [st |-> a.st, pid |-> a.pid, parent |-> a.parent, killed |-> a.killed, kstack |-> a.kstack, mem |-> a.mem,
             chan |-> a.chan, ofile |-> a.ofile, cwd |-> a.cwd, rest |-> a.rest]
    BY <1>1 DEF Process
  <2>2. qr[x] = [st |-> "RUNNABLE", pid |-> a.pid, parent |-> a.parent, killed |-> a.killed, kstack |-> a.kstack, mem |-> a.mem,
                 chan |-> a.chan, ofile |-> a.ofile, cwd |-> a.cwd, rest |-> a.rest]
    <3> HIDE DEF a
    <3>1. qr[x] = [a EXCEPT !.st = "RUNNABLE"]
      BY <1>3 DEF a
    <3> QED BY <2>1, <3>1
  <2>3. a.st = "SLEEPING" /\ Process(a)
    BY <1>1, <1>3
  <2> HIDE DEF a
  <2>4. Alike(a, qr[x])
    BY <2>2, <2>3 DEF Alike
  <2>5. Process(qr[x])
    BY <2>2, <2>3 DEF Process, States
  <2> QED BY <2>4, <2>5 DEF a
<1> QED BY <1>2, <1>3 DEF Roused

LEMMA RousedProcs ==
  ASSUME NEW pr, NEW qr, Procs(pr), Roused(pr, qr), qr = [x \in Slot |-> qr[x]]
  PROVE  /\ Procs(qr) /\ PagesOf(qr) = PagesOf(pr)
         /\ \A D, i : D \subseteq Slot \X Fd => Fds(qr, D, i) = Fds(pr, D, i)
<1>1. \A x \in Slot : Process(qr[x]) /\ Alike(pr[x], qr[x])
  BY RousedAlike
<1>2. Procs(qr)
  BY <1>1 DEF Procs
<1>3. PagesOf(qr) = PagesOf(pr)
  BY <1>1, PagesKept DEF Alike
<1>4. ASSUME NEW D, NEW i, D \subseteq Slot \X Fd PROVE Fds(qr, D, i) = Fds(pr, D, i)
  <2>1. \A z \in D : qr[z[1]].ofile = pr[z[1]].ofile
    BY <1>1, <1>4 DEF Alike
  <2> QED BY <2>1 DEF Fds
<1> QED BY <1>2, <1>3, <1>4

LEMMA RousedOn ==
  ASSUME NEW pr, NEW qr, NEW rr, Procs(pr), Roused(pr, qr), Roused(qr, rr)
  PROVE  Roused(pr, rr)
<1> SUFFICES ASSUME NEW x \in Slot
             PROVE  rr[x] = pr[x] \/ (pr[x].st = "SLEEPING" /\ rr[x] = [pr[x] EXCEPT !.st = "RUNNABLE"])
  BY DEF Roused
<1>1. Alike(pr[x], qr[x])
  BY RousedAlike
<1>2. CASE qr[x] = pr[x]
  BY <1>2 DEF Roused
<1>3. CASE pr[x].st = "SLEEPING" /\ qr[x] = [pr[x] EXCEPT !.st = "RUNNABLE"]
  <2>1. qr[x].st = "RUNNABLE"
    <3>1. "st" \in DOMAIN pr[x]
      BY DEF Procs, Process
    <3> QED BY <1>3, <3>1
  <2> QED BY <1>3, <2>1 DEF Roused
<1> QED BY <1>2, <1>3 DEF Roused

LEMMA WokenIs ==
  ASSUME NEW pr, Procs(pr), NEW ch
  PROVE  /\ Woken(pr, ch) = [x \in Slot |-> Woken(pr, ch)[x]]
         /\ Roused(pr, Woken(pr, ch))
         /\ \A x \in Slot : Woken(pr, ch)[x].st = "SLEEPING" => Woken(pr, ch)[x].chan # ch
<1>1. Woken(pr, ch) = [x \in Slot |-> Woken(pr, ch)[x]] /\ Roused(pr, Woken(pr, ch))
  BY DEF Woken, Roused
<1>2. ASSUME NEW x \in Slot, Woken(pr, ch)[x].st = "SLEEPING" PROVE Woken(pr, ch)[x].chan # ch
  <2>1. "st" \in DOMAIN pr[x]
    BY DEF Procs, Process
  <2> QED BY <1>2, <2>1 DEF Woken
<1> QED BY <1>1, <1>2

(* Pipe x becomes b: who still sleeps there must be right to.              *)
Rightly(qr, x, b) ==
  \A p \in Slot : /\ qr[p].st = "SLEEPING" /\ qr[p].chan = <<"nread", x>> => Empty(b.data) /\ b.wo
                  /\ qr[p].st = "SLEEPING" /\ qr[p].chan = <<"nwrite", x>> => Len(b.data) = PIPESIZE /\ b.ro

LEMMA OwedKept ==
  ASSUME NEW pr, NEW qr, NEW pp, Procs(pr), Pipes(pp), Owed(pr, pp), Roused(pr, qr),
         NEW x \in Pipe, NEW b, Rightly(qr, x, b)
  PROVE  Owed(qr, [pp EXCEPT ![x] = b])
<1> DEFINE np == [pp EXCEPT ![x] = b]
<1> SUFFICES ASSUME NEW p \in Slot, qr[p].st = "SLEEPING" PROVE OwedOne(qr[p], np)
  BY DEF Owed
<1>1. Alike(pr[p], qr[p])
  BY RousedAlike
<1>2. pr[p].st = "SLEEPING" /\ pr[p].chan = qr[p].chan /\ pr[p].killed = qr[p].killed
  BY <1>1 DEF Alike
<1>3. ~qr[p].killed /\ qr[p].chan \in Channels /\ OwedOne(qr[p], pp)
  BY <1>2 DEF Owed, OwedOne, Procs, Process
<1>4. PICK t \in {"nread", "nwrite"}, y \in Pipe : qr[p].chan = <<t, y>>
  BY <1>3 DEF Channels
<1>5. qr[p].chan[1] = t /\ qr[p].chan[2] = y
  BY <1>4
<1>6. np[x] = b /\ (y # x => np[y] = pp[y])
  BY DEF Pipes
<1> HIDE DEF np
<1>7. CASE y = x
  BY <1>3, <1>4, <1>5, <1>6, <1>7 DEF Rightly, OwedOne
<1>8. CASE y # x
  BY <1>3, <1>5, <1>6, <1>8 DEF OwedOne
<1> QED BY <1>7, <1>8

LEMMA OwedAt ==
  ASSUME NEW q, NEW pp, NEW x, OwedOne(q, pp)
  PROVE  /\ q.chan = <<"nread", x>> => Empty(pp[x].data) /\ pp[x].wo
         /\ q.chan = <<"nwrite", x>> => Len(pp[x].data) = PIPESIZE /\ pp[x].ro
<1>1. ASSUME q.chan = <<"nread", x>> PROVE Empty(pp[x].data) /\ pp[x].wo
  <2>1. q.chan[1] = "nread" /\ q.chan[2] = x
    BY <1>1
  <2> QED BY <2>1 DEF OwedOne
<1>2. ASSUME q.chan = <<"nwrite", x>> PROVE Len(pp[x].data) = PIPESIZE /\ pp[x].ro
  <2>1. q.chan[1] = "nwrite" /\ q.chan[2] = x
    BY <1>2
  <2> QED BY <2>1 DEF OwedOne
<1> QED BY <1>1, <1>2

LEMMA OwedRightly == ASSUME NEW qr, NEW pp, NEW x, Owed(qr, pp) PROVE Rightly(qr, x, pp[x])
<1> SUFFICES ASSUME NEW p \in Slot
             PROVE  /\ qr[p].st = "SLEEPING" /\ qr[p].chan = <<"nread", x>> => Empty(pp[x].data) /\ pp[x].wo
                    /\ qr[p].st = "SLEEPING" /\ qr[p].chan = <<"nwrite", x>>
                       => Len(pp[x].data) = PIPESIZE /\ pp[x].ro
  BY DEF Rightly
<1> DEFINE q == qr[p]
<1>1. q.st = "SLEEPING" => OwedOne(q, pp)
  BY DEF Owed
<1> HIDE DEF q
<1>2. q.st = "SLEEPING" => /\ q.chan = <<"nread", x>> => Empty(pp[x].data) /\ pp[x].wo
                           /\ q.chan = <<"nwrite", x>> => Len(pp[x].data) = PIPESIZE /\ pp[x].ro
  BY <1>1, OwedAt
<1> QED BY <1>2 DEF q

(* The pipes stay.                                                         *)
LEMMA OwedRoused ==
  ASSUME NEW pr, NEW qr, NEW pp, Procs(pr), Owed(pr, pp), Roused(pr, qr)
  PROVE  Owed(qr, pp)
<1>1. \A p \in Slot : Alike(pr[p], qr[p])
  BY RousedAlike
<1> QED BY <1>1 DEF Owed, OwedOne, Alike

-----------------------------------------------------------------------------
(* Books that move in one place.                                           *)

(* Processes that keep their identity, their size and their descriptors.   *)
LEMMA BooksProc ==
  ASSUME NEW ft, NEW pp, NEW km, NEW pr, NEW qr, NEW D \in SUBSET (Slot \X Fd),
         Books(ft, pp, km, pr, D), Procs(qr),
         \A x \in Slot : qr[x].kstack = pr[x].kstack /\ qr[x].mem = pr[x].mem /\ qr[x].ofile = pr[x].ofile
  PROVE  Books(ft, pp, km, qr, D)
<1>1. PagesOf(qr) = PagesOf(pr)
  BY PagesKept
<1>2. \A i : Fds(qr, D, i) = Fds(pr, D, i)
  BY DEF Fds
<1> QED BY <1>1, <1>2 DEF Books, Refs, Paged

LEMMA EndsSame ==
  ASSUME NEW ft, NEW pp, NEW gt, NEW qq, Ends(ft, pp),
         \A i \in File : \A x \in Pipe : \A w \in BOOLEAN : End(gt, i, x, w) <=> End(ft, i, x, w),
         \A x \in Pipe : qq[x].ro = pp[x].ro /\ qq[x].wo = pp[x].wo
  PROVE  Ends(gt, qq)
<1> SUFFICES ASSUME NEW x \in Pipe
             PROVE  /\ qq[x].ro <=> \E i \in File : End(gt, i, x, FALSE)
                    /\ qq[x].wo <=> \E i \in File : End(gt, i, x, TRUE)
                    /\ OneEnd(gt, x)
  BY DEF Ends
<1>1. /\ pp[x].ro <=> \E i \in File : End(ft, i, x, FALSE)
      /\ pp[x].wo <=> \E i \in File : End(ft, i, x, TRUE)
      /\ OneEnd(ft, x)
  BY DEF Ends
<1>2. OneEnd(gt, x)
  BY <1>1 DEF OneEnd
<1> QED BY <1>1, <1>2

(* Open files that keep their type, their pipe and their count.            *)
LEMMA BooksFile ==
  ASSUME NEW ft, NEW pp, NEW km, NEW pr, NEW gt, NEW D, Books(ft, pp, km, pr, D), Files(gt),
         \A i \in File : /\ gt[i].type = ft[i].type /\ gt[i].pipe = ft[i].pipe
                         /\ gt[i].w = ft[i].w /\ gt[i].ref = ft[i].ref
  PROVE  Books(gt, pp, km, pr, D)
<1>1. \A i \in File : \A x \in Pipe : \A w \in BOOLEAN : End(gt, i, x, w) <=> End(ft, i, x, w)
  BY DEF End
<1>2. Ends(gt, pp)
  BY <1>1, EndsSame DEF Books
<1> QED BY <1>2 DEF Books, Refs

(* A pipe in use that keeps its ends.                                      *)
LEMMA BooksPipe ==
  ASSUME NEW ft, NEW pp, NEW km, NEW pr, NEW x \in Pipe, NEW b, NEW D, Books(ft, pp, km, pr, D),
         IsPipe(b), b.ro = pp[x].ro, b.wo = pp[x].wo, pp[x].ro \/ pp[x].wo
  PROVE  Books(ft, [pp EXCEPT ![x] = b], km, pr, D)
<1> DEFINE qq == [pp EXCEPT ![x] = b]
<1>1. qq = [y \in Pipe |-> qq[y]] /\ qq[x] = b /\ \A y \in Pipe : y # x => qq[y] = pp[y]
  BY DEF Books, Pipes
<1>2. b # NoPipe /\ pp[x] # NoPipe
  BY DEF NoPipe
<1> HIDE DEF qq
<1>3. Pipes(qq)
  BY <1>1 DEF Books, Pipes
<1>4. Ends(ft, qq)
  BY <1>1, EndsSame DEF Books
<1>5. InUsePipes(qq) = InUsePipes(pp)
  BY <1>1, <1>2 DEF InUsePipes
<1>6. Books(ft, qq, km, pr, D)
  BY <1>3, <1>4, <1>5 DEF Books, Paged
<1> QED BY <1>6 DEF qq

LEMMA OneLess ==
  ASSUME NEW S, IsFiniteSet(S), NEW x \in S
  PROVE  Cardinality(S \ {x}) = Cardinality(S) - 1 /\ Cardinality(S) \in Nat \ {0}
<1>1. Cardinality(S \ {x}) = Cardinality(S) - 1
  BY FS_RemoveElement
<1>2. Cardinality(S) \in Nat /\ Cardinality(S) # 0
  BY FS_EmptySet, FS_CardinalityType
<1> QED BY <1>1, <1>2

(* One reference less.                                                     *)
LEMMA RefsLess ==
  ASSUME NEW ft, NEW pr, NEW D \in SUBSET (Slot \X Fd), Refs(ft, pr, D), NEW i \in File,
         NEW z \in Fds(pr, D, i)
  PROVE  /\ ft[i].ref \in Nat \ {0}
         /\ Cardinality(Fds(pr, D \ {z}, i)) = ft[i].ref - 1
         /\ \A j \in File \ {i} : Cardinality(Fds(pr, D \ {z}, j)) = ft[j].ref
<1>1. z \in Fds(pr, D, i) /\ z \in D /\ pr[z[1]].ofile[z[2]] = i
  BY DEF Fds
<1>2. IsFiniteSet(Fds(pr, D, i))
  <2>1. Fds(pr, D, i) \in SUBSET (Slot \X Fd)
    BY DEF Fds
  <2> QED BY <2>1, Finite, FS_Subset
<1>3. Fds(pr, D \ {z}, i) = Fds(pr, D, i) \ {z}
  BY DEF Fds
<1>4. Cardinality(Fds(pr, D, i)) \in Nat
      /\ Cardinality(Fds(pr, D, i) \ {z}) = Cardinality(Fds(pr, D, i)) - 1
  BY <1>1, <1>2, FS_RemoveElement, FS_CardinalityType
<1>5. Cardinality(Fds(pr, D, i)) # 0
  BY <1>1, <1>2, FS_EmptySet
<1>6. \A j \in File \ {i} : Fds(pr, D \ {z}, j) = Fds(pr, D, j)
  BY <1>1 DEF Fds
<1>7. ft[i].ref = Cardinality(Fds(pr, D, i)) /\ \A j \in File \ {i} : ft[j].ref = Cardinality(Fds(pr, D, j))
  BY DEF Refs
<1> QED BY <1>3, <1>4, <1>5, <1>6, <1>7

-----------------------------------------------------------------------------
(* Closing a file.                                                         *)

Closing(k) == k = [fs |-> k.fs, ft |-> k.ft, pp |-> k.pp, km |-> k.km, pr |-> k.pr]

(* What is left of pipe b when one end goes, and the pages that come free. *)
Half(b, w) == [data |-> b.data, ro |-> w /\ b.ro, wo |-> ~w /\ b.wo]
Rest(b, w) == IF Half(b, w).ro \/ Half(b, w).wo THEN Half(b, w) ELSE NoPipe
Gain(b, w) == IF Half(b, w).ro \/ Half(b, w).wo THEN 0 ELSE 1
Other(w) == IF w THEN "nread" ELSE "nwrite"

LEMMA PipecloseIs ==
  ASSUME NEW k, Closing(k), Pipes(k.pp), k.km \in Nat, NEW x \in Pipe, NEW w \in BOOLEAN
  PROVE  pipeclose(k, x, w) =
           [fs |-> k.fs, ft |-> k.ft, pp |-> [k.pp EXCEPT ![x] = Rest(k.pp[x], w)],
            km |-> k.km + Gain(k.pp[x], w), pr |-> Woken(k.pr, <<Other(w), x>>)]
<1> DEFINE b == k.pp[x]
           h == Half(b, w)
           wr == Woken(k.pr, <<Other(w), x>>)
           e == [fs |-> k.fs, ft |-> k.ft, pp |-> [k.pp EXCEPT ![x] = h], km |-> k.km, pr |-> wr]
<1>1. k.pp = [y \in Pipe |-> k.pp[y]] /\ IsPipe(b)
  BY DEF Pipes
<1>2. (IF w THEN [b EXCEPT !.wo = FALSE] ELSE [b EXCEPT !.ro = FALSE]) = h
  <2> HIDE DEF b
  <2>1. CASE w
    BY <1>1, <2>1 DEF Half, IsPipe
  <2>2. CASE ~w
    BY <1>1, <2>2 DEF Half, IsPipe
  <2> QED BY <2>1, <2>2
<1>3. EndClosed(k, x, w) =
        [k EXCEPT !.pp = [k.pp EXCEPT ![x] = IF w THEN [b EXCEPT !.wo = FALSE] ELSE [b EXCEPT !.ro = FALSE]],
                  !.pr = wr]
  BY DEF EndClosed, Other
<1>4. EndClosed(k, x, w) = e
  <2> HIDE DEF b, h, wr
  <2> QED BY <1>2, <1>3 DEF Closing, e
<1>5. e.pp[x] = h /\ e.km = k.km
  BY <1>1
<1>6. CASE h.ro \/ h.wo
  <2>1. Freed(e, x) = e
    BY <1>5, <1>6 DEF Freed
  <2>2. Rest(b, w) = h /\ Gain(b, w) = 0 /\ k.km + 0 = k.km
    BY <1>6 DEF Rest, Gain
  <2> HIDE DEF b, h, wr
  <2> QED BY <1>4, <2>1, <2>2 DEF pipeclose, b, wr, e
<1>7. CASE ~(h.ro \/ h.wo)
  <2>1. Freed(e, x) = [e EXCEPT !.pp = [e.pp EXCEPT ![x] = NoPipe], !.km = e.km + 1]
    BY <1>5, <1>7 DEF Freed
  <2>2. Rest(b, w) = NoPipe /\ Gain(b, w) = 1
    BY <1>7 DEF Rest, Gain
  <2>3. [[k.pp EXCEPT ![x] = h] EXCEPT ![x] = NoPipe] = [k.pp EXCEPT ![x] = NoPipe]
    BY <1>1
  <2> HIDE DEF b, h, wr
  <2>4. Freed(e, x) = [fs |-> k.fs, ft |-> k.ft, pp |-> [k.pp EXCEPT ![x] = NoPipe], km |-> k.km + 1, pr |-> wr]
    BY <2>1, <2>3 DEF e
  <2> QED BY <1>4, <2>2, <2>4 DEF pipeclose, b, wr
<1> QED BY <1>6, <1>7

(* The last descriptor of an end of a pipe.                                *)
LEMMA LastEnd ==
  ASSUME NEW k, NEW D \in SUBSET (Slot \X Fd), Books(k.ft, k.pp, k.km, k.pr, D),
         NEW i \in File, NEW z \in Fds(k.pr, D, i), k.ft[i].ref = 1, k.ft[i].type = "pipe"
  PROVE  LET x  == k.ft[i].pipe
             w  == k.ft[i].w
             qr == Woken(k.pr, <<Other(w), x>>)
             qq == [k.pp EXCEPT ![x] = Rest(k.pp[x], w)]
         IN /\ x \in Pipe /\ w \in BOOLEAN
            /\ Books([k.ft EXCEPT ![i] = NoFile], qq, k.km + Gain(k.pp[x], w), qr, D \ {z})
            /\ Roused(k.pr, qr)
            /\ Owed(k.pr, k.pp) => Owed(qr, qq)
<1> PICK ft, pp, km, pr, x, w, qr :
      /\ ft = k.ft /\ pp = k.pp /\ km = k.km /\ pr = k.pr
      /\ x = ft[i].pipe /\ w = ft[i].w /\ qr = Woken(pr, <<Other(w), x>>)
      /\ Books(ft, pp, km, pr, D) /\ z \in Fds(pr, D, i) /\ ft[i].ref = 1 /\ ft[i].type = "pipe"
  OBVIOUS
<1> DEFINE b == pp[x]
           h == Half(b, w)
           c == Rest(b, w)
           gt == [ft EXCEPT ![i] = NoFile]
           qq == [pp EXCEPT ![x] = c]
<1>1. x \in Pipe /\ w \in BOOLEAN
  BY DEF Books, Files, OpenFile
<1>2. /\ gt = [j \in File |-> gt[j]] /\ gt[i] = NoFile /\ \A j \in File \ {i} : gt[j] = ft[j]
      /\ qq = [y \in Pipe |-> qq[y]] /\ qq[x] = c /\ \A y \in Pipe \ {x} : qq[y] = pp[y]
  BY <1>1 DEF Books, Files, Pipes
<1>3. Roused(pr, qr) /\ qr = [y \in Slot |-> qr[y]]
      /\ \A p \in Slot : qr[p].st = "SLEEPING" => qr[p].chan # <<Other(w), x>>
  BY WokenIs DEF Books
<1>4. Procs(qr) /\ PagesOf(qr) = PagesOf(pr) /\ \A E, j : E \subseteq Slot \X Fd => Fds(qr, E, j) = Fds(pr, E, j)
  BY <1>3, RousedProcs DEF Books
<1>5. /\ b = [data |-> b.data, ro |-> b.ro, wo |-> b.wo] /\ IsPipe(b)
      /\ b.ro \in BOOLEAN /\ b.wo \in BOOLEAN
  BY <1>1 DEF Books, Pipes, IsPipe
<1>6. h = [data |-> b.data, ro |-> w /\ b.ro, wo |-> ~w /\ b.wo]
  BY DEF Half
<1>7. c = IF h.ro \/ h.wo THEN h ELSE NoPipe
  BY DEF Rest
<1>8. IsPipe(c) /\ c.ro = (w /\ b.ro) /\ c.wo = (~w /\ b.wo)
  <2> HIDE DEF b, h, c
  <2>1. CASE h.ro \/ h.wo
    BY <1>1, <1>5, <1>6, <1>7, <2>1 DEF IsPipe
  <2>2. CASE ~(h.ro \/ h.wo)
    <3>1. c = [data |-> <<>>, ro |-> FALSE, wo |-> FALSE]
      BY <1>7, <2>2 DEF NoPipe
    <3>2. IsPipe(c)
      BY <3>1, TextLen, Sizes DEF IsPipe
    <3>3. ~(w /\ b.ro) /\ ~(~w /\ b.wo)
      BY <1>6, <2>2
    <3>4. (w /\ b.ro) = FALSE /\ (~w /\ b.wo) = FALSE
      BY <3>3
    <3> QED BY <3>1, <3>2, <3>4
  <2> QED BY <2>1, <2>2
<1>9. End(ft, i, x, w)
  BY DEF End
<1>10. (b.ro <=> \E j \in File : End(ft, j, x, FALSE)) /\ (b.wo <=> \E j \in File : End(ft, j, x, TRUE))
       /\ OneEnd(ft, x)
  BY <1>1 DEF Books, Ends
<1>11. ASSUME NEW j \in File, NEW y \in Pipe, NEW v \in BOOLEAN
       PROVE  End(gt, j, y, v) <=> End(ft, j, y, v) /\ ~(y = x /\ v = w)
  <2> HIDE DEF gt, qq, b, h, c
  <2>1. CASE j = i
    BY <1>2, <2>1 DEF End, NoFile
  <2>2. CASE j # i
    <3>1. End(gt, j, y, v) <=> End(ft, j, y, v)
      BY <1>2, <2>2 DEF End
    <3>2. ASSUME End(ft, j, y, v), y = x, v = w PROVE FALSE
      BY <1>9, <1>10, <2>2, <3>2 DEF OneEnd
    <3> QED BY <3>1, <3>2
  <2> QED BY <2>1, <2>2
<1>12. Ends(gt, qq)
  <2> HIDE DEF gt, qq, b, h, c
  <2> SUFFICES ASSUME NEW y \in Pipe
               PROVE  /\ qq[y].ro <=> \E j \in File : End(gt, j, y, FALSE)
                      /\ qq[y].wo <=> \E j \in File : End(gt, j, y, TRUE)
                      /\ OneEnd(gt, y)
    BY DEF Ends
  <2>1. (pp[y].ro <=> \E j \in File : End(ft, j, y, FALSE)) /\ (pp[y].wo <=> \E j \in File : End(ft, j, y, TRUE))
        /\ OneEnd(ft, y)
    BY DEF Books, Ends
  <2>2. OneEnd(gt, y)
    BY <1>11, <2>1 DEF OneEnd
  <2>3. CASE y # x
    <3>1. \A j \in File : \A v \in BOOLEAN : End(gt, j, y, v) <=> End(ft, j, y, v)
      BY <1>11, <2>3
    <3>2. qq[y] = pp[y]
      BY <1>2, <2>3
    <3> QED BY <2>1, <2>2, <3>1, <3>2
  <2>4. CASE y = x
    <3>1. \A j \in File : \A v \in BOOLEAN : End(gt, j, x, v) <=> End(ft, j, x, v) /\ v # w
      BY <1>11, <2>4
    <3>2. qq[x].ro = (w /\ b.ro) /\ qq[x].wo = (~w /\ b.wo)
      BY <1>2, <1>8
    <3>3. CASE w
      BY <1>1, <1>10, <2>2, <2>4, <3>1, <3>2, <3>3
    <3>4. CASE ~w
      BY <1>1, <1>10, <2>2, <2>4, <3>1, <3>2, <3>4
    <3> QED BY <3>3, <3>4
  <2> QED BY <2>3, <2>4
<1>13. Files(gt) /\ Pipes(qq)
  <2> HIDE DEF gt, qq, b, h, c
  <2>1. OpenFile(NoFile)
    BY DEF OpenFile, NoFile
  <2> QED BY <1>1, <1>2, <1>8, <2>1 DEF Books, Files, Pipes
<1>14. Refs(gt, qr, D \ {z})
  <2> HIDE DEF gt, qq, b, h, c
  <2> SUFFICES ASSUME NEW j \in File PROVE gt[j].ref = Cardinality(Fds(qr, D \ {z}, j))
    BY DEF Refs
  <2>1. Fds(qr, D \ {z}, j) = Fds(pr, D \ {z}, j)
    BY <1>4
  <2>2. /\ Cardinality(Fds(pr, D \ {z}, i)) = ft[i].ref - 1
        /\ \A l \in File \ {i} : Cardinality(Fds(pr, D \ {z}, l)) = ft[l].ref
    <3>1. Refs(ft, pr, D)
      BY DEF Books
    <3> QED BY <3>1, RefsLess
  <2>3. NoFile.ref = 0
    BY DEF NoFile
  <2>4. CASE j = i
    BY <1>2, <2>1, <2>2, <2>3, <2>4
  <2>5. CASE j # i
    BY <1>2, <2>1, <2>2, <2>5
  <2> QED BY <2>4, <2>5
<1>15. Paged(qq, km + Gain(b, w), qr)
  <2> HIDE DEF gt, qq, b, c
  <2>0. InUsePipes(pp) \in SUBSET Pipe /\ IsFiniteSet(InUsePipes(pp))
    BY Finite, FS_Subset DEF InUsePipes
  <2>1. b # NoPipe
    <3>1. w => b.wo
      BY <1>9, <1>10
    <3>2. ~w => b.ro
      BY <1>1, <1>9, <1>10
    <3>3. ~NoPipe.ro /\ ~NoPipe.wo
      BY DEF NoPipe
    <3> QED BY <3>1, <3>2, <3>3
  <2>2. x \in InUsePipes(pp)
    BY <1>1, <2>1 DEF InUsePipes, b
  <2>3. CASE h.ro \/ h.wo
    <3>1. c = h /\ h # NoPipe /\ Gain(b, w) = 0
      BY <1>6, <1>7, <2>3 DEF NoPipe, Gain
    <3>2. InUsePipes(qq) = InUsePipes(pp)
      BY <1>2, <2>2, <3>1 DEF InUsePipes
    <3> QED BY <1>4, <3>1, <3>2 DEF Books, Paged
  <2>4. CASE ~(h.ro \/ h.wo)
    <3>1. c = NoPipe /\ Gain(b, w) = 1
      BY <1>7, <2>4 DEF Gain
    <3>2. InUsePipes(qq) = InUsePipes(pp) \ {x}
      BY <1>2, <2>2, <3>1 DEF InUsePipes
    <3>3. Cardinality(InUsePipes(qq)) = Cardinality(InUsePipes(pp)) - 1 /\ Cardinality(InUsePipes(pp)) \in Nat
      <4>1. Cardinality(InUsePipes(pp) \ {x}) = Cardinality(InUsePipes(pp)) - 1
        BY <2>0, <2>2, OneLess
      <4> QED BY <2>0, <3>2, <4>1, FS_CardinalityType
    <3>4. Cardinality(PagesOf(pr)) \in Nat
      <4>1. PagesOf(pr) = PagesIn(pr, Slot)
        BY DEF PagesOf, PagesIn
      <4> QED BY <4>1, PagesFinite, FS_CardinalityType DEF Books
    <3> QED BY <1>4, <3>1, <3>3, <3>4 DEF Books, Paged
  <2> QED BY <2>3, <2>4
<1>16. Owed(pr, pp) => Owed(qr, qq)
  <2> SUFFICES ASSUME Owed(pr, pp) PROVE Owed(qr, qq)
    OBVIOUS
  <2>1. Rightly(qr, x, c)
    <3> SUFFICES ASSUME NEW p \in Slot, qr[p].st = "SLEEPING"
                 PROVE  /\ qr[p].chan = <<"nread", x>> => Empty(c.data) /\ c.wo
                        /\ qr[p].chan = <<"nwrite", x>> => Len(c.data) = PIPESIZE /\ c.ro
      BY DEF Rightly
    <3>1. Owed(qr, pp)
      BY <1>3, OwedRoused DEF Books
    <3>2. /\ qr[p].chan = <<"nread", x>> => Empty(b.data) /\ b.wo
          /\ qr[p].chan = <<"nwrite", x>> => Len(b.data) = PIPESIZE /\ b.ro
      <4> HIDE DEF h, c, qq, gt
      <4>1. Rightly(qr, x, b)
        BY <3>1, OwedRightly
      <4> QED BY <4>1 DEF Rightly
    <3> HIDE DEF b, h, c, qq, gt
    <3>3. h.ro \/ h.wo => c.data = b.data
      <4>1. h.data = b.data
        BY <1>6
      <4>2. h.ro \/ h.wo => c = h
        BY <1>7
      <4> QED BY <4>1, <4>2
    <3>4. CASE w
      <4>1. qr[p].chan # <<"nread", x>>
        BY <1>3, <3>4 DEF Other
      <4>2. ASSUME b.ro PROVE c.data = b.data /\ c.ro
        BY <1>6, <1>8, <3>3, <3>4, <4>2
      <4> QED BY <3>2, <4>1, <4>2
    <3>5. CASE ~w
      <4>1. qr[p].chan # <<"nwrite", x>>
        BY <1>3, <3>5 DEF Other
      <4>2. ASSUME b.wo PROVE c.data = b.data /\ c.wo
        BY <1>6, <1>8, <3>3, <3>5, <4>2
      <4> QED BY <3>2, <4>1, <4>2
    <3> QED BY <3>4, <3>5
  <2> QED BY <1>1, <1>3, <2>1, OwedKept DEF Books
<1> QED BY <1>1, <1>3, <1>4, <1>12, <1>13, <1>14, <1>15, <1>16 DEF Books

LEMMA FilecloseKeeps ==
  ASSUME NEW k, Closing(k), NEW D \in SUBSET (Slot \X Fd), Books(k.ft, k.pp, k.km, k.pr, D),
         NEW i \in File, NEW z \in Fds(k.pr, D, i), NEW r, r = fileclose(k, i)
  PROVE  /\ Closing(r) /\ Books(r.ft, r.pp, r.km, r.pr, D \ {z}) /\ Roused(k.pr, r.pr)
         /\ Owed(k.pr, k.pp) => Owed(r.pr, r.pp)
<1> DEFINE f == k.ft[i]
           gt == [k.ft EXCEPT ![i] = NoFile]
           h == [k EXCEPT !.ft = gt]
<1>1. OpenFile(f) /\ k.ft = [j \in File |-> k.ft[j]] /\ k.km \in Nat /\ Pipes(k.pp) /\ Refs(k.ft, k.pr, D)
  BY DEF Books, Files, Paged
<1>2. /\ f.ref \in Nat \ {0} /\ Cardinality(Fds(k.pr, D \ {z}, i)) = f.ref - 1
      /\ \A j \in File \ {i} : Cardinality(Fds(k.pr, D \ {z}, j)) = k.ft[j].ref
  BY <1>1, RefsLess
<1>3. h = [fs |-> k.fs, ft |-> gt, pp |-> k.pp, km |-> k.km, pr |-> k.pr]
  <2> HIDE DEF gt
  <2> QED BY DEF Closing
<1>4. /\ gt = [j \in File |-> gt[j]] /\ gt[i] = NoFile /\ \A j \in File \ {i} : gt[j] = k.ft[j]
  BY <1>1
<1>5. fileclose(k, i) = IF f.ref > 1 THEN [k EXCEPT !.ft[i].ref = @ - 1]
                        ELSE CASE f.type = "pipe"  -> pipeclose(h, f.pipe, f.w)
                               [] f.type = "inode" -> [h EXCEPT !.fs = iput(@, f.ip)]
                               [] OTHER            -> h
  BY DEF fileclose
<1>6. Roused(k.pr, k.pr)
  BY DEF Roused
<1> HIDE DEF gt, h
<1>7. CASE f.ref > 1
  <2> DEFINE g == [type |-> f.type, ref |-> f.ref - 1, r |-> f.r, w |-> f.w, ip |-> f.ip, off |-> f.off,
                   pipe |-> f.pipe]
             nt == [k.ft EXCEPT ![i] = g]
  <2>1. [f EXCEPT !.ref = @ - 1] = g
    <3> HIDE DEF f
    <3> QED BY <1>1 DEF OpenFile
  <2>2. r = [k EXCEPT !.ft = nt]
    BY <1>5, <1>7, <2>1
  <2>3. r = [fs |-> k.fs, ft |-> nt, pp |-> k.pp, km |-> k.km, pr |-> k.pr]
    <3> HIDE DEF nt
    <3> QED BY <2>2 DEF Closing
  <2>4. nt = [j \in File |-> nt[j]] /\ nt[i] = g /\ \A j \in File \ {i} : nt[j] = k.ft[j]
    BY <1>1
  <2>5. g.type = f.type /\ g.pipe = f.pipe /\ g.w = f.w /\ g.ref = f.ref - 1 /\ OpenFile(g)
    <3> HIDE DEF f
    <3> QED BY <1>1, <1>2, <1>7 DEF OpenFile
  <2> HIDE DEF g, nt
  <2>6. Files(nt)
    BY <2>4, <2>5 DEF Files, Books
  <2>7. \A j \in File : \A x \in Pipe : \A w \in BOOLEAN : End(nt, j, x, w) <=> End(k.ft, j, x, w)
    BY <2>4, <2>5 DEF End
  <2>8. Ends(nt, k.pp)
    BY <2>7, EndsSame DEF Books
  <2>9. Refs(nt, k.pr, D \ {z})
    <3> SUFFICES ASSUME NEW j \in File PROVE nt[j].ref = Cardinality(Fds(k.pr, D \ {z}, j))
      BY DEF Refs
    <3> QED BY <1>2, <2>4, <2>5
  <2>10. Books(nt, k.pp, k.km, k.pr, D \ {z})
    BY <2>6, <2>8, <2>9 DEF Books
  <2> QED BY <1>6, <2>3, <2>10 DEF Closing
<1>8. CASE f.ref = 1 /\ f.type = "pipe"
  <2> DEFINE x == f.pipe
             w == f.w
             qr == Woken(k.pr, <<Other(w), x>>)
             qq == [k.pp EXCEPT ![x] = Rest(k.pp[x], w)]
             m == k.km + Gain(k.pp[x], w)
  <2>2. /\ x \in Pipe /\ w \in BOOLEAN /\ Books(gt, qq, m, qr, D \ {z}) /\ Roused(k.pr, qr)
        /\ Owed(k.pr, k.pp) => Owed(qr, qq)
    BY <1>8, LastEnd DEF gt
  <2>3. Closing(h) /\ h.fs = k.fs /\ h.ft = gt /\ h.pp = k.pp /\ h.km = k.km /\ h.pr = k.pr
    BY <1>3 DEF Closing
  <2>4. r = pipeclose(h, x, w)
    BY <1>5, <1>8
  <2>5. pipeclose(h, x, w) = [fs |-> h.fs, ft |-> h.ft, pp |-> [h.pp EXCEPT ![x] = Rest(h.pp[x], w)],
                              km |-> h.km + Gain(h.pp[x], w), pr |-> Woken(h.pr, <<Other(w), x>>)]
    <3> HIDE DEF x, w
    <3> QED BY <1>1, <2>2, <2>3, PipecloseIs
  <2>6. r = [fs |-> k.fs, ft |-> gt, pp |-> qq, km |-> m, pr |-> qr]
    BY <2>3, <2>4, <2>5
  <2> HIDE DEF x, w, qr, qq, m
  <2> QED BY <2>2, <2>6 DEF Closing
<1>9. CASE f.ref = 1 /\ f.type # "pipe"
  <2>1. r.ft = gt /\ r.pp = k.pp /\ r.km = k.km /\ r.pr = k.pr /\ Closing(r)
    <3>1. CASE f.type = "inode"
      <4>1. r = [h EXCEPT !.fs = iput(h.fs, f.ip)]
        BY <1>5, <1>9, <3>1
      <4> QED BY <1>3, <4>1 DEF Closing
    <3>2. CASE f.type # "inode"
      <4>1. r = h
        BY <1>5, <1>9, <3>2
      <4> QED BY <1>3, <4>1 DEF Closing
    <3> QED BY <3>1, <3>2
  <2>2. OpenFile(NoFile) /\ NoFile.type # "pipe" /\ NoFile.ref = 0
    BY DEF OpenFile, NoFile
  <2>3. Files(gt)
    BY <1>4, <2>2 DEF Files, Books
  <2>4. \A j \in File : \A x \in Pipe : \A w \in BOOLEAN : End(gt, j, x, w) <=> End(k.ft, j, x, w)
    BY <1>4, <1>9, <2>2 DEF End
  <2>5. Ends(gt, k.pp)
    BY <2>4, EndsSame DEF Books
  <2>6. Refs(gt, k.pr, D \ {z})
    <3> SUFFICES ASSUME NEW j \in File PROVE gt[j].ref = Cardinality(Fds(k.pr, D \ {z}, j))
      BY DEF Refs
    <3> QED BY <1>2, <1>4, <1>9, <2>2
  <2>7. Books(gt, k.pp, k.km, k.pr, D \ {z})
    BY <2>3, <2>5, <2>6 DEF Books
  <2> QED BY <1>6, <2>1, <2>7
<1> QED BY <1>2, <1>7, <1>8, <1>9

-----------------------------------------------------------------------------
(* exit closes what the process holds, descriptor after descriptor.        *)

LEMMA DroppedRounds ==
  ASSUME NEW p
  PROVE  \E at : /\ at = [d \in 0..NOFILE |->
                            IF d = 0 THEN Objects
                            ELSE IF proc[p].ofile[d - 1] = 0 THEN at[d - 1]
                            ELSE fileclose(at[d - 1], proc[p].ofile[d - 1])]
                 /\ Dropped(p) = at[NOFILE]
<1> DEFINE Step(k, d) == IF proc[p].ofile[d - 1] = 0 THEN k ELSE fileclose(k, proc[p].ofile[d - 1])
           S == {n \in Nat : \E at : at = [d \in 0..n |-> IF d = 0 THEN Objects ELSE Step(at[d - 1], d)]}
<1> HIDE DEF Step
<1>1. 0 \in S
  <2>1. [d \in 0..0 |-> Objects] =
          [d \in 0..0 |-> IF d = 0 THEN Objects ELSE Step([e \in 0..0 |-> Objects][d - 1], d)]
    OBVIOUS
  <2> QED BY <2>1
<1>2. ASSUME NEW n \in Nat, n \in S PROVE n + 1 \in S
  <2>1. PICK at : at = [d \in 0..n |-> IF d = 0 THEN Objects ELSE Step(at[d - 1], d)]
    BY <1>2
  <2> DEFINE bt == [d \in 0..(n + 1) |-> IF d = n + 1 THEN Step(at[n], n + 1) ELSE at[d]]
  <2>2. ASSUME NEW d \in 0..(n + 1) PROVE bt[d] = IF d = 0 THEN Objects ELSE Step(bt[d - 1], d)
    <3>1. CASE d = n + 1
      <4>1. d # 0 /\ d - 1 = n /\ bt[n] = at[n]
        BY <3>1
      <4> QED BY <3>1, <4>1
    <3>2. CASE d # n + 1
      <4>1. d \in 0..n /\ (d # 0 => d - 1 \in 0..n) /\ d - 1 # n + 1
        BY <3>2
      <4>2. at[d] = IF d = 0 THEN Objects ELSE Step(at[d - 1], d)
        BY <2>1, <4>1
      <4> QED BY <4>1, <4>2
    <3> QED BY <3>1, <3>2
  <2>3. bt = [d \in 0..(n + 1) |-> IF d = 0 THEN Objects ELSE Step(bt[d - 1], d)]
    <3>1. bt = [d \in 0..(n + 1) |-> bt[d]]
      OBVIOUS
    <3> HIDE DEF bt
    <3> QED BY <2>2, <3>1
  <2>4. \E ct : ct = [d \in 0..(n + 1) |-> IF d = 0 THEN Objects ELSE Step(ct[d - 1], d)]
    <3> HIDE DEF bt
    <3> WITNESS bt
    <3> QED BY <2>3
  <2> QED BY <2>4
<1>3. NOFILE \in S
  <2>1. Nat \subseteq S
    <3> HIDE DEF S
    <3> QED BY <1>1, <1>2, NatsIn
  <2> QED BY <2>1, Sizes
<1>4. \E at : at = [d \in 0..NOFILE |-> IF d = 0 THEN Objects ELSE Step(at[d - 1], d)]
  BY <1>3
<1> QED BY <1>4, Zenon DEF Dropped, Step

(* The descriptors that are left when those of p below n are closed.       *)
Left(p, n) == {z \in Slot \X Fd : z[1] # p \/ z[2] >= n}

(* k is what closing some descriptors made of the kernel's objects.        *)
Follows(k, D) ==
  /\ Closing(k) /\ Books(k.ft, k.pp, k.km, k.pr, D) /\ Roused(proc, k.pr)
  /\ Owed(proc, pipes) => Owed(k.pr, k.pp)

LEMMA FollowsOn ==
  ASSUME NEW p \in Slot, Procs(proc), NEW n \in Fd, NEW k, Follows(k, Left(p, n)),
         proc[p].ofile[n] # 0
  PROVE  Follows(fileclose(k, proc[p].ofile[n]), Left(p, n + 1))
<1> DEFINE i == proc[p].ofile[n]
           z == <<p, n>>
           D == Left(p, n)
           r == fileclose(k, i)
<1>1. n \in Nat /\ z \in D /\ D \in SUBSET (Slot \X Fd) /\ D \ {z} = Left(p, n + 1)
  <2>1. \A y \in Slot \X Fd : y[1] \in Slot /\ y[2] \in Nat /\ y = <<y[1], y[2]>>
    BY DEF Fd
  <2>2. n \in Nat
    BY DEF Fd
  <2>3. z \in D
    BY <2>2 DEF Left
  <2>4. ASSUME NEW y \in Slot \X Fd PROVE y \in D \ {z} <=> y \in Left(p, n + 1)
    <3>1. y[2] \in Nat /\ y = <<y[1], y[2]>>
      BY <2>1
    <3>2. y = z <=> y[1] = p /\ y[2] = n
      BY <3>1
    <3>3. y[2] >= n + 1 <=> y[2] >= n /\ y[2] # n
      BY <2>2, <3>1
    <3> HIDE DEF z
    <3> QED BY <3>2, <3>3 DEF Left
  <2>5. D \subseteq Slot \X Fd /\ Left(p, n + 1) \subseteq Slot \X Fd
    BY DEF Left
  <2> HIDE DEF D, z
  <2> QED BY <2>2, <2>3, <2>4, <2>5
<1>2. i \in File
  BY DEF Procs, Process
<1>3. k.pr[p].ofile = proc[p].ofile
  BY RousedAlike DEF Follows, Alike
<1>4. z \in Fds(k.pr, D, i)
  BY <1>1, <1>3 DEF Fds
<1> HIDE DEF i, z, D, r
<1>5. Closing(r) /\ Books(r.ft, r.pp, r.km, r.pr, D \ {z}) /\ Roused(k.pr, r.pr) /\ (Owed(k.pr, k.pp) => Owed(r.pr, r.pp))
  BY <1>1, <1>2, <1>4, FilecloseKeeps DEF Follows, r, D
<1>6. Roused(proc, r.pr)
  BY <1>5, RousedOn DEF Follows
<1>7. Follows(r, Left(p, n + 1))
  BY <1>1, <1>5, <1>6 DEF Follows
<1> QED BY <1>7 DEF r, i

LEMMA DroppedKeeps ==
  ASSUME NEW p \in Slot, Books(ftable, pipes, kmem, proc, Slot \X Fd)
  PROVE  Follows(Dropped(p), Left(p, NOFILE))
<1>0. PICK at : /\ at = [d \in 0..NOFILE |->
                           IF d = 0 THEN Objects
                           ELSE IF proc[p].ofile[d - 1] = 0 THEN at[d - 1]
                           ELSE fileclose(at[d - 1], proc[p].ofile[d - 1])]
                /\ Dropped(p) = at[NOFILE]
  BY DroppedRounds
<1> DEFINE S == {n \in Nat : n <= NOFILE => Follows(at[n], Left(p, n))}
<1>1. 0 \in S
  <2>1. at[0] = Objects
    BY <1>0, Sizes
  <2>2. Left(p, 0) = Slot \X Fd
    <3>1. \A z \in Slot \X Fd : z[2] >= 0
      BY DEF Fd
    <3> QED BY <3>1 DEF Left
  <2>3. Follows(Objects, Slot \X Fd)
    BY DEF Follows, Closing, Objects, Roused
  <2> QED BY <2>1, <2>2, <2>3
<1>2. ASSUME NEW n \in Nat, n \in S PROVE n + 1 \in S
  <2> SUFFICES ASSUME n + 1 <= NOFILE PROVE Follows(at[n + 1], Left(p, n + 1))
    OBVIOUS
  <2>1. n \in Fd /\ n + 1 \in 0..NOFILE /\ n <= NOFILE /\ (n + 1) - 1 = n /\ n + 1 # 0
    BY Sizes DEF Fd
  <2>2. Follows(at[n], Left(p, n))
    BY <1>2, <2>1
  <2>3. at[n + 1] = IF proc[p].ofile[n] = 0 THEN at[n] ELSE fileclose(at[n], proc[p].ofile[n])
    BY <1>0, <2>1
  <2>4. Procs(proc)
    BY DEF Books
  <2>5. CASE proc[p].ofile[n] # 0
    BY <2>1, <2>2, <2>3, <2>4, <2>5, FollowsOn
  <2>6. CASE proc[p].ofile[n] = 0
    <3> DEFINE k == at[n]
    <3>1. Follows(k, Left(p, n)) /\ at[n + 1] = k
      BY <2>2, <2>3, <2>6
    <3> HIDE DEF k
    <3>2. k.pr[p].ofile[n] = 0
      BY <2>4, <2>6, <3>1, RousedAlike DEF Follows, Alike
    <3>3. ASSUME NEW i \in File PROVE Fds(k.pr, Left(p, n), i) = Fds(k.pr, Left(p, n + 1), i)
      <4>1. i # 0
        BY DEF File
      <4>2. ASSUME NEW z \in Slot \X Fd PROVE z \in Fds(k.pr, Left(p, n), i) <=> z \in Fds(k.pr, Left(p, n + 1), i)
        <5>1. z[2] \in Nat
          BY DEF Fd
        <5>2. z[2] >= n + 1 <=> z[2] >= n /\ z[2] # n
          BY <5>1
        <5>3. k.pr[z[1]].ofile[z[2]] = i => z[1] # p \/ z[2] # n
          BY <3>2, <4>1
        <5> QED BY <5>2, <5>3 DEF Fds, Left
      <4>3. Fds(k.pr, Left(p, n), i) \subseteq Slot \X Fd /\ Fds(k.pr, Left(p, n + 1), i) \subseteq Slot \X Fd
        BY DEF Fds, Left
      <4> QED BY <4>2, <4>3
    <3>4. Follows(k, Left(p, n + 1))
      BY <3>1, <3>3 DEF Follows, Books, Refs
    <3> QED BY <3>1, <3>4
  <2> QED BY <2>5, <2>6
<1>3. NOFILE \in S
  <2>1. Nat \subseteq S
    <3> HIDE DEF S
    <3> QED BY <1>1, <1>2, NatsIn
  <2> QED BY <2>1, Sizes
<1>4. NOFILE <= NOFILE
  BY Sizes
<1> QED BY <1>0, <1>3, <1>4

-----------------------------------------------------------------------------
(* One process changes.                                                    *)

(* The fields of a process that the books look at.                         *)
Looks(r, st, kstack, killed, mem, chan, ofile, rest) ==
  /\ r = [st |-> r.st, pid |-> r.pid, parent |-> r.parent, killed |-> r.killed, kstack |-> r.kstack, mem |-> r.mem,
          chan |-> r.chan, ofile |-> r.ofile, cwd |-> r.cwd, rest |-> r.rest]
  /\ r.st = st /\ r.kstack = kstack /\ r.killed = killed /\ r.mem = mem /\ r.chan = chan /\ r.ofile = ofile
  /\ r.rest = rest

LEMMA Changed ==
  ASSUME NEW q, Process(q), NEW v
  PROVE  /\ Looks(q, q.st, q.kstack, q.killed, q.mem, q.chan, q.ofile, q.rest)
         /\ Looks([q EXCEPT !.cwd = v], q.st, q.kstack, q.killed, q.mem, q.chan, q.ofile, q.rest)
         /\ Looks([q EXCEPT !.parent = v], q.st, q.kstack, q.killed, q.mem, q.chan, q.ofile, q.rest)
         /\ Looks([q EXCEPT !.st = v], v, q.kstack, q.killed, q.mem, q.chan, q.ofile, q.rest)
         /\ Looks([q EXCEPT !.pid = v], q.st, q.kstack, q.killed, q.mem, q.chan, q.ofile, q.rest)
         /\ Looks([q EXCEPT !.kstack = v], q.st, v, q.killed, q.mem, q.chan, q.ofile, q.rest)
         /\ Looks([q EXCEPT !.killed = v], q.st, q.kstack, v, q.mem, q.chan, q.ofile, q.rest)
         /\ Looks([q EXCEPT !.mem = v], q.st, q.kstack, q.killed, v, q.chan, q.ofile, q.rest)
         /\ Looks([q EXCEPT !.chan = v], q.st, q.kstack, q.killed, q.mem, v, q.ofile, q.rest)
         /\ Looks([q EXCEPT !.ofile = v], q.st, q.kstack, q.killed, q.mem, q.chan, v, q.rest)
         /\ Looks([q EXCEPT !.rest = v], q.st, q.kstack, q.killed, q.mem, q.chan, q.ofile, v)
<1> DEFINE a == [st |-> q.st, pid |-> q.pid, parent |-> q.parent, killed |-> q.killed, kstack |-> q.kstack, mem |-> q.mem,
                 chan |-> q.chan, ofile |-> q.ofile, cwd |-> q.cwd, rest |-> q.rest]
<1>1. q = a
  BY DEF Process
<1>2. Looks(q, q.st, q.kstack, q.killed, q.mem, q.chan, q.ofile, q.rest)
  BY <1>1 DEF Looks
<1>3. Looks([q EXCEPT !.cwd = v], q.st, q.kstack, q.killed, q.mem, q.chan, q.ofile, q.rest)
  BY <1>1 DEF Looks
<1>4. Looks([q EXCEPT !.parent = v], q.st, q.kstack, q.killed, q.mem, q.chan, q.ofile, q.rest)
  BY <1>1 DEF Looks
<1>5. Looks([q EXCEPT !.st = v], v, q.kstack, q.killed, q.mem, q.chan, q.ofile, q.rest)
  BY <1>1 DEF Looks
<1>6. Looks([q EXCEPT !.killed = v], q.st, q.kstack, v, q.mem, q.chan, q.ofile, q.rest)
  BY <1>1 DEF Looks
<1>7. Looks([q EXCEPT !.mem = v], q.st, q.kstack, q.killed, v, q.chan, q.ofile, q.rest)
  BY <1>1 DEF Looks
<1>8. Looks([q EXCEPT !.chan = v], q.st, q.kstack, q.killed, q.mem, v, q.ofile, q.rest)
  BY <1>1 DEF Looks
<1>9. Looks([q EXCEPT !.ofile = v], q.st, q.kstack, q.killed, q.mem, q.chan, v, q.rest)
  BY <1>1 DEF Looks
<1>10. Looks([q EXCEPT !.rest = v], q.st, q.kstack, q.killed, q.mem, q.chan, q.ofile, v)
  BY <1>1 DEF Looks
<1>11. Looks([q EXCEPT !.kstack = v], q.st, v, q.killed, q.mem, q.chan, q.ofile, q.rest)
  BY <1>1 DEF Looks
<1>12. Looks([q EXCEPT !.pid = v], q.st, q.kstack, q.killed, q.mem, q.chan, q.ofile, q.rest)
  BY <1>1 DEF Looks
<1> QED BY <1>2, <1>3, <1>4, <1>5, <1>6, <1>7, <1>8, <1>9, <1>10, <1>11, <1>12

(* Two processes the books cannot tell apart.                              *)
LEMMA SameProcess ==
  ASSUME NEW q, Process(q), NEW r, Looks(r, q.st, q.kstack, q.killed, q.mem, q.chan, q.ofile, q.rest)
  PROVE  Process(r)
BY DEF Looks, Process

(* What a step keeps: the books, and with them what sleepers are owed.     *)
Kept ==
  /\ nextpid' \in Nat \ {0}
  /\ Books(ftable', pipes', kmem', proc', Slot \X Fd)
  /\ Owed(proc, pipes) /\ Brief(proc) => Owed(proc', pipes') /\ Brief(proc')

LEMMA Idle ==
  ASSUME SysInv, UNCHANGED <<proc, ftable, pipes, kmem, nextpid>>
  PROVE  Kept
BY DEF SysInv, Kept

LEMMA BriefOthers ==
  ASSUME NEW pr, NEW qr, Brief(pr), NEW p \in Slot, \A x \in Slot : x # p => qr[x] = pr[x],
         Len(qr[p].rest) <= PIPESIZE
  PROVE  Brief(qr)
BY DEF Brief

(* A process that keeps its stack, its memory and its descriptors.         *)
LEMMA OneProcAgain ==
  ASSUME SysInv, NEW p \in Slot, NEW q, Process(q), proc' = [proc EXCEPT ![p] = q],
         q.kstack = proc[p].kstack, q.mem = proc[p].mem, q.ofile = proc[p].ofile,
         q.rest = proc[p].rest \/ q.rest = <<>>,
         q.st = "SLEEPING" => OwedOne(q, pipes),
         UNCHANGED <<ftable, pipes, kmem>>, nextpid' \in Nat \ {0}
  PROVE  Kept
<1>1. Procs(proc') /\ proc'[p] = q /\ \A x \in Slot : x # p => proc'[x] = proc[x]
  <2>1. Procs(proc)
    BY DEF SysInv, Books
  <2>2. DOMAIN proc = Slot
    BY <2>1 DEF Procs
  <2>3. proc' = [x \in Slot |-> proc'[x]] /\ proc'[p] = q /\ \A x \in Slot : x # p => proc'[x] = proc[x]
    BY <2>2
  <2> QED BY <2>1, <2>3 DEF Procs
<1>2. \A x \in Slot : proc'[x].kstack = proc[x].kstack /\ proc'[x].mem = proc[x].mem /\ proc'[x].ofile = proc[x].ofile
  BY <1>1
<1>3. Books(ftable, pipes, kmem, proc', Slot \X Fd)
  BY <1>1, <1>2, BooksProc DEF SysInv
<1>4. ASSUME Owed(proc, pipes) PROVE Owed(proc', pipes)
  <2>1. proc'[p].st = "SLEEPING" => OwedOne(proc'[p], pipes)
    BY <1>1
  <2> QED BY <1>1, <1>4, <2>1 DEF Owed
<1>5. ASSUME Brief(proc) PROVE Brief(proc')
  <2>1. Len(q.rest) <= PIPESIZE
    BY <1>5, TextLen, Sizes DEF Brief
  <2> QED BY <1>1, <1>5, <2>1, BriefOthers
<1> QED BY <1>3, <1>4, <1>5 DEF Kept, SysInv

LEMMA OneProc ==
  ASSUME SysInv, NEW p \in Slot, NEW q, Process(q), proc' = [proc EXCEPT ![p] = q],
         q.kstack = proc[p].kstack, q.mem = proc[p].mem, q.ofile = proc[p].ofile,
         q.rest = proc[p].rest \/ q.rest = <<>>,
         q.st = "SLEEPING" => OwedOne(q, pipes),
         UNCHANGED <<ftable, pipes, kmem, nextpid>>
  PROVE  Kept
<1>1. nextpid' \in Nat \ {0}
  BY DEF SysInv
<1> QED BY <1>1, OneProcAgain

-----------------------------------------------------------------------------
(* The calls that leave the books alone.                                   *)

LEMMA FsCallKept ==
  ASSUME SysInv, NEW p, NEW o, FsCall(p, o)
  PROVE  Kept
BY Idle DEF FsCall

LEMMA ChangeDirKept ==
  ASSUME SysInv, NEW p \in Slot, proc[p].st = "RUNNABLE", NEW n, ChangeDir(p, n)
  PROVE  Kept
<1> DEFINE v == IF Enterable(n) THEN n.ip ELSE proc[p].cwd
           q == [proc[p] EXCEPT !.cwd = v]
<1>1. Process(proc[p])
  BY DEF SysInv, Books, Procs
<1>2. proc' = [proc EXCEPT ![p] = q] /\ UNCHANGED <<ftable, pipes, kmem, nextpid>>
  BY DEF ChangeDir
<1>3. Looks(q, proc[p].st, proc[p].kstack, proc[p].killed, proc[p].mem, proc[p].chan, proc[p].ofile, proc[p].rest)
  <2> HIDE DEF v
  <2> QED BY <1>1, Changed
<1> HIDE DEF q
<1>4. Process(q)
  BY <1>1, <1>3, SameProcess
<1>5. q.kstack = proc[p].kstack /\ q.mem = proc[p].mem /\ q.ofile = proc[p].ofile /\ q.rest = proc[p].rest
      /\ q.st # "SLEEPING"
  BY <1>3 DEF Looks
<1> QED BY <1>2, <1>4, <1>5, OneProc

LEMMA FaultKept ==
  ASSUME SysInv, NEW p \in Slot, proc[p].st = "RUNNABLE", fault(p)
  PROVE  Kept
<1> DEFINE q == [proc[p] EXCEPT !.killed = TRUE]
<1>1. Process(proc[p])
  BY DEF SysInv, Books, Procs
<1>2. proc' = [proc EXCEPT ![p] = q] /\ UNCHANGED <<ftable, pipes, kmem, nextpid>>
  BY DEF fault
<1>3. Looks(q, proc[p].st, proc[p].kstack, TRUE, proc[p].mem, proc[p].chan, proc[p].ofile, proc[p].rest)
  BY <1>1, Changed
<1> HIDE DEF q
<1>4. Process(q)
  BY <1>1, <1>3 DEF Looks, Process
<1>5. q.kstack = proc[p].kstack /\ q.mem = proc[p].mem /\ q.ofile = proc[p].ofile /\ q.rest = proc[p].rest
      /\ q.st # "SLEEPING"
  BY <1>3 DEF Looks
<1> QED BY <1>2, <1>4, <1>5, OneProc

LEMMA KillKept ==
  ASSUME SysInv, NEW p, NEW pid, sys_kill(p, pid)
  PROVE  Kept
<1> DEFINE at == {x \in Slot : proc[x].pid = pid}
           m == Min(at)
           q == Struck(proc[m])
<1>1. /\ proc' = IF at = {} THEN proc ELSE [proc EXCEPT ![m] = q]
      /\ UNCHANGED <<ftable, pipes, kmem, nextpid>>
  BY DEF sys_kill
<1>2. CASE at = {}
  BY <1>1, <1>2, Idle
<1>3. CASE at # {}
  <2>1. m \in at
    <3>1. at \subseteq Nat
      BY DEF Slot
    <3> HIDE DEF at
    <3> QED BY <1>3, <3>1, MinIs
  <2>2. m \in Slot /\ proc' = [proc EXCEPT ![m] = q]
    BY <1>1, <1>3, <2>1
  <2> HIDE DEF at, m
  <2>3. Process(proc[m])
    BY <2>2 DEF SysInv, Books, Procs
  <2>4. /\ Process(q) /\ q.kstack = proc[m].kstack /\ q.mem = proc[m].mem /\ q.ofile = proc[m].ofile
        /\ q.rest = proc[m].rest /\ q.st # "SLEEPING"
    <3> DEFINE a == proc[m]
               s == IF a.st = "SLEEPING" THEN "RUNNABLE" ELSE a.st
               b == [a EXCEPT !.killed = TRUE]
    <3> HIDE DEF a
    <3>1. Process(a)
      BY <2>3 DEF a
    <3>2. Looks(b, a.st, a.kstack, TRUE, a.mem, a.chan, a.ofile, a.rest)
      BY <3>1, Changed
    <3>3. Process(b)
      BY <3>1, <3>2 DEF Looks, Process
    <3>4. b.st = a.st
      BY <3>2 DEF Looks
    <3>5. q = [b EXCEPT !.st = s]
      BY <3>1, <3>4 DEF Struck, a, Process
    <3> HIDE DEF b
    <3>6. Looks(q, s, b.kstack, b.killed, b.mem, b.chan, b.ofile, b.rest)
      <4> HIDE DEF s, q
      <4> QED BY <3>3, <3>5, Changed
    <3> HIDE DEF q
    <3>7. Looks(q, s, a.kstack, TRUE, a.mem, a.chan, a.ofile, a.rest)
      BY <3>2, <3>6 DEF Looks
    <3>8. Process(q) /\ q.kstack = a.kstack /\ q.mem = a.mem /\ q.ofile = a.ofile /\ q.rest = a.rest /\ q.st # "SLEEPING"
      BY <3>1, <3>7 DEF Looks, Process, States
    <3> QED BY <3>8 DEF a
  <2> HIDE DEF q
  <2> QED BY <1>1, <2>2, <2>4, OneProc
<1> QED BY <1>2, <1>3

(* A sleeper on pipe x.                                                    *)
LEMMA AsleepIs ==
  ASSUME NEW q, Process(q), q.st = "RUNNABLE", NEW ch \in Channels
  PROVE  /\ Looks(Asleep(q, ch), "SLEEPING", q.kstack, q.killed, q.mem, ch, q.ofile, q.rest)
         /\ Process(Asleep(q, ch))
<1> DEFINE a == [q EXCEPT !.st = "SLEEPING"]
<1>1. Looks(a, "SLEEPING", q.kstack, q.killed, q.mem, q.chan, q.ofile, q.rest)
  BY Changed
<1>2. Asleep(q, ch) = [a EXCEPT !.chan = ch]
  BY DEF Asleep
<1> HIDE DEF a
<1>3. Looks(Asleep(q, ch), "SLEEPING", q.kstack, q.killed, q.mem, ch, q.ofile, q.rest)
  BY <1>1, <1>2 DEF Looks
<1>4. Process(Asleep(q, ch))
  BY <1>3 DEF Looks, Process, States
<1> QED BY <1>3, <1>4

LEMMA AwakeIs ==
  ASSUME NEW q, Process(q), q.st = "RUNNABLE"
  PROVE  /\ Looks(Awake(q), "RUNNABLE", q.kstack, q.killed, q.mem, NoProc.chan, q.ofile, q.rest)
         /\ Process(Awake(q))
<1>1. Looks(Awake(q), "RUNNABLE", q.kstack, q.killed, q.mem, NoProc.chan, q.ofile, q.rest)
  BY Changed DEF Awake
<1>2. Process(Awake(q))
  <2> DEFINE r == Awake(q)
  <2> HIDE DEF r
  <2>1. Looks(r, "RUNNABLE", q.kstack, q.killed, q.mem, NoProc.chan, q.ofile, q.rest)
    BY <1>1 DEF r
  <2>2. Process(r)
    BY <2>1 DEF Looks, Process
  <2> QED BY <2>2 DEF r
<1> QED BY <1>1, <1>2

(* The open file behind a descriptor.                                      *)
LEMMA ArgfdIs ==
  ASSUME SysInv, NEW p \in Slot, NEW d, argfd(p, d) # 0
  PROVE  /\ d \in Fd /\ argfd(p, d) = proc[p].ofile[d] /\ argfd(p, d) \in File
         /\ OpenFile(ftable[argfd(p, d)])
         /\ ftable[argfd(p, d)].type = "pipe" =>
              LET x == ftable[argfd(p, d)].pipe
              IN x \in Pipe /\ IsPipe(pipes[x]) /\ (pipes[x].ro \/ pipes[x].wo)
<1> DEFINE i == argfd(p, d)
           x == ftable[i].pipe
<1>1. d \in Fd /\ i = proc[p].ofile[d]
  BY DEF argfd
<1>2. i \in File
  BY <1>1 DEF SysInv, Books, Procs, Process
<1> HIDE DEF i
<1>3. OpenFile(ftable[i])
  BY <1>2 DEF SysInv, Books, Files
<1>4. ASSUME ftable[i].type = "pipe" PROVE x \in Pipe /\ IsPipe(pipes[x]) /\ (pipes[x].ro \/ pipes[x].wo)
  <2>1. x \in Pipe /\ ftable[i].w \in BOOLEAN
    BY <1>3, <1>4 DEF OpenFile
  <2>2. IsPipe(pipes[x])
    BY <2>1 DEF SysInv, Books, Pipes
  <2>3. End(ftable, i, x, ftable[i].w)
    BY <1>4 DEF End
  <2>4. (pipes[x].ro <=> \E j \in File : End(ftable, j, x, FALSE)) /\ (pipes[x].wo <=> \E j \in File : End(ftable, j, x, TRUE))
    BY <2>1 DEF SysInv, Books, Ends
  <2> HIDE DEF x
  <2> QED BY <1>2, <2>1, <2>2, <2>3, <2>4
<1> QED BY <1>1, <1>2, <1>3, <1>4 DEF i, x

LEMMA PipeSleepKept ==
  ASSUME SysInv, NEW p \in Slot, proc[p].st = "RUNNABLE", NEW d, pipe_sleep(p, d)
  PROVE  Kept
<1> DEFINE x == ftable[argfd(p, d)].pipe
           q == Asleep(proc[p], <<"nread", x>>)
<1>1. /\ argfd(p, d) # 0 /\ ftable[argfd(p, d)].type = "pipe" /\ pipes[x].data = <<>> /\ pipes[x].wo
      /\ ~proc[p].killed /\ proc' = [proc EXCEPT ![p] = q] /\ UNCHANGED <<ftable, pipes, kmem, nextpid>>
  BY DEF pipe_sleep
<1>2. x \in Pipe
  BY <1>1, ArgfdIs
<1> HIDE DEF x
<1>3. Process(proc[p]) /\ <<"nread", x>> \in Channels
  BY <1>2 DEF SysInv, Books, Procs, Channels
<1>4. Process(q) /\ Looks(q, "SLEEPING", proc[p].kstack, proc[p].killed, proc[p].mem, <<"nread", x>>, proc[p].ofile, proc[p].rest)
  BY <1>3, AsleepIs
<1> HIDE DEF q
<1>5. /\ q.kstack = proc[p].kstack /\ q.mem = proc[p].mem /\ q.ofile = proc[p].ofile /\ q.rest = proc[p].rest
      /\ q.chan = <<"nread", x>> /\ q.killed = proc[p].killed
  BY <1>4 DEF Looks
<1>6. OwedOne(q, pipes)
  <2>1. q.chan[1] = "nread" /\ q.chan[2] = x
    BY <1>5
  <2> QED BY <1>1, <1>5, <2>1 DEF OwedOne, Empty
<1> QED BY <1>1, <1>4, <1>5, <1>6, OneProc

LEMMA ExitZombieKept ==
  ASSUME SysInv, NEW p \in Slot, exit_zombie(p)
  PROVE  Kept
<1>1. Procs(proc) /\ proc[p].st = "EXITING" /\ UNCHANGED <<ftable, pipes, kmem, nextpid>>
  BY DEF SysInv, Books, exit_zombie
<1> DEFINE q == [proc[p] EXCEPT !.st = "ZOMBIE"]
<1>2. proc' = [x \in Slot |-> proc'[x]] /\ proc'[p] = q
      /\ \A x \in Slot : x # p => proc'[x] = proc[x] \/ proc'[x] = [proc[x] EXCEPT !.parent = initproc]
  BY DEF exit_zombie
<1>3. ASSUME NEW x \in Slot
      PROVE  /\ Process(proc'[x]) /\ proc'[x].kstack = proc[x].kstack /\ proc'[x].mem = proc[x].mem
             /\ proc'[x].ofile = proc[x].ofile /\ proc'[x].rest = proc[x].rest
             /\ proc'[x].st = "SLEEPING" => /\ proc[x].st = "SLEEPING" /\ proc'[x].chan = proc[x].chan
                                            /\ proc'[x].killed = proc[x].killed
  <2> DEFINE a == proc[x]
             b == proc'[x]
  <2>1. Process(a)
    BY <1>1 DEF Procs
  <2>2. CASE x = p
    <3>1. b = [a EXCEPT !.st = "ZOMBIE"] /\ a.st = "EXITING"
      BY <1>1, <1>2, <2>2
    <3> HIDE DEF a, b
    <3>2. Looks(b, "ZOMBIE", a.kstack, a.killed, a.mem, a.chan, a.ofile, a.rest)
      BY <2>1, <3>1, Changed
    <3>3. Process(b)
      BY <2>1, <3>1, <3>2 DEF Looks, Process, States
    <3> QED BY <3>2, <3>3 DEF Looks, a, b
  <2>3. CASE x # p
    <3>1. b = a \/ b = [a EXCEPT !.parent = initproc]
      BY <1>2, <2>3
    <3> HIDE DEF a, b
    <3>2. Looks(b, a.st, a.kstack, a.killed, a.mem, a.chan, a.ofile, a.rest)
      BY <2>1, <3>1, Changed
    <3>3. Process(b)
      BY <2>1, <3>2, SameProcess
    <3> QED BY <3>2, <3>3 DEF Looks, a, b
  <2> QED BY <2>2, <2>3
<1>4. Procs(proc')
  BY <1>2, <1>3 DEF Procs
<1>5. Books(ftable, pipes, kmem, proc', Slot \X Fd)
  BY <1>3, <1>4, BooksProc DEF SysInv
<1>6. ASSUME Owed(proc, pipes) PROVE Owed(proc', pipes)
  BY <1>3, <1>6 DEF Owed, OwedOne
<1>7. ASSUME Brief(proc) PROVE Brief(proc')
  BY <1>3, <1>7 DEF Brief
<1> QED BY <1>1, <1>5, <1>6, <1>7 DEF Kept, SysInv

-----------------------------------------------------------------------------
(* Reading.                                                                *)

(* Only the offset of open file i moves.                                   *)
SameFiles(gt, ft) ==
  \A j \in File : /\ gt[j].type = ft[j].type /\ gt[j].pipe = ft[j].pipe
                  /\ gt[j].w = ft[j].w /\ gt[j].ref = ft[j].ref
LEMMA OffsetIs ==
  ASSUME NEW ft, Files(ft), NEW i \in File, NEW v
  PROVE  Files([ft EXCEPT ![i].off = v]) /\ SameFiles([ft EXCEPT ![i].off = v], ft)
<1> DEFINE f == ft[i]
           g == [f EXCEPT !.off = v]
           gt == [ft EXCEPT ![i].off = v]
<1>1. gt = [j \in File |-> gt[j]] /\ gt[i] = g /\ \A j \in File : j # i => gt[j] = ft[j]
  BY DEF Files
<1>2. OpenFile(f)
  BY DEF Files
<1>3. OpenFile(g) /\ g.type = f.type /\ g.pipe = f.pipe /\ g.w = f.w /\ g.ref = f.ref
  <2> HIDE DEF f
  <2>1. g = [type |-> f.type, ref |-> f.ref, r |-> f.r, w |-> f.w, ip |-> f.ip, off |-> v, pipe |-> f.pipe]
    BY <1>2 DEF OpenFile
  <2> HIDE DEF g
  <2> QED BY <1>2, <2>1 DEF OpenFile
<1> HIDE DEF g, gt
<1>4. Files(gt)
  BY <1>1, <1>2, <1>3 DEF Files
<1>5. SameFiles(gt, ft)
  BY <1>1, <1>3 DEF SameFiles
<1> QED BY <1>4, <1>5 DEF gt

LEMMA FilereadKept ==
  ASSUME SysInv, NEW p, NEW i \in File, NEW in, fileread(p, i, in), UNCHANGED <<kmem, nextpid>>
  PROVE  Kept
<1>1. Files(ftable)
  BY DEF SysInv, Books
<1>2. ftable' = [ftable EXCEPT ![i].off = ftable[i].off + Max({in.r, 0})] /\ UNCHANGED <<proc, pipes, kmem, nextpid>>
  BY DEF fileread
<1>3. Files(ftable') /\ SameFiles(ftable', ftable)
  <2> DEFINE v == ftable[i].off + Max({in.r, 0})
  <2>1. ftable' = [ftable EXCEPT ![i].off = v]
    BY <1>2
  <2> HIDE DEF v
  <2> QED BY <1>1, <2>1, OffsetIs
<1>4. Books(ftable', pipes, kmem, proc, Slot \X Fd)
  BY <1>3, BooksFile DEF SysInv, SameFiles
<1> QED BY <1>2, <1>4 DEF Kept, SysInv

(* A pipe that loses or gains cells, while p moves and the other side is   *)
(* woken.                                                                  *)
LEMMA PipeMoves ==
  ASSUME NEW ft, NEW pp, NEW km, NEW pr, NEW D \in SUBSET (Slot \X Fd), Books(ft, pp, km, pr, D),
         NEW p \in Slot, NEW q, Process(q), q.kstack = pr[p].kstack, q.mem = pr[p].mem, q.ofile = pr[p].ofile,
         NEW x \in Pipe, NEW data, Text(data), Len(data) <= PIPESIZE, pp[x].ro \/ pp[x].wo,
         NEW qr, Procs(qr), Roused([pr EXCEPT ![p] = q], qr)
  PROVE  Books(ft, [pp EXCEPT ![x].data = data], km, qr, D)
<1> DEFINE mr == [pr EXCEPT ![p] = q]
           b == pp[x]
           c == [b EXCEPT !.data = data]
<1>1. Procs(mr) /\ mr[p] = q /\ \A y \in Slot : y # p => mr[y] = pr[y]
  <2>1. Procs(pr)
    BY DEF Books
  <2>2. mr = [y \in Slot |-> mr[y]] /\ mr[p] = q /\ \A y \in Slot : y # p => mr[y] = pr[y]
    BY <2>1 DEF Procs
  <2> HIDE DEF mr
  <2> QED BY <2>1, <2>2 DEF Procs
<1> HIDE DEF mr
<1>2. \A y \in Slot : Alike(mr[y], qr[y])
  BY <1>1, RousedAlike DEF mr
<1>3. \A y \in Slot : qr[y].kstack = pr[y].kstack /\ qr[y].mem = pr[y].mem /\ qr[y].ofile = pr[y].ofile
  BY <1>1, <1>2 DEF Alike
<1>4. Books(ft, pp, km, qr, D)
  BY <1>3, BooksProc
<1>5. IsPipe(b)
  BY DEF Books, Pipes
<1>6. IsPipe(c) /\ c.ro = b.ro /\ c.wo = b.wo
  <2>1. b.ro \/ b.wo
    OBVIOUS
  <2> HIDE DEF b
  <2>2. c = [data |-> data, ro |-> b.ro, wo |-> b.wo]
    BY <1>5 DEF IsPipe
  <2> HIDE DEF c
  <2> QED BY <1>5, <2>1, <2>2 DEF IsPipe
<1>7. Books(ft, [pp EXCEPT ![x] = c], km, qr, D)
  <2> HIDE DEF c
  <2> QED BY <1>4, <1>6, BooksPipe
<1> QED BY <1>7

LEMMA BriefRoused ==
  ASSUME NEW pr, NEW qr, Procs(pr), Roused(pr, qr), Brief(pr)
  PROVE  Brief(qr)
<1>1. \A x \in Slot : Alike(pr[x], qr[x])
  BY RousedAlike
<1> QED BY <1>1 DEF Brief, Alike

(* p, who runs, becomes q in pr.                                           *)
LEMMA Moved ==
  ASSUME NEW pr, Procs(pr), NEW p \in Slot, NEW q, Process(q), NEW pp,
         q.st = "SLEEPING" => OwedOne(q, pp)
  PROVE  /\ Procs([pr EXCEPT ![p] = q])
         /\ Owed(pr, pp) => Owed([pr EXCEPT ![p] = q], pp)
         /\ Brief(pr) /\ Len(q.rest) <= PIPESIZE => Brief([pr EXCEPT ![p] = q])
<1> DEFINE mr == [pr EXCEPT ![p] = q]
<1>1. mr = [y \in Slot |-> mr[y]] /\ mr[p] = q /\ \A y \in Slot : y # p => mr[y] = pr[y]
  BY DEF Procs
<1> HIDE DEF mr
<1>2. Procs(mr)
  BY <1>1 DEF Procs
<1>3. ASSUME Owed(pr, pp) PROVE Owed(mr, pp)
  <2>1. mr[p].st = "SLEEPING" => OwedOne(mr[p], pp)
    BY <1>1
  <2> QED BY <1>1, <1>3, <2>1 DEF Owed
<1>4. ASSUME Brief(pr), Len(q.rest) <= PIPESIZE PROVE Brief(mr)
  BY <1>1, <1>4 DEF Brief
<1> QED BY <1>2, <1>3, <1>4 DEF mr

LEMMA PipereadKept ==
  ASSUME SysInv, NEW p \in Slot, proc[p].st = "RUNNABLE", NEW x \in Pipe, IsPipe(pipes[x]),
         pipes[x].ro \/ pipes[x].wo, NEW n \in Nat, piperead(p, x, n), UNCHANGED <<kmem, nextpid>>
  PROVE  Kept
<1> DEFINE data == pipes[x].data
           m == Min({n, Len(data)})
           q == Awake(proc[p])
           mr == [proc EXCEPT ![p] = q]
           wr == Woken(mr, <<"nwrite", x>>)
           rest == SubSeq(data, m + 1, Len(data))
<1>1. Process(proc[p]) /\ Procs(proc) /\ Pipes(pipes)
  BY DEF SysInv, Books, Procs
<1>2. Process(q) /\ Looks(q, "RUNNABLE", proc[p].kstack, proc[p].killed, proc[p].mem, NoProc.chan, proc[p].ofile, proc[p].rest)
  BY <1>1, AwakeIs
<1>3. q.kstack = proc[p].kstack /\ q.mem = proc[p].mem /\ q.ofile = proc[p].ofile /\ q.rest = proc[p].rest /\ q.st = "RUNNABLE"
  <2> HIDE DEF q
  <2> QED BY <1>2 DEF Looks
<1>4. CASE data = <<>> /\ pipes[x].wo
  <2>1. proc' = mr /\ UNCHANGED <<ftable, pipes, kmem, nextpid>>
    BY <1>4 DEF piperead
  <2> HIDE DEF q
  <2> QED BY <1>2, <1>3, <2>1, OneProc
<1>5. CASE ~(data = <<>> /\ pipes[x].wo)
  <2>1. /\ pipes' = [pipes EXCEPT ![x].data = rest] /\ proc' = wr
        /\ UNCHANGED <<ftable, kmem, nextpid>>
    BY <1>5 DEF piperead
  <2>2. Text(data) /\ Len(data) \in Nat /\ Len(data) <= PIPESIZE
    <3>1. Text(data) /\ Len(data) <= PIPESIZE
      BY DEF IsPipe
    <3> QED BY <3>1, TextLen
  <2>3. m \in 0..Len(data)
    <3> DEFINE S == {n, Len(data)}
    <3>1. S \subseteq Nat /\ S # {} /\ n \in S /\ Len(data) \in S
      BY <2>2
    <3> HIDE DEF S
    <3>2. Min(S) \in S /\ Min(S) <= Len(data)
      BY <3>1, MinIs
    <3>3. Min(S) \in Nat
      BY <3>1, <3>2
    <3> QED BY <2>2, <3>2, <3>3 DEF S
  <2> HIDE DEF data, m
  <2>4. Text(rest) /\ Len(rest) = Len(data) - m
    BY <2>2, <2>3, TextCut
  <2>5. Len(rest) <= PIPESIZE
    BY <2>2, <2>3, <2>4, Sizes
  <2> HIDE DEF rest, q
  <2>6. /\ Procs(mr) /\ (Owed(proc, pipes) => Owed(mr, pipes))
        /\ Brief(proc) /\ Len(q.rest) <= PIPESIZE => Brief(mr)
    BY <1>1, <1>2, <1>3, Moved
  <2>7. Procs(wr) /\ Roused(mr, wr) /\ \A y \in Slot : wr[y].st = "SLEEPING" => wr[y].chan # <<"nwrite", x>>
    <3> HIDE DEF mr
    <3>1. /\ wr = [y \in Slot |-> wr[y]] /\ Roused(mr, wr)
          /\ \A y \in Slot : wr[y].st = "SLEEPING" => wr[y].chan # <<"nwrite", x>>
      BY <2>6, WokenIs
    <3> HIDE DEF wr
    <3> QED BY <2>6, <3>1, RousedProcs
  <2> HIDE DEF wr
  <2>8. Books(ftable, [pipes EXCEPT ![x].data = rest], kmem, wr, Slot \X Fd)
    <3>1. Books(ftable, pipes, kmem, proc, Slot \X Fd)
      BY DEF SysInv
    <3> QED BY <1>2, <1>3, <2>4, <2>5, <2>7, <3>1, PipeMoves
  <2> DEFINE b == [pipes[x] EXCEPT !.data = rest]
  <2>9. ASSUME Owed(proc, pipes) PROVE Owed(wr, [pipes EXCEPT ![x] = b])
    <3>1. Rightly(wr, x, b)
      <4> SUFFICES ASSUME NEW y \in Slot, wr[y].st = "SLEEPING", wr[y].chan = <<"nread", x>>
                   PROVE  Empty(b.data) /\ b.wo
        BY <2>7 DEF Rightly
      <4>1. OwedOne(wr[y], pipes)
        <5>1. Owed(wr, pipes)
          BY <2>6, <2>7, <2>9, OwedRoused
        <5> QED BY <5>1 DEF Owed
      <4>2. Empty(pipes[x].data) /\ pipes[x].wo
        BY <4>1, OwedAt
      <4>3. Len(data) = 0
        BY <4>2, TextLen DEF Empty, data
      <4>4. Len(rest) = 0
        <5>1. m = 0
          BY <2>3, <4>3
        <5> QED BY <2>4, <4>3, <5>1
      <4>5. Empty(rest)
        BY <2>4, <4>4, TextLen DEF Empty
      <4>6. b.data = rest /\ b.wo = pipes[x].wo
        BY DEF IsPipe
      <4> QED BY <4>2, <4>5, <4>6
    <3> HIDE DEF b, mr
    <3> QED BY <1>1, <2>6, <2>7, <2>9, <3>1, OwedKept
  <2>10. ASSUME Brief(proc) PROVE Brief(wr)
    <3>1. Len(q.rest) <= PIPESIZE
      BY <1>3, <2>10 DEF Brief
    <3> HIDE DEF mr
    <3> QED BY <2>6, <2>7, <2>10, <3>1, BriefRoused
  <2> QED BY <2>1, <2>8, <2>9, <2>10 DEF Kept, SysInv
<1> QED BY <1>4, <1>5

LEMMA ReadKept ==
  ASSUME SysInv, NEW p \in Slot, proc[p].st = "RUNNABLE", NEW d, NEW n \in Int, sys_read(p, d, n)
  PROVE  Kept
<1> DEFINE i == argfd(p, d)
           in == readi(fs, ftable[i].ip, ftable[i].off, n)
<1>1. UNCHANGED <<kmem, nextpid>>
  BY DEF sys_read
<1>2. CASE i = 0 \/ n < 0 \/ ~ftable[i].r
  <2>1. UNCHANGED <<proc, ftable, pipes>>
    BY <1>2 DEF sys_read
  <2> QED BY <1>1, <2>1, Idle
<1>3. CASE ~(i = 0 \/ n < 0 \/ ~ftable[i].r) /\ ftable[i].type = "pipe"
  <2> DEFINE x == ftable[i].pipe
  <2>1. piperead(p, x, n) /\ n \in Nat
    BY <1>3 DEF sys_read
  <2>2. x \in Pipe /\ IsPipe(pipes[x]) /\ (pipes[x].ro \/ pipes[x].wo)
    BY <1>3, ArgfdIs
  <2> HIDE DEF x
  <2> QED BY <1>1, <2>1, <2>2, PipereadKept
<1>4. CASE ~(i = 0 \/ n < 0 \/ ~ftable[i].r) /\ ftable[i].type # "pipe"
  <2>1. fileread(p, i, in) /\ i \in File
    <3>1. fileread(p, i, in)
      BY <1>4 DEF sys_read
    <3>2. i \in File
      BY <1>4, ArgfdIs
    <3> QED BY <3>1, <3>2
  <2> HIDE DEF i, in
  <2> QED BY <1>1, <2>1, FilereadKept
<1> QED BY <1>2, <1>3, <1>4

-----------------------------------------------------------------------------
(* Writing.                                                                *)

Booked == nextpid' \in Nat \ {0} /\ Books(ftable', pipes', kmem', proc', Slot \X Fd)

(* p moves to q, some others have been woken, and the pipe holds data.     *)
LEMMA PipeGains ==
  ASSUME SysInv, NEW p \in Slot, proc[p].st = "RUNNABLE", NEW q, Process(q),
         q.kstack = proc[p].kstack, q.mem = proc[p].mem, q.ofile = proc[p].ofile,
         NEW x \in Pipe, pipes[x].ro \/ pipes[x].wo, NEW data, Text(data), Len(data) <= PIPESIZE,
         NEW wr, wr = [y \in Slot |-> wr[y]], Roused(proc, wr), proc' = [wr EXCEPT ![p] = q],
         pipes' = [pipes EXCEPT ![x].data = data], UNCHANGED <<ftable, kmem, nextpid>>
  PROVE  /\ Booked
         /\ Rightly(wr, x, [pipes[x] EXCEPT !.data = data]) /\ (q.st = "SLEEPING" => OwedOne(q, pipes'))
            /\ Owed(proc, pipes) => Owed(proc', pipes')
         /\ Brief(proc) /\ Len(q.rest) <= PIPESIZE => Brief(proc')
<1> DEFINE mr == [proc EXCEPT ![p] = q]
           qr == [wr EXCEPT ![p] = q]
           b  == [pipes[x] EXCEPT !.data = data]
<1>1. Books(ftable, pipes, kmem, proc, Slot \X Fd) /\ Procs(proc) /\ Pipes(pipes) /\ DOMAIN proc = Slot
  BY DEF SysInv, Books, Procs
<1>2. /\ mr = [y \in Slot |-> mr[y]] /\ mr[p] = q /\ \A y \in Slot : y # p => mr[y] = proc[y]
      /\ qr = [y \in Slot |-> qr[y]] /\ qr[p] = q /\ \A y \in Slot : y # p => qr[y] = wr[y]
  BY <1>1
<1>3. Procs(wr)
  BY <1>1, RousedProcs
<1>4. Procs(qr)
  <2> HIDE DEF mr, qr
  <2> QED BY <1>2, <1>3 DEF Procs
<1>5. Roused(mr, qr)
  <2> HIDE DEF mr, qr
  <2> QED BY <1>2 DEF Roused
<1>6. Books(ftable, [pipes EXCEPT ![x].data = data], kmem, qr, Slot \X Fd)
  <2> HIDE DEF qr
  <2> QED BY <1>1, <1>4, <1>5, PipeMoves
<1>7. pipes' = [pipes EXCEPT ![x] = b] /\ proc' = qr
  OBVIOUS
<1>8. ASSUME Rightly(wr, x, b), q.st = "SLEEPING" => OwedOne(q, pipes'), Owed(proc, pipes)
      PROVE  Owed(proc', pipes')
  <2> HIDE DEF b
  <2>1. Owed(wr, [pipes EXCEPT ![x] = b])
    BY <1>1, <1>8, OwedKept
  <2>2. \A y \in Slot : proc'[y].st = "SLEEPING" => OwedOne(proc'[y], pipes')
    <3> SUFFICES ASSUME NEW y \in Slot, proc'[y].st = "SLEEPING" PROVE OwedOne(proc'[y], pipes')
      OBVIOUS
    <3>1. CASE y = p
      <4>1. proc'[y] = q
        BY <1>2, <1>7, <3>1
      <4> QED BY <1>8, <4>1
    <3>2. CASE y # p
      <4>1. proc'[y] = wr[y]
        BY <1>2, <1>7, <3>2
      <4>2. OwedOne(wr[y], pipes')
        BY <1>7, <2>1, <4>1 DEF Owed
      <4> QED BY <4>1, <4>2
    <3> QED BY <3>1, <3>2
  <2> QED BY <2>2 DEF Owed
<1>9. ASSUME Brief(proc), Len(q.rest) <= PIPESIZE PROVE Brief(proc')
  <2>1. Brief(wr)
    BY <1>1, <1>9, BriefRoused
  <2>2. \A y \in Slot : y = p \/ proc'[y] = wr[y]
    BY <1>2, <1>7
  <2>3. proc'[p] = q
    BY <1>2, <1>7
  <2> QED BY <1>9, <2>1, <2>2, <2>3 DEF Brief
<1> HIDE DEF b, mr, qr
<1>10. Booked
  BY <1>6, <1>7 DEF Booked, SysInv
<1> QED BY <1>8, <1>9, <1>10 DEF b

(* Nobody has to wake p, who runs.                                         *)
LEMMA WokenPast ==
  ASSUME NEW pr, Procs(pr), NEW p \in Slot, pr[p].st = "RUNNABLE", NEW q, NEW ch,
         q.st = "SLEEPING" => q.chan # ch
  PROVE  Woken([pr EXCEPT ![p] = q], ch) = [Woken(pr, ch) EXCEPT ![p] = q]
<1> DEFINE mr == [pr EXCEPT ![p] = q]
           a == Woken(mr, ch)
           w == Woken(pr, ch)
           b == [w EXCEPT ![p] = q]
<1>1. /\ mr = [y \in Slot |-> mr[y]] /\ mr[p] = q /\ \A y \in Slot : y # p => mr[y] = pr[y]
  BY DEF Procs
<1>2. a = [y \in Slot |-> a[y]] /\ b = [y \in Slot |-> b[y]]
  <2>1. a = [y \in Slot |-> a[y]] /\ DOMAIN Woken(pr, ch) = Slot
    BY DEF Woken
  <2>2. b = [y \in Slot |-> b[y]]
    <3>1. DOMAIN w = Slot
      BY <2>1
    <3> HIDE DEF w
    <3> QED BY <3>1
  <2> QED BY <2>1, <2>2
<1>3. ASSUME NEW y \in Slot PROVE a[y] = b[y]
  <2>1. CASE y = p
    BY <1>1, <2>1 DEF Woken
  <2>2. CASE y # p
    <3>1. mr[y] = pr[y]
      BY <1>1, <2>2
    <3> HIDE DEF mr
    <3> QED BY <2>2, <3>1 DEF Woken
  <2> QED BY <2>1, <2>2
<1> HIDE DEF a, b
<1>4. a = b
  BY <1>2, <1>3
<1> QED BY <1>4 DEF a, b

(* m cells of todo fit into pipe x; when that is not all, the pipe is full. *)
LEMMA PipewriteKept ==
  ASSUME SysInv, NEW p \in Slot, proc[p].st = "RUNNABLE", NEW x \in Pipe, IsPipe(pipes[x]),
         pipes[x].ro \/ pipes[x].wo, NEW todo, Text(todo), NEW m \in 0..Len(todo), NEW n,
         Len(pipes[x].data) + m <= PIPESIZE, m < Len(todo) => Len(pipes[x].data) + m = PIPESIZE,
         pipewrite(p, x, todo, m, n), UNCHANGED <<kmem, nextpid>>
  PROVE  /\ Booked
         /\ Len(todo) <= PIPESIZE /\ Owed(proc, pipes) /\ Brief(proc) => Owed(proc', pipes') /\ Brief(proc')
<1> DEFINE old    == pipes[x].data
           new    == old \o SubSeq(todo, 1, m)
           left   == SubSeq(todo, m + 1, Len(todo))
           giveUp == left # <<>> /\ (~pipes[x].ro \/ proc[p].killed)
           over   == [Awake(proc[p]) EXCEPT !.rest = <<>>]
           sleeps == [Asleep(proc[p], <<"nwrite", x>>) EXCEPT !.rest = left]
           ch     == <<"nread", x>>
           b      == [pipes[x] EXCEPT !.data = new]
           wr     == Woken(proc, ch)
<1>1. Process(proc[p]) /\ Procs(proc) /\ Pipes(pipes)
  BY DEF SysInv, Books, Procs
<1>2. Text(old) /\ Len(old) \in Nat /\ Len(todo) \in Nat /\ m \in Nat
  <2>1. Text(old)
    BY DEF IsPipe
  <2> QED BY <2>1, TextLen
<1>3. Text(new) /\ Len(new) = Len(old) + m /\ Text(left) /\ Len(left) = Len(todo) - m
  <2>1. Text(SubSeq(todo, 1, m)) /\ Len(SubSeq(todo, 1, m)) = m /\ Text(left) /\ Len(left) = Len(todo) - m
    BY TextCut
  <2> QED BY <1>2, <2>1, TextJoin
<1>4. Len(new) <= PIPESIZE
  BY <1>3
<1>5. left # <<>> <=> m < Len(todo)
  <2> HIDE DEF left
  <2>1. left # <<>> <=> Len(left) # 0
    BY <1>3, TextLen
  <2> QED BY <1>2, <1>3, <2>1
<1>6. b.data = new /\ b.ro = pipes[x].ro /\ b.wo = pipes[x].wo
  <2> HIDE DEF new
  <2> QED BY DEF IsPipe
<1>7. /\ Process(over) /\ over.kstack = proc[p].kstack /\ over.mem = proc[p].mem /\ over.ofile = proc[p].ofile
      /\ over.st = "RUNNABLE" /\ Len(over.rest) <= PIPESIZE
  <2> DEFINE q == Awake(proc[p])
  <2>1. Process(q) /\ Looks(q, "RUNNABLE", proc[p].kstack, proc[p].killed, proc[p].mem, NoProc.chan, proc[p].ofile, proc[p].rest)
    BY <1>1, AwakeIs
  <2> HIDE DEF q
  <2>2. Looks(over, q.st, q.kstack, q.killed, q.mem, q.chan, q.ofile, <<>>)
    <3>1. over = [q EXCEPT !.rest = <<>>]
      BY DEF q
    <3> HIDE DEF over
    <3> QED BY <2>1, <3>1, Changed
  <2> HIDE DEF over
  <2>3. Process(over)
    BY <2>1, <2>2, TextLen DEF Looks, Process
  <2> QED BY <2>1, <2>2, <2>3, TextLen, Sizes DEF Looks
<1>8. /\ Process(sleeps) /\ sleeps.kstack = proc[p].kstack /\ sleeps.mem = proc[p].mem /\ sleeps.ofile = proc[p].ofile
      /\ sleeps.chan = <<"nwrite", x>> /\ sleeps.killed = proc[p].killed /\ sleeps.rest = left
  <2> DEFINE q == Asleep(proc[p], <<"nwrite", x>>)
  <2>1. Process(q) /\ Looks(q, "SLEEPING", proc[p].kstack, proc[p].killed, proc[p].mem, <<"nwrite", x>>, proc[p].ofile, proc[p].rest)
    <3>1. <<"nwrite", x>> \in Channels
      BY DEF Channels
    <3> QED BY <1>1, <3>1, AsleepIs
  <2>2. sleeps = [q EXCEPT !.rest = left]
    OBVIOUS
  <2> HIDE DEF q, sleeps, left
  <2>3. Looks(sleeps, q.st, q.kstack, q.killed, q.mem, q.chan, q.ofile, left)
    BY <2>1, <2>2, Changed
  <2>4. Process(sleeps)
    BY <1>3, <2>1, <2>3 DEF Looks, Process
  <2> QED BY <2>1, <2>3, <2>4 DEF Looks
<1>9. /\ wr = [y \in Slot |-> wr[y]] /\ Roused(proc, wr)
      /\ \A y \in Slot : wr[y].st = "SLEEPING" => wr[y].chan # ch
  BY <1>1, WokenIs
<1>10. pipes' = [pipes EXCEPT ![x].data = new] /\ UNCHANGED <<ftable, kmem, nextpid>>
  BY DEF pipewrite
<1>11. /\ left # <<>> /\ ~giveUp => proc' = Woken([proc EXCEPT ![p] = sleeps], ch)
       /\ giveUp => proc' = [proc EXCEPT ![p] = over]
       /\ left = <<>> => proc' = Woken([proc EXCEPT ![p] = over], ch)
  BY DEF pipewrite
(* A writer who sleeps found the pipe full: then m = 0.                    *)
<1>12. ASSUME NEW ur, Roused(proc, ur), Owed(proc, pipes), NEW y \in Slot, ur[y].st = "SLEEPING"
       PROVE  /\ ur[y].chan = <<"nwrite", x>> => Len(b.data) = PIPESIZE /\ b.ro
              /\ ur[y].chan = <<"nread", x>> => Len(old) = 0 /\ b.wo
  <2>1. Owed(ur, pipes)
    BY <1>1, <1>12, OwedRoused
  <2>2. OwedOne(ur[y], pipes)
    BY <1>12, <2>1 DEF Owed
  <2>3. ASSUME ur[y].chan = <<"nwrite", x>> PROVE Len(b.data) = PIPESIZE /\ b.ro
    <3>1. Len(old) = PIPESIZE /\ pipes[x].ro
      BY <2>2, <2>3, OwedAt
    <3>2. m = 0
      BY <1>2, <3>1, Sizes
    <3> HIDE DEF b, old, new
    <3>3. Len(new) = PIPESIZE
      BY <1>2, <1>3, <3>1, <3>2
    <3> QED BY <1>6, <3>1, <3>3
  <2>4. ASSUME ur[y].chan = <<"nread", x>> PROVE Len(old) = 0 /\ b.wo
    <3>1. Empty(pipes[x].data) /\ pipes[x].wo
      BY <2>2, <2>4, OwedAt
    <3> QED BY <1>6, <3>1, TextLen DEF Empty
  <2> QED BY <2>3, <2>4
<1>13. ASSUME Owed(proc, pipes) PROVE Rightly(wr, x, b)
  <2> SUFFICES ASSUME NEW y \in Slot, wr[y].st = "SLEEPING", wr[y].chan = <<"nwrite", x>>
               PROVE  Len(b.data) = PIPESIZE /\ b.ro
    <3> HIDE DEF wr, b
    <3> QED BY <1>9 DEF Rightly
  <2> HIDE DEF wr, b
  <2> QED BY <1>9, <1>12, <1>13
<1>14. Roused(proc, proc) /\ proc = [y \in Slot |-> proc[y]]
  BY <1>1 DEF Roused, Procs
<1> HIDE DEF wr, b, over, sleeps, old, new, left
<1>15. CASE left # <<>> /\ ~giveUp
  <2>1. proc' = [wr EXCEPT ![p] = sleeps]
    <3>1. sleeps.chan # ch
      BY <1>8
    <3>2. Woken([proc EXCEPT ![p] = sleeps], ch) = [Woken(proc, ch) EXCEPT ![p] = sleeps]
      <4> HIDE DEF ch
      <4> QED BY <1>1, <3>1, WokenPast
    <3> QED BY <1>11, <1>15, <3>2 DEF wr
  <2>2. OwedOne(sleeps, pipes')
    <3>1. pipes'[x] = b
      BY <1>1, <1>10 DEF Pipes, b
    <3>2. sleeps.chan[1] = "nwrite" /\ sleeps.chan[2] = x
      BY <1>8
    <3>3. Len(b.data) = PIPESIZE
      BY <1>3, <1>5, <1>6, <1>15 DEF old
    <3>4. ~sleeps.killed /\ b.ro
      BY <1>6, <1>8, <1>15
    <3> QED BY <3>1, <3>2, <3>3, <3>4 DEF OwedOne
  <2>3. Len(todo) <= PIPESIZE => Len(sleeps.rest) <= PIPESIZE
    BY <1>2, <1>3, <1>8, Sizes
  <2>4. /\ Booked
        /\ Rightly(wr, x, b) /\ Owed(proc, pipes) => Owed(proc', pipes')
        /\ Brief(proc) /\ Len(sleeps.rest) <= PIPESIZE => Brief(proc')
    BY <1>3, <1>4, <1>8, <1>9, <1>10, <2>1, <2>2, PipeGains DEF b
  <2> QED BY <1>13, <2>3, <2>4
<1>16. CASE left = <<>>
  <2>1. proc' = [wr EXCEPT ![p] = over]
    <3>1. over.st # "SLEEPING"
      BY <1>7
    <3>2. Woken([proc EXCEPT ![p] = over], ch) = [Woken(proc, ch) EXCEPT ![p] = over]
      <4> HIDE DEF ch
      <4> QED BY <1>1, <3>1, WokenPast
    <3> QED BY <1>11, <1>16, <3>2 DEF wr
  <2>2. /\ Booked
        /\ Rightly(wr, x, b) /\ Owed(proc, pipes) => Owed(proc', pipes')
        /\ Brief(proc) => Brief(proc')
    BY <1>3, <1>4, <1>7, <1>9, <1>10, <2>1, PipeGains DEF b
  <2> QED BY <1>13, <2>2
(* Nobody is woken.  A reader may sleep only when the pipe was empty, and  *)
(* what is no longer than the pipe would then have fitted.                 *)
<1>17. CASE giveUp
  <2>1. proc' = [proc EXCEPT ![p] = over]
    BY <1>11, <1>17
  <2>2. /\ Booked
        /\ Rightly(proc, x, b) /\ Owed(proc, pipes) => Owed(proc', pipes')
        /\ Brief(proc) => Brief(proc')
    BY <1>3, <1>4, <1>7, <1>10, <1>14, <2>1, PipeGains DEF b
  <2>3. ASSUME Len(todo) <= PIPESIZE, Owed(proc, pipes) PROVE Rightly(proc, x, b)
    <3> SUFFICES ASSUME NEW y \in Slot, proc[y].st = "SLEEPING"
                 PROVE  /\ proc[y].chan # <<"nread", x>>
                        /\ proc[y].chan = <<"nwrite", x>> => Len(b.data) = PIPESIZE /\ b.ro
      BY DEF Rightly
    <3>1. /\ proc[y].chan = <<"nwrite", x>> => Len(b.data) = PIPESIZE /\ b.ro
          /\ proc[y].chan = <<"nread", x>> => Len(old) = 0 /\ b.wo
      BY <1>12, <1>14, <2>3
    <3>2. m < Len(todo) /\ Len(old) + m = PIPESIZE
      BY <1>5, <1>17 DEF old
    <3>3. Len(old) # 0
      BY <1>2, <2>3, <3>2, Sizes
    <3> QED BY <3>1, <3>3
  <2> QED BY <2>2, <2>3
<1> QED BY <1>15, <1>16, <1>17

LEMMA FilewriteKept ==
  ASSUME SysInv, NEW p \in Slot, proc[p].st = "RUNNABLE", NEW i \in File, NEW left, Text(left),
         NEW w, NEW n, filewrite(p, i, left, w, n), UNCHANGED <<kmem, nextpid>>
  PROVE  /\ Booked
         /\ Len(left) <= PIPESIZE /\ Owed(proc, pipes) /\ Brief(proc) => Owed(proc', pipes') /\ Brief(proc')
<1> DEFINE rest == IF w.r < 0 THEN <<>> ELSE left
           q == [proc[p] EXCEPT !.rest = rest]
           mr == [proc EXCEPT ![p] = q]
           off == ftable[i].off + Max({w.r, 0})
<1>1. proc' = mr /\ ftable' = [ftable EXCEPT ![i].off = off] /\ UNCHANGED <<pipes, kmem, nextpid>>
  BY DEF filewrite
<1>2. Process(proc[p]) /\ Procs(proc) /\ Files(ftable) /\ Books(ftable, pipes, kmem, proc, Slot \X Fd)
  BY DEF SysInv, Books, Procs
<1>3. Text(rest) /\ (Len(left) <= PIPESIZE => Len(rest) <= PIPESIZE)
  BY TextLen, Sizes
<1> HIDE DEF rest, off
<1>4. Looks(q, proc[p].st, proc[p].kstack, proc[p].killed, proc[p].mem, proc[p].chan, proc[p].ofile, rest)
  BY <1>2, Changed
<1> HIDE DEF q
<1>5. /\ Process(q) /\ q.kstack = proc[p].kstack /\ q.mem = proc[p].mem /\ q.ofile = proc[p].ofile
      /\ q.st # "SLEEPING" /\ q.rest = rest
  BY <1>2, <1>3, <1>4 DEF Looks, Process
<1>6. /\ Procs(mr) /\ (Owed(proc, pipes) => Owed(mr, pipes))
      /\ Brief(proc) /\ Len(q.rest) <= PIPESIZE => Brief(mr)
  BY <1>2, <1>5, Moved
<1>7. mr[p] = q /\ \A y \in Slot : y # p => mr[y] = proc[y]
  BY <1>2 DEF Procs
<1> HIDE DEF mr
<1>8. Books(ftable, pipes, kmem, mr, Slot \X Fd)
  <2>1. \A y \in Slot : mr[y].kstack = proc[y].kstack /\ mr[y].mem = proc[y].mem /\ mr[y].ofile = proc[y].ofile
    BY <1>5, <1>7
  <2> QED BY <1>2, <1>6, <2>1, BooksProc
<1>9. Files(ftable') /\ SameFiles(ftable', ftable)
  BY <1>1, <1>2, OffsetIs
<1>10. Books(ftable', pipes, kmem, mr, Slot \X Fd)
  BY <1>8, <1>9, BooksFile DEF SameFiles
<1>11. Booked
  BY <1>1, <1>10 DEF Booked, SysInv
<1> QED BY <1>1, <1>3, <1>5, <1>6, <1>11

LEMMA WriteKept ==
  ASSUME SysInv, NEW p \in Slot, proc[p].st = "RUNNABLE", NEW d, NEW s, Text(s), sys_write(p, d, s)
  PROVE  /\ Booked
         /\ Len(s) <= PIPESIZE /\ Owed(proc, pipes) /\ Brief(proc) => Owed(proc', pipes') /\ Brief(proc')
<1> DEFINE i == argfd(p, d)
           todo == Todo(p, s)
           x == ftable[i].pipe
           m == Min({Len(todo), PIPESIZE - Len(pipes[x].data)})
           c == Min({Len(todo), MaxChunk})
           left == SubSeq(todo, c + 1, Len(todo))
           w == writei(fs, ftable[i].ip, ftable[i].off, SubSeq(todo, 1, c))
<1>1. UNCHANGED <<kmem, nextpid>>
  BY DEF sys_write
<1>2. Process(proc[p])
  BY DEF SysInv, Books, Procs
<1>3. Text(todo) /\ Len(todo) \in Nat /\ (Len(s) <= PIPESIZE /\ Brief(proc) => Len(todo) <= PIPESIZE)
  <2>1. todo = s \/ todo = proc[p].rest
    BY DEF Todo
  <2> HIDE DEF todo
  <2>2. Text(todo)
    BY <1>2, <2>1 DEF Process
  <2> QED BY <2>1, <2>2, TextLen DEF Brief
<1> HIDE DEF todo
<1>4. CASE UNCHANGED <<proc, ftable, pipes>>
  <2>1. Kept
    BY <1>1, <1>4, Idle
  <2> QED BY <2>1 DEF Kept, Booked
<1>5. CASE i # 0 /\ ftable[i].type = "pipe" /\ pipewrite(p, x, todo, m, Len(s))
  <2>1. x \in Pipe /\ IsPipe(pipes[x]) /\ (pipes[x].ro \/ pipes[x].wo)
    BY <1>5, ArgfdIs
  <2> HIDE DEF x
  <2>2. Len(pipes[x].data) \in Nat /\ Len(pipes[x].data) <= PIPESIZE
    BY <2>1, TextLen DEF IsPipe
  <2>3. /\ m \in 0..Len(todo) /\ Len(pipes[x].data) + m <= PIPESIZE
        /\ m < Len(todo) => Len(pipes[x].data) + m = PIPESIZE
    <3> DEFINE a == Len(todo)
               r == PIPESIZE - Len(pipes[x].data)
    <3>1. a \in Nat /\ r \in Nat
      BY <1>3, <2>2, Sizes
    <3> HIDE DEF a, r
    <3>2. (m = a \/ m = r) /\ m <= a /\ m <= r
      <4>1. {a, r} \subseteq Nat /\ {a, r} # {}
        BY <3>1
      <4>2. Min({a, r}) \in {a, r} /\ \A y \in {a, r} : Min({a, r}) <= y
        BY <4>1, MinIs
      <4> QED BY <4>2 DEF a, r
    <3>3. m \in 0..a
      BY <3>1, <3>2
    <3>4. Len(pipes[x].data) = PIPESIZE - r
      BY <2>2, Sizes DEF r
    <3> HIDE DEF m
    <3>5. Len(pipes[x].data) + m <= PIPESIZE /\ (m < a => Len(pipes[x].data) + m = PIPESIZE)
      BY <3>1, <3>2, <3>4, Sizes
    <3> QED BY <3>3, <3>5 DEF a
  <2> HIDE DEF m
  <2>4. pipewrite(p, x, todo, m, Len(s))
    BY <1>5
  <2> HIDE DEF i
  <2>5. /\ Booked
        /\ Len(todo) <= PIPESIZE /\ Owed(proc, pipes) /\ Brief(proc) => Owed(proc', pipes') /\ Brief(proc')
    BY <1>1, <1>3, <2>1, <2>3, <2>4, PipewriteKept
  <2> QED BY <1>3, <2>5
<1>6. CASE i # 0 /\ filewrite(p, i, left, w, Len(s))
  <2>1. i \in File
    BY <1>6, ArgfdIs
  <2>2. c \in 0..Len(todo)
    <3> DEFINE a == Len(todo)
    <3>1. a \in Nat /\ MaxChunk \in Nat /\ {a, MaxChunk} \subseteq Nat /\ {a, MaxChunk} # {}
      BY <1>3, SysAssumption
    <3> HIDE DEF a
    <3>2. Min({a, MaxChunk}) \in {a, MaxChunk} /\ \A y \in {a, MaxChunk} : Min({a, MaxChunk}) <= y
      BY <3>1, MinIs
    <3>3. Min({a, MaxChunk}) \in 0..a
      BY <3>1, <3>2
    <3> QED BY <3>3 DEF a
  <2> HIDE DEF c
  <2>3. Text(left) /\ Len(left) <= Len(todo)
    <3>1. Text(left) /\ Len(left) = Len(todo) - c
      BY <1>3, <2>2, TextCut
    <3> HIDE DEF left
    <3> QED BY <1>3, <2>2, <3>1
  <2> HIDE DEF i, left, w
  <2>4. /\ Booked
        /\ Len(left) <= PIPESIZE /\ Owed(proc, pipes) /\ Brief(proc) => Owed(proc', pipes') /\ Brief(proc')
    BY <1>1, <1>6, <2>1, <2>3, FilewriteKept
  <2>5. Len(left) \in Nat
    BY <2>3, TextLen
  <2> QED BY <1>3, <2>3, <2>4, <2>5, Sizes
<1>7. \/ UNCHANGED <<proc, ftable, pipes>>
      \/ i # 0 /\ ftable[i].type = "pipe" /\ pipewrite(p, x, todo, m, Len(s))
      \/ i # 0 /\ filewrite(p, i, left, w, Len(s))
  <2> HIDE DEF m, c, w, left, x
  <2> QED BY DEF sys_write, WriteChunk, i, todo, x, m, c, w, left
<1> QED BY <1>4, <1>5, <1>6, <1>7

-----------------------------------------------------------------------------
(* Memory.                                                                 *)

LEMMA PipesInUse ==
  ASSUME NEW pp
  PROVE  IsFiniteSet(InUsePipes(pp)) /\ Cardinality(InUsePipes(pp)) \in Nat
<1>1. InUsePipes(pp) \in SUBSET Pipe
  BY DEF InUsePipes
<1> QED BY <1>1, Finite, FS_Subset, FS_CardinalityType

LEMMA Reshaped ==
  ASSUME SysInv, NEW p \in Slot, proc[p].st = "RUNNABLE", NEW m, Memory(m),
         proc' = [proc EXCEPT ![p].mem = m], kmem' = kmem + Mapped(proc[p].mem) - Mapped(m),
         kmem + Mapped(proc[p].mem) >= Mapped(m), UNCHANGED <<ftable, pipes, nextpid>>
  PROVE  Kept
<1> DEFINE q == [proc[p] EXCEPT !.mem = m]
           mr == [proc EXCEPT ![p] = q]
<1>1. proc' = mr
  OBVIOUS
<1>2. Process(proc[p]) /\ Procs(proc) /\ Books(ftable, pipes, kmem, proc, Slot \X Fd)
  BY DEF SysInv, Books, Procs
<1>3. Looks(q, proc[p].st, proc[p].kstack, proc[p].killed, m, proc[p].chan, proc[p].ofile, proc[p].rest)
  BY <1>2, Changed
<1> HIDE DEF q
<1>4. /\ Process(q) /\ q.kstack = proc[p].kstack /\ q.mem = m /\ q.ofile = proc[p].ofile
      /\ q.st # "SLEEPING" /\ q.rest = proc[p].rest
  BY <1>2, <1>3 DEF Looks, Process
<1>5. /\ Procs(mr) /\ (Owed(proc, pipes) => Owed(mr, pipes))
      /\ Brief(proc) /\ Len(q.rest) <= PIPESIZE => Brief(mr)
  BY <1>2, <1>4, Moved
<1>6. mr[p] = q /\ \A y \in Slot : y # p => mr[y] = proc[y]
  BY <1>2 DEF Procs
<1> HIDE DEF mr
<1>7. /\ Cardinality(PagesOf(mr)) = Cardinality(PagesOf(proc)) - PagesAt(proc[p]) + PagesAt(mr[p])
      /\ Cardinality(PagesOf(proc)) \in Nat /\ PagesAt(proc[p]) \in Nat /\ PagesAt(mr[p]) \in Nat
  <2>1. \A y \in Slot \ {p} : mr[y].kstack = proc[y].kstack /\ mr[y].mem = proc[y].mem
    BY <1>6
  <2> QED BY <1>2, <1>5, <2>1, PagesMoved
<1>8. Mapped(proc[p].mem) \in Nat /\ Mapped(m) \in Nat
  BY <1>2, MappedNat DEF Process
<1>9. PagesAt(proc[p]) = 1 + KVM + Mapped(proc[p].mem) /\ PagesAt(mr[p]) = 1 + KVM + Mapped(m)
  <2>1. proc[p].kstack # 0 /\ q.kstack # 0
    BY <1>2, <1>4 DEF Process
  <2> QED BY <1>4, <1>6, <2>1 DEF PagesAt, Footprint
<1>10. Cardinality(InUsePipes(pipes)) \in Nat
  BY PipesInUse
<1>11. Paged(pipes, kmem', mr)
  <2>1. kmem \in Nat /\ NPAGE = kmem + Cardinality(InUsePipes(pipes)) + Cardinality(PagesOf(proc))
    BY <1>2 DEF Books, Paged
  <2> DEFINE a == Mapped(proc[p].mem)
             b == Mapped(m)
             u == Cardinality(InUsePipes(pipes))
             o == Cardinality(PagesOf(proc))
  <2>2. /\ kmem' = kmem + a - b /\ kmem + a >= b /\ Cardinality(PagesOf(mr)) = o - (1 + KVM + a) + (1 + KVM + b)
        /\ a \in Nat /\ b \in Nat /\ u \in Nat /\ o \in Nat /\ kmem \in Nat /\ NPAGE = kmem + u + o
    BY <1>7, <1>8, <1>9, <1>10, <2>1
  <2> HIDE DEF a, b, o
  <2>3. kmem' \in Nat /\ NPAGE = kmem' + u + Cardinality(PagesOf(mr))
    <3> HIDE DEF u
    <3> QED BY <2>2, Sizes
  <2> QED BY <2>3 DEF Paged
<1>12. \A j : Fds(mr, Slot \X Fd, j) = Fds(proc, Slot \X Fd, j)
  <2>1. \A y \in Slot : mr[y].ofile = proc[y].ofile
    BY <1>4, <1>6
  <2> QED BY <2>1 DEF Fds
<1>13. Books(ftable, pipes, kmem', mr, Slot \X Fd)
  BY <1>2, <1>5, <1>11, <1>12 DEF Books, Refs
<1>14. Brief(proc) => Len(q.rest) <= PIPESIZE
  BY <1>4 DEF Brief
<1> QED BY <1>1, <1>5, <1>13, <1>14 DEF Kept, SysInv

(* The sizes growproc() makes.                                             *)
LEMMA ResizedIs ==
  ASSUME NEW m, Memory(m), NEW n \in Nat
  PROVE  Memory(Resized(m, n))
<1>1. m.sz \in Nat /\ m.low \in Nat /\ m = [sz |-> m.sz, low |-> m.low]
  BY DEF Memory
<1>2. CASE n = 0
  <2> DEFINE k == Pages(m.sz)
  <2>1. k \in Nat
    BY <1>1, PagesNat
  <2>2. Resized(m, n) = [m EXCEPT !.low = k]
    BY <1>2 DEF Resized
  <2> HIDE DEF k
  <2>3. Resized(m, n) = [sz |-> m.sz, low |-> k]
    BY <1>1, <2>2
  <2> QED BY <1>1, <2>1, <2>3 DEF Memory, k
<1>3. CASE n # 0
  <2> DEFINE k == Pages(n)
             l == IF m.low < k THEN m.low ELSE k
  <2>1. k \in Nat
    BY PagesNat
  <2>2. Resized(m, n) = [sz |-> n, low |-> l]
    BY <1>3 DEF Resized
  <2>3. l \in Nat /\ l <= k
    <3> HIDE DEF k
    <3> QED BY <1>1, <2>1
  <2> HIDE DEF l
  <2> QED BY <2>2, <2>3 DEF Memory
<1> QED BY <1>2, <1>3

LEMMA SbrkKept ==
  ASSUME SysInv, NEW p \in Slot, proc[p].st = "RUNNABLE", NEW n \in Int, sys_sbrk(p, n)
  PROVE  Kept
<1> DEFINE m == proc[p].mem
           new == Resized(m, m.sz + n)
           need == Mapped(new) - Mapped(m)
           fails == m.sz + n < 0 \/ need > kmem
<1>1. CASE fails
  <2>1. UNCHANGED <<proc, kmem, ftable, pipes, nextpid>>
    BY <1>1 DEF sys_sbrk
  <2> QED BY <2>1, Idle
<1>2. CASE ~fails
  <2>1. Memory(m) /\ kmem \in Nat
    BY DEF SysInv, Books, Procs, Process, Paged
  <2>2. proc' = [proc EXCEPT ![p].mem = new] /\ kmem' = kmem - need /\ UNCHANGED <<ftable, pipes, nextpid>>
    BY <1>2 DEF sys_sbrk
  <2> HIDE DEF m
  <2>3. m.sz + n \in Nat
    BY <1>2, <2>1 DEF Memory
  <2>4. Memory(new)
    BY <2>1, <2>3, ResizedIs
  <2> HIDE DEF new
  <2>5. Mapped(m) \in Nat /\ Mapped(new) \in Nat
    BY <2>1, <2>4, MappedNat
  <2>6. kmem' = kmem + Mapped(m) - Mapped(new) /\ kmem + Mapped(m) >= Mapped(new)
    BY <1>2, <2>1, <2>2, <2>5
  <2> QED BY <2>2, <2>4, <2>6, Reshaped DEF m
<1> QED BY <1>1, <1>2

LEMMA ExecKept ==
  ASSUME SysInv, NEW p \in Slot, proc[p].st = "RUNNABLE", NEW n, NEW args, NEW ok, ExecFound(p, n, args, ok)
  PROVE  Kept
<1>1. CASE ~ok
  <2>1. UNCHANGED <<proc, kmem, ftable, pipes, nextpid>>
    BY <1>1 DEF ExecFound
  <2> QED BY <2>1, Idle
<1>2. CASE ok
  <2> DEFINE size == CellOf(n.f, n.ip, 1)[1]
             pages == Pages(size) + 2
             a == Mapped(proc[p].mem)
             m == [sz |-> PGSIZE * pages, low |-> 0]
  <2>1. size \in Nat /\ kmem >= KVM + Pages(size) + 2
    BY <1>2 DEF ExecFound, Loads
  <2>2. proc' = [proc EXCEPT ![p].mem = m] /\ kmem' = kmem + a - pages
        /\ UNCHANGED <<ftable, pipes, nextpid>>
    BY <1>2 DEF ExecFound, NewImage
  <2>3. kmem \in Nat /\ a \in Nat
    BY MappedNat DEF SysInv, Books, Procs, Process, Paged
  <2> HIDE DEF size
  <2>4. pages \in Nat /\ kmem + a >= pages
    <3>1. Pages(size) \in Nat
      BY <2>1, PagesNat
    <3> HIDE DEF a
    <3> QED BY <2>1, <2>3, <3>1, Sizes
  <2> HIDE DEF pages
  <2>5. PGSIZE * pages \in Nat /\ Pages(PGSIZE * pages) = pages
    BY <2>4, PagesExact, Sizes
  <2>6. m.sz = PGSIZE * pages /\ m.low = 0 /\ m = [sz |-> m.sz, low |-> m.low]
    OBVIOUS
  <2> HIDE DEF m
  <2>7. Memory(m) /\ Mapped(m) = pages
    <3>1. Pages(m.sz) = pages /\ m.sz \in Nat
      BY <2>5, <2>6
    <3> QED BY <2>4, <2>6, <3>1 DEF Memory, Mapped
  <2> QED BY <2>2, <2>4, <2>7, Reshaped
<1> QED BY <1>1, <1>2

-----------------------------------------------------------------------------
(* Descriptors.                                                            *)

LEMMA FdsFinite ==
  ASSUME NEW pr, NEW i
  PROVE  IsFiniteSet(Fds(pr, Slot \X Fd, i)) /\ Cardinality(Fds(pr, Slot \X Fd, i)) \in Nat
<1>1. Fds(pr, Slot \X Fd, i) \in SUBSET (Slot \X Fd)
  BY DEF Fds
<1> QED BY <1>1, Finite, FS_Subset, FS_CardinalityType

(* p's free descriptor d takes open file i.                                *)
Takes(pr, gt, p, d, i, qr) ==
  /\ Procs(qr) /\ Refs(gt, qr, Slot \X Fd) /\ PagesOf(qr) = PagesOf(pr)
  /\ qr[p].st = "RUNNABLE"
  /\ qr[p].ofile[d] = i /\ \A e \in Fd : e # d => qr[p].ofile[e] = pr[p].ofile[e]
  /\ \A pp : Owed(pr, pp) => Owed(qr, pp)
  /\ Brief(pr) => Brief(qr)

LEMMA Taken ==
  ASSUME NEW pr, NEW ft, Procs(pr), Refs(ft, pr, Slot \X Fd), NEW p \in Slot, pr[p].st = "RUNNABLE",
         NEW d \in Fd, pr[p].ofile[d] = 0, NEW i \in File, NEW gt, gt[i].ref = ft[i].ref + 1,
         \A j \in File : j # i => gt[j].ref = ft[j].ref
  PROVE  Takes(pr, gt, p, d, i, [pr EXCEPT ![p].ofile[d] = i])
<1> DEFINE o == [pr[p].ofile EXCEPT ![d] = i]
           q == [pr[p] EXCEPT !.ofile = o]
           qr == [pr EXCEPT ![p] = q]
           z == <<p, d>>
           All == Slot \X Fd
<1>1. Process(pr[p])
  BY DEF Procs
<1>2. o \in [Fd -> File \cup {0}] /\ o[d] = i /\ \A e \in Fd : e # d => o[e] = pr[p].ofile[e]
  BY <1>1 DEF Process
<1> HIDE DEF o
<1>3. Looks(q, pr[p].st, pr[p].kstack, pr[p].killed, pr[p].mem, pr[p].chan, o, pr[p].rest)
  BY <1>1, Changed
<1> HIDE DEF q
<1>4. /\ Process(q) /\ q.kstack = pr[p].kstack /\ q.mem = pr[p].mem /\ q.ofile = o
      /\ q.st = "RUNNABLE" /\ q.rest = pr[p].rest
  BY <1>1, <1>2, <1>3 DEF Looks, Process
<1>5. /\ Procs(qr) /\ \A pp : Owed(pr, pp) => Owed(qr, pp)
      /\ Brief(pr) => Brief(qr)
  <2>1. Procs(qr)
    BY <1>4, Moved
  <2>2. ASSUME NEW pp, Owed(pr, pp) PROVE Owed(qr, pp)
    <3>1. q.st # "SLEEPING"
      BY <1>4
    <3> QED BY <1>4, <2>2, <3>1, Moved
  <2>3. ASSUME Brief(pr) PROVE Brief(qr)
    <3>1. Len(q.rest) <= PIPESIZE /\ q.st # "SLEEPING"
      BY <1>4, <2>3 DEF Brief
    <3> QED BY <1>4, <2>3, <3>1, Moved
  <2> HIDE DEF qr
  <2> QED BY <2>1, <2>2, <2>3
<1>6. qr[p] = q /\ \A y \in Slot : y # p => qr[y] = pr[y]
  BY DEF Procs
<1> HIDE DEF qr
<1>7. PagesOf(qr) = PagesOf(pr)
  <2>1. \A y \in Slot : qr[y].kstack = pr[y].kstack /\ qr[y].mem = pr[y].mem
    BY <1>4, <1>6
  <2> QED BY <2>1, PagesKept
<1>8. z \in All /\ qr[p].ofile[d] = i /\ pr[p].ofile[d] = 0
  BY <1>2, <1>4, <1>6
<1>9. ASSUME NEW y \in All, y # z PROVE qr[y[1]].ofile[y[2]] = pr[y[1]].ofile[y[2]]
  <2>1. y = <<y[1], y[2]>> /\ y[1] \in Slot /\ y[2] \in Fd
    OBVIOUS
  <2>2. CASE y[1] = p
    <3>1. y[2] # d
      BY <1>9, <2>1, <2>2
    <3> QED BY <1>2, <1>4, <1>6, <2>1, <2>2, <3>1
  <2>3. CASE y[1] # p
    BY <1>6, <2>1, <2>3
  <2> QED BY <2>2, <2>3
<1>10. z[1] = p /\ z[2] = d
  OBVIOUS
<1> HIDE DEF All, z
<1>11. i # 0
  BY DEF File
<1>12. Fds(qr, All, i) = Fds(pr, All, i) \cup {z} /\ z \notin Fds(pr, All, i)
  BY <1>8, <1>9, <1>10, <1>11 DEF Fds
<1>13. \A j \in File : j # i => Fds(qr, All, j) = Fds(pr, All, j)
  <2> SUFFICES ASSUME NEW j \in File, j # i PROVE Fds(qr, All, j) = Fds(pr, All, j)
    OBVIOUS
  <2>1. j # 0
    BY DEF File
  <2> QED BY <1>8, <1>9, <1>10, <2>1 DEF Fds
<1>14. Cardinality(Fds(qr, All, i)) = Cardinality(Fds(pr, All, i)) + 1
  <2>1. IsFiniteSet(Fds(pr, All, i))
    BY FdsFinite DEF All
  <2>2. Cardinality(Fds(pr, All, i) \cup {z}) = Cardinality(Fds(pr, All, i)) + 1
    BY <1>12, <2>1, FS_AddElement
  <2> QED BY <1>12, <2>2
<1>15. Refs(gt, qr, All)
  <2> SUFFICES ASSUME NEW j \in File PROVE gt[j].ref = Cardinality(Fds(qr, All, j))
    BY DEF Refs
  <2>1. ft[j].ref = Cardinality(Fds(pr, All, j)) /\ ft[i].ref = Cardinality(Fds(pr, All, i))
    BY DEF Refs, All
  <2> QED BY <1>13, <1>14, <2>1
<1>16. /\ qr[p].st = "RUNNABLE" /\ qr[p].ofile[d] = i
       /\ \A e \in Fd : e # d => qr[p].ofile[e] = pr[p].ofile[e]
  BY <1>2, <1>4, <1>6
<1>17. Takes(pr, gt, p, d, i, qr)
  BY <1>5, <1>7, <1>15, <1>16 DEF Takes, All
<1> QED BY <1>17 DEF qr, q, o

(* fdalloc and filealloc.                                                  *)
LEMMA FreeIs ==
  /\ \A p : FreeFds(p) # {} => Min(FreeFds(p)) \in Fd /\ proc[p].ofile[Min(FreeFds(p))] = 0
  /\ FreeFiles # {} => Min(FreeFiles) \in File /\ ftable[Min(FreeFiles)].ref = 0
<1>1. ASSUME NEW p, FreeFds(p) # {} PROVE Min(FreeFds(p)) \in Fd /\ proc[p].ofile[Min(FreeFds(p))] = 0
  <2>1. FreeFds(p) \subseteq Nat
    BY DEF FreeFds, Fd
  <2>2. Min(FreeFds(p)) \in FreeFds(p)
    BY <1>1, <2>1, MinIs
  <2> DEFINE m == Min(FreeFds(p))
  <2>3. m \in FreeFds(p)
    BY <2>2
  <2> HIDE DEF m
  <2>4. m \in Fd /\ proc[p].ofile[m] = 0
    BY <2>3 DEF FreeFds
  <2> QED BY <2>4 DEF m
<1>2. ASSUME FreeFiles # {} PROVE Min(FreeFiles) \in File /\ ftable[Min(FreeFiles)].ref = 0
  <2>1. FreeFiles \subseteq Nat
    BY DEF FreeFiles, File
  <2> DEFINE m == Min(FreeFiles)
  <2>2. m \in FreeFiles
    BY <1>2, <2>1, MinIs
  <2> HIDE DEF m
  <2>3. m \in File /\ ftable[m].ref = 0
    BY <2>2 DEF FreeFiles
  <2> QED BY <2>3 DEF m
<1> QED BY <1>1, <1>2

(* One more descriptor of p, for an open file that is an end of the same   *)
(* pipe as before, or of none.                                             *)
LEMMA TakenKept ==
  ASSUME SysInv, NEW p \in Slot, proc[p].st = "RUNNABLE", NEW d \in Fd, proc[p].ofile[d] = 0,
         NEW i \in File, proc' = [proc EXCEPT ![p].ofile[d] = i],
         NEW f, OpenFile(f), f.ref = ftable[i].ref + 1, ftable' = [ftable EXCEPT ![i] = f],
         \A x, w : (f.type = "pipe" /\ f.pipe = x /\ f.w = w) <=> End(ftable, i, x, w),
         UNCHANGED <<pipes, kmem, nextpid>>
  PROVE  Kept
<1>1. /\ Books(ftable, pipes, kmem, proc, Slot \X Fd) /\ Procs(proc) /\ Files(ftable)
      /\ Refs(ftable, proc, Slot \X Fd) /\ Ends(ftable, pipes)
  BY DEF SysInv, Books
<1> DEFINE gt == [ftable EXCEPT ![i] = f]
           qr == [proc EXCEPT ![p].ofile[d] = i]
<1>2. gt = [j \in File |-> gt[j]] /\ gt[i] = f /\ \A j \in File : j # i => gt[j] = ftable[j]
  BY <1>1 DEF Files
<1>3. ftable' = gt /\ proc' = qr
  OBVIOUS
<1> HIDE DEF gt
<1>4. gt[i].ref = ftable[i].ref + 1 /\ \A j \in File : j # i => gt[j].ref = ftable[j].ref
  BY <1>2
<1>5. /\ Procs(qr) /\ Refs(gt, qr, Slot \X Fd) /\ PagesOf(qr) = PagesOf(proc)
      /\ \A pp : Owed(proc, pp) => Owed(qr, pp)
      /\ Brief(proc) => Brief(qr)
  <2>1. Takes(proc, gt, p, d, i, qr)
    BY <1>1, <1>4, Taken
  <2> HIDE DEF qr
  <2> QED BY <2>1 DEF Takes
<1> HIDE DEF qr
<1>6. Files(gt)
  BY <1>1, <1>2 DEF Files
<1>7. \A j \in File : \A x \in Pipe : \A w \in BOOLEAN : End(gt, j, x, w) <=> End(ftable, j, x, w)
  BY <1>2 DEF End
<1>8. Ends(gt, pipes)
  BY <1>1, <1>7, EndsSame
<1>9. Books(gt, pipes, kmem, qr, Slot \X Fd)
  BY <1>1, <1>5, <1>6, <1>8 DEF Books, Paged
<1> QED BY <1>3, <1>5, <1>9 DEF Kept, SysInv

LEMMA DupKept ==
  ASSUME SysInv, NEW p \in Slot, proc[p].st = "RUNNABLE", NEW d, sys_dup(p, d)
  PROVE  Kept
<1> DEFINE i == argfd(p, d)
           e == Min(FreeFds(p))
<1>1. CASE i = 0 \/ FreeFds(p) = {}
  <2>1. UNCHANGED <<proc, ftable, pipes, kmem, nextpid>>
    BY <1>1 DEF sys_dup
  <2> QED BY <2>1, Idle
<1>2. CASE ~(i = 0 \/ FreeFds(p) = {})
  <2> DEFINE f == [ftable[i] EXCEPT !.ref = ftable[i].ref + 1]
  <2>1. /\ ftable' = [ftable EXCEPT ![i] = f] /\ proc' = [proc EXCEPT ![p].ofile[e] = i]
        /\ UNCHANGED <<pipes, kmem, nextpid>>
    BY <1>2 DEF sys_dup
  <2>2. i \in File /\ OpenFile(ftable[i])
    BY <1>2, ArgfdIs
  <2>3. e \in Fd /\ proc[p].ofile[e] = 0
    BY <1>2, FreeIs
  <2> HIDE DEF i, e
  <2>4. OpenFile(f) /\ f.ref = ftable[i].ref + 1 /\ f.type = ftable[i].type /\ f.pipe = ftable[i].pipe
        /\ f.w = ftable[i].w
    <3> DEFINE a == ftable[i]
               b == [a EXCEPT !.ref = a.ref + 1]
    <3>1. OpenFile(a)
      BY <2>2
    <3> HIDE DEF a
    <3>2. b = [type |-> a.type, ref |-> a.ref + 1, r |-> a.r, w |-> a.w, ip |-> a.ip, off |-> a.off, pipe |-> a.pipe]
      BY <3>1 DEF OpenFile
    <3> HIDE DEF b
    <3>3. OpenFile(b) /\ b.ref = a.ref + 1 /\ b.type = a.type /\ b.pipe = a.pipe /\ b.w = a.w
      BY <3>1, <3>2 DEF OpenFile
    <3> QED BY <3>3 DEF a, b
  <2> HIDE DEF f
  <2>5. \A x, w : (f.type = "pipe" /\ f.pipe = x /\ f.w = w) <=> End(ftable, i, x, w)
    BY <2>4 DEF End
  <2> QED BY <2>1, <2>2, <2>3, <2>4, <2>5, TakenKept
<1> QED BY <1>1, <1>2

LEMMA OpenKept ==
  ASSUME SysInv, NEW p \in Slot, proc[p].st = "RUNNABLE", NEW path, NEW creat, NEW acc,
         sys_open(p, path, creat, acc)
  PROVE  Kept
<1>1. PICK o : Opened(p, o, creat, acc) /\ UNCHANGED <<pipes, kmem, nextpid>>
  BY DEF sys_open
<1> DEFINE i == Min(FreeFiles)
           d == Min(FreeFds(p))
<1>2. \/ UNCHANGED <<proc, ftable>>
      \/ FreeFiles # {} /\ FreeFds(p) # {} /\ Opens(p, o, acc, i, d)
  <2> HIDE DEF i, d
  <2>1. \/ \E f : OpenFails(p, f)
        \/ FreeFiles # {} /\ FreeFds(p) # {} /\ Opens(p, o, acc, i, d)
    BY <1>1, Zenon DEF Opened, i, d
  <2> QED BY <2>1 DEF OpenFails
<1>3. CASE UNCHANGED <<proc, ftable>>
  BY <1>1, <1>3, Idle
<1>4. CASE FreeFiles # {} /\ FreeFds(p) # {} /\ Opens(p, o, acc, i, d)
  <2> DEFINE f == [type |-> "inode", ref |-> 1, r |-> acc # "W", w |-> acc # "R", ip |-> o.ip, off |-> 0, pipe |-> 0]
  <2>1. i \in File /\ ftable[i].ref = 0 /\ d \in Fd /\ proc[p].ofile[d] = 0
    BY <1>4, FreeIs
  <2>2. ftable' = [ftable EXCEPT ![i] = f] /\ proc' = [proc EXCEPT ![p].ofile[d] = i]
    BY <1>4 DEF Opens
  <2> HIDE DEF i, d
  <2>3. f = [type |-> f.type, ref |-> f.ref, r |-> f.r, w |-> f.w, ip |-> f.ip, off |-> f.off, pipe |-> f.pipe]
        /\ f.type = "inode" /\ f.ref = 1 /\ f.w \in BOOLEAN
    OBVIOUS
  <2> HIDE DEF f
  <2>4. OpenFile(f) /\ f.ref = ftable[i].ref + 1 /\ f.type # "pipe"
    BY <2>1, <2>3 DEF OpenFile
  <2>5. ftable[i].type # "pipe"
    BY <2>1 DEF SysInv, Books, Files, OpenFile
  <2>6. \A x, v : (f.type = "pipe" /\ f.pipe = x /\ f.w = v) <=> End(ftable, i, x, v)
    BY <2>4, <2>5 DEF End
  <2> QED BY <1>1, <2>1, <2>2, <2>4, <2>6, TakenKept
<1> QED BY <1>2, <1>3, <1>4

(* Files have been closed, and p lets go of the descriptors.               *)
Lets(p, k, D, q) ==
  /\ proc[p].st = "RUNNABLE" /\ D \in SUBSET (Slot \X Fd) /\ Follows(k, D)
  /\ Process(q) /\ q.kstack = proc[p].kstack /\ q.mem = proc[p].mem /\ q.st # "SLEEPING"
  /\ q.rest = proc[p].rest \/ Empty(q.rest)
  /\ \A i \in File : Fds(proc', Slot \X Fd, i) = Fds(k.pr, D, i)
  /\ ftable' = k.ft /\ pipes' = k.pp /\ kmem' = k.km /\ proc' = [k.pr EXCEPT ![p] = q]
  /\ UNCHANGED nextpid

LEMMA LetGo ==
  ASSUME SysInv, NEW p \in Slot, NEW k, NEW D, NEW q, Lets(p, k, D, q)
  PROVE  Kept
<1>0. /\ D \in SUBSET (Slot \X Fd) /\ Follows(k, D)
      /\ Process(q) /\ q.kstack = proc[p].kstack /\ q.mem = proc[p].mem /\ q.st # "SLEEPING"
      /\ q.rest = proc[p].rest \/ Empty(q.rest)
      /\ \A i \in File : Fds(proc', Slot \X Fd, i) = Fds(k.pr, D, i)
      /\ ftable' = k.ft /\ pipes' = k.pp /\ kmem' = k.km /\ proc' = [k.pr EXCEPT ![p] = q]
      /\ UNCHANGED nextpid
  BY DEF Lets
<1> DEFINE qr == [k.pr EXCEPT ![p] = q]
<1>1. /\ Books(k.ft, k.pp, k.km, k.pr, D) /\ Procs(k.pr) /\ Procs(proc) /\ Roused(proc, k.pr)
      /\ Owed(proc, pipes) => Owed(k.pr, k.pp)
  BY <1>0 DEF Follows, Books, SysInv
<1>2. qr[p] = q /\ \A y \in Slot : y # p => qr[y] = k.pr[y]
  BY <1>1 DEF Procs
<1>3. /\ Procs(qr) /\ (Owed(k.pr, k.pp) => Owed(qr, k.pp))
      /\ Brief(k.pr) /\ Len(q.rest) <= PIPESIZE => Brief(qr)
  BY <1>0, <1>1, Moved
<1>4. proc' = qr /\ \A i \in File : Fds(qr, Slot \X Fd, i) = Fds(k.pr, D, i)
  BY <1>0
<1> HIDE DEF qr
<1>5. Alike(proc[p], k.pr[p])
  BY <1>1, RousedAlike
<1>6. PagesOf(qr) = PagesOf(k.pr)
  <2>1. \A y \in Slot : qr[y].kstack = k.pr[y].kstack /\ qr[y].mem = k.pr[y].mem
    BY <1>0, <1>2, <1>5 DEF Alike
  <2> QED BY <2>1, PagesKept
<1>7. Books(k.ft, k.pp, k.km, qr, Slot \X Fd)
  BY <1>1, <1>3, <1>4, <1>6 DEF Books, Refs, Paged
<1>8. ASSUME Brief(proc) PROVE Brief(qr)
  <2>1. Brief(k.pr)
    BY <1>1, <1>8, BriefRoused
  <2>2. Len(q.rest) <= PIPESIZE
    BY <1>0, <1>8, TextLen, Sizes DEF Brief, Empty
  <2> QED BY <1>3, <2>1, <2>2
<1> QED BY <1>0, <1>1, <1>3, <1>4, <1>7, <1>8 DEF Kept, SysInv

LEMMA CloseKept ==
  ASSUME SysInv, NEW p \in Slot, proc[p].st = "RUNNABLE", NEW d, sys_close(p, d)
  PROVE  Kept
<1> DEFINE i == argfd(p, d)
           r == fileclose(Objects, i)
           All == Slot \X Fd
           z == <<p, d>>
<1>1. CASE i = 0
  <2>1. UNCHANGED <<proc, ftable, pipes, kmem, nextpid>>
    BY <1>1 DEF sys_close
  <2> QED BY <2>1, Idle
<1>2. CASE i # 0
  <2>1. i \in File /\ d \in Fd /\ i = proc[p].ofile[d]
    BY <1>2, ArgfdIs
  <2>2. /\ ftable' = r.ft /\ pipes' = r.pp /\ kmem' = r.km /\ UNCHANGED nextpid
        /\ proc' = [r.pr EXCEPT ![p].ofile[d] = 0]
    BY <1>2 DEF sys_close, SetObjects
  <2>3. /\ Closing(Objects) /\ Objects.ft = ftable /\ Objects.pp = pipes /\ Objects.km = kmem /\ Objects.pr = proc
    BY DEF Closing, Objects
  <2>4. z \in Fds(proc, All, i)
    BY <2>1 DEF Fds
  <2>5. Books(ftable, pipes, kmem, proc, All) /\ Procs(proc)
    BY DEF SysInv, Books
  <2> HIDE DEF i, r
  <2>6. Follows(r, All \ {z})
    <3>1. r = fileclose(Objects, i)
      BY DEF r
    <3> HIDE DEF All, z
    <3>2. /\ Closing(r) /\ Books(r.ft, r.pp, r.km, r.pr, All \ {z}) /\ Roused(proc, r.pr)
          /\ Owed(proc, pipes) => Owed(r.pr, r.pp)
      <4>1. All \in SUBSET (Slot \X Fd)
        BY DEF All
      <4> QED BY <2>1, <2>3, <2>4, <2>5, <3>1, <4>1, FilecloseKeeps
    <3> QED BY <3>2 DEF Follows
  <2>7. Process(proc[p]) /\ Process(r.pr[p]) /\ Alike(proc[p], r.pr[p])
    BY <2>5, <2>6, RousedAlike DEF Follows, Procs
  <2> DEFINE a == r.pr[p]
             o == [a.ofile EXCEPT ![d] = 0]
             q == [a EXCEPT !.ofile = o]
             qr == [r.pr EXCEPT ![p] = q]
  <2>8. o \in [Fd -> File \cup {0}] /\ o[d] = 0 /\ \A e \in Fd : e # d => o[e] = a.ofile[e]
    BY <2>1, <2>7 DEF Process
  <2>9. Looks(q, a.st, a.kstack, a.killed, a.mem, a.chan, o, a.rest)
    <3> HIDE DEF a, o
    <3> QED BY <2>7, Changed DEF a
  <2>10. a.kstack = proc[p].kstack /\ a.mem = proc[p].mem /\ a.rest = proc[p].rest /\ a.st = "RUNNABLE"
    BY <2>7 DEF Alike
  <2>11. proc' = qr
    BY <2>2
  <2>12. Procs(r.pr)
    BY <2>6 DEF Follows, Books
  <2>13. qr[p] = q /\ \A y \in Slot : y # p => qr[y] = r.pr[y]
    BY <2>12 DEF Procs
  <2> HIDE DEF o, q
  <2>14. Process(q) /\ q.kstack = proc[p].kstack /\ q.mem = proc[p].mem /\ q.rest = proc[p].rest /\ q.st # "SLEEPING" /\ q.ofile = o
    <3> HIDE DEF a
    <3>1. Process(a)
      BY <2>7 DEF a
    <3> QED BY <2>8, <2>9, <2>10, <3>1 DEF Looks, Process
  <2>15. ASSUME NEW j \in File PROVE Fds(qr, All, j) = Fds(r.pr, All \ {z}, j)
    <3>1. j # 0
      BY DEF File
    <3>2. ASSUME NEW y \in All PROVE qr[y[1]].ofile[y[2]] = j <=> y # z /\ r.pr[y[1]].ofile[y[2]] = j
      <4>1. y = <<y[1], y[2]>> /\ y[1] \in Slot /\ y[2] \in Fd
        OBVIOUS
      <4>2. CASE y[1] # p
        BY <2>13, <4>1, <4>2
      <4>3. CASE y[1] = p /\ y[2] = d
        <5>1. y = z
          BY <4>1, <4>3
        <5>2. qr[y[1]].ofile[y[2]] = 0
          BY <2>8, <2>13, <2>14, <4>3
        <5> QED BY <3>1, <5>1, <5>2
      <4>4. CASE y[1] = p /\ y[2] # d
        <5>1. y # z
          BY <4>1, <4>4
        <5>2. qr[p].ofile[y[2]] = r.pr[p].ofile[y[2]]
          BY <2>8, <2>13, <2>14, <4>1, <4>4
        <5> QED BY <4>4, <5>1, <5>2
      <4> QED BY <4>2, <4>3, <4>4
    <3> HIDE DEF All, z, qr
    <3> QED BY <3>2 DEF Fds
  <2>16. \A j \in File : Fds(proc', All, j) = Fds(r.pr, All \ {z}, j)
    <3> HIDE DEF qr, All, z
    <3> QED BY <2>11, <2>15
  <2>17. proc' = [r.pr EXCEPT ![p] = q]
    BY <2>11
  <2>18. All \ {z} \in SUBSET (Slot \X Fd)
    OBVIOUS
  <2> HIDE DEF z, qr, a
  <2>19. Lets(p, r, All \ {z}, q)
    BY <2>2, <2>6, <2>14, <2>16, <2>17, <2>18 DEF Lets
  <2> QED BY <2>19, LetGo
<1> QED BY <1>1, <1>2

LEMMA ExitCloseKept ==
  ASSUME SysInv, NEW p \in Slot, exit_close(p)
  PROVE  Kept
<1> DEFINE k == Dropped(p)
           a == k.pr[p]
           o == NoProc.ofile
           q1 == [a EXCEPT !.st = "EXITING"]
           q2 == [q1 EXCEPT !.ofile = o]
           q3 == [q2 EXCEPT !.cwd = 0]
           q == [q3 EXCEPT !.rest = <<>>]
           qr == [k.pr EXCEPT ![p] = q]
           D == Left(p, NOFILE)
<1>1. Books(ftable, pipes, kmem, proc, Slot \X Fd) /\ Procs(proc) /\ proc[p].st = "RUNNABLE"
  BY DEF SysInv, Books, exit_close
<1>2. /\ ftable' = k.ft /\ pipes' = k.pp /\ kmem' = k.km /\ UNCHANGED nextpid
      /\ proc' = [k.pr EXCEPT ![p] = [a EXCEPT !.st = "EXITING", !.ofile = o, !.cwd = 0, !.rest = <<>>]]
  <2>1. UNCHANGED nextpid /\ ExitWith(p, k)
    BY DEF exit_close
  <2> DEFINE h == [k EXCEPT !.fs = IF p = initproc THEN Panic(k.fs) ELSE iput(k.fs, proc[p].cwd)]
  <2>2. ftable' = h.ft /\ pipes' = h.pp /\ kmem' = h.km
        /\ proc' = [k.pr EXCEPT ![p] = [a EXCEPT !.st = "EXITING", !.ofile = o, !.cwd = 0, !.rest = <<>>]]
    BY <2>1 DEF ExitWith, SetObjects
  <2>3. Closing(k)
    BY <1>1, DroppedKeeps DEF Follows
  <2> HIDE DEF k
  <2>4. h.ft = k.ft /\ h.pp = k.pp /\ h.km = k.km
    BY <2>3 DEF Closing
  <2> QED BY <2>1, <2>2, <2>4
<1>3. Follows(k, D)
  BY <1>1, DroppedKeeps
<1> HIDE DEF k
<1>4. Process(a) /\ Alike(proc[p], a) /\ Procs(k.pr)
  BY <1>1, <1>3, RousedAlike DEF Follows, Books
<1>5. proc' = qr
  BY <1>2
<1>6. qr[p] = q /\ \A y \in Slot : y # p => qr[y] = k.pr[y]
  BY <1>4 DEF Procs
<1>7. o = [d \in Fd |-> 0]
  BY DEF NoProc
<1> HIDE DEF a, q, q1, q2, q3
<1>8. /\ Process(q) /\ q.kstack = a.kstack /\ q.mem = a.mem /\ q.st = "EXITING" /\ q.rest = <<>> /\ q.ofile = o
  <2>2. Looks(q1, "EXITING", a.kstack, a.killed, a.mem, a.chan, a.ofile, a.rest)
    BY <1>4, Changed DEF q1
  <2>3. Looks(q2, "EXITING", a.kstack, a.killed, a.mem, a.chan, o, a.rest)
    BY <2>2 DEF Looks, q2
  <2>4. Looks(q3, "EXITING", a.kstack, a.killed, a.mem, a.chan, o, a.rest)
    BY <2>3 DEF Looks, q3
  <2>5. Looks(q, "EXITING", a.kstack, a.killed, a.mem, a.chan, o, <<>>)
    BY <2>4 DEF Looks, q
  <2>6. a.st = "RUNNABLE"
    BY <1>1, <1>4 DEF Alike
  <2>7. Process(q)
    BY <1>4, <1>7, <2>5, <2>6, TextLen DEF Looks, Process, States
  <2> QED BY <2>5, <2>7 DEF Looks
<1>9. a.kstack = proc[p].kstack /\ a.mem = proc[p].mem
  BY <1>4 DEF Alike
<1>10. ASSUME NEW j \in File PROVE Fds(qr, Slot \X Fd, j) = Fds(k.pr, D, j)
  <2>1. j # 0
    BY DEF File
  <2>2. ASSUME NEW y \in Slot \X Fd
        PROVE  qr[y[1]].ofile[y[2]] = j <=> y \in D /\ k.pr[y[1]].ofile[y[2]] = j
    <3>1. y[1] \in Slot /\ y[2] \in Fd /\ ~(y[2] >= NOFILE)
      BY Sizes DEF Fd
    <3>2. y \in D <=> y[1] # p
      BY <3>1 DEF Left
    <3>3. CASE y[1] = p
      <4>1. qr[y[1]].ofile[y[2]] = 0
        BY <1>6, <1>7, <1>8, <3>1, <3>3
      <4> QED BY <2>1, <3>2, <3>3, <4>1
    <3>4. CASE y[1] # p
      BY <1>6, <3>1, <3>2, <3>4
    <3> QED BY <3>3, <3>4
  <2>3. D \subseteq Slot \X Fd
    BY DEF Left
  <2> HIDE DEF D, qr
  <2> QED BY <2>2, <2>3 DEF Fds
<1>11. D \in SUBSET (Slot \X Fd)
  BY DEF Left
<1> HIDE DEF D
<1>12. proc' = [k.pr EXCEPT ![p] = q]
  BY <1>5
<1> HIDE DEF qr
<1>13. \A j \in File : Fds(proc', Slot \X Fd, j) = Fds(k.pr, D, j)
  BY <1>5, <1>10
<1>14. q.kstack = proc[p].kstack /\ q.mem = proc[p].mem /\ q.st # "SLEEPING"
  BY <1>8, <1>9
<1>15. Empty(q.rest)
  BY <1>8 DEF Empty
<1>16. Lets(p, k, D, q)
  BY <1>1, <1>2, <1>3, <1>8, <1>11, <1>12, <1>13, <1>14, <1>15 DEF Lets
<1> QED BY <1>16, LetGo

-----------------------------------------------------------------------------
(* wait and fork.                                                          *)

(* Slot x gets a new process, and kmem is settled.                         *)
Placed(x, q, km, mr) ==
  /\ Procs(mr) /\ mr[x] = q /\ \A y \in Slot : y # x => mr[y] = proc[y]
  /\ Paged(pipes, km, mr)
  /\ Owed(proc, pipes) => Owed(mr, pipes)
  /\ Brief(proc) /\ Len(q.rest) <= PIPESIZE => Brief(mr)

LEMMA Places ==
  ASSUME SysInv, NEW x \in Slot, NEW q, Process(q), q.st # "SLEEPING",
         PagesAt(q) <= kmem + PagesAt(proc[x])
  PROVE  Placed(x, q, kmem + PagesAt(proc[x]) - PagesAt(q), [proc EXCEPT ![x] = q])
<1> DEFINE mr == [proc EXCEPT ![x] = q]
           o == Cardinality(PagesOf(proc))
           u == Cardinality(InUsePipes(pipes))
           a == PagesAt(proc[x])
           b == PagesAt(q)
<1>1. Procs(proc) /\ kmem \in Nat /\ NPAGE = kmem + u + o /\ u \in Nat
  BY PipesInUse DEF SysInv, Books, Paged
<1>2. mr[x] = q /\ \A y \in Slot : y # x => mr[y] = proc[y]
  BY <1>1 DEF Procs
<1>3. /\ Procs(mr) /\ (Owed(proc, pipes) => Owed(mr, pipes))
      /\ Brief(proc) /\ Len(q.rest) <= PIPESIZE => Brief(mr)
  BY <1>1, Moved
<1> HIDE DEF mr
<1>4. Cardinality(PagesOf(mr)) = o - a + b /\ o \in Nat /\ a \in Nat /\ b \in Nat
  <2>1. \A y \in Slot \ {x} : mr[y].kstack = proc[y].kstack /\ mr[y].mem = proc[y].mem
    BY <1>2
  <2>2. /\ Cardinality(PagesOf(mr)) = Cardinality(PagesOf(proc)) - PagesAt(proc[x]) + PagesAt(mr[x])
        /\ Cardinality(PagesOf(proc)) \in Nat /\ PagesAt(proc[x]) \in Nat /\ PagesAt(mr[x]) \in Nat
    BY <1>1, <1>3, <2>1, PagesMoved
  <2> QED BY <1>2, <2>2
<1>5. b <= kmem + a
  OBVIOUS
<1>6. Paged(pipes, kmem + a - b, mr)
  <2> HIDE DEF o, a, b
  <2>1. kmem + a - b \in Nat /\ NPAGE = (kmem + a - b) + u + Cardinality(PagesOf(mr))
    <3> HIDE DEF u
    <3> QED BY <1>1, <1>4, <1>5, Sizes
  <2> QED BY <2>1 DEF Paged
<1>7. Placed(x, q, kmem + a - b, mr)
  <2> HIDE DEF a, b
  <2> QED BY <1>2, <1>3, <1>6 DEF Placed
<1> QED BY <1>7 DEF mr

LEMMA WaitKept ==
  ASSUME SysInv, NEW p, sys_wait(p)
  PROVE  Kept
<1> DEFINE x == Min(Dead(p))
           q == NoProc
           mr == [proc EXCEPT ![x] = q]
           km == kmem + PagesAt(proc[x]) - PagesAt(q)
<1>1. CASE Dead(p) = {}
  <2>1. UNCHANGED <<proc, kmem, ftable, pipes, nextpid>>
    BY <1>1 DEF sys_wait
  <2> QED BY <2>1, Idle
<1>2. CASE Dead(p) # {}
  <2>1. x \in Dead(p)
    <3>1. Dead(p) \subseteq Nat
      BY DEF Dead, Kids, Slot
    <3> QED BY <1>2, <3>1, MinIs
  <2>2. kmem' = kmem + Footprint(proc[x]) /\ proc' = mr /\ UNCHANGED <<ftable, pipes, nextpid>>
    BY <1>2 DEF sys_wait, Buried
  <2> HIDE DEF x
  <2>3. x \in Slot /\ proc[x].st = "ZOMBIE"
    BY <2>1 DEF Dead, Kids
  <2>4. Process(proc[x]) /\ kmem \in Nat /\ Books(ftable, pipes, kmem, proc, Slot \X Fd)
    BY <2>3 DEF SysInv, Books, Procs, Paged
  <2>5. q = [st |-> "UNUSED", pid |-> 0, parent |-> 0, killed |-> FALSE, kstack |-> 0, mem |-> [sz |-> 0, low |-> 0],
             chan |-> <<"", 0>>, ofile |-> [d \in Fd |-> 0], cwd |-> 0, rest |-> <<>>]
    BY DEF NoProc
  <2> HIDE DEF q
  <2>6. Process(q) /\ q.st = "UNUSED" /\ q.kstack = 0 /\ (\A d \in Fd : q.ofile[d] = 0) /\ Len(q.rest) <= PIPESIZE
    <3> DEFINE o == [d \in Fd |-> 0]
    <3>1. o \in [Fd -> File \cup {0}] /\ \A d \in Fd : o[d] = 0
      OBVIOUS
    <3>2. q.ofile = o /\ q.st = "UNUSED" /\ q.kstack = 0 /\ q.mem = [sz |-> 0, low |-> 0]
      BY <2>5
    <3>7. q.killed \in BOOLEAN
      BY <2>5
    <3>6. q.rest = <<>>
      BY <2>5
    <3>3. q = [st |-> q.st, pid |-> q.pid, parent |-> q.parent, killed |-> q.killed, kstack |-> q.kstack, mem |-> q.mem,
               chan |-> q.chan, ofile |-> q.ofile, cwd |-> q.cwd, rest |-> q.rest]
      BY <2>5
    <3>4. Text(q.rest) /\ Len(q.rest) = 0
      BY <3>6, TextLen
    <3> HIDE DEF o
    <3>5. Process(q)
      <4>1. q.st \in States /\ q.kstack \in {0, 1} /\ Memory(q.mem) /\ (q.kstack = 0 <=> q.st = "UNUSED")
            /\ q.st # "SLEEPING"
        BY <3>2, MemoryOf, PagesNat DEF States
      <4>2. q.ofile \in [Fd -> File \cup {0}] /\ \A d \in Fd : q.ofile[d] = 0
        BY <3>1, <3>2
      <4> QED BY <3>3, <3>4, <3>7, <4>1, <4>2 DEF Process
    <3> QED BY <3>1, <3>2, <3>4, <3>5, Sizes
  <2>7. PagesAt(q) = 0 /\ PagesAt(proc[x]) = Footprint(proc[x]) /\ Footprint(proc[x]) \in Nat
    <3>1. proc[x].kstack # 0
      BY <2>3, <2>4 DEF Process
    <3> QED BY <2>4, <2>6, <3>1, PagesAtNat DEF PagesAt
  <2>8. Placed(x, q, km, mr)
    <3>1. PagesAt(q) <= kmem + PagesAt(proc[x])
      BY <2>4, <2>7
    <3> QED BY <2>3, <2>6, <3>1, Places
  <2>9. km = kmem'
    BY <2>2, <2>4, <2>7
  <2> HIDE DEF mr, km
  <2>10. \A i \in File : Fds(mr, Slot \X Fd, i) = Fds(proc, Slot \X Fd, i)
    <3> SUFFICES ASSUME NEW i \in File, NEW z \in Slot \X Fd
                 PROVE  mr[z[1]].ofile[z[2]] = i <=> proc[z[1]].ofile[z[2]] = i
      BY DEF Fds
    <3>1. z[1] \in Slot /\ z[2] \in Fd /\ i # 0
      BY DEF File
    <3>2. CASE z[1] # x
      BY <2>8, <3>1, <3>2 DEF Placed
    <3>3. CASE z[1] = x
      <4>1. mr[x] = q
        BY <2>8 DEF Placed
      <4>2. proc[x].ofile[z[2]] = 0
        BY <2>3, <2>4, <3>1 DEF Process
      <4> QED BY <2>6, <3>1, <3>3, <4>1, <4>2
    <3> QED BY <3>2, <3>3
  <2>11. Books(ftable, pipes, kmem', mr, Slot \X Fd)
    BY <2>4, <2>8, <2>9, <2>10 DEF Books, Refs, Placed
  <2> QED BY <2>2, <2>6, <2>8, <2>11 DEF Placed, Kept, SysInv
<1> QED BY <1>1, <1>2

LEMMA ForkKept ==
  ASSUME SysInv, NEW p \in Slot, proc[p].st = "RUNNABLE", NEW c, sys_fork(p, c)
  PROVE  Kept
<1> DEFINE H(i) == {d \in Fd : proc[p].ofile[d] = i}
           dups(i) == Cardinality({d \in {e \in Fd : proc[p].ofile[e] # 0} : proc[p].ofile[d] = i})
           q1 == [proc[p] EXCEPT !.pid = nextpid]
           q2 == [q1 EXCEPT !.parent = p]
           q == [q2 EXCEPT !.killed = proc[c].killed]
           mr == [proc EXCEPT ![c] = q]
           gt == [i \in File |-> [ftable[i] EXCEPT !.ref = ftable[i].ref + dups(i)]]
           All == Slot \X Fd
<1>1. Books(ftable, pipes, kmem, proc, All) /\ Procs(proc) /\ Files(ftable) /\ kmem \in Nat /\ nextpid \in Nat \ {0}
      /\ Process(proc[p])
  BY DEF SysInv, Books, Paged, Procs
<1>2. UNCHANGED pipes /\ nextpid' \in Nat \ {0}
  BY <1>1 DEF sys_fork
<1>3. CASE c = 0
  <2>1. UNCHANGED <<ftable, kmem, pipes>> /\ nextpid' \in Nat \ {0}
    BY <1>2, <1>3 DEF sys_fork
  <2>2. CASE Unused = {}
    <3>1. UNCHANGED proc
      BY <1>3, <2>2 DEF sys_fork
    <3> QED BY <1>1, <2>1, <3>1 DEF Kept
  <2>3. CASE Unused # {}
    <3> DEFINE x == Min(Unused)
               r == [proc[x] EXCEPT !.pid = nextpid]
    <3>1. x \in Slot /\ proc[x].st = "UNUSED"
      <4>1. Unused \subseteq Nat
        BY DEF Unused, Slot
      <4>2. x \in Unused
        BY <2>3, <4>1, MinIs
      <4> QED BY <4>2 DEF Unused
    <3>2. proc' = [proc EXCEPT ![x] = r]
      BY <1>3, <2>3 DEF sys_fork
    <3> HIDE DEF x
    <3>3. Process(proc[x])
      BY <1>1, <3>1 DEF Procs
    <3>4. Looks(r, proc[x].st, proc[x].kstack, proc[x].killed, proc[x].mem, proc[x].chan, proc[x].ofile, proc[x].rest)
      BY <3>3, Changed
    <3> HIDE DEF r
    <3>5. Process(r)
      BY <3>3, <3>4, SameProcess
    <3>6. r.kstack = proc[x].kstack /\ r.mem = proc[x].mem /\ r.ofile = proc[x].ofile /\ r.rest = proc[x].rest
          /\ r.st # "SLEEPING"
      BY <3>1, <3>4 DEF Looks
    <3> QED BY <2>1, <3>1, <3>2, <3>5, <3>6, OneProcAgain
  <2> QED BY <2>2, <2>3
<1>4. CASE c # 0
  <2>1. c = Min(Unused) /\ Unused # {} /\ kmem >= Footprint(proc[p])
    BY <1>4 DEF sys_fork
  <2>2. c \in Slot /\ proc[c].st = "UNUSED"
    <3>1. Unused \subseteq Nat
      BY DEF Unused, Slot
    <3>2. c \in Unused
      BY <2>1, <3>1, MinIs
    <3> QED BY <3>2 DEF Unused
  <2>3. kmem' = kmem - Footprint(proc[p]) /\ ftable' = gt /\ proc' = mr
    BY <1>4 DEF sys_fork
  <2>4. Process(proc[c]) /\ proc[c].kstack = 0 /\ \A d \in Fd : proc[c].ofile[d] = 0
    <3>1. Process(proc[c])
      BY <1>1, <2>2 DEF Procs
    <3> QED BY <2>2, <3>1 DEF Process
  <2>5. Looks(q1, "RUNNABLE", proc[p].kstack, proc[p].killed, proc[p].mem, proc[p].chan, proc[p].ofile, proc[p].rest)
    BY <1>1, Changed
  <2> HIDE DEF q1
  <2>6. Looks(q2, "RUNNABLE", proc[p].kstack, proc[p].killed, proc[p].mem, proc[p].chan, proc[p].ofile, proc[p].rest)
    BY <2>5 DEF Looks
  <2> HIDE DEF q2
  <2>7. Looks(q, "RUNNABLE", proc[p].kstack, proc[c].killed, proc[p].mem, proc[p].chan, proc[p].ofile, proc[p].rest)
    BY <2>6 DEF Looks
  <2> HIDE DEF q
  <2>8. Process(q) /\ q.st = "RUNNABLE" /\ q.kstack = proc[p].kstack /\ q.mem = proc[p].mem /\ q.ofile = proc[p].ofile
        /\ q.rest = proc[p].rest
    BY <1>1, <2>4, <2>7 DEF Looks, Process
  <2>9. PagesAt(q) = Footprint(proc[p]) /\ PagesAt(proc[c]) = 0 /\ Footprint(proc[p]) \in Nat
    <3>1. proc[p].kstack # 0
      BY <1>1 DEF Process
    <3> QED BY <1>1, <2>4, <2>8, <3>1, PagesAtNat DEF PagesAt, Footprint
  <2> DEFINE km == kmem + PagesAt(proc[c]) - PagesAt(q)
  <2>10. Placed(c, q, km, mr)
    <3>1. PagesAt(q) <= kmem + PagesAt(proc[c])
      BY <1>1, <2>1, <2>9
    <3> QED BY <2>2, <2>8, <3>1, Places
  <2>11. km = kmem'
    BY <1>1, <2>3, <2>9
  <2> HIDE DEF mr, km
  <2>12. ASSUME NEW i \in File
         PROVE  dups(i) \in Nat /\ Cardinality(Fds(mr, All, i)) = Cardinality(Fds(proc, All, i)) + dups(i)
    <3>1. i # 0
      BY DEF File
    <3>2. {d \in {e \in Fd : proc[p].ofile[e] # 0} : proc[p].ofile[d] = i} = H(i)
      BY <3>1
    <3>3. IsFiniteSet(H(i)) /\ Cardinality(H(i)) \in Nat
      <4>1. H(i) \in SUBSET Fd
        OBVIOUS
      <4> QED BY <4>1, Finite, FS_Subset, FS_CardinalityType
    <3> DEFINE X == {c} \X H(i)
               F == Fds(proc, All, i)
    <3>4. IsFiniteSet(X) /\ Cardinality(X) = Cardinality(H(i))
      <4> HIDE DEF H
      <4>1. IsFiniteSet({c}) /\ Cardinality({c}) = 1
        BY FS_Singleton
      <4>2. IsFiniteSet(X) /\ Cardinality(X) = Cardinality({c}) * Cardinality(H(i))
        BY <3>3, <4>1, FS_Product
      <4> QED BY <3>3, <4>1, <4>2
    <3>5. IsFiniteSet(F) /\ Cardinality(F) \in Nat
      BY FdsFinite
    <3>6. Fds(mr, All, i) = F \cup X /\ F \cap X = {}
      <4>1. ASSUME NEW z \in All PROVE z \in Fds(mr, All, i) <=> z \in F \cup X
        <5>1. z = <<z[1], z[2]>> /\ z[1] \in Slot /\ z[2] \in Fd
          OBVIOUS
        <5>2. z \in Fds(mr, All, i) <=> mr[z[1]].ofile[z[2]] = i
          BY DEF Fds
        <5>3. z \in F <=> proc[z[1]].ofile[z[2]] = i
          BY DEF Fds
        <5>4. z \in X <=> z[1] = c /\ proc[p].ofile[z[2]] = i
          BY <5>1
        <5>5. CASE z[1] = c
          <6>1. mr[z[1]].ofile[z[2]] = proc[p].ofile[z[2]]
            BY <2>8, <2>10, <5>5 DEF Placed
          <6>2. proc[z[1]].ofile[z[2]] = 0
            BY <2>4, <5>1, <5>5
          <6> HIDE DEF F, X
          <6> QED BY <3>1, <5>2, <5>3, <5>4, <5>5, <6>1, <6>2
        <5>6. CASE z[1] # c
          <6>1. mr[z[1]] = proc[z[1]]
            BY <2>10, <5>1, <5>6 DEF Placed
          <6> HIDE DEF F, X
          <6> QED BY <5>2, <5>3, <5>4, <5>6, <6>1
        <5> QED BY <5>5, <5>6
      <4>2. Fds(mr, All, i) \subseteq All /\ F \subseteq All /\ X \subseteq All
        <5>1. Fds(mr, All, i) \subseteq All /\ F \subseteq All
          BY DEF Fds
        <5>2. X \subseteq All
          BY <2>2
        <5> QED BY <5>1, <5>2
      <4>3. ASSUME NEW z \in F PROVE z \notin X
        <5>1. z \in All /\ proc[z[1]].ofile[z[2]] = i
          BY <4>3 DEF Fds
        <5>2. z[1] # c
          BY <2>4, <3>1, <5>1
        <5> QED BY <5>2
      <4> HIDE DEF F, X, All
      <4> QED BY <4>1, <4>2, <4>3
    <3>7. Cardinality(F \cup X) = Cardinality(F) + Cardinality(X)
      <4> HIDE DEF F, X
      <4>1. Cardinality(F \cup X) = Cardinality(F) + Cardinality(X) - Cardinality(F \cap X)
        BY <3>4, <3>5, FS_Union
      <4>2. Cardinality(F \cap X) = 0
        BY <3>6, FS_EmptySet
      <4>3. Cardinality(X) \in Nat
        BY <3>4, FS_CardinalityType
      <4> QED BY <3>5, <4>1, <4>2, <4>3
    <3> HIDE DEF F, X, H
    <3> QED BY <3>2, <3>3, <3>4, <3>6, <3>7 DEF F
  <2> HIDE DEF dups
  <2>13. ASSUME NEW i \in File
         PROVE  /\ OpenFile(gt[i]) /\ gt[i].ref = ftable[i].ref + dups(i) /\ gt[i].type = ftable[i].type
                /\ gt[i].pipe = ftable[i].pipe /\ gt[i].w = ftable[i].w
    <3> DEFINE a == ftable[i]
               v == a.ref + dups(i)
               g == [a EXCEPT !.ref = v]
    <3>1. OpenFile(a) /\ gt[i] = g
      BY <1>1 DEF Files
    <3>2. a.ref \in Nat /\ v \in Nat /\ v >= a.ref
      BY <2>12, <3>1 DEF OpenFile
    <3>3. gt[i] = g /\ v = ftable[i].ref + dups(i) /\ a = ftable[i]
      BY <3>1
    <3> HIDE DEF a, v, gt
    <3>4. g = [type |-> a.type, ref |-> v, r |-> a.r, w |-> a.w, ip |-> a.ip, off |-> a.off, pipe |-> a.pipe]
      BY <3>1 DEF OpenFile
    <3> HIDE DEF g
    <3>5. OpenFile(g) /\ g.ref = v /\ g.type = a.type /\ g.pipe = a.pipe /\ g.w = a.w
      BY <3>1, <3>2, <3>4 DEF OpenFile
    <3> QED BY <3>3, <3>5
  <2>14. gt = [i \in File |-> gt[i]]
    OBVIOUS
  <2> HIDE DEF gt
  <2>15. Files(gt)
    BY <2>13, <2>14 DEF Files
  <2>16. Ends(gt, pipes)
    <3>1. \A i \in File : \A x \in Pipe : \A w \in BOOLEAN : End(gt, i, x, w) <=> End(ftable, i, x, w)
      BY <2>13 DEF End
    <3>2. Ends(ftable, pipes)
      BY <1>1 DEF Books
    <3> QED BY <3>1, <3>2, EndsSame
  <2>17. Refs(gt, mr, All)
    <3> SUFFICES ASSUME NEW i \in File PROVE gt[i].ref = Cardinality(Fds(mr, All, i))
      BY DEF Refs
    <3>1. ftable[i].ref = Cardinality(Fds(proc, All, i))
      BY <1>1 DEF Books, Refs
    <3> QED BY <2>12, <2>13, <3>1
  <2>18. Books(gt, pipes, kmem', mr, All)
    BY <1>1, <2>10, <2>11, <2>15, <2>16, <2>17 DEF Books, Placed
  <2>19. Brief(proc) => Len(q.rest) <= PIPESIZE
    BY <2>8 DEF Brief
  <2> QED BY <1>2, <2>3, <2>10, <2>18, <2>19 DEF Placed, Kept
<1> QED BY <1>3, <1>4

-----------------------------------------------------------------------------
(* pipe.                                                                   *)

(* Every pipe in use has an open file of its own.                          *)
LEMMA PipeThere ==
  ASSUME SysInv, Cardinality(FreeFiles) >= 2
  PROVE  \E x \in Pipe : pipes[x] = NoPipe
<1> SUFFICES ASSUME \A x \in Pipe : pipes[x] # NoPipe PROVE FALSE
  OBVIOUS
<1> DEFINE Mine(x, i) == ftable[i].type = "pipe" /\ ftable[i].pipe = x
           f == [x \in Pipe |-> CHOOSE i \in File : Mine(x, i)]
           T == File \ FreeFiles
<1>1. Books(ftable, pipes, kmem, proc, Slot \X Fd)
  BY DEF SysInv
<1>2. ASSUME NEW x \in Pipe PROVE f[x] \in T /\ Mine(x, f[x])
  <2>1. pipes[x].ro \/ pipes[x].wo
    <3> DEFINE b == pipes[x]
    <3>1. IsPipe(b) /\ b # NoPipe
      BY <1>1, <1>2 DEF Books, Pipes
    <3> HIDE DEF b
    <3>2. b.ro \/ b.wo
      BY <3>1 DEF IsPipe, NoPipe
    <3> QED BY <3>2 DEF b
  <2>2. \E i \in File : Mine(x, i)
    BY <1>1, <2>1 DEF Books, Ends, End
  <2>3. f[x] \in File /\ Mine(x, f[x])
    BY <2>2
  <2>4. ASSUME NEW i \in File, Mine(x, i) PROVE i \notin FreeFiles
    <3>1. ftable[i].ref \in Nat /\ ftable[i].ref > 0
      BY <1>1, <2>4 DEF Books, Files, OpenFile
    <3> QED BY <3>1 DEF FreeFiles
  <2> HIDE DEF f, Mine
  <2> QED BY <2>3, <2>4
<1>3. f \in [Pipe -> T]
  BY <1>2
<1>4. \A x, y \in Pipe : f[x] = f[y] => x = y
  <2> HIDE DEF f
  <2> QED BY <1>2
<1>5. f \in Injection(Pipe, T)
  <2> HIDE DEF f, T
  <2> QED BY <1>3, <1>4 DEF Injection, IsInjective
<1>6. FreeFiles \in SUBSET File
  BY DEF FreeFiles
<1>7. IsFiniteSet(FreeFiles) /\ IsFiniteSet(T) /\ Cardinality(T) = Cardinality(File) - Cardinality(FreeFiles)
      /\ Cardinality(FreeFiles) \in Nat /\ Cardinality(T) \in Nat
  <2>1. IsFiniteSet(FreeFiles) /\ Cardinality(FreeFiles) \in Nat
    BY <1>6, Finite, FS_Subset, FS_CardinalityType
  <2>2. File \cap FreeFiles = FreeFiles
    BY <1>6
  <2>3. IsFiniteSet(T) /\ Cardinality(T) = Cardinality(File) - Cardinality(File \cap FreeFiles)
    BY Finite, FS_Difference
  <2>4. Cardinality(T) \in Nat
    BY <2>3, FS_CardinalityType
  <2> QED BY <2>1, <2>2, <2>3, <2>4
<1>8. Cardinality(Pipe) <= Cardinality(T)
  <2> HIDE DEF f, T
  <2> QED BY <1>5, <1>7, Finite, FS_Injection
<1> QED BY <1>7, <1>8, Finite, Sizes

LEMMA TwoOf ==
  ASSUME NEW S, S \subseteq Nat, IsFiniteSet(S), Cardinality(S) >= 2
  PROVE  Min(S) \in S /\ Min(S \ {Min(S)}) \in S /\ Min(S \ {Min(S)}) # Min(S)
<1> DEFINE m == Min(S)
           T == S \ {m}
<1>1. S # {}
  BY FS_EmptySet
<1>2. m \in S
  BY <1>1, MinIs
<1> HIDE DEF m
<1>3. Cardinality(T) = Cardinality(S) - 1 /\ Cardinality(S) \in Nat
  BY <1>2, OneLess
<1>4. T # {}
  <2>1. Cardinality(T) # 0
    BY <1>3
  <2> QED BY <2>1, FS_EmptySet
<1>5. T \subseteq Nat
  OBVIOUS
<1>6. Min(T) \in T
  BY <1>4, <1>5, MinIs
<1> QED BY <1>2, <1>6 DEF m

NewEnd(x, w) == [type |-> "pipe", ref |-> 1, r |-> ~w, w |-> w, ip |-> 0, off |-> 0, pipe |-> x]
NewPipe == [data |-> <<>>, ro |-> TRUE, wo |-> TRUE]

(* p's descriptors d and e are the two ends, open files i and j, of pipe x. *)
Piped(p, i, j, d, e, x) ==
  /\ i \in File /\ j \in File /\ i # j /\ ftable[i].ref = 0 /\ ftable[j].ref = 0
  /\ d \in Fd /\ e \in Fd /\ d # e /\ proc[p].ofile[d] = 0 /\ proc[p].ofile[e] = 0
  /\ x \in Pipe /\ pipes[x] = NoPipe /\ kmem # 0
  /\ pipes' = [pipes EXCEPT ![x] = NewPipe]
  /\ kmem' = kmem - 1
  /\ ftable' = [[ftable EXCEPT ![i] = NewEnd(x, FALSE)] EXCEPT ![j] = NewEnd(x, TRUE)]
  /\ proc' = [[proc EXCEPT ![p].ofile[d] = i] EXCEPT ![p].ofile[e] = j]
  /\ UNCHANGED nextpid

LEMMA NewPipeIs == IsPipe(NewPipe) /\ NewPipe # NoPipe /\ NewPipe.ro /\ NewPipe.wo /\ ~NoPipe.ro /\ ~NoPipe.wo
<1> DEFINE s == NewPipe.data
<1>1. s = <<>>
  BY DEF NewPipe
<1>2. Text(s) /\ Len(s) = 0
  BY <1>1, TextLen
<1>3. NewPipe = [data |-> s, ro |-> TRUE, wo |-> TRUE]
  BY DEF NewPipe
<1> HIDE DEF s
<1>4. IsPipe(NewPipe)
  <2>1. NewPipe.data = s /\ NewPipe.ro /\ NewPipe.wo /\ NewPipe = [data |-> NewPipe.data, ro |-> NewPipe.ro, wo |-> NewPipe.wo]
        /\ NewPipe.ro \in BOOLEAN /\ NewPipe.wo \in BOOLEAN
    BY <1>3
  <2>2. Text(NewPipe.data) /\ Len(NewPipe.data) <= PIPESIZE
    BY <1>2, <2>1, Sizes
  <2> QED BY <2>1, <2>2 DEF IsPipe
<1>5. NewPipe.ro /\ NewPipe.wo
  BY <1>3
<1>6. ~NoPipe.ro /\ ~NoPipe.wo
  BY DEF NoPipe
<1>7. NewPipe # NoPipe
  BY <1>5, <1>6
<1> QED BY <1>4, <1>5, <1>6, <1>7

LEMMA NewEndIs ==
  ASSUME NEW x \in Pipe, NEW w \in BOOLEAN
  PROVE  /\ OpenFile(NewEnd(x, w)) /\ NewEnd(x, w).ref = 1 /\ NewEnd(x, w).type = "pipe"
         /\ NewEnd(x, w).pipe = x /\ NewEnd(x, w).w = w
BY DEF OpenFile, NewEnd

LEMMA PipedKept ==
  ASSUME SysInv, NEW p \in Slot, proc[p].st = "RUNNABLE", NEW i, NEW j, NEW d, NEW e, NEW x,
         Piped(p, i, j, d, e, x)
  PROVE  Kept
<1> DEFINE ft1 == [ftable EXCEPT ![i] = NewEnd(x, FALSE)]
           ft2 == [ft1 EXCEPT ![j] = NewEnd(x, TRUE)]
           pr1 == [proc EXCEPT ![p].ofile[d] = i]
           pr2 == [pr1 EXCEPT ![p].ofile[e] = j]
           qq == [pipes EXCEPT ![x] = NewPipe]
           All == Slot \X Fd
<1>1. Books(ftable, pipes, kmem, proc, Slot \X Fd) /\ Procs(proc) /\ Files(ftable) /\ Pipes(pipes)
      /\ Refs(ftable, proc, All) /\ Ends(ftable, pipes) /\ Paged(pipes, kmem, proc)
      /\ nextpid \in Nat \ {0}
  BY DEF SysInv, Books
<1>2. /\ i \in File /\ j \in File /\ i # j /\ ftable[i].ref = 0 /\ ftable[j].ref = 0
      /\ d \in Fd /\ e \in Fd /\ d # e /\ proc[p].ofile[d] = 0 /\ proc[p].ofile[e] = 0
      /\ x \in Pipe /\ pipes[x] = NoPipe /\ kmem # 0
  BY DEF Piped
<1>3. pipes' = qq /\ kmem' = kmem - 1 /\ ftable' = ft2 /\ proc' = pr2 /\ nextpid' = nextpid
  BY DEF Piped
<1>4. /\ ft1[i] = NewEnd(x, FALSE) /\ (\A n \in File : n # i => ft1[n] = ftable[n])
      /\ ft2[j] = NewEnd(x, TRUE) /\ (\A n \in File : n # j => ft2[n] = ft1[n])
      /\ ft2 = [n \in File |-> ft2[n]]
  BY <1>1, <1>2 DEF Files
<1>5. /\ qq = [y \in Pipe |-> qq[y]] /\ qq[x] = NewPipe /\ \A y \in Pipe : y # x => qq[y] = pipes[y]
  BY <1>1, <1>2 DEF Pipes
<1>19. NewEnd(x, FALSE).ref = 1 /\ NewEnd(x, TRUE).ref = 1
  BY <1>2, NewEndIs
<1>20. OpenFile(NewEnd(x, FALSE)) /\ OpenFile(NewEnd(x, TRUE))
  BY <1>2, NewEndIs
<1>6. /\ OpenFile(NewEnd(x, FALSE)) /\ OpenFile(NewEnd(x, TRUE))
      /\ (\A y \in Pipe : \A w \in BOOLEAN : (NewEnd(x, FALSE).pipe = y /\ NewEnd(x, FALSE).w = w) <=> y = x /\ w = FALSE)
      /\ (\A y \in Pipe : \A w \in BOOLEAN : (NewEnd(x, TRUE).pipe = y /\ NewEnd(x, TRUE).w = w) <=> y = x /\ w = TRUE)
      /\ NewEnd(x, FALSE).type = "pipe" /\ NewEnd(x, TRUE).type = "pipe"
  BY <1>2, NewEndIs
<1> HIDE DEF ft1
<1>7. Takes(proc, ft1, p, d, i, pr1)
  <2>1. ft1[i].ref = ftable[i].ref + 1 /\ \A n \in File : n # i => ft1[n].ref = ftable[n].ref
    <3>1. ft1[i].ref = 1
      BY <1>4, <1>19
    <3>2. ftable[i] = ftable[i]
      BY <1>2, <1>4
    <3>3. ftable[i].ref = 0
      BY <1>2, <3>2
    <3>4. \A n \in File : n # i => ft1[n].ref = ftable[n].ref
      BY <1>4
    <3> QED BY <3>1, <3>3, <3>4
  <2> QED BY <1>1, <1>2, <2>1, Taken
<1> HIDE DEF pr1, ft2
<1>8. Takes(pr1, ft2, p, e, j, pr2)
  <2>1. ft2[j].ref = ft1[j].ref + 1 /\ \A n \in File : n # j => ft2[n].ref = ft1[n].ref
    <3>1. ft2[j].ref = 1
      BY <1>4, <1>19
    <3>2. ft1[j] = ftable[j]
      BY <1>2, <1>4
    <3>3. ft1[j].ref = 0
      BY <1>2, <3>2
    <3>4. \A n \in File : n # j => ft2[n].ref = ft1[n].ref
      BY <1>4
    <3> QED BY <3>1, <3>3, <3>4
  <2>2. Procs(pr1) /\ Refs(ft1, pr1, Slot \X Fd) /\ pr1[p].st = "RUNNABLE" /\ pr1[p].ofile[e] = 0
    BY <1>2, <1>7 DEF Takes
  <2> QED BY <1>2, <2>1, <2>2, Taken
<1> HIDE DEF pr2, qq
<1>9. Files(ft2)
  <2>1. \A n \in File : OpenFile(ftable[n])
    BY <1>1 DEF Files
  <2>2. \A n \in File : OpenFile(ft1[n])
    BY <1>4, <1>20, <2>1
  <2>3. \A n \in File : OpenFile(ft2[n])
    BY <1>4, <1>20, <2>2
  <2> QED BY <1>4, <2>3 DEF Files
<1>10. Pipes(qq)
  BY <1>1, <1>5, NewPipeIs DEF Pipes
<1>11. ASSUME NEW n \in File, NEW y \in Pipe, NEW w \in BOOLEAN
       PROVE  End(ft2, n, y, w) <=> End(ftable, n, y, w) \/ (y = x /\ ((n = i /\ w = FALSE) \/ (n = j /\ w = TRUE)))
  <2>1. ~End(ftable, i, y, w) /\ ~End(ftable, j, y, w)
    <3>1. OpenFile(ftable[i]) /\ OpenFile(ftable[j])
      BY <1>1, <1>2 DEF Files
    <3> QED BY <1>2, <3>1 DEF OpenFile, End
  <2>2. CASE n = i
    <3>1. ft2[n] = NewEnd(x, FALSE)
      BY <1>2, <1>4, <2>2
    <3> QED BY <1>2, <1>6, <2>1, <2>2, <3>1 DEF End
  <2>3. CASE n = j
    <3>1. ft2[n] = NewEnd(x, TRUE)
      BY <1>4, <2>3
    <3> QED BY <1>2, <1>6, <2>1, <2>3, <3>1 DEF End
  <2>4. CASE n # i /\ n # j
    <3>1. ft2[n] = ftable[n]
      BY <1>4, <2>4
    <3> QED BY <2>4, <3>1 DEF End
  <2> QED BY <2>2, <2>3, <2>4
<1>12. \A n \in File : \A w \in BOOLEAN : ~End(ftable, n, x, w)
  BY <1>1, <1>2, NewPipeIs DEF Ends
<1>13. Ends(ft2, qq)
  <2> SUFFICES ASSUME NEW y \in Pipe
               PROVE  /\ qq[y].ro <=> \E n \in File : End(ft2, n, y, FALSE)
                      /\ qq[y].wo <=> \E n \in File : End(ft2, n, y, TRUE)
                      /\ OneEnd(ft2, y)
    BY DEF Ends
  <2>1. CASE y = x
    <3>1. \A n \in File : \A w \in BOOLEAN : End(ft2, n, y, w) <=> (n = i /\ w = FALSE) \/ (n = j /\ w = TRUE)
      BY <1>11, <1>12, <2>1
    <3>2. qq[y].ro /\ qq[y].wo
      BY <1>5, <2>1, NewPipeIs
    <3> QED BY <1>2, <3>1, <3>2 DEF OneEnd
  <2>2. CASE y # x
    <3>1. \A n \in File : \A w \in BOOLEAN : End(ft2, n, y, w) <=> End(ftable, n, y, w)
      BY <1>11, <2>2
    <3>2. qq[y] = pipes[y]
      BY <1>5, <2>2
    <3>3. /\ pipes[y].ro <=> \E n \in File : End(ftable, n, y, FALSE)
          /\ pipes[y].wo <=> \E n \in File : End(ftable, n, y, TRUE)
          /\ OneEnd(ftable, y)
      BY <1>1 DEF Ends
    <3>4. OneEnd(ft2, y)
      BY <3>1, <3>3 DEF OneEnd
    <3> QED BY <3>1, <3>2, <3>3, <3>4
  <2> QED BY <2>1, <2>2
<1>14. PagesOf(pr2) = PagesOf(proc) /\ Procs(pr2) /\ Refs(ft2, pr2, All)
  BY <1>7, <1>8 DEF Takes
<1>15. Paged(qq, kmem - 1, pr2)
  <2> DEFINE U == InUsePipes(pipes)
  <2>1. InUsePipes(qq) = U \cup {x}
    <3> HIDE DEF All
    <3> QED BY <1>2, <1>5, NewPipeIs DEF InUsePipes
  <2>2. x \notin U
    BY <1>2 DEF InUsePipes
  <2>3. IsFiniteSet(U) /\ Cardinality(U) \in Nat
    BY PipesInUse
  <2> HIDE DEF U
  <2>4. Cardinality(U \cup {x}) = Cardinality(U) + 1
    BY <2>2, <2>3, FS_AddElement
  <2>5. kmem \in Nat /\ NPAGE = kmem + Cardinality(U) + Cardinality(PagesOf(proc)) /\ Cardinality(PagesOf(proc)) \in Nat
    <3>1. IsFiniteSet(PagesOf(proc))
      <4>1. PagesOf(proc) = PagesIn(proc, Slot)
        BY DEF PagesOf, PagesIn
      <4> QED BY <1>1, <4>1, PagesFinite
    <3> QED BY <1>1, <3>1, FS_CardinalityType DEF Paged, U
  <2>6. kmem - 1 \in Nat /\ NPAGE = (kmem - 1) + (Cardinality(U) + 1) + Cardinality(PagesOf(proc))
    BY <1>2, <2>3, <2>5, Sizes
  <2> QED BY <1>14, <2>1, <2>4, <2>6 DEF Paged
<1>16. Owed(proc, pipes) => Owed(pr2, qq)
  <2> SUFFICES ASSUME Owed(proc, pipes) PROVE Owed(pr2, qq)
    OBVIOUS
  <2>1. Owed(pr2, pipes)
    BY <1>7, <1>8 DEF Takes
  <2>2. Rightly(pr2, x, NewPipe)
    <3> SUFFICES ASSUME NEW y \in Slot, pr2[y].st = "SLEEPING"
                 PROVE  pr2[y].chan # <<"nread", x>> /\ pr2[y].chan # <<"nwrite", x>>
      BY DEF Rightly
    <3>1. OwedOne(pr2[y], pipes)
      BY <2>1 DEF Owed
    <3> QED BY <1>2, <3>1, OwedAt, NewPipeIs
  <2>3. Roused(pr2, pr2)
    BY DEF Roused
  <2> QED BY <1>1, <1>2, <1>14, <2>1, <2>2, <2>3, OwedKept DEF qq
<1>17. Brief(proc) => Brief(pr2)
  BY <1>7, <1>8 DEF Takes
<1>18. Books(ft2, qq, kmem - 1, pr2, All)
  BY <1>9, <1>10, <1>13, <1>14, <1>15 DEF Books
<1> HIDE DEF All
<1> QED BY <1>1, <1>3, <1>16, <1>17, <1>18 DEF Kept, All

LEMMA PipeKept ==
  ASSUME SysInv, NEW p \in Slot, proc[p].st = "RUNNABLE", sys_pipe(p)
  PROVE  Kept
<1> DEFINE i == Min(FreeFiles)
           j == Min(FreeFiles \ {i})
           d == Min(FreeFds(p))
           e == Min(FreeFds(p) \ {d})
           Free == {x \in Pipe : pipes[x] = NoPipe}
           pi == Min(Free)
           none == Cardinality(FreeFiles) < 2 \/ Cardinality(FreeFds(p)) < 2 \/ kmem = 0
<1>1. CASE none
  <2>1. UNCHANGED <<proc, ftable, pipes, kmem, nextpid>>
    BY <1>1 DEF sys_pipe
  <2> QED BY <2>1, Idle
<1>2. CASE ~none
  <2>1. FreeFiles \subseteq File /\ FreeFds(p) \subseteq Fd
    BY DEF FreeFiles, FreeFds
  <2>2. IsFiniteSet(FreeFiles) /\ IsFiniteSet(FreeFds(p)) /\ Cardinality(FreeFiles) \in Nat /\ Cardinality(FreeFds(p)) \in Nat
    BY <2>1, Finite, FS_Subset, FS_CardinalityType
  <2>3. FreeFiles \subseteq Nat /\ FreeFds(p) \subseteq Nat
    BY <2>1 DEF File, Fd
  <2>4. Cardinality(FreeFiles) >= 2 /\ Cardinality(FreeFds(p)) >= 2 /\ kmem # 0
    BY <1>2, <2>2
  <2>5. i \in FreeFiles /\ j \in FreeFiles /\ i # j
    BY <2>2, <2>3, <2>4, TwoOf
  <2>6. d \in FreeFds(p) /\ e \in FreeFds(p) /\ d # e
    BY <2>2, <2>3, <2>4, TwoOf
  <2>7. pi \in Free
    <3>1. Free # {}
      BY <2>4, PipeThere
    <3>2. Free \subseteq Nat
      BY DEF Pipe
    <3> HIDE DEF Free
    <3> QED BY <3>1, <3>2, MinIs
  <2>8. /\ pipes' = [pipes EXCEPT ![pi] = NewPipe]
        /\ kmem' = kmem - 1
        /\ ftable' = [[ftable EXCEPT ![i] = NewEnd(pi, FALSE)] EXCEPT ![j] = NewEnd(pi, TRUE)]
        /\ proc' = [[proc EXCEPT ![p].ofile[d] = i] EXCEPT ![p].ofile[e] = j]
        /\ UNCHANGED nextpid
    BY <1>2 DEF sys_pipe, NewPipe, NewEnd
  <2> HIDE DEF i, j, d, e
  <2>9. i \in File /\ j \in File /\ ftable[i].ref = 0 /\ ftable[j].ref = 0
    BY <2>5 DEF FreeFiles
  <2>10. d \in Fd /\ e \in Fd /\ proc[p].ofile[d] = 0 /\ proc[p].ofile[e] = 0
    BY <2>6 DEF FreeFds
  <2>11. pi \in Pipe /\ pipes[pi] = NoPipe
    <3> DEFINE x == pi
    <3>1. x \in Free
      BY <2>7
    <3> HIDE DEF x
    <3>2. x \in Pipe /\ pipes[x] = NoPipe
      BY <3>1
    <3> QED BY <3>2 DEF x
  <2> HIDE DEF pi, none
  <2>12. Piped(p, i, j, d, e, pi)
    BY <2>4, <2>5, <2>6, <2>8, <2>9, <2>10, <2>11 DEF Piped
  <2> QED BY <2>12, PipedKept
<1> QED BY <1>1, <1>2

-----------------------------------------------------------------------------
(* The kernel under any programs.                                          *)

LEMMA FileCallKept ==
  ASSUME SysInv, NEW p \in Slot, proc[p].st = "RUNNABLE", NEW CONSTANT Lens, FileCall(p, Lens)
  PROVE  Booked /\ (Lens \subseteq 0..PIPESIZE => Kept)
<1> SUFFICES Kept \/ (Booked /\ (Lens \subseteq 0..PIPESIZE => Kept))
  BY DEF Kept, Booked
<1>1. CASE \E path, creat, acc : sys_open(p, path, creat, acc)
  BY <1>1, OpenKept
<1>2. CASE \E d : sys_close(p, d) \/ sys_dup(p, d) \/ sys_fstat(p, d) \/ pipe_sleep(p, d)
  <2>1. PICK d : sys_close(p, d) \/ sys_dup(p, d) \/ sys_fstat(p, d) \/ pipe_sleep(p, d)
    BY <1>2
  <2>2. CASE sys_fstat(p, d)
    BY <2>2, Idle DEF sys_fstat
  <2> QED BY <2>1, <2>2, CloseKept, DupKept, PipeSleepKept
<1>3. CASE \E d : \E n \in Int : sys_read(p, d, n)
  BY <1>3, ReadKept
<1>4. CASE \E d, s : Text(s) /\ Len(s) \in Lens /\ sys_write(p, d, s)
  <2>1. PICK d, s : Text(s) /\ Len(s) \in Lens /\ sys_write(p, d, s)
    BY <1>4
  <2>2. /\ Booked
        /\ Len(s) <= PIPESIZE /\ Owed(proc, pipes) /\ Brief(proc) => Owed(proc', pipes') /\ Brief(proc')
    BY <2>1, WriteKept
  <2>3. Lens \subseteq 0..PIPESIZE => Len(s) <= PIPESIZE
    <3>1. ASSUME Lens \subseteq 0..PIPESIZE PROVE Len(s) \in 0..PIPESIZE
      BY <2>1, <3>1
    <3>2. Len(s) \in 0..PIPESIZE => Len(s) <= PIPESIZE
      OBVIOUS
    <3> QED BY <3>1, <3>2
  <2> QED BY <2>2, <2>3 DEF Kept, Booked
<1>5. CASE \E path : sys_unlink(p, path) \/ sys_mkdir(p, path) \/ sys_mknod(p, path) \/ sys_chdir(p, path)
  <2>1. PICK path : sys_unlink(p, path) \/ sys_mkdir(p, path) \/ sys_mknod(p, path) \/ sys_chdir(p, path)
    BY <1>5
  <2>2. CASE sys_chdir(p, path)
    BY <2>2, ChangeDirKept DEF sys_chdir
  <2> QED BY <2>1, <2>2, FsCallKept DEF sys_unlink, sys_mkdir, sys_mknod
<1>6. CASE \E old, new : sys_link(p, old, new)
  BY <1>6, FsCallKept DEF sys_link
<1>7. CASE \E path, perm : sys_chmod(p, path, perm)
  BY <1>7, FsCallKept DEF sys_chmod
<1>8. CASE \E name, pw : sys_login(p, name, pw) \/ sys_addUser(p, name, pw) \/ sys_deleteUser(p, name)
  BY <1>8, FsCallKept DEF sys_login, sys_addUser, sys_deleteUser
<1>9. CASE sys_myopen(p) \/ sys_logout(p)
  BY <1>9, FsCallKept DEF sys_myopen, sys_logout
<1>10. CASE sys_pipe(p)
  BY <1>10, PipeKept
<1> QED BY <1>1, <1>2, <1>3, <1>4, <1>5, <1>6, <1>7, <1>8, <1>9, <1>10 DEF FileCall

LEMMA ProcessCallKept ==
  ASSUME SysInv, NEW p \in Slot, proc[p].st = "RUNNABLE", ProcessCall(p)
  PROVE  Kept
<1>1. CASE \E c \in Slot \cup {0} : sys_fork(p, c)
  BY <1>1, ForkKept
<1>2. CASE \E pid : sys_kill(p, pid)
  BY <1>2, KillKept
<1>3. CASE \E path, args, ok : sys_exec(p, path, args, ok)
  <2>1. \E n, args, ok : ExecFound(p, n, args, ok)
    BY <1>3 DEF sys_exec
  <2> QED BY <2>1, ExecKept
<1>4. CASE \E n \in Int : sys_sbrk(p, n)
  BY <1>4, SbrkKept
<1>5. CASE sys_wait(p)
  BY <1>5, WaitKept
<1>6. CASE sys_sleep(p) \/ sys_getpid(p)
  BY <1>6, Idle DEF sys_sleep, sys_getpid
<1>7. CASE fault(p)
  BY <1>7, FaultKept
<1>8. CASE exit_close(p)
  BY <1>8, ExitCloseKept
<1> QED BY <1>1, <1>2, <1>3, <1>4, <1>5, <1>6, <1>7, <1>8 DEF ProcessCall

LEMMA NextKept ==
  ASSUME SysInv, NEW CONSTANT Lens, [SysNext(Lens)]_sysvars
  PROVE  Booked /\ (Lens \subseteq 0..PIPESIZE => Kept)
<1> SUFFICES Kept \/ (Booked /\ (Lens \subseteq 0..PIPESIZE => Kept))
  BY DEF Kept, Booked
<1>1. CASE SysNext(Lens)
  <2>1. PICK p \in Slot : \/ proc[p].st = "RUNNABLE" /\ (FileCall(p, Lens) \/ ProcessCall(p))
                          \/ exit_zombie(p)
    BY <1>1 DEF SysNext
  <2> QED BY <2>1, FileCallKept, ProcessCallKept, ExitZombieKept
<1>2. CASE UNCHANGED sysvars
  BY <1>2, Idle DEF sysvars
<1> QED BY <1>1, <1>2

LEMMA Begun ==
  ASSUME SysInit
  PROVE  SysInv /\ Owed(proc, pipes) /\ Brief(proc)
<1> DEFINE one1 == [NoProc EXCEPT !.st = "RUNNABLE"]
           one0 == [one1 EXCEPT !.pid = 1]
           one2 == [one0 EXCEPT !.kstack = 1]
           m1 == [sz |-> PGSIZE, low |-> 0]
           one3 == [one2 EXCEPT !.mem.sz = PGSIZE]
           one  == [one3 EXCEPT !.cwd = ROOTINO]
           o == [d \in Fd |-> 0]
           All == Slot \X Fd
<1>1. /\ proc = [x \in Slot |-> IF x # 1 THEN NoProc ELSE one]
      /\ ftable = [i \in File |-> NoFile] /\ pipes = [x \in Pipe |-> NoPipe]
      /\ kmem = NPAGE - Footprint([mem |-> m1]) /\ nextpid = 2
  BY DEF SysInit, userinit
<1>2. o \in [Fd -> File \cup {0}] /\ \A d \in Fd : o[d] = 0
  OBVIOUS
<1>3. /\ NoProc = [st |-> NoProc.st, pid |-> NoProc.pid, parent |-> NoProc.parent, killed |-> NoProc.killed,
                   kstack |-> NoProc.kstack, mem |-> NoProc.mem, chan |-> NoProc.chan, ofile |-> NoProc.ofile, cwd |-> NoProc.cwd,
                   rest |-> NoProc.rest]
      /\ NoProc.st = "UNUSED" /\ NoProc.kstack = 0 /\ NoProc.mem = [sz |-> 0, low |-> 0] /\ NoProc.ofile = o
  BY DEF NoProc
<1>4. NoProc.killed \in BOOLEAN
  BY DEF NoProc
<1>5. Text(NoProc.rest) /\ Len(NoProc.rest) = 0
  BY TextLen DEF NoProc
<1> HIDE DEF o
<1>6. Process(NoProc)
  <2>1. /\ NoProc.st \in States /\ NoProc.kstack \in {0, 1} /\ Memory(NoProc.mem)
        /\ (NoProc.kstack = 0 <=> NoProc.st = "UNUSED") /\ NoProc.st # "SLEEPING"
    BY <1>3, MemoryOf DEF States
  <2>2. NoProc.ofile \in [Fd -> File \cup {0}] /\ \A d \in Fd : NoProc.ofile[d] = 0
    BY <1>2, <1>3
  <2> QED BY <1>3, <1>4, <1>5, <2>1, <2>2 DEF Process
<1>7. Looks(one1, "RUNNABLE", NoProc.kstack, NoProc.killed, NoProc.mem, NoProc.chan, NoProc.ofile, NoProc.rest)
  BY <1>6, Changed
<1> HIDE DEF one1
<1>24. Looks(one0, "RUNNABLE", NoProc.kstack, NoProc.killed, NoProc.mem, NoProc.chan, NoProc.ofile, NoProc.rest)
  BY <1>7 DEF Looks
<1> HIDE DEF one0
<1>8. Looks(one2, "RUNNABLE", 1, NoProc.killed, NoProc.mem, NoProc.chan, NoProc.ofile, NoProc.rest)
  BY <1>24 DEF Looks
<1> HIDE DEF one2
<1>9. Looks(one3, "RUNNABLE", 1, NoProc.killed, m1, NoProc.chan, NoProc.ofile, NoProc.rest)
  <2>1. one2.mem = [sz |-> 0, low |-> 0]
    BY <1>3, <1>8 DEF Looks
  <2>2. one3 = [one2 EXCEPT !.mem = m1]
    BY <1>8, <2>1 DEF Looks
  <2> HIDE DEF m1
  <2> QED BY <1>8, <2>2 DEF Looks
<1> HIDE DEF one3
<1>10. Looks(one, "RUNNABLE", 1, NoProc.killed, m1, NoProc.chan, NoProc.ofile, NoProc.rest)
  BY <1>9 DEF Looks
<1> HIDE DEF one
<1>11. /\ Process(one) /\ one.st = "RUNNABLE" /\ one.kstack = 1 /\ one.mem = m1 /\ one.ofile = o
       /\ Len(one.rest) = 0
  <2>1. one.st = "RUNNABLE" /\ one.kstack = 1 /\ one.mem = m1 /\ one.ofile = o /\ Len(one.rest) = 0 /\ Text(one.rest)
    BY <1>3, <1>5, <1>10 DEF Looks
  <2>2. one.killed \in BOOLEAN
    BY <1>4, <1>10 DEF Looks
  <2>3. one = [st |-> one.st, pid |-> one.pid, parent |-> one.parent, killed |-> one.killed, kstack |-> one.kstack, mem |-> one.mem,
               chan |-> one.chan, ofile |-> one.ofile, cwd |-> one.cwd, rest |-> one.rest]
    BY <1>10 DEF Looks
  <2>4. /\ one.st \in States /\ one.kstack \in {0, 1} /\ Memory(one.mem) /\ (one.kstack = 0 <=> one.st = "UNUSED")
        /\ one.st \in {"RUNNABLE", "SLEEPING"} /\ one.st # "SLEEPING"
    BY <2>1, Sizes, MemoryOf DEF States
  <2>5. one.ofile \in [Fd -> File \cup {0}]
    BY <1>2, <2>1
  <2>6. Process(one)
    BY <2>1, <2>2, <2>3, <2>4, <2>5 DEF Process
  <2> QED BY <2>1, <2>6
<1>12. 1 \in Slot /\ proc[1] = one /\ \A x \in Slot : x # 1 => proc[x] = NoProc
  <2>1. 1 \in Slot
    BY Sizes DEF Slot
  <2> QED BY <1>1, <2>1
<1>13. Procs(proc)
  <2>1. proc = [x \in Slot |-> proc[x]]
    BY <1>1
  <2>2. \A x \in Slot : Process(proc[x])
    BY <1>6, <1>11, <1>12
  <2> QED BY <2>1, <2>2 DEF Procs
<1>14. Files(ftable) /\ \A i \in File : ftable[i].type = "none" /\ ftable[i].ref = 0
  <2>1. OpenFile(NoFile) /\ NoFile.type = "none" /\ NoFile.ref = 0
    BY DEF OpenFile, NoFile
  <2>2. ftable = [i \in File |-> ftable[i]] /\ \A i \in File : ftable[i] = NoFile
    BY <1>1
  <2> QED BY <2>1, <2>2 DEF Files
<1>15. IsPipe(NoPipe)
  <2>1. NoPipe.data = <<>>
    BY DEF NoPipe
  <2>2. Text(NoPipe.data) /\ Len(NoPipe.data) = 0
    BY <2>1, TextLen
  <2>3. NoPipe = [data |-> NoPipe.data, ro |-> NoPipe.ro, wo |-> NoPipe.wo] /\ NoPipe.ro \in BOOLEAN /\ NoPipe.wo \in BOOLEAN
    BY DEF NoPipe
  <2> QED BY <2>1, <2>2, <2>3, Sizes DEF IsPipe
<1>16. \A x \in Pipe : pipes[x] = NoPipe
  BY <1>1
<1>17. Pipes(pipes)
  <2>1. pipes = [x \in Pipe |-> pipes[x]]
    BY <1>1
  <2> QED BY <1>15, <1>16, <2>1 DEF Pipes
<1>18. Ends(ftable, pipes)
  BY <1>14, <1>16, NewPipeIs DEF Ends, OneEnd, End
<1>19. Refs(ftable, proc, All)
  <2> SUFFICES ASSUME NEW i \in File PROVE ftable[i].ref = Cardinality(Fds(proc, All, i))
    BY DEF Refs
  <2>1. ASSUME NEW z \in All PROVE proc[z[1]].ofile[z[2]] # i
    <3>1. z[1] \in Slot /\ z[2] \in Fd /\ i # 0
      BY DEF File
    <3>2. proc[z[1]].ofile = o
      BY <1>3, <1>11, <1>12, <3>1
    <3> QED BY <1>2, <3>1, <3>2
  <2>2. Fds(proc, All, i) = {}
    BY <2>1 DEF Fds
  <2> QED BY <1>14, <2>2, FS_EmptySet
<1>20. Paged(pipes, kmem, proc)
  <2>1. InUsePipes(pipes) = {}
    BY <1>16 DEF InUsePipes
  <2>2. Cardinality(InUsePipes(pipes)) = 0
    BY <2>1, FS_EmptySet
  <2>3. PagesIn(proc, Slot \ {1}) = {}
    <3>1. {y \in Slot \ {1} : proc[y].kstack # 0} = {}
      BY <1>3, <1>12
    <3> QED BY <3>1 DEF PagesIn
  <2>4. Cardinality(PagesOf(proc)) = 0 + PagesAt(proc[1])
    BY <1>12, <1>13, <2>3, PagesParted, FS_EmptySet
  <2>5. Pages(PGSIZE) = 1
    <3>1. PGSIZE * 1 = PGSIZE
      BY Sizes
    <3> QED BY <3>1, PagesExact
  <2>6. PagesAt(proc[1]) = 1 + KVM + 1
    BY <1>11, <1>12, <2>5 DEF PagesAt, Footprint, Mapped
  <2>7. kmem = NPAGE - (1 + KVM + 1)
    BY <1>1, <2>5 DEF Footprint, Mapped
  <2>8. kmem \in Nat /\ NPAGE = kmem + 0 + (0 + (1 + KVM + 1))
    BY <2>7, Sizes
  <2> QED BY <2>2, <2>4, <2>6, <2>8 DEF Paged
<1>21. SysInv
  BY <1>1, <1>13, <1>14, <1>17, <1>18, <1>19, <1>20 DEF SysInv, Books
<1>22. \A x \in Slot : proc[x].st # "SLEEPING" /\ Len(proc[x].rest) = 0
  BY <1>3, <1>5, <1>11, <1>12
<1>23. Owed(proc, pipes) /\ Brief(proc)
  BY <1>22, Sizes DEF Owed, Brief
<1> QED BY <1>21, <1>23

(* The books are in order in every state, whatever the programs do.        *)
LEMMA BooksHold == ASSUME NEW CONSTANT Lens PROVE SysSpec(Lens) => []SysInv
<1>1. SysInit => SysInv
  BY Begun
<1>2. SysInv /\ [SysNext(Lens)]_sysvars => SysInv'
  <2> SUFFICES ASSUME SysInv, [SysNext(Lens)]_sysvars PROVE SysInv'
    OBVIOUS
  <2>1. Booked
    BY NextKept
  <2> QED BY <2>1 DEF Booked, SysInv
<1> QED BY <1>1, <1>2, PTL DEF SysSpec

(* No page is lost and none is handed out twice, for any number of         *)
(* processes, pipes and pages and for programs of any kind (kalloc.c,      *)
(* vm.c, pipe.c, proc.c): what is not on kalloc's free list belongs to one *)
(* process or to one pipe.                                                 *)
THEOREM PagesCountedHolds == ASSUME NEW CONSTANT Lens PROVE SysSpec(Lens) => []PagesCounted
<1>1. SysInv => PagesCounted
  BY DEF SysInv, Books, Paged, InUsePipes, PagesCounted
<1> QED BY <1>1, BooksHold, PTL

(* A struct file counts the descriptors that refer to it, through dup,     *)
(* fork, close and exit (file.c, sysfile.c, proc.c), so it is closed with  *)
(* the last of them and never earlier.                                     *)
THEOREM FilesCountedHolds == ASSUME NEW CONSTANT Lens PROVE SysSpec(Lens) => []FilesCounted
<1>1. SysInv => FilesCounted
  BY DEF SysInv, Books, Refs, Fds, FilesCounted
<1> QED BY <1>1, BooksHold, PTL

(* Nobody sleeps on a pipe through what it waits for (pipe.c), as long as  *)
(* no write is longer than the pipe.                                       *)
THEOREM SleepersOwedHolds ==
  ASSUME NEW CONSTANT Lens, Lens \subseteq 0..PIPESIZE
  PROVE  SysSpec(Lens) => []SleepersOwed
<1> DEFINE Inv == SysInv /\ Owed(proc, pipes) /\ Brief(proc)
<1>1. SysInit => Inv
  BY Begun
<1>2. Inv /\ [SysNext(Lens)]_sysvars => Inv'
  <2> SUFFICES ASSUME Inv, [SysNext(Lens)]_sysvars PROVE Inv'
    OBVIOUS
  <2>1. Kept
    BY NextKept
  <2> QED BY <2>1 DEF Kept, SysInv
<1>3. Inv => SleepersOwed
  BY DEF Owed, OwedOne, Empty, SleepersOwed
<1> HIDE DEF Inv
<1> QED BY <1>1, <1>2, <1>3, PTL DEF SysSpec
===============================================================================
