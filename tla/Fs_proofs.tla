------------------------------- MODULE Fs_proofs -------------------------------
(***************************************************************************)
(* Proofs about inodes and directories, for any number of processes,       *)
(* inodes, names and links: no reference is lost or given back twice, link *)
(* counts cover the entries, and nothing that is named or referred to is   *)
(* freed, whatever the calls of several processes do to each other.  All   *)
(* but the reference count suppose that no path has a "..".                *)
(***************************************************************************)
EXTENDS Fs, FiniteSetTheorems, SequenceTheorems, TLAPS

Ops0 == {"open", "create", "mkdir", "unlink", "link", "chdir", "none"}
Types ==
  /\ type \in [Inodes -> {"free", "dir", "file"}]
  /\ nlink \in [Inodes -> Int]
  /\ entry \in [Inodes -> [AllNames -> Inodes \cup {0}]]
  /\ ref \in [Inodes -> Nat]
  /\ lock \in [Inodes -> Procs \cup {Nobody}]
  /\ pc \in [Procs -> Labels]
  /\ call \in [Procs -> [op : Ops0, new : Paths \cup {NoPath}]]
  /\ at \in [Procs -> Inodes \cup {0}]
  /\ todo \in [Procs -> Seq(AllNames)]
  /\ ip \in [Procs -> Inodes \cup {0}]
  /\ puts \in [Procs -> Seq(Inodes)]
  /\ putting \in [Procs -> {"check", "free", "drop"}]
  /\ cwd \in [Procs -> Inodes]
  /\ fd \in [Procs -> Inodes \cup {0}]

(* What a process has in hand at each place. *)
AtDir == {"parent", "victim", "notempty", "linkdup"}
InLink(p) == pc[p] \in {"walk2", "linkdup", "bad"} \/ (pc[p] = "parent" /\ call[p].op = "link")

Fits(p) ==
  /\ pc[p] = "idle" <=> call[p].op = "none"
  /\ call[p].op = "link" => call[p].new \in Paths
  /\ InLink(p) => call[p].op = "link"
  /\ pc[p] \in {"existing", "created"} => call[p].op \in {"create", "mkdir"}
  /\ at[p] # 0 <=> pc[p] \in {"walk", "walk2"} \cup AtDir
  /\ ip[p] # 0 <=> InLink(p) \/ pc[p] \in {"existing", "created", "victim", "unlinked"}
  /\ pc[p] \in {"walk2", "parent", "victim"} \/ (pc[p] = "walk" /\ ToParent(p)) => todo[p] # << >>
  /\ putting[p] # "check" => puts[p] # << >>
  /\ Len(puts[p]) <= 2
Shape == \A p \in Procs : Fits(p)

(* The locks that are kept from one step to the next. *)
HoldsLock(p, i) ==
  \/ pc[p] \in {"victim", "notempty", "linkdup"} /\ at[p] = i
  \/ pc[p] \in {"created", "unlinked"} /\ ip[p] = i
  \/ putting[p] = "free" /\ Nth(puts[p], 1) = i
Locks == \A p \in Procs, i \in Inodes : lock[i] = p <=> HoldsLock(p, i)

(* Entries and the directories that they are in. Nobody follows a "..", which *)
(* may outlive the directory that it names.                                 *)
DotFree(names) == \A k \in DOMAIN names : names[k] # ".."

Tree ==
  /\ type[ROOTINO] = "dir"
  /\ \A d \in Inodes, n \in Names : entry[d][n] # 0 => type[d] = "dir" /\ type[entry[d][n]] # "free"
  /\ \A d \in Inodes : type[d] = "dir" => entry[d]["."] = d
  /\ \A p \in Procs : DotFree(todo[p]) /\ DotFree(call[p].new.names)
  /\ \A p \in Procs : pc[p] = "victim" =>
       Head(todo[p]) \in Names /\ entry[at[p]][Head(todo[p])] = ip[p]

(* What a process refers to is allocated. *)
Keeps(p) ==
  /\ type[cwd[p]] = "dir"
  /\ fd[p] # 0 => type[fd[p]] # "free"
  /\ at[p] # 0 => type[at[p]] # "free"
  /\ ip[p] # 0 => type[ip[p]] # "free"
  /\ pc[p] \in AtDir => type[at[p]] = "dir"
  /\ InLink(p) => type[ip[p]] = "file"
  /\ Nth(puts[p], 1) # 0 /\ putting[p] # "drop" => type[Nth(puts[p], 1)] # "free"
  /\ Nth(puts[p], 2) # 0 => type[Nth(puts[p], 2)] # "free"
Kept == \A p \in Procs : Keeps(p)

(* Between the test and the deed of iput() nobody finds the inode. *)
Freeing == \A p \in Procs : putting[p] = "free" => nlink[Nth(puts[p], 1)] = 0 /\ ref[Nth(puts[p], 1)] = 1

(* Counted in nlink without an entry: link() before it makes the entry,      *)
(* unlink() after it has erased it.                                         *)
Owed == [p \in Procs |-> IF pc[p] = "unlinked" \/ InLink(p) THEN ip[p] ELSE 0]
Covered == \A i \in Inodes :
  /\ nlink[i] >= 0
  /\ type[i] # "free" => Links(i) + Count(Owed, i) <= nlink[i]

(* A process makes its own calls; open() and create() start without an open file. *)
OneFile == \A p \in Procs :
  /\ call[p].op \in Ops[p] \cup {"none"}
  /\ call[p].op \in {"open", "create"} => fd[p] = 0

(* The references alone, and everything. *)
RInv == Types /\ Shape /\ OneFile /\ RefsCounted
IInv == RInv /\ Locks /\ Tree /\ Kept /\ Freeing /\ Covered

One(x, i) == IF x = i THEN 1 ELSE 0

-----------------------------------------------------------------------------
(* Counting. *)

LEMMA CountNat ==
  ASSUME NEW f, IsFiniteSet(DOMAIN f), NEW i
  PROVE  IsFiniteSet({x \in DOMAIN f : f[x] = i}) /\ Count(f, i) \in Nat
<1>1. IsFiniteSet({x \in DOMAIN f : f[x] = i})
  BY FS_Subset
<1>2. QED
  BY <1>1, FS_CardinalityType DEF Count

(* A function changed at one place. *)
LEMMA CountMove ==
  ASSUME NEW f, NEW g, IsFiniteSet(DOMAIN f), DOMAIN g = DOMAIN f,
         NEW p \in DOMAIN f, \A q \in DOMAIN f \ {p} : g[q] = f[q], NEW i
  PROVE  Count(g, i) + One(f[p], i) = Count(f, i) + One(g[p], i)
<1> DEFINE F == {x \in DOMAIN f : f[x] = i}
           G == {x \in DOMAIN g : g[x] = i}
           S == F \ {p}
<1>1. IsFiniteSet(F) /\ IsFiniteSet(G) /\ Cardinality(F) \in Nat /\ Cardinality(G) \in Nat
  BY CountNat DEF Count
<1>2. S = G \ {p} /\ IsFiniteSet(S)
  <2>1. S = G \ {p}
    OBVIOUS
  <2>2. QED
    BY <1>1, <2>1, FS_Subset
<1>3. Cardinality(F) = Cardinality(S) + One(f[p], i)
  <2>1. CASE f[p] = i
    <3>1. Cardinality(S) = Cardinality(F) - 1
      BY <1>1, <2>1, FS_RemoveElement
    <3>2. QED
      BY <1>1, <2>1, <3>1 DEF One
  <2>2. CASE f[p] # i
    <3>1. S = F
      BY <2>2
    <3>2. QED
      BY <1>1, <2>2, <3>1 DEF One
  <2>3. QED
    BY <2>1, <2>2
<1>4. Cardinality(G) = Cardinality(S) + One(g[p], i)
  <2>1. CASE g[p] = i
    <3>1. Cardinality(S) = Cardinality(G) - 1
      BY <1>1, <1>2, <2>1, FS_RemoveElement
    <3>2. QED
      BY <1>1, <2>1, <3>1 DEF One
  <2>2. CASE g[p] # i
    <3>1. S = G
      BY <1>2, <2>2
    <3>2. QED
      BY <1>1, <2>2, <3>1 DEF One
  <2>3. QED
    BY <2>1, <2>2
<1>5. Cardinality(S) \in Nat /\ Count(f, i) = Cardinality(F) /\ Count(g, i) = Cardinality(G)
  BY <1>2, FS_CardinalityType DEF Count
<1>6. QED
  BY <1>3, <1>4, <1>5 DEF One

LEMMA CountPositive ==
  ASSUME NEW f, IsFiniteSet(DOMAIN f), NEW p \in DOMAIN f
  PROVE  Count(f, f[p]) >= 1
<1>1. Count(f, f[p]) \in Nat /\ IsFiniteSet({x \in DOMAIN f : f[x] = f[p]})
  BY CountNat
<1>2. Count(f, f[p]) # 0
  BY <1>1, FS_EmptySet DEF Count
<1>3. QED
  BY <1>1, <1>2

LEMMA CountTwo ==
  ASSUME NEW f, IsFiniteSet(DOMAIN f), NEW p \in DOMAIN f, NEW q \in DOMAIN f, p # q, f[p] = f[q]
  PROVE  Count(f, f[p]) >= 2
<1> DEFINE F == {x \in DOMAIN f : f[x] = f[p]}
<1>1. IsFiniteSet(F) /\ IsFiniteSet({p, q}) /\ Cardinality({p, q}) = 2
  <2>1. IsFiniteSet({p}) /\ Cardinality({p}) = 1 /\ {p, q} = {p} \cup {q} /\ q \notin {p}
    BY FS_Singleton
  <2>2. IsFiniteSet({p} \cup {q}) /\ Cardinality({p} \cup {q}) = 2
    BY <2>1, FS_AddElement
  <2>3. QED
    BY <2>1, <2>2, CountNat
<1>2. Cardinality({p, q}) <= Cardinality(F)
  BY <1>1, FS_Subset
<1>3. QED
  BY <1>1, <1>2, FS_CardinalityType DEF Count

LEMMA CountNone ==
  ASSUME NEW f, NEW i, \A x \in DOMAIN f : f[x] # i
  PROVE  Count(f, i) = 0
<1>1. {x \in DOMAIN f : f[x] = i} = {}
  OBVIOUS
<1>2. QED
  BY <1>1, FS_EmptySet DEF Count

LEMMA CountFewer ==
  ASSUME NEW f, NEW g, IsFiniteSet(DOMAIN f), DOMAIN g = DOMAIN f, NEW i,
         \A x \in DOMAIN f : g[x] = i => f[x] = i
  PROVE  Count(g, i) <= Count(f, i)
<1>1. {x \in DOMAIN g : g[x] = i} \subseteq {x \in DOMAIN f : f[x] = i}
  OBVIOUS
<1>2. QED
  BY <1>1, CountNat, FS_Subset DEF Count

LEMMA NthLemma ==
  ASSUME NEW a, NEW b
  PROVE  /\ Nth(<<>>, 1) = 0 /\ Nth(<<>>, 2) = 0
         /\ Nth(<<a>>, 1) = a /\ Nth(<<a>>, 2) = 0
         /\ Nth(<<a, b>>, 1) = a /\ Nth(<<a, b>>, 2) = b
BY DEF Nth

LEMMA NthShift ==
  ASSUME NEW s, NEW t, Len(s) = 1 \/ Len(s) = 2, Len(t) = Len(s) - 1, \A k \in 1..Len(t) : t[k] = s[k + 1]
  PROVE  Nth(s, 1) = s[1] /\ Nth(t, 1) = Nth(s, 2) /\ Nth(t, 2) = 0
<1>1. CASE Len(s) = 1
  BY <1>1 DEF Nth
<1>2. CASE Len(s) = 2
  <2>1. t[1] = s[2]
    <3>1. 1 \in 1..Len(t) /\ 1 + 1 = 2
      BY <1>2
    <3>2. QED
      BY <3>1
  <2>2. QED
    BY <1>2, <2>1 DEF Nth
<1>3. QED
  BY <1>1, <1>2

LEMMA NthTail ==
  ASSUME NEW s \in Seq(Inodes), s # <<>>, Len(s) <= 2
  PROVE  /\ Head(s) = Nth(s, 1) /\ Nth(s, 1) \in Inodes
         /\ Nth(Tail(s), 1) = Nth(s, 2) /\ Nth(Tail(s), 2) = 0
         /\ Tail(s) \in Seq(Inodes) /\ Len(Tail(s)) <= 1
<1>1. Len(s) = 1 \/ Len(s) = 2
  <2>1. \A n \in Nat \ {0} : n <= 2 => n = 1 \/ n = 2
    OBVIOUS
  <2>2. Len(s) \in Nat \ {0}
    BY EmptySeq
  <2>3. QED
    BY <2>1, <2>2
<1>2. Head(s) = s[1] /\ s[1] \in Inodes
  <2>1. 1 \in 1..Len(s)
    BY <1>1
  <2>2. QED
    BY <2>1, ElementOfSeq, HeadTailProperties
<1>3. PICK t : t = Tail(s)
  OBVIOUS
<1>4. /\ t \in Seq(Inodes) /\ Len(t) = Len(s) - 1
      /\ \A k \in 1..Len(t) : t[k] = s[k + 1]
  BY <1>3, HeadTailProperties
<1>5. Nth(s, 1) = s[1] /\ Nth(t, 1) = Nth(s, 2) /\ Nth(t, 2) = 0
  BY <1>1, <1>4, NthShift
<1>6. QED
  BY <1>1, <1>2, <1>3, <1>4, <1>5

-----------------------------------------------------------------------------
LEMMA InitIInv == Init => IInv
<1> SUFFICES ASSUME Init PROVE IInv
  OBVIOUS
<1> USE FsAssumption
<1>0. ROOTINO \in Inodes /\ 0 \notin Inodes /\ Inodes \subseteq Nat
  BY DEF Inodes, ROOTINO
<1>1. Types
  <2>1. Cardinality(Procs) \in Nat
    BY FS_CardinalityType
  <2>2. NoCall \in [op : Ops0, new : Paths \cup {NoPath}]
    BY DEF NoCall, Ops0
  <2>3. type \in [Inodes -> {"free", "dir", "file"}] /\ nlink \in [Inodes -> Int] /\ ref \in [Inodes -> Nat]
    BY <2>1 DEF Init
  <2>4. entry \in [Inodes -> [AllNames -> Inodes \cup {0}]]
    BY <1>0 DEF Init
  <2>5. QED
    BY <1>0, <2>2, <2>3, <2>4 DEF Init, Types, Labels
<1>2. Shape /\ OneFile /\ Locks /\ Freeing
  BY DEF Init, OneFile, Shape, Fits, Locks, HoldsLock, Freeing, InLink, AtDir, NoCall, ToParent, Doing
<1>3. Tree
  <2>1. \A p \in Procs : DotFree(todo[p]) /\ DotFree(call[p].new.names)
    BY DEF Init, DotFree, NoCall, NoPath
  <2>2. \A d \in Inodes, n \in Names : entry[d][n] = 0
    BY DEF Init, AllNames
  <2>3. \A d \in Inodes : type[d] = "dir" => entry[d]["."] = d
    BY DEF Init, AllNames, Dots
  <2>4. QED
    BY <1>0, <2>1, <2>2, <2>3 DEF Init, Tree
<1>4. Kept
  BY <1>0, NthLemma DEF Init, Kept, Keeps, InLink, AtDir
<1>5. RefsCounted
  <2>1. ASSUME NEW f \in [Procs -> {0}], NEW i \in Inodes PROVE Count(f, i) = 0
    BY <1>0, <2>1, CountNone
  <2>2. /\ at \in [Procs -> {0}] /\ ip \in [Procs -> {0}] /\ fd \in [Procs -> {0}]
        /\ [p \in Procs |-> Nth(puts[p], 1)] \in [Procs -> {0}]
        /\ [p \in Procs |-> Nth(puts[p], 2)] \in [Procs -> {0}]
    BY NthLemma DEF Init
  <2>3. ASSUME NEW i \in Inodes PROVE Count(cwd, i) = ref[i]
    <3>1. CASE i = ROOTINO
      <4>1. {p \in DOMAIN cwd : cwd[p] = i} = Procs
        BY <3>1 DEF Init
      <4>2. QED
        BY <3>1, <4>1 DEF Init, Count
    <3>2. CASE i # ROOTINO
      <4>1. \A p \in DOMAIN cwd : cwd[p] # i
        BY <3>2 DEF Init
      <4>2. QED
        BY <3>2, <4>1, CountNone DEF Init
    <3>3. QED
      BY <3>1, <3>2
  <2>4. \A i \in Inodes : ref[i] \in Nat
    BY <1>1 DEF Types
  <2>5. \A p \in Procs : Len(puts[p]) <= 2
    BY EmptySeq DEF Init
  <2>6. QED
    BY <2>1, <2>2, <2>3, <2>4, <2>5 DEF RefsCounted
<1>6. Covered
  <2>1. ASSUME NEW i \in Inodes, type[i] # "free" PROVE Links(i) + Count(Owed, i) <= nlink[i]
    <3>1. i = ROOTINO /\ nlink[i] = 1
      BY <2>1 DEF Init
    <3>2. \A d \in Inodes, n \in Names : entry[d][n] = 0
      BY DEF Init, AllNames
    <3>3. Count(Named, i) = 0
      <4>1. DOMAIN Named = Inodes \X Names /\ \A e \in Inodes \X Names : Named[e] = 0
        BY <3>2 DEF Named
      <4>2. QED
        BY <1>0, <4>1, CountNone
    <3>4. Subdirs(i) = {}
      BY <3>2 DEF Subdirs
    <3>5. Count(Owed, i) = 0
      BY <1>0, CountNone DEF Init, Owed, InLink
    <3>6. QED
      BY <3>1, <3>3, <3>4, <3>5, FS_EmptySet DEF Links
  <2>2. \A i \in Inodes : nlink[i] >= 0
    BY DEF Init
  <2>3. QED
    BY <2>1, <2>2 DEF Covered
<1>7. QED
  BY <1>1, <1>2, <1>3, <1>4, <1>5, <1>6 DEF IInv, RInv

-----------------------------------------------------------------------------
(* What one process does in one step. *)
Step(p) ==
  \/ IputCheck(p) \/ IputFree(p) \/ IputDrop(p)
  \/ \E op \in Ops[p] \ {"link"}, path \in Paths : Begin(p, op, path, NoPath)
  \/ "link" \in Ops[p] /\ \E path, new \in Paths : Begin(p, "link", path, new)
  \/ Close(p)
  \/ WalkEnd(p) \/ WalkDown(p) \/ WalkFails(p)
  \/ Open(p) \/ OpenFails(p) \/ Chdir(p)
  \/ CreateExisting(p) \/ Existing(p) \/ CreateNew(p) \/ Created(p)
  \/ UnlinkMissing(p) \/ UnlinkFind(p) \/ UnlinkNotEmpty(p) \/ UnlinkBad(p)
  \/ UnlinkErase(p) \/ UnlinkDone(p)
  \/ LinkOldIsDir(p) \/ LinkOld(p) \/ LinkNew(p) \/ LinkTaken(p) \/ LinkDup(p) \/ LinkBad(p)

(* Nobody else is anywhere else than before. *)
Alone(p) == \A q \in Procs \ {p} :
  /\ pc'[q] = pc[q] /\ call'[q] = call[q] /\ at'[q] = at[q] /\ todo'[q] = todo[q] /\ ip'[q] = ip[q]
  /\ puts'[q] = puts[q] /\ putting'[q] = putting[q] /\ cwd'[q] = cwd[q] /\ fd'[q] = fd[q]

LEMMA StepAlone == ASSUME Types, NEW p \in Procs, Step(p) PROVE Alone(p)
<1> USE DEF Types, Alone, held
<1>1. CASE IputCheck(p) \/ IputFree(p) \/ IputDrop(p)
  BY <1>1 DEF IputCheck, IputFree, IputDrop
<1>10. CASE Close(p) \/ WalkEnd(p) \/ WalkDown(p)
  BY <1>10 DEF Close, WalkEnd, WalkDown
<1>2. CASE \E op \in Ops[p], path, new \in Paths \cup {NoPath} : Begin(p, op, path, new)
  BY <1>2 DEF Begin
<1>3. CASE WalkFails(p)
  BY <1>3 DEF WalkFails, Return
<1>4. CASE Open(p) \/ OpenFails(p) \/ Chdir(p) \/ Existing(p) \/ Created(p)
  BY <1>4 DEF Open, OpenFails, Chdir, Existing, Created, Return
<1>5. CASE CreateExisting(p)
  BY <1>5 DEF CreateExisting
<1>9. CASE CreateNew(p)
  <2>1. PICK i : ip' = [ip EXCEPT ![p] = i]
    BY <1>9 DEF CreateNew
  <2>2. QED
    BY <1>9, <2>1 DEF CreateNew
<1>6. CASE UnlinkMissing(p) \/ UnlinkFind(p) \/ UnlinkNotEmpty(p)
  BY <1>6 DEF UnlinkMissing, UnlinkFind, UnlinkNotEmpty, Return
<1>11. CASE UnlinkBad(p) \/ UnlinkErase(p) \/ UnlinkDone(p)
  BY <1>11 DEF UnlinkBad, UnlinkErase, UnlinkDone, Return
<1>7. CASE LinkOldIsDir(p) \/ LinkOld(p) \/ LinkNew(p)
  BY <1>7 DEF LinkOldIsDir, LinkOld, LinkNew, Return
<1>12. CASE LinkTaken(p) \/ LinkDup(p) \/ LinkBad(p)
  BY <1>12 DEF LinkTaken, LinkDup, LinkBad, Return
<1>8. QED
  BY <1>1, <1>2, <1>3, <1>4, <1>5, <1>6, <1>7, <1>9, <1>10, <1>11, <1>12 DEF Step

-----------------------------------------------------------------------------
(* What the counts say of who refers to an inode. *)
Put1 == [p \in Procs |-> Nth(puts[p], 1)]
Put2 == [p \in Procs |-> Nth(puts[p], 2)]

LEMMA InodesRange == Inodes \subseteq Nat /\ 0 \notin Inodes /\ ROOTINO \in Inodes /\ IsFiniteSet(Inodes)
BY FsAssumption, FS_Interval DEF Inodes, ROOTINO

LEMMA PutRange ==
  ASSUME Types, Shape, NEW p \in Procs
  PROVE  /\ Nth(puts[p], 1) \in Inodes \cup {0} /\ Nth(puts[p], 2) \in Inodes \cup {0}
         /\ Nth(puts[p], 1) = 0 <=> puts[p] = <<>>
         /\ puts[p] # <<>> => Head(puts[p]) = Nth(puts[p], 1) /\ Head(puts[p]) \in Inodes
<1>1. puts[p] \in Seq(Inodes) /\ Len(puts[p]) <= 2
  BY DEF Types, Shape, Fits
<1>2. CASE puts[p] = <<>>
  BY <1>2, NthLemma
<1>3. CASE puts[p] # <<>>
  <2>1. Head(puts[p]) = Nth(puts[p], 1) /\ Nth(puts[p], 1) \in Inodes
    BY <1>1, <1>3, NthTail
  <2>2. Nth(puts[p], 2) \in Inodes \cup {0}
    BY <1>1, ElementOfSeq, LenProperties DEF Nth
  <2>3. QED
    BY <1>3, <2>1, <2>2, InodesRange
<1>4. QED
  BY <1>2, <1>3

LEMMA RefsSum ==
  ASSUME Types, RefsCounted, NEW i \in Inodes
  PROVE  /\ ref[i] = Count(cwd, i) + Count(fd, i) + Count(at, i) + Count(ip, i) + Count(Put1, i) + Count(Put2, i)
         /\ Count(cwd, i) \in Nat /\ Count(fd, i) \in Nat /\ Count(at, i) \in Nat
         /\ Count(ip, i) \in Nat /\ Count(Put1, i) \in Nat /\ Count(Put2, i) \in Nat
<1>1. /\ DOMAIN cwd = Procs /\ DOMAIN fd = Procs /\ DOMAIN at = Procs /\ DOMAIN ip = Procs
      /\ DOMAIN Put1 = Procs /\ DOMAIN Put2 = Procs
  BY DEF Types, Put1, Put2
<1>2. QED
  BY <1>1, CountNat, FsAssumption DEF RefsCounted, Put1, Put2

(* A reference is counted. *)
LEMMA Counted ==
  ASSUME Types, RefsCounted, NEW i \in Inodes, NEW p \in Procs,
         i \in {cwd[p], fd[p], at[p], ip[p], Nth(puts[p], 1), Nth(puts[p], 2)}
  PROVE  ref[i] >= 1
<1>1. /\ DOMAIN cwd = Procs /\ DOMAIN fd = Procs /\ DOMAIN at = Procs /\ DOMAIN ip = Procs
      /\ DOMAIN Put1 = Procs /\ DOMAIN Put2 = Procs
      /\ Put1[p] = Nth(puts[p], 1) /\ Put2[p] = Nth(puts[p], 2)
  BY DEF Types, Put1, Put2
<1>2. ASSUME NEW f, DOMAIN f = Procs, f[p] = i PROVE Count(f, i) >= 1
  BY <1>2, CountPositive, FsAssumption
<1>3. \/ Count(cwd, i) >= 1 \/ Count(fd, i) >= 1 \/ Count(at, i) >= 1
      \/ Count(ip, i) >= 1 \/ Count(Put1, i) >= 1 \/ Count(Put2, i) >= 1
  BY <1>1, <1>2
<1>4. QED
  BY <1>3, RefsSum

(* Where iput() finds its own reference to be the only one, it is. *)
LEMMA SoleRef ==
  ASSUME Types, RefsCounted, NEW p \in Procs, NEW i \in Inodes, Nth(puts[p], 1) = i, ref[i] = 1,
         NEW q \in Procs
  PROVE  /\ cwd[q] # i /\ fd[q] # i /\ at[q] # i /\ ip[q] # i
         /\ Nth(puts[q], 1) = i => q = p
         /\ Nth(puts[q], 2) # i
<1>1. /\ DOMAIN cwd = Procs /\ DOMAIN fd = Procs /\ DOMAIN at = Procs /\ DOMAIN ip = Procs
      /\ DOMAIN Put1 = Procs /\ DOMAIN Put2 = Procs
      /\ Put1[p] = Nth(puts[p], 1) /\ Put1[q] = Nth(puts[q], 1) /\ Put2[q] = Nth(puts[q], 2)
  BY DEF Types, Put1, Put2
<1>2. Count(Put1, i) >= 1
  BY <1>1, CountPositive, FsAssumption
<1>3. ASSUME NEW f, DOMAIN f = Procs, f[q] = i PROVE Count(f, i) >= 1
  BY <1>3, CountPositive, FsAssumption
<1>4. /\ cwd[q] = i => Count(cwd, i) >= 1
      /\ fd[q] = i => Count(fd, i) >= 1
      /\ at[q] = i => Count(at, i) >= 1
      /\ ip[q] = i => Count(ip, i) >= 1
      /\ Put2[q] = i => Count(Put2, i) >= 1
  BY <1>1, <1>3
<1>5. Put1[q] = i /\ q # p => Count(Put1, i) >= 2
  BY <1>1, CountTwo, FsAssumption
<1>6. QED
  BY <1>1, <1>2, <1>4, <1>5, RefsSum

-----------------------------------------------------------------------------
(* What nlink covers. *)
LEMMA LinksNat ==
  ASSUME NEW i
  PROVE  /\ Count(Named, i) \in Nat /\ Cardinality(Subdirs(i)) \in Nat /\ IsFiniteSet(Subdirs(i))
         /\ Links(i) \in Nat /\ Count(Owed, i) \in Nat
<1>1. IsFiniteSet(Inodes \X Names)
  BY InodesRange, FsAssumption, FS_Product
<1>2. Count(Named, i) \in Nat
  BY <1>1, CountNat DEF Named
<1>3. IsFiniteSet(Subdirs(i)) /\ Cardinality(Subdirs(i)) \in Nat
  BY FsAssumption, FS_Subset, FS_CardinalityType DEF Subdirs
<1>4. Count(Owed, i) \in Nat
  BY FsAssumption, CountNat DEF Owed
<1>5. QED
  BY <1>2, <1>3, <1>4 DEF Links

LEMMA CoveredAt ==
  ASSUME IInv, NEW i \in Inodes
  PROVE  nlink[i] \in Nat /\ (type[i] # "free" => Links(i) + Count(Owed, i) <= nlink[i])
<1>1. nlink[i] \in Int
  BY DEF IInv, RInv, Types
<1>2. nlink[i] >= 0 /\ (type[i] # "free" => Links(i) + Count(Owed, i) <= nlink[i])
  BY DEF IInv, Covered
<1>3. QED
  BY <1>1, <1>2

LEMMA OwedLinked ==
  ASSUME IInv, NEW p \in Procs, pc[p] = "unlinked" \/ InLink(p)
  PROVE  ip[p] \in Inodes /\ type[ip[p]] # "free" /\ nlink[ip[p]] >= 1
<1>1. ip[p] \in Inodes /\ type[ip[p]] # "free"
  BY DEF IInv, RInv, Types, Shape, Fits, Kept, Keeps
<1>2. Count(Owed, ip[p]) >= 1
  <2>1. DOMAIN Owed = Procs /\ Owed[p] = ip[p]
    BY DEF Owed
  <2>2. QED
    BY <2>1, CountPositive, FsAssumption
<1>3. nlink[ip[p]] \in Nat /\ Links(ip[p]) + Count(Owed, ip[p]) <= nlink[ip[p]]
  BY <1>1, CoveredAt
<1>4. QED
  BY <1>1, <1>2, <1>3, LinksNat

LEMMA NamedLinked ==
  ASSUME IInv, NEW d \in Inodes, NEW n \in Names, entry[d][n] # 0
  PROVE  /\ entry[d][n] \in Inodes /\ type[entry[d][n]] # "free" /\ type[d] = "dir"
         /\ Count(Named, entry[d][n]) >= 1 /\ nlink[entry[d][n]] >= 1
         /\ type[entry[d][n]] = "dir" => nlink[d] >= 1
<1>1. entry[d][n] \in Inodes /\ type[entry[d][n]] # "free" /\ type[d] = "dir"
  BY DEF IInv, RInv, Types, Tree, AllNames
<1>2. Count(Named, entry[d][n]) >= 1
  <2>1. DOMAIN Named = Inodes \X Names /\ <<d, n>> \in Inodes \X Names /\ Named[<<d, n>>] = entry[d][n]
    BY DEF Named
  <2>2. QED
    BY <2>1, CountPositive, InodesRange, FsAssumption, FS_Product
<1>3. ASSUME NEW i \in Inodes, type[i] # "free"
      PROVE  nlink[i] \in Nat /\ Count(Named, i) + Cardinality(Subdirs(i)) <= nlink[i]
  <2>1. nlink[i] \in Nat /\ Links(i) + Count(Owed, i) <= nlink[i]
    BY <1>3, CoveredAt
  <2>2. Links(i) = Count(Named, i) + Cardinality(Subdirs(i)) + (IF i = ROOTINO THEN 1 ELSE 0)
    BY DEF Links
  <2>3. QED
    BY <2>1, <2>2, LinksNat
<1>4. type[entry[d][n]] = "dir" => Cardinality(Subdirs(d)) >= 1
  <2>1. type[entry[d][n]] = "dir" => n \in Subdirs(d)
    BY DEF Subdirs
  <2>2. QED
    BY <2>1, LinksNat, FS_EmptySet
<1>5. QED
  BY <1>1, <1>2, <1>3, <1>4, LinksNat

LEMMA UnlinkedBare ==
  ASSUME IInv, NEW i \in Inodes, type[i] # "free", nlink[i] = 0
  PROVE  /\ i # ROOTINO /\ Links(i) = 0 /\ Count(Owed, i) = 0
         /\ \A d \in Inodes, n \in Names : entry[d][n] # i
         /\ \A n \in Names : entry[i][n] # 0 => type[entry[i][n]] # "dir"
         /\ \A p \in Procs : pc[p] = "unlinked" \/ InLink(p) => ip[p] # i
<1>1. Links(i) + Count(Owed, i) <= 0
  BY DEF IInv, RInv, Covered
<1>2. i # ROOTINO /\ Links(i) = 0 /\ Count(Owed, i) = 0
  BY <1>1, LinksNat DEF Links
<1>3. \A d \in Inodes, n \in Names : entry[d][n] # i
  BY NamedLinked, InodesRange
<1>4. \A n \in Names : entry[i][n] # 0 => type[entry[i][n]] # "dir"
  BY NamedLinked
<1>5. \A p \in Procs : pc[p] = "unlinked" \/ InLink(p) => ip[p] # i
  BY OwedLinked
<1>6. QED
  BY <1>2, <1>3, <1>4, <1>5

-----------------------------------------------------------------------------
LEMMA OneType ==
  ASSUME NEW a \in Inodes, NEW b \in Inodes
  PROVE  /\ <<>> \in Seq(Inodes) /\ <<a>> \in Seq(Inodes) /\ <<a, b>> \in Seq(Inodes)
         /\ Len(<<>>) <= 2 /\ Len(<<a>>) <= 2 /\ Len(<<a, b>>) <= 2
OBVIOUS

(* What is at hand where a step starts. *)
LEMMA AtHand ==
  ASSUME Types, Shape, NEW p \in Procs
  PROVE  /\ pc[p] \in {"walk", "walk2"} \cup AtDir => at[p] \in Inodes
         /\ InLink(p) \/ pc[p] \in {"existing", "created", "victim", "unlinked"} => ip[p] \in Inodes
         /\ todo[p] # <<>> => Head(todo[p]) \in AllNames /\ Tail(todo[p]) \in Seq(AllNames)
         /\ pc[p] \in {"parent", "victim"} => LastName(p) \in AllNames /\ Target(p) \in Inodes \cup {0}
<1>1. todo[p] # <<>> => Head(todo[p]) \in AllNames /\ Tail(todo[p]) \in Seq(AllNames)
  BY HeadTailProperties DEF Types
<1>2. pc[p] \in {"walk", "walk2"} \cup AtDir => at[p] \in Inodes
  BY DEF Types, Shape, Fits
<1>3. pc[p] \in {"parent", "victim"} => LastName(p) \in AllNames
  BY <1>1 DEF Shape, Fits, LastName
<1>4. QED
  BY <1>1, <1>2, <1>3 DEF Types, Shape, Fits, AtDir, Target

LEMMA ReturnTypes ==
  ASSUME Types, NEW p \in Procs, NEW s \in Seq(Inodes), Return(p, s)
  PROVE  /\ pc' \in [Procs -> Labels] /\ call' \in [Procs -> [op : Ops0, new : Paths \cup {NoPath}]]
         /\ at' \in [Procs -> Inodes \cup {0}] /\ ip' \in [Procs -> Inodes \cup {0}]
         /\ todo' \in [Procs -> Seq(AllNames)] /\ puts' \in [Procs -> Seq(Inodes)]
BY DEF Types, Return, NoCall, Ops0, Labels

LEMMA TypesStep ==
  ASSUME RInv, NEW p \in Procs, Step(p)
  PROVE  Types'
<1>0. Types /\ Shape /\ RefsCounted
  BY DEF RInv
<1> USE DEF Types
<1>1. CASE IputCheck(p)
  BY <1>0, <1>1 DEF IputCheck, disk, held
<1>2. CASE IputFree(p)
  BY <1>0, <1>2 DEF IputFree, held
<1>3. CASE IputDrop(p)
  <2>1. puts[p] # <<>>
    BY <1>0, <1>3 DEF IputDrop, Shape, Fits
  <2>2. Head(puts[p]) \in Inodes /\ Head(puts[p]) = Nth(puts[p], 1) /\ Tail(puts[p]) \in Seq(Inodes)
    BY <1>0, <2>1, PutRange, HeadTailProperties
  <2>3. ref[Head(puts[p])] - 1 \in Nat
    BY <1>0, <2>2, Counted
  <2>4. QED
    BY <1>0, <1>3, <2>2, <2>3 DEF IputDrop, Dropped, disk, held
<1>4. ASSUME NEW op, NEW path, NEW new, Begin(p, op, path, new),
             (op \in Ops[p] \ {"link"} /\ path \in Paths /\ new = NoPath)
             \/ (op = "link" /\ path \in Paths /\ new \in Paths)
      PROVE  Types'
  <2>1. [op |-> op, new |-> new] \in [op : Ops0, new : Paths \cup {NoPath}]
    BY <1>4, FsAssumption DEF Ops0
  <2>2. Start(p, path) \in Inodes /\ path.names \in Seq(AllNames)
    BY <1>0, <1>4, InodesRange, FsAssumption DEF Start
  <2>3. QED
    BY <1>0, <1>4, <2>1, <2>2 DEF Begin, Gets, Labels, disk, held
<1>5. CASE Close(p)
  BY <1>0, <1>5, OneType DEF Close, disk
<1>6. CASE WalkEnd(p)
  BY <1>0, <1>6 DEF WalkEnd, Labels, disk, held
<1>7. CASE WalkDown(p)
  <2>1. at[p] \in Inodes /\ Head(todo[p]) \in AllNames /\ Tail(todo[p]) \in Seq(AllNames)
    BY <1>0, <1>7, AtHand DEF WalkDown, Walking, AtPc
  <2>2. PICK next : next = entry[at[p]][Head(todo[p])]
    OBVIOUS
  <2>5. next \in Inodes /\ ref' = Gets(next) /\ at' = [at EXCEPT ![p] = next]
    <3>1. next \in Inodes \cup {0}
      BY <1>0, <2>1, <2>2
    <3>2. next # 0 /\ ref' = Gets(next) /\ at' = [at EXCEPT ![p] = next]
      BY <1>7, <2>2 DEF WalkDown
    <3>3. QED
      BY <3>1, <3>2
  <2>3. <<at[p]>> \in Seq(Inodes)
    BY <2>1, OneType
  <2>4. QED
    BY <1>0, <1>7, <2>1, <2>3, <2>5 DEF WalkDown, Gets, disk, held
<1>8. CASE WalkFails(p)
  <2>1. at[p] \in Inodes /\ <<at[p]>> \in Seq(Inodes) /\ <<>> \in Seq(AllNames)
    BY <1>0, <1>8, AtHand, OneType DEF WalkFails, Walking, AtPc
  <2>2. CASE pc[p] = "walk2"
    <3>1. pc' = [pc EXCEPT ![p] = "bad"] /\ puts' = [puts EXCEPT ![p] = <<at[p]>>]
          /\ at' = [at EXCEPT ![p] = 0] /\ todo' = [todo EXCEPT ![p] = << >>]
          /\ UNCHANGED <<call, ip, disk, ref, lock, putting, held>>
      BY <1>8, <2>2 DEF WalkFails
    <3>2. QED
      BY <1>0, <2>1, <3>1 DEF Labels, disk, held
  <2>3. CASE pc[p] # "walk2"
    BY <1>0, <1>8, <2>1, <2>3, ReturnTypes DEF WalkFails, disk, held
  <2>4. QED
    BY <2>2, <2>3
<1>9. CASE Open(p) \/ OpenFails(p) \/ Chdir(p)
  <2>1. at[p] \in Inodes /\ <<at[p]>> \in Seq(Inodes) /\ <<>> \in Seq(Inodes) /\ <<cwd[p]>> \in Seq(Inodes)
    BY <1>0, <1>9, AtHand, OneType DEF Open, OpenFails, Chdir, Found, AtPc
  <2>2. PICK s \in Seq(Inodes) : Return(p, s)
    BY <1>9, <2>1 DEF Open, OpenFails, Chdir
  <2>3. cwd' \in [Procs -> Inodes] /\ fd' \in [Procs -> Inodes \cup {0}]
    BY <1>0, <1>9, <2>1 DEF Open, OpenFails, Chdir, held
  <2>4. UNCHANGED <<disk, ref, lock, putting>>
    BY <1>9 DEF Open, OpenFails, Chdir
  <2>5. QED
    BY <1>0, <2>2, <2>3, <2>4, ReturnTypes DEF disk
<1>10. CASE CreateExisting(p)
  <2>1. at[p] \in Inodes /\ <<at[p]>> \in Seq(Inodes) /\ Target(p) \in Inodes
    BY <1>0, <1>10, AtHand, OneType DEF CreateExisting, Parent, AtPc, AtDir
  <2>2. QED
    BY <1>0, <1>10, <2>1 DEF CreateExisting, Gets, Labels, disk, held
<1>11. CASE Existing(p) \/ Created(p)
  <2>1. ip[p] \in Inodes /\ <<ip[p]>> \in Seq(Inodes) /\ <<>> \in Seq(Inodes)
    BY <1>0, <1>11, AtHand, OneType DEF Existing, Created, AtPc
  <2>2. PICK s \in Seq(Inodes) : Return(p, s)
    BY <1>11, <2>1 DEF Existing, Created
  <2>3. fd' \in [Procs -> Inodes \cup {0}] /\ lock' \in [Inodes -> Procs \cup {Nobody}]
    BY <1>0, <1>11, <2>1 DEF Existing, Created
  <2>4. UNCHANGED <<disk, ref, putting, cwd>>
    BY <1>11 DEF Existing, Created
  <2>5. QED
    BY <1>0, <2>2, <2>3, <2>4, ReturnTypes DEF disk
<1>12. CASE CreateNew(p)
  <2>1. at[p] \in Inodes /\ <<at[p]>> \in Seq(Inodes) /\ LastName(p) \in AllNames
    BY <1>0, <1>12, AtHand, OneType DEF CreateNew, Parent, AtPc, AtDir
  <2>2. PICK i \in Inodes :
          /\ type' = [type EXCEPT ![i] = Made(p)]
          /\ nlink' = [nlink EXCEPT ![i] = 1, ![at[p]] = IF Made(p) = "dir" THEN @ + 1 ELSE @]
          /\ entry' = [entry EXCEPT ![at[p]][LastName(p)] = i,
                                    ![i]["."] = IF Made(p) = "dir" THEN i ELSE 0,
                                    ![i][".."] = IF Made(p) = "dir" THEN at[p] ELSE 0]
          /\ ref' = Gets(i) /\ lock' = [lock EXCEPT ![i] = p] /\ ip' = [ip EXCEPT ![p] = i]
    BY <1>12 DEF CreateNew
  <2>3. Made(p) \in {"dir", "file"} /\ "." \in AllNames /\ ".." \in AllNames
    BY DEF Made, AllNames, Dots
  <2>4. entry' \in [Inodes -> [AllNames -> Inodes \cup {0}]]
    BY <1>0, <2>1, <2>2, <2>3
  <2>5. type' \in [Inodes -> {"free", "dir", "file"}] /\ nlink' \in [Inodes -> Int]
    <3>1. type' \in [Inodes -> {"free", "dir", "file"}]
      BY <1>0, <2>2, <2>3
    <3>2. nlink \in [Inodes -> Int]
      BY <1>0
    <3>3. nlink' = [nlink EXCEPT ![i] = 1, ![at[p]] = IF Made(p) = "dir" THEN @ + 1 ELSE @]
      BY <2>2
    <3>4. CASE Made(p) = "dir"
      <4>1. nlink' = [nlink EXCEPT ![i] = 1, ![at[p]] = @ + 1]
        BY <3>3, <3>4
      <4>2. QED
        BY <2>1, <3>1, <3>2, <4>1
    <3>5. CASE Made(p) # "dir"
      <4>1. nlink' = [nlink EXCEPT ![i] = 1, ![at[p]] = @]
        BY <3>3, <3>5
      <4>2. QED
        BY <2>1, <3>1, <3>2, <4>1
    <3>6. QED
      BY <3>4, <3>5
  <2>6. ref' \in [Inodes -> Nat] /\ lock' \in [Inodes -> Procs \cup {Nobody}] /\ ip' \in [Procs -> Inodes \cup {0}]
    BY <1>0, <2>1, <2>2, <2>3 DEF Gets
  <2>7. puts' = [puts EXCEPT ![p] = <<at[p]>>] /\ at' = [at EXCEPT ![p] = 0]
        /\ todo' = [todo EXCEPT ![p] = << >>] /\ pc' = [pc EXCEPT ![p] = "created"]
        /\ UNCHANGED <<call, putting, held>>
    BY <1>12 DEF CreateNew
  <2>8. puts' \in [Procs -> Seq(Inodes)] /\ at' \in [Procs -> Inodes \cup {0}]
        /\ todo' \in [Procs -> Seq(AllNames)] /\ pc' \in [Procs -> Labels]
    BY <1>0, <2>1, <2>7 DEF Labels
  <2>9. QED
    BY <1>0, <2>4, <2>5, <2>6, <2>7, <2>8 DEF held
<1>13. CASE UnlinkMissing(p) \/ UnlinkBad(p)
  <2>1. at[p] \in Inodes /\ <<at[p]>> \in Seq(Inodes)
    BY <1>0, <1>13, AtHand, OneType DEF UnlinkMissing, UnlinkBad, Parent, AtPc, AtDir
  <2>2. Return(p, <<at[p]>>) /\ UNCHANGED <<disk, ref, putting, held>> /\ lock' \in [Inodes -> Procs \cup {Nobody}]
    BY <1>0, <1>13 DEF UnlinkMissing, UnlinkBad
  <2>3. QED
    BY <1>0, <2>1, <2>2, ReturnTypes DEF disk, held
<1>14. CASE UnlinkFind(p)
  <2>1. at[p] \in Inodes /\ Target(p) \in Inodes
    BY <1>0, <1>14, AtHand DEF UnlinkFind, Parent, AtPc, AtDir
  <2>2. QED
    BY <1>0, <1>14, <2>1 DEF UnlinkFind, Gets, Labels, disk, held
<1>15. CASE UnlinkNotEmpty(p)
  <2>1. ip[p] \in Inodes /\ <<ip[p]>> \in Seq(Inodes)
    BY <1>0, <1>15, AtHand, OneType DEF UnlinkNotEmpty, AtPc
  <2>2. QED
    BY <1>0, <1>15, <2>1 DEF UnlinkNotEmpty, Labels, disk, held
<1>16. CASE UnlinkErase(p)
  <2>1. at[p] \in Inodes /\ ip[p] \in Inodes /\ <<at[p]>> \in Seq(Inodes) /\ <<>> \in Seq(AllNames)
    BY <1>0, <1>16, AtHand, OneType DEF UnlinkErase, AtPc, AtDir
  <2>2. LastName(p) \in AllNames
    BY <1>0, <1>16, AtHand DEF UnlinkErase, AtPc
  <2>4. nlink' \in [Inodes -> Int]
    BY <1>0, <1>16, <2>1 DEF UnlinkErase
  <2>5. entry' \in [Inodes -> [AllNames -> Inodes \cup {0}]] /\ lock' \in [Inodes -> Procs \cup {Nobody}]
    BY <1>0, <1>16, <2>1, <2>2 DEF UnlinkErase
  <2>6. QED
    BY <1>0, <1>16, <2>1, <2>4, <2>5 DEF UnlinkErase, Labels, held
<1>17. CASE UnlinkDone(p) \/ LinkBad(p)
  <2>1. ip[p] \in Inodes /\ <<ip[p]>> \in Seq(Inodes)
    BY <1>0, <1>17, AtHand, OneType DEF UnlinkDone, LinkBad, AtPc, InLink
  <2>2. /\ Return(p, <<ip[p]>>) /\ UNCHANGED <<type, entry, ref, putting, held>>
        /\ nlink' = [nlink EXCEPT ![ip[p]] = @ - 1]
        /\ lock' = [lock EXCEPT ![ip[p]] = Nobody] \/ lock' = lock
    BY <1>17 DEF UnlinkDone, LinkBad
  <2>3. nlink' \in [Inodes -> Int]
    BY <1>0, <2>1, <2>2
  <2>4. lock' \in [Inodes -> Procs \cup {Nobody}]
    BY <1>0, <2>2
  <2>5. UNCHANGED <<type, entry, ref, putting, cwd, fd>>
    BY <2>2 DEF held
  <2>6. QED
    BY <1>0, <2>1, <2>2, <2>3, <2>4, <2>5, ReturnTypes
<1>18. CASE LinkOldIsDir(p)
  <2>1. <<at[p]>> \in Seq(Inodes)
    BY <1>0, <1>18, AtHand, OneType DEF LinkOldIsDir, Found, AtPc
  <2>2. QED
    BY <1>0, <1>18, <2>1, ReturnTypes DEF LinkOldIsDir, disk, held
<1>23. CASE LinkNew(p)
  <2>1. pc[p] = "parent" /\ call[p].op = "link"
    BY <1>23 DEF LinkNew, Parent, AtPc, Doing
  <2>2. at[p] \in Inodes /\ ip[p] \in Inodes /\ LastName(p) \in AllNames /\ <<at[p], ip[p]>> \in Seq(Inodes)
    BY <1>0, <2>1, AtHand, OneType DEF AtDir, InLink
  <2>3. entry' \in [Inodes -> [AllNames -> Inodes \cup {0}]]
    BY <1>0, <1>23, <2>2 DEF LinkNew
  <2>4. QED
    BY <1>0, <1>23, <2>2, <2>3, ReturnTypes DEF LinkNew, held
<1>19. CASE LinkOld(p)
  <2>1. at[p] \in Inodes /\ call[p].new \in Paths
    BY <1>0, <1>19, AtHand DEF LinkOld, Found, AtPc, Doing, Shape, Fits
  <2>2. PICK new \in Paths : /\ new = call[p].new
                             /\ at' = [at EXCEPT ![p] = Start(p, new)]
                             /\ todo' = [todo EXCEPT ![p] = new.names]
                             /\ ref' = Gets(Start(p, new))
    BY <1>19, <2>1 DEF LinkOld
  <2>3. Start(p, new) \in Inodes /\ new.names \in Seq(AllNames)
    BY <1>0, <2>2, InodesRange, FsAssumption DEF Start
  <2>4. ref' \in [Inodes -> Nat]
    BY <1>0, <2>2, <2>3 DEF Gets
  <2>5. nlink' \in [Inodes -> Int]
    <3>1. nlink' = CountedUp(at[p]) /\ nlink \in [Inodes -> Int]
      BY <1>0, <1>19 DEF LinkOld
    <3>2. QED
      BY <2>1, <3>1 DEF CountedUp
  <2>6. at' \in [Procs -> Inodes \cup {0}] /\ todo' \in [Procs -> Seq(AllNames)] /\ ip' \in [Procs -> Inodes \cup {0}]
    BY <1>0, <1>19, <2>1, <2>2, <2>3 DEF LinkOld
  <2>7. QED
    BY <1>0, <1>19, <2>4, <2>5, <2>6 DEF LinkOld, Labels, held
<1>20. CASE LinkTaken(p)
  <2>1. at[p] \in Inodes /\ Target(p) \in Inodes /\ <<Target(p)>> \in Seq(Inodes)
    BY <1>0, <1>20, AtHand, OneType DEF LinkTaken, Parent, AtPc, AtDir
  <2>2. QED
    BY <1>0, <1>20, <2>1 DEF LinkTaken, Gets, Labels, disk, held
<1>21. CASE LinkDup(p)
  <2>1. at[p] \in Inodes /\ <<at[p]>> \in Seq(Inodes) /\ <<>> \in Seq(AllNames)
    BY <1>0, <1>21, AtHand, OneType DEF LinkDup, AtPc, AtDir
  <2>2. QED
    BY <1>0, <1>21, <2>1 DEF LinkDup, Labels, disk, held
<1>22. QED
  BY <1>1, <1>2, <1>3, <1>4, <1>5, <1>6, <1>7, <1>8, <1>9, <1>10, <1>11, <1>12, <1>13, <1>14,
     <1>15, <1>16, <1>17, <1>18, <1>19, <1>20, <1>21, <1>23 DEF Step

-----------------------------------------------------------------------------
(* Each process is where its call can be. *)
LEMMA ReturnFits ==
  ASSUME Types, Shape, NEW p \in Procs, NEW s \in Seq(Inodes), Len(s) <= 2, Return(p, s), UNCHANGED putting, puts[p] = <<>>
  PROVE  Fits(p)'
<1>1. putting'[p] = "check"
  BY DEF Shape, Fits, Types
<1>2. pc'[p] = "idle" /\ call'[p].op = "none" /\ at'[p] = 0 /\ ip'[p] = 0 /\ puts'[p] = s
  BY DEF Return, NoCall, Types
<1>3. QED
  BY <1>1, <1>2 DEF Fits, InLink, AtDir, ToParent, Doing

LEMMA ShapeStep ==
  ASSUME RInv, NEW p \in Procs, Step(p)
  PROVE  Shape'
<1>0. Types /\ Shape /\ Fits(p) /\ Alone(p)
  BY StepAlone DEF RInv, Shape
<1> USE DEF Types
<1>a. ASSUME NEW q \in Procs \ {p} PROVE Fits(q)'
  <2>1. Fits(q)
    BY DEF Shape, RInv
  <2>2. pc'[q] = pc[q] /\ call'[q] = call[q] /\ at'[q] = at[q] /\ todo'[q] = todo[q] /\ ip'[q] = ip[q]
        /\ puts'[q] = puts[q] /\ putting'[q] = putting[q]
    BY <1>0 DEF Alone
  <2>3. QED
    BY <2>1, <2>2 DEF Fits, InLink, AtDir, ToParent, Doing
<1>b. SUFFICES Fits(p)'
  BY <1>a DEF Shape
<1>1. CASE IputCheck(p)
  BY <1>0, <1>1 DEF IputCheck, disk, held, Fits, InLink, AtDir, ToParent, Doing
<1>2. CASE IputFree(p)
  BY <1>0, <1>2 DEF IputFree, held, Fits, InLink, AtDir, ToParent, Doing
<1>3. CASE IputDrop(p)
  <2>1. puts[p] # <<>>
    BY <1>0, <1>3 DEF IputDrop, Fits
  <2>2. Len(Tail(puts[p])) <= 2
    BY <1>0, <2>1, NthTail, LenProperties DEF Fits
  <2>3. QED
    BY <1>0, <1>3, <2>2 DEF IputDrop, disk, held, Fits, InLink, AtDir, ToParent, Doing
<1>4. ASSUME NEW op, NEW path, NEW new, Begin(p, op, path, new),
             (op \in Ops[p] \ {"link"} /\ path \in Paths /\ new = NoPath)
             \/ (op = "link" /\ path \in Paths /\ new \in Paths)
      PROVE  Fits(p)'
  <2>1. path.names # <<>> /\ Start(p, path) # 0 /\ op # "none"
    <3>1. op # "none"
      BY <1>4, FsAssumption
    <3>2. Start(p, path) # 0
      BY <1>0, InodesRange DEF Start
    <3>3. QED
      BY <1>4, <3>1, <3>2, FsAssumption
  <2>2. /\ pc'[p] = "walk" /\ call'[p].op = op /\ call'[p].new = new /\ at'[p] = Start(p, path)
        /\ todo'[p] = path.names /\ ip'[p] = ip[p] /\ puts'[p] = puts[p] /\ putting'[p] = putting[p]
    BY <1>0, <1>4 DEF Begin
  <2>3. pc[p] = "idle"
    BY <1>4 DEF Begin, AtPc
  <2>4. QED
    BY <1>0, <1>4, <2>1, <2>2, <2>3 DEF Fits, InLink, AtDir, ToParent, Doing
<1>5. CASE Close(p)
  BY <1>0, <1>5 DEF Close, disk, AtPc, Fits, InLink, AtDir, ToParent, Doing
<1>6. CASE WalkEnd(p)
  <2>1. /\ pc[p] \in {"walk", "walk2"} /\ ToParent(p) /\ todo[p] # <<>> /\ puts[p] = <<>>
        /\ pc'[p] = "parent" /\ UNCHANGED <<call, at, todo, ip, puts, putting>>
    BY <1>0, <1>6 DEF WalkEnd, Walking, AtPc
  <2>2. QED
    BY <1>0, <2>1 DEF Fits, InLink, AtDir, ToParent, Doing
<1>7. CASE WalkDown(p)
  <2>1. /\ pc[p] \in {"walk", "walk2"} /\ ~(ToParent(p) /\ Len(todo[p]) = 1) /\ todo[p] # <<>> /\ puts[p] = <<>>
        /\ at'[p] # 0 /\ todo'[p] = Tail(todo[p]) /\ puts'[p] = <<at[p]>>
        /\ UNCHANGED <<pc, call, ip, putting>>
    BY <1>0, <1>7 DEF WalkDown, Walking, AtPc
  <2>2. ToParent(p) => Tail(todo[p]) # <<>>
    <3>1. Len(todo[p]) \in Nat /\ Len(todo[p]) # 0
      BY <1>0, <2>1, LenProperties, EmptySeq
    <3>2. ToParent(p) => Len(Tail(todo[p])) # 0
      BY <1>0, <2>1, <3>1, HeadTailProperties
    <3>3. QED
      BY <3>2, EmptySeq
  <2>3. QED
    BY <1>0, <2>1, <2>2 DEF Fits, InLink, AtDir, ToParent, Doing
<1>8. CASE WalkFails(p)
  <2>1. at[p] \in Inodes /\ puts[p] = <<>> /\ pc[p] \in {"walk", "walk2"}
    BY <1>0, <1>8, AtHand DEF WalkFails, Walking, AtPc
  <2>2. CASE pc[p] = "walk2"
    <3>1. /\ pc'[p] = "bad" /\ puts'[p] = <<at[p]>> /\ at'[p] = 0 /\ UNCHANGED <<call, ip, putting>>
      BY <1>0, <1>8, <2>2 DEF WalkFails
    <3>2. QED
      BY <1>0, <2>1, <2>2, <3>1 DEF Fits, InLink, AtDir, ToParent, Doing
  <2>3. CASE pc[p] # "walk2"
    <3>1. Return(p, <<at[p]>>) /\ UNCHANGED putting
      BY <1>8, <2>3 DEF WalkFails
    <3>2. QED
      BY <1>0, <2>1, <3>1, OneType, ReturnFits
  <2>4. QED
    BY <2>2, <2>3
<1>9. CASE Open(p) \/ OpenFails(p) \/ Chdir(p) \/ LinkOldIsDir(p)
  <2>1. at[p] \in Inodes /\ puts[p] = <<>>
    BY <1>0, <1>9, AtHand DEF Open, OpenFails, Chdir, LinkOldIsDir, Found, AtPc
  <2>2. /\ Return(p, <<at[p]>>) \/ Return(p, <<cwd[p]>>) \/ Return(p, <<>>)
        /\ UNCHANGED putting
    BY <1>9 DEF Open, OpenFails, Chdir, LinkOldIsDir
  <2>3. QED
    BY <1>0, <2>1, <2>2, OneType, ReturnFits
<1>10. CASE CreateExisting(p)
  <2>1. pc[p] = "parent" /\ puts[p] = <<>> /\ Target(p) # 0 /\ call[p].op \in {"create", "mkdir"} /\ at[p] \in Inodes
    BY <1>0, <1>10, AtHand DEF CreateExisting, Parent, AtPc, Doing, AtDir
  <2>2. /\ ip'[p] = Target(p) /\ puts'[p] = <<at[p]>> /\ at'[p] = 0 /\ pc'[p] = "existing" /\ UNCHANGED <<call, putting>>
    BY <1>0, <1>10 DEF CreateExisting
  <2>3. QED
    BY <1>0, <2>1, <2>2 DEF Fits, InLink, AtDir, ToParent, Doing
<1>11. CASE Existing(p) \/ Created(p) \/ UnlinkDone(p) \/ LinkBad(p)
  <2>1. ip[p] \in Inodes /\ puts[p] = <<>>
    BY <1>0, <1>11, AtHand DEF Existing, Created, UnlinkDone, LinkBad, AtPc, InLink
  <2>2. (Return(p, <<ip[p]>>) \/ Return(p, <<>>)) /\ UNCHANGED putting
    BY <1>11 DEF Existing, Created, UnlinkDone, LinkBad
  <2>3. QED
    BY <1>0, <2>1, <2>2, OneType, ReturnFits
<1>12. CASE CreateNew(p)
  <2>1. pc[p] = "parent" /\ puts[p] = <<>> /\ call[p].op \in {"create", "mkdir"} /\ at[p] \in Inodes
    BY <1>0, <1>12, AtHand DEF CreateNew, Parent, AtPc, Doing, AtDir
  <2>2. /\ ip'[p] # 0 /\ puts'[p] = <<at[p]>> /\ at'[p] = 0 /\ pc'[p] = "created" /\ UNCHANGED <<call, putting>>
    BY <1>0, <1>12, InodesRange DEF CreateNew
  <2>3. QED
    BY <1>0, <2>1, <2>2 DEF Fits, InLink, AtDir, ToParent, Doing
<1>13. CASE UnlinkMissing(p) \/ UnlinkBad(p)
  <2>1. at[p] \in Inodes /\ puts[p] = <<>>
    BY <1>0, <1>13, AtHand DEF UnlinkMissing, UnlinkBad, Parent, AtPc, AtDir
  <2>2. Return(p, <<at[p]>>) /\ UNCHANGED putting
    BY <1>13 DEF UnlinkMissing, UnlinkBad
  <2>3. QED
    BY <1>0, <2>1, <2>2, OneType, ReturnFits
<1>14. CASE UnlinkFind(p)
  <2>1. pc[p] = "parent" /\ puts[p] = <<>> /\ Target(p) # 0 /\ call[p].op = "unlink"
    BY <1>14 DEF UnlinkFind, Parent, AtPc, Doing
  <2>2. ip'[p] = Target(p) /\ pc'[p] = "victim" /\ UNCHANGED <<call, at, todo, puts, putting>>
    BY <1>0, <1>14 DEF UnlinkFind
  <2>3. QED
    BY <1>0, <2>1, <2>2 DEF Fits, InLink, AtDir, ToParent, Doing
<1>15. CASE UnlinkNotEmpty(p)
  <2>1. pc[p] = "victim" /\ puts[p] = <<>>
    BY <1>15 DEF UnlinkNotEmpty, AtPc
  <2>2. ip'[p] = 0 /\ pc'[p] = "notempty" /\ puts'[p] = <<ip[p]>> /\ UNCHANGED <<call, at, todo, putting>>
    BY <1>0, <1>15 DEF UnlinkNotEmpty
  <2>3. QED
    BY <1>0, <2>1, <2>2 DEF Fits, InLink, AtDir, ToParent, Doing
<1>16. CASE UnlinkErase(p)
  <2>1. pc[p] = "victim" /\ puts[p] = <<>>
    BY <1>16 DEF UnlinkErase, AtPc
  <2>2. at'[p] = 0 /\ pc'[p] = "unlinked" /\ puts'[p] = <<at[p]>> /\ UNCHANGED <<call, ip, putting>>
    BY <1>0, <1>16 DEF UnlinkErase
  <2>3. QED
    BY <1>0, <2>1, <2>2 DEF Fits, InLink, AtDir, ToParent, Doing
<1>17. CASE LinkNew(p)
  <2>1. pc[p] = "parent" /\ call[p].op = "link" /\ puts[p] = <<>>
    BY <1>17 DEF LinkNew, Parent, AtPc, Doing
  <2>2. at[p] \in Inodes /\ ip[p] \in Inodes
    BY <1>0, <2>1, AtHand DEF AtDir, InLink
  <2>3. QED
    BY <1>0, <1>17, <2>1, <2>2, OneType, ReturnFits DEF LinkNew
<1>18. CASE LinkOld(p)
  <2>1. pc[p] = "walk" /\ call[p].op = "link" /\ call[p].new \in Paths /\ at[p] \in Inodes /\ puts[p] = <<>>
    BY <1>0, <1>18, AtHand DEF LinkOld, Found, AtPc, Doing, Fits
  <2>2. call[p].new.names # <<>> /\ Start(p, call[p].new) # 0
    BY <1>0, <2>1, FsAssumption, InodesRange DEF Start
  <2>3. /\ pc'[p] = "walk2" /\ ip'[p] = at[p] /\ at'[p] = Start(p, call[p].new) /\ todo'[p] = call[p].new.names
        /\ UNCHANGED <<call, puts, putting>>
    BY <1>0, <1>18 DEF LinkOld
  <2>4. QED
    BY <1>0, <2>1, <2>2, <2>3, InodesRange DEF Fits, InLink, AtDir, ToParent, Doing
<1>19. CASE LinkTaken(p)
  <2>1. pc[p] = "parent" /\ call[p].op = "link" /\ puts[p] = <<>>
    BY <1>19 DEF LinkTaken, Parent, AtPc, Doing
  <2>2. pc'[p] = "linkdup" /\ puts'[p] = <<Target(p)>> /\ UNCHANGED <<call, at, todo, ip, putting>>
    BY <1>0, <1>19 DEF LinkTaken
  <2>3. QED
    BY <1>0, <2>1, <2>2 DEF Fits, InLink, AtDir, ToParent, Doing
<1>20. CASE LinkDup(p)
  <2>1. pc[p] = "linkdup" /\ puts[p] = <<>>
    BY <1>20 DEF LinkDup, AtPc
  <2>2. pc'[p] = "bad" /\ puts'[p] = <<at[p]>> /\ at'[p] = 0 /\ UNCHANGED <<call, ip, putting>>
    BY <1>0, <1>20 DEF LinkDup
  <2>3. QED
    BY <1>0, <2>1, <2>2 DEF Fits, InLink, AtDir, ToParent, Doing
<1>21. QED
  BY <1>1, <1>2, <1>3, <1>4, <1>5, <1>6, <1>7, <1>8, <1>9, <1>10, <1>11, <1>12, <1>13, <1>14,
     <1>15, <1>16, <1>17, <1>18, <1>19, <1>20 DEF Step

-----------------------------------------------------------------------------
(* A lock that is kept is known by where its holder is. *)
LEMMA ReturnHoldsNone ==
  ASSUME Types, Shape, NEW p \in Procs, NEW s, Return(p, s), UNCHANGED putting, puts[p] = <<>>
  PROVE  \A i \in Inodes : ~HoldsLock(p, i)'
<1>1. putting'[p] = "check"
  BY DEF Shape, Fits, Types
<1>2. pc'[p] = "idle"
  BY DEF Return, Types
<1>3. QED
  BY <1>1, <1>2 DEF HoldsLock

Unlocked == {"idle", "walk", "walk2", "parent", "existing", "bad"}

LEMMA LocksStep ==
  ASSUME IInv, NEW p \in Procs, Step(p)
  PROVE  Locks'
<1>0. Types /\ Shape /\ Fits(p) /\ Locks /\ Alone(p) /\ Nobody \notin Procs
  BY StepAlone, FsAssumption DEF IInv, RInv, Shape
<1> USE DEF Types
<1>a. ASSUME NEW q \in Procs \ {p}, NEW i \in Inodes PROVE HoldsLock(q, i)' <=> HoldsLock(q, i)
  BY <1>0 DEF Alone, HoldsLock
<1>b. puts[p] = <<>> => putting[p] = "check"
  BY <1>0 DEF Fits
<1>c. ASSUME NEW i \in Inodes PROVE lock[i] = p <=> HoldsLock(p, i)
  BY <1>0 DEF Locks
<1>d. SUFFICES /\ \A i \in Inodes : lock'[i] = lock[i] \/ (lock[i] \in {p, Nobody} /\ lock'[i] \in {p, Nobody})
               /\ \A i \in Inodes : lock'[i] = p <=> HoldsLock(p, i)'
  <2>1. ASSUME \A i \in Inodes : lock'[i] = lock[i] \/ (lock[i] \in {p, Nobody} /\ lock'[i] \in {p, Nobody}),
               NEW q \in Procs \ {p}, NEW i \in Inodes
        PROVE  lock'[i] = q <=> HoldsLock(q, i)'
    <3>1. lock[i] = q <=> HoldsLock(q, i)
      BY <1>0 DEF Locks
    <3>2. lock'[i] = q <=> lock[i] = q
      BY <1>0, <2>1
    <3>3. QED
      BY <1>a, <3>1, <3>2
  <2>2. QED
    BY <2>1 DEF Locks
<1>1. CASE IputCheck(p)
  <2>1. PICK i : i = Head(puts[p])
    OBVIOUS
  <2>2. i \in Inodes /\ i = Nth(puts[p], 1) /\ putting[p] = "check" /\ lock[i] = Nobody
    BY <1>0, <1>1, <2>1, PutRange DEF IputCheck
  <2>3. UNCHANGED <<pc, at, ip, puts>>
    BY <1>1 DEF IputCheck
  <2>4. CASE LastRef(i)
    <3>1. lock' = [lock EXCEPT ![i] = p] /\ putting'[p] = "free"
      BY <1>0, <1>1, <2>1, <2>4 DEF IputCheck
    <3>2. QED
      BY <1>0, <1>c, <2>2, <2>3, <3>1 DEF HoldsLock
  <2>5. CASE ~LastRef(i)
    <3>1. lock' = lock /\ putting'[p] = "drop"
      BY <1>0, <1>1, <2>1, <2>5 DEF IputCheck
    <3>2. QED
      BY <1>0, <1>c, <2>2, <2>3, <3>1 DEF HoldsLock
  <2>6. QED
    BY <2>4, <2>5
<1>2. CASE IputFree(p)
  <2>1. PICK i : i = Head(puts[p])
    OBVIOUS
  <2>2. i \in Inodes /\ i = Nth(puts[p], 1) /\ putting[p] = "free"
    BY <1>0, <1>2, <2>1, PutRange DEF IputFree, Fits
  <2>3. ref[i] = 1 /\ RefsCounted
    BY <2>2 DEF IInv, RInv, Freeing
  <2>4. at[p] # i /\ ip[p] # i
    BY <1>0, <2>2, <2>3, SoleRef
  <2>5. lock' = [lock EXCEPT ![i] = Nobody] /\ putting'[p] = "drop" /\ UNCHANGED <<pc, at, ip, puts>>
    BY <1>0, <1>2, <2>1 DEF IputFree
  <2>6. lock[i] = p
    BY <1>c, <2>2 DEF HoldsLock
  <2>7. QED
    BY <1>0, <1>c, <2>2, <2>4, <2>5, <2>6 DEF HoldsLock
<1>3. CASE IputDrop(p)
  <2>1. putting[p] = "drop" /\ putting'[p] = "check" /\ UNCHANGED <<lock, pc, at, ip>>
    BY <1>0, <1>3 DEF IputDrop
  <2>2. QED
    BY <1>0, <1>c, <2>1 DEF HoldsLock
<1>4. ASSUME puts[p] = <<>>, pc[p] \in Unlocked, pc'[p] \in Unlocked, UNCHANGED <<lock, putting>>
      PROVE  \A i \in Inodes : lock'[i] = p <=> HoldsLock(p, i)'
  BY <1>0, <1>b, <1>c, <1>4 DEF HoldsLock, Unlocked
<1>5. CASE \E op, path, new : Begin(p, op, path, new)
  BY <1>0, <1>4, <1>5 DEF Begin, AtPc, Unlocked
<1>6. CASE Close(p) \/ WalkEnd(p) \/ WalkDown(p)
  BY <1>0, <1>4, <1>6 DEF Close, WalkEnd, WalkDown, Walking, AtPc, Unlocked
<1>7. CASE WalkFails(p)
  BY <1>0, <1>4, <1>7 DEF WalkFails, Walking, AtPc, Return, Unlocked
<1>8. CASE Open(p) \/ OpenFails(p) \/ Chdir(p) \/ LinkOldIsDir(p)
  BY <1>0, <1>4, <1>8 DEF Open, OpenFails, Chdir, LinkOldIsDir, Found, AtPc, Return, Unlocked
<1>9. CASE CreateExisting(p) \/ LinkNew(p) \/ UnlinkMissing(p)
  BY <1>0, <1>4, <1>9 DEF CreateExisting, LinkNew, UnlinkMissing, Parent, AtPc, Return, Unlocked
<1>10. CASE Existing(p) \/ LinkBad(p)
  BY <1>0, <1>4, <1>10 DEF Existing, LinkBad, AtPc, Return, Unlocked
<1>11. CASE LinkOld(p)
  BY <1>0, <1>4, <1>11 DEF LinkOld, Found, AtPc, Unlocked
<1>12. CASE CreateNew(p)
  <2>1. pc[p] = "parent" /\ puts[p] = <<>> /\ pc'[p] = "created" /\ UNCHANGED putting
    BY <1>0, <1>12 DEF CreateNew, Parent, AtPc
  <2>2. PICK i \in Inodes : lock[i] = Nobody /\ lock' = [lock EXCEPT ![i] = p] /\ ip' = [ip EXCEPT ![p] = i]
    BY <1>12 DEF CreateNew
  <2>3. QED
    BY <1>0, <1>b, <1>c, <2>1, <2>2 DEF HoldsLock
<1>13. CASE Created(p) \/ UnlinkDone(p)
  <2>1. pc[p] \in {"created", "unlinked"} /\ puts[p] = <<>> /\ lock' = [lock EXCEPT ![ip[p]] = Nobody]
    BY <1>13 DEF Created, UnlinkDone, AtPc
  <2>2. \A i \in Inodes : ~HoldsLock(p, i)'
    BY <1>0, <1>13, <2>1, ReturnHoldsNone DEF Created, UnlinkDone
  <2>3. \A i \in Inodes : lock[i] = p <=> ip[p] = i
    BY <1>b, <1>c, <2>1 DEF HoldsLock
  <2>4. QED
    BY <1>0, <2>1, <2>2, <2>3
<1>14. CASE UnlinkFind(p) \/ LinkTaken(p)
  <2>1. pc[p] = "parent" /\ puts[p] = <<>> /\ at[p] \in Inodes /\ lock[at[p]] = Nobody
    BY <1>0, <1>14, AtHand DEF UnlinkFind, LinkTaken, Parent, AtPc, AtDir
  <2>2. lock' = [lock EXCEPT ![at[p]] = p] /\ pc'[p] \in {"victim", "linkdup"} /\ UNCHANGED <<at, putting>>
    BY <1>0, <1>14 DEF UnlinkFind, LinkTaken
  <2>3. QED
    BY <1>0, <1>b, <1>c, <2>1, <2>2 DEF HoldsLock
<1>15. CASE UnlinkNotEmpty(p)
  <2>1. pc[p] = "victim" /\ puts[p] = <<>> /\ pc'[p] = "notempty" /\ UNCHANGED <<at, lock, putting>>
    BY <1>0, <1>15 DEF UnlinkNotEmpty, AtPc
  <2>2. QED
    BY <1>b, <1>c, <2>1 DEF HoldsLock
<1>16. CASE UnlinkBad(p) \/ LinkDup(p)
  <2>1. pc[p] \in {"notempty", "linkdup"} /\ puts[p] = <<>> /\ lock' = [lock EXCEPT ![at[p]] = Nobody]
        /\ pc'[p] \in {"idle", "bad"} /\ UNCHANGED putting
    BY <1>0, <1>16 DEF UnlinkBad, LinkDup, AtPc, Return
  <2>2. \A i \in Inodes : lock[i] = p <=> at[p] = i
    BY <1>b, <1>c, <2>1 DEF HoldsLock
  <2>3. \A i \in Inodes : ~HoldsLock(p, i)'
    BY <1>b, <2>1 DEF HoldsLock
  <2>4. QED
    BY <1>0, <2>1, <2>2, <2>3
<1>17. CASE UnlinkErase(p)
  <2>1. pc[p] = "victim" /\ puts[p] = <<>> /\ lock[ip[p]] = Nobody /\ pc'[p] = "unlinked" /\ UNCHANGED <<ip, putting>>
    BY <1>0, <1>17 DEF UnlinkErase, AtPc
  <2>2. at[p] \in Inodes /\ ip[p] \in Inodes /\ lock' = [lock EXCEPT ![at[p]] = Nobody, ![ip[p]] = p]
    BY <1>0, <1>17, <2>1, AtHand DEF UnlinkErase, AtDir
  <2>3. \A i \in Inodes : lock[i] = p <=> at[p] = i
    BY <1>b, <1>c, <2>1 DEF HoldsLock
  <2>4. \A i \in Inodes : HoldsLock(p, i)' <=> ip[p] = i
    BY <1>b, <2>1 DEF HoldsLock
  <2>5. QED
    BY <1>0, <2>1, <2>2, <2>3, <2>4
<1>18. QED
  BY <1>1, <1>2, <1>3, <1>5, <1>6, <1>7, <1>8, <1>9, <1>10, <1>11, <1>12, <1>13, <1>14,
     <1>15, <1>16, <1>17 DEF Step

-----------------------------------------------------------------------------
LEMMA OneFileStep ==
  ASSUME RInv, NEW p \in Procs, Step(p)
  PROVE  OneFile'
<1>0. Types /\ Alone(p) /\ OneFile
  BY StepAlone DEF RInv
<1> USE DEF Types, held
<1>1. SUFFICES /\ call'[p].op \in Ops[p] \cup {"none"}
               /\ call'[p].op \in {"open", "create"} => fd'[p] = 0
  BY <1>0 DEF Alone, OneFile
<1>2. ASSUME NEW s, Return(p, s) PROVE call'[p].op = "none"
  BY <1>0, <1>2 DEF Return, NoCall
<1>3. CASE IputCheck(p) \/ IputFree(p) \/ IputDrop(p) \/ WalkEnd(p) \/ WalkDown(p)
  BY <1>0, <1>3 DEF IputCheck, IputFree, IputDrop, WalkEnd, WalkDown, OneFile
<1>4. CASE \E op \in Ops[p] : \E path, new : Begin(p, op, path, new)
  BY <1>0, <1>4 DEF Begin
<1>5. CASE Close(p)
  BY <1>0, <1>5 DEF Close, OneFile
<1>6. CASE WalkFails(p)
  BY <1>0, <1>2, <1>6 DEF WalkFails, OneFile
<1>7. CASE Open(p) \/ OpenFails(p) \/ Chdir(p) \/ Existing(p) \/ Created(p)
  BY <1>2, <1>7 DEF Open, OpenFails, Chdir, Existing, Created
<1>8. CASE CreateExisting(p) \/ CreateNew(p) \/ UnlinkFind(p) \/ UnlinkNotEmpty(p) \/ UnlinkErase(p)
  BY <1>0, <1>8 DEF CreateExisting, CreateNew, UnlinkFind, UnlinkNotEmpty, UnlinkErase, OneFile
<1>9. CASE UnlinkMissing(p) \/ UnlinkBad(p) \/ UnlinkDone(p) \/ LinkOldIsDir(p) \/ LinkNew(p) \/ LinkBad(p)
  BY <1>2, <1>9 DEF UnlinkMissing, UnlinkBad, UnlinkDone, LinkOldIsDir, LinkNew, LinkBad
<1>10. CASE LinkOld(p) \/ LinkTaken(p) \/ LinkDup(p)
  BY <1>0, <1>10 DEF LinkOld, LinkTaken, LinkDup, OneFile
<1>11. QED
  BY <1>3, <1>4, <1>5, <1>6, <1>7, <1>8, <1>9, <1>10 DEF Step

-----------------------------------------------------------------------------
(* The references of one process to an inode. *)
Own(p, i) == One(cwd[p], i) + One(fd[p], i) + One(at[p], i) + One(ip[p], i)
             + One(Nth(puts[p], 1), i) + One(Nth(puts[p], 2), i)

LEMMA RefMove ==
  ASSUME Types, Types', RefsCounted, NEW p \in Procs, Alone(p), NEW i \in Inodes,
         ref'[i] + Own(p, i) = ref[i] + Own(p, i)'
  PROVE  ref'[i] = Count(cwd', i) + Count(fd', i) + Count(at', i) + Count(ip', i) + Count(Put1', i) + Count(Put2', i)
<1>1. ASSUME NEW f, NEW g, DOMAIN f = Procs, DOMAIN g = Procs, \A q \in Procs \ {p} : g[q] = f[q]
      PROVE  /\ Count(g, i) + One(f[p], i) = Count(f, i) + One(g[p], i)
             /\ Count(f, i) \in Nat /\ Count(g, i) \in Nat
  <2>1. /\ IsFiniteSet(DOMAIN f) /\ IsFiniteSet(DOMAIN g) /\ DOMAIN g = DOMAIN f
        /\ p \in DOMAIN f /\ \A q \in DOMAIN f \ {p} : g[q] = f[q]
    BY <1>1, FsAssumption
  <2>2. Count(f, i) \in Nat /\ Count(g, i) \in Nat
    BY <2>1, CountNat
  <2>3. Count(g, i) + One(f[p], i) = Count(f, i) + One(g[p], i)
    BY <2>1, CountMove
  <2>4. QED
    BY <2>2, <2>3
<1>2. /\ \A f \in {cwd, fd, at, ip, Put1, Put2} : DOMAIN f = Procs
      /\ \A f \in {cwd', fd', at', ip', Put1', Put2'} : DOMAIN f = Procs
  BY DEF Types, Put1, Put2
<1>3. \A q \in Procs \ {p} : /\ cwd'[q] = cwd[q] /\ fd'[q] = fd[q] /\ at'[q] = at[q] /\ ip'[q] = ip[q]
                              /\ Put1'[q] = Put1[q] /\ Put2'[q] = Put2[q]
  BY DEF Alone, Put1, Put2
<1>4. /\ Count(cwd', i) + One(cwd[p], i) = Count(cwd, i) + One(cwd'[p], i)
      /\ Count(fd', i) + One(fd[p], i) = Count(fd, i) + One(fd'[p], i)
      /\ Count(at', i) + One(at[p], i) = Count(at, i) + One(at'[p], i)
      /\ Count(cwd', i) \in Nat /\ Count(fd', i) \in Nat /\ Count(at', i) \in Nat
  BY <1>1, <1>2, <1>3
<1>5. /\ Count(ip', i) + One(ip[p], i) = Count(ip, i) + One(ip'[p], i)
      /\ Count(Put1', i) + One(Put1[p], i) = Count(Put1, i) + One(Put1'[p], i)
      /\ Count(Put2', i) + One(Put2[p], i) = Count(Put2, i) + One(Put2'[p], i)
      /\ Count(ip', i) \in Nat /\ Count(Put1', i) \in Nat /\ Count(Put2', i) \in Nat
  BY <1>1, <1>2, <1>3
<1>6. /\ Put1[p] = Nth(puts[p], 1) /\ Put1'[p] = Nth(puts'[p], 1)
      /\ Put2[p] = Nth(puts[p], 2) /\ Put2'[p] = Nth(puts'[p], 2)
  BY DEF Put1, Put2
<1>7. /\ One(cwd[p], i) \in Nat /\ One(fd[p], i) \in Nat /\ One(at[p], i) \in Nat /\ One(ip[p], i) \in Nat
      /\ One(Put1[p], i) \in Nat /\ One(Put2[p], i) \in Nat
      /\ One(cwd'[p], i) \in Nat /\ One(fd'[p], i) \in Nat /\ One(at'[p], i) \in Nat /\ One(ip'[p], i) \in Nat
      /\ One(Put1'[p], i) \in Nat /\ One(Put2'[p], i) \in Nat
  BY DEF One
<1>8. ref[i] \in Nat /\ ref'[i] \in Nat
  BY DEF Types
<1>9. ref'[i] + One(cwd[p], i) + One(fd[p], i) + One(at[p], i) + One(ip[p], i)
        + One(Put1[p], i) + One(Put2[p], i)
      = ref[i] + One(cwd'[p], i) + One(fd'[p], i) + One(at'[p], i) + One(ip'[p], i)
        + One(Put1'[p], i) + One(Put2'[p], i)
  <2>1. /\ Own(p, i) = One(cwd[p], i) + One(fd[p], i) + One(at[p], i) + One(ip[p], i)
                       + One(Put1[p], i) + One(Put2[p], i)
        /\ Own(p, i)' = One(cwd'[p], i) + One(fd'[p], i) + One(at'[p], i) + One(ip'[p], i)
                       + One(Put1'[p], i) + One(Put2'[p], i)
        /\ ref'[i] + Own(p, i) = ref[i] + Own(p, i)'
    BY <1>6 DEF Own
  <2>2. QED
    BY <1>7, <1>8, <2>1
<1>10. QED
  <2>1. /\ ref[i] = Count(cwd, i) + Count(fd, i) + Count(at, i) + Count(ip, i) + Count(Put1, i) + Count(Put2, i)
        /\ Count(cwd, i) \in Nat /\ Count(fd, i) \in Nat /\ Count(at, i) \in Nat
        /\ Count(ip, i) \in Nat /\ Count(Put1, i) \in Nat /\ Count(Put2, i) \in Nat
    BY RefsSum
  <2>2. QED
    BY <1>4, <1>5, <1>7, <1>8, <1>9, <2>1

LEMMA RefsMove ==
  ASSUME Types, Types', RefsCounted, NEW p \in Procs, Alone(p), Len(puts'[p]) <= 2,
         \A i \in Inodes : ref'[i] + Own(p, i) = ref[i] + Own(p, i)'
  PROVE  RefsCounted'
<1>1. ASSUME NEW i \in Inodes
      PROVE  ref'[i] = Count(cwd', i) + Count(fd', i) + Count(at', i) + Count(ip', i) + Count(Put1', i) + Count(Put2', i)
  BY RefMove
<1>2. \A q \in Procs : Len(puts'[q]) <= 2
  BY DEF Alone, RefsCounted
<1>3. QED
  BY <1>1, <1>2 DEF RefsCounted, Put1, Put2

(* The process gives a reference that it has to another place, or takes one. *)
LEMMA RefsStep ==
  ASSUME RInv, NEW p \in Procs, Step(p)
  PROVE  RefsCounted'
<1>0. Types /\ Types' /\ Shape /\ Fits(p) /\ Shape' /\ Fits(p)' /\ RefsCounted /\ Alone(p) /\ OneFile
  BY StepAlone, TypesStep, ShapeStep DEF RInv, Shape
<1>1. SUFFICES ASSUME NEW i \in Inodes PROVE ref'[i] + Own(p, i) = ref[i] + Own(p, i)'
  BY <1>0, RefsMove DEF Fits
<1>2. i # 0 /\ ref[i] \in Int /\ ROOTINO # 0 /\ cwd[p] # 0
  BY <1>0, InodesRange DEF Types
<1>3. puts[p] = <<>> => Nth(puts[p], 1) = 0 /\ Nth(puts[p], 2) = 0
  BY NthLemma
<1>4. ASSUME NEW x PROVE Nth(<<x>>, 1) = x /\ Nth(<<x>>, 2) = 0 /\ Nth(<<>>, 1) = 0 /\ Nth(<<>>, 2) = 0
  BY NthLemma
<1>5. ASSUME NEW x, ref' = Gets(x) PROVE ref'[i] = ref[i] + One(x, i)
  <2>1. ref \in [Inodes -> Nat]
    BY <1>0 DEF Types
  <2>2. QED
    BY <1>5, <2>1 DEF Gets, One
<1>6. ASSUME NEW s, Return(p, s) PROVE at'[p] = 0 /\ ip'[p] = 0 /\ puts'[p] = s
  BY <1>0, <1>6 DEF Return, Types
<1> USE DEF Types
<1>7. CASE IputCheck(p) \/ IputFree(p) \/ WalkEnd(p)
  <2>1. UNCHANGED <<ref, cwd, fd, at, ip, puts>>
    BY <1>7 DEF IputCheck, IputFree, WalkEnd, held
  <2>2. QED
    BY <1>2, <2>1 DEF Own, One
<1>8. CASE IputDrop(p)
  <2>1. puts[p] # <<>> /\ UNCHANGED <<cwd, fd, at, ip>> /\ puts'[p] = Tail(puts[p]) /\ ref' = Dropped(Head(puts[p]))
    BY <1>0, <1>8 DEF IputDrop, held, Fits
  <2>2. /\ Head(puts[p]) = Nth(puts[p], 1) /\ Nth(puts'[p], 1) = Nth(puts[p], 2) /\ Nth(puts'[p], 2) = 0
    BY <1>0, <2>1, NthTail DEF Fits
  <2>3. ref'[i] + One(Nth(puts[p], 1), i) = ref[i]
    <3>1. ref \in [Inodes -> Nat]
      BY <1>0
    <3>2. QED
      BY <1>2, <2>1, <2>2, <3>1 DEF Dropped, One
  <2>4. /\ Own(p, i) = One(cwd[p], i) + One(fd[p], i) + One(at[p], i) + One(ip[p], i)
                       + One(Nth(puts[p], 1), i) + One(Nth(puts[p], 2), i)
        /\ Own(p, i)' = One(cwd[p], i) + One(fd[p], i) + One(at[p], i) + One(ip[p], i)
                       + One(Nth(puts[p], 2), i)
    BY <1>2, <2>1, <2>2 DEF Own, One
  <2>5. /\ One(cwd[p], i) \in Int /\ One(fd[p], i) \in Int /\ One(at[p], i) \in Int /\ One(ip[p], i) \in Int
        /\ One(Nth(puts[p], 1), i) \in Int /\ One(Nth(puts[p], 2), i) \in Int /\ ref'[i] \in Int
    BY <1>0 DEF One
  <2>6. QED
    BY <1>2, <2>3, <2>4, <2>5
<1>9. ASSUME NEW op, NEW path, NEW new, Begin(p, op, path, new) PROVE ref'[i] + Own(p, i) = ref[i] + Own(p, i)'
  <2>1. /\ at[p] = 0 /\ at'[p] = Start(p, path) /\ UNCHANGED <<cwd, fd, ip, puts>>
        /\ ref'[i] = ref[i] + One(Start(p, path), i)
    BY <1>0, <1>5, <1>9 DEF Begin, AtPc, Fits, AtDir, held
  <2>2. QED
    BY <1>2, <2>1 DEF Own, One
<1>10. CASE Close(p)
  <2>1. /\ Nth(puts[p], 1) = 0 /\ Nth(puts[p], 2) = 0 /\ Nth(puts'[p], 1) = fd[p] /\ Nth(puts'[p], 2) = 0
        /\ fd'[p] = 0 /\ UNCHANGED <<cwd, at, ip, ref>>
    BY <1>0, <1>3, <1>4, <1>10 DEF Close, AtPc
  <2>2. QED
    BY <1>2, <2>1 DEF Own, One
<1>11. CASE WalkDown(p)
  <2>1. PICK next : next = entry[at[p]][Head(todo[p])] /\ ref'[i] = ref[i] + One(next, i) /\ at'[p] = next
    BY <1>0, <1>5, <1>11 DEF WalkDown
  <2>2. /\ Nth(puts[p], 1) = 0 /\ Nth(puts[p], 2) = 0 /\ Nth(puts'[p], 1) = at[p] /\ Nth(puts'[p], 2) = 0
        /\ UNCHANGED <<cwd, fd, ip>>
    BY <1>0, <1>3, <1>4, <1>11 DEF WalkDown, Walking, AtPc, held
  <2>3. QED
    BY <1>2, <2>1, <2>2 DEF Own, One
<1>12. ASSUME puts[p] = <<>>, UNCHANGED <<cwd, fd, ref>>,
              \/ puts'[p] = <<at[p]>> /\ at'[p] = 0 /\ ip'[p] = ip[p]
              \/ puts'[p] = <<ip[p]>> /\ ip'[p] = 0 /\ at'[p] = at[p]
       PROVE ref'[i] + Own(p, i) = ref[i] + Own(p, i)'
  <2>1. /\ Nth(puts[p], 1) = 0 /\ Nth(puts[p], 2) = 0 /\ Nth(puts'[p], 2) = 0
        /\ \/ Nth(puts'[p], 1) = at[p] /\ at'[p] = 0 /\ ip'[p] = ip[p]
           \/ Nth(puts'[p], 1) = ip[p] /\ ip'[p] = 0 /\ at'[p] = at[p]
    BY <1>3, <1>4, <1>12
  <2>2. QED
    BY <1>2, <1>12, <2>1 DEF Own, One
<1>13. CASE WalkFails(p)
  <2>1. puts[p] = <<>> /\ pc[p] \in {"walk", "walk2"} /\ UNCHANGED <<cwd, fd, ref>>
    BY <1>13 DEF WalkFails, Walking, AtPc, held
  <2>2. puts'[p] = <<at[p]>> /\ at'[p] = 0 /\ ip'[p] = ip[p]
    <3>1. CASE pc[p] = "walk2"
      BY <1>0, <1>13, <3>1 DEF WalkFails
    <3>2. CASE pc[p] = "walk"
      <4>1. ip[p] = 0
        BY <1>0, <3>2 DEF Fits, InLink
      <4>2. Return(p, <<at[p]>>)
        BY <1>13, <3>2 DEF WalkFails
      <4>3. QED
        BY <1>6, <4>1, <4>2
    <3>3. QED
      BY <2>1, <3>1, <3>2
  <2>3. QED
    BY <1>12, <2>1, <2>2
<1>14. CASE Open(p)
  <2>1. /\ pc[p] = "walk" /\ fd[p] = 0 /\ fd'[p] = at[p] /\ at'[p] = 0 /\ ip'[p] = 0 /\ UNCHANGED <<cwd, ref>>
        /\ Nth(puts[p], 1) = 0 /\ Nth(puts[p], 2) = 0 /\ Nth(puts'[p], 1) = 0 /\ Nth(puts'[p], 2) = 0
    BY <1>0, <1>3, <1>4, <1>6, <1>14 DEF Open, Found, AtPc, Doing, OneFile
  <2>2. ip[p] = 0
    BY <1>0, <2>1 DEF Fits, InLink
  <2>3. QED
    BY <1>2, <2>1, <2>2 DEF Own, One
<1>15. CASE OpenFails(p) \/ LinkOldIsDir(p) \/ (Chdir(p) /\ type[at[p]] # "dir")
  <2>1. puts[p] = <<>> /\ pc[p] = "walk" /\ UNCHANGED <<cwd, fd, ref>> /\ Return(p, <<at[p]>>)
    BY <1>15 DEF OpenFails, LinkOldIsDir, Chdir, Found, AtPc, held
  <2>2. ip[p] = 0
    BY <1>0, <2>1 DEF Fits, InLink
  <2>3. QED
    BY <1>6, <1>12, <2>1, <2>2
<1>16. CASE Chdir(p) /\ type[at[p]] = "dir"
  <2>1. /\ pc[p] = "walk" /\ cwd'[p] = at[p] /\ at'[p] = 0 /\ ip'[p] = 0 /\ UNCHANGED <<fd, ref>>
        /\ Nth(puts[p], 1) = 0 /\ Nth(puts[p], 2) = 0 /\ Nth(puts'[p], 1) = cwd[p] /\ Nth(puts'[p], 2) = 0
    BY <1>0, <1>3, <1>4, <1>6, <1>16 DEF Chdir, Found, AtPc
  <2>2. ip[p] = 0
    BY <1>0, <2>1 DEF Fits, InLink
  <2>3. QED
    BY <1>2, <2>1, <2>2 DEF Own, One
<1>17. CASE CreateExisting(p)
  <2>1. /\ pc[p] = "parent" /\ call[p].op \in {"create", "mkdir"} /\ ref'[i] = ref[i] + One(Target(p), i)
        /\ ip'[p] = Target(p) /\ at'[p] = 0 /\ UNCHANGED <<cwd, fd>>
        /\ Nth(puts[p], 1) = 0 /\ Nth(puts[p], 2) = 0 /\ Nth(puts'[p], 1) = at[p] /\ Nth(puts'[p], 2) = 0
    BY <1>0, <1>3, <1>4, <1>5, <1>17 DEF CreateExisting, Parent, AtPc, Doing, held
  <2>2. ip[p] = 0
    BY <1>0, <2>1 DEF Fits, InLink
  <2>3. QED
    BY <1>2, <2>1, <2>2 DEF Own, One
<1>18. CASE Existing(p) \/ Created(p)
  <2>1. /\ puts[p] = <<>> /\ pc[p] \in {"existing", "created"} /\ UNCHANGED <<cwd, ref>>
        /\ \/ fd'[p] = ip[p] /\ Return(p, <<>>) /\ Doing(p, {"create"})
           \/ fd'[p] = fd[p] /\ Return(p, <<ip[p]>>)
    BY <1>0, <1>18 DEF Existing, Created, AtPc
  <2>2. at[p] = 0
    BY <1>0, <2>1 DEF Fits, AtDir
  <2>3. CASE fd'[p] = ip[p] /\ Return(p, <<>>) /\ Doing(p, {"create"})
    <3>1. /\ fd[p] = 0 /\ at'[p] = 0 /\ ip'[p] = 0
          /\ Nth(puts[p], 1) = 0 /\ Nth(puts[p], 2) = 0 /\ Nth(puts'[p], 1) = 0 /\ Nth(puts'[p], 2) = 0
      BY <1>0, <1>3, <1>4, <1>6, <2>1, <2>3 DEF Doing, OneFile
    <3>2. QED
      BY <1>2, <2>1, <2>2, <2>3, <3>1 DEF Own, One
  <2>4. CASE fd'[p] = fd[p] /\ Return(p, <<ip[p]>>)
    <3>1. /\ at'[p] = 0 /\ ip'[p] = 0
          /\ Nth(puts[p], 1) = 0 /\ Nth(puts[p], 2) = 0 /\ Nth(puts'[p], 1) = ip[p] /\ Nth(puts'[p], 2) = 0
      BY <1>3, <1>4, <1>6, <2>1, <2>4
    <3>2. QED
      BY <1>2, <2>1, <2>2, <2>4, <3>1 DEF Own, One
  <2>5. QED
    BY <2>1, <2>3, <2>4
<1>19. CASE CreateNew(p)
  <2>1. PICK j \in Inodes : ref'[i] = ref[i] + One(j, i) /\ ip'[p] = j
    BY <1>0, <1>5, <1>19 DEF CreateNew
  <2>2. /\ pc[p] = "parent" /\ call[p].op \in {"create", "mkdir"} /\ at'[p] = 0 /\ UNCHANGED <<cwd, fd>>
        /\ Nth(puts[p], 1) = 0 /\ Nth(puts[p], 2) = 0 /\ Nth(puts'[p], 1) = at[p] /\ Nth(puts'[p], 2) = 0
    BY <1>0, <1>3, <1>4, <1>19 DEF CreateNew, Parent, AtPc, Doing, held
  <2>3. ip[p] = 0
    BY <1>0, <2>2 DEF Fits, InLink
  <2>4. QED
    BY <1>2, <2>1, <2>2, <2>3 DEF Own, One
<1>20. CASE UnlinkMissing(p) \/ UnlinkBad(p)
  <2>1. /\ puts[p] = <<>> /\ UNCHANGED <<cwd, fd, ref>> /\ Return(p, <<at[p]>>)
        /\ \/ pc[p] = "notempty"
           \/ pc[p] = "parent" /\ call[p].op = "unlink"
    BY <1>20 DEF UnlinkMissing, UnlinkBad, Parent, AtPc, Doing, held
  <2>2. ip[p] = 0
    BY <1>0, <2>1 DEF Fits, InLink
  <2>3. QED
    BY <1>6, <1>12, <2>1, <2>2
<1>21. CASE UnlinkFind(p)
  <2>1. /\ pc[p] = "parent" /\ call[p].op = "unlink" /\ ref'[i] = ref[i] + One(Target(p), i)
        /\ ip'[p] = Target(p) /\ UNCHANGED <<at, puts, cwd, fd>>
    BY <1>0, <1>5, <1>21 DEF UnlinkFind, Parent, AtPc, Doing, held
  <2>2. ip[p] = 0
    BY <1>0, <2>1 DEF Fits, InLink
  <2>3. QED
    BY <1>2, <2>1, <2>2 DEF Own, One
<1>22. CASE UnlinkNotEmpty(p)
  BY <1>0, <1>12, <1>22 DEF UnlinkNotEmpty, AtPc, held
<1>23. CASE UnlinkErase(p) \/ LinkDup(p)
  BY <1>0, <1>12, <1>23 DEF UnlinkErase, LinkDup, AtPc, held
<1>24. CASE UnlinkDone(p) \/ LinkBad(p)
  <2>1. puts[p] = <<>> /\ UNCHANGED <<cwd, fd, ref>> /\ Return(p, <<ip[p]>>) /\ pc[p] \in {"unlinked", "bad"}
    BY <1>24 DEF UnlinkDone, LinkBad, AtPc, held
  <2>2. at[p] = 0
    BY <1>0, <2>1 DEF Fits, AtDir
  <2>3. QED
    BY <1>6, <1>12, <2>1, <2>2
<1>25. CASE LinkOld(p)
  <2>1. PICK s : at'[p] = s /\ ref'[i] = ref[i] + One(s, i)
    BY <1>0, <1>5, <1>25 DEF LinkOld
  <2>2. pc[p] = "walk" /\ ip'[p] = at[p] /\ UNCHANGED <<puts, cwd, fd>>
    BY <1>0, <1>25 DEF LinkOld, Found, AtPc, held
  <2>3. ip[p] = 0
    BY <1>0, <2>2 DEF Fits, InLink
  <2>4. QED
    BY <1>2, <2>1, <2>2, <2>3 DEF Own, One
<1>26. CASE LinkNew(p)
  <2>1. /\ at'[p] = 0 /\ ip'[p] = 0 /\ UNCHANGED <<cwd, fd, ref>>
        /\ Nth(puts[p], 1) = 0 /\ Nth(puts[p], 2) = 0 /\ Nth(puts'[p], 1) = at[p] /\ Nth(puts'[p], 2) = ip[p]
    <3>1. Nth(<<at[p], ip[p]>>, 1) = at[p] /\ Nth(<<at[p], ip[p]>>, 2) = ip[p]
      BY NthLemma
    <3>2. puts[p] = <<>> /\ UNCHANGED <<cwd, fd, ref>> /\ Return(p, <<at[p], ip[p]>>)
      BY <1>26 DEF LinkNew, Parent, AtPc, held
    <3>3. at'[p] = 0 /\ ip'[p] = 0 /\ puts'[p] = <<at[p], ip[p]>>
      BY <1>6, <3>2
    <3>4. QED
      BY <1>3, <3>1, <3>2, <3>3
  <2>2. QED
    BY <1>2, <2>1 DEF Own, One
<1>27. CASE LinkTaken(p)
  <2>1. /\ ref'[i] = ref[i] + One(Target(p), i) /\ UNCHANGED <<at, ip, cwd, fd>>
        /\ Nth(puts[p], 1) = 0 /\ Nth(puts[p], 2) = 0 /\ Nth(puts'[p], 1) = Target(p) /\ Nth(puts'[p], 2) = 0
    BY <1>0, <1>3, <1>4, <1>5, <1>27 DEF LinkTaken, Parent, AtPc, held
  <2>2. QED
    BY <1>2, <2>1 DEF Own, One
<1>28. QED
  BY <1>7, <1>8, <1>9, <1>10, <1>11, <1>13, <1>14, <1>15, <1>16, <1>17, <1>18, <1>19, <1>20, <1>21,
     <1>22, <1>23, <1>24, <1>25, <1>26, <1>27 DEF Step

-----------------------------------------------------------------------------
(* What iput() frees is nobody's. *)
LEMMA Freed ==
  ASSUME IInv, NEW p \in Procs, putting[p] = "free", NEW i, i = Nth(puts[p], 1)
  PROVE  /\ i \in Inodes /\ type[i] # "free" /\ i # ROOTINO /\ Links(i) = 0 /\ ref[i] = 1 /\ lock[i] = p
         /\ nlink[i] = 0 /\ Count(Owed, i) = 0
         /\ \A d \in Inodes, n \in Names : entry[d][n] # i
         /\ \A q \in Procs : /\ cwd[q] # i /\ fd[q] # i /\ at[q] # i /\ ip[q] # i
                             /\ Nth(puts[q], 1) = i => q = p
                             /\ Nth(puts[q], 2) # i
<1>1. Types /\ Shape /\ RefsCounted
  BY DEF IInv, RInv
<1>2. i \in Inodes /\ i = Head(puts[p])
  BY <1>1, PutRange DEF Shape, Fits
<1>3. type[i] # "free" /\ nlink[i] = 0 /\ ref[i] = 1
  BY <1>2, InodesRange DEF IInv, Kept, Keeps, Freeing
<1>4. lock[i] = p
  BY <1>2 DEF IInv, Locks, HoldsLock
<1>5. /\ i # ROOTINO /\ Links(i) = 0 /\ Count(Owed, i) = 0
      /\ \A d \in Inodes, n \in Names : entry[d][n] # i
  BY <1>2, <1>3, UnlinkedBare
<1>6. \A q \in Procs : /\ cwd[q] # i /\ fd[q] # i /\ at[q] # i /\ ip[q] # i
                       /\ Nth(puts[q], 1) = i => q = p
                       /\ Nth(puts[q], 2) # i
  BY <1>1, <1>2, <1>3, SoleRef
<1>7. QED
  BY <1>2, <1>3, <1>4, <1>5, <1>6

(* Who changes the type of an inode. *)
LEMMA TypeMoves ==
  ASSUME IInv, NEW p \in Procs, Step(p)
  PROVE  \/ type' = type
         \/ CreateNew(p) /\ \E i \in Inodes : type[i] = "free" /\ type' = [type EXCEPT ![i] = Made(p)]
         \/ IputFree(p) /\ type' = [type EXCEPT ![Nth(puts[p], 1)] = "free"]
<1> USE DEF disk
<1>1. CASE IputFree(p)
  <2>1. Head(puts[p]) = Nth(puts[p], 1)
    BY <1>1, PutRange DEF IputFree, IInv, RInv, Shape, Fits
  <2>2. type' = [type EXCEPT ![Head(puts[p])] = "free"]
    BY <1>1 DEF IputFree
  <2>3. QED
    BY <1>1, <2>1, <2>2
<1>2. CASE CreateNew(p)
  BY <1>2 DEF CreateNew
<1>3. CASE IputCheck(p) \/ IputDrop(p) \/ Close(p) \/ WalkEnd(p) \/ WalkDown(p) \/ WalkFails(p)
  BY <1>3 DEF IputCheck, IputDrop, Close, WalkEnd, WalkDown, WalkFails
<1>4. CASE \E op, path, new : Begin(p, op, path, new)
  BY <1>4 DEF Begin
<1>5. CASE Open(p) \/ OpenFails(p) \/ Chdir(p) \/ CreateExisting(p) \/ Existing(p) \/ Created(p)
  BY <1>5 DEF Open, OpenFails, Chdir, CreateExisting, Existing, Created
<1>6. CASE UnlinkMissing(p) \/ UnlinkFind(p) \/ UnlinkNotEmpty(p) \/ UnlinkBad(p) \/ UnlinkErase(p) \/ UnlinkDone(p)
  BY <1>6 DEF UnlinkMissing, UnlinkFind, UnlinkNotEmpty, UnlinkBad, UnlinkErase, UnlinkDone
<1>7. CASE LinkOldIsDir(p) \/ LinkOld(p) \/ LinkNew(p) \/ LinkTaken(p) \/ LinkDup(p) \/ LinkBad(p)
  BY <1>7 DEF LinkOldIsDir, LinkOld, LinkNew, LinkTaken, LinkDup, LinkBad
<1>8. QED
  BY <1>1, <1>2, <1>3, <1>4, <1>5, <1>6, <1>7 DEF Step

(* An allocated inode is what it was, but for the one that is freed. *)
LEMMA TypeStays ==
  ASSUME IInv, NEW p \in Procs, Step(p), NEW x \in Inodes, type[x] # "free",
         putting[p] = "free" => x # Nth(puts[p], 1)
  PROVE  type'[x] = type[x]
<1>1. type \in [Inodes -> {"free", "dir", "file"}]
  BY DEF IInv, RInv, Types
<1>2. CASE type' = type
  BY <1>2
<1>3. CASE \E i \in Inodes : type[i] = "free" /\ type' = [type EXCEPT ![i] = Made(p)]
  BY <1>1, <1>3
<1>4. CASE IputFree(p) /\ type' = [type EXCEPT ![Nth(puts[p], 1)] = "free"]
  BY <1>1, <1>4 DEF IputFree
<1>5. QED
  BY <1>2, <1>3, <1>4, TypeMoves

(* Where an entry other than ".." leads. *)
LEMMA EntryKept ==
  ASSUME IInv, NEW d \in Inodes, type[d] = "dir", NEW n \in AllNames \ {".."}, entry[d][n] # 0
  PROVE  /\ entry[d][n] \in Inodes /\ type[entry[d][n]] # "free"
         /\ n \in Names \/ (n = "." /\ entry[d][n] = d)
<1>1. entry[d][n] \in Inodes
  BY DEF IInv, RInv, Types
<1>2. n \in Names \/ n = "."
  BY DEF AllNames, Dots
<1>3. CASE n \in Names
  BY <1>1, <1>3 DEF IInv, Tree
<1>4. CASE n = "."
  <2>1. entry[d][n] = d
    BY <1>4 DEF IInv, Tree
  <2>2. QED
    BY <1>1, <1>4, <2>1
<1>5. QED
  BY <1>2, <1>3, <1>4

(* The name that a process is at. *)
LEMMA AtName ==
  ASSUME IInv, NEW p \in Procs, todo[p] # <<>>
  PROVE  Head(todo[p]) \in AllNames \ {".."} /\ DotFree(Tail(todo[p]))
<1>1. PICK s : s = todo[p]
  OBVIOUS
<1>2. s \in Seq(AllNames) /\ s # <<>> /\ DotFree(s)
  BY <1>1 DEF IInv, RInv, Types, Tree
<1>3. Head(s) \in AllNames /\ Tail(s) \in Seq(AllNames) /\ Len(Tail(s)) = Len(s) - 1
      /\ \A k \in 1..Len(Tail(s)) : Tail(s)[k] = s[k + 1]
  BY <1>2, HeadTailProperties
<1>4. Len(s) \in Nat /\ Len(s) # 0 /\ DOMAIN s = 1..Len(s) /\ Head(s) = s[1]
  BY <1>2, EmptySeq, LenProperties, HeadTailProperties
<1>5. Head(s) # ".."
  <2>1. 1 \in 1..Len(s)
    BY <1>4
  <2>2. QED
    BY <1>2, <1>4, <2>1 DEF DotFree
<1>6. DotFree(Tail(s))
  <2>1. DOMAIN Tail(s) = 1..Len(Tail(s))
    BY <1>3, LenProperties
  <2>2. ASSUME NEW k \in 1..Len(Tail(s)) PROVE Tail(s)[k] # ".."
    <3>1. k + 1 \in 1..Len(s)
      BY <1>3, <1>4
    <3>2. QED
      BY <1>2, <1>3, <1>4, <3>1 DEF DotFree
  <2>3. QED
    BY <2>1, <2>2 DEF DotFree
<1>7. QED
  BY <1>1, <1>3, <1>5, <1>6

-----------------------------------------------------------------------------
(* A process at rest refers to its directory and its open file. *)
LEMMA ReturnKeeps ==
  ASSUME Types, Types', Shape, NEW p \in Procs, NEW s, Return(p, s), puts[p] = <<>>, UNCHANGED putting,
         type'[cwd'[p]] = "dir", fd'[p] # 0 => type'[fd'[p]] # "free",
         Nth(s, 1) # 0 => type'[Nth(s, 1)] # "free", Nth(s, 2) # 0 => type'[Nth(s, 2)] # "free"
  PROVE  Keeps(p)'
<1>1. pc'[p] = "idle" /\ at'[p] = 0 /\ ip'[p] = 0 /\ puts'[p] = s
  BY DEF Return, Types
<1>2. QED
  BY <1>1 DEF Keeps, InLink, AtDir

LEMMA KeptStep ==
  ASSUME IInv, NEW p \in Procs, Step(p)
  PROVE  Kept'
<1>0. Types /\ Types' /\ Shape /\ Fits(p) /\ Alone(p) /\ Kept /\ Keeps(p) /\ 0 \notin Inodes /\ ROOTINO \in Inodes
  BY StepAlone, TypesStep, InodesRange DEF IInv, RInv, Shape, Kept
<1>s. ASSUME NEW x \in Inodes, type[x] # "free", putting[p] = "free" => x # Nth(puts[p], 1)
      PROVE  type'[x] = type[x]
  BY <1>s, TypeStays
<1>a. ASSUME NEW q \in Procs \ {p} PROVE Keeps(q)'
  <2>1. /\ Keeps(q) /\ cwd[q] \in Inodes /\ fd[q] \in Inodes \cup {0} /\ at[q] \in Inodes \cup {0}
        /\ ip[q] \in Inodes \cup {0} /\ Nth(puts[q], 1) \in Inodes \cup {0} /\ Nth(puts[q], 2) \in Inodes \cup {0}
    BY <1>0, PutRange DEF Kept, Types
  <2>2. /\ pc'[q] = pc[q] /\ call'[q] = call[q] /\ at'[q] = at[q] /\ ip'[q] = ip[q]
        /\ puts'[q] = puts[q] /\ putting'[q] = putting[q] /\ cwd'[q] = cwd[q] /\ fd'[q] = fd[q]
    BY <1>0 DEF Alone
  <2>3. /\ type'[cwd[q]] = "dir"
        /\ fd[q] # 0 => type'[fd[q]] # "free"
        /\ at[q] # 0 => type'[at[q]] = type[at[q]] /\ type[at[q]] # "free"
        /\ ip[q] # 0 => type'[ip[q]] = type[ip[q]] /\ type[ip[q]] # "free"
        /\ Nth(puts[q], 1) # 0 /\ putting[q] # "drop" => type'[Nth(puts[q], 1)] # "free"
        /\ Nth(puts[q], 2) # 0 => type'[Nth(puts[q], 2)] # "free"
    <3>1. CASE putting[p] = "free"
      <4>1. /\ cwd[q] # Nth(puts[p], 1) /\ fd[q] # Nth(puts[p], 1) /\ at[q] # Nth(puts[p], 1)
            /\ ip[q] # Nth(puts[p], 1) /\ Nth(puts[q], 1) # Nth(puts[p], 1) /\ Nth(puts[q], 2) # Nth(puts[p], 1)
        BY <3>1, Freed
      <4>2. QED
        BY <1>s, <2>1, <4>1 DEF Keeps
    <3>2. CASE putting[p] # "free"
      BY <1>s, <2>1, <3>2 DEF Keeps
    <3>3. QED
      BY <3>1, <3>2
  <2>4. at[q] # 0 <=> pc[q] \in {"walk", "walk2"} \cup AtDir
    BY <1>0 DEF Shape, Fits
  <2>5. InLink(q) => ip[q] # 0
    BY <1>0 DEF Shape, Fits
  <2>6. QED
    BY <2>1, <2>2, <2>3, <2>4, <2>5 DEF Keeps, InLink
<1>b. SUFFICES Keeps(p)'
  BY <1>a DEF Kept
<1> USE DEF Types
<1>c. puts[p] = <<>> => putting[p] = "check" /\ Nth(puts[p], 1) = 0 /\ Nth(puts[p], 2) = 0
  BY <1>0, NthLemma DEF Fits
<1>d. ASSUME putting[p] # "free"
      PROVE  /\ type'[cwd[p]] = "dir" /\ type'[ROOTINO] = "dir"
             /\ fd[p] # 0 => type'[fd[p]] # "free"
             /\ at[p] # 0 => type'[at[p]] = type[at[p]] /\ type[at[p]] # "free"
             /\ ip[p] # 0 => type'[ip[p]] = type[ip[p]] /\ type[ip[p]] # "free"
             /\ Nth(puts[p], 1) # 0 /\ putting[p] # "drop" => type'[Nth(puts[p], 1)] # "free"
             /\ Nth(puts[p], 2) # 0 => type'[Nth(puts[p], 2)] # "free"
  <2>1. type[ROOTINO] = "dir"
    BY DEF IInv, Tree
  <2>2. Nth(puts[p], 1) \in Inodes \cup {0} /\ Nth(puts[p], 2) \in Inodes \cup {0}
    BY <1>0, PutRange
  <2>3. ASSUME NEW x \in Inodes, type[x] # "free" PROVE type'[x] = type[x]
    BY <1>s, <1>d, <2>3
  <2>4. type'[cwd[p]] = "dir" /\ type'[ROOTINO] = "dir"
    BY <1>0, <2>1, <2>3 DEF Keeps
  <2>5. /\ fd[p] # 0 => type'[fd[p]] # "free"
        /\ at[p] # 0 => type'[at[p]] = type[at[p]] /\ type[at[p]] # "free"
        /\ ip[p] # 0 => type'[ip[p]] = type[ip[p]] /\ type[ip[p]] # "free"
    <3>1. fd[p] \in Inodes \cup {0} /\ at[p] \in Inodes \cup {0} /\ ip[p] \in Inodes \cup {0}
      BY <1>0
    <3>2. /\ fd[p] # 0 => type[fd[p]] # "free"
          /\ at[p] # 0 => type[at[p]] # "free"
          /\ ip[p] # 0 => type[ip[p]] # "free"
      BY <1>0 DEF Keeps
    <3>3. QED
      BY <2>3, <3>1, <3>2
  <2>6. /\ Nth(puts[p], 1) # 0 /\ putting[p] # "drop" => type'[Nth(puts[p], 1)] # "free"
        /\ Nth(puts[p], 2) # 0 => type'[Nth(puts[p], 2)] # "free"
    BY <1>0, <2>2, <2>3 DEF Keeps
  <2>7. QED
    BY <2>4, <2>5, <2>6
<1>e. ASSUME NEW x PROVE Nth(<<x>>, 1) = x /\ Nth(<<x>>, 2) = 0 /\ Nth(<<>>, 1) = 0 /\ Nth(<<>>, 2) = 0
  BY NthLemma
<1>f. at[p] # 0 <=> pc[p] \in {"walk", "walk2"} \cup AtDir
  BY <1>0 DEF Fits
<1>g. ip[p] # 0 <=> InLink(p) \/ pc[p] \in {"existing", "created", "victim", "unlinked"}
  BY <1>0 DEF Fits
<1>1. CASE IputCheck(p)
  <2>1. /\ putting[p] = "check" /\ UNCHANGED <<type, pc, call, at, ip, puts, cwd, fd>>
    BY <1>1 DEF IputCheck, disk, held
  <2>2. QED
    BY <1>0, <2>1 DEF Keeps, InLink
<1>2. CASE IputFree(p)
  <2>1. putting[p] = "free" /\ putting'[p] = "drop" /\ UNCHANGED <<pc, call, at, ip, puts, cwd, fd>>
    BY <1>0, <1>2 DEF IputFree, held
  <2>2. /\ cwd[p] # Nth(puts[p], 1) /\ fd[p] # Nth(puts[p], 1) /\ at[p] # Nth(puts[p], 1)
        /\ ip[p] # Nth(puts[p], 1) /\ Nth(puts[p], 2) # Nth(puts[p], 1)
    BY <2>1, Freed
  <2>3. Nth(puts[p], 2) \in Inodes \cup {0}
    BY <1>0, PutRange
  <2>4. /\ type'[cwd[p]] = "dir"
        /\ fd[p] # 0 => type'[fd[p]] # "free"
        /\ at[p] # 0 => type'[at[p]] = type[at[p]] /\ type[at[p]] # "free"
        /\ ip[p] # 0 => type'[ip[p]] = type[ip[p]] /\ type[ip[p]] # "free"
        /\ Nth(puts[p], 2) # 0 => type'[Nth(puts[p], 2)] # "free"
    BY <1>0, <1>s, <2>2, <2>3 DEF Keeps
  <2>5. QED
    BY <1>0, <1>f, <1>g, <2>1, <2>4 DEF Keeps, InLink
<1>3. CASE IputDrop(p)
  <2>1. /\ puts[p] # <<>> /\ putting[p] = "drop" /\ puts'[p] = Tail(puts[p])
        /\ UNCHANGED <<pc, call, at, ip, cwd, fd>>
    BY <1>0, <1>3 DEF IputDrop, disk, held, Fits
  <2>2. Nth(puts'[p], 1) = Nth(puts[p], 2) /\ Nth(puts'[p], 2) = 0
    BY <1>0, <2>1, NthTail DEF Fits
  <2>3. QED
    BY <1>0, <1>d, <1>f, <1>g, <2>1, <2>2 DEF Keeps, InLink
<1>4. ASSUME NEW op, NEW path, NEW new, Begin(p, op, path, new) PROVE Keeps(p)'
  <2>1. /\ pc[p] = "idle" /\ puts[p] = <<>> /\ pc'[p] = "walk" /\ at'[p] = Start(p, path)
        /\ UNCHANGED <<ip, puts, putting, cwd, fd>>
    BY <1>0, <1>4 DEF Begin, AtPc, held
  <2>2. Start(p, path) \in {ROOTINO, cwd[p]} /\ ip[p] = 0
    BY <1>g, <2>1 DEF Start, InLink
  <2>3. QED
    BY <1>c, <1>d, <2>1, <2>2 DEF Keeps, InLink, AtDir
<1>5. CASE Close(p)
  <2>1. /\ pc[p] = "idle" /\ puts[p] = <<>> /\ fd[p] # 0 /\ fd'[p] = 0 /\ puts'[p] = <<fd[p]>>
        /\ UNCHANGED <<pc, call, at, ip, putting, cwd>>
    BY <1>0, <1>5 DEF Close, AtPc
  <2>2. Nth(puts'[p], 1) = fd[p] /\ Nth(puts'[p], 2) = 0
    BY <1>e, <2>1
  <2>3. QED
    BY <1>c, <1>d, <1>f, <1>g, <2>1, <2>2 DEF Keeps, InLink, AtDir
<1>6. CASE WalkEnd(p)
  <2>1. /\ puts[p] = <<>> /\ pc[p] \in {"walk", "walk2"} /\ ToParent(p) /\ type[at[p]] = "dir" /\ pc'[p] = "parent"
        /\ UNCHANGED <<call, at, ip, puts, putting, cwd, fd>>
    BY <1>0, <1>6 DEF WalkEnd, Walking, AtPc, held
  <2>2. InLink(p)' => InLink(p)
    BY <2>1 DEF InLink, ToParent, Doing
  <2>3. InLink(p)' => type'[ip[p]] = "file"
    BY <1>0, <1>c, <1>d, <1>g, <2>1, <2>2 DEF Keeps
  <2>4. QED
    BY <1>c, <1>d, <1>f, <2>1, <2>3 DEF Keeps
<1>7. CASE WalkDown(p)
  <2>1. /\ puts[p] = <<>> /\ pc[p] \in {"walk", "walk2"} /\ todo[p] # <<>> /\ type[at[p]] = "dir"
        /\ puts'[p] = <<at[p]>> /\ UNCHANGED <<pc, call, ip, putting, cwd, fd>>
    BY <1>0, <1>7 DEF WalkDown, Walking, AtPc, held
  <2>2. PICK next : next = entry[at[p]][Head(todo[p])] /\ next # 0 /\ at'[p] = next
    BY <1>0, <1>7 DEF WalkDown
  <2>3. next \in Inodes /\ type[next] # "free"
    <3>1. at[p] \in Inodes
      BY <1>0, <1>f, <2>1
    <3>2. Head(todo[p]) \in AllNames \ {".."}
      BY <2>1, AtName
    <3>3. QED
      BY <2>1, <2>2, <3>1, <3>2, EntryKept
  <2>4. Nth(puts'[p], 1) = at[p] /\ Nth(puts'[p], 2) = 0
    BY <1>e, <2>1
  <2>5. type'[next] # "free"
    BY <1>c, <1>s, <2>1, <2>3
  <2>6. InLink(p)' => type'[ip[p]] = "file"
    BY <1>0, <1>c, <1>d, <1>g, <2>1 DEF Keeps, InLink
  <2>7. QED
    BY <1>c, <1>d, <1>f, <2>1, <2>2, <2>4, <2>5, <2>6 DEF Keeps, AtDir
<1>8. CASE WalkFails(p)
  <2>1. puts[p] = <<>> /\ pc[p] \in {"walk", "walk2"} /\ at[p] # 0 /\ UNCHANGED <<putting, cwd, fd>>
    BY <1>f, <1>8 DEF WalkFails, Walking, AtPc, held
  <2>2. CASE pc[p] = "walk2"
    <3>1. pc'[p] = "bad" /\ puts'[p] = <<at[p]>> /\ at'[p] = 0 /\ UNCHANGED <<call, ip>>
      BY <1>0, <1>8, <2>2 DEF WalkFails
    <3>2. InLink(p)' => type'[ip[p]] = "file"
      BY <1>0, <1>c, <1>d, <1>g, <2>1, <2>2, <3>1 DEF Keeps, InLink
    <3>3. Nth(puts'[p], 1) = at[p] /\ Nth(puts'[p], 2) = 0
      BY <1>e, <3>1
    <3>4. QED
      BY <1>c, <1>d, <2>1, <3>1, <3>2, <3>3 DEF Keeps, AtDir
  <2>3. CASE pc[p] # "walk2"
    <3>1. Return(p, <<at[p]>>)
      BY <1>8, <2>3 DEF WalkFails
    <3>2. QED
      BY <1>0, <1>c, <1>d, <1>e, <2>1, <3>1, ReturnKeeps
  <2>4. QED
    BY <2>2, <2>3
<1>9. CASE Open(p) \/ OpenFails(p) \/ LinkOldIsDir(p)
  <2>1. puts[p] = <<>> /\ pc[p] = "walk" /\ at[p] # 0 /\ UNCHANGED <<putting, cwd>>
    BY <1>f, <1>9 DEF Open, OpenFails, LinkOldIsDir, Found, AtPc, held
  <2>2. fd'[p] \in {at[p], fd[p]} /\ (Return(p, <<at[p]>>) \/ Return(p, <<>>))
    BY <1>0, <1>9 DEF Open, OpenFails, LinkOldIsDir, held
  <2>3. QED
    BY <1>0, <1>c, <1>d, <1>e, <2>1, <2>2, ReturnKeeps
<1>10. CASE Chdir(p)
  <2>1. puts[p] = <<>> /\ pc[p] = "walk" /\ at[p] # 0 /\ UNCHANGED <<putting, fd>>
    BY <1>f, <1>10 DEF Chdir, Found, AtPc
  <2>2. \/ cwd'[p] = at[p] /\ type[at[p]] = "dir" /\ Return(p, <<cwd[p]>>)
        \/ cwd'[p] = cwd[p] /\ Return(p, <<at[p]>>)
    BY <1>0, <1>10 DEF Chdir
  <2>3. QED
    BY <1>0, <1>c, <1>d, <1>e, <2>1, <2>2, ReturnKeeps
<1>h. ASSUME pc[p] \in {"parent", "victim"}
      PROVE  /\ todo[p] # <<>> /\ at[p] # 0 /\ at[p] \in Inodes /\ type[at[p]] = "dir"
             /\ Target(p) # 0 => Target(p) \in Inodes /\ type[Target(p)] # "free"
  <2>1. todo[p] # <<>> /\ at[p] # 0 /\ at[p] \in Inodes /\ type[at[p]] = "dir"
    <3>1. at[p] \in Inodes \cup {0}
      BY <1>0
    <3>2. todo[p] # <<>>
      BY <1>0, <1>h DEF Fits
    <3>3. type[at[p]] = "dir"
      BY <1>0, <1>h DEF Keeps, AtDir
    <3>4. QED
      BY <1>f, <1>h, <3>1, <3>2, <3>3 DEF AtDir
  <2>2. QED
    BY <2>1, AtName, EntryKept DEF Target, LastName
<1>11. CASE CreateExisting(p)
  <2>1. /\ puts[p] = <<>> /\ pc[p] = "parent" /\ Target(p) # 0 /\ call[p].op \in {"create", "mkdir"}
        /\ pc'[p] = "existing" /\ ip'[p] = Target(p) /\ at'[p] = 0 /\ puts'[p] = <<at[p]>>
        /\ UNCHANGED <<call, putting, cwd, fd>>
    BY <1>0, <1>11 DEF CreateExisting, Parent, AtPc, Doing, held
  <2>2. Nth(puts'[p], 1) = at[p] /\ Nth(puts'[p], 2) = 0 /\ type'[Target(p)] # "free"
    BY <1>c, <1>e, <1>h, <1>s, <2>1
  <2>3. QED
    BY <1>c, <1>d, <1>h, <2>1, <2>2 DEF Keeps, InLink, AtDir
<1>12. CASE Existing(p) \/ Created(p)
  <2>1. puts[p] = <<>> /\ pc[p] \in {"existing", "created"} /\ UNCHANGED <<putting, cwd>>
    BY <1>12 DEF Existing, Created, AtPc
  <2>2. fd'[p] \in {ip[p], fd[p]} /\ (Return(p, <<ip[p]>>) \/ Return(p, <<>>)) /\ ip[p] # 0
    BY <1>0, <1>g, <1>12, <2>1 DEF Existing, Created
  <2>3. QED
    BY <1>0, <1>c, <1>d, <1>e, <2>1, <2>2, ReturnKeeps
<1>13. CASE CreateNew(p)
  <2>5. PICK i \in Inodes : type' = [type EXCEPT ![i] = Made(p)] /\ ip' = [ip EXCEPT ![p] = i]
    BY <1>13 DEF CreateNew
  <2>1. type' = [type EXCEPT ![i] = Made(p)] /\ ip'[p] = i
    BY <1>0, <2>5
  <2>2. /\ puts[p] = <<>> /\ pc[p] = "parent" /\ pc'[p] = "created" /\ at'[p] = 0 /\ puts'[p] = <<at[p]>>
        /\ UNCHANGED <<call, putting, cwd, fd>>
    BY <1>0, <1>13 DEF CreateNew, Parent, AtPc, held
  <2>3. Nth(puts'[p], 1) = at[p] /\ Nth(puts'[p], 2) = 0 /\ type'[i] # "free"
    BY <1>0, <1>e, <2>1, <2>2 DEF Made
  <2>4. QED
    BY <1>c, <1>d, <1>h, <2>1, <2>2, <2>3 DEF Keeps, InLink, AtDir
<1>14. CASE UnlinkMissing(p) \/ UnlinkBad(p)
  <2>1. puts[p] = <<>> /\ pc[p] \in {"parent", "notempty"} /\ UNCHANGED <<putting, cwd, fd>> /\ Return(p, <<at[p]>>)
    BY <1>14 DEF UnlinkMissing, UnlinkBad, Parent, AtPc, held
  <2>2. at[p] # 0
    BY <1>f, <2>1 DEF AtDir
  <2>3. QED
    BY <1>0, <1>c, <1>d, <1>e, <2>1, <2>2, ReturnKeeps
<1>15. CASE UnlinkFind(p)
  <2>1. /\ puts[p] = <<>> /\ pc[p] = "parent" /\ Target(p) # 0 /\ pc'[p] = "victim" /\ ip'[p] = Target(p)
        /\ UNCHANGED <<call, at, puts, putting, cwd, fd>>
    BY <1>0, <1>15 DEF UnlinkFind, Parent, AtPc, held
  <2>2. type'[Target(p)] # "free"
    BY <1>c, <1>h, <1>s, <2>1
  <2>3. QED
    BY <1>c, <1>d, <1>h, <2>1, <2>2 DEF Keeps, InLink, AtDir
<1>16. CASE UnlinkNotEmpty(p)
  <2>1. /\ puts[p] = <<>> /\ pc[p] = "victim" /\ pc'[p] = "notempty" /\ ip'[p] = 0 /\ puts'[p] = <<ip[p]>>
        /\ UNCHANGED <<call, at, putting, cwd, fd>>
    BY <1>0, <1>16 DEF UnlinkNotEmpty, AtPc, held
  <2>2. Nth(puts'[p], 1) = ip[p] /\ Nth(puts'[p], 2) = 0 /\ ip[p] # 0
    BY <1>e, <1>g, <2>1
  <2>3. QED
    BY <1>c, <1>d, <1>h, <2>1, <2>2 DEF Keeps, InLink, AtDir
<1>17. CASE UnlinkErase(p)
  <2>1. /\ puts[p] = <<>> /\ pc[p] = "victim" /\ pc'[p] = "unlinked" /\ at'[p] = 0 /\ puts'[p] = <<at[p]>>
        /\ UNCHANGED <<call, ip, putting, cwd, fd>>
    BY <1>0, <1>17 DEF UnlinkErase, AtPc, held
  <2>2. Nth(puts'[p], 1) = at[p] /\ Nth(puts'[p], 2) = 0
    BY <1>e, <2>1
  <2>3. QED
    BY <1>c, <1>d, <1>h, <2>1, <2>2 DEF Keeps, InLink, AtDir
<1>18. CASE UnlinkDone(p) \/ LinkBad(p)
  <2>1. puts[p] = <<>> /\ pc[p] \in {"unlinked", "bad"} /\ UNCHANGED <<putting, cwd, fd>> /\ Return(p, <<ip[p]>>)
    BY <1>18 DEF UnlinkDone, LinkBad, AtPc, held
  <2>2. ip[p] # 0
    BY <1>g, <2>1 DEF InLink
  <2>3. QED
    BY <1>0, <1>c, <1>d, <1>e, <2>1, <2>2, ReturnKeeps
<1>19. CASE LinkOld(p)
  <2>1. /\ puts[p] = <<>> /\ pc[p] = "walk" /\ type[at[p]] # "dir" /\ pc'[p] = "walk2" /\ ip'[p] = at[p]
        /\ at'[p] = Start(p, call[p].new) /\ UNCHANGED <<call, puts, putting, cwd, fd>>
    BY <1>0, <1>19 DEF LinkOld, Found, AtPc, held
  <2>2. Start(p, call[p].new) \in {ROOTINO, cwd[p]}
    BY DEF Start
  <2>3. at[p] # 0 /\ type'[at[p]] = "file"
    <3>1. at[p] # 0
      BY <1>f, <2>1
    <3>2. at[p] \in Inodes /\ type[at[p]] # "free" /\ type'[at[p]] = type[at[p]]
      BY <1>0, <1>c, <1>d, <2>1, <3>1
    <3>3. type[at[p]] \in {"free", "dir", "file"}
      BY <1>0, <3>2
    <3>4. QED
      BY <2>1, <3>1, <3>2, <3>3
  <2>4. QED
    BY <1>c, <1>d, <2>1, <2>2, <2>3 DEF Keeps, InLink, AtDir
<1>i. ASSUME InLink(p), putting[p] # "free" PROVE ip[p] # 0 /\ type'[ip[p]] = "file"
  BY <1>0, <1>d, <1>g, <1>i DEF Keeps
<1>20. CASE LinkNew(p)
  <2>1. /\ puts[p] = <<>> /\ pc[p] = "parent" /\ call[p].op = "link" /\ UNCHANGED <<putting, cwd, fd>>
        /\ Return(p, <<at[p], ip[p]>>)
    BY <1>20 DEF LinkNew, Parent, AtPc, Doing, held
  <2>2. Nth(<<at[p], ip[p]>>, 1) = at[p] /\ Nth(<<at[p], ip[p]>>, 2) = ip[p]
    BY NthLemma
  <2>3. at[p] # 0 /\ type'[ip[p]] # "free"
    BY <1>c, <1>h, <1>i, <2>1 DEF InLink
  <2>4. /\ type'[at[p]] # "free" /\ type'[cwd'[p]] = "dir"
        /\ fd'[p] # 0 => type'[fd'[p]] # "free"
    BY <1>c, <1>d, <2>1, <2>3
  <2>5. QED
    BY <1>0, <1>c, <2>1, <2>2, <2>3, <2>4, ReturnKeeps
<1>21. CASE LinkTaken(p)
  <2>1. /\ puts[p] = <<>> /\ pc[p] = "parent" /\ call[p].op = "link" /\ Target(p) # 0 /\ pc'[p] = "linkdup"
        /\ puts'[p] = <<Target(p)>> /\ UNCHANGED <<call, at, ip, putting, cwd, fd>>
    BY <1>0, <1>21 DEF LinkTaken, Parent, AtPc, Doing, held
  <2>2. Nth(puts'[p], 1) = Target(p) /\ Nth(puts'[p], 2) = 0 /\ type'[Target(p)] # "free"
    BY <1>c, <1>e, <1>h, <1>s, <2>1
  <2>3. ip[p] # 0 /\ type'[ip[p]] = "file"
    BY <1>c, <1>i, <2>1 DEF InLink
  <2>4. QED
    BY <1>c, <1>d, <1>h, <2>1, <2>2, <2>3 DEF Keeps
<1>22. CASE LinkDup(p)
  <2>1. /\ puts[p] = <<>> /\ pc[p] = "linkdup" /\ pc'[p] = "bad" /\ at'[p] = 0 /\ puts'[p] = <<at[p]>>
        /\ UNCHANGED <<call, ip, putting, cwd, fd>>
    BY <1>0, <1>22 DEF LinkDup, AtPc, held
  <2>2. Nth(puts'[p], 1) = at[p] /\ Nth(puts'[p], 2) = 0 /\ at[p] # 0
    BY <1>e, <1>f, <2>1 DEF AtDir
  <2>3. ip[p] # 0 /\ type'[ip[p]] = "file"
    BY <1>c, <1>i, <2>1 DEF InLink
  <2>4. QED
    BY <1>c, <1>d, <2>1, <2>2, <2>3 DEF Keeps, AtDir
<1>23. QED
  BY <1>1, <1>2, <1>3, <1>4, <1>5, <1>6, <1>7, <1>8, <1>9, <1>10, <1>11, <1>12, <1>13, <1>14,
     <1>15, <1>16, <1>17, <1>18, <1>19, <1>20, <1>21, <1>22 DEF Step

-----------------------------------------------------------------------------
(* Who changes the tree, and how. *)
LEMMA EntryMoves ==
  ASSUME IInv, NEW p \in Procs, Step(p)
  PROVE  \/ UNCHANGED <<type, entry>>
         \/ IputFree(p) \/ CreateNew(p) \/ UnlinkErase(p) \/ LinkNew(p)
<1> USE DEF disk
<1>1. CASE IputCheck(p) \/ IputDrop(p) \/ Close(p) \/ WalkEnd(p) \/ WalkDown(p) \/ WalkFails(p)
  BY <1>1 DEF IputCheck, IputDrop, Close, WalkEnd, WalkDown, WalkFails
<1>2. CASE \E op, path, new : Begin(p, op, path, new)
  BY <1>2 DEF Begin
<1>3. CASE Open(p) \/ OpenFails(p) \/ Chdir(p) \/ CreateExisting(p) \/ Existing(p) \/ Created(p)
  BY <1>3 DEF Open, OpenFails, Chdir, CreateExisting, Existing, Created
<1>4. CASE UnlinkMissing(p) \/ UnlinkFind(p) \/ UnlinkNotEmpty(p) \/ UnlinkBad(p) \/ UnlinkDone(p)
  BY <1>4 DEF UnlinkMissing, UnlinkFind, UnlinkNotEmpty, UnlinkBad, UnlinkDone
<1>5. CASE LinkOldIsDir(p) \/ LinkOld(p) \/ LinkTaken(p) \/ LinkDup(p) \/ LinkBad(p)
  BY <1>5 DEF LinkOldIsDir, LinkOld, LinkTaken, LinkDup, LinkBad
<1>6. QED
  BY <1>1, <1>2, <1>3, <1>4, <1>5 DEF Step

(* Each of them, in full. *)
LEMMA FreeEffect ==
  ASSUME IInv, NEW p \in Procs, IputFree(p)
  PROVE  \E i \in Inodes :
           /\ i = Nth(puts[p], 1) /\ putting[p] = "free"
           /\ type' = [type EXCEPT ![i] = "free"] /\ UNCHANGED <<nlink, ref, pc, call, at, todo, ip>>
           /\ \A d \in Inodes, n \in AllNames : entry'[d][n] = IF d = i THEN 0 ELSE entry[d][n]
<1>1. PICK i : i = Head(puts[p])
  OBVIOUS
<1>2. i \in Inodes /\ i = Nth(puts[p], 1) /\ putting[p] = "free"
  BY <1>1, PutRange DEF IputFree, IInv, RInv, Shape, Fits
<1>3. type' = [type EXCEPT ![i] = "free"] /\ entry' = [entry EXCEPT ![i] = [n \in AllNames |-> 0]]
      /\ UNCHANGED <<nlink, ref, pc, call, at, todo, ip>>
  BY <1>1 DEF IputFree
<1>4. \A d \in Inodes, n \in AllNames : entry'[d][n] = IF d = i THEN 0 ELSE entry[d][n]
  BY <1>2, <1>3 DEF IInv, RInv, Types
<1>5. QED
  BY <1>2, <1>3, <1>4

(* The directory and the name of a new entry: the name is not taken.        *)
LEMMA NewName ==
  ASSUME IInv, NEW p \in Procs, pc[p] = "parent", Target(p) = 0
  PROVE  /\ at[p] \in Inodes /\ type[at[p]] = "dir" /\ todo[p] # <<>> /\ LastName(p) \in Names
         /\ entry[at[p]][LastName(p)] = 0
<1>1. at[p] \in Inodes /\ type[at[p]] = "dir" /\ todo[p] # <<>>
  BY DEF IInv, RInv, Types, Shape, Fits, Kept, Keeps, AtDir
<1>2. LastName(p) \in AllNames \ {".."}
  BY <1>1, AtName DEF LastName
<1>3. LastName(p) # "."
  BY <1>1, InodesRange DEF IInv, Tree, Target
<1>4. QED
  BY <1>1, <1>2, <1>3 DEF AllNames, Dots, Target

LEMMA CreateEffect ==
  ASSUME IInv, NEW p \in Procs, CreateNew(p)
  PROVE  \E i \in Inodes :
           /\ type[i] = "free" /\ lock[i] = Nobody /\ lock[at[p]] = Nobody /\ i # at[p]
           /\ pc[p] = "parent" /\ Target(p) = 0 /\ call[p].op \in {"create", "mkdir"} /\ puts[p] = <<>>
           /\ type' = [type EXCEPT ![i] = Made(p)] /\ Made(p) \in {"dir", "file"}
           /\ nlink'[i] = 1 /\ nlink'[at[p]] = IF Made(p) = "dir" THEN nlink[at[p]] + 1 ELSE nlink[at[p]]
           /\ \A x \in Inodes \ {i, at[p]} : nlink'[x] = nlink[x]
           /\ ref' = Gets(i)
           /\ \A d \in Inodes, n \in Names : entry'[d][n] = IF d = at[p] /\ n = LastName(p) THEN i ELSE entry[d][n]
           /\ entry'[i]["."] = IF Made(p) = "dir" THEN i ELSE 0
           /\ \A d \in Inodes \ {i} : entry'[d]["."] = entry[d]["."]
           /\ pc'[p] = "created" /\ call' = call /\ ip'[p] = i /\ todo'[p] = <<>>
<1>0. Types
  BY DEF IInv, RInv
<1>1. PICK i \in Inodes :
        /\ type[i] = "free" /\ lock[i] = Nobody
        /\ type' = [type EXCEPT ![i] = Made(p)]
        /\ nlink' = [nlink EXCEPT ![i] = 1, ![at[p]] = IF Made(p) = "dir" THEN @ + 1 ELSE @]
        /\ entry' = [entry EXCEPT ![at[p]][LastName(p)] = i,
                                  ![i]["."] = IF Made(p) = "dir" THEN i ELSE 0,
                                  ![i][".."] = IF Made(p) = "dir" THEN at[p] ELSE 0]
        /\ ref' = Gets(i) /\ ip' = [ip EXCEPT ![p] = i]
  BY <1>0 DEF CreateNew
<1>2. /\ pc[p] = "parent" /\ Target(p) = 0 /\ call[p].op \in {"create", "mkdir"} /\ puts[p] = <<>>
      /\ lock[at[p]] = Nobody /\ pc'[p] = "created" /\ call' = call /\ todo'[p] = <<>>
  BY <1>0 DEF CreateNew, Parent, AtPc, Doing, Types
<1>3. at[p] \in Inodes /\ type[at[p]] = "dir" /\ LastName(p) \in Names /\ i # at[p]
  BY <1>1, <1>2, NewName
<1>4. Names \subseteq AllNames /\ "." \in AllNames /\ ".." \in AllNames /\ "." \notin Names /\ ".." \notin Names
  BY FsAssumption DEF AllNames, Dots
<1>5. /\ nlink'[i] = 1 /\ nlink'[at[p]] = IF Made(p) = "dir" THEN nlink[at[p]] + 1 ELSE nlink[at[p]]
      /\ \A x \in Inodes \ {i, at[p]} : nlink'[x] = nlink[x]
  BY <1>0, <1>1, <1>3 DEF Types
<1>6. \A d \in Inodes, n \in Names : entry'[d][n] = IF d = at[p] /\ n = LastName(p) THEN i ELSE entry[d][n]
  BY <1>0, <1>1, <1>3, <1>4 DEF Types
<1>7. entry'[i]["."] = IF Made(p) = "dir" THEN i ELSE 0
  BY <1>0, <1>1, <1>3, <1>4 DEF Types
<1>8. \A d \in Inodes \ {i} : entry'[d]["."] = entry[d]["."]
  BY <1>0, <1>1, <1>3, <1>4 DEF Types
<1>9. ip'[p] = i /\ Made(p) \in {"dir", "file"}
  BY <1>0, <1>1 DEF Types, Made
<1>10. QED
  BY <1>1, <1>2, <1>3, <1>5, <1>6, <1>7, <1>8, <1>9

LEMMA EraseEffect ==
  ASSUME IInv, NEW p \in Procs, UnlinkErase(p)
  PROVE  /\ pc[p] = "victim" /\ puts[p] = <<>> /\ at[p] \in Inodes /\ ip[p] \in Inodes /\ type[ip[p]] # "free"
         /\ LastName(p) \in Names /\ entry[at[p]][LastName(p)] = ip[p]
         /\ UNCHANGED <<type, ref, call, ip>> /\ pc'[p] = "unlinked" /\ todo'[p] = <<>>
         /\ nlink'[at[p]] = IF type[ip[p]] = "dir" THEN nlink[at[p]] - 1 ELSE nlink[at[p]]
         /\ \A x \in Inodes \ {at[p]} : nlink'[x] = nlink[x]
         /\ \A d \in Inodes, n \in AllNames :
              entry'[d][n] = IF d = at[p] /\ n = LastName(p) THEN 0 ELSE entry[d][n]
<1>1. pc[p] = "victim" /\ puts[p] = <<>> /\ UNCHANGED <<type, ref, call, ip>>
  BY DEF UnlinkErase, AtPc
<1>2. at[p] \in Inodes /\ ip[p] \in Inodes /\ type[ip[p]] # "free"
  BY <1>1 DEF IInv, RInv, Types, Shape, Fits, AtDir, Kept, Keeps
<1>3. LastName(p) \in Names /\ entry[at[p]][LastName(p)] = ip[p] /\ LastName(p) \in AllNames
  BY <1>1 DEF IInv, Tree, LastName, AllNames
<1>4. /\ pc' = [pc EXCEPT ![p] = "unlinked"] /\ todo' = [todo EXCEPT ![p] = <<>>]
      /\ nlink' = [nlink EXCEPT ![at[p]] = IF type[ip[p]] = "dir" THEN @ - 1 ELSE @]
      /\ entry' = [entry EXCEPT ![at[p]][LastName(p)] = 0]
  BY DEF UnlinkErase
<1>5. Types
  BY DEF IInv, RInv
<1>6. pc'[p] = "unlinked" /\ todo'[p] = <<>>
  BY <1>4, <1>5 DEF Types
<1>7. /\ nlink'[at[p]] = IF type[ip[p]] = "dir" THEN nlink[at[p]] - 1 ELSE nlink[at[p]]
      /\ \A x \in Inodes \ {at[p]} : nlink'[x] = nlink[x]
  BY <1>2, <1>4, <1>5 DEF Types
<1>8. \A d \in Inodes, n \in AllNames : entry'[d][n] = IF d = at[p] /\ n = LastName(p) THEN 0 ELSE entry[d][n]
  BY <1>2, <1>3, <1>4, <1>5 DEF Types
<1>9. QED
  BY <1>1, <1>2, <1>3, <1>6, <1>7, <1>8

LEMMA LinkEffect ==
  ASSUME IInv, NEW p \in Procs, LinkNew(p)
  PROVE  /\ pc[p] = "parent" /\ call[p].op = "link" /\ Target(p) = 0 /\ lock[at[p]] = Nobody /\ puts[p] = <<>>
         /\ ip[p] \in Inodes /\ type[ip[p]] = "file"
         /\ UNCHANGED <<type, nlink, ref>> /\ pc'[p] = "idle" /\ todo'[p] = <<>> /\ call'[p] = NoCall
         /\ \A d \in Inodes, n \in AllNames :
              entry'[d][n] = IF d = at[p] /\ n = LastName(p) THEN ip[p] ELSE entry[d][n]
<1>1. /\ pc[p] = "parent" /\ call[p].op = "link" /\ Target(p) = 0 /\ lock[at[p]] = Nobody /\ puts[p] = <<>>
      /\ UNCHANGED <<type, nlink, ref>> /\ Return(p, <<at[p], ip[p]>>)
      /\ entry' = [entry EXCEPT ![at[p]][LastName(p)] = ip[p]]
  BY DEF LinkNew, Parent, AtPc, Doing
<1>2. ip[p] \in Inodes /\ type[ip[p]] = "file"
  BY <1>1 DEF IInv, RInv, Types, Shape, Fits, InLink, Kept, Keeps
<1>3. at[p] \in Inodes /\ LastName(p) \in AllNames
  BY <1>1, NewName DEF AllNames
<1>4. Types
  BY DEF IInv, RInv
<1>5. pc'[p] = "idle" /\ todo'[p] = <<>> /\ call'[p] = NoCall
  BY <1>1, <1>4 DEF Types, Return
<1>6. \A d \in Inodes, n \in AllNames : entry'[d][n] = IF d = at[p] /\ n = LastName(p) THEN ip[p] ELSE entry[d][n]
  BY <1>1, <1>2, <1>3, <1>4 DEF Types
<1>7. QED
  BY <1>1, <1>2, <1>5, <1>6

-----------------------------------------------------------------------------
(* The paths that are being walked have no "..". *)
LEMMA DotsStep ==
  ASSUME \A path \in Paths : DotFree(path.names), IInv, NEW p \in Procs, Step(p)
  PROVE  DotFree(todo'[p]) /\ DotFree(call'[p].new.names)
<1>0. Types /\ DotFree(todo[p]) /\ DotFree(call[p].new.names) /\ DotFree(<<>>) /\ DotFree(NoCall.new.names)
  BY DEF IInv, RInv, Tree, DotFree, NoCall, NoPath
<1> USE DEF Types
<1>1. ASSUME NEW s, Return(p, s) PROVE todo'[p] = <<>> /\ call'[p] = NoCall
  BY <1>0, <1>1 DEF Return
<1>2. CASE IputCheck(p) \/ IputFree(p) \/ IputDrop(p) \/ Close(p) \/ WalkEnd(p)
  BY <1>0, <1>2 DEF IputCheck, IputFree, IputDrop, Close, WalkEnd
<1>3. ASSUME NEW op, NEW path \in Paths, NEW new \in Paths \cup {NoPath}, Begin(p, op, path, new)
      PROVE  DotFree(todo'[p]) /\ DotFree(call'[p].new.names)
  <2>1. todo'[p] = path.names /\ call'[p].new = new
    BY <1>0, <1>3 DEF Begin
  <2>2. DotFree(new.names)
    BY <1>0 DEF NoCall
  <2>3. QED
    BY <2>1, <2>2
<1>4. CASE WalkDown(p)
  <2>1. todo[p] # <<>> /\ todo'[p] = Tail(todo[p]) /\ call' = call
    BY <1>0, <1>4 DEF WalkDown, Walking
  <2>2. QED
    BY <1>0, <2>1, AtName
<1>5. CASE WalkFails(p)
  <2>1. CASE pc[p] = "walk2"
    BY <1>0, <1>5, <2>1 DEF WalkFails
  <2>2. CASE pc[p] # "walk2"
    BY <1>0, <1>1, <1>5, <2>2 DEF WalkFails
  <2>3. QED
    BY <2>1, <2>2
<1>6. CASE Open(p) \/ OpenFails(p) \/ Chdir(p) \/ Existing(p) \/ Created(p)
  BY <1>0, <1>1, <1>6 DEF Open, OpenFails, Chdir, Existing, Created
<1>7. CASE CreateExisting(p) \/ CreateNew(p) \/ UnlinkErase(p) \/ LinkDup(p)
  BY <1>0, <1>7 DEF CreateExisting, CreateNew, UnlinkErase, LinkDup
<1>8. CASE UnlinkMissing(p) \/ UnlinkBad(p) \/ UnlinkDone(p) \/ LinkOldIsDir(p) \/ LinkNew(p) \/ LinkBad(p)
  BY <1>0, <1>1, <1>8 DEF UnlinkMissing, UnlinkBad, UnlinkDone, LinkOldIsDir, LinkNew, LinkBad
<1>9. CASE UnlinkFind(p) \/ UnlinkNotEmpty(p) \/ LinkTaken(p)
  BY <1>0, <1>9 DEF UnlinkFind, UnlinkNotEmpty, LinkTaken
<1>10. CASE LinkOld(p)
  BY <1>0, <1>10 DEF LinkOld
<1>11. QED
  BY <1>2, <1>3, <1>4, <1>5, <1>6, <1>7, <1>8, <1>9, <1>10 DEF Step

(* A directory that another process has locked keeps its entries. *)
LEMMA EntryStays ==
  ASSUME IInv, NEW p \in Procs, Step(p), NEW q \in Procs \ {p}, NEW d \in Inodes, lock[d] = q, NEW n \in Names
  PROVE  entry'[d][n] = entry[d][n]
<1>0. Nobody \notin Procs /\ Names \subseteq AllNames
  BY FsAssumption DEF AllNames
<1>1. CASE UNCHANGED <<type, entry>>
  BY <1>1
<1>2. CASE IputFree(p)
  <2>1. lock[Nth(puts[p], 1)] = p
    BY <1>2, Freed DEF IputFree
  <2>2. QED
    BY <1>0, <1>2, <2>1, FreeEffect
<1>3. CASE CreateNew(p)
  BY <1>0, <1>3, CreateEffect
<1>4. CASE UnlinkErase(p)
  <2>1. pc[p] = "victim" /\ at[p] \in Inodes
    BY <1>4, EraseEffect
  <2>2. lock[at[p]] = p
    BY <2>1 DEF IInv, Locks, HoldsLock
  <2>3. QED
    BY <1>0, <1>4, <2>2, EraseEffect
<1>5. CASE LinkNew(p)
  BY <1>0, <1>5, LinkEffect
<1>6. QED
  BY <1>1, <1>2, <1>3, <1>4, <1>5, EntryMoves

(* A process that stays where it is does not change the tree, but by iput(). *)
LEMMA VictimStep ==
  ASSUME IInv, NEW p \in Procs, Step(p), pc'[p] = "victim"
  PROVE  Head(todo'[p]) \in Names /\ entry'[at'[p]][Head(todo'[p])] = ip'[p]
<1>0. Types
  BY DEF IInv, RInv
<1>1. ASSUME NEW s, Return(p, s) PROVE pc'[p] = "idle"
  BY <1>0, <1>1 DEF Return, Types
<1>2. CASE IputCheck(p) \/ IputDrop(p)
  BY <1>2 DEF IputCheck, IputDrop, IInv, Tree, disk
<1>3. CASE IputFree(p)
  <2>1. PICK i \in Inodes :
          /\ i = Nth(puts[p], 1) /\ putting[p] = "free" /\ UNCHANGED <<pc, at, todo, ip>>
          /\ \A d \in Inodes, n \in AllNames : entry'[d][n] = IF d = i THEN 0 ELSE entry[d][n]
    BY <1>3, FreeEffect
  <2>2. at[p] # i
    BY <2>1, Freed
  <2>3. at[p] \in Inodes /\ Head(todo[p]) \in Names /\ entry[at[p]][Head(todo[p])] = ip[p]
    BY <2>1 DEF IInv, RInv, Types, Shape, Fits, AtDir, Tree
  <2>4. QED
    BY <2>1, <2>2, <2>3 DEF AllNames
<1>4. CASE UnlinkFind(p)
  <2>1. /\ pc[p] = "parent" /\ LastName(p) \notin Dots /\ ip'[p] = Target(p) /\ UNCHANGED <<entry, at, todo>>
    BY <1>0, <1>4 DEF UnlinkFind, Parent, AtPc, disk, Types
  <2>2. todo[p] # <<>>
    BY <2>1 DEF IInv, RInv, Shape, Fits
  <2>3. LastName(p) \in Names
    BY <2>1, <2>2, AtName DEF LastName, AllNames
  <2>4. QED
    BY <2>1, <2>3 DEF LastName, Target
<1>5. CASE Close(p) \/ WalkEnd(p) \/ WalkDown(p)
  BY <1>0, <1>5 DEF Close, WalkEnd, WalkDown, Walking, AtPc, Types
<1>6. CASE \E op, path, new : Begin(p, op, path, new)
  BY <1>0, <1>6 DEF Begin, Types
<1>7. CASE WalkFails(p)
  BY <1>0, <1>1, <1>7 DEF WalkFails, Types
<1>8. CASE Open(p) \/ OpenFails(p) \/ Chdir(p) \/ Existing(p) \/ Created(p)
  BY <1>1, <1>8 DEF Open, OpenFails, Chdir, Existing, Created
<1>9. CASE CreateExisting(p) \/ CreateNew(p) \/ UnlinkErase(p) \/ UnlinkNotEmpty(p) \/ LinkDup(p) \/ LinkTaken(p)
  BY <1>0, <1>9 DEF CreateExisting, CreateNew, UnlinkErase, UnlinkNotEmpty, LinkDup, LinkTaken, Types
<1>10. CASE UnlinkMissing(p) \/ UnlinkBad(p) \/ UnlinkDone(p) \/ LinkOldIsDir(p) \/ LinkNew(p) \/ LinkBad(p)
  BY <1>1, <1>10 DEF UnlinkMissing, UnlinkBad, UnlinkDone, LinkOldIsDir, LinkNew, LinkBad
<1>11. CASE LinkOld(p)
  BY <1>0, <1>11 DEF LinkOld, Types
<1>12. QED
  BY <1>2, <1>3, <1>4, <1>5, <1>6, <1>7, <1>8, <1>9, <1>10, <1>11 DEF Step

LEMMA TreeStep ==
  ASSUME \A path \in Paths : DotFree(path.names), IInv, NEW p \in Procs, Step(p)
  PROVE  Tree'
<1>0. Types /\ Types' /\ Alone(p) /\ Tree /\ ROOTINO \in Inodes /\ 0 \notin Inodes
  BY StepAlone, TypesStep, InodesRange DEF IInv, RInv
<1>n. Names \subseteq AllNames /\ "." \in AllNames
  BY DEF AllNames, Dots
<1>1. type'[ROOTINO] = "dir"
  <2>1. type[ROOTINO] = "dir" /\ (putting[p] = "free" => ROOTINO # Nth(puts[p], 1))
    BY <1>0, Freed DEF Tree
  <2>2. QED
    BY <1>0, <2>1, TypeStays
<1>e. \A d \in Inodes, n \in Names : entry[d][n] # 0 =>
        entry[d][n] \in Inodes /\ type[d] = "dir" /\ type[entry[d][n]] # "free"
  BY <1>0, <1>n DEF Tree, Types
<1>d. \A d \in Inodes : type[d] = "dir" => entry[d]["."] = d
  BY <1>0 DEF Tree
<1>2. /\ \A d \in Inodes, n \in Names : entry'[d][n] # 0 => type'[d] = "dir" /\ type'[entry'[d][n]] # "free"
      /\ \A d \in Inodes : type'[d] = "dir" => entry'[d]["."] = d
  <2>1. CASE UNCHANGED <<type, entry>>
    BY <1>e, <1>d, <2>1
  <2>2. CASE IputFree(p)
    <3>1. PICK i \in Inodes :
            /\ i = Nth(puts[p], 1) /\ putting[p] = "free" /\ type' = [type EXCEPT ![i] = "free"]
            /\ \A d \in Inodes, n \in AllNames : entry'[d][n] = IF d = i THEN 0 ELSE entry[d][n]
      BY <2>2, FreeEffect
    <3>2. \A d \in Inodes, n \in Names : entry[d][n] # i
      BY <3>1, Freed
    <3>3. \A x \in Inodes : type'[x] = IF x = i THEN "free" ELSE type[x]
      BY <1>0, <3>1 DEF Types
    <3>4. ASSUME NEW d \in Inodes, NEW n \in Names, entry'[d][n] # 0
          PROVE  type'[d] = "dir" /\ type'[entry'[d][n]] # "free"
      BY <1>n, <1>e, <3>1, <3>2, <3>3, <3>4
    <3>5. ASSUME NEW d \in Inodes, type'[d] = "dir" PROVE entry'[d]["."] = d
      BY <1>n, <1>d, <3>1, <3>3, <3>5
    <3>6. QED
      BY <3>4, <3>5
  <2>3. CASE CreateNew(p)
    <3>1. PICK i \in Inodes :
            /\ type[i] = "free" /\ i # at[p] /\ pc[p] = "parent" /\ Target(p) = 0
            /\ type' = [type EXCEPT ![i] = Made(p)] /\ Made(p) \in {"dir", "file"}
            /\ \A d \in Inodes, n \in Names : entry'[d][n] = IF d = at[p] /\ n = LastName(p) THEN i ELSE entry[d][n]
            /\ entry'[i]["."] = IF Made(p) = "dir" THEN i ELSE 0
            /\ \A d \in Inodes \ {i} : entry'[d]["."] = entry[d]["."]
      BY <2>3, CreateEffect
    <3>2. at[p] \in Inodes /\ type[at[p]] = "dir"
      BY <3>1, NewName
    <3>3. \A x \in Inodes : type'[x] = IF x = i THEN Made(p) ELSE type[x]
      BY <1>0, <3>1 DEF Types
    <3>4. ASSUME NEW d \in Inodes, NEW n \in Names, entry'[d][n] # 0
          PROVE  type'[d] = "dir" /\ type'[entry'[d][n]] # "free"
      <4>1. CASE d = at[p] /\ n = LastName(p)
        BY <3>1, <3>2, <3>3, <4>1
      <4>2. CASE ~(d = at[p] /\ n = LastName(p))
        <5>1. entry'[d][n] = entry[d][n] /\ entry[d][n] \in Inodes /\ type[d] = "dir" /\ type[entry[d][n]] # "free"
          BY <1>e, <3>1, <3>4, <4>2
        <5>2. QED
          BY <3>1, <3>3, <5>1
      <4>3. QED
        BY <4>1, <4>2
    <3>5. ASSUME NEW d \in Inodes, type'[d] = "dir" PROVE entry'[d]["."] = d
      BY <1>d, <3>1, <3>3, <3>5
    <3>6. QED
      BY <3>4, <3>5
  <2>4. CASE UnlinkErase(p)
    <3>1. /\ type' = type /\ LastName(p) \in Names
          /\ \A d \in Inodes, n \in AllNames : entry'[d][n] = IF d = at[p] /\ n = LastName(p) THEN 0 ELSE entry[d][n]
      BY <2>4, EraseEffect
    <3>2. "." \notin Names
      BY FsAssumption DEF Dots
    <3>3. QED
      BY <1>n, <1>e, <1>d, <3>1, <3>2
  <2>5. CASE LinkNew(p)
    <3>1. /\ type' = type /\ ip[p] \in Inodes /\ type[ip[p]] = "file" /\ pc[p] = "parent" /\ Target(p) = 0
          /\ \A d \in Inodes, n \in AllNames : entry'[d][n] = IF d = at[p] /\ n = LastName(p) THEN ip[p] ELSE entry[d][n]
      BY <2>5, LinkEffect
    <3>2. "." \notin Names /\ LastName(p) \in Names /\ type[at[p]] = "dir"
      BY <3>1, NewName, FsAssumption DEF Dots
    <3>3. QED
      BY <1>n, <1>e, <1>d, <3>1, <3>2
  <2>6. QED
    BY <2>1, <2>2, <2>3, <2>4, <2>5, EntryMoves
<1>3. \A q \in Procs : DotFree(todo'[q]) /\ DotFree(call'[q].new.names)
  BY <1>0, DotsStep DEF Alone, Tree
<1>4. ASSUME NEW q \in Procs, pc'[q] = "victim"
      PROVE  Head(todo'[q]) \in Names /\ entry'[at'[q]][Head(todo'[q])] = ip'[q]
  <2>1. CASE q = p
    BY <1>4, <2>1, VictimStep
  <2>2. CASE q # p
    <3>1. pc[q] = "victim" /\ at'[q] = at[q] /\ todo'[q] = todo[q] /\ ip'[q] = ip[q]
      BY <1>0, <1>4, <2>2 DEF Alone
    <3>2. at[q] \in Inodes /\ Head(todo[q]) \in Names /\ entry[at[q]][Head(todo[q])] = ip[q]
      <4>1. at[q] \in Inodes
        BY <3>1, AtHand DEF IInv, RInv, AtDir
      <4>2. QED
        BY <1>0, <3>1, <4>1 DEF Tree
    <3>3. lock[at[q]] = q
      BY <3>1, <3>2 DEF IInv, Locks, HoldsLock
    <3>4. QED
      BY <2>2, <3>1, <3>2, <3>3, EntryStays
  <2>3. QED
    BY <2>1, <2>2
<1>5. QED
  BY <1>1, <1>2, <1>3, <1>4 DEF Tree

-----------------------------------------------------------------------------
(* Whose count a step changes. *)
LEMMA NlinkMoves ==
  ASSUME IInv, NEW p \in Procs, Step(p), NEW x \in Inodes, nlink'[x] # nlink[x]
  PROVE  /\ x = at[p] \/ x = ip[p] \/ (type[x] = "free" /\ CreateNew(p))
         /\ ~IputFree(p)
<1>0. Types
  BY DEF IInv, RInv
<1> USE DEF disk, Types
<1>1. CASE IputCheck(p) \/ IputFree(p) \/ IputDrop(p) \/ Close(p) \/ WalkEnd(p) \/ WalkDown(p) \/ WalkFails(p)
  BY <1>1 DEF IputCheck, IputFree, IputDrop, Close, WalkEnd, WalkDown, WalkFails
<1>2. CASE \E op, path, new : Begin(p, op, path, new)
  BY <1>2 DEF Begin
<1>3. CASE Open(p) \/ OpenFails(p) \/ Chdir(p) \/ CreateExisting(p) \/ Existing(p) \/ Created(p)
  BY <1>3 DEF Open, OpenFails, Chdir, CreateExisting, Existing, Created
<1>4. CASE UnlinkMissing(p) \/ UnlinkFind(p) \/ UnlinkNotEmpty(p) \/ UnlinkBad(p)
  BY <1>4 DEF UnlinkMissing, UnlinkFind, UnlinkNotEmpty, UnlinkBad
<1>5. CASE LinkOldIsDir(p) \/ LinkNew(p) \/ LinkTaken(p) \/ LinkDup(p)
  BY <1>5 DEF LinkOldIsDir, LinkNew, LinkTaken, LinkDup
<1>n. ~(CreateNew(p) \/ UnlinkErase(p) \/ UnlinkDone(p) \/ LinkOld(p) \/ LinkBad(p)) \/ ~IputFree(p)
  BY <1>0 DEF IInv, RInv, Shape, Fits, CreateNew, UnlinkErase, UnlinkDone, LinkOld, LinkBad, IputFree, Parent, Found, AtPc
<1>6. CASE CreateNew(p)
  BY <1>6, <1>n, CreateEffect
<1>7. CASE UnlinkErase(p)
  BY <1>7, <1>n, EraseEffect
<1>8. CASE UnlinkDone(p) \/ LinkBad(p)
  BY <1>0, <1>8, <1>n DEF UnlinkDone, LinkBad
<1>9. CASE LinkOld(p)
  BY <1>0, <1>9, <1>n DEF LinkOld, CountedUp
<1>10. QED
  BY <1>1, <1>2, <1>3, <1>4, <1>5, <1>6, <1>7, <1>8, <1>9 DEF Step

LEMMA RefMoves ==
  ASSUME IInv, NEW p \in Procs, Step(p), NEW x \in Inodes, ref'[x] # ref[x]
  PROVE  \/ x \in {ROOTINO, cwd[p], at[p]} \/ (x = Nth(puts[p], 1) /\ putting[p] = "drop")
         \/ type[x] = "free" \/ \E d \in Inodes, n \in Names : entry[d][n] = x
<1>0. Types
  BY DEF IInv, RInv
<1>g. ASSUME NEW y, ref' = Gets(y) PROVE x = y
  BY <1>0, <1>g DEF Gets, Types
<1>t. ASSUME pc[p] = "parent", Target(p) # 0, ref' = Gets(Target(p))
      PROVE  x = at[p] \/ \E d \in Inodes, n \in Names : entry[d][n] = x
  <2>1. at[p] \in Inodes /\ type[at[p]] = "dir" /\ todo[p] # <<>>
    BY <1>0, <1>t DEF IInv, RInv, Types, Shape, Fits, Kept, Keeps, AtDir
  <2>2. LastName(p) \in AllNames \ {".."}
    BY <2>1, AtName DEF LastName
  <2>3. LastName(p) \in Names \/ Target(p) = at[p]
    BY <1>t, <2>1, <2>2, EntryKept DEF Target
  <2>4. x = Target(p)
    BY <1>t, <1>g
  <2>5. QED
    BY <2>1, <2>3, <2>4 DEF Target
<1>s. ASSUME NEW path, ref' = Gets(Start(p, path)) PROVE x \in {ROOTINO, cwd[p]}
  BY <1>s, <1>g DEF Start
<1>1. CASE IputCheck(p) \/ IputFree(p) \/ Close(p) \/ WalkEnd(p) \/ WalkFails(p)
  BY <1>1 DEF IputCheck, IputFree, Close, WalkEnd, WalkFails
<1>2. CASE IputDrop(p)
  <2>1. putting[p] = "drop" /\ puts[p] # <<>> /\ ref' = Dropped(Head(puts[p]))
    BY <1>0, <1>2 DEF IputDrop, IInv, RInv, Shape, Fits
  <2>2. Head(puts[p]) = Nth(puts[p], 1)
    BY <2>1, PutRange DEF IInv, RInv
  <2>3. QED
    BY <1>0, <2>1, <2>2 DEF Dropped, Types
<1>3. CASE \E op, path, new : Begin(p, op, path, new)
  BY <1>3, <1>s DEF Begin
<1>4. CASE WalkDown(p)
  <2>1. PICK next : next = entry[at[p]][Head(todo[p])] /\ next # 0 /\ ref' = Gets(next)
    BY <1>4 DEF WalkDown
  <2>2. at[p] \in Inodes /\ type[at[p]] = "dir" /\ todo[p] # <<>>
    BY <1>0, <1>4, AtHand DEF WalkDown, Walking, AtPc, IInv, RInv
  <2>3. Head(todo[p]) \in AllNames \ {".."}
    BY <2>2, AtName
  <2>4. Head(todo[p]) \in Names \/ next = at[p]
    BY <2>1, <2>2, <2>3, EntryKept
  <2>5. x = next
    BY <2>1, <1>g
  <2>6. QED
    BY <2>1, <2>2, <2>4, <2>5
<1>5. CASE Open(p) \/ OpenFails(p) \/ Chdir(p) \/ Existing(p) \/ Created(p)
  BY <1>5 DEF Open, OpenFails, Chdir, Existing, Created
<1>6. CASE CreateExisting(p) \/ UnlinkFind(p) \/ LinkTaken(p)
  BY <1>6, <1>t DEF CreateExisting, UnlinkFind, LinkTaken, Parent, AtPc
<1>7. CASE CreateNew(p)
  <2>1. PICK i \in Inodes : type[i] = "free" /\ ref' = Gets(i)
    BY <1>7 DEF CreateNew
  <2>2. QED
    BY <2>1, <1>g
<1>8. CASE UnlinkMissing(p) \/ UnlinkNotEmpty(p) \/ UnlinkBad(p) \/ UnlinkErase(p) \/ UnlinkDone(p)
  BY <1>8 DEF UnlinkMissing, UnlinkNotEmpty, UnlinkBad, UnlinkErase, UnlinkDone
<1>9. CASE LinkOldIsDir(p) \/ LinkNew(p) \/ LinkDup(p) \/ LinkBad(p)
  BY <1>9 DEF LinkOldIsDir, LinkNew, LinkDup, LinkBad
<1>10. CASE LinkOld(p)
  BY <1>10, <1>s DEF LinkOld
<1>11. QED
  BY <1>1, <1>2, <1>3, <1>4, <1>5, <1>6, <1>7, <1>8, <1>9, <1>10 DEF Step

(* Only the test of iput() starts to free. *)
LEMMA PuttingStep ==
  ASSUME RInv, NEW p \in Procs, Step(p), putting'[p] = "free"
  PROVE  /\ puts' = puts /\ UNCHANGED <<nlink, ref>>
         /\ nlink[Nth(puts[p], 1)] = 0 /\ ref[Nth(puts[p], 1)] = 1
<1>0. Types /\ Fits(p)
  BY DEF RInv, Shape
<1> USE DEF Types
<1>1. CASE IputCheck(p)
  <2>1. Head(puts[p]) = Nth(puts[p], 1)
    BY <1>1, PutRange DEF IputCheck, RInv
  <2>2. LastRef(Head(puts[p]))
    <3>1. ~LastRef(Head(puts[p])) => putting'[p] = "drop"
      BY <1>0, <1>1 DEF IputCheck
    <3>2. QED
      BY <3>1
  <2>3. QED
    BY <1>1, <2>1, <2>2 DEF IputCheck, LastRef, disk
<1>2. CASE IputFree(p) \/ IputDrop(p)
  BY <1>0, <1>2 DEF IputFree, IputDrop
<1>3. puts[p] = <<>> => putting[p] # "free"
  BY <1>0 DEF Fits
<1>4. ASSUME puts[p] = <<>>, putting' = putting PROVE FALSE
  BY <1>3, <1>4
<1>5. CASE Close(p) \/ WalkEnd(p) \/ WalkDown(p) \/ WalkFails(p)
  BY <1>4, <1>5 DEF Close, WalkEnd, WalkDown, WalkFails, Walking, AtPc
<1>6. CASE \E op, path, new : Begin(p, op, path, new)
  BY <1>4, <1>6 DEF Begin, AtPc
<1>7. CASE Open(p) \/ OpenFails(p) \/ Chdir(p) \/ Existing(p) \/ Created(p)
  BY <1>4, <1>7 DEF Open, OpenFails, Chdir, Existing, Created, Found, AtPc
<1>8. CASE CreateExisting(p) \/ CreateNew(p) \/ UnlinkMissing(p) \/ UnlinkFind(p)
  BY <1>4, <1>8 DEF CreateExisting, CreateNew, UnlinkMissing, UnlinkFind, Parent, AtPc
<1>9. CASE UnlinkNotEmpty(p) \/ UnlinkBad(p) \/ UnlinkErase(p) \/ UnlinkDone(p)
  BY <1>4, <1>9 DEF UnlinkNotEmpty, UnlinkBad, UnlinkErase, UnlinkDone, AtPc
<1>10. CASE LinkOldIsDir(p) \/ LinkOld(p) \/ LinkNew(p) \/ LinkTaken(p) \/ LinkDup(p) \/ LinkBad(p)
  BY <1>4, <1>10 DEF LinkOldIsDir, LinkOld, LinkNew, LinkTaken, LinkDup, LinkBad, Found, Parent, AtPc
<1>11. QED
  BY <1>1, <1>2, <1>5, <1>6, <1>7, <1>8, <1>9, <1>10 DEF Step

LEMMA FreeingStep ==
  ASSUME IInv, NEW p \in Procs, Step(p)
  PROVE  Freeing'
<1>0. Alone(p)
  BY StepAlone DEF IInv, RInv
<1>1. ASSUME NEW q \in Procs \ {p}, putting'[q] = "free"
      PROVE  nlink'[Nth(puts'[q], 1)] = 0 /\ ref'[Nth(puts'[q], 1)] = 1
  <2>1. puts'[q] = puts[q] /\ putting[q] = "free"
    BY <1>0, <1>1 DEF Alone
  <2>2. PICK i : i = Nth(puts[q], 1)
    OBVIOUS
  <2>3. /\ i \in Inodes /\ type[i] # "free" /\ i # ROOTINO /\ ref[i] = 1 /\ nlink[i] = 0
        /\ \A d \in Inodes, n \in Names : entry[d][n] # i
        /\ cwd[p] # i /\ at[p] # i /\ ip[p] # i /\ Nth(puts[p], 1) # i
    BY <2>1, <2>2, Freed
  <2>4. nlink'[i] = 0
    BY <2>3, NlinkMoves
  <2>5. ref'[i] = 1
    BY <2>3, RefMoves
  <2>6. QED
    BY <2>1, <2>2, <2>4, <2>5
<1>2. putting'[p] = "free" => nlink'[Nth(puts'[p], 1)] = 0 /\ ref'[Nth(puts'[p], 1)] = 1
  BY PuttingStep DEF IInv
<1>3. QED
  BY <1>1, <1>2 DEF Freeing

-----------------------------------------------------------------------------
(* How the counts of links move. *)
LEMMA LinksNatNext ==
  ASSUME NEW i
  PROVE  /\ Count(Named', i) \in Nat /\ Cardinality(Subdirs(i)') \in Nat /\ IsFiniteSet(Subdirs(i)')
         /\ Links(i)' \in Nat /\ Count(Owed', i) \in Nat
         /\ Links(i)' = Count(Named', i) + Cardinality(Subdirs(i)') + (IF i = ROOTINO THEN 1 ELSE 0)
<1>1. IsFiniteSet(Inodes \X Names)
  BY InodesRange, FsAssumption, FS_Product
<1>2. Count(Named', i) \in Nat
  BY <1>1, CountNat DEF Named
<1>3. IsFiniteSet(Subdirs(i)') /\ Cardinality(Subdirs(i)') \in Nat
  BY FsAssumption, FS_Subset, FS_CardinalityType DEF Subdirs
<1>4. Count(Owed', i) \in Nat
  BY FsAssumption, CountNat DEF Owed
<1>5. Links(i)' = Count(Named', i) + Cardinality(Subdirs(i)') + (IF i = ROOTINO THEN 1 ELSE 0)
  BY DEF Links
<1>6. QED
  BY <1>2, <1>3, <1>4, <1>5

LEMMA OwedMove ==
  ASSUME NEW p \in Procs, Alone(p), NEW i
  PROVE  Count(Owed', i) + One(Owed[p], i) = Count(Owed, i) + One(Owed'[p], i)
<1>1. DOMAIN Owed = Procs /\ DOMAIN Owed' = Procs /\ IsFiniteSet(Procs)
  BY FsAssumption DEF Owed
<1>2. \A q \in Procs \ {p} : Owed'[q] = Owed[q]
  BY DEF Alone, Owed, InLink
<1>3. QED
  BY <1>1, <1>2, CountMove

LEMMA NamedMove ==
  ASSUME NEW d \in Inodes, NEW m \in Names, NEW i,
         \A e \in Inodes, n \in Names : ~(e = d /\ n = m) => entry'[e][n] = entry[e][n]
  PROVE  Count(Named', i) + One(entry[d][m], i) = Count(Named, i) + One(entry'[d][m], i)
<1>1. DOMAIN Named = Inodes \X Names /\ DOMAIN Named' = Inodes \X Names /\ IsFiniteSet(Inodes \X Names)
  BY InodesRange, FsAssumption, FS_Product DEF Named
<1>2. <<d, m>> \in Inodes \X Names /\ Named[<<d, m>>] = entry[d][m] /\ Named'[<<d, m>>] = entry'[d][m]
  BY DEF Named
<1>3. \A e \in (Inodes \X Names) \ {<<d, m>>} : Named'[e] = Named[e]
  <2>1. ASSUME NEW a \in Inodes, NEW n \in Names, <<a, n>> # <<d, m>> PROVE Named'[<<a, n>>] = Named[<<a, n>>]
    BY <2>1 DEF Named
  <2>2. QED
    BY <2>1
<1>4. QED
  BY <1>1, <1>2, <1>3, CountMove

LEMMA SubdirsSame ==
  ASSUME NEW d, \A n \in Names : entry'[d][n] # 0 /\ type'[entry'[d][n]] = "dir" <=> entry[d][n] # 0 /\ type[entry[d][n]] = "dir"
  PROVE  Subdirs(d)' = Subdirs(d)
BY DEF Subdirs

(* A step that leaves the tree alone counts what it owes. *)
LEMMA OwedCounted ==
  ASSUME IInv, NEW p \in Procs, Step(p), ~IputFree(p), ~CreateNew(p), ~UnlinkErase(p), ~LinkNew(p), NEW i \in Inodes
  PROVE  nlink'[i] + One(Owed[p], i) = nlink[i] + One(Owed'[p], i)
<1>0. Types /\ Fits(p)
  BY DEF IInv, RInv, Shape
<1>i. i # 0 /\ nlink[i] \in Int
  BY <1>0, InodesRange DEF Types
<1>o. /\ Owed[p] = IF pc[p] = "unlinked" \/ InLink(p) THEN ip[p] ELSE 0
      /\ Owed'[p] = IF pc'[p] = "unlinked" \/ InLink(p)' THEN ip'[p] ELSE 0
  BY DEF Owed
<1> USE DEF Types
<1>a. ASSUME nlink' = nlink, Owed'[p] = Owed[p] PROVE nlink'[i] + One(Owed[p], i) = nlink[i] + One(Owed'[p], i)
  BY <1>a
<1>b. ASSUME NEW s, Return(p, s) PROVE pc'[p] = "idle" /\ Owed'[p] = 0
  BY <1>0, <1>b, <1>o DEF Return, InLink
<1>1. CASE IputCheck(p) \/ IputDrop(p) \/ Close(p)
  BY <1>a, <1>o, <1>1 DEF IputCheck, IputDrop, Close, disk, InLink
<1>2. CASE \E op, path, new : Begin(p, op, path, new)
  <2>1. pc[p] = "idle" /\ pc'[p] = "walk" /\ nlink' = nlink
    BY <1>0, <1>2 DEF Begin, AtPc, disk
  <2>2. QED
    BY <1>a, <1>o, <2>1 DEF InLink
<1>3. CASE WalkEnd(p)
  <2>1. pc[p] \in {"walk", "walk2"} /\ ToParent(p) /\ pc'[p] = "parent" /\ UNCHANGED <<nlink, ip, call>>
    BY <1>0, <1>3 DEF WalkEnd, Walking, AtPc, disk
  <2>2. InLink(p)' <=> InLink(p)
    BY <1>0, <2>1 DEF InLink, ToParent, Doing, Fits
  <2>3. QED
    BY <1>a, <1>o, <2>1, <2>2
<1>4. CASE WalkDown(p)
  BY <1>a, <1>o, <1>4 DEF WalkDown, disk, InLink
<1>5. CASE WalkFails(p)
  <2>1. CASE pc[p] = "walk2"
    <3>1. pc'[p] = "bad" /\ UNCHANGED <<nlink, ip, call>>
      BY <1>0, <1>5, <2>1 DEF WalkFails, disk
    <3>2. QED
      BY <1>a, <1>o, <2>1, <3>1 DEF InLink
  <2>2. CASE pc[p] # "walk2"
    <3>1. pc[p] = "walk" /\ Return(p, <<at[p]>>) /\ UNCHANGED nlink
      BY <1>5, <2>2 DEF WalkFails, Walking, AtPc, disk
    <3>2. QED
      BY <1>a, <1>b, <1>o, <3>1 DEF InLink
  <2>3. QED
    BY <2>1, <2>2
<1>6. CASE Open(p) \/ OpenFails(p) \/ Chdir(p) \/ LinkOldIsDir(p)
  <2>1. pc[p] = "walk" /\ UNCHANGED nlink /\ \E s : Return(p, s)
    BY <1>6 DEF Open, OpenFails, Chdir, LinkOldIsDir, Found, AtPc, disk
  <2>2. QED
    BY <1>a, <1>b, <1>o, <2>1 DEF InLink
<1>7. CASE CreateExisting(p) \/ UnlinkFind(p)
  <2>1. pc[p] = "parent" /\ call[p].op # "link" /\ pc'[p] \in {"existing", "victim"} /\ UNCHANGED nlink
    BY <1>0, <1>7 DEF CreateExisting, UnlinkFind, Parent, AtPc, Doing, disk
  <2>2. QED
    BY <1>a, <1>o, <2>1 DEF InLink
<1>8. CASE Existing(p) \/ Created(p) \/ UnlinkBad(p)
  <2>1. pc[p] \in {"existing", "created", "notempty"} /\ UNCHANGED nlink /\ \E s : Return(p, s)
    BY <1>8 DEF Existing, Created, UnlinkBad, AtPc, disk
  <2>2. QED
    BY <1>a, <1>b, <1>o, <2>1 DEF InLink
<1>9. CASE UnlinkMissing(p)
  <2>1. pc[p] = "parent" /\ call[p].op # "link" /\ UNCHANGED nlink /\ Return(p, <<at[p]>>)
    BY <1>9 DEF UnlinkMissing, Parent, AtPc, Doing, disk
  <2>2. QED
    BY <1>a, <1>b, <1>o, <2>1 DEF InLink
<1>10. CASE UnlinkNotEmpty(p)
  <2>1. pc[p] = "victim" /\ pc'[p] = "notempty" /\ UNCHANGED nlink
    BY <1>0, <1>10 DEF UnlinkNotEmpty, AtPc, disk
  <2>2. QED
    BY <1>a, <1>o, <2>1 DEF InLink
<1>11. CASE UnlinkDone(p) \/ LinkBad(p)
  <2>1. pc[p] \in {"unlinked", "bad"} /\ nlink' = [nlink EXCEPT ![ip[p]] = @ - 1] /\ Return(p, <<ip[p]>>)
    BY <1>11 DEF UnlinkDone, LinkBad, AtPc
  <2>2. Owed[p] = ip[p] /\ Owed'[p] = 0
    BY <1>b, <1>o, <2>1 DEF InLink
  <2>3. nlink'[i] + One(ip[p], i) = nlink[i]
    BY <1>0, <1>i, <2>1 DEF One
  <2>4. One(0, i) = 0
    BY <1>i DEF One
  <2>5. QED
    BY <1>i, <2>2, <2>3, <2>4
<1>12. CASE LinkOld(p)
  <2>1. pc[p] = "walk" /\ nlink' = CountedUp(at[p]) /\ pc'[p] = "walk2" /\ ip'[p] = at[p]
    BY <1>0, <1>12 DEF LinkOld, Found, AtPc
  <2>2. Owed[p] = 0 /\ Owed'[p] = at[p]
    BY <1>o, <2>1 DEF InLink
  <2>3. nlink'[i] = nlink[i] + One(at[p], i)
    BY <1>0, <1>i, <2>1 DEF One, CountedUp
  <2>4. One(0, i) = 0 /\ nlink'[i] \in Int
    BY <1>i, <2>3 DEF One
  <2>5. QED
    BY <1>i, <2>2, <2>3, <2>4
<1>13. CASE LinkTaken(p) \/ LinkDup(p)
  <2>1. /\ pc[p] = "linkdup" \/ (pc[p] = "parent" /\ call[p].op = "link")
        /\ pc'[p] \in {"linkdup", "bad"} /\ UNCHANGED <<nlink, ip>>
    BY <1>0, <1>13 DEF LinkTaken, LinkDup, Parent, AtPc, Doing, disk
  <2>2. QED
    BY <1>a, <1>o, <2>1 DEF InLink
<1>14. QED
  BY <1>1, <1>2, <1>3, <1>4, <1>5, <1>6, <1>7, <1>8, <1>9, <1>10, <1>11, <1>12, <1>13 DEF Step

(* A free inode has the count that it had. *)
LEMMA FreeCount ==
  ASSUME IInv, NEW p \in Procs, Step(p), NEW i \in Inodes, type'[i] = "free"
  PROVE  nlink'[i] = nlink[i]
<1> SUFFICES ASSUME nlink'[i] # nlink[i] PROVE FALSE
  OBVIOUS
<1>1. /\ i = at[p] \/ i = ip[p] \/ (type[i] = "free" /\ CreateNew(p))
      /\ ~IputFree(p)
  BY NlinkMoves
<1>2. CASE i = at[p] \/ i = ip[p]
  <2>1. type[i] # "free" /\ i # 0
    BY <1>2, InodesRange DEF IInv, Kept, Keeps
  <2>2. putting[p] = "free" => i # Nth(puts[p], 1)
    BY <1>2, Freed
  <2>3. QED
    BY <2>1, <2>2, TypeStays
<1>3. CASE type[i] = "free" /\ CreateNew(p)
  <2>1. PICK j \in Inodes : /\ type' = [type EXCEPT ![j] = Made(p)] /\ Made(p) \in {"dir", "file"}
                            /\ pc[p] = "parent" /\ Target(p) = 0
                            /\ \A x \in Inodes \ {j, at[p]} : nlink'[x] = nlink[x]
    BY <1>3, CreateEffect
  <2>2. type[at[p]] = "dir"
    BY <2>1, NewName
  <2>3. i = j
    BY <1>3, <2>1, <2>2
  <2>4. QED
    BY <2>1, <2>3 DEF IInv, RInv, Types
<1>4. QED
  BY <1>1, <1>2, <1>3

-----------------------------------------------------------------------------
(* The steps that make and erase entries. *)
LEMMA FreeCovered ==
  ASSUME IInv, NEW p \in Procs, Alone(p), IputFree(p), NEW i \in Inodes, type'[i] # "free"
  PROVE  Links(i)' + Count(Owed', i) <= nlink'[i]
<1>0. Types
  BY DEF IInv, RInv
<1>1. PICK f \in Inodes :
        /\ f = Nth(puts[p], 1) /\ putting[p] = "free"
        /\ type' = [type EXCEPT ![f] = "free"] /\ UNCHANGED <<nlink, pc, call, ip>>
        /\ \A d \in Inodes, n \in AllNames : entry'[d][n] = IF d = f THEN 0 ELSE entry[d][n]
  BY FreeEffect
<1>2. i # f /\ type[i] # "free" /\ \A x \in Inodes \ {f} : type'[x] = type[x]
  BY <1>0, <1>1 DEF Types
<1>3. Names \subseteq AllNames /\ 0 \notin Inodes /\ IsFiniteSet(Inodes \X Names)
  BY InodesRange, FsAssumption, FS_Product DEF AllNames
<1>4. \A n \in Names : entry'[i][n] = entry[i][n] /\ entry[i][n] # f /\ entry[i][n] \in Inodes \cup {0}
  BY <1>0, <1>1, <1>2, <1>3, Freed DEF Types
<1>5. Subdirs(i)' = Subdirs(i)
  BY <1>2, <1>4, SubdirsSame
<1>6. Count(Named', i) <= Count(Named, i)
  <2>1. \A e \in Inodes \X Names : Named'[e] = i => Named[e] = i
    BY <1>1, <1>3 DEF Named
  <2>2. DOMAIN Named = Inodes \X Names /\ DOMAIN Named' = Inodes \X Names
    BY DEF Named
  <2>3. QED
    BY <1>3, <2>1, <2>2, CountFewer
<1>7. Owed' = Owed
  BY <1>1 DEF Owed, InLink
<1>8. Links(i)' <= Links(i)
  BY <1>5, <1>6, LinksNat, LinksNatNext DEF Links
<1>9. Links(i) + Count(Owed, i) <= nlink[i] /\ nlink[i] \in Nat
  BY <1>2, CoveredAt
<1>10. QED
  BY <1>1, <1>7, <1>8, <1>9, LinksNat, LinksNatNext

LEMMA CreateCovered ==
  ASSUME IInv, NEW p \in Procs, Alone(p), CreateNew(p), NEW i \in Inodes, type'[i] # "free"
  PROVE  Links(i)' + Count(Owed', i) <= nlink'[i]
<1>0. Types /\ 0 \notin Inodes
  BY InodesRange DEF IInv, RInv
<1>1. PICK j \in Inodes :
        /\ type[j] = "free" /\ j # at[p] /\ pc[p] = "parent" /\ Target(p) = 0 /\ call[p].op \in {"create", "mkdir"}
        /\ type' = [type EXCEPT ![j] = Made(p)] /\ Made(p) \in {"dir", "file"}
        /\ nlink'[j] = 1 /\ nlink'[at[p]] = IF Made(p) = "dir" THEN nlink[at[p]] + 1 ELSE nlink[at[p]]
        /\ \A x \in Inodes \ {j, at[p]} : nlink'[x] = nlink[x]
        /\ \A d \in Inodes, n \in Names : entry'[d][n] = IF d = at[p] /\ n = LastName(p) THEN j ELSE entry[d][n]
        /\ pc'[p] = "created"
  BY CreateEffect
<1>2. at[p] \in Inodes /\ type[at[p]] = "dir" /\ LastName(p) \in Names /\ entry[at[p]][LastName(p)] = 0
  BY <1>1, NewName
<1>3. \A x \in Inodes : type'[x] = IF x = j THEN Made(p) ELSE type[x]
  BY <1>0, <1>1 DEF Types
<1>4. \A d \in Inodes, n \in Names : /\ entry[d][n] \in Inodes \cup {0} /\ entry[d][n] # j
                                     /\ entry[d][n] # 0 => type[d] = "dir"
  BY <1>0, <1>1 DEF IInv, Tree, Types, AllNames
<1>5. Owed[p] = 0 /\ Owed'[p] = 0
  BY <1>1 DEF Owed, InLink
<1>6. Count(Owed', i) = Count(Owed, i)
  BY <1>5, OwedMove, LinksNat, LinksNatNext DEF One
<1>7. Count(Named', i) + One(0, i) = Count(Named, i) + One(j, i)
  <2>1. \A d \in Inodes, n \in Names : ~(d = at[p] /\ n = LastName(p)) => entry'[d][n] = entry[d][n]
    BY <1>1
  <2>2. entry'[at[p]][LastName(p)] = j
    BY <1>1, <1>2
  <2>3. Count(Named', i) + One(entry[at[p]][LastName(p)], i) = Count(Named, i) + One(entry'[at[p]][LastName(p)], i)
    BY <1>2, <2>1, NamedMove
  <2>4. QED
    BY <1>2, <2>2, <2>3
<1>8. CASE i = j
  <2>1. Count(Named, i) = 0
    <3>1. \A e \in Inodes \X Names : Named[e] # i
      BY <1>4, <1>8 DEF Named
    <3>2. DOMAIN Named = Inodes \X Names
      BY DEF Named
    <3>3. QED
      BY <3>1, <3>2, CountNone
  <2>2. Count(Named', i) = 1
    BY <1>0, <1>7, <1>8, <2>1, LinksNatNext DEF One
  <2>3. Subdirs(i)' = {}
    BY <1>1, <1>4, <1>8 DEF Subdirs
  <2>4. i # ROOTINO
    BY <1>1, <1>8 DEF IInv, Tree
  <2>5. Count(Owed, i) = 0
    <3>1. \A q \in Procs : Owed[q] # i
      <4>1. ASSUME NEW q \in Procs, Owed[q] = i PROVE FALSE
        <5>1. ip[q] = i
          BY <1>0, <4>1 DEF Owed
        <5>2. QED
          BY <1>0, <1>1, <1>8, <5>1 DEF IInv, Kept, Keeps
      <4>2. QED
        BY <4>1
    <3>2. DOMAIN Owed = Procs
      BY DEF Owed
    <3>3. QED
      BY <3>1, <3>2, CountNone
  <2>6. Cardinality(Subdirs(i)') = 0
    BY <2>3, FS_EmptySet
  <2>7. QED
    BY <1>1, <1>6, <1>8, <2>2, <2>4, <2>5, <2>6, LinksNatNext
<1>9. CASE i # j
  <2>1. Count(Named', i) = Count(Named, i)
    BY <1>0, <1>7, <1>9, LinksNat, LinksNatNext DEF One
  <2>2. Links(i) + Count(Owed, i) <= nlink[i] /\ nlink[i] \in Nat
    BY <1>3, <1>9, CoveredAt
  <2>3. CASE i = at[p] /\ Made(p) = "dir"
    <3>1. Subdirs(i)' = Subdirs(i) \cup {LastName(p)} /\ LastName(p) \notin Subdirs(i)
      <4>1. \A n \in Names : n # LastName(p) => (n \in Subdirs(i)' <=> n \in Subdirs(i))
        BY <1>1, <1>3, <1>4, <2>3 DEF Subdirs
      <4>2. LastName(p) \in Subdirs(i)' /\ LastName(p) \notin Subdirs(i)
        BY <1>0, <1>1, <1>2, <1>3, <2>3 DEF Subdirs
      <4>3. Subdirs(i) \subseteq Names /\ Subdirs(i)' \subseteq Names
        BY DEF Subdirs
      <4>4. QED
        BY <1>2, <4>1, <4>2, <4>3
    <3>2. Cardinality(Subdirs(i)') = Cardinality(Subdirs(i)) + 1
      BY <3>1, LinksNat, FS_AddElement
    <3>3. nlink'[i] = nlink[i] + 1
      BY <1>1, <2>3
    <3>4. QED
      BY <1>6, <2>1, <2>2, <3>2, <3>3, LinksNat, LinksNatNext DEF Links
  <2>4. CASE ~(i = at[p] /\ Made(p) = "dir")
    <3>1. Subdirs(i)' = Subdirs(i)
      <4>1. ASSUME NEW n \in Names
            PROVE  entry'[i][n] # 0 /\ type'[entry'[i][n]] = "dir" <=> entry[i][n] # 0 /\ type[entry[i][n]] = "dir"
        <5>1. CASE i = at[p] /\ n = LastName(p)
          BY <1>1, <1>2, <1>3, <2>4, <5>1
        <5>2. CASE ~(i = at[p] /\ n = LastName(p))
          BY <1>1, <1>3, <1>4, <5>2
        <5>3. QED
          BY <5>1, <5>2
      <4>2. QED
        BY <4>1, SubdirsSame
    <3>2. nlink'[i] = nlink[i]
      BY <1>1, <1>9, <2>4
    <3>3. QED
      BY <1>6, <2>1, <2>2, <3>1, <3>2, LinksNat, LinksNatNext DEF Links
  <2>5. QED
    BY <2>3, <2>4
<1>10. QED
  BY <1>8, <1>9

LEMMA EraseCovered ==
  ASSUME IInv, NEW p \in Procs, Alone(p), UnlinkErase(p), NEW i \in Inodes, type'[i] # "free"
  PROVE  Links(i)' + Count(Owed', i) <= nlink'[i]
<1>0. Types /\ 0 \notin Inodes
  BY InodesRange DEF IInv, RInv
<1>1. /\ pc[p] = "victim" /\ at[p] \in Inodes /\ ip[p] \in Inodes
      /\ LastName(p) \in Names /\ entry[at[p]][LastName(p)] = ip[p]
      /\ UNCHANGED <<type, ip>> /\ pc'[p] = "unlinked"
      /\ nlink'[at[p]] = IF type[ip[p]] = "dir" THEN nlink[at[p]] - 1 ELSE nlink[at[p]]
      /\ \A x \in Inodes \ {at[p]} : nlink'[x] = nlink[x]
      /\ \A d \in Inodes, n \in AllNames : entry'[d][n] = IF d = at[p] /\ n = LastName(p) THEN 0 ELSE entry[d][n]
  BY EraseEffect
<1>2. Names \subseteq AllNames
  BY DEF AllNames
<1>3. Owed[p] = 0 /\ Owed'[p] = ip[p]
  BY <1>1 DEF Owed, InLink
<1>4. Count(Owed', i) + One(0, i) = Count(Owed, i) + One(ip[p], i)
  BY <1>3, OwedMove
<1>5. Count(Named', i) + One(ip[p], i) = Count(Named, i) + One(0, i)
  <2>1. \A d \in Inodes, n \in Names : ~(d = at[p] /\ n = LastName(p)) => entry'[d][n] = entry[d][n]
    BY <1>1, <1>2
  <2>2. entry'[at[p]][LastName(p)] = 0
    BY <1>1, <1>2
  <2>3. Count(Named', i) + One(entry[at[p]][LastName(p)], i) = Count(Named, i) + One(entry'[at[p]][LastName(p)], i)
    BY <1>1, <2>1, NamedMove
  <2>4. QED
    BY <1>1, <2>2, <2>3
<1>6. One(0, i) = 0 /\ One(ip[p], i) \in Nat
  BY <1>0 DEF One
<1>7. Links(i) + Count(Owed, i) <= nlink[i] /\ nlink[i] \in Nat
  BY <1>1, CoveredAt
<1>8. CASE i = at[p] /\ type[ip[p]] = "dir"
  <2>1. Subdirs(i)' = Subdirs(i) \ {LastName(p)} /\ LastName(p) \in Subdirs(i)
    <3>1. \A n \in Names : n # LastName(p) => (n \in Subdirs(i)' <=> n \in Subdirs(i))
      BY <1>1, <1>2, <1>8 DEF Subdirs
    <3>2. LastName(p) \notin Subdirs(i)' /\ LastName(p) \in Subdirs(i)
      BY <1>0, <1>1, <1>2, <1>8 DEF Subdirs
    <3>3. Subdirs(i) \subseteq Names /\ Subdirs(i)' \subseteq Names
      BY DEF Subdirs
    <3>4. QED
      BY <3>1, <3>2, <3>3
  <2>2. Cardinality(Subdirs(i)') = Cardinality(Subdirs(i)) - 1
    BY <2>1, LinksNat, FS_RemoveElement
  <2>3. nlink'[i] = nlink[i] - 1
    BY <1>1, <1>8
  <2>4. QED
    BY <1>4, <1>5, <1>6, <1>7, <2>2, <2>3, LinksNat, LinksNatNext DEF Links
<1>9. CASE ~(i = at[p] /\ type[ip[p]] = "dir")
  <2>1. Subdirs(i)' = Subdirs(i)
    <3>1. ASSUME NEW n \in Names
          PROVE  entry'[i][n] # 0 /\ type'[entry'[i][n]] = "dir" <=> entry[i][n] # 0 /\ type[entry[i][n]] = "dir"
      BY <1>1, <1>2, <1>9
    <3>2. QED
      BY <3>1, SubdirsSame
  <2>2. nlink'[i] = nlink[i]
    BY <1>1, <1>9
  <2>3. QED
    BY <1>4, <1>5, <1>6, <1>7, <2>1, <2>2, LinksNat, LinksNatNext DEF Links
<1>10. QED
  BY <1>8, <1>9

LEMMA LinkCovered ==
  ASSUME IInv, NEW p \in Procs, Alone(p), LinkNew(p), NEW i \in Inodes, type'[i] # "free"
  PROVE  Links(i)' + Count(Owed', i) <= nlink'[i]
<1>0. Types /\ 0 \notin Inodes
  BY InodesRange DEF IInv, RInv
<1>1. /\ pc[p] = "parent" /\ call[p].op = "link" /\ Target(p) = 0
      /\ ip[p] \in Inodes /\ type[ip[p]] = "file"
      /\ UNCHANGED <<type, nlink>> /\ pc'[p] = "idle"
      /\ \A d \in Inodes, n \in AllNames : entry'[d][n] = IF d = at[p] /\ n = LastName(p) THEN ip[p] ELSE entry[d][n]
  BY LinkEffect
<1>2. /\ at[p] \in Inodes /\ LastName(p) \in Names /\ entry[at[p]][LastName(p)] = 0
      /\ Names \subseteq AllNames
  BY <1>1, NewName DEF AllNames
<1>3. Owed[p] = ip[p] /\ Owed'[p] = 0
  BY <1>1 DEF Owed, InLink
<1>4. Count(Owed', i) + One(ip[p], i) = Count(Owed, i) + One(0, i)
  BY <1>3, OwedMove
<1>5. Count(Named', i) + One(0, i) = Count(Named, i) + One(ip[p], i)
  <2>1. \A d \in Inodes, n \in Names : ~(d = at[p] /\ n = LastName(p)) => entry'[d][n] = entry[d][n]
    BY <1>1, <1>2
  <2>2. entry'[at[p]][LastName(p)] = ip[p]
    BY <1>1, <1>2
  <2>3. Count(Named', i) + One(entry[at[p]][LastName(p)], i) = Count(Named, i) + One(entry'[at[p]][LastName(p)], i)
    BY <1>2, <2>1, NamedMove
  <2>4. QED
    BY <1>2, <2>2, <2>3
<1>6. One(0, i) = 0 /\ One(ip[p], i) \in Nat
  BY <1>0 DEF One
<1>7. Links(i) + Count(Owed, i) <= nlink[i] /\ nlink[i] \in Nat
  BY <1>1, CoveredAt
<1>8. Subdirs(i)' = Subdirs(i)
  <2>1. ASSUME NEW n \in Names
        PROVE  entry'[i][n] # 0 /\ type'[entry'[i][n]] = "dir" <=> entry[i][n] # 0 /\ type[entry[i][n]] = "dir"
    BY <1>1, <1>2
  <2>2. QED
    BY <2>1, SubdirsSame
<1>9. QED
  BY <1>1, <1>4, <1>5, <1>6, <1>7, <1>8, LinksNat, LinksNatNext DEF Links

LEMMA CoveredStep ==
  ASSUME IInv, NEW p \in Procs, Step(p)
  PROVE  Covered'
<1>0. Types /\ Types' /\ Alone(p)
  BY StepAlone, TypesStep DEF IInv, RInv
<1>1. ASSUME NEW i \in Inodes, type'[i] # "free" PROVE Links(i)' + Count(Owed', i) <= nlink'[i]
  <2>1. CASE IputFree(p) \/ CreateNew(p) \/ UnlinkErase(p) \/ LinkNew(p)
    BY <1>0, <1>1, <2>1, FreeCovered, CreateCovered, EraseCovered, LinkCovered
  <2>2. CASE ~IputFree(p) /\ ~CreateNew(p) /\ ~UnlinkErase(p) /\ ~LinkNew(p)
    <3>1. UNCHANGED <<type, entry>>
      BY <2>2, EntryMoves
    <3>2. Links(i)' = Links(i)
      BY <3>1 DEF Links, Named, Subdirs, Count
    <3>3. Count(Owed', i) + One(Owed[p], i) = Count(Owed, i) + One(Owed'[p], i)
      BY <1>0, OwedMove
    <3>4. nlink'[i] + One(Owed[p], i) = nlink[i] + One(Owed'[p], i)
      BY <2>2, OwedCounted
    <3>5. Links(i) + Count(Owed, i) <= nlink[i] /\ nlink[i] \in Nat /\ nlink'[i] \in Int
      BY <1>0, <1>1, <3>1, CoveredAt DEF Types
    <3>6. One(Owed[p], i) \in Nat /\ One(Owed'[p], i) \in Nat
      BY DEF One
    <3>7. QED
      BY <3>2, <3>3, <3>4, <3>5, <3>6, LinksNat, LinksNatNext
  <2>3. QED
    BY <2>1, <2>2
<1>2. ASSUME NEW i \in Inodes PROVE nlink'[i] >= 0
  <2>1. CASE type'[i] = "free"
    BY <2>1, FreeCount, CoveredAt
  <2>2. CASE type'[i] # "free"
    <3>1. Links(i)' + Count(Owed', i) <= nlink'[i] /\ nlink'[i] \in Int
      BY <1>0, <1>1, <2>2 DEF Types
    <3>2. Links(i)' \in Nat /\ Count(Owed', i) \in Nat
      BY LinksNatNext
    <3>3. QED
      BY <3>1, <3>2
  <2>3. QED
    BY <2>1, <2>2
<1>3. QED
  BY <1>1, <1>2 DEF Covered

-----------------------------------------------------------------------------
LEMMA NextStep == ASSUME Next PROVE \E p \in Procs : Step(p)
BY DEF Next, Step

LEMMA RInvNext == ASSUME RInv, [Next]_vars PROVE RInv'
<1>1. CASE Next
  <2>1. PICK p \in Procs : Step(p)
    BY <1>1, NextStep
  <2>2. QED
    BY <2>1, TypesStep, ShapeStep, OneFileStep, RefsStep DEF RInv
<1>2. CASE UNCHANGED vars
  <2>1. UNCHANGED <<type, nlink, entry, ref, lock, pc, call, at, todo, ip, puts, putting, cwd, fd>>
    BY <1>2 DEF vars, disk, held
  <2>2. Types' /\ OneFile'
    BY <2>1 DEF RInv, Types, OneFile
  <2>3. Shape'
    BY <2>1 DEF RInv, Shape, Fits, InLink, ToParent, Doing
  <2>4. RefsCounted'
    BY <2>1 DEF RInv, RefsCounted
  <2>5. QED
    BY <2>2, <2>3, <2>4 DEF RInv
<1>3. QED
  BY <1>1, <1>2

LEMMA IInvNext == ASSUME \A path \in Paths : DotFree(path.names), IInv, [Next]_vars PROVE IInv'
<1>0. RInv'
  BY RInvNext DEF IInv
<1>1. CASE Next
  <2>1. PICK p \in Procs : Step(p)
    BY <1>1, NextStep
  <2>2. QED
    BY <1>0, <2>1, LocksStep, TreeStep, KeptStep, FreeingStep, CoveredStep DEF IInv
<1>2. CASE UNCHANGED vars
  <2>1. UNCHANGED <<type, nlink, entry, ref, lock, pc, call, at, todo, ip, puts, putting, cwd, fd>>
    BY <1>2 DEF vars, disk, held
  <2>2. Locks' /\ Freeing'
    BY <2>1 DEF IInv, Locks, HoldsLock, Freeing
  <2>3. Tree' /\ Kept'
    BY <2>1 DEF IInv, Tree, Kept, Keeps, InLink
  <2>4. Covered'
    <3>1. Named' = Named /\ Owed' = Owed
      BY <2>1 DEF Named, Owed, InLink
    <3>2. \A i \in Inodes : Links(i)' = Links(i)
      BY <2>1, <3>1 DEF Links, Subdirs
    <3>3. QED
      BY <2>1, <3>1, <3>2 DEF IInv, Covered
  <2>5. QED
    BY <1>0, <2>2, <2>3, <2>4 DEF IInv
<1>3. QED
  BY <1>1, <1>2

(* No pointer to an inode is lost or given back twice, on any path out of  *)
(* any call, whatever the paths are: ip->ref counts them.                  *)
THEOREM RefsCountedHolds == Spec => []RefsCounted
<1>1. Init => RInv
  BY InitIInv DEF IInv
<1>2. RInv /\ [Next]_vars => RInv'
  BY RInvNext
<1>3. RInv => RefsCounted
  BY DEF RInv
<1>4. QED
  BY <1>1, <1>2, <1>3, PTL DEF Spec

(* Types, and no count below zero.                                         *)
THEOREM TypeHolds == ASSUME \A path \in Paths : DotFree(path.names) PROVE Spec => []TypeOK
<1>1. IInv /\ [Next]_vars => IInv'
  BY IInvNext
<1>2. IInv => TypeOK
  <2>1. SUFFICES ASSUME IInv PROVE TypeOK
    OBVIOUS
  <2>2. Types /\ OneFile
    BY <2>1 DEF IInv, RInv
  <2>3. nlink \in [Inodes -> Nat]
    BY <2>1, <2>2, CoveredAt DEF Types
  <2>4. QED
    BY <2>2, <2>3 DEF Types, OneFile, TypeOK
<1>3. QED
  BY InitIInv, <1>1, <1>2, PTL DEF Spec

(* nlink covers the entries, so that iput() cannot free what a directory   *)
(* names, and the victim of an unlink() has a link: the panic is out of    *)
(* reach.                                                                  *)
THEOREM LinksHoldHolds == ASSUME \A path \in Paths : DotFree(path.names) PROVE Spec => []LinksHold
<1>1. IInv /\ [Next]_vars => IInv'
  BY IInvNext
<1>2. IInv => LinksHold
  <2>1. SUFFICES ASSUME IInv PROVE LinksHold
    OBVIOUS
  <2>2. ASSUME NEW i \in Inodes, type[i] # "free" PROVE Links(i) <= nlink[i]
    BY <2>1, <2>2, CoveredAt, LinksNat
  <2>3. ASSUME NEW p \in Procs, pc[p] = "victim" PROVE nlink[ip[p]] > 0
    <3>1. Head(todo[p]) \in Names /\ entry[at[p]][Head(todo[p])] = ip[p]
      BY <2>1, <2>3 DEF IInv, Tree
    <3>2. at[p] \in Inodes /\ ip[p] \in Inodes
      BY <2>1, <2>3, AtHand DEF IInv, RInv, AtDir
    <3>3. nlink[ip[p]] >= 1
      BY <2>1, <3>1, <3>2, NamedLinked, InodesRange
    <3>4. nlink[ip[p]] \in Nat
      BY <2>1, <3>2, CoveredAt
    <3>5. QED
      BY <3>3, <3>4
  <2>4. QED
    BY <2>2, <2>3 DEF LinksHold, LinksCovered, VictimLinked
<1>3. QED
  BY InitIInv, <1>1, <1>2, PTL DEF Spec

(* What a directory names or a process refers to is allocated: no step     *)
(* reaches the panics of ilock() and dirlookup().                          *)
THEOREM NoDanglingHolds == ASSUME \A path \in Paths : DotFree(path.names) PROVE Spec => []NoDangling
<1>1. IInv /\ [Next]_vars => IInv'
  BY IInvNext
<1>2. IInv => NoDangling
  <2>1. SUFFICES ASSUME IInv PROVE NoDangling
    OBVIOUS
  <2>2. \A d \in Inodes, n \in Names : entry[d][n] # 0 => type[entry[d][n]] # "free"
    BY <2>1 DEF IInv, Tree
  <2>3. ASSUME NEW p \in Procs
        PROVE  /\ \A i \in {at[p], ip[p], cwd[p], fd[p]} \ {0} : type[i] # "free"
               /\ type[cwd[p]] = "dir"
               /\ pc[p] \in {"parent", "victim", "notempty", "linkdup"} => type[at[p]] = "dir"
    BY <2>1 DEF IInv, Kept, Keeps, AtDir
  <2>4. QED
    BY <2>2, <2>3 DEF NoDangling
<1>3. QED
  BY InitIInv, <1>1, <1>2, PTL DEF Spec

(* iput() frees only what nobody else refers to and no directory names,    *)
(* although it lets go of icache.lock between the test and the deed.       *)
THEOREM FreedUnusedHolds == ASSUME \A path \in Paths : DotFree(path.names) PROVE Spec => FreedUnused
<1>1. IInv /\ [Next]_vars => IInv'
  BY IInvNext
<1>2. IInv /\ [Next]_vars => [\A i \in Inodes : type[i] # "free" /\ type'[i] = "free" => Links(i) = 0 /\ ref[i] = 1]_vars
  <2>1. SUFFICES ASSUME IInv, Next, NEW i \in Inodes, type[i] # "free", type'[i] = "free"
                 PROVE  Links(i) = 0 /\ ref[i] = 1
    OBVIOUS
  <2>2. PICK p \in Procs : Step(p)
    BY <2>1, NextStep
  <2>3. putting[p] = "free" /\ i = Nth(puts[p], 1)
    BY <2>1, <2>2, TypeStays
  <2>4. QED
    BY <2>1, <2>3, Freed
<1>3. QED
  BY InitIInv, <1>1, <1>2, PTL DEF Spec, FreedUnused
=============================================================================
