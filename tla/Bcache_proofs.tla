---------------------------- MODULE Bcache_proofs ----------------------------
(***************************************************************************)
(* Proofs about the buffer cache, for every number of processes, blocks,   *)
(* values and buffers: no wakeup is lost, a buffer in use keeps its block, *)
(* bget() panics for want of buffers only, and the cache implements        *)
(* BlockStore.                                                             *)
(***************************************************************************)
EXTENDS Bcache, FiniteSetTheorems, SequenceTheorems, TLAPS

Places == {"out", "lock", "asleep", "got", "disk", "io", "hold", "rel"}
Users(b) == {p \in Hands : buf[p] = b}

Types ==
  /\ blockno \in [Bufs -> Blocks \cup {NoBlock}]
  /\ valid \in [Bufs -> BOOLEAN]
  /\ dirty \in [Bufs -> BOOLEAN]
  /\ refcnt \in [Bufs -> Nat]
  /\ owner \in [Bufs -> Hands \cup {Nobody}]
  /\ data \in [Bufs -> Vals]
  /\ idequeue \in Seq(Bufs)
  /\ disk \in [Blocks -> Vals]
  /\ pc \in [Hands -> Places]
  /\ buf \in [Hands -> Bufs \cup {NoBuf}]

(* A process is at a buffer from bget() to the end of brelse(), and counted  *)
(* in it.                                                                   *)
AtBuf == \A p \in Hands : pc[p] = "out" <=> buf[p] = NoBuf
Counted == \A b \in Bufs : refcnt[b] = Cardinality(Users(b))

(* No block is in two buffers, and a buffer without one has nothing.        *)
Cells ==
  /\ \A b \in Bufs : blockno[b] = NoBlock => Users(b) = {} /\ ~valid[b]
  /\ \A a, b \in Bufs : blockno[a] # NoBlock /\ blockno[a] = blockno[b] => a = b

(* The sleep lock of a buffer belongs to the one process that is past it.   *)
Owners ==
  /\ \A p \in Hands : Holding(p) => owner[buf[p]] = p
  /\ \A b \in Bufs, p \in Hands : owner[b] = p => Holding(p) /\ buf[p] = b

(* What a clean buffer holds is on the disk; whoever sleeps in iderw() has   *)
(* something to do, and finds it done when it is woken.                     *)
Reads ==
  /\ \A b \in Bufs : dirty[b] => valid[b]
  /\ \A b \in Bufs : valid[b] /\ ~dirty[b] => data[b] = disk[blockno[b]]
  /\ \A p \in Hands : pc[p] \in {"io", "hold"} => valid[buf[p]]
  /\ \A p \in Hands : pc[p] = "io" => ~dirty[buf[p]]
  /\ \A p \in Hands : pc[p] = "disk" => dirty[buf[p]] \/ ~valid[buf[p]]

(* QueueMatchesWaiters, request by request. *)
Queue ==
  /\ \A i, j \in 1..Len(idequeue) : idequeue[i] = idequeue[j] => i = j
  /\ \A i \in 1..Len(idequeue) : \E p \in Hands : pc[p] = "disk" /\ buf[p] = idequeue[i]
  /\ \A p \in Hands : pc[p] = "disk" => \E i \in 1..Len(idequeue) : idequeue[i] = buf[p]

IInv == Types /\ AtBuf /\ Counted /\ Cells /\ Owners /\ Reads /\ Queue /\ LockWakeupOwed

-----------------------------------------------------------------------------
LEMMA HandsFacts ==
  /\ Zero \in Vals /\ NoBlock \notin Blocks /\ NoBuf \notin Bufs /\ MaxPinned \in Nat
  /\ IsFiniteSet(Hands) /\ Nobody \notin Hands /\ Nobody \notin Procs
  /\ \A h \in Hands : h[1] \in Procs /\ Other(h) \in Hands
<1>1. IsFiniteSet({1, 2})
  <2>1. IsFiniteSet({1}) /\ {1, 2} = {1} \cup {2}
    BY FS_Singleton
  <2>2. QED
    BY <2>1, FS_AddElement
<1>2. IsFiniteSet(Hands)
  BY <1>1, BcacheAssumption, FS_Product DEF Hands
<1>3. ASSUME NEW h \in Hands PROVE h[1] \in Procs /\ Other(h) \in Hands
  BY DEF Hands, Other
<1>4. QED
  BY <1>2, <1>3, BcacheAssumption DEF Hands

LEMMA UsersFinite ==
  ASSUME NEW b
  PROVE  IsFiniteSet(Users(b)) /\ Cardinality(Users(b)) \in Nat
<1>1. Users(b) \subseteq Hands
  BY DEF Users
<1>2. QED
  BY <1>1, HandsFacts, FS_Subset, FS_CardinalityType

(* A buffer that nobody counts is nobody's. *)
LEMMA NoUsers ==
  ASSUME Counted, NEW b \in Bufs, refcnt[b] = 0
  PROVE  Users(b) = {} /\ \A p \in Hands : buf[p] # b
<1>1. Users(b) = {}
  BY UsersFinite, FS_EmptySet DEF Counted
<1>2. QED
  BY <1>1 DEF Users

LEMMA InitIInv == Init => IInv
<1> SUFFICES ASSUME Init PROVE IInv
  OBVIOUS
<1> USE HandsFacts
<1>1. Types /\ AtBuf /\ Owners /\ Reads /\ Queue /\ LockWakeupOwed
  BY DEF Init, Types, Places, AtBuf, Owners, Holding, Reads, Queue, LockWakeupOwed
<1>2. \A b \in Bufs : Users(b) = {}
  BY DEF Init, Users
<1>3. Counted
  BY <1>2, FS_EmptySet DEF Init, Counted
<1>4. Cells
  BY <1>2 DEF Init, Cells
<1>5. QED
  BY <1>1, <1>3, <1>4 DEF IInv

(* What a process does by itself, without the disk. *)
Step(p) ==
  \/ Kernel(p)
  \/ \E n \in Blocks : BgetHit(p, n) \/ BgetRecycle(p, n)
  \/ \E v \in Vals : Bwrite(p, v) \/ LogWrite(p, v)

LEMMA TypesStep ==
  ASSUME IInv, Next
  PROVE  Types'
<1>0. Types /\ AtBuf
  BY DEF IInv
<1>1. ASSUME NEW p \in Hands, Step(p) PROVE Types'
  <2> USE DEF Types, Places
  <2>0. pc[p] # "out" => buf[p] \in Bufs
    BY <1>0, HandsFacts DEF AtBuf
  <2>1. CASE AcquireSleep(p)
    BY <1>0, <2>1 DEF AcquireSleep
  <2>2. CASE Brelse(p)
    BY <1>0, <2>2 DEF Brelse, WakeLock, Idle
  <2>3. CASE BrelseDone(p)
    <3>1. refcnt[buf[p]] - 1 \in Nat
      <4>1. buf[p] \in Bufs /\ p \in Users(buf[p])
        BY <2>0, <2>3 DEF BrelseDone, Users
      <4>2. Cardinality(Users(buf[p])) \in Nat /\ Cardinality(Users(buf[p])) # 0
        BY <4>1, UsersFinite, FS_EmptySet
      <4>3. refcnt[buf[p]] = Cardinality(Users(buf[p]))
        BY <4>1 DEF IInv, Counted
      <4>4. QED
        BY <4>2, <4>3
    <3>2. QED
      BY <1>0, <2>3, <3>1 DEF BrelseDone, Left
  <2>4. CASE BreadCached(p)
    BY <1>0, <2>4 DEF BreadCached, cache
  <2>5. CASE BreadDisk(p)
    BY <1>0, <2>0, <2>5, AppendProperties DEF BreadDisk, Iderw, cache
  <2>6. CASE IderwDone(p)
    BY <1>0, <2>6 DEF IderwDone, cache
  <2>7. ASSUME NEW n \in Blocks, BgetHit(p, n) PROVE Types'
    BY <1>0, <2>7 DEF BgetHit, Cached, MayRead
  <2>8. ASSUME NEW n \in Blocks, BgetRecycle(p, n) PROVE Types'
    BY <1>0, <2>8 DEF BgetRecycle, Unused, MayRead
  <2>9. ASSUME NEW v \in Vals, Bwrite(p, v) PROVE Types'
    BY <1>0, <2>0, <2>9, AppendProperties DEF Bwrite, Iderw, Idle
  <2>10. ASSUME NEW v \in Vals, LogWrite(p, v) PROVE Types'
    BY <1>0, <2>10 DEF LogWrite, Idle
  <2>11. QED
    BY <1>1, <2>1, <2>2, <2>3, <2>4, <2>5, <2>6, <2>7, <2>8, <2>9, <2>10 DEF Step, Kernel
<1>2. CASE Ideintr
  <2>1. Head(idequeue) \in Bufs /\ Tail(idequeue) \in Seq(Bufs)
    BY <1>0, <1>2, HeadTailProperties DEF Ideintr, Types
  <2>2. blockno[Head(idequeue)] \in Blocks
    <3>1. 1 \in 1..Len(idequeue) /\ Head(idequeue) = idequeue[1]
      BY <1>0, <1>2 DEF Ideintr, Types
    <3>2. PICK p \in Hands : buf[p] = Head(idequeue)
      BY <3>1 DEF IInv, Queue
    <3>3. p \in Users(Head(idequeue))
      BY <3>2 DEF Users
    <3>4. QED
      BY <1>0, <2>1, <3>3 DEF IInv, Cells, Types
  <2>3. QED
    BY <1>0, <1>2, <2>1, <2>2 DEF Ideintr, WakeDisk, Types, Places
<1>3. QED
  BY <1>1, <1>2 DEF Next, Step

(* A step that leaves the references as they are. *)
LEMMA CellsFrame ==
  ASSUME IInv, UNCHANGED <<blockno, refcnt, buf>>,
         \A p \in Hands : pc'[p] = "out" <=> pc[p] = "out",
         \A b \in Bufs : valid'[b] => valid[b] \/ blockno[b] # NoBlock
  PROVE  AtBuf' /\ Counted' /\ Cells'
<1>1. \A b : Users(b)' = Users(b)
  BY DEF Users
<1>2. QED
  BY <1>1 DEF IInv, AtBuf, Counted, Cells

LEMMA CellsStep ==
  ASSUME IInv, Next
  PROVE  AtBuf' /\ Counted' /\ Cells'
<1>0. Types /\ AtBuf /\ Counted /\ Cells
  BY DEF IInv
<1>1. ASSUME NEW p \in Hands, NEW n \in Blocks, BgetHit(p, n) PROVE AtBuf' /\ Counted' /\ Cells'
  <2>1. PICK b \in Bufs : /\ blockno[b] = n
                         /\ refcnt' = [refcnt EXCEPT ![b] = @ + 1]
                         /\ buf' = [buf EXCEPT ![p] = b]
    BY <1>1 DEF BgetHit, Cached, MayRead
  <2>2. /\ pc[p] = "out" /\ buf[p] = NoBuf /\ pc' = [pc EXCEPT ![p] = "lock"]
        /\ UNCHANGED <<blockno, valid>>
    BY <1>0, <1>1 DEF BgetHit, AtBuf, MayRead
  <2>3. /\ Users(b)' = Users(b) \cup {p} /\ p \notin Users(b)
        /\ \A a \in Bufs \ {b} : Users(a)' = Users(a)
    BY <1>0, <2>1, <2>2, HandsFacts DEF Users, Types
  <2>4. AtBuf'
    BY <1>0, <2>1, <2>2, HandsFacts DEF AtBuf, Types
  <2>5. Counted'
    <3>1. Cardinality(Users(b)') = Cardinality(Users(b)) + 1
      BY <2>3, UsersFinite, FS_AddElement
    <3>2. QED
      BY <1>0, <2>1, <2>3, <3>1 DEF Counted, Types
  <2>6. Cells'
    BY <1>0, <2>1, <2>2, <2>3, HandsFacts DEF Cells
  <2>7. QED
    BY <2>4, <2>5, <2>6
<1>2. ASSUME NEW p \in Hands, NEW n \in Blocks, BgetRecycle(p, n)
      PROVE  AtBuf' /\ Counted' /\ Cells'
  <2>1. PICK b \in Bufs : /\ refcnt[b] = 0
                         /\ blockno' = [blockno EXCEPT ![b] = n]
                         /\ valid' = [valid EXCEPT ![b] = FALSE]
                         /\ refcnt' = [refcnt EXCEPT ![b] = 1]
                         /\ buf' = [buf EXCEPT ![p] = b]
    BY <1>2 DEF BgetRecycle, Unused, MayRead
  <2>2. /\ pc[p] = "out" /\ buf[p] = NoBuf /\ pc' = [pc EXCEPT ![p] = "lock"]
        /\ \A a \in Bufs : blockno[a] # n
    BY <1>0, <1>2 DEF BgetRecycle, AtBuf, Cached, MayRead
  <2>3. Users(b) = {} /\ \A q \in Hands : buf[q] # b
    BY <1>0, <2>1, NoUsers
  <2>4. Users(b)' = {p} /\ \A a \in Bufs \ {b} : Users(a)' = Users(a)
    BY <1>0, <2>1, <2>2, <2>3, HandsFacts DEF Users, Types
  <2>5. AtBuf'
    BY <1>0, <2>1, <2>2, HandsFacts DEF AtBuf, Types
  <2>6. Counted'
    BY <1>0, <2>1, <2>4, FS_Singleton DEF Counted, Types
  <2>7. Cells'
    BY <1>0, <2>1, <2>2, <2>4, HandsFacts DEF Cells, Types
  <2>8. QED
    BY <2>5, <2>6, <2>7
<1>3. ASSUME NEW p \in Hands, BrelseDone(p) PROVE AtBuf' /\ Counted' /\ Cells'
  <2>0. PICK b \in Bufs : b = buf[p]
    BY <1>0, <1>3, HandsFacts DEF BrelseDone, AtBuf, Types
  <2>1. /\ pc[p] = "rel"
        /\ refcnt' = [refcnt EXCEPT ![b] = @ - 1]
        /\ buf' = [buf EXCEPT ![p] = NoBuf] /\ pc' = [pc EXCEPT ![p] = "out"]
        /\ UNCHANGED <<blockno, valid>>
    BY <1>3, <2>0 DEF BrelseDone, Left
  <2>2. /\ Users(b)' = Users(b) \ {p} /\ p \in Users(b)
        /\ \A a \in Bufs \ {b} : Users(a)' = Users(a)
    <3>1. buf'[p] = NoBuf /\ NoBuf \notin Bufs /\ \A q \in Hands \ {p} : buf'[q] = buf[q]
      BY <1>0, <2>1, HandsFacts DEF Types
    <3>2. QED
      BY <2>0, <3>1 DEF Users
  <2>3. AtBuf'
    BY <1>0, <2>1, HandsFacts DEF AtBuf, Types
  <2>4. Counted'
    <3>1. Cardinality(Users(b)') = Cardinality(Users(b)) - 1
      BY <2>2, UsersFinite, FS_RemoveElement
    <3>2. QED
      <4>1. refcnt'[b] = refcnt[b] - 1 /\ \A a \in Bufs \ {b} : refcnt'[a] = refcnt[a]
        BY <1>0, <2>1 DEF Types
      <4>2. QED
        BY <1>0, <2>1, <2>2, <3>1, <4>1 DEF Counted
  <2>5. Cells'
    BY <1>0, <2>1, <2>2 DEF Cells
  <2>6. QED
    BY <2>3, <2>4, <2>5
<1>4. ASSUME NEW p \in Hands,
             \/ AcquireSleep(p) \/ Brelse(p) \/ BreadCached(p) \/ BreadDisk(p) \/ IderwDone(p)
             \/ \E v \in Vals : Bwrite(p, v) \/ LogWrite(p, v)
      PROVE  AtBuf' /\ Counted' /\ Cells'
  <2>1. UNCHANGED <<blockno, valid, refcnt, buf>>
    BY <1>4 DEF AcquireSleep, Brelse, BreadCached, BreadDisk, IderwDone, Bwrite, LogWrite, cache, Idle
  <2>2. \A q \in Hands : pc'[q] = "out" <=> pc[q] = "out"
    BY <1>0, <1>4
    DEF AcquireSleep, Brelse, WakeLock, BreadCached, BreadDisk, Iderw, IderwDone, Bwrite, LogWrite, Types, Idle
  <2>3. QED
    BY <2>1, <2>2, CellsFrame
<1>5. CASE Ideintr
  <2>1. UNCHANGED <<blockno, refcnt, buf>> /\ valid' = [valid EXCEPT ![Head(idequeue)] = TRUE]
    BY <1>5 DEF Ideintr
  <2>2. \A q \in Hands : pc'[q] = "out" <=> pc[q] = "out"
    BY <1>5 DEF Ideintr, WakeDisk
  <2>3. blockno[Head(idequeue)] # NoBlock
    <3>1. 1 \in 1..Len(idequeue) /\ Head(idequeue) = idequeue[1] /\ idequeue[1] \in Bufs
      BY <1>0, <1>5 DEF Ideintr, Types
    <3>2. PICK p \in Hands : buf[p] = idequeue[1]
      BY <3>1 DEF IInv, Queue
    <3>3. p \in Users(idequeue[1])
      BY <3>2 DEF Users
    <3>4. QED
      BY <1>0, <3>1, <3>3 DEF Cells
  <2>4. \A b \in Bufs : valid'[b] => valid[b] \/ blockno[b] # NoBlock
    BY <1>0, <2>1, <2>3 DEF Types
  <2>5. QED
    BY <2>1, <2>2, <2>4, CellsFrame
<1>6. QED
  BY <1>1, <1>2, <1>3, <1>4, <1>5 DEF Next, Kernel

(* Only one process is past the lock of a buffer. *)
LEMMA OneHolder ==
  ASSUME IInv, NEW p \in Hands, Holding(p), NEW q \in Hands, Holding(q), buf[p] = buf[q]
  PROVE  p = q
BY DEF IInv, Owners

(* The buffer that the disk works on, and who waits for it. *)
LEMMA Served ==
  ASSUME IInv, idequeue # << >>
  PROVE  /\ Head(idequeue) \in Bufs /\ blockno[Head(idequeue)] \in Blocks
         /\ \E r \in Hands : pc[r] = "disk" /\ buf[r] = Head(idequeue)
<1>0. Types
  BY DEF IInv
<1>1. 1 \in 1..Len(idequeue) /\ Head(idequeue) = idequeue[1] /\ idequeue[1] \in Bufs
  BY <1>0 DEF Types
<1>2. PICK r \in Hands : pc[r] = "disk" /\ buf[r] = idequeue[1]
  BY <1>1 DEF IInv, Queue
<1>3. r \in Users(idequeue[1])
  BY <1>2 DEF Users
<1>4. blockno[idequeue[1]] \in Blocks
  BY <1>0, <1>1, <1>3 DEF IInv, Cells, Types
<1>5. QED
  BY <1>1, <1>2, <1>4

LEMMA OwnersStep ==
  ASSUME IInv, Next
  PROVE  Owners' /\ LockWakeupOwed'
<1>0. Types /\ AtBuf /\ Owners /\ LockWakeupOwed
  BY DEF IInv
<1>1. ASSUME NEW p \in Hands, Step(p) PROVE Owners' /\ LockWakeupOwed'
  <2> USE DEF Owners, LockWakeupOwed, Holding, Types
  <2>0. pc[p] # "out" => buf[p] \in Bufs
    BY <1>0, HandsFacts DEF AtBuf
  <2>1. CASE AcquireSleep(p)
    <3>1. CASE owner[buf[p]] = Nobody
      <4>1. /\ pc[p] = "lock" /\ pc' = [pc EXCEPT ![p] = "got"] /\ buf' = buf
            /\ owner' = [owner EXCEPT ![buf[p]] = p]
        BY <2>1, <3>1 DEF AcquireSleep
      <4>2. \A q \in Hands : Holding(q) => q # p /\ buf[q] # buf[p]
        BY <1>0, <3>1, <4>1, HandsFacts
      <4>3. LockWakeupOwed'
        BY <1>0, <2>0, <4>1, HandsFacts
      <4>4. \A q \in Hands : Holding(q)' => owner'[buf'[q]] = q
        BY <1>0, <2>0, <4>1, <4>2
      <4>5. \A b \in Bufs, q \in Hands : owner'[b] = q => Holding(q)' /\ buf'[q] = b
        BY <1>0, <2>0, <4>1, <4>2
      <4>6. QED
        BY <4>3, <4>4, <4>5
    <3>2. CASE owner[buf[p]] # Nobody
      <4>1. /\ pc[p] = "lock" /\ pc' = [pc EXCEPT ![p] = "asleep"] /\ buf' = buf
            /\ owner' = owner
        BY <2>1, <3>2 DEF AcquireSleep
      <4>2. \A q \in Hands : Holding(q)' <=> Holding(q)
        BY <1>0, <4>1
      <4>3. Owners'
        BY <1>0, <4>1, <4>2
      <4>4. LockWakeupOwed'
        BY <1>0, <3>2, <4>1
      <4>5. QED
        BY <4>3, <4>4
    <3>3. QED
      BY <3>1, <3>2
  <2>2. CASE Brelse(p)
    <3>1. /\ pc'[p] = "rel" /\ owner'[buf[p]] = Nobody /\ buf' = buf
          /\ \A b \in Bufs : b # buf[p] => owner'[b] = owner[b]
          /\ \A q \in Hands \ {p} : pc'[q] = IF pc[q] = "asleep" /\ buf[q] = buf[p] THEN "lock" ELSE pc[q]
      BY <1>0, <2>0, <2>2 DEF Brelse, WakeLock, Idle
    <3>2. \A q \in Hands \ {p} : Holding(q) => buf[q] # buf[p] /\ buf[q] \in Bufs
      BY <1>0, <2>0, <2>2, HandsFacts DEF Brelse, AtBuf, Idle
    <3>3. \A q \in Hands \ {p} : pc'[q] = "asleep" => pc[q] = "asleep" /\ buf[q] # buf[p] /\ buf[q] \in Bufs
      BY <1>0, <3>1, HandsFacts DEF AtBuf
    <3>4. Owners'
      <4>1. \A q \in Hands : Holding(q)' => q # p /\ Holding(q)
        BY <3>1
      <4>2. \A q \in Hands : Holding(q)' => owner'[buf'[q]] = q
        BY <1>0, <3>1, <3>2, <4>1
      <4>3. ASSUME NEW b \in Bufs, NEW q \in Hands, owner'[b] = q PROVE Holding(q)' /\ buf'[q] = b
        <5>1. b # buf[p] /\ owner[b] = q
          BY <3>1, <4>3, HandsFacts
        <5>2. Holding(q) /\ buf[q] = b /\ q # p
          BY <1>0, <5>1
        <5>3. QED
          BY <3>1, <5>1, <5>2
      <4>4. QED
        BY <4>2, <4>3
    <3>5. LockWakeupOwed'
      BY <1>0, <3>1, <3>3
    <3>6. QED
      BY <3>4, <3>5
  <2>3. CASE BrelseDone(p)
    BY <1>0, <2>3 DEF BrelseDone
  <2>4. CASE BreadCached(p)
    BY <1>0, <2>4 DEF BreadCached, cache
  <2>5. CASE BreadDisk(p)
    BY <1>0, <2>5 DEF BreadDisk, Iderw, cache
  <2>6. CASE IderwDone(p)
    BY <1>0, <2>6 DEF IderwDone, cache
  <2>7. ASSUME NEW n \in Blocks, BgetHit(p, n) \/ BgetRecycle(p, n) PROVE Owners' /\ LockWakeupOwed'
    <3>1. /\ pc[p] = "out" /\ pc' = [pc EXCEPT ![p] = "lock"] /\ owner' = owner
          /\ \A q \in Hands \ {p} : buf'[q] = buf[q]
      BY <1>0, <2>7 DEF BgetHit, BgetRecycle, MayRead
    <3>2. QED
      BY <1>0, <3>1, HandsFacts
  <2>8. ASSUME NEW v \in Vals, Bwrite(p, v) PROVE Owners' /\ LockWakeupOwed'
    BY <1>0, <2>8 DEF Bwrite, Iderw, Idle
  <2>9. ASSUME NEW v \in Vals, LogWrite(p, v) PROVE Owners' /\ LockWakeupOwed'
    BY <1>0, <2>9 DEF LogWrite, Idle
  <2>10. QED
    BY <1>1, <2>1, <2>2, <2>3, <2>4, <2>5, <2>6, <2>7, <2>8, <2>9 DEF Step, Kernel
<1>2. CASE Ideintr
  BY <1>0, <1>2 DEF Ideintr, WakeDisk, Owners, LockWakeupOwed, Holding, Types
<1>3. QED
  BY <1>1, <1>2 DEF Next, Step

LEMMA ReadsStep ==
  ASSUME IInv, Next
  PROVE  Reads'
<1>0. Types /\ AtBuf /\ Cells /\ Owners /\ Reads
  BY DEF IInv
<1>1. ASSUME NEW p \in Hands, Step(p) PROVE Reads'
  <2> USE DEF Reads, Types
  <2>0. pc[p] # "out" => buf[p] \in Bufs
    BY <1>0, HandsFacts DEF AtBuf
  <2>1. CASE AcquireSleep(p) \/ BrelseDone(p)
    BY <1>0, <2>1 DEF AcquireSleep, BrelseDone
  <2>2. CASE Brelse(p)
    BY <1>0, <2>2 DEF Brelse, WakeLock, Idle
  <2>3. CASE BreadCached(p) \/ BreadDisk(p) \/ IderwDone(p)
    BY <1>0, <2>3 DEF BreadCached, BreadDisk, IderwDone, Iderw, cache
  <2>4. ASSUME NEW n \in Blocks, BgetHit(p, n) PROVE Reads'
    <3>1. /\ pc' = [pc EXCEPT ![p] = "lock"] /\ UNCHANGED <<blockno, valid, dirty, data, disk>>
          /\ \A q \in Hands \ {p} : buf'[q] = buf[q]
      BY <1>0, <2>4 DEF BgetHit, MayRead
    <3>2. QED
      BY <1>0, <3>1
  <2>5. ASSUME NEW n \in Blocks, BgetRecycle(p, n) PROVE Reads'
    <3>1. PICK b \in Unused : /\ blockno' = [blockno EXCEPT ![b] = n]
                             /\ valid' = [valid EXCEPT ![b] = FALSE]
                             /\ dirty' = [dirty EXCEPT ![b] = FALSE]
                             /\ buf' = [buf EXCEPT ![p] = b]
                             /\ pc' = [pc EXCEPT ![p] = "lock"]
                             /\ UNCHANGED <<data, disk>>
      BY <2>5 DEF BgetRecycle, MayRead
    <3>2. b \in Bufs /\ \A q \in Hands : buf[q] # b
      BY NoUsers DEF Unused, IInv
    <3>3. \A q \in Hands \ {p} : pc[q] # "out" => buf[q] \in Bufs \ {b}
      BY <1>0, <3>2, HandsFacts DEF AtBuf
    <3>4. \A a \in Bufs \ {b} : /\ valid'[a] = valid[a] /\ dirty'[a] = dirty[a]
                               /\ blockno'[a] = blockno[a]
      BY <1>0, <3>1
    <3>5. ~valid'[b] /\ ~dirty'[b]
      BY <1>0, <3>1, <3>2
    <3>6. /\ \A q \in Hands \ {p} : pc'[q] = pc[q] /\ buf'[q] = buf[q]
          /\ pc'[p] = "lock"
      BY <1>0, <3>1
    <3>7. \A a \in Bufs : valid'[a] /\ ~dirty'[a] => data'[a] = disk'[blockno'[a]]
      BY <1>0, <3>1, <3>4, <3>5
    <3>8. \A a \in Bufs : dirty'[a] => valid'[a]
      BY <1>0, <3>4, <3>5
    <3>9. ASSUME NEW q \in Hands, pc'[q] \in {"io", "hold", "disk"}
          PROVE  /\ pc'[q] = pc[q] /\ buf'[q] = buf[q]
                 /\ valid'[buf[q]] = valid[buf[q]] /\ dirty'[buf[q]] = dirty[buf[q]]
      BY <3>3, <3>4, <3>6, <3>9
    <3>10. \A q \in Hands : pc'[q] \in {"io", "hold"} => valid'[buf'[q]]
      BY <1>0, <3>9
    <3>11. \A q \in Hands : pc'[q] = "io" => ~dirty'[buf'[q]]
      BY <1>0, <3>9
    <3>12. \A q \in Hands : pc'[q] = "disk" => dirty'[buf'[q]] \/ ~valid'[buf'[q]]
      BY <1>0, <3>9
    <3>13. QED
      BY <3>7, <3>8, <3>10, <3>11, <3>12
  <2>6. ASSUME NEW v \in Vals, Bwrite(p, v) \/ LogWrite(p, v) PROVE Reads'
    <3>1. /\ pc[p] = "hold" /\ pc'[p] \in {"hold", "disk"} /\ buf' = buf
          /\ \A q \in Hands \ {p} : pc'[q] = pc[q]
          /\ data' = [data EXCEPT ![buf[p]] = v]
          /\ dirty' = [dirty EXCEPT ![buf[p]] = TRUE]
          /\ UNCHANGED <<blockno, valid, disk>>
      BY <1>0, <2>6 DEF Bwrite, LogWrite, Iderw, Idle
    <3>2. \A q \in Hands \ {p} : pc[q] \in {"io", "disk"} => buf[q] # buf[p] /\ buf[q] \in Bufs
      BY <1>0, <3>1, OneHolder, HandsFacts DEF Holding, AtBuf
    <3>3. QED
      BY <1>0, <2>0, <3>1, <3>2
  <2>7. QED
    BY <1>1, <2>1, <2>2, <2>3, <2>4, <2>5, <2>6 DEF Step, Kernel
<1>2. CASE Ideintr
  <2>1. PICK b \in Bufs : b = Head(idequeue) /\ blockno[b] \in Blocks
    BY <1>2, Served DEF Ideintr
  <2>2. PICK r \in Hands : pc[r] = "disk" /\ buf[r] = b
    BY <1>2, <2>1, Served DEF Ideintr
  <2>3. /\ valid' = [valid EXCEPT ![b] = TRUE] /\ dirty' = [dirty EXCEPT ![b] = FALSE]
        /\ pc' = WakeDisk(b) /\ UNCHANGED <<blockno, buf>>
        /\ IF dirty[b]
             THEN disk' = [disk EXCEPT ![blockno[b]] = data[b]] /\ UNCHANGED data
             ELSE data' = [data EXCEPT ![b] = disk[blockno[b]]] /\ UNCHANGED disk
    BY <1>2, <2>1 DEF Ideintr
  <2>4. data'[b] = disk'[blockno'[b]]
    BY <1>0, <2>1, <2>3 DEF Types
  <2>5. ASSUME NEW a \in Bufs \ {b}, valid'[a], ~dirty'[a] PROVE data'[a] = disk'[blockno'[a]]
    <3>1. valid[a] /\ ~dirty[a] /\ data'[a] = data[a] /\ blockno'[a] = blockno[a]
      BY <1>0, <2>3, <2>5 DEF Types
    <3>2. blockno[a] \in Blocks /\ blockno[a] # blockno[b]
      BY <1>0, <2>1, <3>1, HandsFacts DEF Cells, Types
    <3>3. disk'[blockno[a]] = disk[blockno[a]]
      BY <1>0, <2>3, <3>2 DEF Types
    <3>4. QED
      BY <1>0, <3>1, <3>3 DEF Reads
  <2>6. \A a \in Bufs \ {b} : valid'[a] = valid[a] /\ dirty'[a] = dirty[a]
    BY <1>0, <2>3 DEF Types
  <2>7. valid'[b] /\ ~dirty'[b]
    BY <1>0, <2>1, <2>3 DEF Types
  <2>8. \A q \in Hands : /\ buf'[q] = buf[q]
                         /\ pc'[q] = IF pc[q] = "disk" /\ buf[q] = b THEN "io" ELSE pc[q]
    BY <1>0, <2>3 DEF WakeDisk
  <2>9. \A q \in Hands : pc[q] # "out" => buf[q] \in Bufs
    BY <1>0, HandsFacts DEF AtBuf, Types
  <2>10. QED
    BY <1>0, <2>4, <2>5, <2>6, <2>7, <2>8, <2>9 DEF Reads
<1>3. QED
  BY <1>1, <1>2 DEF Next, Step

(* A step that leaves the queue and whoever waits for it. *)
LEMMA QueueFrame ==
  ASSUME Queue, idequeue' = idequeue,
         \A q \in Hands : pc'[q] = "disk" <=> pc[q] = "disk",
         \A q \in Hands : pc[q] = "disk" => buf'[q] = buf[q]
  PROVE  Queue'
BY DEF Queue

(* iderw(): the holder of a buffer is not in the queue yet. *)
LEMMA QueueAppend ==
  ASSUME IInv, NEW p \in Hands, pc[p] \in {"got", "hold"}, Iderw(p), buf' = buf
  PROVE  Queue'
<1>0. Types /\ AtBuf /\ Queue /\ buf[p] \in Bufs
  BY HandsFacts DEF IInv, Types, AtBuf
<1>1. /\ Len(idequeue) \in Nat /\ Len(idequeue') = Len(idequeue) + 1
      /\ \A i \in 1..Len(idequeue) : idequeue'[i] = idequeue[i]
      /\ idequeue'[Len(idequeue) + 1] = buf[p]
  BY <1>0, AppendProperties, LenProperties DEF Iderw, Types
<1>2. \A q \in Hands : pc'[q] = "disk" <=> pc[q] = "disk" \/ q = p
  BY <1>0 DEF Iderw, Types
<1>3. \A i \in 1..Len(idequeue) : idequeue[i] # buf[p]
  <2>1. \A q \in Hands : pc[q] = "disk" => buf[q] # buf[p]
    BY OneHolder DEF Holding
  <2>2. QED
    BY <1>0, <2>1 DEF Queue
<1>4. \A i \in 1..Len(idequeue') : i \in 1..Len(idequeue) \/ i = Len(idequeue) + 1
  BY <1>1
<1>5. \A i, j \in 1..Len(idequeue') : idequeue'[i] = idequeue'[j] => i = j
  BY <1>0, <1>1, <1>3, <1>4 DEF Queue
<1>6. \A i \in 1..Len(idequeue') : \E q \in Hands : pc'[q] = "disk" /\ buf'[q] = idequeue'[i]
  BY <1>0, <1>1, <1>2, <1>4 DEF Queue
<1>7. ASSUME NEW q \in Hands, pc'[q] = "disk"
      PROVE  \E i \in 1..Len(idequeue') : idequeue'[i] = buf'[q]
  <2>1. CASE q = p
    BY <1>1, <2>1
  <2>2. CASE q # p
    <3>1. PICK i \in 1..Len(idequeue) : idequeue[i] = buf[q]
      BY <1>0, <1>2, <1>7, <2>2 DEF Queue
    <3>2. i \in 1..Len(idequeue') /\ idequeue'[i] = buf'[q]
      BY <1>1, <3>1
    <3>3. QED
      BY <3>2
  <2>3. QED
    BY <2>1, <2>2
<1>8. QED
  BY <1>5, <1>6, <1>7 DEF Queue

(* ideintr(): the first request leaves the queue and its process the wait. *)
LEMMA QueueServed ==
  ASSUME IInv, Ideintr
  PROVE  Queue'
<1>0. Types /\ Queue /\ idequeue # << >>
  BY DEF IInv, Ideintr
<1>1. /\ Len(idequeue) \in Nat /\ Len(idequeue) > 0
      /\ Head(idequeue) = idequeue[1]
      /\ idequeue' = Tail(idequeue) /\ Len(idequeue') = Len(idequeue) - 1
      /\ \A i \in 1..Len(idequeue') : idequeue'[i] = idequeue[i + 1]
  BY <1>0, HeadTailProperties, LenProperties DEF Ideintr, Types
<1>2. /\ buf' = buf
      /\ \A q \in Hands : pc'[q] = "disk" <=> pc[q] = "disk" /\ buf[q] # idequeue[1]
  BY <1>1 DEF Ideintr, WakeDisk
<1>3. \A i \in 1..Len(idequeue') : i + 1 \in 1..Len(idequeue) /\ idequeue[i + 1] # idequeue[1]
  BY <1>0, <1>1 DEF Queue
<1>4. \A i, j \in 1..Len(idequeue') : idequeue'[i] = idequeue'[j] => i = j
  <2>1. \A i, j \in 1..Len(idequeue') : idequeue[i + 1] = idequeue[j + 1] => i + 1 = j + 1
    BY <1>0, <1>3 DEF Queue
  <2>2. QED
    BY <1>1, <2>1
<1>5. \A i \in 1..Len(idequeue') : \E q \in Hands : pc'[q] = "disk" /\ buf'[q] = idequeue'[i]
  <2>1. ASSUME NEW i \in 1..Len(idequeue')
        PROVE  \E q \in Hands : pc'[q] = "disk" /\ buf'[q] = idequeue'[i]
    <3>1. PICK q \in Hands : pc[q] = "disk" /\ buf[q] = idequeue[i + 1]
      BY <1>0, <1>3 DEF Queue
    <3>2. QED
      BY <1>1, <1>2, <1>3, <3>1
  <2>2. QED
    BY <2>1
<1>6. ASSUME NEW q \in Hands, pc'[q] = "disk"
      PROVE  \E i \in 1..Len(idequeue') : idequeue'[i] = buf'[q]
  <2>1. PICK j \in 1..Len(idequeue) : idequeue[j] = buf[q]
    BY <1>0, <1>2, <1>6 DEF Queue
  <2>2. j # 1
    BY <1>2, <1>6, <2>1
  <2>3. j - 1 \in 1..Len(idequeue') /\ idequeue'[j - 1] = idequeue[(j - 1) + 1] /\ (j - 1) + 1 = j
    BY <1>1, <2>2
  <2>4. QED
    BY <1>2, <2>1, <2>3
<1>7. QED
  BY <1>4, <1>5, <1>6 DEF Queue

LEMMA QueueStep ==
  ASSUME IInv, Next
  PROVE  Queue'
<1>0. Types /\ Reads /\ Queue
  BY DEF IInv
<1>1. ASSUME NEW p \in Hands, Step(p) PROVE Queue'
  <2>1. CASE BreadDisk(p) \/ \E v \in Vals : Bwrite(p, v)
    BY <2>1, QueueAppend DEF BreadDisk, Bwrite, Idle
  <2>2. CASE IderwDone(p)
    <3>1. pc[p] = "io" /\ pc' = [pc EXCEPT ![p] = "hold"] /\ UNCHANGED <<idequeue, buf>>
      BY <1>0, <2>2 DEF IderwDone, Reads
    <3>2. QED
      BY <1>0, <3>1, QueueFrame DEF Types
  <2>3. CASE \/ AcquireSleep(p) \/ Brelse(p) \/ BrelseDone(p) \/ BreadCached(p)
             \/ \E n \in Blocks : BgetHit(p, n) \/ BgetRecycle(p, n)
             \/ \E v \in Vals : LogWrite(p, v)
    <3>1. /\ idequeue' = idequeue
          /\ \A q \in Hands : pc'[q] = "disk" <=> pc[q] = "disk"
      BY <1>0, <2>3
      DEF AcquireSleep, Brelse, WakeLock, BrelseDone, BreadCached, BgetHit, BgetRecycle, LogWrite, Types, Idle, MayRead
    <3>2. \A q \in Hands \ {p} : buf'[q] = buf[q]
      <4>1. CASE AcquireSleep(p) \/ Brelse(p) \/ BrelseDone(p) \/ BreadCached(p)
        BY <1>0, <4>1 DEF AcquireSleep, Brelse, BrelseDone, BreadCached, Types, Idle
      <4>2. CASE \E n \in Blocks : BgetHit(p, n) \/ BgetRecycle(p, n)
        BY <1>0, <4>2 DEF BgetHit, BgetRecycle, Types, MayRead
      <4>3. CASE \E v \in Vals : LogWrite(p, v)
        BY <4>3 DEF LogWrite, Idle
      <4>4. QED
        BY <2>3, <4>1, <4>2, <4>3
    <3>3. pc[p] # "disk" \/ buf'[p] = buf[p]
      BY <2>3 DEF AcquireSleep, Brelse, BrelseDone, BreadCached, BgetHit, BgetRecycle, LogWrite, Idle, MayRead
    <3>4. QED
      BY <1>0, <3>1, <3>2, <3>3, QueueFrame
  <2>4. QED
    BY <1>1, <2>1, <2>2, <2>3 DEF Step, Kernel
<1>2. QED
  BY <1>1, QueueServed DEF Next, Step

-----------------------------------------------------------------------------
LEMMA IInvStep == IInv /\ [Next]_vars => IInv'
<1> SUFFICES ASSUME IInv, [Next]_vars PROVE IInv'
  OBVIOUS
<1>1. CASE Next
  BY <1>1, TypesStep, CellsStep, OwnersStep, ReadsStep, QueueStep DEF IInv
<1>2. CASE UNCHANGED vars
  <2>1. \A b : Users(b)' = Users(b)
    BY <1>2 DEF Users, vars
  <2>2. QED
    BY <1>2, <2>1
    DEF vars, cache, IInv, Types, AtBuf, Counted, Cells, Owners, Holding, Reads, Queue, LockWakeupOwed
<1>3. QED
  BY <1>1, <1>2

LEMMA IInvHolds == Spec => []IInv
BY InitIInv, IInvStep, PTL DEF Spec

(* The counter of a buffer never exceeds the number of processes (bio.c).   *)
THEOREM TypeHolds == Spec => []TypeOK
<1>1. ASSUME IInv PROVE TypeOK
  <2>1. \A b \in Bufs : Cardinality(Users(b)) <= Cardinality(Hands)
    BY HandsFacts, FS_Subset DEF Users
  <2>2. \A b \in Bufs : refcnt[b] \in 0..Cardinality(Hands)
    BY <1>1, <2>1, HandsFacts, FS_CardinalityType DEF IInv, Counted, Types
  <2>3. refcnt \in [Bufs -> 0..Cardinality(Hands)]
    BY <1>1, <2>2 DEF IInv, Types
  <2>4. QED
    BY <1>1, <2>3 DEF IInv, Types, TypeOK, Places
<1>2. QED
  BY <1>1, IInvHolds, PTL

(* A process asleep in iderw() has exactly one request in the disk's queue, *)
(* and one asleep in acquiresleep() is behind a holder (ide.c:136-161,      *)
(* sleeplock.c:22-45).                                                      *)
THEOREM NoLostWakeupHolds == Spec => []NoLostWakeup
<1>1. ASSUME IInv PROVE NoLostWakeup
  <2>0. Types /\ Queue
    BY <1>1 DEF IInv
  <2>1. DOMAIN idequeue = 1..Len(idequeue)
    BY <2>0, LenProperties DEF Types
  <2>2. IsInjective(idequeue)
    BY <2>0, <2>1 DEF IsInjective, Queue
  <2>3. {idequeue[i] : i \in DOMAIN idequeue} = {buf[p] : p \in {q \in Hands : pc[q] = "disk"}}
    <3>1. ASSUME NEW b PROVE (\E i \in DOMAIN idequeue : b = idequeue[i])
                               <=> \E p \in {q \in Hands : pc[q] = "disk"} : b = buf[p]
      <4>1. \A i \in DOMAIN idequeue : \E p \in Hands : pc[p] = "disk" /\ buf[p] = idequeue[i]
        BY <2>0, <2>1 DEF Queue
      <4>2. \A p \in Hands : pc[p] = "disk" => \E i \in DOMAIN idequeue : idequeue[i] = buf[p]
        BY <2>0, <2>1 DEF Queue
      <4>3. QED
        BY <4>1, <4>2, Zenon
    <3>2. QED
      BY <3>1, Zenon
  <2>4. QED
    BY <1>1, <2>2, <2>3 DEF NoLostWakeup, QueueMatchesWaiters, IInv
<1>2. QED
  BY <1>1, IInvHolds, PTL

(* bget() gives the buffer of another block away only when nobody is at it  *)
(* (bio.c:60-96).                                                           *)
THEOREM BlockStaysHolds == Spec => BlockStays
<1>1. ASSUME IInv, [Next]_vars
      PROVE  [\A h \in Hands : buf[h] # NoBuf /\ buf'[h] = buf[h] => blockno'[buf[h]] = blockno[buf[h]]]_vars
  <2> DEFINE Kept == \A h \in Hands : buf[h] # NoBuf /\ buf'[h] = buf[h] => blockno'[buf[h]] = blockno[buf[h]]
  <2>0. Types
    BY <1>1 DEF IInv
  <2>1. ASSUME NEW p \in Hands, NEW n \in Blocks, BgetRecycle(p, n) PROVE Kept
    <3>1. PICK b \in Unused : blockno' = [blockno EXCEPT ![b] = n]
      BY <2>1 DEF BgetRecycle, MayRead
    <3>2. b \in Bufs /\ \A q \in Hands : buf[q] # b
      BY <1>1, NoUsers DEF Unused, IInv
    <3>3. QED
      BY <2>0, <3>1, <3>2 DEF Types
  <2>2. CASE \/ \E p \in Hands : Kernel(p) \/ (\E n \in Blocks : BgetHit(p, n))
                                \/ (\E v \in Vals : Bwrite(p, v) \/ LogWrite(p, v))
             \/ Ideintr \/ UNCHANGED vars
    <3>1. blockno' = blockno
      BY <2>2 DEF Kernel, AcquireSleep, Brelse, BrelseDone, BreadCached, BreadDisk, IderwDone,
                  BgetHit, Bwrite, LogWrite, Ideintr, cache, vars, Idle, MayRead
    <3>2. QED
      BY <3>1
  <2>3. QED
    BY <1>1, <2>1, <2>2 DEF Next
<1>2. QED
  BY <1>1, IInvHolds, PTL DEF Spec, BlockStays

(* When bget() finds no buffer, none has been forgotten: each is at a       *)
(* process or has a change that is not on the disk yet (bio.c:77-92).       *)
THEOREM PanicsOnlyWhenFullHolds == Spec => []PanicsOnlyWhenFull
<1>1. ASSUME IInv, BgetPanics, NEW b \in Bufs, ~dirty[b] PROVE \E h \in Hands : buf[h] = b
  <2>1. Cardinality(Users(b)) # 0
    BY <1>1 DEF BgetPanics, Unused, IInv, Counted
  <2>2. QED
    BY <2>1, FS_EmptySet DEF Users
<1>2. IInv => PanicsOnlyWhenFull
  BY <1>1 DEF PanicsOnlyWhenFull
<1>3. QED
  BY <1>2, IInvHolds, PTL

-----------------------------------------------------------------------------
(* Refinement: what BlockStore sees of a state, without the CHOOSE of the   *)
(* mapping, which the invariant makes unique.                               *)
HolderSeen ==
  /\ HandAt \in [Blocks -> Hands \cup {Nobody}]
  /\ \A n \in Blocks, p \in Hands : HandAt[n] = p <=> Holding(p) /\ blockno[buf[p]] = n
ContentsSeen ==
  /\ Contents \in [Blocks -> Vals]
  /\ \A b \in Bufs : valid[b] => Contents[blockno[b]] = data[b]
  /\ \A n \in Blocks : (\A b \in Bufs : blockno[b] = n => ~valid[b]) => Contents[n] = disk[n]

LEMMA HolderLemma == IInv => HolderSeen
<1> SUFFICES ASSUME IInv PROVE HolderSeen
  OBVIOUS
<1>0. Types /\ AtBuf /\ Cells
  BY DEF IInv
<1>1. \A p \in Hands : Holding(p) => buf[p] \in Bufs /\ blockno[buf[p]] \in Blocks
  <2>1. ASSUME NEW p \in Hands, Holding(p) PROVE buf[p] \in Bufs /\ blockno[buf[p]] \in Blocks
    <3>1. buf[p] \in Bufs
      BY <1>0, <2>1, HandsFacts DEF AtBuf, Types, Holding
    <3>2. p \in Users(buf[p])
      BY DEF Users
    <3>3. QED
      BY <1>0, <3>1, <3>2 DEF Cells, Types
  <2>2. QED
    BY <2>1
<1>2. ASSUME NEW n \in Blocks, NEW p \in Hands, Holding(p), blockno[buf[p]] = n,
             NEW q \in Hands, Holding(q), blockno[buf[q]] = n
      PROVE  p = q
  <2>1. buf[p] = buf[q]
    BY <1>0, <1>1, <1>2, HandsFacts DEF Cells
  <2>2. QED
    BY <1>2, <2>1, OneHolder
<1> DEFINE Has(n, p) == Holding(p) /\ blockno[buf[p]] = n
<1>3. ASSUME NEW n \in Blocks
      PROVE  /\ HandAt[n] \in Hands \cup {Nobody}
             /\ \A p \in Hands : HandAt[n] = p <=> Has(n, p)
  <2>1. HandAt[n] = IF \E p \in Hands : Has(n, p) THEN CHOOSE p \in Hands : Has(n, p) ELSE Nobody
    BY Zenon DEF HandAt
  <2>2. \A p, q \in Hands : Has(n, p) /\ Has(n, q) => p = q
    BY <1>2
  <2> HIDE DEF Has
  <2>3. CASE \E p \in Hands : Has(n, p)
    <3>1. HandAt[n] \in Hands /\ Has(n, HandAt[n])
      BY <2>1, <2>3
    <3>2. QED
      BY <2>2, <3>1
  <2>4. CASE ~\E p \in Hands : Has(n, p)
    BY <2>1, <2>4, HandsFacts
  <2>5. QED
    BY <2>3, <2>4
<1>4. QED
  <2>1. HandAt = [n \in Blocks |-> HandAt[n]]
    BY DEF HandAt
  <2>2. HandAt \in [Blocks -> Hands \cup {Nobody}]
    BY <1>3, <2>1
  <2>3. QED
    BY <1>3, <2>2 DEF HolderSeen

LEMMA ContentsLemma == IInv => ContentsSeen
<1> SUFFICES ASSUME IInv PROVE ContentsSeen
  OBVIOUS
<1>0. Types /\ Cells
  BY DEF IInv
<1>1. ASSUME NEW n \in Blocks
      PROVE  /\ Contents[n] \in Vals
             /\ \A b \in Bufs : blockno[b] = n /\ valid[b] => Contents[n] = data[b]
             /\ (\A b \in Bufs : blockno[b] = n => ~valid[b]) => Contents[n] = disk[n]
  <2> DEFINE Has(b) == b \in Cached(n) /\ valid[b]
             c == CHOOSE b \in Cached(n) : valid[b]
  <2>1. Contents[n] = IF \E b \in Cached(n) : valid[b] THEN data[c] ELSE disk[n]
    BY DEF Contents
  <2>2. \A a, b : Has(a) /\ Has(b) => a = b
    BY <1>0, HandsFacts DEF Cached, Cells
  <2>3. (\E b \in Cached(n) : valid[b]) => Has(c) /\ c \in Bufs
    BY DEF Cached
  <2> HIDE DEF c
  <2>4. CASE \E b \in Cached(n) : valid[b]
    <3>1. Contents[n] = data[c] /\ Has(c) /\ c \in Bufs
      BY <2>1, <2>3, <2>4
    <3>2. Contents[n] \in Vals
      BY <1>0, <3>1 DEF Types
    <3>3. \A b \in Bufs : blockno[b] = n /\ valid[b] => b = c
      BY <2>2, <3>1 DEF Cached
    <3>4. blockno[c] = n /\ valid[c]
      BY <3>1 DEF Cached
    <3>5. QED
      BY <3>1, <3>2, <3>3, <3>4
  <2>5. CASE ~\E b \in Cached(n) : valid[b]
    BY <1>0, <2>1, <2>5 DEF Types, Cached
  <2>6. QED
    BY <2>4, <2>5
<1>2. Contents = [n \in Blocks |-> Contents[n]]
  BY DEF Contents
<1>3. Contents \in [Blocks -> Vals]
  BY <1>1, <1>2
<1>4. \A b \in Bufs : valid[b] => Contents[blockno[b]] = data[b]
  BY <1>0, <1>1 DEF Cells, Types
<1>5. QED
  BY <1>1, <1>3, <1>4 DEF ContentsSeen

LEMMA SeenNext == IInv' => HolderSeen' /\ ContentsSeen'
BY HolderLemma, ContentsLemma, PTL

(* The same holders at the same blocks, and nothing that they see changed. *)
LEMMA HolderSame ==
  ASSUME IInv, IInv',
         \A q \in Hands : Holding(q)' <=> Holding(q),
         \A q \in Hands : Holding(q) => blockno'[buf'[q]] = blockno[buf[q]]
  PROVE  HandAt' = HandAt /\ Holder' = Holder
<1>0. HolderSeen /\ HolderSeen'
  BY HolderLemma, SeenNext
<1>1. \A n \in Blocks, q \in Hands : HandAt'[n] = q <=> HandAt[n] = q
  BY <1>0 DEF HolderSeen
<1>2. \A n \in Blocks : HandAt'[n] = HandAt[n]
  BY <1>0, <1>1, HandsFacts DEF HolderSeen
<1>3. HandAt' = HandAt
  BY <1>0, <1>2 DEF HolderSeen
<1>4. QED
  BY <1>3 DEF Holder

(* A block that changes hands changes its holder. *)
LEMMA HolderMoves ==
  ASSUME IInv, NEW n \in Blocks, NEW h \in Hands \cup {Nobody}, HandAt' = [HandAt EXCEPT ![n] = h]
  PROVE  Holder' = [Holder EXCEPT ![n] = IF h = Nobody THEN Nobody ELSE h[1]]
<1>1. HandAt \in [Blocks -> Hands \cup {Nobody}]
  BY HolderLemma DEF HolderSeen
<1>2. Holder' = [k \in Blocks |-> IF HandAt'[k] = Nobody THEN Nobody ELSE HandAt'[k][1]]
  BY DEF Holder
<1>3. QED
  BY <1>1, <1>2 DEF Holder

(* A process holds a block with one hand or with the other. *)
LEMMA HeldByHand ==
  ASSUME IInv, NEW n \in Blocks, NEW p \in Procs, Holder[n] = p
  PROVE  \E h \in Hands : HandAt[n] = h /\ h[1] = p
BY HolderLemma, HandsFacts DEF HolderSeen, Holder

LEMMA OtherHand ==
  ASSUME NEW h \in Hands, NEW g \in Hands, g # h, g[1] = h[1]
  PROVE  g = Other(h)
<1>1. PICK p \in Procs, i \in {1, 2} : h = <<p, i>>
  BY DEF Hands
<1>2. PICK q \in Procs, j \in {1, 2} : g = <<q, j>>
  BY DEF Hands
<1>3. QED
  BY <1>1, <1>2 DEF Other

LEMMA ContentsSame ==
  ASSUME UNCHANGED <<blockno, valid, data, disk>>
  PROVE  Contents' = Contents
BY DEF Contents, Cached

(* Whoever holds a buffer holds a block, and alone. *)
LEMMA HolderAlone ==
  ASSUME IInv, NEW p \in Hands, Holding(p)
  PROVE  /\ buf[p] \in Bufs /\ blockno[buf[p]] \in Blocks
         /\ \A b \in Bufs : blockno[b] = blockno[buf[p]] => b = buf[p]
         /\ HandAt[blockno[buf[p]]] = p
<1>0. Types /\ AtBuf /\ Cells
  BY DEF IInv
<1>1. buf[p] \in Bufs
  BY <1>0, HandsFacts DEF AtBuf, Types, Holding
<1>2. p \in Users(buf[p])
  BY DEF Users
<1>3. blockno[buf[p]] \in Blocks
  BY <1>0, <1>1, <1>2 DEF Cells, Types
<1>4. \A b \in Bufs : blockno[b] = blockno[buf[p]] => b = buf[p]
  BY <1>0, <1>1, <1>3, HandsFacts DEF Cells
<1>5. QED
  BY <1>1, <1>3, <1>4, HolderLemma DEF HolderSeen

(* Between the two halves of bread(): the lock is got. *)
LEMMA AcquireRefines ==
  ASSUME IInv, IInv', NEW p \in Hands, AcquireSleep(p)
  PROVE  [Store!Next]_<<Contents, Holder>>
<1>0. Types /\ AtBuf /\ Cells /\ Owners /\ Contents' = Contents
  BY ContentsSame DEF IInv, AcquireSleep
<1>1. CASE owner[buf[p]] = Nobody
  <2> DEFINE n == blockno[buf[p]]
  <2>1. /\ pc[p] = "lock" /\ pc' = [pc EXCEPT ![p] = "got"] /\ UNCHANGED <<buf, blockno>>
    BY <1>1 DEF AcquireSleep
  <2>2. /\ ~Holding(p) /\ Holding(p)'
        /\ \A q \in Hands \ {p} : Holding(q)' <=> Holding(q)
    BY <1>0, <2>1 DEF Holding, Types
  <2>3. n \in Blocks /\ HandAt'[n] = p
    <3>1. HandAt' \in [Blocks -> Hands \cup {Nobody}] /\ buf[p] \in Bufs
      BY <1>0, <2>1, SeenNext, HandsFacts DEF HolderSeen, AtBuf, Types
    <3>2. p \in Users(buf[p])
      BY DEF Users
    <3>3. n \in Blocks
      BY <1>0, <3>1, <3>2 DEF Cells, Types
    <3>4. QED
      BY <2>1, <2>2, <3>3, SeenNext DEF HolderSeen
  <2>4. ASSUME NEW q \in Hands, Holding(q) PROVE blockno[buf[q]] # n
    <3>1. blockno[buf[q]] = n => buf[q] = buf[p]
      BY <1>0, <2>1, <2>4, HolderAlone, HandsFacts DEF AtBuf, Types
    <3>2. owner[buf[q]] = q
      BY <1>0, <2>4 DEF Owners
    <3>3. QED
      BY <1>1, <3>1, <3>2, HandsFacts
  <2>5. HolderSeen /\ HolderSeen'
    BY HolderLemma, SeenNext
  <2>6. HandAt[n] = Nobody /\ \A k \in Blocks : HandAt[k] # p
    BY <2>2, <2>3, <2>4, <2>5 DEF HolderSeen
  <2>7. \A k \in Blocks \ {n} : HandAt'[k] = HandAt[k]
    <3>1. \A k \in Blocks \ {n}, q \in Hands : HandAt'[k] = q <=> HandAt[k] = q
      BY <2>1, <2>2, <2>5 DEF HolderSeen
    <3>2. QED
      BY <2>5, <3>1, HandsFacts DEF HolderSeen
  <2>8. HandAt' = [HandAt EXCEPT ![n] = p]
    BY <2>3, <2>5, <2>7 DEF HolderSeen
  <2>9. p[1] \in Procs /\ Holder[n] = Nobody /\ Holder' = [Holder EXCEPT ![n] = p[1]]
    BY <2>3, <2>6, <2>8, HolderMoves, HandsFacts DEF Holder
  <2>10. ASSUME NEW j \in Blocks, NEW k \in Blocks, Holder[j] = p[1], Holder[k] = p[1]
         PROVE  j = k
    <3>1. HandAt[j] = Other(p) /\ HandAt[k] = Other(p)
      BY <2>6, <2>9, <2>10, HeldByHand, OtherHand
    <3>2. QED
      BY <2>5, <3>1, HandsFacts DEF HolderSeen
  <2>11. Store!Get(p[1], n)
    BY <1>0, <2>9, <2>10 DEF Store!Get
  <2>12. QED
    BY <2>3, <2>9, <2>11 DEF Store!Next
<1>2. CASE owner[buf[p]] # Nobody
  <2>1. pc[p] = "lock" /\ pc' = [pc EXCEPT ![p] = "asleep"] /\ UNCHANGED <<buf, blockno>>
    BY <1>2 DEF AcquireSleep
  <2>2. \A q \in Hands : Holding(q)' <=> Holding(q)
    BY <1>0, <2>1 DEF Holding, Types
  <2>3. Holder' = Holder
    BY <2>1, <2>2, HolderSame
  <2>4. QED
    BY <1>0, <2>3
<1>3. QED
  BY <1>1, <1>2

LEMMA BrelseRefines ==
  ASSUME IInv, IInv', NEW p \in Hands, Brelse(p)
  PROVE  [Store!Next]_<<Contents, Holder>>
<1>0. Types /\ Contents' = Contents /\ Holding(p)
  BY ContentsSame DEF IInv, Brelse, Holding, Idle
<1> DEFINE n == blockno[buf[p]]
<1>1. HolderSeen /\ HolderSeen'
  BY HolderLemma, SeenNext
<1>2. n \in Blocks /\ HandAt[n] = p
  BY <1>0, HolderAlone
<1>3. UNCHANGED <<buf, blockno>> /\ ~Holding(p)' /\ \A q \in Hands \ {p} : Holding(q)' <=> Holding(q)
  BY <1>0 DEF Brelse, WakeLock, Holding, Types, Idle
<1>4. \A q \in Hands : HandAt'[n] # q
  BY <1>1, <1>2, <1>3 DEF HolderSeen
<1>5. \A k \in Blocks \ {n}, q \in Hands : HandAt'[k] = q <=> HandAt[k] = q
  BY <1>0, <1>1, <1>3 DEF HolderSeen
<1>6. \A k \in Blocks \ {n} : HandAt'[k] = HandAt[k]
  BY <1>1, <1>5, HandsFacts DEF HolderSeen
<1>7. HandAt' = [HandAt EXCEPT ![n] = Nobody]
  BY <1>1, <1>2, <1>4, <1>6 DEF HolderSeen
<1>8. p[1] \in Procs /\ Holder[n] = p[1] /\ Holder' = [Holder EXCEPT ![n] = Nobody]
  BY <1>2, <1>7, HolderMoves, HandsFacts DEF Holder
<1>9. Store!Release(p[1], n)
  BY <1>0, <1>8 DEF Store!Release
<1>10. QED
  BY <1>2, <1>8, <1>9 DEF Store!Next

(* bwrite() and log_write() change the contents, before any disk write. *)
LEMMA PutRefines ==
  ASSUME IInv, IInv', NEW p \in Hands, NEW v \in Vals, Bwrite(p, v) \/ LogWrite(p, v)
  PROVE  [Store!Next]_<<Contents, Holder>>
<1>0. Types /\ Reads /\ Cells /\ Holding(p)
  BY DEF IInv, Bwrite, LogWrite, Holding, Idle
<1> DEFINE n == blockno[buf[p]]
<1>1. /\ buf[p] \in Bufs /\ n \in Blocks /\ HandAt[n] = p /\ valid[buf[p]]
      /\ \A b \in Bufs : blockno[b] = n => b = buf[p]
  BY <1>0, HolderAlone DEF Bwrite, LogWrite, Reads, Idle
<1>2. UNCHANGED <<buf, blockno, valid, disk>> /\ data' = [data EXCEPT ![buf[p]] = v]
  BY DEF Bwrite, LogWrite, Idle
<1>3. \A q \in Hands : Holding(q)' <=> Holding(q)
  BY <1>0 DEF Bwrite, LogWrite, Iderw, Holding, Types, Idle
<1>4. Holder' = Holder /\ p[1] \in Procs /\ Holder[n] = p[1]
  BY <1>1, <1>2, <1>3, HolderSame, HandsFacts DEF Holder
<1>5. ContentsSeen /\ ContentsSeen'
  BY ContentsLemma, SeenNext
<1>6. Contents'[n] = v
  BY <1>0, <1>1, <1>2, <1>5 DEF ContentsSeen, Types
<1>7. ASSUME NEW k \in Blocks \ {n} PROVE Contents'[k] = Contents[k]
  <2>1. CASE \E b \in Bufs : blockno[b] = k /\ valid[b]
    <3>1. PICK b \in Bufs : blockno[b] = k /\ valid[b]
      BY <2>1
    <3>2. b # buf[p] /\ data'[b] = data[b]
      BY <1>0, <1>2, <3>1 DEF Types
    <3>3. QED
      BY <1>2, <1>5, <3>1, <3>2 DEF ContentsSeen
  <2>2. CASE \A b \in Bufs : blockno[b] = k => ~valid[b]
    BY <1>2, <1>5, <2>2 DEF ContentsSeen
  <2>3. QED
    BY <2>1, <2>2
<1>8. Contents' = [Contents EXCEPT ![n] = v]
  BY <1>1, <1>5, <1>6, <1>7 DEF ContentsSeen
<1>9. Store!Put(p[1], n, v)
  BY <1>1, <1>4, <1>8 DEF Store!Put
<1>10. QED
  BY <1>1, <1>4, <1>9 DEF Store!Next

(* bget() may forget a buffer, for what it held is on the disk. *)
LEMMA RecycleKeeps ==
  ASSUME IInv, IInv', NEW p \in Hands, NEW m \in Blocks, BgetRecycle(p, m)
  PROVE  UNCHANGED <<Contents, Holder>>
<1>0. Types /\ AtBuf /\ Reads /\ Cells
  BY DEF IInv
<1>1. PICK b \in Unused : /\ blockno' = [blockno EXCEPT ![b] = m]
                         /\ valid' = [valid EXCEPT ![b] = FALSE]
                         /\ buf' = [buf EXCEPT ![p] = b]
  BY DEF BgetRecycle, MayRead
<1>2. /\ pc[p] = "out" /\ pc' = [pc EXCEPT ![p] = "lock"] /\ UNCHANGED <<data, disk>>
      /\ \A a \in Bufs : blockno[a] # m
  BY DEF BgetRecycle, Cached, MayRead
<1>3. b \in Bufs /\ ~dirty[b] /\ \A q \in Hands : buf[q] # b
  BY NoUsers DEF Unused, IInv
<1>4. Holder' = Holder
  <2>1. \A q \in Hands : Holding(q)' <=> Holding(q)
    BY <1>0, <1>2 DEF Holding, Types
  <2>2. \A q \in Hands : Holding(q) => blockno'[buf'[q]] = blockno[buf[q]]
    BY <1>0, <1>1, <1>2, <1>3 DEF Holding, Types
  <2>3. QED
    BY <2>1, <2>2, HolderSame
<1>5. ContentsSeen /\ ContentsSeen'
  BY ContentsLemma, SeenNext
<1>6. /\ ~valid'[b] /\ blockno'[b] = m
      /\ \A a \in Bufs \ {b} : blockno'[a] = blockno[a] /\ valid'[a] = valid[a]
  BY <1>0, <1>1, <1>3 DEF Types
<1>7. ASSUME NEW k \in Blocks PROVE Contents'[k] = Contents[k]
  <2>1. CASE \E a \in Bufs \ {b} : blockno[a] = k /\ valid[a]
    <3>1. PICK a \in Bufs \ {b} : blockno[a] = k /\ valid[a]
      BY <2>1
    <3>2. Contents[k] = data[a]
      BY <1>5, <3>1 DEF ContentsSeen
    <3>3. Contents'[k] = data[a]
      BY <1>2, <1>5, <1>6, <3>1 DEF ContentsSeen
    <3>4. QED
      BY <3>2, <3>3
  <2>2. CASE \A a \in Bufs \ {b} : blockno[a] = k => ~valid[a]
    <3>1. Contents'[k] = disk[k]
      BY <1>2, <1>5, <1>6, <2>2 DEF ContentsSeen
    <3>2. Contents[k] = disk[k]
      <4>1. CASE blockno[b] = k /\ valid[b]
        BY <1>0, <1>3, <1>5, <4>1 DEF ContentsSeen, Reads
      <4>2. CASE ~(blockno[b] = k /\ valid[b])
        BY <1>5, <2>2, <4>2 DEF ContentsSeen
      <4>3. QED
        BY <4>1, <4>2
    <3>3. QED
      BY <3>1, <3>2
  <2>3. QED
    BY <2>1, <2>2
<1>8. Contents' = Contents
  BY <1>5, <1>7 DEF ContentsSeen
<1>9. QED
  BY <1>4, <1>8

(* The disk's work is not seen: a write brings the disk to what the buffer  *)
(* says already, a read the buffer to what the disk says.                   *)
LEMMA IdeintrKeeps ==
  ASSUME IInv, IInv', Ideintr
  PROVE  UNCHANGED <<Contents, Holder>>
<1>0. Types /\ Reads /\ Cells
  BY DEF IInv
<1>1. PICK b \in Bufs : b = Head(idequeue) /\ blockno[b] \in Blocks
  BY Served DEF Ideintr
<1>2. PICK r \in Hands : pc[r] = "disk" /\ buf[r] = b
  BY <1>1, Served DEF Ideintr
<1>3. /\ valid' = [valid EXCEPT ![b] = TRUE] /\ UNCHANGED <<blockno, buf>>
      /\ pc' = WakeDisk(b)
      /\ IF dirty[b]
           THEN disk' = [disk EXCEPT ![blockno[b]] = data[b]] /\ UNCHANGED data
           ELSE data' = [data EXCEPT ![b] = disk[blockno[b]]] /\ UNCHANGED disk
  BY <1>1 DEF Ideintr
<1>4. \A a \in Bufs \ {b} : blockno[a] # blockno[b]
  BY <1>0, <1>1, HandsFacts DEF Cells
<1>5. Holder' = Holder
  <2>1. \A q \in Hands : Holding(q)' <=> Holding(q)
    BY <1>0, <1>3 DEF Holding, WakeDisk, Types
  <2>2. QED
    BY <1>3, <2>1, HolderSame
<1>6. ContentsSeen /\ ContentsSeen'
  BY ContentsLemma, SeenNext
<1>7. Contents'[blockno[b]] = Contents[blockno[b]]
  <2>1. valid'[b] /\ Contents'[blockno[b]] = data'[b]
    BY <1>0, <1>3, <1>6 DEF ContentsSeen, Types
  <2>2. CASE dirty[b]
    BY <1>0, <1>3, <1>6, <2>1, <2>2 DEF Reads, ContentsSeen
  <2>3. CASE ~dirty[b]
    <3>1. ~valid[b]
      BY <1>0, <1>2, <2>3 DEF Reads
    <3>2. Contents[blockno[b]] = disk[blockno[b]]
      BY <1>1, <1>4, <1>6, <3>1 DEF ContentsSeen
    <3>3. data'[b] = disk[blockno[b]]
      BY <1>0, <1>3, <2>3 DEF Types
    <3>4. QED
      BY <2>1, <3>2, <3>3
  <2>4. QED
    BY <2>2, <2>3
<1>8. ASSUME NEW k \in Blocks, k # blockno[b] PROVE Contents'[k] = Contents[k]
  <2>1. /\ disk'[k] = disk[k]
        /\ \A a \in Bufs : blockno[a] = k => a # b /\ valid'[a] = valid[a] /\ data'[a] = data[a]
    BY <1>0, <1>3, <1>8 DEF Types
  <2>2. CASE \E a \in Bufs : blockno[a] = k /\ valid[a]
    <3>1. PICK a \in Bufs : blockno[a] = k /\ valid[a]
      BY <2>2
    <3>2. Contents[k] = data[a]
      BY <1>6, <3>1 DEF ContentsSeen
    <3>3. Contents'[k] = data[a]
      <4>1. valid'[a] /\ data'[a] = data[a] /\ blockno'[a] = k
        BY <1>3, <2>1, <3>1
      <4>2. QED
        BY <1>6, <4>1 DEF ContentsSeen
    <3>4. QED
      BY <3>2, <3>3
  <2>3. CASE \A a \in Bufs : blockno[a] = k => ~valid[a]
    BY <1>3, <1>6, <2>1, <2>3 DEF ContentsSeen
  <2>4. QED
    BY <2>2, <2>3
<1>9. Contents' = Contents
  BY <1>6, <1>7, <1>8 DEF ContentsSeen
<1>10. QED
  BY <1>5, <1>9

LEMMA StoreInit == Init => Store!Init
<1> SUFFICES ASSUME Init PROVE Store!Init
  OBVIOUS
<1>1. IInv /\ HolderSeen /\ ContentsSeen
  BY InitIInv, HolderLemma, ContentsLemma
<1>2. \A p \in Hands : ~Holding(p)
  BY DEF Init, Holding
<1>3. \A n \in Blocks : HandAt[n] = Nobody
  BY <1>1, <1>2 DEF HolderSeen
<1>4. Holder = [n \in Blocks |-> Nobody]
  BY <1>1, <1>3 DEF Holder
<1>5. QED
  BY <1>1, <1>4 DEF Store!Init, ContentsSeen

LEMMA StoreStep ==
  ASSUME IInv, IInv', [Next]_vars
  PROVE  [Store!Next]_<<Contents, Holder>>
<1>0. Types
  BY DEF IInv
<1>1. ASSUME NEW p \in Hands,
             \/ BreadCached(p) \/ BreadDisk(p) \/ IderwDone(p) \/ BrelseDone(p)
             \/ \E n \in Blocks : BgetHit(p, n)
      PROVE  UNCHANGED <<Contents, Holder>>
  <2>1. UNCHANGED <<blockno, valid, data, disk>>
    BY <1>1 DEF BreadCached, BreadDisk, IderwDone, BrelseDone, BgetHit, cache, MayRead
  <2>2. \A q \in Hands : Holding(q)' <=> Holding(q)
    BY <1>0, <1>1 DEF BreadCached, BreadDisk, Iderw, IderwDone, BrelseDone, BgetHit, Holding, Types, MayRead
  <2>3. \A q \in Hands : Holding(q) => buf'[q] = buf[q]
    BY <1>0, <1>1 DEF BreadCached, BreadDisk, IderwDone, BrelseDone, BgetHit, Holding, Types, MayRead
  <2>4. QED
    BY <2>1, <2>2, <2>3, HolderSame, ContentsSame
<1>2. CASE UNCHANGED vars
  BY <1>2 DEF vars, cache, Contents, Cached, Holder, HandAt, Holding
<1>3. QED
  BY <1>1, <1>2, AcquireRefines, BrelseRefines, PutRefines, RecycleKeeps, IdeintrKeeps
  DEF Next, Kernel

(* One holder per block, who sees its last contents: the cache implements   *)
(* BlockStore for any number of processes, blocks, values and buffers       *)
(* (bio.c:13-14).                                                           *)
THEOREM StoreHolds == Spec => StoreSpec
<1>1. IInv /\ IInv' /\ [Next]_vars => [Store!Next]_<<Contents, Holder>>
  BY StoreStep
<1>2. QED
  BY <1>1, StoreInit, IInvHolds, PTL DEF Spec, StoreSpec, Store!Spec
=============================================================================
