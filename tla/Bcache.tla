-------------------------------- MODULE Bcache --------------------------------
(***************************************************************************)
(* The buffer cache (bio.c), the sleep lock of each buffer (sleeplock.c)   *)
(* and the IDE driver's request queue (ide.c).  One step is one critical   *)
(* section under bcache.lock, a sleep lock's spinlock or idelock.          *)
(*                                                                         *)
(* A process works on one buffer and, while it holds it, on a second one   *)
(* (log.c:75-80,183-188, fs.c:408-414,441-447): <<p, 1>> and <<p, 2>> are  *)
(* its hands, a hand h is at the buffer buf[h] and                         *)
(*                                                                         *)
(* pc[h]: out     at none                                                  *)
(*        lock    about to acquiresleep() it                               *)
(*        asleep  in acquiresleep(), waiting for wakeup()                  *)
(*        got     has the lock, contents not looked at                     *)
(*        disk    asleep in iderw()       io   woken in iderw()            *)
(*        hold    back from bread() or bwrite()                            *)
(*        rel     has unlocked the buffer, still counted in refcnt         *)
(* The LRU list is not kept: any unused buffer may be recycled.  The disk  *)
(* never reports an error.                                                 *)
(***************************************************************************)
EXTENDS Integers, FiniteSets, SequencesExt

CONSTANTS
  Procs, Blocks, Vals,
  Second,        \* <<k, n>>: n may be read while k is held
  Bufs,          \* bcache.buf, NBUF of them
  MaxPinned,     \* bound: blocks that the log keeps in the cache at a time
  Zero,          \* what a buffer holds before its first read
  NoBlock, NoBuf, Nobody

ASSUME BcacheAssumption ==
  /\ Zero \in Vals
  /\ NoBlock \notin Blocks /\ NoBuf \notin Bufs
  /\ Nobody \notin Procs /\ Nobody \notin Procs \X {1, 2}
  /\ IsFiniteSet(Procs)
  /\ MaxPinned \in Nat

VARIABLES
  blockno, valid, dirty, refcnt, owner, data,   \* struct buf; owner is b->lock
  idequeue, disk,
  pc, buf                                       \* each hand; the buffer it is at
cache == <<blockno, valid, dirty, refcnt, owner, data>>
vars == <<cache, idequeue, disk, pc, buf>>

Hands == Procs \X {1, 2}
Other(h) == <<h[1], 3 - h[2]>>

(* The process of h is not in a call about its other buffer.               *)
Idle(h) == pc[h] = "hold" /\ pc[Other(h)] \in {"out", "hold"}

Init ==
  /\ blockno = [b \in Bufs |-> NoBlock]
  /\ valid = [b \in Bufs |-> FALSE]
  /\ dirty = [b \in Bufs |-> FALSE]
  /\ refcnt = [b \in Bufs |-> 0]
  /\ owner = [b \in Bufs |-> Nobody]
  /\ data = [b \in Bufs |-> Zero]
  /\ idequeue = << >>
  /\ disk \in [Blocks -> Vals]
  /\ pc = [h \in Hands |-> "out"]
  /\ buf = [h \in Hands |-> NoBuf]

-----------------------------------------------------------------------------
(* bget(), under bcache.lock *)

Cached(n) == {b \in Bufs : blockno[b] = n}

MutUnusedPinned == {b \in Bufs : refcnt[b] = 0}
Unused == {b \in Bufs : refcnt[b] = 0 /\ ~dirty[b]}

(* A process calls bread() of n for a first buffer, or for a second one.   *)
MayRead(h, n) ==
  /\ pc[h] = "out"
  /\ IF h[2] = 1
       THEN pc[Other(h)] = "out"
       ELSE pc[Other(h)] = "hold" /\ <<blockno[buf[Other(h)]], n>> \in Second

BgetHit(h, n) ==
  /\ MayRead(h, n)
  /\ \E b \in Cached(n) :
       /\ refcnt' = [refcnt EXCEPT ![b] = @ + 1]
       /\ buf' = [buf EXCEPT ![h] = b]
  /\ pc' = [pc EXCEPT ![h] = "lock"]
  /\ UNCHANGED <<blockno, valid, dirty, owner, data, idequeue, disk>>

BgetRecycle(h, n) ==
  /\ MayRead(h, n)
  /\ Cached(n) = {}
  /\ \E b \in Unused :
       /\ blockno' = [blockno EXCEPT ![b] = n]
       /\ valid' = [valid EXCEPT ![b] = FALSE]
       /\ dirty' = [dirty EXCEPT ![b] = FALSE]
       /\ refcnt' = [refcnt EXCEPT ![b] = 1]
       /\ buf' = [buf EXCEPT ![h] = b]
  /\ pc' = [pc EXCEPT ![h] = "lock"]
  /\ UNCHANGED <<owner, data, idequeue, disk>>

(* panic("bget: no buffers") *)
BgetPanics == \E h \in Hands, n \in Blocks : MayRead(h, n) /\ Cached(n) = {} /\ Unused = {}

-----------------------------------------------------------------------------
(* acquiresleep() and releasesleep() *)

AcquireSleep(h) ==
  /\ pc[h] = "lock"
  /\ IF owner[buf[h]] = Nobody
       THEN /\ owner' = [owner EXCEPT ![buf[h]] = h]
            /\ pc' = [pc EXCEPT ![h] = "got"]
       ELSE /\ pc' = [pc EXCEPT ![h] = "asleep"]
            /\ UNCHANGED owner
  /\ UNCHANGED <<blockno, valid, dirty, refcnt, data, idequeue, disk, buf>>

(* The states after wakeup() of those who sleep on b's lock. *)
MutWakeLockNobody(b) == pc
WakeLock(b) == [g \in Hands |-> IF pc[g] = "asleep" /\ buf[g] = b THEN "lock" ELSE pc[g]]

(* brelse(): unlock, then give the reference back under bcache.lock.       *)
Brelse(h) ==
  /\ Idle(h)
  /\ owner' = [owner EXCEPT ![buf[h]] = Nobody]
  /\ pc' = [WakeLock(buf[h]) EXCEPT ![h] = "rel"]
  /\ UNCHANGED <<blockno, valid, dirty, refcnt, data, idequeue, disk, buf>>

MutLeftZero(r) == 0
MutLeftSame(r) == r
Left(r) == r - 1

BrelseDone(h) ==
  /\ pc[h] = "rel"
  /\ refcnt' = [refcnt EXCEPT ![buf[h]] = Left(@)]
  /\ pc' = [pc EXCEPT ![h] = "out"]
  /\ buf' = [buf EXCEPT ![h] = NoBuf]
  /\ UNCHANGED <<blockno, valid, dirty, owner, data, idequeue, disk>>

-----------------------------------------------------------------------------
(* bread(), bwrite() and log_write() by the holder of a buffer *)

(* iderw(): append to the queue and sleep on the buffer. *)
Iderw(h) ==
  /\ idequeue' = Append(idequeue, buf[h])
  /\ pc' = [pc EXCEPT ![h] = "disk"]

BreadCached(h) ==
  /\ pc[h] = "got"
  /\ valid[buf[h]]
  /\ pc' = [pc EXCEPT ![h] = "hold"]
  /\ UNCHANGED <<cache, idequeue, disk, buf>>

BreadDisk(h) ==
  /\ pc[h] = "got"
  /\ ~valid[buf[h]]
  /\ Iderw(h)
  /\ UNCHANGED <<cache, disk, buf>>

(* The holder changes the block and calls bwrite(). *)
Bwrite(h, v) ==
  /\ Idle(h)
  /\ data' = [data EXCEPT ![buf[h]] = v]
  /\ dirty' = [dirty EXCEPT ![buf[h]] = TRUE]
  /\ Iderw(h)
  /\ UNCHANGED <<blockno, valid, refcnt, owner, disk, buf>>

(* The holder changes the block and calls log_write(), which pins it. *)
LogWrite(h, v) ==
  /\ Idle(h)
  /\ Cardinality({b \in Bufs : dirty[b]} \cup {buf[h]}) <= MaxPinned
  /\ data' = [data EXCEPT ![buf[h]] = v]
  /\ dirty' = [dirty EXCEPT ![buf[h]] = TRUE]
  /\ UNCHANGED <<blockno, valid, refcnt, owner, idequeue, disk, pc, buf>>

-----------------------------------------------------------------------------
(* ideintr(): the first request has ended; wake whoever sleeps on it. *)

WakeDisk(b) == [g \in Hands |-> IF pc[g] = "disk" /\ buf[g] = b THEN "io" ELSE pc[g]]

Ideintr ==
  /\ idequeue # << >>
  /\ LET b == Head(idequeue) IN
       /\ IF dirty[b]
            THEN disk' = [disk EXCEPT ![blockno[b]] = data[b]] /\ UNCHANGED data
            ELSE data' = [data EXCEPT ![b] = disk[blockno[b]]] /\ UNCHANGED disk
       /\ valid' = [valid EXCEPT ![b] = TRUE]
       /\ dirty' = [dirty EXCEPT ![b] = FALSE]
       /\ pc' = WakeDisk(b)
  /\ idequeue' = Tail(idequeue)
  /\ UNCHANGED <<blockno, refcnt, owner, buf>>

(* The loop of iderw(): sleep again unless the buffer is valid and clean.  *)
IderwDone(h) ==
  /\ pc[h] = "io"
  /\ pc' = [pc EXCEPT ![h] = IF valid[buf[h]] /\ ~dirty[buf[h]] THEN "hold" ELSE "disk"]
  /\ UNCHANGED <<cache, idequeue, disk, buf>>

-----------------------------------------------------------------------------
Kernel(h) ==
  \/ AcquireSleep(h) \/ Brelse(h) \/ BrelseDone(h) \/ BreadCached(h) \/ BreadDisk(h)
  \/ IderwDone(h)

Next ==
  \/ \E h \in Hands :
       \/ Kernel(h)
       \/ \E n \in Blocks : BgetHit(h, n) \/ BgetRecycle(h, n)
       \/ \E v \in Vals : Bwrite(h, v) \/ LogWrite(h, v)
  \/ Ideintr

Spec == Init /\ [][Next]_vars

-----------------------------------------------------------------------------
TypeOK ==
  /\ blockno \in [Bufs -> Blocks \cup {NoBlock}]
  /\ valid \in [Bufs -> BOOLEAN]
  /\ dirty \in [Bufs -> BOOLEAN]
  /\ refcnt \in [Bufs -> 0..Cardinality(Hands)]
  /\ owner \in [Bufs -> Hands \cup {Nobody}]
  /\ data \in [Bufs -> Vals]
  /\ idequeue \in Seq(Bufs)
  /\ disk \in [Blocks -> Vals]
  /\ pc \in [Hands -> {"out", "lock", "asleep", "got", "disk", "io", "hold", "rel"}]
  /\ buf \in [Hands -> Bufs \cup {NoBuf}]

Holding(h) == pc[h] \in {"got", "disk", "io", "hold"}

(* A buffer that somebody waits for or holds keeps its block: bget() of     *)
(* another block does not take it in the middle of a brelse().              *)
BlockStays ==
  [][\A h \in Hands : buf[h] # NoBuf /\ buf'[h] = buf[h] => blockno'[buf[h]] = blockno[buf[h]]]_vars

(* A block sleeps in the disk queue exactly while its holder waits for it:  *)
(* no request is lost, none is served twice ("iderw: nothing to do").       *)
QueueMatchesWaiters ==
  /\ IsInjective(idequeue)
  /\ {idequeue[i] : i \in DOMAIN idequeue} = {buf[h] : h \in {g \in Hands : pc[g] = "disk"}}

(* Whoever sleeps on a buffer's lock is behind a holder that will wake it   *)
(* (sleeplock.c:22-45).                                                     *)
LockWakeupOwed == \A h \in Hands : pc[h] = "asleep" => owner[buf[h]] # Nobody

(* Nobody sleeps in iderw() or acquiresleep() without a wakeup to come.     *)
NoLostWakeup == QueueMatchesWaiters /\ LockWakeupOwed

(* bget() panics only for want of buffers: every one of them is at some     *)
(* process, or has a change that is not on the disk yet (bio.c:77-92).      *)
PanicsOnlyWhenFull == BgetPanics => \A b \in Bufs : dirty[b] \/ \E h \in Hands : buf[h] = b

(* Of a block that a valid buffer caches that buffer counts, of any other   *)
(* the disk.                                                                *)
Contents ==
  [n \in Blocks |-> IF \E b \in Cached(n) : valid[b]
                    THEN data[CHOOSE b \in Cached(n) : valid[b]] ELSE disk[n]]
HandAt ==
  [n \in Blocks |-> IF \E h \in Hands : Holding(h) /\ blockno[buf[h]] = n
                    THEN CHOOSE h \in Hands : Holding(h) /\ blockno[buf[h]] = n ELSE Nobody]
Holder == [n \in Blocks |-> IF HandAt[n] = Nobody THEN Nobody ELSE HandAt[n][1]]

(* The cache promises what BlockStore says: one holder per block, and the   *)
(* last contents for whoever holds it, through recycling and pinning.       *)
Store == INSTANCE BlockStore WITH contents <- Contents, holder <- Holder
StoreSpec == Store!Spec
=============================================================================
