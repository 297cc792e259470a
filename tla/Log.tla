--------------------------------- MODULE Log ---------------------------------
(***************************************************************************)
(* The write-ahead log of the xv6 file system (log.c): concurrent file     *)
(* system operations, group commit, one disk write per step, a crash       *)
(* between any two of them, and recovery at boot.                          *)
(*                                                                         *)
(* Each critical section under log.lock is one step.  A block write is     *)
(* synchronous (bwrite waits for the disk) and a 512-byte block is one     *)
(* sector, so it is on the disk whole or not at all.  `cache' is the       *)
(* buffer cache: B_DIRTY keeps a logged block in it until it is installed. *)
(***************************************************************************)
EXTENDS Integers, Sequences, FiniteSets, Functions

CONSTANTS
  Procs,        \* processes that make file system calls
  Blocks,       \* home blocks of the file system
  Vals,         \* contents of a block
  MAXOPBLOCKS,  \* blocks that begin_op reserves for one operation
  LOGSIZE,      \* entries of the log header
  NLOG,         \* sb.nlog: blocks of the on-disk log, header included
  OpMax,        \* blocks that one operation really writes
  NoBlock       \* no block

ASSUME LogSizesAssumption ==
  /\ MAXOPBLOCKS \in Nat \ {0}
  /\ LOGSIZE \in Nat \ {0}
  /\ MAXOPBLOCKS <= LOGSIZE
  /\ NLOG \in 1..(LOGSIZE + 1)
  /\ OpMax \in 1..MAXOPBLOCKS
ASSUME ProcsAssumption == IsFiniteSet(Procs) /\ Procs # {}
ASSUME BlocksAssumption == IsFiniteSet(Blocks) /\ NoBlock \notin Blocks

VARIABLES
  home, logd, head,                      \* disk: home blocks, log blocks, log header
  cache, lh, outstanding, committing,    \* memory: buffer cache and struct log
  panicked,                              \* panic() was called
  pc, tail, buf, wrote                   \* per process: control point, loop index,
                                         \* block being log_written, blocks of this op
disk == <<home, logd, head>>
mem == <<cache, lh, outstanding, committing, panicked>>
vars == <<disk, mem, pc, tail, buf, wrote>>

InOp == {"op", "logw"}
InRecovery == {"rinstall", "rerase"}
Committing == {"wlog", "whead", "install", "erase", "fin"}
PCs == {"down", "out", "asleep", "woken"} \cup InOp \cup InRecovery \cup Committing

Active == {p \in Procs : pc[p] \in InOp}

(* mkfs leaves an empty log; the machine is about to boot from that image.  *)
Init ==
  /\ home \in [Blocks -> Vals]
  /\ logd \in {[i \in 1..LOGSIZE |-> v] : v \in Vals}
  /\ head = <<>>
  /\ cache = home
  /\ lh = <<>>
  /\ outstanding = 0
  /\ committing = FALSE
  /\ panicked = FALSE
  /\ pc = [p \in Procs |-> "down"]
  /\ tail = [p \in Procs |-> 0]
  /\ buf = [p \in Procs |-> NoBlock]
  /\ wrote = [p \in Procs |-> {}]

-----------------------------------------------------------------------------
(* Boot.  The first process runs initlog() before any other process exists. *)

ReadHead(p) ==
  /\ \A q \in Procs : pc[q] = "down"
  /\ lh' = head
  /\ tail' = [tail EXCEPT ![p] = 0]
  /\ pc' = [pc EXCEPT ![p] = IF head = <<>> THEN "rerase" ELSE "rinstall"]
  /\ UNCHANGED <<disk, cache, outstanding, committing, panicked, buf, wrote>>

(* One turn of the loop of install_trans(), shared by commit and recovery.  *)
InstallTrans(p) ==
  /\ pc[p] \in {"install", "rinstall"}
  /\ LET i == tail[p] + 1 IN
       /\ home' = [home EXCEPT ![lh[i]] = logd[i]]
       /\ cache' = [cache EXCEPT ![lh[i]] = logd[i]]
       /\ tail' = [tail EXCEPT ![p] = i]
       /\ pc' = [pc EXCEPT ![p] = IF i < Len(lh) THEN @
                                  ELSE IF @ = "install" THEN "erase" ELSE "rerase"]
  /\ UNCHANGED <<logd, head, lh, outstanding, committing, panicked, buf, wrote>>

(* lh.n = 0; write_head(): the end of commit() and of recover_from_log().   *)
EraseHead(p) ==
  /\ pc[p] \in {"erase", "rerase"}
  /\ lh' = <<>>
  /\ head' = <<>>
  /\ pc' = IF pc[p] = "erase" THEN [pc EXCEPT ![p] = "fin"]
           ELSE [q \in Procs |-> "out"]
  /\ tail' = [tail EXCEPT ![p] = 0]
  /\ UNCHANGED <<home, logd, cache, outstanding, committing, panicked, buf, wrote>>

-----------------------------------------------------------------------------
(* begin_op()                                                              *)

(* The space test of begin_op: this op might exhaust log space. *)
NoSpace == Len(lh) + (outstanding + 1) * MAXOPBLOCKS > LOGSIZE

MutMustWaitIgnoresCommit == NoSpace
MustWait == committing \/ NoSpace

BeginSleep(p) ==
  /\ ~panicked
  /\ pc[p] \in {"out", "woken"}
  /\ MustWait
  /\ pc' = [pc EXCEPT ![p] = "asleep"]
  /\ UNCHANGED <<disk, mem, tail, buf, wrote>>

BeginAdmit(p) ==
  /\ ~panicked
  /\ pc[p] \in {"out", "woken"}
  /\ ~MustWait
  /\ outstanding' = outstanding + 1
  /\ pc' = [pc EXCEPT ![p] = "op"]
  /\ wrote' = [wrote EXCEPT ![p] = {}]
  /\ UNCHANGED <<disk, cache, lh, committing, panicked, tail, buf>>

-----------------------------------------------------------------------------
(* An operation modifies a locked buffer, then calls log_write() on it.    *)

(* The two panic tests of log_write, which read lh.n and outstanding before *)
(* log.lock is acquired.                                                    *)
LogWriteCheck == Len(lh) >= LOGSIZE \/ Len(lh) >= NLOG - 1 \/ outstanding < 1

Modify(p, b, v) ==
  /\ ~panicked
  /\ pc[p] = "op"
  /\ \A q \in Procs : buf[q] # b
  /\ Cardinality(wrote[p] \cup {b}) <= OpMax
  /\ cache' = [cache EXCEPT ![b] = v]
  /\ IF LogWriteCheck
       THEN panicked' = TRUE /\ UNCHANGED <<pc, buf>>
       ELSE /\ pc' = [pc EXCEPT ![p] = "logw"]
            /\ buf' = [buf EXCEPT ![p] = b]
            /\ UNCHANGED panicked
  /\ UNCHANGED <<disk, lh, outstanding, committing, tail, wrote>>

(* The header after block b was log_written: absorbed, or appended. *)
MutAbsorbNever(s, b) == Append(s, b)
Absorb(s, b) == IF b \in Range(s) THEN s ELSE Append(s, b)

LogAppend(p) ==
  /\ ~panicked
  /\ pc[p] = "logw"
  /\ lh' = Absorb(lh, buf[p])
  /\ wrote' = [wrote EXCEPT ![p] = @ \cup {buf[p]}]
  /\ buf' = [buf EXCEPT ![p] = NoBlock]
  /\ pc' = [pc EXCEPT ![p] = "op"]
  /\ UNCHANGED <<disk, cache, outstanding, committing, panicked, tail>>

-----------------------------------------------------------------------------
(* end_op() and commit()                                                   *)

(* wakeup(&log): every sleeper will run the loop of begin_op again. *)
MutWakeupLost(f) == f
Wakeup(f) == [q \in Procs |-> IF f[q] = "asleep" THEN "woken" ELSE f[q]]

(* Where the last operation goes: commit() does nothing for an empty log. *)
MutCommitStartSkips == "fin"
CommitStart == IF lh = <<>> THEN "fin" ELSE "wlog"

EndOp(p) ==
  /\ ~panicked
  /\ pc[p] = "op"
  /\ outstanding' = outstanding - 1
  /\ IF committing
       THEN panicked' = TRUE /\ UNCHANGED <<pc, committing>>
       ELSE /\ committing' = (outstanding' = 0)
            /\ pc' = IF outstanding' = 0 THEN [pc EXCEPT ![p] = CommitStart]
                     ELSE Wakeup([pc EXCEPT ![p] = "out"])
            /\ UNCHANGED panicked
  /\ UNCHANGED <<disk, cache, lh, tail, buf, wrote>>

WriteLog(p) ==
  /\ ~panicked
  /\ pc[p] = "wlog"
  /\ LET i == tail[p] + 1
         more == i < Len(lh) IN
       /\ logd' = [logd EXCEPT ![i] = cache[lh[i]]]
       /\ tail' = [tail EXCEPT ![p] = IF more THEN i ELSE 0]
       /\ pc' = [pc EXCEPT ![p] = IF more THEN "wlog" ELSE "whead"]
  /\ UNCHANGED <<home, head, mem, buf, wrote>>

(* "The true point at which the current transaction commits." *)
MutWriteHeadLater(p) ==
  /\ ~panicked
  /\ pc[p] = "whead"
  /\ pc' = [pc EXCEPT ![p] = "install"]
  /\ UNCHANGED <<disk, mem, tail, buf, wrote>>
WriteHead(p) ==
  /\ ~panicked
  /\ pc[p] = "whead"
  /\ head' = lh
  /\ pc' = [pc EXCEPT ![p] = "install"]
  /\ UNCHANGED <<home, logd, mem, tail, buf, wrote>>

CommitDone(p) ==
  /\ ~panicked
  /\ pc[p] = "fin"
  /\ committing' = FALSE
  /\ pc' = Wakeup([pc EXCEPT ![p] = "out"])
  /\ UNCHANGED <<disk, cache, lh, outstanding, panicked, tail, buf, wrote>>

-----------------------------------------------------------------------------
(* Power is lost at any point: memory goes, the disk stays. *)
Crash ==
  /\ \E p \in Procs : pc[p] # "down"
  /\ cache' = home
  /\ lh' = <<>>
  /\ outstanding' = 0
  /\ committing' = FALSE
  /\ panicked' = FALSE
  /\ pc' = [p \in Procs |-> "down"]
  /\ tail' = [p \in Procs |-> 0]
  /\ buf' = [p \in Procs |-> NoBlock]
  /\ wrote' = [p \in Procs |-> {}]
  /\ UNCHANGED disk

Step(p) ==
  \/ ReadHead(p) \/ InstallTrans(p) \/ EraseHead(p)
  \/ BeginSleep(p) \/ BeginAdmit(p)
  \/ \E b \in Blocks, v \in Vals : Modify(p, b, v)
  \/ LogAppend(p) \/ EndOp(p)
  \/ WriteLog(p) \/ WriteHead(p) \/ CommitDone(p)

Next == Crash \/ \E p \in Procs : Step(p)

Spec == Init /\ [][Next]_vars

(* A process inside log.c keeps running; a file system call makes finitely  *)
(* many log_writes before end_op.  Nothing makes a process start a call.    *)
Fairness ==
  \A p \in Procs :
    /\ WF_vars(ReadHead(p)) /\ WF_vars(InstallTrans(p)) /\ WF_vars(EraseHead(p))
    /\ WF_vars(pc[p] = "woken" /\ (BeginSleep(p) \/ BeginAdmit(p)))
    /\ WF_vars(LogAppend(p)) /\ SF_vars(EndOp(p))
    /\ WF_vars(WriteLog(p)) /\ WF_vars(WriteHead(p)) /\ WF_vars(CommitDone(p))

FairSpec == Spec /\ Fairness

-----------------------------------------------------------------------------
TypeOK ==
  /\ home \in [Blocks -> Vals]
  /\ logd \in [1..LOGSIZE -> Vals]
  /\ head \in Seq(Blocks)
  /\ cache \in [Blocks -> Vals]
  /\ lh \in Seq(Blocks)
  /\ outstanding \in Nat
  /\ committing \in BOOLEAN
  /\ panicked \in BOOLEAN
  /\ pc \in [Procs -> PCs]
  /\ tail \in [Procs -> 0..LOGSIZE]
  /\ buf \in [Procs -> Blocks \cup {NoBlock}]
  /\ wrote \in [Procs -> SUBSET Blocks]

(* The reservation arithmetic of begin_op (log.c:131) keeps log_write from  *)
(* ever panicking (log.c:218-221) and end_op from finding a commit under    *)
(* way (log.c:151), whatever the interleaving of concurrent operations.     *)
NoPanic == ~panicked

(* The unlocked length test of log_write can be passed by two operations at *)
(* once; the log nevertheless never outgrows its blocks on the disk, which  *)
(* would overwrite the inodes behind it.                                    *)
LogFits == Len(lh) <= NLOG - 1

(* While one process copies the cache to the log, without holding any lock, *)
(* nobody else is inside an operation or a second commit.                   *)
CommitAlone ==
  \A p, q \in Procs :
    pc[p] \in Committing => committing /\ (q # p => pc[q] \notin Committing \cup InOp)

(* A process sleeping in begin_op is owed a wakeup: some operation has not  *)
(* ended yet or some commit has not finished.  Otherwise it sleeps forever. *)
WakeupOwed ==
  \A p \in Procs : pc[p] = "asleep" =>
    \E q \in Procs : pc[q] \in InOp \cup Committing

(* What recover_from_log would make of the home blocks after a crash now.   *)
Recovered ==
  [b \in Blocks |-> IF b \in Range(head)
                    THEN logd[CHOOSE i \in DOMAIN head : head[i] = b]
                    ELSE home[b]]

(* When no operation and no commit is active, everything that was written   *)
(* is on the disk: the end_op that closed the group returned after it.      *)
QuiescentDurable ==
  (~panicked /\ \A p \in Procs : pc[p] \in {"out", "asleep", "woken"})
    => home = cache /\ lh = <<>> /\ head = <<>>

(* Write-ahead: a home block changes only to what the on-disk log already   *)
(* says, so a crash between two installs loses nothing.                     *)
WriteAhead == [][\A b \in Blocks : home'[b] # home[b] => home'[b] = Recovered[b]]_vars

(* The file system operations are atomic across crashes (log.c:10-15).      *)
BootView == IF \A p \in Procs : pc[p] \notin {"down"} \cup InRecovery
            THEN cache ELSE Recovered
AD == INSTANCE AtomicDisk WITH durable <- Recovered, view <- BootView, active <- Active
Atomic == AD!Spec

(* No lost wakeup: who sleeps in begin_op is woken, even though commit runs *)
(* without the lock and other operations come and go.                       *)
SleepersWake == \A p \in Procs : pc[p] = "asleep" ~> pc[p] # "asleep"
=============================================================================
