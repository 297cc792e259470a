----------------------------- MODULE Log_proofs -----------------------------
(***************************************************************************)
(* Proofs about Log for every number of processes and blocks and every     *)
(* size of the log.                                                        *)
(*                                                                         *)
(* The heart is the space invariant: the header entries in use and the     *)
(* reserved but unused entries of the active operations together fit the   *)
(* header.  `Reserved' counts the latter without a sum: it is the set of   *)
(* pairs <<p, k>>, one for each reservation of p that is not yet consumed. *)
(***************************************************************************)
EXTENDS Log, FiniteSetTheorems, SequenceTheorems, TLAPS

Booting == {"down"} \cup InRecovery
Copying == {"wlog", "install", "rinstall"}

Reserved == {t \in Procs \X (1..MAXOPBLOCKS) :
               t[1] \in Active /\ t[2] > Cardinality(wrote[t[1]])}

(* A commit has an owner; boot and recovery are nobody else's business.      *)
CommitOwned == committing => \E p \in Procs : pc[p] \in Committing
BootTogether == \A p, q \in Procs : pc[p] \in Booting => pc[q] \in Booting
RecoverAlone == \A p, q \in Procs : pc[p] \in InRecovery /\ q # p => pc[q] = "down"
BufHeld == \A p \in Procs : pc[p] = "logw" <=> buf[p] # NoBlock
OpsCounted == outstanding = Cardinality(Active)

Control ==
  CommitAlone /\ CommitOwned /\ BootTogether /\ RecoverAlone /\ BufHeld /\ OpsCounted

LoopIndex ==
  \A p \in Procs :
    /\ pc[p] \in Copying => tail[p] < Len(lh)
    /\ pc[p] = "whead" => lh # <<>>
    /\ pc[p] \notin Copying \cup {"erase", "rerase"} => tail[p] = 0

Space ==
  /\ Len(head) <= LOGSIZE
  /\ Len(lh) + Cardinality(Reserved) <= LOGSIZE
  /\ \A p \in Active :
       /\ wrote[p] \subseteq Range(lh)
       /\ Cardinality(wrote[p]) <= OpMax
       /\ pc[p] = "logw" => Cardinality(wrote[p] \cup {buf[p]}) <= OpMax

IInv == TypeOK /\ Control /\ LoopIndex /\ Space

-----------------------------------------------------------------------------
(* The functions and sequences of the model keep their types. *)

LEMMA AbsorbType ==
  ASSUME NEW s \in Seq(Blocks), NEW b \in Blocks
  PROVE  /\ Absorb(s, b) \in Seq(Blocks)
         /\ Len(Absorb(s, b)) = IF b \in Range(s) THEN Len(s) ELSE Len(s) + 1
         /\ Range(Absorb(s, b)) = Range(s) \cup {b}
<1>1. CASE b \in Range(s)
  BY <1>1 DEF Absorb
<1>2. CASE b \notin Range(s)
  <2>1. Absorb(s, b) = Append(s, b)
    BY <1>2 DEF Absorb
  <2>2. /\ Append(s, b) \in Seq(Blocks)
        /\ Len(Append(s, b)) = Len(s) + 1
        /\ \A i \in 1..Len(s) : Append(s, b)[i] = s[i]
        /\ Append(s, b)[Len(s) + 1] = b
    BY AppendProperties
  <2>3. DOMAIN Append(s, b) = 1..(Len(s) + 1) /\ DOMAIN s = 1..Len(s) /\ Len(s) \in Nat
    BY <2>2
  <2>4. Range(Append(s, b)) = Range(s) \cup {b}
    <3> DEFINE t == Append(s, b)
    <3>1. ASSUME NEW i \in DOMAIN t PROVE t[i] \in Range(s) \cup {b}
      BY <3>1, <2>2, <2>3 DEF Range
    <3>2. ASSUME NEW i \in DOMAIN s PROVE s[i] \in Range(t)
      BY <3>2, <2>2, <2>3 DEF Range
    <3>3. b \in Range(t)
      BY <2>2, <2>3 DEF Range
    <3>4. QED
      BY <3>1, <3>2, <3>3 DEF Range
  <2>5. QED
    BY <1>2, <2>1, <2>2, <2>4
<1>3. QED
  BY <1>1, <1>2

(* While an operation is under way nobody commits, boots or recovers.       *)
LEMMA OpNotCommitting ==
  ASSUME Control, NEW p \in Active
  PROVE  ~committing /\ \A q \in Procs : pc[q] \notin Committing \cup Booting
<1>1. p \in Procs /\ pc[p] \in InOp
  BY DEF Active
<1>2. ASSUME NEW q \in Procs PROVE pc[q] \notin Committing
  <2>1. q = p => pc[q] \notin Committing
    BY <1>1 DEF Committing, InOp
  <2>2. QED
    BY <1>1, <2>1 DEF Control, CommitAlone
<1>3. ASSUME NEW q \in Procs PROVE pc[q] \notin Booting
  <2>1. pc[p] \notin Booting
    BY <1>1 DEF Booting, InRecovery, InOp
  <2>2. QED
    BY <1>1, <2>1 DEF Control, BootTogether
<1>4. QED
  BY <1>2, <1>3 DEF Control, CommitOwned

LEMMA InitIInv == Init => IInv
<1> SUFFICES ASSUME Init PROVE IInv
  OBVIOUS
<1> USE LogSizesAssumption, ProcsAssumption, BlocksAssumption
<1>1. TypeOK
  <2>1. <<>> \in Seq(Blocks)
    OBVIOUS
  <2>2. logd \in [1..LOGSIZE -> Vals]
    BY DEF Init
  <2>3. pc \in [Procs -> PCs] /\ tail \in [Procs -> 0..LOGSIZE]
    BY DEF Init, PCs
  <2>4. QED
    BY <2>1, <2>2, <2>3 DEF Init, TypeOK
<1>2. Active = {} /\ Reserved = {}
  BY DEF Init, Active, InOp, Reserved
<1>3. Control
  BY <1>2, FS_EmptySet DEF Init, Control, CommitOwned, BootTogether, RecoverAlone, BufHeld, OpsCounted, CommitAlone, Committing, Booting, InRecovery
<1>4. LoopIndex
  BY DEF Init, LoopIndex, Copying
<1>5. Space
  BY <1>2, FS_EmptySet DEF Init, Space
<1>6. QED
  BY <1>1, <1>3, <1>4, <1>5 DEF IInv

(* Every step keeps the types; the loop indexes stay inside the header. *)
LEMMA TypeStep == IInv /\ [Next]_vars => TypeOK'
<1> SUFFICES ASSUME IInv, [Next]_vars PROVE TypeOK'
  OBVIOUS
<1> USE LogSizesAssumption, ProcsAssumption, BlocksAssumption
<1>0. TypeOK /\ Control /\ LoopIndex /\ Space
  BY DEF IInv
<1>1. Len(lh) <= LOGSIZE
  <2>1. IsFiniteSet(Procs \X (1..MAXOPBLOCKS))
    <3>1. IsFiniteSet(1..MAXOPBLOCKS)
      BY FS_Interval
    <3>2. QED
      BY <3>1, FS_Product
  <2>2. Cardinality(Reserved) \in Nat
    BY <2>1, FS_Subset, FS_CardinalityType DEF Reserved
  <2>3. QED
    BY <2>2, <1>0 DEF Space, TypeOK
<1>2. CASE Crash
  <2>1. lh' \in Seq(Blocks)
    BY <1>2 DEF Crash
  <2>2. pc' \in [Procs -> PCs] /\ tail' \in [Procs -> 0..LOGSIZE]
    BY <1>2 DEF Crash, PCs
  <2>3. QED
    BY <1>2, <1>0, <2>1, <2>2 DEF Crash, TypeOK, disk
<1>3. CASE UNCHANGED vars
  BY <1>3, <1>0 DEF TypeOK, vars, disk, mem
<1>4. ASSUME NEW p \in Procs, Step(p) PROVE TypeOK'
  <2>1. CASE ReadHead(p)
    BY <2>1, <1>0 DEF ReadHead, TypeOK, PCs, InRecovery, disk
  <2>2. CASE InstallTrans(p)
    <3> DEFINE i == tail[p] + 1
    <3>1. i \in 1..Len(lh) /\ lh[i] \in Blocks /\ i \in 1..LOGSIZE
      BY <2>2, <1>0, <1>1 DEF InstallTrans, TypeOK, LoopIndex, Copying
    <3> HIDE DEF i
    <3>2. logd[i] \in Vals
      BY <3>1, <1>0 DEF TypeOK
    <3>3. home' \in [Blocks -> Vals] /\ cache' \in [Blocks -> Vals] /\ tail' \in [Procs -> 0..LOGSIZE]
      BY <2>2, <1>0, <3>1, <3>2 DEF InstallTrans, TypeOK, i
    <3>4. pc' \in [Procs -> PCs]
      BY <2>2, <1>0 DEF InstallTrans, TypeOK, PCs, InRecovery, Committing
    <3>5. QED
      BY <2>2, <1>0, <3>3, <3>4 DEF InstallTrans, TypeOK
  <2>3. CASE EraseHead(p)
    BY <2>3, <1>0 DEF EraseHead, TypeOK, PCs, Committing
  <2>4. CASE BeginSleep(p)
    BY <2>4, <1>0 DEF BeginSleep, TypeOK, PCs, disk, mem
  <2>5. CASE BeginAdmit(p)
    BY <2>5, <1>0 DEF BeginAdmit, TypeOK, PCs, InOp, disk
  <2>6. ASSUME NEW b \in Blocks, NEW v \in Vals, Modify(p, b, v) PROVE TypeOK'
    BY <2>6, <1>0 DEF Modify, TypeOK, PCs, InOp, disk
  <2>7. CASE LogAppend(p)
    <3>1. buf[p] \in Blocks
      BY <2>7, <1>0 DEF LogAppend, Control, BufHeld, TypeOK
    <3>2. lh' \in Seq(Blocks)
      BY <2>7, <1>0, <3>1, AbsorbType DEF LogAppend, TypeOK
    <3>3. QED
      BY <2>7, <1>0, <3>1, <3>2 DEF LogAppend, TypeOK, PCs, InOp, disk
  <2>8. CASE EndOp(p)
    <3>1. ~committing
      BY <2>8, <1>0, OpNotCommitting DEF EndOp, Active, InOp
    <3>2. outstanding' \in Nat
      <4>1. p \in Active /\ IsFiniteSet(Active)
        BY <2>8, FS_Subset DEF EndOp, Active, InOp
      <4>2. Cardinality(Active) \in Nat /\ Cardinality(Active) # 0
        BY <4>1, FS_EmptySet, FS_CardinalityType
      <4>3. QED
        BY <2>8, <1>0, <4>2 DEF EndOp, Control, OpsCounted
    <3>3. QED
      BY <2>8, <1>0, <3>1, <3>2
      DEF EndOp, TypeOK, PCs, CommitStart, Committing, Wakeup, disk
  <2>9. CASE WriteLog(p)
    <3> DEFINE i == tail[p] + 1
    <3>1. i \in 1..Len(lh) /\ lh[i] \in Blocks /\ i \in 1..LOGSIZE
      BY <2>9, <1>0, <1>1 DEF WriteLog, TypeOK, LoopIndex, Copying
    <3> HIDE DEF i
    <3>2. cache[lh[i]] \in Vals
      BY <3>1, <1>0 DEF TypeOK
    <3>3. logd' \in [1..LOGSIZE -> Vals] /\ tail' \in [Procs -> 0..LOGSIZE]
      BY <2>9, <1>0, <3>1, <3>2 DEF WriteLog, TypeOK, i
    <3>4. QED
      BY <2>9, <1>0, <3>3 DEF WriteLog, TypeOK, PCs, Committing, mem
  <2>10. CASE WriteHead(p)
    BY <2>10, <1>0 DEF WriteHead, TypeOK, PCs, Committing, mem
  <2>11. CASE CommitDone(p)
    BY <2>11, <1>0 DEF CommitDone, TypeOK, PCs, Wakeup, disk
  <2>12. QED
    BY <1>4, <2>1, <2>2, <2>3, <2>4, <2>5, <2>6, <2>7, <2>8, <2>9, <2>10, <2>11 DEF Step
<1>5. QED
  BY <1>2, <1>3, <1>4 DEF Next

(* The classes of control points that Control tells apart. *)
SameClass(c, d) ==
  /\ c \in Committing <=> d \in Committing
  /\ c \in InOp <=> d \in InOp
  /\ c \in Booting <=> d \in Booting
  /\ c \in InRecovery <=> d \in InRecovery
  /\ c = "down" <=> d = "down"
  /\ c = "logw" <=> d = "logw"

(* A process that stays in its class disturbs nothing. *)
LEMMA ControlFrame ==
  ASSUME Control, \A q \in Procs : SameClass(pc[q], pc'[q]),
         UNCHANGED <<committing, buf, outstanding>>
  PROVE  Control'
<1>0. CommitAlone /\ CommitOwned /\ BootTogether /\ RecoverAlone /\ BufHeld /\ OpsCounted
  BY DEF Control
<1>1. CommitAlone'
  BY <1>0 DEF CommitAlone, SameClass
<1>2. CommitOwned'
  BY <1>0 DEF CommitOwned, SameClass
<1>3. BootTogether' /\ RecoverAlone'
  BY <1>0 DEF BootTogether, RecoverAlone, SameClass
<1>4. BufHeld'
  BY <1>0 DEF BufHeld, SameClass
<1>5. OpsCounted'
  <2>1. Active' = Active
    BY DEF Active, SameClass
  <2>2. QED
    BY <2>1, <1>0 DEF OpsCounted
<1>6. QED
  BY <1>1, <1>2, <1>3, <1>4, <1>5 DEF Control

(* Control: commits and recovery run alone, and `outstanding' counts the    *)
(* active operations.                                                      *)
LEMMA ControlStep == IInv /\ [Next]_vars => Control'
<1> SUFFICES ASSUME IInv, [Next]_vars PROVE Control'
  OBVIOUS
<1> USE ProcsAssumption, BlocksAssumption
<1>0. /\ TypeOK /\ Control /\ LoopIndex
      /\ CommitAlone /\ CommitOwned /\ BootTogether /\ RecoverAlone /\ BufHeld /\ OpsCounted
  BY DEF IInv, Control
<1>1. IsFiniteSet(Active) /\ Cardinality(Active) \in Nat
  BY FS_Subset, FS_CardinalityType DEF Active
<1>p. pc \in [Procs -> PCs]
  BY <1>0 DEF TypeOK
<1>2. CASE Crash
  <2>1. Active' = {}
    BY <1>2 DEF Crash, Active, InOp
  <2>2. OpsCounted'
    BY <1>2, <2>1, FS_EmptySet DEF Crash, OpsCounted
  <2>3. CommitAlone' /\ CommitOwned' /\ BootTogether' /\ RecoverAlone' /\ BufHeld'
    BY <1>2 DEF Crash, CommitAlone, CommitOwned, BootTogether, RecoverAlone, BufHeld,
                Committing, Booting, InRecovery
  <2>4. QED
    BY <2>2, <2>3 DEF Control
<1>3. CASE UNCHANGED vars
  BY <1>3, <1>0, ControlFrame DEF SameClass, vars, mem
<1>4. ASSUME NEW p \in Procs, Step(p) PROVE Control'
  <2>1. CASE ReadHead(p)
    <3>1. /\ \A q \in Procs : pc[q] = "down" /\ pc'[q] = IF q = p THEN pc'[p] ELSE "down"
          /\ pc'[p] \in InRecovery
          /\ UNCHANGED <<committing, buf, outstanding>>
      BY <2>1, <1>p DEF ReadHead, InRecovery
    <3>2. Active' = Active
      BY <3>1 DEF Active, InOp, InRecovery
    <3>3. CommitAlone' /\ CommitOwned'
      BY <3>1, <1>0 DEF CommitAlone, CommitOwned, Committing, InRecovery
    <3>4. BootTogether' /\ RecoverAlone'
      BY <3>1 DEF BootTogether, RecoverAlone, Booting, InRecovery
    <3>5. BufHeld'
      BY <3>1, <1>0 DEF BufHeld, InRecovery
    <3>6. QED
      BY <3>1, <3>2, <3>3, <3>4, <3>5, <1>0 DEF Control, OpsCounted
  <2>2. CASE InstallTrans(p)
    <3>1. /\ \/ pc[p] = "install" /\ pc'[p] \in {"install", "erase"}
             \/ pc[p] = "rinstall" /\ pc'[p] \in {"rinstall", "rerase"}
          /\ \A q \in Procs : q # p => pc'[q] = pc[q]
          /\ UNCHANGED <<committing, buf, outstanding>>
      BY <2>2, <1>p DEF InstallTrans
    <3>2. \A q \in Procs : SameClass(pc[q], pc'[q])
      BY <3>1 DEF SameClass, Committing, InOp, Booting, InRecovery
    <3>3. QED
      BY <3>1, <3>2, <1>0, ControlFrame
  <2>3. CASE EraseHead(p)
    <3>1. UNCHANGED <<committing, buf, outstanding>>
      BY <2>3 DEF EraseHead
    <3>2. CASE pc[p] = "erase"
      <4>1. pc' = [pc EXCEPT ![p] = "fin"]
        BY <2>3, <3>2 DEF EraseHead
      <4>2. \A q \in Procs : SameClass(pc[q], pc'[q])
        BY <4>1, <3>2, <1>p DEF SameClass, Committing, InOp, Booting, InRecovery
      <4>3. QED
        BY <3>1, <4>2, <1>0, ControlFrame
    <3>3. CASE pc[p] = "rerase"
      <4>1. \A q \in Procs : pc'[q] = "out" /\ pc[q] \in Booting
        BY <2>3, <3>3, <1>0 DEF EraseHead, BootTogether, Booting, InRecovery
      <4>2. Active' = Active
        BY <4>1 DEF Active, InOp, Booting, InRecovery
      <4>3. CommitAlone' /\ CommitOwned'
        BY <4>1, <3>1, <1>0 DEF CommitAlone, CommitOwned, Committing, Booting, InRecovery
      <4>4. BootTogether' /\ RecoverAlone'
        BY <4>1 DEF BootTogether, RecoverAlone, Booting, InRecovery
      <4>5. BufHeld'
        BY <4>1, <3>1, <1>0 DEF BufHeld, Booting, InRecovery
      <4>6. QED
        BY <3>1, <4>2, <4>3, <4>4, <4>5, <1>0 DEF Control, OpsCounted
    <3>4. QED
      BY <2>3, <3>2, <3>3 DEF EraseHead
  <2>4. CASE BeginSleep(p)
    <3>1. /\ pc[p] \in {"out", "woken"} /\ pc' = [pc EXCEPT ![p] = "asleep"]
          /\ UNCHANGED <<committing, buf, outstanding>>
      BY <2>4 DEF BeginSleep, mem
    <3>2. \A q \in Procs : SameClass(pc[q], pc'[q])
      BY <3>1, <1>p DEF SameClass, Committing, InOp, Booting, InRecovery
    <3>3. QED
      BY <3>1, <3>2, <1>0, ControlFrame
  <2>5. CASE BeginAdmit(p)
    <3>1. /\ pc[p] \in {"out", "woken"} /\ pc'[p] = "op" /\ ~committing
          /\ \A q \in Procs : q # p => pc'[q] = pc[q]
          /\ UNCHANGED <<committing, buf>> /\ outstanding' = outstanding + 1
      BY <2>5, <1>p DEF BeginAdmit, MustWait
    <3>2. Active' = Active \cup {p} /\ p \notin Active
      BY <3>1 DEF Active, InOp
    <3>3. OpsCounted'
      BY <3>1, <1>0, <1>1, <3>2, FS_AddElement DEF OpsCounted
    <3>4. CommitAlone' /\ CommitOwned'
      BY <3>1, <1>0 DEF CommitAlone, CommitOwned, Committing
    <3>5. BootTogether' /\ RecoverAlone'
      BY <3>1, <1>0 DEF BootTogether, RecoverAlone, Booting, InRecovery
    <3>6. BufHeld'
      BY <3>1, <1>0 DEF BufHeld
    <3>7. QED
      BY <3>3, <3>4, <3>5, <3>6 DEF Control
  <2>6. ASSUME NEW b \in Blocks, NEW v \in Vals, Modify(p, b, v) PROVE Control'
    <3>1. UNCHANGED <<committing, outstanding>> /\ pc[p] = "op"
      BY <2>6 DEF Modify
    <3>2. CASE LogWriteCheck
      BY <2>6, <3>1, <3>2, <1>0, ControlFrame DEF Modify, SameClass
    <3>3. CASE ~LogWriteCheck
      <4>1. pc' = [pc EXCEPT ![p] = "logw"] /\ buf' = [buf EXCEPT ![p] = b]
        BY <2>6, <3>3 DEF Modify
      <4>2. /\ pc'[p] = "logw" /\ buf'[p] # NoBlock
            /\ \A q \in Procs : q # p => pc'[q] = pc[q] /\ buf'[q] = buf[q]
        BY <4>1, <1>0 DEF TypeOK
      <4>3. Active' = Active
        BY <3>1, <4>2 DEF Active, InOp
      <4>4. CommitAlone' /\ CommitOwned'
        BY <3>1, <4>2, <1>0 DEF CommitAlone, CommitOwned, Committing, InOp
      <4>5. BootTogether' /\ RecoverAlone'
        BY <3>1, <4>2, <1>0 DEF BootTogether, RecoverAlone, Booting, InRecovery
      <4>6. BufHeld'
        BY <4>2, <1>0 DEF BufHeld
      <4>7. QED
        BY <3>1, <4>3, <4>4, <4>5, <4>6, <1>0 DEF Control, OpsCounted
    <3>4. QED
      BY <3>2, <3>3
  <2>7. CASE LogAppend(p)
    <3>1. /\ pc[p] = "logw" /\ pc' = [pc EXCEPT ![p] = "op"]
          /\ buf' = [buf EXCEPT ![p] = NoBlock]
          /\ UNCHANGED <<committing, outstanding>>
      BY <2>7 DEF LogAppend
    <3>2. /\ pc'[p] = "op" /\ buf'[p] = NoBlock
          /\ \A q \in Procs : q # p => pc'[q] = pc[q] /\ buf'[q] = buf[q]
      BY <3>1, <1>0 DEF TypeOK
    <3>3. Active' = Active
      BY <3>1, <3>2 DEF Active, InOp
    <3>4. CommitAlone' /\ CommitOwned'
      BY <3>1, <3>2, <1>0 DEF CommitAlone, CommitOwned, Committing, InOp
    <3>5. BootTogether' /\ RecoverAlone'
      BY <3>1, <3>2, <1>0 DEF BootTogether, RecoverAlone, Booting, InRecovery
    <3>6. BufHeld'
      BY <3>2, <1>0 DEF BufHeld
    <3>7. QED
      BY <3>1, <3>3, <3>4, <3>5, <3>6, <1>0 DEF Control, OpsCounted
  <2>8. CASE EndOp(p)
    <3>1. ~committing /\ pc[p] = "op" /\ buf' = buf
      BY <2>8, <1>0, OpNotCommitting DEF EndOp, Active, InOp
    <3>2. /\ committing' = (outstanding' = 0)
          /\ pc' = IF outstanding' = 0 THEN [pc EXCEPT ![p] = CommitStart]
                   ELSE Wakeup([pc EXCEPT ![p] = "out"])
      BY <2>8, <3>1 DEF EndOp
    <3>3. \A q \in Procs : pc[q] \notin Committing
      BY <3>1, <1>0 DEF CommitAlone
    <3>4. \A q \in Procs : pc[q] \notin Booting
      BY <3>1, <1>0 DEF BootTogether, Booting, InRecovery
    <3>5. CommitStart \in {"fin", "wlog"}
      BY DEF CommitStart
    <3>6. /\ pc'[p] \in {"out", "fin", "wlog"}
          /\ \A q \in Procs : q # p => pc'[q] = pc[q] \/ (pc[q] = "asleep" /\ pc'[q] = "woken")
      BY <3>2, <3>5, <1>p DEF Wakeup
    <3>7. Active' = Active \ {p} /\ p \in Active
      BY <3>1, <3>6 DEF Active, InOp
    <3>8. OpsCounted'
      BY <2>8, <1>0, <1>1, <3>7, FS_RemoveElement DEF EndOp, OpsCounted
    <3>9. BootTogether' /\ RecoverAlone'
      BY <3>4, <3>6 DEF BootTogether, RecoverAlone, Booting, InRecovery
    <3>10. BufHeld'
      BY <3>1, <3>6, <1>0 DEF BufHeld
    <3>11. CASE outstanding' = 0
      <4>1. Active' = {}
        BY <3>8, <3>11, <3>7, <1>1, FS_RemoveElement, FS_EmptySet DEF OpsCounted
      <4>2. committing' /\ pc'[p] \in {"fin", "wlog"}
        BY <3>2, <3>5, <3>11, <1>p
      <4>3. \A q \in Procs : q # p => pc'[q] \notin Committing \cup InOp
        BY <4>1, <3>3, <3>6 DEF Active, Committing
      <4>4. CommitAlone' /\ CommitOwned'
        BY <4>2, <4>3 DEF CommitAlone, CommitOwned, Committing
      <4>5. QED
        BY <4>4, <3>8, <3>9, <3>10 DEF Control
    <3>12. CASE outstanding' # 0
      <4>1. ~committing' /\ pc'[p] = "out"
        BY <3>2, <3>12, <1>p DEF Wakeup
      <4>2. \A q \in Procs : pc'[q] \notin Committing
        BY <4>1, <3>3, <3>6 DEF Committing
      <4>3. CommitAlone' /\ CommitOwned'
        BY <4>1, <4>2 DEF CommitAlone, CommitOwned
      <4>4. QED
        BY <4>3, <3>8, <3>9, <3>10 DEF Control
    <3>13. QED
      BY <3>11, <3>12
  <2>9. CASE WriteLog(p)
    <3>1. /\ pc[p] = "wlog" /\ pc'[p] \in {"wlog", "whead"}
          /\ \A q \in Procs : q # p => pc'[q] = pc[q]
          /\ UNCHANGED <<committing, buf, outstanding>>
      BY <2>9, <1>p DEF WriteLog, mem
    <3>2. \A q \in Procs : SameClass(pc[q], pc'[q])
      BY <3>1 DEF SameClass, Committing, InOp, Booting, InRecovery
    <3>3. QED
      BY <3>1, <3>2, <1>0, ControlFrame
  <2>10. CASE WriteHead(p)
    <3>1. /\ pc[p] = "whead" /\ pc'[p] = "install"
          /\ \A q \in Procs : q # p => pc'[q] = pc[q]
          /\ UNCHANGED <<committing, buf, outstanding>>
      BY <2>10, <1>p DEF WriteHead, mem
    <3>2. \A q \in Procs : SameClass(pc[q], pc'[q])
      BY <3>1 DEF SameClass, Committing, InOp, Booting, InRecovery
    <3>3. QED
      BY <3>1, <3>2, <1>0, ControlFrame
  <2>11. CASE CommitDone(p)
    <3>1. /\ pc[p] = "fin" /\ pc'[p] = "out"
          /\ \A q \in Procs : q # p => pc'[q] = pc[q] \/ (pc[q] = "asleep" /\ pc'[q] = "woken")
          /\ ~committing' /\ UNCHANGED <<buf, outstanding>>
      BY <2>11, <1>p DEF CommitDone, Wakeup
    <3>2. \A q \in Procs : q # p => pc[q] \notin Committing
      BY <3>1, <1>0 DEF CommitAlone, Committing
    <3>3. CommitAlone' /\ CommitOwned'
      BY <3>1, <3>2 DEF CommitAlone, CommitOwned, Committing
    <3>4. BootTogether' /\ RecoverAlone'
      BY <3>1, <1>0 DEF BootTogether, RecoverAlone, Booting, InRecovery
    <3>5. BufHeld'
      BY <3>1, <1>0 DEF BufHeld
    <3>6. Active' = Active
      BY <3>1 DEF Active, InOp
    <3>7. QED
      BY <3>1, <3>3, <3>4, <3>5, <3>6, <1>0 DEF Control, OpsCounted
  <2>12. QED
    BY <1>4, <2>1, <2>2, <2>3, <2>4, <2>5, <2>6, <2>7, <2>8, <2>9, <2>10, <2>11 DEF Step
<1>5. QED
  BY <1>2, <1>3, <1>4 DEF Next

(* The loops of write_log and install_trans run over entries that exist.   *)
LEMMA LoopStep == IInv /\ [Next]_vars => LoopIndex'
<1> SUFFICES ASSUME IInv, [Next]_vars PROVE LoopIndex'
  OBVIOUS
<1>0. TypeOK /\ Control /\ LoopIndex
  BY DEF IInv
<1>1. CASE Crash
  BY <1>1 DEF Crash, LoopIndex, Copying
<1>2. CASE UNCHANGED vars
  BY <1>2, <1>0 DEF LoopIndex, vars, mem
<1>3. ASSUME NEW p \in Procs, Step(p) PROVE LoopIndex'
  <2> USE DEF LoopIndex, Copying, TypeOK
  <2>1. CASE ReadHead(p)
    BY <2>1, <1>0 DEF ReadHead
  <2>2. CASE InstallTrans(p)
    BY <2>2, <1>0 DEF InstallTrans
  <2>3. CASE EraseHead(p)
    BY <2>3, <1>0 DEF EraseHead, Control, BootTogether, RecoverAlone, CommitAlone, Committing, Booting, InRecovery
  <2>4. CASE BeginSleep(p)
    BY <2>4, <1>0 DEF BeginSleep, mem
  <2>5. CASE BeginAdmit(p)
    BY <2>5, <1>0 DEF BeginAdmit
  <2>6. ASSUME NEW b \in Blocks, NEW v \in Vals, Modify(p, b, v) PROVE LoopIndex'
    BY <2>6, <1>0 DEF Modify
  <2>7. CASE LogAppend(p)
    <3>1. \A q \in Procs : pc[q] \notin Copying \cup {"whead"}
      BY <2>7, <1>0 DEF LogAppend, Control, BootTogether, RecoverAlone, CommitAlone, Committing, Booting, InRecovery, InOp
    <3>2. QED
      BY <2>7, <1>0, <3>1 DEF LogAppend
  <2>8. CASE EndOp(p)
    BY <2>8, <1>0 DEF EndOp, CommitStart, Wakeup
  <2>9. CASE WriteLog(p)
    BY <2>9, <1>0 DEF WriteLog, mem
  <2>10. CASE WriteHead(p)
    BY <2>10, <1>0 DEF WriteHead, mem
  <2>11. CASE CommitDone(p)
    BY <2>11, <1>0 DEF CommitDone, Wakeup
  <2>12. QED
    BY <1>3, <2>1, <2>2, <2>3, <2>4, <2>5, <2>6, <2>7, <2>8, <2>9, <2>10, <2>11 DEF Step
<1>4. QED
  BY <1>1, <1>2, <1>3 DEF Next

-----------------------------------------------------------------------------
(* Facts about reservations. *)

LEMMA ReservedFinite ==
  ASSUME TypeOK
  PROVE  /\ IsFiniteSet(Reserved)
         /\ Cardinality(Reserved) \in Nat
         /\ Cardinality(Reserved) <= Cardinality(Active) * MAXOPBLOCKS
<1> USE LogSizesAssumption, ProcsAssumption
<1>1. IsFiniteSet(Active) /\ IsFiniteSet(1..MAXOPBLOCKS) /\ Cardinality(1..MAXOPBLOCKS) = MAXOPBLOCKS
  BY FS_Subset, FS_Interval DEF Active
<1>2. /\ IsFiniteSet(Active \X (1..MAXOPBLOCKS))
      /\ Cardinality(Active \X (1..MAXOPBLOCKS)) = Cardinality(Active) * MAXOPBLOCKS
  BY <1>1, FS_Product
<1>3. Reserved \subseteq Active \X (1..MAXOPBLOCKS)
  BY DEF Reserved, Active
<1>4. /\ IsFiniteSet(Reserved)
      /\ Cardinality(Reserved) <= Cardinality(Active \X (1..MAXOPBLOCKS))
  BY <1>2, <1>3, FS_Subset
<1>5. QED
  BY <1>2, <1>4, FS_CardinalityType

(* An operation that has logged at most OpMax blocks still holds the rest. *)
LEMMA ReservedLowerBound ==
  ASSUME TypeOK, NEW p \in Active, Cardinality(wrote[p]) <= OpMax
  PROVE  MAXOPBLOCKS - OpMax <= Cardinality(Reserved)
<1> USE LogSizesAssumption, ProcsAssumption, BlocksAssumption
<1> DEFINE left == (OpMax + 1)..MAXOPBLOCKS
           pairs == {p} \X left
<1>1. Cardinality(wrote[p]) \in Nat
  BY FS_Subset, FS_CardinalityType DEF TypeOK, Active
<1>2. IsFiniteSet(left) /\ Cardinality(left) = MAXOPBLOCKS - OpMax
  BY FS_Interval
<1>3. IsFiniteSet({p}) /\ Cardinality({p}) = 1
  BY FS_Singleton
<1>4. Cardinality(pairs) = MAXOPBLOCKS - OpMax
  <2> HIDE DEF left
  <2>1. Cardinality(pairs) = 1 * Cardinality(left)
    BY <1>2, <1>3, FS_Product
  <2>2. QED
    BY <2>1, <1>2
<1>5. pairs \subseteq Reserved
  BY <1>1 DEF Reserved, Active
<1>6. QED
  BY <1>4, <1>5, ReservedFinite, FS_Subset

LEMMA ReservedFrame ==
  ASSUME Active' = Active, UNCHANGED wrote
  PROVE  Reserved' = Reserved
  BY DEF Reserved

(* The space invariant survives every step. *)
LEMMA SpaceStep == IInv /\ [Next]_vars => Space'
<1> SUFFICES ASSUME IInv, [Next]_vars PROVE Space'
  OBVIOUS
<1> USE LogSizesAssumption, ProcsAssumption, BlocksAssumption
<1>0. TypeOK /\ Control /\ LoopIndex /\ Space /\ TypeOK'
  BY TypeStep DEF IInv
<1>1. /\ IsFiniteSet(Reserved) /\ Cardinality(Reserved) \in Nat
      /\ IsFiniteSet(Reserved') /\ Cardinality(Reserved') \in Nat
      /\ Len(lh) \in Nat /\ Len(lh') \in Nat /\ Len(head) \in Nat
  <2>1. TypeOK /\ TypeOK'
    BY <1>0
  <2>2. IsFiniteSet(Reserved) /\ Cardinality(Reserved) \in Nat
    BY <2>1, ReservedFinite
  <2>3. IsFiniteSet(Reserved') /\ Cardinality(Reserved') \in Nat
    <3>1. IsFiniteSet(Procs \X (1..MAXOPBLOCKS))
      <4>1. IsFiniteSet(1..MAXOPBLOCKS)
        BY FS_Interval
      <4>2. QED
        BY <4>1, FS_Product
    <3>2. Reserved' \subseteq Procs \X (1..MAXOPBLOCKS)
      BY DEF Reserved
    <3>3. QED
      BY <3>1, <3>2, FS_Subset, FS_CardinalityType
  <2>4. QED
    BY <2>1, <2>2, <2>3 DEF TypeOK
<1>2. CASE Crash
  <2>1. Active' = {} /\ Reserved' = {}
    BY <1>2 DEF Crash, Active, InOp, Reserved
  <2>2. QED
    BY <1>2, <1>0, <2>1, FS_EmptySet DEF Crash, Space, disk
<1>3. CASE UNCHANGED vars
  <2>1. Active' = Active /\ Reserved' = Reserved
    BY <1>3 DEF vars, mem, Active, Reserved
  <2>2. QED
    BY <1>0, <1>3, <2>1 DEF Space, vars, mem, disk
<1>4. ASSUME NEW p \in Procs, Step(p) PROVE Space'
  <2>1. CASE ReadHead(p)
    <3>1. Active' = {} /\ Reserved' = {}
      BY <2>1, <1>0 DEF ReadHead, Active, InOp, TypeOK, Reserved
    <3>2. QED
      BY <2>1, <1>0, <1>1, <3>1, FS_EmptySet DEF ReadHead, Space, disk
  <2>2. CASE InstallTrans(p)
    <3>1. Active' = Active /\ wrote' = wrote /\ \A q \in Active : pc'[q] = pc[q]
      BY <2>2, <1>0 DEF InstallTrans, Active, InOp, TypeOK
    <3>2. QED
      BY <2>2, <1>0, <3>1, ReservedFrame DEF InstallTrans, Space
  <2>3. CASE EraseHead(p)
    <3>1. Active' = {} /\ Reserved' = {}
      BY <2>3, <1>0 DEF EraseHead, Active, InOp, TypeOK, Reserved, Control, BootTogether, RecoverAlone,
                        CommitAlone, Committing, Booting, InRecovery
    <3>2. QED
      BY <2>3, <1>0, <3>1, FS_EmptySet DEF EraseHead, Space
  <2>4. CASE BeginSleep(p)
    <3>1. Active' = Active /\ wrote' = wrote /\ \A q \in Active : pc'[q] = pc[q]
      BY <2>4, <1>0 DEF BeginSleep, Active, InOp, TypeOK
    <3>2. QED
      BY <2>4, <1>0, <3>1, ReservedFrame DEF BeginSleep, Space, mem, disk
  <2>5. CASE BeginAdmit(p)
    <3>1. Active' = Active \cup {p} /\ p \notin Active
      BY <2>5, <1>0 DEF BeginAdmit, Active, InOp, TypeOK
    <3>2. Cardinality(Active') = outstanding + 1
      <4>1. IsFiniteSet(Active)
        BY FS_Subset DEF Active
      <4>2. QED
        BY <3>1, <4>1, <1>0, FS_AddElement DEF Control, OpsCounted
    <3>3. Cardinality(Reserved') <= (outstanding + 1) * MAXOPBLOCKS
      <4>1. IsFiniteSet(Active') /\ IsFiniteSet(1..MAXOPBLOCKS)
            /\ Cardinality(1..MAXOPBLOCKS) = MAXOPBLOCKS
        BY FS_Subset, FS_Interval DEF Active
      <4>2. /\ IsFiniteSet(Active' \X (1..MAXOPBLOCKS))
            /\ Cardinality(Active' \X (1..MAXOPBLOCKS)) = (outstanding + 1) * MAXOPBLOCKS
        <5> DEFINE n == Cardinality(Active')
        <5>1. Cardinality(Active' \X (1..MAXOPBLOCKS)) = n * MAXOPBLOCKS
          BY <4>1, FS_Product
        <5>2. n = outstanding + 1
          BY <3>2
        <5>3. QED
          BY <5>1, <5>2, <4>1, FS_Product
      <4>3. Reserved' \subseteq Active' \X (1..MAXOPBLOCKS)
        BY DEF Reserved, Active
      <4>4. QED
        BY <4>2, <4>3, FS_Subset
    <3>4. Len(lh') + (outstanding + 1) * MAXOPBLOCKS <= LOGSIZE
      BY <2>5, <1>0, <1>1 DEF BeginAdmit, MustWait, NoSpace, TypeOK
    <3>5. Len(lh') + Cardinality(Reserved') <= LOGSIZE
      <4>1. (outstanding + 1) * MAXOPBLOCKS \in Int
        BY <1>0 DEF TypeOK
      <4>2. QED
        BY <3>3, <3>4, <4>1, <1>1
    <3>6. wrote'[p] = {} /\ pc'[p] = "op" /\ \A q \in Active : pc'[q] = pc[q] /\ wrote'[q] = wrote[q]
      BY <2>5, <3>1, <1>0 DEF BeginAdmit, TypeOK, Active
    <3>7. lh' = lh /\ head' = head /\ buf' = buf /\ Cardinality({}) = 0
      BY <2>5, FS_EmptySet DEF BeginAdmit, disk
    <3>8. \A q \in Active' :
             /\ wrote'[q] \subseteq Range(lh')
             /\ Cardinality(wrote'[q]) <= OpMax
             /\ pc'[q] = "logw" => Cardinality(wrote'[q] \cup {buf'[q]}) <= OpMax
      <4> SUFFICES ASSUME NEW q \in Active'
                   PROVE  /\ wrote'[q] \subseteq Range(lh')
                          /\ Cardinality(wrote'[q]) <= OpMax
                          /\ pc'[q] = "logw" => Cardinality(wrote'[q] \cup {buf'[q]}) <= OpMax
        OBVIOUS
      <4>1. CASE q = p
        <5>1. 0 <= OpMax
          OBVIOUS
        <5>2. QED
          BY <4>1, <5>1, <3>6, <3>7
      <4>2. CASE q # p
        <5>1. q \in Active
          BY <4>2, <3>1
        <5>2. QED
          BY <5>1, <1>0, <3>6, <3>7 DEF Space
      <4>3. QED
        BY <4>1, <4>2
    <3>9. QED
      <4>1. Len(head') <= LOGSIZE
        BY <3>7, <1>0 DEF Space
      <4>2. QED
        BY <4>1, <3>5, <3>8 DEF Space
  <2>6. ASSUME NEW b \in Blocks, NEW v \in Vals, Modify(p, b, v) PROVE Space'
    <3>1. Active' = Active /\ wrote' = wrote
      BY <2>6, <1>0 DEF Modify, Active, InOp, TypeOK
    <3>2. \A q \in Active : pc'[q] = "logw" =>
             (pc[q] = "logw" /\ buf'[q] = buf[q]) \/ (q = p /\ buf'[q] = b)
      <4>1. CASE LogWriteCheck
        BY <4>1, <2>6 DEF Modify, Active
      <4>2. CASE ~LogWriteCheck
        BY <4>2, <2>6, <1>0 DEF Modify, TypeOK, Active
      <4>3. QED
        BY <4>1, <4>2
    <3>3. lh' = lh /\ head' = head /\ Cardinality(wrote[p] \cup {b}) <= OpMax
      BY <2>6 DEF Modify, disk
    <3>4. QED
      BY <1>0, <3>1, <3>2, <3>3, ReservedFrame DEF Space
  <2>7. CASE LogAppend(p)
    <3> DEFINE b == buf[p]
               k == Cardinality(wrote[p])
    <3>1. p \in Active /\ b \in Blocks /\ Active' = Active
      BY <2>7, <1>0 DEF LogAppend, Control, BufHeld, TypeOK, Active, InOp
    <3>2. IsFiniteSet(wrote[p]) /\ k \in Nat
      BY <3>1, <1>0, FS_Subset, FS_CardinalityType DEF TypeOK, Active
    <3>3. /\ lh' = Absorb(lh, b)
          /\ Len(lh') = IF b \in Range(lh) THEN Len(lh) ELSE Len(lh) + 1
          /\ Range(lh') = Range(lh) \cup {b}
      BY <2>7, <1>0, <3>1, AbsorbType DEF LogAppend, TypeOK
    <3>4. /\ wrote'[p] = wrote[p] \cup {b} /\ pc'[p] = "op"
          /\ \A q \in Active : q # p => wrote'[q] = wrote[q] /\ pc'[q] = pc[q] /\ buf'[q] = buf[q]
      BY <2>7, <1>0, <3>1 DEF LogAppend, TypeOK, Active
    <3>5. /\ wrote[p] \subseteq Range(lh)
          /\ Cardinality(wrote[p] \cup {b}) <= OpMax
          /\ Cardinality(wrote[p] \cup {b}) = IF b \in wrote[p] THEN k ELSE k + 1
      BY <2>7, <1>0, <3>1, <3>2, FS_AddElement DEF Space, LogAppend
    <3>6. Len(lh') + Cardinality(Reserved') <= LOGSIZE
      <4>1. Reserved' \subseteq Reserved
        <5>1. \A q \in Active : \A j \in 1..MAXOPBLOCKS :
                 j > Cardinality(wrote'[q]) => j > Cardinality(wrote[q])
          <6>1. Cardinality(wrote[p]) <= Cardinality(wrote'[p])
            BY <3>2, <3>4, <3>5
          <6>2. Cardinality(wrote'[p]) \in Nat
            BY <3>2, <3>4, <3>5
          <6>3. SUFFICES ASSUME NEW q \in Active, NEW j \in 1..MAXOPBLOCKS,
                                j > Cardinality(wrote'[q])
                         PROVE  j > Cardinality(wrote[q])
            OBVIOUS
          <6>4. CASE q = p
            BY <6>1, <6>2, <6>3, <6>4, <3>2
          <6>5. CASE q # p
            BY <6>3, <6>5, <3>4
          <6>6. QED
            BY <6>4, <6>5
        <5>2. QED
          BY <5>1, <3>1 DEF Reserved
      <4>2. CASE b \in Range(lh)
        BY <4>1, <4>2, <3>3, <1>0, <1>1, FS_Subset DEF Space
      <4>3. CASE b \notin Range(lh)
        <5>1. b \notin wrote[p] /\ k + 1 <= OpMax /\ Cardinality(wrote'[p]) = k + 1
          BY <4>3, <3>4, <3>5
        <5>2. <<p, k + 1>> \in Reserved
          BY <5>1, <3>1, <3>2 DEF Reserved, Active
        <5>3. Reserved' \subseteq Reserved \ {<<p, k + 1>>}
          <6>1. <<p, k + 1>> \notin Reserved'
            BY <5>1, <3>2 DEF Reserved
          <6>2. QED
            BY <4>1, <6>1
        <5>4. IsFiniteSet(Reserved \ {<<p, k + 1>>})
              /\ Cardinality(Reserved \ {<<p, k + 1>>}) = Cardinality(Reserved) - 1
          <6> DEFINE t == <<p, k + 1>>
          <6>1. t \in Reserved /\ IsFiniteSet(Reserved)
            BY <5>2, <1>1
          <6> HIDE DEF t
          <6>2. QED
            BY <6>1, FS_RemoveElement DEF t
        <5>5. Cardinality(Reserved') <= Cardinality(Reserved) - 1
          BY <5>3, <5>4, FS_Subset
        <5>6. QED
          BY <5>5, <4>3, <3>3, <1>0, <1>1 DEF Space
      <4>4. QED
        BY <4>2, <4>3
    <3>7. head' = head
      BY <2>7 DEF LogAppend, disk
    <3>8. \A q \in Active' :
             /\ wrote'[q] \subseteq Range(lh')
             /\ Cardinality(wrote'[q]) <= OpMax
             /\ pc'[q] = "logw" => Cardinality(wrote'[q] \cup {buf'[q]}) <= OpMax
      BY <3>1, <3>3, <3>4, <3>5, <1>0 DEF Space
    <3>9. QED
      <4>1. Len(head') <= LOGSIZE
        BY <3>7, <1>0 DEF Space
      <4>2. QED
        BY <4>1, <3>6, <3>8 DEF Space
  <2>8. CASE EndOp(p)
    <3>1. ~committing
      BY <2>8, <1>0, OpNotCommitting DEF EndOp, Active, InOp
    <3>2. Active' \subseteq Active /\ \A q \in Active' : pc'[q] = pc[q]
      BY <2>8, <1>0, <3>1 DEF EndOp, Active, InOp, Wakeup, CommitStart, TypeOK
    <3>3. Reserved' \subseteq Reserved
      BY <2>8, <3>2 DEF EndOp, Reserved
    <3>4. Cardinality(Reserved') <= Cardinality(Reserved)
      BY <3>3, <1>1, FS_Subset
    <3>5. QED
      BY <2>8, <1>0, <1>1, <3>2, <3>4 DEF EndOp, Space, disk
  <2>9. CASE WriteLog(p)
    <3>1. Active' = Active /\ wrote' = wrote /\ \A q \in Active : pc'[q] = pc[q]
      BY <2>9, <1>0 DEF WriteLog, Active, InOp, TypeOK
    <3>2. QED
      BY <2>9, <1>0, <3>1, ReservedFrame DEF WriteLog, Space, mem
  <2>10. CASE WriteHead(p)
    <3>1. Active' = Active /\ wrote' = wrote /\ \A q \in Active : pc'[q] = pc[q]
      BY <2>10, <1>0 DEF WriteHead, Active, InOp, TypeOK
    <3>2. head' = lh /\ lh' = lh /\ buf' = buf
      BY <2>10 DEF WriteHead, mem
    <3>3. QED
      BY <1>0, <1>1, <3>1, <3>2, ReservedFrame DEF Space
  <2>11. CASE CommitDone(p)
    <3>1. Active' = Active /\ wrote' = wrote /\ \A q \in Active : pc'[q] = pc[q]
      BY <2>11, <1>0 DEF CommitDone, Active, InOp, TypeOK, Wakeup
    <3>2. QED
      BY <2>11, <1>0, <3>1, ReservedFrame DEF CommitDone, Space, disk
  <2>12. QED
    BY <1>4, <2>1, <2>2, <2>3, <2>4, <2>5, <2>6, <2>7, <2>8, <2>9, <2>10, <2>11 DEF Step
<1>5. QED
  BY <1>2, <1>3, <1>4 DEF Next

-----------------------------------------------------------------------------
LEMMA IInvStep == IInv /\ [Next]_vars => IInv'
  BY TypeStep, ControlStep, LoopStep, SpaceStep DEF IInv

LEMMA IInvAlways == Spec => []IInv
  BY InitIInv, IInvStep, PTL DEF Spec

(* Every step of log.c keeps its data in range, in every execution. *)
THEOREM TypeCorrect == Spec => []TypeOK
<1>1. IInv => TypeOK
  BY DEF IInv
<1>2. QED
  BY <1>1, IInvAlways, PTL

(* commit() has the log to itself although it holds no lock. *)
THEOREM CommitRunsAlone == Spec => []CommitAlone
<1>1. IInv => CommitAlone
  BY DEF IInv, Control
<1>2. QED
  BY <1>1, IInvAlways, PTL

(* The operations leave two blocks of their reservation unused, one for the *)
(* header that mkfs counts as a log block and one because log_write's test  *)
(* also rejects an absorbed block.                                          *)
Roomy == LOGSIZE + OpMax + 1 < NLOG + MAXOPBLOCKS

Safe == IInv /\ NoPanic /\ LogFits /\ Len(head) <= NLOG - 1

LEMMA SafeStep == ASSUME Roomy PROVE Safe /\ [Next]_vars => Safe'
<1> SUFFICES ASSUME Safe, [Next]_vars PROVE Safe'
  OBVIOUS
<1> USE LogSizesAssumption
<1>0. /\ IInv /\ NoPanic /\ LogFits /\ IInv' /\ Len(head) <= NLOG - 1
      /\ TypeOK /\ Control /\ Space
      /\ Cardinality(Reserved) \in Nat /\ Len(lh) \in Nat /\ Len(lh') \in Nat
  <2>1. IInv /\ IInv'
    BY IInvStep DEF Safe
  <2>2. TypeOK /\ TypeOK' /\ Cardinality(Reserved) \in Nat
    BY <2>1, ReservedFinite DEF IInv
  <2>3. QED
    BY <2>1, <2>2 DEF Safe, IInv, TypeOK
<1>1. ASSUME NEW p \in Active PROVE Len(lh) < NLOG - 1
  <2>1. Cardinality(wrote[p]) <= OpMax
    BY <1>0 DEF Space
  <2>2. MAXOPBLOCKS - OpMax <= Cardinality(Reserved)
    BY <2>1, <1>0, ReservedLowerBound
  <2>3. QED
    BY <2>2, <1>0 DEF Space, Roomy
<1>2. ASSUME NEW p \in Active PROVE outstanding >= 1
  <2>1. IsFiniteSet(Active)
    BY ProcsAssumption, FS_Subset DEF Active
  <2>2. QED
    BY <2>1, <1>0, FS_EmptySet, FS_CardinalityType DEF Control, OpsCounted
<1>3. CASE Crash
  BY <1>3, <1>0 DEF Crash, NoPanic, LogFits, Safe, disk
<1>4. CASE UNCHANGED vars
  BY <1>4, <1>0 DEF vars, disk, mem, NoPanic, LogFits, Safe
<1>5. ASSUME NEW p \in Procs, Step(p) PROVE Safe'
  <2> USE DEF Safe, NoPanic, LogFits
  <2>1. CASE ReadHead(p)
    BY <2>1, <1>0 DEF ReadHead, disk
  <2>2. CASE InstallTrans(p)
    BY <2>2, <1>0 DEF InstallTrans
  <2>3. CASE EraseHead(p)
    BY <2>3, <1>0 DEF EraseHead
  <2>4. CASE BeginSleep(p)
    BY <2>4, <1>0 DEF BeginSleep, disk, mem
  <2>5. CASE BeginAdmit(p)
    BY <2>5, <1>0 DEF BeginAdmit, disk
  <2>6. ASSUME NEW b \in Blocks, NEW v \in Vals, Modify(p, b, v) PROVE Safe'
    <3>1. p \in Active
      BY <2>6 DEF Modify, Active, InOp
    <3>2. ~LogWriteCheck
      BY <3>1, <1>0, <1>1, <1>2 DEF LogWriteCheck, TypeOK
    <3>3. QED
      BY <2>6, <3>2, <1>0 DEF Modify, disk
  <2>7. CASE LogAppend(p)
    <3>1. p \in Active /\ buf[p] \in Blocks
      BY <2>7, <1>0 DEF LogAppend, Control, BufHeld, TypeOK, Active, InOp
    <3>2. Len(lh') <= Len(lh) + 1
      BY <2>7, <3>1, <1>0, AbsorbType DEF LogAppend, TypeOK
    <3>3. QED
      BY <2>7, <3>1, <3>2, <1>0, <1>1 DEF LogAppend, disk
  <2>8. CASE EndOp(p)
    <3>1. ~committing
      BY <2>8, <1>0, OpNotCommitting DEF EndOp, Active, InOp
    <3>2. QED
      BY <2>8, <3>1, <1>0 DEF EndOp, disk
  <2>9. CASE WriteLog(p)
    BY <2>9, <1>0 DEF WriteLog, mem
  <2>10. CASE WriteHead(p)
    BY <2>10, <1>0 DEF WriteHead, mem
  <2>11. CASE CommitDone(p)
    BY <2>11, <1>0 DEF CommitDone, disk
  <2>12. QED
    BY <1>5, <2>1, <2>2, <2>3, <2>4, <2>5, <2>6, <2>7, <2>8, <2>9, <2>10, <2>11 DEF Step
<1>6. QED
  BY <1>3, <1>4, <1>5 DEF Next

LEMMA SafeInit == ASSUME Roomy PROVE Init => Safe
  BY InitIInv, LogSizesAssumption DEF Init, Safe, NoPanic, LogFits

(* With room to spare, neither panic of log_write nor that of end_op is     *)
(* reached, for any number of processes and any interleaving of them.      *)
THEOREM NeverPanics == ASSUME Roomy PROVE Spec => []NoPanic
<1>1. Safe => NoPanic
  BY DEF Safe
<1>2. QED
  BY <1>1, SafeInit, SafeStep, PTL DEF Spec

(* With room to spare, the log never runs over the inode blocks behind it.  *)
THEOREM LogStaysInBounds == ASSUME Roomy PROVE Spec => []LogFits
<1>1. Safe => LogFits
  BY DEF Safe
<1>2. QED
  BY <1>1, SafeInit, SafeStep, PTL DEF Spec

-----------------------------------------------------------------------------
(***************************************************************************)
(* The log keeps its promise: nobody is forgotten in begin_op, home blocks  *)
(* change only to what the log on the disk says, and the operations reach   *)
(* the disk whole or not at all (AtomicDisk).                              *)
(*                                                                         *)
(* Beside IInv the argument needs to know which of the four places of a     *)
(* block agree (cache, log block, home block, and the header that says      *)
(* which of the last two counts) at each point of commit() and of recovery. *)
(***************************************************************************)

Idle == {"out", "asleep", "woken"}
Installing == {"install", "erase"}

(* What the header says, in memory and on the disk. *)
Headers ==
  /\ IsInjective(lh) /\ IsInjective(head)
  /\ \A p \in Procs : pc[p] \in Installing \cup InRecovery => head = lh
  /\ (\A p \in Procs : pc[p] \notin Installing \cup Booting) => head = <<>>
  /\ \A p \in Procs : pc[p] = "fin" => lh = <<>>
  /\ (\A p \in Procs : pc[p] \in Idle) => lh = <<>>

(* A block that the cache and its home do not agree on is in the header, or *)
(* about to be.                                                            *)
Dirty ==
  /\ panicked => \E p \in Procs : pc[p] \in InOp
  /\ \A b \in Blocks : cache[b] # home[b] =>
       panicked \/ b \in Range(lh) \/ \E p \in Procs : buf[p] = b

(* How far commit() or recovery, at process p, has copied the blocks. *)
Copied(p) ==
  /\ pc[p] \in Booting => cache = home
  /\ pc[p] = "wlog" => \A i \in 1..tail[p] : logd[i] = cache[lh[i]]
  /\ pc[p] \in Installing \cup {"whead"} => \A i \in 1..Len(lh) : logd[i] = cache[lh[i]]
  /\ pc[p] \in {"install", "rinstall"} => \A i \in 1..tail[p] : home[lh[i]] = logd[i]
  /\ pc[p] \in {"erase", "rerase"} => \A i \in 1..Len(lh) : home[lh[i]] = logd[i]

Copies == Dirty /\ \A p \in Procs : Copied(p)

Inv == IInv /\ Headers /\ Copies

-----------------------------------------------------------------------------
LEMMA InitInv == Init => Inv
<1> SUFFICES ASSUME Init PROVE Inv
  OBVIOUS
<1> USE ProcsAssumption
<1>1. IInv
  BY InitIInv
<1>2. Headers
  BY DEF Init, Headers, IsInjective, Installing, Booting, InRecovery, Idle
<1>3. Copies
  BY DEF Init, Copies, Dirty, Copied, Installing, Booting, InRecovery
<1>4. QED
  BY <1>1, <1>2, <1>3 DEF Inv

(* Appending a block that is not there keeps the header free of repetitions. *)
LEMMA AbsorbInjective ==
  ASSUME NEW s \in Seq(Blocks), NEW b \in Blocks, IsInjective(s)
  PROVE  IsInjective(Absorb(s, b))
<1>1. CASE b \in Range(s)
  BY <1>1 DEF Absorb
<1>2. CASE b \notin Range(s)
  <2> DEFINE t == Append(s, b)
  <2>1. /\ t \in Seq(Blocks) /\ Len(t) = Len(s) + 1
        /\ \A i \in 1..Len(s) : t[i] = s[i]
        /\ t[Len(s) + 1] = b
    BY AppendProperties
  <2>2. DOMAIN t = 1..(Len(s) + 1) /\ DOMAIN s = 1..Len(s) /\ Len(s) \in Nat
    BY <2>1
  <2>3. \A i \in 1..Len(s) : s[i] # b
    BY <1>2, <2>2 DEF Range
  <2> HIDE DEF t
  <2>4. IsInjective(t)
    BY <2>1, <2>2, <2>3 DEF IsInjective
  <2>5. QED
    BY <1>2, <2>4 DEF Absorb, t
<1>3. QED
  BY <1>1, <1>2

(* Who is alone where: what CommitAlone and Control say of one process that *)
(* commits or recovers.                                                    *)
LEMMA Alone ==
  ASSUME IInv, NEW p \in Procs
  PROVE  /\ pc[p] \in Committing => \A q \in Procs \ {p} : pc[q] \in Idle
         /\ pc[p] \in InRecovery => \A q \in Procs \ {p} : pc[q] = "down"
         /\ pc[p] \notin Booting => \A q \in Procs : pc[q] \notin Booting
         /\ \A q \in Procs : pc[q] # "logw" => buf[q] = NoBlock
         /\ pc[p] \in PCs
<1>1. /\ CommitAlone /\ BootTogether /\ RecoverAlone /\ BufHeld
      /\ \A q \in Procs : pc[q] \in PCs
  BY DEF IInv, TypeOK, Control
<1>2. ASSUME pc[p] \in Committing, NEW q \in Procs \ {p} PROVE pc[q] \in Idle
  <2>1. pc[q] \notin Committing \cup InOp
    BY <1>1, <1>2 DEF CommitAlone
  <2>2. pc[q] \notin Booting
    BY <1>1, <1>2 DEF BootTogether, Booting, InRecovery, Committing
  <2>3. QED
    BY <1>1, <2>1, <2>2 DEF PCs, Booting, Idle
<1>3. pc[p] \in InRecovery => \A q \in Procs \ {p} : pc[q] = "down"
  BY <1>1 DEF RecoverAlone
<1>4. pc[p] \notin Booting => \A q \in Procs : pc[q] \notin Booting
  BY <1>1 DEF BootTogether
<1>5. \A q \in Procs : pc[q] # "logw" => buf[q] = NoBlock
  BY <1>1 DEF BufHeld
<1>6. QED
  BY <1>1, <1>2, <1>3, <1>4, <1>5

LEMMA HeadersStep == Inv /\ [Next]_vars => Headers'
<1> SUFFICES ASSUME Inv, [Next]_vars PROVE Headers'
  OBVIOUS
<1> USE ProcsAssumption, BlocksAssumption
<1>0. IInv /\ TypeOK /\ Headers /\ Control
  BY DEF Inv, IInv
<1>1. CASE Crash
  BY <1>1, <1>0 DEF Crash, disk, Headers, IsInjective, Installing, Booting, InRecovery, Idle
<1>2. CASE UNCHANGED vars
  BY <1>2, <1>0 DEF vars, disk, mem, Headers
<1>3. ASSUME NEW p \in Procs, Step(p) PROVE Headers'
  <2> USE DEF Headers, TypeOK, Installing, Booting, InRecovery, Idle
  <2>1. CASE ReadHead(p)
    BY <2>1, <1>0 DEF ReadHead, disk
  <2>2. CASE InstallTrans(p)
    BY <2>2, <1>0, Alone DEF InstallTrans, Committing
  <2>3. CASE EraseHead(p)
    BY <2>3, <1>0, Alone DEF EraseHead, Committing, IsInjective
  <2>4. CASE BeginSleep(p)
    BY <2>4, <1>0 DEF BeginSleep, disk, mem
  <2>5. CASE BeginAdmit(p)
    BY <2>5, <1>0 DEF BeginAdmit, disk
  <2>6. ASSUME NEW b \in Blocks, NEW v \in Vals, Modify(p, b, v) PROVE Headers'
    BY <2>6, <1>0 DEF Modify, disk
  <2>7. CASE LogAppend(p)
    <3>1. buf[p] \in Blocks
      BY <2>7, <1>0 DEF LogAppend, Control, BufHeld
    <3>2. \A q \in Procs : pc[q] \notin Committing \cup InRecovery \cup {"down"}
      BY <2>7, <1>0, OpNotCommitting DEF LogAppend, Active, InOp, Booting
    <3>3. QED
      BY <2>7, <1>0, <3>1, <3>2, AbsorbInjective DEF LogAppend, disk, Committing
  <2>8. CASE EndOp(p)
    <3>1. ~committing
      BY <2>8, <1>0, OpNotCommitting DEF EndOp, Active, InOp
    <3>2. CASE outstanding' = 0
      <4>1. \A q \in Procs : pc[q] \notin Installing \cup Booting \cup {"fin"}
        <5>1. \A q \in Procs : pc[q] \notin Committing
          BY <3>1, <1>0 DEF Control, CommitAlone
        <5>2. \A q \in Procs : pc[q] \notin Booting
          BY <2>8, <1>0, OpNotCommitting DEF EndOp, Active, InOp
        <5>3. QED
          BY <5>1, <5>2 DEF Committing
      <4>2. CommitStart \in {"fin", "wlog"} /\ (CommitStart = "fin" => lh = <<>>)
        BY DEF CommitStart
      <4>3. /\ pc' = [pc EXCEPT ![p] = CommitStart]
            /\ lh' = lh /\ head' = head
        BY <2>8, <3>1, <3>2 DEF EndOp, disk
      <4> HIDE DEF CommitStart
      <4>4. QED
        BY <1>0, <4>1, <4>2, <4>3
    <3>3. CASE outstanding' # 0
      <4>1. PICK q \in Procs : q # p /\ pc[q] \in InOp
        <5>1. Active \subseteq {p} => Active = {p}
          BY <2>8 DEF EndOp, Active, InOp
        <5>2. outstanding = 1 => outstanding' = 0
          BY <2>8 DEF EndOp
        <5>3. ~(Active \subseteq {p})
          BY <5>1, <5>2, <3>3, <1>0, FS_Singleton DEF Control, OpsCounted
        <5>4. QED
          BY <5>3 DEF Active
      <4>2. pc'[q] = pc[q]
        BY <2>8, <1>0, <3>1, <3>3, <4>1 DEF EndOp, Wakeup, InOp
      <4>3. QED
        BY <2>8, <1>0, <3>1, <3>3, <4>1, <4>2 DEF EndOp, Wakeup, disk, InOp
    <3>4. QED
      BY <3>2, <3>3
  <2>9. CASE WriteLog(p)
    BY <2>9, <1>0 DEF WriteLog, mem
  <2>10. CASE WriteHead(p)
    BY <2>10, <1>0, Alone DEF WriteHead, mem, Committing
  <2>11. CASE CommitDone(p)
    BY <2>11, <1>0, Alone DEF CommitDone, Wakeup, disk, Committing
  <2>12. QED
    BY <1>3, <2>1, <2>2, <2>3, <2>4, <2>5, <2>6, <2>7, <2>8, <2>9, <2>10, <2>11 DEF Step
<1>4. QED
  BY <1>1, <1>2, <1>3 DEF Next

(* Outside log_write a block of the cache that no header lists is on the    *)
(* disk: the two halves of commit() and the operations never overlap.       *)
LEMMA CleanBlocks ==
  ASSUME Inv, NEW p \in Procs, pc[p] \in Committing
  PROVE  \A b \in Blocks : b \notin Range(lh) => cache[b] = home[b]
<1>1. IInv /\ Control /\ Copies
  BY DEF Inv, IInv
<1>2. \A q \in Procs : pc[q] \notin InOp
  BY <1>1 DEF Control, CommitAlone, Committing, InOp
<1>3. \A q \in Procs : buf[q] = NoBlock
  BY <1>1, <1>2, Alone DEF InOp
<1>4. QED
  BY <1>1, <1>2, <1>3, BlocksAssumption DEF Copies, Dirty

(* Before the header is erased every home block is what the log said.       *)
LEMMA AllInstalled ==
  ASSUME Inv, NEW p \in Procs, pc[p] = "erase"
  PROVE  cache = home
<1>1. TypeOK /\ Copies
  BY DEF Inv, IInv
<1>2. ASSUME NEW b \in Blocks PROVE cache[b] = home[b]
  <2>1. CASE b \in Range(lh)
    <3>1. PICK i \in 1..Len(lh) : lh[i] = b
      BY <2>1, <1>1 DEF Range, TypeOK
    <3>2. QED
      BY <3>1, <1>1 DEF Copies, Copied, Installing
  <2>2. CASE b \notin Range(lh)
    BY <2>2, CleanBlocks DEF Committing
  <2>3. QED
    BY <2>1, <2>2
<1>3. QED
  BY <1>1, <1>2 DEF TypeOK

LEMMA HeaderFits == IInv => Len(lh) <= LOGSIZE /\ Len(lh) \in Nat
  BY LogSizesAssumption, ReservedFinite DEF IInv, Space, TypeOK

LEMMA DirtyStep == Inv /\ [Next]_vars => Dirty'
<1> SUFFICES ASSUME Inv, [Next]_vars PROVE Dirty'
  OBVIOUS
<1> USE ProcsAssumption, BlocksAssumption
<1>0. IInv /\ TypeOK /\ Control /\ LoopIndex /\ Dirty /\ \A p \in Procs : Copied(p)
  BY DEF Inv, IInv, Copies
<1>1. CASE Crash
  BY <1>1, <1>0 DEF Crash, disk, Dirty
<1>2. CASE UNCHANGED vars
  BY <1>2, <1>0 DEF vars, disk, mem, Dirty
<1>3. ASSUME NEW p \in Procs, Step(p) PROVE Dirty'
  <2> USE DEF Dirty, TypeOK
  <2>0. pc[p] \in Committing \cup InRecovery \cup {"down"} /\ (pc[p] = "down" => ReadHead(p))
          => ~panicked
    BY <1>0, Alone DEF ReadHead, Committing, InRecovery, InOp, Idle
  <2>1. CASE ReadHead(p)
    BY <2>1, <1>0 DEF ReadHead, disk, InOp, Copied, Booting
  <2>2. CASE InstallTrans(p)
    <3>1. ~panicked /\ tail[p] + 1 \in 1..Len(lh)
      BY <2>0, <2>2, <1>0 DEF InstallTrans, Committing, InRecovery, LoopIndex, Copying
    <3>2. lh[tail[p] + 1] \in Blocks
      BY <3>1, <1>0
    <3>3. QED
      BY <2>2, <1>0, <3>1, <3>2 DEF InstallTrans
  <2>3. CASE EraseHead(p)
    <3>1. ~panicked /\ cache = home
      BY <2>0, <2>3, <1>0, AllInstalled DEF EraseHead, Committing, InRecovery, Copied, Booting
    <3>2. QED
      BY <2>3, <3>1 DEF EraseHead
  <2>4. CASE BeginSleep(p)
    BY <2>4, <1>0 DEF BeginSleep, disk, mem
  <2>5. CASE BeginAdmit(p)
    BY <2>5, <1>0 DEF BeginAdmit, disk
  <2>6. ASSUME NEW b \in Blocks, NEW v \in Vals, Modify(p, b, v) PROVE Dirty'
    <3>1. buf[p] = NoBlock /\ pc'[p] \in InOp
      BY <2>6, <1>0, Alone DEF Modify, InOp
    <3>2. \A c \in Blocks \ {b} : cache'[c] = cache[c]
      BY <2>6, <1>0 DEF Modify
    <3>3. panicked' \/ (buf'[p] = b /\ \A q \in Procs \ {p} : buf'[q] = buf[q])
      BY <2>6, <1>0 DEF Modify
    <3>4. QED
      BY <2>6, <1>0, <3>1, <3>2, <3>3 DEF Modify, disk
  <2>7. CASE LogAppend(p)
    <3>1. buf[p] \in Blocks
      BY <2>7, <1>0 DEF LogAppend, Control, BufHeld
    <3>2. Range(lh') = Range(lh) \cup {buf[p]}
      BY <2>7, <1>0, <3>1, AbsorbType DEF LogAppend
    <3>3. QED
      BY <2>7, <1>0, <3>2 DEF LogAppend, disk
  <2>8. CASE EndOp(p)
    <3>1. ~committing
      BY <2>8, <1>0, OpNotCommitting DEF EndOp, Active, InOp
    <3>2. QED
      BY <2>8, <1>0, <3>1 DEF EndOp, disk
  <2>9. CASE WriteLog(p)
    BY <2>9, <1>0 DEF WriteLog, mem
  <2>10. CASE WriteHead(p)
    BY <2>10, <1>0 DEF WriteHead, mem
  <2>11. CASE CommitDone(p)
    BY <2>11, <1>0 DEF CommitDone, disk
  <2>12. QED
    BY <1>3, <2>1, <2>2, <2>3, <2>4, <2>5, <2>6, <2>7, <2>8, <2>9, <2>10, <2>11 DEF Step
<1>4. QED
  BY <1>1, <1>2, <1>3 DEF Next

LEMMA CopiedStep == Inv /\ [Next]_vars => \A r \in Procs : Copied(r)'
<1> SUFFICES ASSUME Inv, [Next]_vars, NEW r \in Procs PROVE Copied(r)'
  OBVIOUS
<1> USE ProcsAssumption, BlocksAssumption
<1>0. /\ IInv /\ TypeOK /\ Headers /\ Control /\ LoopIndex /\ Dirty
      /\ \A p \in Procs : Copied(p)
  BY DEF Inv, IInv, Copies
<1>1. CASE Crash
  BY <1>1, <1>0 DEF Crash, disk, Copied, Installing, Booting, InRecovery
<1>2. CASE UNCHANGED vars
  BY <1>2, <1>0 DEF vars, disk, mem, Copied
<1>3. ASSUME NEW p \in Procs, Step(p) PROVE Copied(r)'
  <2> USE DEF Copied, TypeOK, Installing, Booting, InRecovery
  <2>1. CASE ReadHead(p)
    BY <2>1, <1>0 DEF ReadHead, disk
  <2>2. CASE InstallTrans(p)
    <3> DEFINE i == tail[p] + 1
    <3>1. i \in 1..Len(lh) /\ lh[i] \in Blocks
      BY <2>2, <1>0 DEF InstallTrans, LoopIndex, Copying
    <3>2. /\ home' = [home EXCEPT ![lh[i]] = logd[i]]
          /\ cache' = [cache EXCEPT ![lh[i]] = logd[i]]
          /\ tail' = [tail EXCEPT ![p] = i]
          /\ logd' = logd /\ lh' = lh
      BY <2>2 DEF InstallTrans
    <3>3. \A j \in 1..Len(lh) : lh[j] \in Blocks /\ (lh[j] = lh[i] => j = i)
      BY <3>1, <1>0 DEF Headers, IsInjective
    <3>0. ASSUME NEW j \in 1..i PROVE home'[lh[j]] = logd[j]
      <4>1. CASE j = i
        BY <4>1, <3>1, <3>2, <1>0
      <4>2. CASE j # i
        <5>1. j \in 1..tail[p] /\ j \in 1..Len(lh)
          BY <4>2, <3>1, <1>0
        <5>2. home[lh[j]] = logd[j]
          BY <5>1, <2>2, <1>0 DEF InstallTrans
        <5>3. QED
          BY <4>2, <5>1, <5>2, <3>1, <3>2, <3>3, <1>0
      <4>3. QED
        BY <4>1, <4>2
    <3>4. CASE r # p
      <4>1. pc'[r] = pc[r] /\ pc[r] \in Idle \cup {"down"}
        BY <2>2, <3>4, <1>0, Alone DEF InstallTrans, Committing
      <4>2. pc[r] = "down" => cache = home
        BY <1>0
      <4>3. QED
        BY <3>2, <4>1, <4>2 DEF Idle
    <3>5. CASE r = p
      <4>1. CASE pc[p] = "install"
        <5>1. pc'[p] \in {"install", "erase"} /\ (pc'[p] = "erase" => i = Len(lh))
          BY <2>2, <4>1, <1>0, <3>1 DEF InstallTrans
        <5>2. \A j \in 1..Len(lh) : logd[j] = cache'[lh[j]]
          BY <4>1, <1>0, <3>2, <3>3
        <5>3. tail'[p] = i /\ pc'[p] # "rinstall" /\ pc'[p] \notin {"down", "rerase"}
          BY <5>1, <3>2, <1>0
        <5>4. QED
          BY <3>0, <3>2, <3>5, <5>1, <5>2, <5>3
      <4>2. CASE pc[p] = "rinstall"
        <5>1. pc'[p] \in {"rinstall", "rerase"} /\ (pc'[p] = "rerase" => i = Len(lh))
          BY <2>2, <4>2, <1>0, <3>1 DEF InstallTrans
        <5>2. cache' = home'
          BY <4>2, <1>0, <3>2
        <5>3. tail'[p] = i
          BY <3>2, <1>0
        <5>4. QED
          BY <3>0, <3>2, <3>5, <5>1, <5>2, <5>3
      <4>3. QED
        BY <2>2, <4>1, <4>2 DEF InstallTrans
    <3>6. QED
      BY <3>4, <3>5
  <2>3. CASE EraseHead(p)
    <3>1. CASE pc[p] = "erase"
      <4>1. \A q \in Procs \ {p} : pc[q] \in Idle
        BY <3>1, <1>0, Alone DEF Committing
      <4>2. pc'[r] \in Idle \cup {"fin"}
        BY <2>3, <3>1, <4>1, <1>0 DEF EraseHead
      <4>3. QED
        BY <4>2 DEF Idle
    <3>2. CASE pc[p] = "rerase"
      BY <2>3, <3>2 DEF EraseHead
    <3>3. QED
      BY <2>3, <3>1, <3>2 DEF EraseHead
  <2>4. CASE BeginSleep(p)
    BY <2>4, <1>0 DEF BeginSleep, disk, mem
  <2>5. CASE BeginAdmit(p)
    BY <2>5, <1>0 DEF BeginAdmit, disk
  <2>6. ASSUME NEW b \in Blocks, NEW v \in Vals, Modify(p, b, v) PROVE Copied(r)'
    <3>1. pc[p] \in InOp
      BY <2>6 DEF Modify, InOp
    <3>2. pc[r] \notin Committing \cup Booting
      BY <3>1, <1>0, OpNotCommitting DEF Active
    <3>3. pc'[r] = pc[r] \/ pc'[r] = "logw"
      BY <2>6, <1>0 DEF Modify
    <3>4. QED
      BY <3>2, <3>3 DEF Committing
  <2>7. CASE LogAppend(p)
    <3>1. pc[p] \in InOp
      BY <2>7 DEF LogAppend, InOp
    <3>2. pc[r] \notin Committing \cup Booting
      BY <3>1, <1>0, OpNotCommitting DEF Active
    <3>3. pc'[r] = pc[r] \/ pc'[r] = "op"
      BY <2>7, <1>0 DEF LogAppend
    <3>4. QED
      BY <3>2, <3>3 DEF Committing
  <2>8. CASE EndOp(p)
    <3>1. pc[p] \in InOp /\ tail[p] = 0
      BY <2>8, <1>0 DEF EndOp, InOp, LoopIndex, Copying
    <3>2. pc[r] \notin Committing \cup Booting
      BY <3>1, <1>0, OpNotCommitting DEF Active
    <3>3. pc'[r] = pc[r] \/ pc'[r] \in {"out", "woken", "fin"} \/ (r = p /\ pc'[r] = "wlog")
      BY <2>8, <1>0 DEF EndOp, CommitStart, Wakeup
    <3>4. tail' = tail
      BY <2>8 DEF EndOp
    <3>5. QED
      BY <3>1, <3>2, <3>3, <3>4 DEF Committing
  <2>9. CASE WriteLog(p)
    <3> DEFINE i == tail[p] + 1
    <3>1. i \in 1..Len(lh) /\ i \in 1..LOGSIZE
      BY <2>9, <1>0, HeaderFits, LogSizesAssumption DEF WriteLog, LoopIndex, Copying
    <3>2. /\ logd' = [logd EXCEPT ![i] = cache[lh[i]]]
          /\ cache' = cache /\ lh' = lh /\ home' = home
      BY <2>9 DEF WriteLog, mem
    <3>3. CASE r # p
      <4>1. pc'[r] = pc[r] /\ pc[r] \in Idle
        BY <2>9, <3>3, <1>0, Alone DEF WriteLog, Committing
      <4>2. QED
        BY <4>1 DEF Idle
    <3>4. CASE r = p
      <4>1. \A j \in 1..i : logd'[j] = cache[lh[j]]
        BY <2>9, <1>0, <3>1, <3>2 DEF WriteLog
      <4>2. \/ pc'[p] = "wlog" /\ tail'[p] = i
            \/ pc'[p] = "whead" /\ i = Len(lh)
        BY <2>9, <1>0, <3>1 DEF WriteLog
      <4>3. QED
        BY <3>2, <3>4, <4>1, <4>2
    <3>5. QED
      BY <3>3, <3>4
  <2>10. CASE WriteHead(p)
    <3>1. tail[p] = 0 /\ tail' = tail /\ pc' = [pc EXCEPT ![p] = "install"]
      BY <2>10, <1>0 DEF WriteHead, LoopIndex, Copying
    <3>2. logd' = logd /\ cache' = cache /\ lh' = lh /\ home' = home
      BY <2>10 DEF WriteHead, mem
    <3>3. QED
      BY <2>10, <1>0, <3>1, <3>2 DEF WriteHead
  <2>11. CASE CommitDone(p)
    BY <2>11, <1>0, Alone DEF CommitDone, Wakeup, disk, Committing
  <2>12. QED
    BY <1>3, <2>1, <2>2, <2>3, <2>4, <2>5, <2>6, <2>7, <2>8, <2>9, <2>10, <2>11 DEF Step
<1>4. QED
  BY <1>1, <1>2, <1>3 DEF Next

LEMMA InvAlways == Spec => []Inv
<1>1. Inv /\ [Next]_vars => Inv'
  BY IInvStep, HeadersStep, DirtyStep, CopiedStep DEF Inv, Copies
<1>2. QED
  BY <1>1, InitInv, PTL DEF Spec

-----------------------------------------------------------------------------
(* begin_op() sleeps only while somebody is there to wake it: with nobody   *)
(* inside, the log is empty, and an empty log has room for an operation.    *)
LEMMA WakeupStep == Inv /\ WakeupOwed /\ [Next]_vars => WakeupOwed'
<1> SUFFICES ASSUME Inv, WakeupOwed, [Next]_vars,
                    NEW s \in Procs, pc'[s] = "asleep"
             PROVE  \E q \in Procs : pc'[q] \in InOp \cup Committing
  BY DEF WakeupOwed
<1>0. IInv /\ TypeOK /\ Control /\ Headers
  BY DEF Inv, IInv
<1>1. CASE Crash
  BY <1>1 DEF Crash
<1>2. CASE UNCHANGED vars
  BY <1>2 DEF vars, WakeupOwed
<1>3. ASSUME NEW p \in Procs, Step(p)
      PROVE  \E q \in Procs : pc'[q] \in InOp \cup Committing
  <2> USE DEF TypeOK, InOp, Committing
  <2>1. CASE ReadHead(p)
    BY <2>1, <1>0 DEF ReadHead
  <2>2. CASE InstallTrans(p)
    BY <2>2, <1>0, Alone DEF InstallTrans, InRecovery
  <2>3. CASE EraseHead(p)
    BY <2>3, <1>0 DEF EraseHead
  <2>4. CASE BeginSleep(p)
    <3>1. CASE \E q \in Procs : pc[q] \in InOp \cup Committing
      BY <2>4, <3>1, <1>0 DEF BeginSleep
    <3>2. CASE \A q \in Procs : pc[q] \notin InOp \cup Committing
      <4>1. \A q \in Procs : pc[q] \in Idle
        BY <2>4, <3>2, <1>0, Alone DEF BeginSleep, PCs, Booting, InRecovery, Idle
      <4>2. lh = <<>>
        BY <4>1, <1>0 DEF Headers
      <4>3. Active = {} /\ ~committing
        BY <3>2, <1>0 DEF Active, Control, CommitOwned
      <4>4. outstanding = 0
        BY <4>3, <1>0, FS_EmptySet DEF Control, OpsCounted
      <4>5. ~MustWait
        BY <4>2, <4>3, <4>4, LogSizesAssumption DEF MustWait, NoSpace
      <4>6. QED
        BY <2>4, <4>5 DEF BeginSleep
    <3>3. QED
      BY <3>1, <3>2
  <2>5. CASE BeginAdmit(p)
    BY <2>5, <1>0 DEF BeginAdmit
  <2>6. ASSUME NEW b \in Blocks, NEW v \in Vals, Modify(p, b, v)
        PROVE  \E q \in Procs : pc'[q] \in InOp \cup Committing
    BY <2>6, <1>0 DEF Modify
  <2>7. CASE LogAppend(p)
    BY <2>7, <1>0 DEF LogAppend
  <2>8. CASE EndOp(p)
    <3>1. ~committing
      BY <2>8, <1>0, OpNotCommitting DEF EndOp, Active, InOp
    <3>2. outstanding' = 0
      BY <2>8, <3>1, <1>0 DEF EndOp, Wakeup
    <3>3. pc'[p] = CommitStart
      BY <2>8, <3>1, <3>2, <1>0 DEF EndOp
    <3>4. QED
      BY <3>3 DEF CommitStart
  <2>9. CASE WriteLog(p)
    BY <2>9, <1>0 DEF WriteLog
  <2>10. CASE WriteHead(p)
    BY <2>10, <1>0 DEF WriteHead
  <2>11. CASE CommitDone(p)
    BY <2>11, <1>0 DEF CommitDone, Wakeup
  <2>12. QED
    BY <1>3, <2>1, <2>2, <2>3, <2>4, <2>5, <2>6, <2>7, <2>8, <2>9, <2>10, <2>11 DEF Step
<1>4. QED
  BY <1>1, <1>2, <1>3 DEF Next

(* Whoever sleeps in begin_op is owed a wakeup, for any number of sleepers. *)
THEOREM NobodyForgotten == Spec => []WakeupOwed
<1>1. Init => WakeupOwed
  BY DEF Init, WakeupOwed
<1>2. QED
  BY <1>1, WakeupStep, InvAlways, PTL DEF Spec

(* When end_op has returned to everybody, what was written is on the disk.  *)
THEOREM ReturnedIsDurable == Spec => []QuiescentDurable
<1>1. Inv => QuiescentDurable
  <2> SUFFICES ASSUME Inv, ~panicked, \A p \in Procs : pc[p] \in Idle
               PROVE  home = cache /\ lh = <<>> /\ head = <<>>
    BY DEF QuiescentDurable, Idle
  <2>0. IInv /\ TypeOK /\ Headers /\ Dirty
    BY DEF Inv, IInv, Copies
  <2>1. lh = <<>> /\ head = <<>>
    BY <2>0 DEF Headers, Idle, Installing, Booting, InRecovery
  <2>2. \A p \in Procs : buf[p] = NoBlock
    BY <2>0, Alone DEF Idle
  <2>3. \A b \in Blocks : cache[b] = home[b]
    BY <2>0, <2>1, <2>2, BlocksAssumption DEF Dirty, Range
  <2>4. QED
    BY <2>0, <2>1, <2>3 DEF TypeOK
<1>2. QED
  BY <1>1, InvAlways, PTL

-----------------------------------------------------------------------------
(* What recovery would find, at each kind of step.                          *)

LEMMA RecoveredEmpty == ASSUME TypeOK, head = <<>> PROVE Recovered = home
  BY DEF Recovered, TypeOK, Range

LEMMA RecoveredListed ==
  ASSUME TypeOK, IsInjective(head), NEW i \in 1..Len(head)
  PROVE  Recovered[head[i]] = logd[i]
<1>1. head[i] \in Blocks /\ head[i] \in Range(head) /\ i \in DOMAIN head
  BY DEF TypeOK, Range
<1>2. (CHOOSE j \in DOMAIN head : head[j] = head[i]) = i
  BY <1>1 DEF IsInjective
<1>3. QED
  BY <1>1, <1>2 DEF Recovered

LEMMA RecoveredOther ==
  ASSUME NEW b \in Blocks, b \notin Range(head)
  PROVE  Recovered[b] = home[b]
  BY DEF Recovered

(* A home block is written only with what the on-disk log says of it.       *)
THEOREM HomeFollowsLog == Spec => WriteAhead
<1>1. ASSUME Inv, [Next]_vars, NEW b \in Blocks, home'[b] # home[b]
      PROVE  home'[b] = Recovered[b]
  <2>0. IInv /\ TypeOK /\ Headers /\ LoopIndex
    BY <1>1 DEF Inv, IInv
  <2>1. PICK p \in Procs : InstallTrans(p)
    BY <1>1 DEF Next, Step, vars, disk, mem, Crash, ReadHead, EraseHead, BeginSleep, BeginAdmit,
                Modify, LogAppend, EndOp, WriteLog, WriteHead, CommitDone
  <2> DEFINE i == tail[p] + 1
  <2>2. i \in 1..Len(lh) /\ head = lh
    BY <2>0, <2>1 DEF InstallTrans, LoopIndex, Copying, Headers, Installing, InRecovery, TypeOK
  <2>3. home' = [home EXCEPT ![lh[i]] = logd[i]]
    BY <2>1 DEF InstallTrans
  <2>4. b = lh[i] /\ home'[b] = logd[i]
    BY <1>1, <2>0, <2>2, <2>3 DEF TypeOK
  <2>5. QED
    BY <2>0, <2>2, <2>4, RecoveredListed DEF Headers
<1>2. Inv /\ [Next]_vars => [\A b \in Blocks : home'[b] # home[b] => home'[b] = Recovered[b]]_vars
  BY <1>1
<1>3. QED
  BY <1>2, InvAlways, PTL DEF Spec, WriteAhead

-----------------------------------------------------------------------------
(* Refinement: each step of log.c is a step of AtomicDisk, or changes       *)
(* nothing that AtomicDisk knows of.                                       *)

LEMMA ViewOf ==
  ASSUME IInv, NEW p \in Procs
  PROVE  BootView = IF pc[p] \in Booting THEN Recovered ELSE cache
  BY Alone DEF IInv, Control, BootTogether, RecoverAlone, BootView, Booting

LEMMA ViewOfNext ==
  ASSUME IInv', NEW p \in Procs
  PROVE  BootView' = IF pc'[p] \in Booting THEN Recovered' ELSE cache'
  BY DEF IInv, Control, BootTogether, RecoverAlone, BootView, Booting

LEMMA InitRefines == Init => AD!Init
<1> SUFFICES ASSUME Init PROVE AD!Init
  OBVIOUS
<1>1. TypeOK /\ head = <<>>
  BY InitIInv DEF IInv, Init
<1>2. Recovered = home /\ BootView = Recovered
  BY <1>1, RecoveredEmpty, ProcsAssumption DEF Init, BootView
<1>3. Active = {}
  BY DEF Init, Active, InOp
<1>4. QED
  BY <1>1, <1>2, <1>3 DEF AD!Init, TypeOK

LEMMA StepRefines == Inv /\ Inv' /\ [Next]_vars => [AD!Next]_AD!vars
<1> SUFFICES ASSUME Inv, Inv', [Next]_vars PROVE [AD!Next]_AD!vars
  OBVIOUS
<1> USE ProcsAssumption, BlocksAssumption
<1>0. /\ IInv /\ TypeOK /\ Headers /\ Control /\ LoopIndex /\ Dirty
      /\ IInv' /\ TypeOK' /\ Headers'
      /\ \A p \in Procs : Copied(p)
  BY DEF Inv, IInv, Copies
<1> DEFINE same == Recovered' = Recovered /\ BootView' = BootView /\ Active' = Active
<1>1. same => UNCHANGED AD!vars
  BY DEF AD!vars
<1>2. CASE Crash
  <2>1. Recovered' = Recovered
    BY <1>2 DEF Crash, disk, Recovered
  <2>2. BootView' = Recovered' /\ Active' = {}
    BY <1>2 DEF Crash, BootView, Active, InOp
  <2>3. AD!Crash
    BY <2>1, <2>2 DEF AD!Crash
  <2>4. QED
    BY <2>3 DEF AD!Next
<1>3. CASE UNCHANGED vars
  BY <1>3, <1>1 DEF vars, disk, mem, Recovered, BootView, Active
<1>4. ASSUME NEW p \in Procs, Step(p) PROVE [AD!Next]_AD!vars
  <2> USE DEF TypeOK
  <2>1. CASE ReadHead(p)
    <3>1. Recovered' = Recovered /\ Active' = Active
      BY <2>1, <1>0 DEF ReadHead, disk, Recovered, Active, InOp
    <3>2. pc[p] \in Booting /\ pc'[p] \in Booting
      BY <2>1, <1>0 DEF ReadHead, Booting, InRecovery
    <3>3. QED
      BY <1>1, <1>0, <3>1, <3>2, ViewOf, ViewOfNext
  <2>2. CASE InstallTrans(p)
    <3> DEFINE i == tail[p] + 1
    <3>1. i \in 1..Len(lh) /\ head = lh /\ lh[i] \in Range(head) /\ lh[i] \in Blocks
      BY <2>2, <1>0 DEF InstallTrans, LoopIndex, Copying, Headers, Installing, InRecovery, Range
    <3>2. /\ home' = [home EXCEPT ![lh[i]] = logd[i]]
          /\ cache' = [cache EXCEPT ![lh[i]] = logd[i]]
          /\ logd' = logd /\ head' = head
      BY <2>2 DEF InstallTrans
    <3>3. \A b \in Blocks : b \notin Range(head) => home'[b] = home[b]
      BY <3>1, <3>2, <1>0
    <3>4. Recovered' = Recovered
      BY <3>2, <3>3 DEF Recovered
    <3>5. Active' = Active
      BY <2>2, <1>0 DEF InstallTrans, Active, InOp
    <3>6. CASE pc[p] = "install"
      <4>1. pc[p] \notin Booting /\ pc'[p] \notin Booting
        BY <2>2, <3>6, <1>0 DEF InstallTrans, Booting, InRecovery
      <4>2. logd[i] = cache[lh[i]]
        BY <3>6, <3>1, <1>0 DEF Copied, Installing
      <4>3. cache' = cache
        BY <4>2, <3>1, <3>2, <1>0
      <4>4. QED
        BY <1>1, <1>0, <3>4, <3>5, <4>1, <4>3, ViewOf, ViewOfNext
    <3>7. CASE pc[p] = "rinstall"
      <4>1. pc[p] \in Booting /\ pc'[p] \in Booting
        BY <2>2, <3>7, <1>0 DEF InstallTrans, Booting, InRecovery
      <4>2. QED
        BY <1>1, <1>0, <3>4, <3>5, <4>1, ViewOf, ViewOfNext
    <3>8. QED
      BY <2>2, <3>6, <3>7 DEF InstallTrans
  <2>3. CASE EraseHead(p)
    <3>1. head = lh /\ home' = home /\ cache' = cache /\ head' = <<>>
      BY <2>3, <1>0 DEF EraseHead, Headers, Installing, InRecovery
    <3>2. Recovered' = home
      BY <3>1, <1>0, RecoveredEmpty DEF Recovered, Range
    <3>3. Recovered = home
      <4>1. ASSUME NEW b \in Blocks PROVE Recovered[b] = home[b]
        <5>1. CASE b \in Range(head)
          <6>1. PICK j \in 1..Len(head) : head[j] = b
            BY <5>1, <1>0 DEF Range
          <6>2. Recovered[b] = logd[j]
            BY <6>1, <1>0, RecoveredListed DEF Headers
          <6>3. home[b] = logd[j]
            BY <6>1, <3>1, <2>3, <1>0 DEF Copied, EraseHead
          <6>4. QED
            BY <6>2, <6>3
        <5>2. CASE b \notin Range(head)
          BY <5>2, RecoveredOther
        <5>3. QED
          BY <5>1, <5>2
      <4>2. QED
        BY <4>1, <1>0 DEF Recovered
    <3>4. cache = home
      BY <2>3, <1>0, AllInstalled DEF EraseHead, Copied, Booting, InRecovery
    <3>5. BootView = home /\ BootView' = home
      BY <1>0, <3>1, <3>2, <3>3, <3>4, ViewOf, ViewOfNext
    <3>6. Active' = Active
      <4>1. CASE pc[p] = "erase"
        BY <2>3, <4>1, <1>0 DEF EraseHead, Active, InOp
      <4>2. CASE pc[p] = "rerase"
        BY <2>3, <4>2, <1>0, Alone DEF EraseHead, Active, InOp, InRecovery
      <4>3. QED
        BY <2>3, <4>1, <4>2 DEF EraseHead
    <3>7. QED
      BY <1>1, <3>2, <3>3, <3>5, <3>6
  <2>4. CASE BeginSleep(p)
    <3>1. Recovered' = Recovered /\ cache' = cache /\ Active' = Active
      BY <2>4, <1>0 DEF BeginSleep, disk, mem, Recovered, Active, InOp
    <3>2. pc[p] \notin Booting /\ pc'[p] \notin Booting
      BY <2>4, <1>0 DEF BeginSleep, Booting, InRecovery
    <3>3. QED
      BY <1>1, <1>0, <3>1, <3>2, ViewOf, ViewOfNext
  <2>5. CASE BeginAdmit(p)
    <3>1. Recovered' = Recovered /\ cache' = cache
      BY <2>5, <1>0 DEF BeginAdmit, disk, Recovered
    <3>2. pc[p] \notin Booting /\ pc'[p] \notin Booting
      BY <2>5, <1>0 DEF BeginAdmit, Booting, InRecovery
    <3>3. p \notin Active /\ Active' = Active \cup {p}
      BY <2>5, <1>0 DEF BeginAdmit, Active, InOp
    <3>4. AD!Begin(p)
      BY <1>0, <3>1, <3>2, <3>3, ViewOf, ViewOfNext DEF AD!Begin
    <3>5. QED
      BY <3>4 DEF AD!Next
  <2>6. ASSUME NEW b \in Blocks, NEW v \in Vals, Modify(p, b, v) PROVE [AD!Next]_AD!vars
    <3>1. Recovered' = Recovered /\ cache' = [cache EXCEPT ![b] = v]
      BY <2>6, <1>0 DEF Modify, disk, Recovered
    <3>2. pc[p] \notin Booting /\ pc'[p] \notin Booting
      BY <2>6, <1>0 DEF Modify, Booting, InRecovery
    <3>3. p \in Active /\ Active' = Active
      BY <2>6, <1>0 DEF Modify, Active, InOp
    <3>4. AD!Write(p, b, v)
      BY <1>0, <3>1, <3>2, <3>3, ViewOf, ViewOfNext DEF AD!Write
    <3>5. QED
      BY <3>4 DEF AD!Next
  <2>7. CASE LogAppend(p)
    <3>1. Recovered' = Recovered /\ cache' = cache /\ Active' = Active
      BY <2>7, <1>0 DEF LogAppend, disk, Recovered, Active, InOp
    <3>2. pc[p] \notin Booting /\ pc'[p] \notin Booting
      BY <2>7, <1>0 DEF LogAppend, Booting, InRecovery
    <3>3. QED
      BY <1>1, <1>0, <3>1, <3>2, ViewOf, ViewOfNext
  <2>8. CASE EndOp(p)
    <3>0. ~committing
      BY <2>8, <1>0, OpNotCommitting DEF EndOp, Active, InOp
    <3>1. Recovered' = Recovered /\ cache' = cache
      BY <2>8, <1>0 DEF EndOp, disk, Recovered
    <3>2. pc[p] \notin Booting /\ pc'[p] \notin Booting
      BY <2>8, <1>0, <3>0 DEF EndOp, Booting, InRecovery, CommitStart, Wakeup
    <3>3. p \in Active /\ Active' = Active \ {p}
      BY <2>8, <1>0, <3>0 DEF EndOp, Active, InOp, CommitStart, Wakeup
    <3>4. AD!End(p)
      BY <1>0, <3>1, <3>2, <3>3, ViewOf, ViewOfNext DEF AD!End
    <3>5. QED
      BY <3>4 DEF AD!Next
  <2>9. CASE WriteLog(p)
    <3>1. \A q \in Procs : pc[q] \notin Installing \cup Booting
      BY <2>9, <1>0, Alone DEF WriteLog, Committing, Installing, Booting, InRecovery, Idle
    <3>2. head = <<>> /\ head' = <<>>
      BY <2>9, <1>0, <3>1 DEF WriteLog, Headers
    <3>3. Recovered = home /\ Recovered' = home
      BY <2>9, <3>2, <1>0, RecoveredEmpty DEF WriteLog, Recovered, Range
    <3>4. cache' = cache /\ Active' = Active
      BY <2>9, <1>0 DEF WriteLog, mem, Active, InOp
    <3>5. pc[p] \notin Booting /\ pc'[p] \notin Booting
      BY <2>9, <1>0 DEF WriteLog, Booting, InRecovery
    <3>6. QED
      BY <1>1, <1>0, <3>3, <3>4, <3>5, ViewOf, ViewOfNext
  <2>10. CASE WriteHead(p)
    <3>1. head' = lh /\ lh' = lh /\ home' = home /\ logd' = logd /\ cache' = cache
      BY <2>10 DEF WriteHead, mem
    <3>2. ASSUME NEW b \in Blocks PROVE Recovered'[b] = cache[b]
      <4>1. CASE b \in Range(lh)
        <5>1. PICK i \in 1..Len(lh) : lh[i] = b
          BY <4>1, <1>0 DEF Range
        <5>2. i \in DOMAIN lh /\ (CHOOSE j \in DOMAIN lh : lh[j] = b) = i
          BY <5>1, <1>0 DEF Headers, IsInjective
        <5>3. logd[i] = cache[b]
          BY <2>10, <5>1, <1>0 DEF WriteHead, Copied
        <5>4. QED
          BY <3>1, <4>1, <5>2, <5>3 DEF Recovered
      <4>2. CASE b \notin Range(lh)
        BY <2>10, <3>1, <4>2, CleanBlocks DEF WriteHead, Recovered, Committing
      <4>3. QED
        BY <4>1, <4>2
    <3>3. Recovered' = cache
      BY <3>2, <1>0 DEF Recovered
    <3>4. pc[p] \notin Booting /\ pc'[p] \notin Booting
      BY <2>10, <1>0 DEF WriteHead, Booting, InRecovery
    <3>5. Active = {} /\ Active' = {}
      BY <2>10, <1>0, Alone DEF WriteHead, Active, InOp, Committing, Idle
    <3>6. AD!Sync
      BY <1>0, <3>1, <3>3, <3>4, <3>5, ViewOf, ViewOfNext DEF AD!Sync
    <3>7. QED
      BY <3>6 DEF AD!Next
  <2>11. CASE CommitDone(p)
    <3>1. Recovered' = Recovered /\ cache' = cache /\ Active' = Active
      BY <2>11, <1>0 DEF CommitDone, disk, Recovered, Active, InOp, Wakeup
    <3>2. pc[p] \notin Booting /\ pc'[p] \notin Booting
      BY <2>11, <1>0 DEF CommitDone, Booting, InRecovery, Wakeup
    <3>3. QED
      BY <1>1, <1>0, <3>1, <3>2, ViewOf, ViewOfNext
  <2>12. QED
    BY <1>4, <2>1, <2>2, <2>3, <2>4, <2>5, <2>6, <2>7, <2>8, <2>9, <2>10, <2>11 DEF Step
<1>5. QED
  BY <1>2, <1>3, <1>4 DEF Next

(* The file system calls are atomic towards crashes, for any number of      *)
(* processes, blocks and values, and any sizes of the log.                 *)
THEOREM OperationsAtomic == Spec => Atomic
  BY InitRefines, StepRefines, InvAlways, PTL DEF Spec, Atomic, AD!Spec
=============================================================================
