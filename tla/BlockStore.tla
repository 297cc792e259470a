------------------------------ MODULE BlockStore ------------------------------
(***************************************************************************)
(* What bread, bwrite, log_write and brelse promise together: an array of  *)
(* blocks; a process that has got a block sees its last contents and is    *)
(* alone with it until it gives it back.  It holds two blocks at most.     *)
(***************************************************************************)
CONSTANTS Procs, Blocks, Vals, Nobody

VARIABLES
  contents,   \* what the last holder left in each block
  holder      \* who holds each block

Init ==
  /\ contents \in [Blocks -> Vals]
  /\ holder = [n \in Blocks |-> Nobody]

Get(p, n) ==
  /\ holder[n] = Nobody
  /\ \A j, k \in Blocks : holder[j] = p /\ holder[k] = p => j = k
  /\ holder' = [holder EXCEPT ![n] = p]
  /\ UNCHANGED contents

Put(p, n, v) ==
  /\ holder[n] = p
  /\ contents' = [contents EXCEPT ![n] = v]
  /\ UNCHANGED holder

Release(p, n) ==
  /\ holder[n] = p
  /\ holder' = [holder EXCEPT ![n] = Nobody]
  /\ UNCHANGED contents

Next ==
  \E p \in Procs, n \in Blocks :
    Get(p, n) \/ Release(p, n) \/ \E v \in Vals : Put(p, n, v)

Spec == Init /\ [][Next]_<<contents, holder>>
=============================================================================
