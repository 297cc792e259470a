----------------------------- MODULE AtomicDisk -----------------------------
(***************************************************************************)
(* What log.c promises the file system: every operation bracketed by       *)
(* begin_op()/end_op() reaches the disk with all its block updates or with *)
(* none.  `durable' is what a reboot would find, `view' what the running   *)
(* system calls see, `active' the operations between begin_op and end_op.  *)
(* The header comment of log.c (lines 10-20) is the source of the promise: *)
(* the log commits only when no operation is active.                       *)
(***************************************************************************)
CONSTANTS Procs, Blocks, Vals

VARIABLES durable, view, active
vars == <<durable, view, active>>

Init ==
  /\ durable \in [Blocks -> Vals]
  /\ view = durable
  /\ active = {}

Begin(p) ==
  /\ p \notin active
  /\ active' = active \cup {p}
  /\ UNCHANGED <<durable, view>>

Write(p, b, v) ==
  /\ p \in active
  /\ view' = [view EXCEPT ![b] = v]
  /\ UNCHANGED <<durable, active>>

End(p) ==
  /\ p \in active
  /\ active' = active \ {p}
  /\ UNCHANGED <<durable, view>>

(* The only step that makes anything durable, and it never sees half an op. *)
Sync ==
  /\ active = {}
  /\ durable' = view
  /\ UNCHANGED <<view, active>>

Crash ==
  /\ view' = durable
  /\ active' = {}
  /\ UNCHANGED durable

Next ==
  \/ \E p \in Procs : Begin(p) \/ End(p)
  \/ \E p \in Procs, b \in Blocks, v \in Vals : Write(p, b, v)
  \/ Sync
  \/ Crash

Spec == Init /\ [][Next]_vars
=============================================================================
