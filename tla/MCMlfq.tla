------------------------------- MODULE MCMlfq -------------------------------
(* The policies of scheduler() on three slots: two CPUs, and one CPU for the *)
(* order of the odd processes, with a ring that lasts longer.                *)
EXTENDS Multilevel

Build(sched, cpus, n, s) == [sched |-> sched, cpus |-> cpus, ring |-> n, watch |-> s]
Policies == {Build("MLFQ", CPUs, 1, 1), Build("MULTILEVEL", {Boot}, 6, 3)}
            \cup {Build("DEFAULT", CPUs, 1, s) : s \in Slots}
            \cup {Build("MULTILEVEL", CPUs, 4, s) : s \in Slots}
=============================================================================
