----------------------------- MODULE MCThreads -------------------------------
(* Instances of Threads and ThreadMem for TLC. *)
EXTENDS ThreadMem
CONSTANTS c1, c2

Mix(calls, cpus, slots, pids, oom) ==
  [calls |-> calls, cpus |-> cpus, slots |-> slots, pids |-> pids, oom |-> oom]
Programs == {"fork", "thread", "nested", "exec", "threadexec"}

(* Two CPUs, on which only processes without threads call exec(); one CPU on *)
(* which threads call it too, in slots that run out early and in slots that  *)
(* outnumber the pids; memory, for stacks that are used again, for processes *)
(* that fork and exec, and with failing calls; threads that fork and start   *)
(* threads, with kills among failing forks; and kill(0) and main threads     *)
(* that call thread_exit().                                                  *)
LifeMixes ==
  {Mix({"init", "fork", "thread", "nested", "kill"}, {c1, c2}, 4, 4, FALSE),
   Mix({"fork", "thread", "kill", "exec"}, {c1, c2}, 3, 4, FALSE),
   Mix({"init"} \cup Programs, {c1}, 3, 4, TRUE),
   Mix({"init"} \cup Programs, {c1}, 4, 3, FALSE),
   Mix({"thread", "sbrk"}, {c1}, 4, 5, FALSE),
   Mix({"init", "fork", "thread", "exec", "sbrk"}, {c1}, 3, 3, FALSE),
   Mix({"thread", "exec", "sbrk", "shrink"}, {c1}, 3, 3, TRUE),
   Mix({"fork", "thread", "nested", "threadfork", "kill", "io"}, {c1}, 4, 4, TRUE),
   Mix({"fork", "thread", "mainexit", "kill", "kill0"}, {c1}, 3, 4, FALSE)}

(* No step tells the CPUs apart; a machine with one has the same one always. *)
Symm == Permutations(CPUs)

LiveMixes == {Mix({"fork", "thread", "nested", "kill"}, {c1, c2}, 3, 3, FALSE)}
ExecMixes == {Mix(Programs, {c1, c2}, 3, 3, FALSE)}
=============================================================================
