-------------------------------- MODULE MCLog --------------------------------
(* Instances of Log for TLC: the sizes stand in the .cfg files.             *)
EXTENDS Log, TLC

(* Processes, block names and contents are interchangeable. *)
Symm == Permutations(Procs) \cup Permutations(Blocks) \cup Permutations(Vals)
=============================================================================
