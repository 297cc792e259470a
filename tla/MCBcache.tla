------------------------------ MODULE MCBcache ------------------------------
(* Instances of Bcache for TLC. *)
EXTENDS Bcache, TLC

CONSTANT outer   \* the block that is held while another one is read

Pairs == {outer} \X (Blocks \ {outer})
Symm == Permutations(Procs) \cup Permutations(Bufs) \cup Permutations(Blocks \ {outer})
=============================================================================
