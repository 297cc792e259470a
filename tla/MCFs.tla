-------------------------------- MODULE MCFs ----------------------------------
(* Instances of Fs for TLC. *)
EXTENDS Fs, TLC

CONSTANTS p1, p2

TwoOps == p1 :> {"mkdir", "unlink", "chdir"} @@ p2 :> {"open", "create", "unlink", "link"}

Abs(names) == [abs |-> TRUE, names |-> names]
Rel(names) == [abs |-> FALSE, names |-> names]
DeepPaths == {Abs(<<"a">>), Abs(<<"a", "b">>), Rel(<<"b">>)}
=============================================================================
