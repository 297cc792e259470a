-------------------------------- MODULE KeyMap --------------------------------
(***************************************************************************)
(* What db_insert, db_delete and db_find promise: a map from keys to       *)
(* values.  db_insert of a key that is there changes nothing.              *)
(***************************************************************************)
CONSTANTS Keys, Vals, Nothing

VARIABLE map

Init == map = [k \in Keys |-> Nothing]

Insert(k, v) == map[k] = Nothing /\ map' = [map EXCEPT ![k] = v]
Delete(k) == map[k] # Nothing /\ map' = [map EXCEPT ![k] = Nothing]

Next == \E k \in Keys : Delete(k) \/ \E v \in Vals : Insert(k, v)

Spec == Init /\ [][Next]_map
===============================================================================
