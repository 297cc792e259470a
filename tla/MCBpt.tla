-------------------------------- MODULE MCBpt --------------------------------
(* Instances of Bpt for TLC. *)
EXTENDS Bpt
===============================================================================
