-------------------------------- MODULE MCCopt --------------------------------
(* Small instances of Copt. *)
EXTENDS Copt
===============================================================================
