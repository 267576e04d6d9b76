-------------------------------- MODULE MCWal --------------------------------
(* Small instances of Wal. *)
EXTENDS Wal, TLC

Symmetry == Permutations(Msgs)
==============================================================================
