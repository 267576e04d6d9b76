----------------------------- MODULE MCSharedWal -----------------------------
(* Small instances of SharedWal. *)
EXTENDS SharedWal
==============================================================================
