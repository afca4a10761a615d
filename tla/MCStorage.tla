----------------------------- MODULE MCStorage -----------------------------
(***************************************************************************)
(* The storage with two tasks, two values, two callers of Stop and one     *)
(* fault.                                                                  *)
(***************************************************************************)
EXTENDS Storage
=============================================================================
