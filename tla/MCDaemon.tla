------------------------------ MODULE MCDaemon ------------------------------
(***************************************************************************)
(* The daemon with two workers and few observations.                       *)
(***************************************************************************)
EXTENDS Daemon
=============================================================================
