---------------------------- MODULE MCScheduler ----------------------------
(***************************************************************************)
(* The scheduler with two callers and three Starts: enough for two         *)
(* goroutines to meet the channels of a third Start.                       *)
(***************************************************************************)
EXTENDS Scheduler
=============================================================================
