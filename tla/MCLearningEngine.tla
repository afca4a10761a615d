-------------------------- MODULE MCLearningEngine --------------------------
(***************************************************************************)
(* The learning engine on small instances.  Handlers are interchangeable   *)
(* while no liveness is checked, so the safety run may identify them.      *)
(***************************************************************************)
EXTENDS LearningEngine, TLC

CallSymmetry == Permutations(Calls)
=============================================================================
