---------------------------- MODULE MCBehaviors ----------------------------
(* Bounds for model-checking Behaviors. *)
EXTENDS Behaviors

MCTimes == 0..1
MCPhases == {0, 2}
MCFilters == {{0}, {0, 2}}
=============================================================================
