------------------------- MODULE MCTransientSession -------------------------
(* Bounds for model-checking TransientSession. *)
EXTENDS TransientSession

MCTimes == 0..4
MCPhases == {0}
MCSourceBreaks == {1}
MCSchedules == {{2}}
MCCalls == {"step", "until", "runtime"}

(* Bounds of the run about timesteps: grid units of half the minimum. *)
MCManyTimes == 0..6
MCStepOnly == {"step"}
MCNoTimes == {}
=============================================================================
