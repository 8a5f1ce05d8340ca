SPECIFICATION SessionSpec
CONSTANTS
  Times <- MCManyTimes
  Phases <- MCPhases
  Targets = {"node"}
  StartTime = 0
  U64Max = 1
  MaxTrace = 1
  StopTime = 6
  InitialTimestep = 4
  MinimumTimestep = 2
  MaximumTimestep = 4
  MaxAccepted = 3
  MaxRejected = 2
  Fixed = FALSE
  ShrinkDivisor = 2
  GrowthFactor = 2
  SourceBreaks <- MCNoTimes
  Schedules <- MCSchedules
  MaxDelta = 1
  Calls <- MCStepOnly
INVARIANTS
  PolicyStaysValid
