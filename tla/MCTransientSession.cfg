SPECIFICATION FairSessionSpec
CONSTANTS
  Times <- MCTimes
  Phases <- MCPhases
  Targets = {"node"}
  StartTime = 0
  U64Max = 2
  MaxTrace = 1
  StopTime = 4
  InitialTimestep = 4
  MinimumTimestep = 2
  MaximumTimestep = 4
  MaxAccepted = 2
  MaxRejected = 2
  Fixed = FALSE
  ShrinkDivisor = 2
  GrowthFactor = 2
  SourceBreaks <- MCSourceBreaks
  Schedules <- MCSchedules
  MaxDelta = 1
  Calls <- MCCalls
INVARIANTS
  SessionIsTrue
PROPERTIES
  NoBreakpointJumped
  SettledOnReturn
  CallsReturn
