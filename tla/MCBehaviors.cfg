SPECIFICATION BehaviorSpec
CONSTANTS
  Times <- MCTimes
  Phases <- MCPhases
  Filters <- MCFilters
  NoTask = NoTask
  Targets = {"node"}
  StartTime = 0
  U64Max = 3
  MaxTrace = 2
INVARIANTS
  LifecycleReplays
  EffectsFollowCauses
  SelectiveFifo
PROPERTIES
  ImplementsEventQueue
