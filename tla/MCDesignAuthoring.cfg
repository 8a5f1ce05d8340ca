\* Seven programs of six to fifteen calls, in every order.
CONSTANTS
  Programs <- MCPrograms
  LastLayer = 1
  PourBoards <- MCPourBoards
SPECIFICATION MCSpec
CHECK_DEADLOCK FALSE
INVARIANTS
  WiringFollowsNets
  DiagnosticsAreTrue
  StitchesAreTrue
  PoursKeepClear
  PoursAreAnchored
