SPECIFICATION Spec
CONSTANTS
  Processes = {p1, p2}
  Reports <- MCReports
  Signers <- MCSigners
  Policies <- MCPolicies
  Edits <- MCEdits
  Limits <- MCLimits
  MaxCalls = 3
SYMMETRY ProcessSymmetry
INVARIANTS
  AcceptedIsTrue
  BundlesAreTrue
