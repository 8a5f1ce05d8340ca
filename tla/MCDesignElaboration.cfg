SPECIFICATION MCSpec
CONSTANTS
  Designs <- MCDesigns
  IdOrder <- MCIdOrder
  LastLayer = 1
  Drafts <- MCDrafts
  Checked <- MCChecked
  Offers <- MCOffers
  Roots <- MCRoots
  Assemblies <- MCAssemblies
  MaxCalls = 3
  Identity <- MCIdentity
  Requests <- MCRequests
  Outputs <- MCOutputs
  RequestSize = 2
  PipeSize = 1
  MaximumResponse = 2
  ErrorLimit = 1
  Descendants = TRUE
  MaximumDepth = 2
  MaximumEvents = 5
INVARIANTS
  RecursionIsCaught
  FlatCircuitIsTrue
  FindingsAreTrue
  ComposedOrRefused
  ResultIsTrue
  InspectionIsExact
PROPERTY
  EveryThreadEnds
