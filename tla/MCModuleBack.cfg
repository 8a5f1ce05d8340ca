SPECIFICATION MCSpec
CONSTANTS
  Designs = {}
  IdOrder <- MCIdOrder
  LastLayer = 1
  Drafts <- MCDrafts
  Checked <- MCChecked
  Offers <- MCOffers
  Roots <- MCRoots
  Assemblies <- MCAssemblies
  MaxCalls = 2
  Identity <- MCIdentity
  Requests <- MCRequests
  Outputs <- MCOutputs
  RequestSize = 2
  PipeSize = 1
  MaximumResponse = 2
  ErrorLimit = 1
  Descendants = TRUE
  MaximumDepth = 2
  MaximumEvents = 5
INVARIANT ConnectionsSurvive
