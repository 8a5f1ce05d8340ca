SPECIFICATION MCSpec
CONSTANTS
  Names <- MCNames
  Versions <- MCVersions
  Sources <- MCSources
  Digests <- MCDigests
  Releases <- MCReleases
  Catalogs <- MCCatalogs
  RootLists <- MCRootLists
  MaxEdits = 1
  Processes = {p1, p2, p3}
  Artifacts = {a1}
  Size = 2
  CanFail = TRUE
  MaxDeaths = 2
INVARIANTS
  LockIsRight
  SearchIsComplete
  LoadedIsClosed
  OneWriter
PROPERTIES
  SearchEnds
  CreatedIsForever
CHECK_DEADLOCK FALSE
