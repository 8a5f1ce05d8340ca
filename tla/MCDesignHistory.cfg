SPECIFICATION Spec
CONSTANTS
  Documents <- MCDocuments
  Batches <- MCBatches
  MaxRevision = 3
INVARIANTS
  LogCoversChanges
PROPERTIES
  ImplementsUndoZipper
  NoLostUpdate
CHECK_DEADLOCK FALSE
