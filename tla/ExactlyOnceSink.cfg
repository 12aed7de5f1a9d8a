SPECIFICATION Spec
CONSTANTS
  Checkpoints <- MCCheckpoints
  RowCounts <- MCRowCounts
  MaxOffered = 3
INVARIANTS
  TypeOK
  OneFilePerCheckpoint
  StagedIsNotAborted
  RowsAccountedFor
PROPERTIES
  ImplementsDelivery
