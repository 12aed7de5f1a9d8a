SPECIFICATION FairSpec
CONSTANTS
  Partitions <- MCPartitions
  Batches <- MCSmallBatches
  Grid <- MCPair
  InitialLayout <- MCInitialLayout
  TopK = 2
  KeepLast = 0
  Config <- MCConfig
  ConcurrentIngest = TRUE
  MaxFlushes = 3
  MaxAborts = 1
INVARIANTS
  RowsConserved
  SnapshotsBounded
PROPERTIES
  LayoutChangeIsAudited
  EveryCycleEnds
  LoopSettles
