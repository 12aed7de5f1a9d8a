SPECIFICATION Spec
CONSTANTS
  Partitions <- MCPartitions
  Batches <- MCBatches
  Grid <- MCGrid
  InitialLayout <- MCInitialLayout
  TopK = 2
  KeepLast = 1
  Config <- MCConfig
  ConcurrentIngest = FALSE
  MaxFlushes = 4
  MaxAborts = 1
INVARIANTS
  TypeOK
  NoImprovementMissed
PROPERTIES
  AuditedMetricsAreReal
  ImplementsNonRegressingTable
