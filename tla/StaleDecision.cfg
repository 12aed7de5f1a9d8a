SPECIFICATION Spec
CONSTANTS
  Partitions <- MCPartitions
  Batches <- MCStaleBatches
  Grid <- MCStaleGrid
  InitialLayout <- MCStaleInitialLayout
  TopK = 1
  KeepLast = 1
  Config <- MCConfig
  ConcurrentIngest = TRUE
  MaxFlushes = 6
  MaxAborts = 0
PROPERTIES
  NeverMakesTheTableWorse
