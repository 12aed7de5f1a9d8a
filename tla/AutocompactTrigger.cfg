SPECIFICATION Spec
CONSTANTS
  Partitions <- MCPartitions
  Batches <- MCSmallBatches
  Layouts <- MCLayouts
  Targets <- MCTargets
  MaxIngests = 6
  MaxRewrittenMb = 60
PROPERTIES
  RewritesOnceSmallFilesAccrue
CHECK_DEADLOCK FALSE
