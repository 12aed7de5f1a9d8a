SPECIFICATION Spec
CONSTANTS
  Partitions <- MCPartitions
  Batches <- MCBatches
  Layouts <- MCLayouts
  Targets <- MCTargets
  MaxIngests = 4
  MaxRewrittenMb = 60
INVARIANTS
  TypeOK
  ContentConserved
  CompactionIdempotent
  SkewBounded
  FragmentationBounded
  P95IsFullScan
CHECK_DEADLOCK FALSE
