SPECIFICATION FairSpec
CONSTANTS
  MaxRows = 2
  MaxIdle = 1
  MaxFailures = 1
  Files <- MCFiles
  Tasks = {t1}
  Targets = {64}
  CreatedWith = 128
  KeepLast = 0
  OrphanGrace = 2
  TaskTime = 1
  MaxClock = 3
INVARIANTS
  TypeOK
  CheckpointHoldsItsRows
  RowsSeen
  TableIsTheStream
PROPERTIES
  ImplementsPrefixDelivery
  EveryRowIsSeen
CHECK_DEADLOCK FALSE
