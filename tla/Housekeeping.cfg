SPECIFICATION Spec
CONSTANTS
  MaxRows = 4
  MaxIdle = 0
  MaxFailures = 0
  Files <- MCFiles
  Tasks = {t1, t2}
  Targets = {}
  CreatedWith = 128
  KeepLast = 2
  OrphanGrace = 2
  TaskTime = 1
  MaxClock = 3
SYMMETRY TaskSymmetry
INVARIANTS
  NewestSnapshotsSurvive
  OnlyLateCommitsDangle
CHECK_DEADLOCK FALSE
