SPECIFICATION Spec
CONSTANTS
  MaxRows = 3
  MaxIdle = 0
  MaxFailures = 0
  Files <- MCFiles
  Tasks = {t1}
  Targets = {64}
  CreatedWith = 128
  KeepLast = 1
  OrphanGrace = 2
  TaskTime = 1
  MaxClock = 3
PROPERTIES
  ExpiryTrims
CHECK_DEADLOCK FALSE
