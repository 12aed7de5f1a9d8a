SPECIFICATION Spec
CONSTANTS
  Ids = {1, 2}
  Names = {"speed", "range"}
  Types <- MCTypes
  MaxPrecision = 1
INVARIANTS
  OldDataStaysReadable
  ColumnsKeepIdentity
