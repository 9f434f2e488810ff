CONSTANTS
  None = None
  Id = {i1, i2}
  Chain = {"ethereum", "base"}
  MaxStores = 1
  MaxCrashes = 2
SPECIFICATION Spec
CHECK_DEADLOCK FALSE
INVARIANTS
  TypeOK
  RowsKept
  LeftoverEmpty
  ServesNewSchema
  StatementsSucceed
PROPERTY
  MigratesOnce
SYMMETRY IdSymmetry
