CONSTANTS
  a1 = a1
  a2 = a2
  None = None
  Address = {a1, a2}
  Txs <- MCTxs
  MaxHeight = 0
  StartBlock = {0}
  FloatMaxExp = 1024
  Request = {}
  MaxFaults = 1025
  MaxCrashes = 0
  MaxStops = 0
SPECIFICATION Spec
CHECK_DEADLOCK FALSE
PROPERTY
  ErrorsAreSurvived
