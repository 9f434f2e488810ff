CONSTANTS
  a1 = a1
  a2 = a2
  None = None
  Address = {a1, a2}
  Txs <- MCTxs
  MaxHeight = 2
  StartBlock = {None}
  FloatMaxExp = 5
  Request = {}
  MaxFaults = 1
  MaxCrashes = 1
  MaxStops = 0
SPECIFICATION Spec
CHECK_DEADLOCK FALSE
INVARIANT
  EveryContractScanned
