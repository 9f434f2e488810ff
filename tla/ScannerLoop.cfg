CONSTANTS
  a1 = a1
  a2 = a2
  None = None
  Address = {a1, a2}
  Txs <- MCTxs
  MaxHeight = 3
  StartBlock = {None, 0}
  FloatMaxExp = 1
  Request = {r1}
  MaxFaults = 2
  MaxCrashes = 1
  MaxStops = 1
SPECIFICATION Spec
CHECK_DEADLOCK FALSE
INVARIANTS
  TypeOK
  NoContractMissed
  AnalysedAtMostOnce
  ScanHasContract
  AlertAccounting
  OnlyFailuresStrand
PROPERTIES
  CursorNeverBack
  DiscoveryWrittenOnce
  LedgerSpec
  StopTerminates
  CatchesUp
