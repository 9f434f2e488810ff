CONSTANTS
  e1 = e1
  E1 = E1
  e2 = e2
  s1 = s1
  S1 = S1
  p1 = p1
  n1 = n1
  n2 = n2
  None = None
  Chain = {"ethereum", "solana", "tron"}
  EvmAddress = {e1, e2}
  Name = {n1, n2}
  Address = {e1, E1, e2, s1, S1}
  Lower <- MCLower
  Base58 = {S1}
  Adapter = {"ethereum", "solana"}
  Protocol = {p1}
  MaxContracts = 3
  Limit = 1
  Request = {r1, r2, r3}
  Call <- MCCall
  Reply <- MCReply
  MaxFaults = 1
  MaxCrashes = 1
SPECIFICATION Spec
CHECK_DEADLOCK FALSE
INVARIANTS
  TypeOK
  EachRowAddedOnce
  RegistrationComplete
  MisfitsImported
  ScanComplete
  RegisteredThenScanned
PROPERTIES
  LedgerSpec
SYMMETRY RequestSymmetry
