CONSTANTS
  e1 = e1
  E1 = E1
  e2 = e2
  s1 = s1
  S1 = S1
  p1 = p1
  n1 = n1
  n2 = n2
  None = None
  Chain = {"ethereum", "solana", "tron"}
  EvmAddress = {e1, e2}
  Name = {n1, n2}
  Address = {e1, E1, e2, s1, S1}
  Lower <- MCLower
  Base58 = {S1}
  Adapter = {"ethereum", "solana"}
  Protocol = {p1}
  MaxContracts = 3
  Limit = 1
  Request = {r1, r2}
  Call <- MCCall
  Reply <- MCReply
  MaxFaults = 0
  MaxCrashes = 0
SPECIFICATION Spec
CHECK_DEADLOCK FALSE
INVARIANT
  SolanaAddressIntact
