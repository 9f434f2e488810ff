CONSTANTS
  a = a
  b = b
  Contract = {a, b}
  Filter = {"none", "one"}
  NoFilter = "none"
  Matches <- MCMatches
  Limit = 1
  MaxLoads = 3
  RefreshId = {1}
  Home = Home
  None = None
SPECIFICATION Spec
CHECK_DEADLOCK FALSE
INVARIANTS
  TypeOK
  CacheAnswersKey
  SpinnersEnd
  TableOfFilter
  ForeignProfileStrayed
