CONSTANTS
  m = m
  n = n
  d = d
  x = x
  mPath = mPath
  nPath = nPath
  dPath = dPath
  xPath = xPath
  Label = {"reentrancy"}
  Name = {m, n, d, x}
  Path = {mPath, nPath, dPath, xPath}
  Shared = {xPath}
  Parents <- MCParents
  Sanitize <- MCSanitize
  RawPath <- MCRawPath
  None = None
SPECIFICATION Spec
CHECK_DEADLOCK FALSE
INVARIANTS
  TypeOK
  NotesTell
  EchidnaGetsTarget
PROPERTIES
  AnalysisSpec
