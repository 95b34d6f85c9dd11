SPECIFICATION FairSpec
CONSTANTS
  BEATS_PER_LINE = 2
  TIMEOUT_LIMIT = 2
  DLines <- MCDLines
  ILines <- MCILines
  ABases <- MCABases
  MaxBurst = 3
  MaxOwed = 2
  SrcStride = 4
ACTION_CONSTRAINT OneLateBurst
INVARIANTS
  TypeOK
  RightLine
  RightRequester
  BoundedBypass
PROPERTY FetchCompletes
