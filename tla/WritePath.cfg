SPECIFICATION FairSpec
CONSTANTS
  BEATS_PER_LINE = 2
  TIMEOUT_LIMIT = 3
  NoLine = NoLine
  NGroups = 4
  PerRow = 2
  FifoLines = 4
  DestStride = 8
  DLines = {30}
  Dests = {0}
  TimeoutsInsideLine = FALSE
INVARIANTS
  StoreLands
  WriteBackLands
  LastIsLast
PROPERTY WritesComplete
