SPECIFICATION Spec
CONSTANTS
  BEATS_PER_LINE = 2
  TIMEOUT_LIMIT = 1
  NoLine = NoLine
  NGroups = 4
  PerRow = 2
  FifoLines = 4
  DestStride = 8
  DLines = {30}
  Dests = {0}
  TimeoutsInsideLine = TRUE
INVARIANT StoreLands
