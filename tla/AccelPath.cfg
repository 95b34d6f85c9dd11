CONSTANTS
  NGroups = 2
  PerRow = 1
  FifoLines = 3
  DestStride = 1
  dim = 2
  rowBytes = 2
  linesPerLane = 2
  Panels <- MCPanels
  descDepth = 2
  Plans <- MCPlans
  ResetsInFlight = FALSE
SPECIFICATION FairSpec
INVARIANTS TypeOK ResultsRight
PROPERTIES InOrderBatch BatchEndsInTheEnd
