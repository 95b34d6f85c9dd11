SPECIFICATION FairSpec
CONSTANTS
  Tags <- MCTags
  Banks <- MCBanks
  Lanes <- MCLanes
  NUM_SETS = 2
  Values = {0, 1}
  Junk = 2
  LINE_HALVES = 4
  IC_SETS = 2
  IC_TAGS = 2
  Workloads <- MCWorkloads
  Results <- MCResults
  HALF = 2
INVARIANTS
  LoadsRight
  ScExact
  OncePerAccess
  FetchRight
  SpeculationExact
  NoEarlyTick
PROPERTY
  StallEnds
