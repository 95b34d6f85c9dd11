CONSTANTS
  dim = 3
  maxK = 3
  A <- MCA
  B <- MCB
  Dot <- MCDot
  Stale <- MCStale
  MaxRuns = 3
SPECIFICATION Spec
INVARIANTS ProductRight RunInv
