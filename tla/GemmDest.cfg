CONSTANTS
  t1 = t1
  t2 = t2
  NoThread = NoThread
  Threads <- MCThreads
  Tiles <- MCTiles
  DC_LINE = 2
  DC_SETS = 4
  BufLine = 8
  QueueDepth = 2
  OperandBytes = 2
  TileBytes = 2
  IrqLatency = 1
  Workloads <- DestWorkloads
  Lines <- MCLines
  BootCaches <- MCBoot
  WorkLines <- MCWorkLines
  MaxWork = 1
  BATCHES = 2
  a_panel = 0
  b_panel = 4
  dest = 8
SPECIFICATION Spec
INVARIANT ResultsRight
CHECK_DEADLOCK FALSE
