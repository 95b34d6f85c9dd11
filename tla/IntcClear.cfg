CONSTANTS
  Sources <- MCSources
  NSend = 2
  NPoll = 1
  NRecv = 1
  Locking <- MCUnlocked
SPECIFICATION Spec
CHECK_DEADLOCK FALSE
PROPERTY EveryEdgeLatches
