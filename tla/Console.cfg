CONSTANTS
  Sources <- MCSources
  NSend = 4
  NPoll = 2
  NRecv = 2
  Locking <- MCBoth
SPECIFICATION Spec
CHECK_DEADLOCK FALSE
INVARIANTS TransmittedInOrder ReceivedInOrder NoForgottenEvent
PROPERTY QueueDrains
