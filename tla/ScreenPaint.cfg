SPECIFICATION Spec
CONSTANTS
  Rows = 2
  Cols = 3
  Base = 4
  MainChar <- MCMainChar
  KeyChar <- MCKeyChar
  MaxPrints = 0
  MaxKeys = 0
  Packet <- MCPacket
  MaxBytes = 9
  MaxLost = 0
PROPERTIES
  ClickIsPermanent
CHECK_DEADLOCK FALSE
