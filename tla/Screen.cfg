SPECIFICATION Spec
CONSTANTS
  Rows = 2
  Cols = 3
  Base = 4
  MainChar <- MCMainChar
  KeyChar <- MCKeyChar
  MaxPrints = 3
  MaxKeys = 1
  Packet <- MCPacket
  MaxBytes = 6
  MaxLost = 1
INVARIANTS
  TypeOK
  CursorOnScreen
  PointersLeftByScrolls
  PacketsInStep
CHECK_DEADLOCK FALSE
