SPECIFICATION Spec
CONSTANTS
  Rows = 2
  Cols = 3
  Base = 4
  MainChar <- MCMainChar
  KeyChar <- MCKeyLetter
  MaxPrints = 7
  MaxKeys = 1
  Packet <- MCPacket
  MaxBytes = 0
  MaxLost = 0
PROPERTIES
  ScrollEndsOnLastRow
CHECK_DEADLOCK FALSE
