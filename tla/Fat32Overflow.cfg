SPECIFICATION Spec
CONSTANTS
  Cluster <- MCCluster
  Root = 2
  Fat <- MCFat
  Free <- MCFreeLater
  ShippedDisk <- MCDisk
  Slots = 4
  PaddedName <- MCPadded
  TxtName <- MCTxt
  Dot = Dot
  DotDot = DotDot
  Text <- MCText
  Image = Image
  NoText = NoText
  End = End
  Deleted = Deleted
  Alien = Alien
  EndOfChain = EndOfChain
  MaxTimeouts = 0
  MaxCalls = 6
  d = d
  f = f
  t1 = t1
  ShippedSize = 69
PROPERTIES
  TextSurvives
CHECK_DEADLOCK FALSE
