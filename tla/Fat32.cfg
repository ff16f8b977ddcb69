SPECIFICATION Spec
CONSTANTS
  Cluster <- MCCluster
  Root = 2
  Fat <- MCFat
  Free <- MCFree
  ShippedDisk <- MCDisk
  Slots = 4
  PaddedName <- MCPadded
  TxtName <- MCTxt
  Dot = Dot
  DotDot = DotDot
  Text <- MCText
  Image = Image
  NoText = NoText
  End = End
  Deleted = Deleted
  Alien = Alien
  EndOfChain = EndOfChain
  MaxTimeouts = 1
  MaxCalls = 5
  d = d
  f = f
  t1 = t1
  ShippedSize = 69
INVARIANTS
  TypeOK
  OneEntryPerCluster
  LinkedClustersTaken
  PromptEnds
PROPERTIES
  DirWrittenBeforeLink
  CommandsShow
CHECK_DEADLOCK FALSE
