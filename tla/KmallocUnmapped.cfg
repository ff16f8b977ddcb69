SPECIFICATION Spec
CONSTANTS
  PageFrameMin = 6
  PageFrameMax = 27
  PagesPerTable = 2
  Sizes <- MCSizes
  TcbSize = 52
  StackSize = 4096
  Absent = Absent
  BootDir = BootDir
  HeapPages = 12
  MaxCalls = 3
PROPERTIES
  KmallocReturnsMapped
CHECK_DEADLOCK FALSE
