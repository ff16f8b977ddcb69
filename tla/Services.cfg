SPECIFICATION Spec
CONSTANTS
  NumTasks = 4
  ExecTime <- MCExecTime
  Tickets <- MCTickets
  TimeQuantum = 10
  MaxRuns = 3
  MaxFiles = 2
  MaxProcesses = 2
  Increment <- MCIncrement
  HeapStart = 1
  MaxHeap = 2
  MaxPid = 5
  Digits <- MCDigits
  Other = {"x"}
  Size = 4
  IntBits = 3
  Bits = 4
  ShortBits = 3
  CharBits = 2
  Formats <- MCFormats
  Stacks <- MCStacks
  Width = 2
  Height = 2
  Entries = 3
  First = 1
  Range16 = 5
  Colours = 8
  Step = 2
  SectorSize = 16
  SectorsPerCluster = 1
  MaxDigits = 2
  DigitOf <- MCDigitOf
  Pictures <- MCPictures
  Media <- MCMedia
  FirstSearched = 1
  Sectors = {0, 2}
  WordsPerSector = 2
  MaxCommands = 2
  MaxErrors = 1
  Base = 2
  KeyByte <- MCKeyByte
  MaxPresses = 2
  MaxMoves = 2
  MaxTicks = 1
INVARIANTS
  TypeOK
  FairShare
  StrayForkNeedsKill
  PrintsArguments
  ColoursKept
  WholePixelsDrawn
PROPERTIES
  RunsEnd
  AnswersTheLine
  DiskOpsRight
  PromptReached
  InputServed
CHECK_DEADLOCK FALSE
