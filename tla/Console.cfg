SPECIFICATION Spec
CONSTANTS
  Letter <- MCLetter
  Program <- MCProgram
  Quit = q
  NUL = NUL
  BufferSize = 3
  HistorySize = 3
  QueueSize = 2
  MaxEvents = 8
  q = q
  c = c
INVARIANTS
  TypeOK
  HistoryIsLog
  LinesTerminated
  InsertionPointInLine
  ShiftFollowsKey
CHECK_DEADLOCK FALSE
