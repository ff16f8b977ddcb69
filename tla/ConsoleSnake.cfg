SPECIFICATION Spec
CONSTANTS
  Letter <- MCLetter
  Program <- MCProgram
  Quit = q
  NUL = NUL
  BufferSize = 3
  HistorySize = 2
  QueueSize = 2
  MaxEvents = 5
  q = q
  c = c
INVARIANTS
  SnakeGetsKeys
CHECK_DEADLOCK FALSE
