SPECIFICATION FairSpec
CONSTANTS
  Width = 6
  Height = 3
  StartLength = 3
  MaxApples = 2
  MaxKeys = 4
INVARIANTS
  SnakeInOnePiece
  ShortSnakeDiesByReversal
  KeysGoToAGame
PROPERTIES
  ReversalNeedsTwoKeys
  SecondGameEndsFirst
  HandlerReturns
CHECK_DEADLOCK FALSE
