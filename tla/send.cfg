CONSTANTS
  MaxBlocks = 3
  MaxSize = 2
  SendBuffer = 3
  MaxCalls = 2
SPECIFICATION MCSpec
CHECK_DEADLOCK FALSE
INVARIANT TypeOK
INVARIANT NothingSkippedOrRepeated
INVARIANT SentEverything
INVARIANT SentInOrderWin
PROPERTY Returns
