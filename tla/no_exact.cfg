CONSTANTS
  MaxCount = 3
  MaxNotify = 6
  MayThrow = TRUE
  Handles = {1, 2}
  Objects = {"n1", "n2", "timer", "multicast", "tcp"}
  Notifiers = {"n1", "n2"}
  MaxGen = 2
  MaxQueue = 3
  MaxPosts = 2
  MaxInbox = 2
SPECIFICATION MCSpec
CHECK_DEADLOCK FALSE
INVARIANT TypeOK
INVARIANT SignalPending
PROPERTY NotifiedExactly
PROPERTY NotifiedEventually
INVARIANT OwnCompletion
INVARIANT NotifiedExactlyWin
INVARIANT TimerDue
INVARIANT OperationDue
