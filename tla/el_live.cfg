CONSTANTS
  Fds = {f1}
  Nodes = {p1}
  NullPtr = NullPtr
  StopFd = StopFd
  Dirs = {"in", "out"}
  MAXEVENTS = 1
  MaxLevel = 1
  EraseAt = {"idle", "wait", "store", "lock"}
SPECIFICATION FairSpec
INVARIANT KernelAgrees
PROPERTY StopReturnsWhenCalm
PROPERTY WorkHandledWhenCalm
