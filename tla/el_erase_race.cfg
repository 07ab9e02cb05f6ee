CONSTANTS
  Fds = {f1}
  Nodes = {p1}
  NullPtr = NullPtr
  StopFd = StopFd
  Dirs = {"in"}
  MAXEVENTS = 1
  MaxLevel = 1
  EraseAt = {"idle", "wait", "store", "lock"}
SPECIFICATION Spec
SYMMETRY Symmetry
INVARIANT BatchLive
