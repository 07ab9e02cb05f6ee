CONSTANTS
  Fds = {f1, f2}
  Nodes = {p1, p2}
  NullPtr = NullPtr
  StopFd = StopFd
  Dirs = {"in"}
  MAXEVENTS = 2
  MaxLevel = 2
  EraseAt = {"idle", "wait", "lock"}
SPECIFICATION Spec
SYMMETRY Symmetry
INVARIANT TypeOK
INVARIANT BatchLive
INVARIANT NoLostWakeup
