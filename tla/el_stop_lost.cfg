CONSTANTS
  Fds = {f1}
  Nodes = {p1}
  NullPtr = NullPtr
  StopFd = StopFd
  Dirs = {"in"}
  MAXEVENTS = 2
  MaxLevel = 1
  EraseAt = {"idle"}
SPECIFICATION Spec
SYMMETRY Symmetry
INVARIANT NoWakeupLostByStop
