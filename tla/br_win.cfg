CONSTANTS
  BufferSize = 3
  MaxLen = 2
  MaxSent = 6
  MaxDword = 7
SPECIFICATION Spec
INVARIANT TypeOK
INVARIANT WakeupDue
PROPERTY LikeRecv
