CONSTANTS
  BufferSize = 3
  MaxLen = 3
  MaxSent = 6
  MaxConnects = 0
SPECIFICATION Spec
PROPERTY LikeRecv
