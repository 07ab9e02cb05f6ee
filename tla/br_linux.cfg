CONSTANTS
  BufferSize = 3
  MaxLen = 3
  MaxSent = 8
  MaxConnects = 1
SPECIFICATION Spec
INVARIANT TypeOK
INVARIANT IntactUnlessMixed
PROPERTY InOrder
