SPECIFICATION Spec
CONSTANTS
  n = 4
INVARIANTS
  TypeOK
  PointersOwnBlocks
  OnlyGarbageIsFreedWrongly
  LeaksAccountedFor
  SocketsAreClosed
CHECK_DEADLOCK FALSE
