SPECIFICATION Spec
CONSTANTS
  n = 4
INVARIANT
  ReleasesAllMemory
CHECK_DEADLOCK FALSE
