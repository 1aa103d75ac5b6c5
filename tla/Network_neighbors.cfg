SPECIFICATION Spec
CONSTANTS
  Addr <- MCAddr
  TableSets <- OnlyChain
  Lines <- MCLines
  QUIT = "QUIT"
  Faults <- NoFaults
INVARIANT
  ChainNeighborsOnly
CHECK_DEADLOCK FALSE
