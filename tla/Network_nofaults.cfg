SPECIFICATION FairSpec
CONSTANTS
  Addr <- MCAddr
  TableSets <- AnyTopology
  Lines <- MCLines
  QUIT = "QUIT"
  Faults <- NoFaults
INVARIANTS
  TypeOK
  RowForEveryPacket
  TablesOfOneComputation
PROPERTIES
  DeliversMessages
  AllExit
CHECK_DEADLOCK FALSE
