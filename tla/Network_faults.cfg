SPECIFICATION FairSpec
CONSTANTS
  Addr <- SmallAddr
  TableSets <- StarOrPath
  Lines <- SmallLines
  QUIT = "QUIT"
  Faults <- FaultKinds
INVARIANTS
  NeverSentToUnbound
PROPERTIES
  DeliversMessages
  ServerFailureFreesWaiting
  AcceptWaitsOnlyForTheDead
CHECK_DEADLOCK FALSE
