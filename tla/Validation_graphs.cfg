SPECIFICATION Spec
CONSTANTS
  A = A
  B = B
  C = C
  D = D
  U = U
  Addr <- FourNodes
  Strangers <- OneStranger
  Reports <- AllGraphReports
INVARIANT
  GraphsPass
CHECK_DEADLOCK FALSE
