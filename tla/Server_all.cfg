SPECIFICATION MCSpec
CONSTANTS
  A = A
  B = B
  C = C
  D = D
  U = U
  Addr <- FourNodes
  Strangers <- OneStranger
  Reports <- MCReports
  n = 4
  INT_MAX = 100
  Matrices <- MCMatrices
  indexToAddress <- MCIndexToAddress
INVARIANTS
  ServerTypeOK
  InvalidAreThoseNotDual
  MatrixIsTheGraph
  FailsOnlyForAReason
  RoutesFormTree
  NoShortcut
  RowsFit
  PrintoutAgreesWithTables
PROPERTY
  ImplementsService
  EndsInAnAnswer
CHECK_DEADLOCK FALSE
