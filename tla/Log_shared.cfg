SPECIFICATION Spec
CONSTANTS
  Nodes <- MCNodes
  Server <- MCServer
  Layouts <- MCLayouts
  Lines <- MCLines
  NextHop <- MCNextHop
  QUIT = "QUIT"
  Garbage <- MCGarbage
  nPrints = 2
INVARIANTS
  TypeOK
  NoMkdirRace
  LinesAreTrue
  LogIsCausal
PROPERTY
  EveryPacketIsLogged
CHECK_DEADLOCK FALSE
