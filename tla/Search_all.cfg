CONSTANTS
    RouterId = {0, 1, 2, 3}
    MAX_NEIGHBORS = 2
    MCLength = 3
    Registers <- AllRegisters
SPECIFICATION SearchSpec
INVARIANTS
    AnswerIsRight
    CallsFormSimplePath
PROPERTY SearchEnds
CHECK_DEADLOCK FALSE
