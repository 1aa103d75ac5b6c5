CONSTANTS
    RouterId = {0, 1, 2}
    MAX_NEIGHBORS = 2
    Registers <- MCRegisters
    Names <- MCNames
    FlagArgs <- OneFlagArg
    Faults = {}
    MaxCommands = 2
    MaxRuns = 1
SPECIFICATION Spec
INVARIANT DeletedIsGone
CHECK_DEADLOCK FALSE
