CONSTANTS
  RouterId = {0, 1, 2}
  MAX_NEIGHBORS = 3
  Registers <- MCRegisters
  Names <- MCNames
  FlagArgs <- MCFlagArgs
  Faults = {"open", "write", "kill", "close"}
  MaxCommands = 2
  MaxRuns = 2
SPECIFICATION Spec
INVARIANTS
  TypeOK
  IdsUnique
  NoHiddenLinks
  FreedNameIsAlone
  SavedIsReadBack
PROPERTIES
  DeleteIsExact
  SetFlagIsExact
  TornFilesLackLinksOnly
CHECK_DEADLOCK FALSE
