SPECIFICATION Spec
CONSTANTS
  Files <- MCFiles
INVARIANTS
  LoadedAsWritten
CHECK_DEADLOCK FALSE
