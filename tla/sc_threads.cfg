SPECIFICATION Spec
CONSTANTS
  Dialers = {d1}
  NServices = 2
  Pids <- MCPids
  Pmt <- OneTv
  ConfigProgram = 0
  DialNumbers = {0}
  KeyOps = {"up"}
  FilterHandles = {f1}
  StreamHandles = {s1}
  NoHandle = NoHandle
  MaxPat = 4
  MaxElem = 2
  MayFail = {}
  FreeWaits = TRUE
  Spurious = TRUE
INVARIANTS
  TaskNeverFaults
CHECK_DEADLOCK FALSE
