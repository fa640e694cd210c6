SPECIFICATION Spec
CONSTANTS
  Dialers = {}
  NServices = 3
  Pids <- MCPids
  Pmt <- TvRadio
  ConfigProgram = 0
  DialNumbers = {}
  KeyOps = {}
  FilterHandles = {f1}
  StreamHandles = {s1, s2}
  NoHandle = NoHandle
  MaxPat = 4
  MaxElem = 2
  MayFail = {}
  FreeWaits = TRUE
  Spurious = FALSE
INVARIANT StartsAllStreams
