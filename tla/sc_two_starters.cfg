SPECIFICATION Spec
CONSTANTS
  Dialers = {d1}
  NServices = 3
  Pids <- MCPids
  Pmt <- TvRadio
  ConfigProgram = 0
  DialNumbers = {0, 1}
  KeyOps = {}
  FilterHandles = {f1, f2}
  StreamHandles = {s1, s2, s3}
  NoHandle = NoHandle
  MaxPat = 4
  MaxElem = 2
  MayFail = {}
  FreeWaits = TRUE
  Spurious = FALSE
INVARIANT PidsOfCurrentChannel
