SPECIFICATION Spec
CONSTANTS
  Dialers = {}
  NServices = 4
  Pids <- MCPids
  Pmt <- TvRadioBig
  ConfigProgram = 1
  DialNumbers = {}
  KeyOps = {"up"}
  FilterHandles = {f1, f2, f3}
  StreamHandles = {s1, s2, s3}
  NoHandle = NoHandle
  MaxPat = 4
  MaxElem = 2
  MayFail = {"setFilter", "register", "streamCreate"}
  FreeWaits = TRUE
  Spurious = FALSE
SYMMETRY Symmetric
INVARIANTS
  PidsOfCurrentChannel
  FilterOnListedProgram
  PmtAfterWholePat
  NoLeak
  ExitReleasesAll
  NoFault
CHECK_DEADLOCK FALSE
