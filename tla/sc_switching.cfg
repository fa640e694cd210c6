SPECIFICATION FairSpec
CONSTANTS
  Dialers = {}
  NServices = 3
  Pids <- MCPids
  Pmt <- TvRadio
  ConfigProgram = 0
  DialNumbers = {}
  KeyOps = {"up", "down", "info"}
  FilterHandles = {f1}
  StreamHandles = {s1, s2}
  NoHandle = NoHandle
  MaxPat = 4
  MaxElem = 2
  MayFail = {}
  FreeWaits = TRUE
  Spurious = FALSE
INVARIANTS
  TypeOK
  NoLostRequest
  StreamsFollowChannel
  DateFromTdt
PROPERTIES
  SettlesOnRequest
  ExitCompletes
  SwitchesInTheEnd
  SwitchesChannels
CHECK_DEADLOCK FALSE
