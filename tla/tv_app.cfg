SPECIFICATION AppFairSpec
CONSTANTS
  MayFail = {"malloc", "tuner", "register", "lock", "player", "source"}
  MaxReports = 3
  AppMayFail = {"config", "rcInit", "scInit", "gcInit", "gcDeinit", "open",
                "read", "volume"}
  Keys = {"P", "V+", "V-", "mute", "exit"}
  MaxVolume = 1
  FirstVolume = 1
INVARIANTS
  TypeOK
  FailureReleasesDevice
  PlayerNeedsLock
  ReadyMeetsInit
  TimelyKeysSafe
  VolumesAgree
PROPERTIES
  StartupEnds
  CallbackReturns
  ExitEnds
