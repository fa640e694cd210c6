SPECIFICATION Spec
CONSTANTS
  MayFail = {}
  MaxReports = 1
INVARIANTS
  LockedTunerIsUsed
