SPECIFICATION FairSpec
CONSTANTS
  MaxCalls = 3
  MaxLate = 2
INVARIANTS
  TypeOK
  OverlayTimed
  NoDrawAfterRelease
  StaysWhileTimed
PROPERTIES
  ShownBeforeRemoved
  OverlaysDisappear
  DeinitReturnsIfSignalled
CHECK_DEADLOCK FALSE
