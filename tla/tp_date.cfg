SPECIFICATION Spec
CONSTANTS
  Sections <- MCSections
  MaxEntries <- MCMax
  Bytes = {0, 13, 88}
  LastDay = 65535
INVARIANT DateOfTheDay
CHECK_DEADLOCK FALSE
