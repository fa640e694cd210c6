SPECIFICATION Spec
CONSTANTS
  Sections <- MCSections
  MaxEntries <- MCMax
  Bytes = {0, 13, 88}
  LastDay = 65535
INVARIANTS
  TypeOK
  ListsParsed
  DescriptorsCounted
  MonthOfTheDay
CHECK_DEADLOCK FALSE
