SPECIFICATION FairSpec
CONSTANTS
  Digits = {0, 1, 9}
  HastyDigits = {9}
  Timers = {t1, t2}
  Garbage = {5000}
  MaxDigits = 3
  HastyMax = 2
INVARIANTS
  TypeOK
  DialsWhatWasTyped
  EntryPending
PROPERTIES
  EntryEnds
