\* At most one option.
CONSTANTS
  Name = {"f", "g"}
  MaxArgs = 2
  MaxOptions = 1
  MaxInode = 3
  MaxOther = 2
  NsecPerSec = 10
  Now = 7
  Readings <- MCReadings
  Year1900 <- MCYear1900
  RefTimes <- MCRefTimes
SPECIFICATION Spec
INVARIANTS
  PlainTouchIsNow
CHECK_DEADLOCK FALSE
