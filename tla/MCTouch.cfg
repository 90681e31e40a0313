\* Two names, every sequence of up to two options, two steps of the other
\* process.
CONSTANTS
  Name = {"f", "g"}
  MaxArgs = 2
  MaxOptions = 2
  MaxInode = 3
  MaxOther = 2
  NsecPerSec = 10
  Now = 7
  Readings <- MCReadings
  Year1900 <- MCYear1900
  RefTimes <- MCRefTimes
SPECIFICATION Spec
INVARIANTS
  ZeroMeansTouched
PROPERTIES
  EmptiesOnlyInRace
  LeavesOtherTime
CHECK_DEADLOCK FALSE
