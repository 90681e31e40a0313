\* Every combination of terminals, files and closed descriptors for nohup;
\* two variables with two values and up to two assignments for env.
CONSTANTS
  Progs = {"nohup", "nice", "env", "time"}
  Result = {"exit0", "exit1", "killed"}
  Lowest <- MCLowest
  Highest = 2
  Increment <- MCIncrement
  Name = {"a", "b"}
  Value = {1, 2}
  MaxArgs = 2
  MaxClock = 3
  Idle = Idle
SPECIFICATION FairSpec
INVARIANTS
  DescriptorsReplaced
  NiceIsAsked
  SeesEnvironment
  TimesWholeRun
PROPERTIES
  StartsUtility
  Ends
CHECK_DEADLOCK FALSE
