\* nice alone.
CONSTANTS
  Progs = {"nice"}
  Result = {"exit0", "exit1", "killed"}
  Lowest <- MCLowest
  Highest = 2
  Increment <- MCIncrement
  Name = {"a", "b"}
  Value = {1, 2}
  MaxArgs = 2
  MaxClock = 3
  Idle = Idle
SPECIFICATION Spec
INVARIANTS
  NotFoundIs127
CHECK_DEADLOCK FALSE
