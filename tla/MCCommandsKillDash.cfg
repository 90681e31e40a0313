\* Every command line of up to three arguments of kill.
CONSTANTS
  Sigs <- MCSigs
  TERM = 15
  Argument <- MCArgument
  MaxArgs = 3
  IovSize = 4
  Path = {p1, p2, p3}
  Dir = {here, other}
  Here = here
  Link = link
  None = none
  MaxMoves = 0
  Primary <- MCPrimary
  Stranger = "stranger"
  Databases <- MCDatabases
  Char = {"a", "b", "/"}
  Slash = "/"
  Nul = "Nul"
  Before <- MCBefore
  MaxName = 1
  MaxTokens = 1
  Pair = {0, 1, 19, 20, 68, 69, 70, 99}
  Bad = 100
  ThisYear = 113
  Seconds = {0, 1, 3, 7, 8, 9, 12}
  UMod = 8
  Modes <- MCModes
  Delays <- MCDelays
  Controls <- MCControls
  Speeds = {0, 9600}
  Speed = {0, 9600, 12345}
  CharVal = {0, 3, 63, 64, 127, 128, 191, 192, 255}
  Idle = idle
SPECIFICATION Spec
INVARIANTS
  DashSignalAccepted
CHECK_DEADLOCK FALSE
