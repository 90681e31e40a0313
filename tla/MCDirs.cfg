\* Any three command lines of nine, in every interleaving of their calls, over
\* five trees: nothing there, only a file f, directories, a file where a
\* directory is asked for, and a link.
CONSTANTS
  Proc = {p1, p2, p3}
  Job <- MCJob
  Path <- MCPath
  Top = "."
  Dirname <- MCDirname
  Way <- MCWay
  Target = "a"
  Start <- MCStart
SYMMETRY Processes
SPECIFICATION Spec
INVARIANTS
  ZeroMeansDone
  MkdirsTolerateMkdirs
PROPERTIES
  OnlyNamed
CHECK_DEADLOCK FALSE
