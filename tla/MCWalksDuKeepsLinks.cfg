\* As MCWalks.cfg, du alone.
CONSTANTS
  Progs = {"du"}
  Node <- MCNode
  Children <- MCChildren
  Target <- MCTarget
  Nothing = "nothing"
  Below <- MCBelow
  Faults <- MCFaults
  MaxArgs = 2
  MaxOptions = 2
  Operand <- MCOperand
  DuOperand <- MCDuOperand
  MaxDuArgs = 1
  Cwds = {"d", "x"}
  Name <- MCName
  Mounted = {"e", "z"}
  Blocks <- MCBlocks
  Idle = Idle
SPECIFICATION Spec
INVARIANTS
  DuDefaultKeepsLinks
CHECK_DEADLOCK FALSE
