\* As MCWalks.cfg, chgrp alone.
CONSTANTS
  Progs = {"chgrp"}
  Node <- MCNode
  Children <- MCChildren
  Target <- MCTarget
  Nothing = "nothing"
  Below <- MCBelow
  Faults <- MCFaults
  MaxArgs = 2
  MaxOptions = 2
  Operand <- MCOperand
  DuOperand <- MCDuOperand
  MaxDuArgs = 1
  Cwds = {"d", "x"}
  Name <- MCName
  Mounted = {"e", "z"}
  Blocks <- MCBlocks
  Idle = Idle
SPECIFICATION Spec
INVARIANTS
  ChgrpNeverCallsNull
CHECK_DEADLOCK FALSE
