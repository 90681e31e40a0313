\* Every sequence of up to two options, up to two operands, and at most one
\* file that may not be changed or directory that cannot be read.
CONSTANTS
  Progs = {"chown", "chgrp", "chmod", "du"}
  Node <- MCNode
  Children <- MCChildren
  Target <- MCTarget
  Nothing = "nothing"
  Below <- MCBelow
  Faults <- MCFaults
  MaxArgs = 2
  MaxOptions = 2
  Operand <- MCOperand
  DuOperand <- MCDuOperand
  MaxDuArgs = 1
  Cwds = {"d", "x"}
  Name <- MCName
  Mounted = {"e", "z"}
  Blocks <- MCBlocks
  Idle = Idle
SPECIFICATION FairSpec
INVARIANTS
  ChangesOnlySelected
  ChangesAllSelected
  ZeroMeansAllChanged
  DuListsTree
PROPERTIES
  Terminates
CHECK_DEADLOCK FALSE
