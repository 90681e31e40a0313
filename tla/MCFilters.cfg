\* head: a queue of 5 entries fills up after two headers; an unsigned of two
\* bits, so that -n 5 is truncated.  wc: every stream of up to four bytes, and
\* pairs of shorter ones.  All read pieces of up to three bytes.
CONSTANTS
  Progs = {"head", "cat", "wc"}
  Content <- MCContent
  Dash = Dash
  MaxArgs = 3
  Count <- MCCount
  IovSize = 5
  BufSize = 3
  UMod = 4
  Given <- MCGiven
  Mode = {"c", "m", "none"}
  MBCurMax = 2
  WcBufSize = 3
  Idle = Idle
SPECIFICATION Spec
INVARIANTS
  QueueHasRoom
  WritesHeads
  NothingQueuedForTerminal
  CatCopies
  CountsWholeStream
  HandsOver
CHECK_DEADLOCK FALSE
