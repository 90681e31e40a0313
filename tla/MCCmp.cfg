\* Newline and a letter; reads of at most 2 bytes against streams of up to 3,
\* so that both streams need several reads cut at different places; bufout
\* has room for two lines before a flush.
CONSTANTS
  Byte = {10, 65}
  MaxLen = 3
  Inputs <- MCInputs
  HalfBuf = 2
  OutCap = 32
SPECIFICATION FairSpec
INVARIANTS
  TypeOK
  ReportsFirstDifference
  EofNamesShorter
  ListsEveryDifference
  StatusTellsCommonPart
  BufferBound
PROPERTIES
  ComparesStreams
  Terminates
CHECK_DEADLOCK FALSE
