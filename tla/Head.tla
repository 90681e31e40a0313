------------------------------- MODULE Head -------------------------------
(***************************************************************************)
(* head.c: copy the first lines of each operand.  Headers are queued in an *)
(* array of IovSize entries and written together with the data that        *)
(* follows; data are read in pieces of at most BufSize bytes and lines are *)
(* counted across the pieces.                                              *)
(*                                                                         *)
(* What is written is a sequence of symbols << k, p >>, k an operand: p >= *)
(* 1 is the byte of its stream at position p, p in HeaderPart one of the   *)
(* four strings of its header.                                             *)
(***************************************************************************)
EXTENDS Integers, Sequences, FiniteSets

CONSTANTS
  Content,   \* what files and standard input may hold
  Dash,      \* the operand "-"
  MaxArgs,   \* most operands given
  Count,     \* the values -n may be given
  IovSize,   \* ARRSIZ(iov), 16 in the program
  BufSize,   \* ARRSIZ(buf), BUFSIZ in the program
  UMod       \* one more than the largest unsigned, 2^32 in the program

NL == 10

HeadAssumption ==
  /\ Content \subseteq Seq(Nat) /\ Dash \notin Content
  /\ MaxArgs \in Nat
  /\ Count \subseteq Int
  /\ IovSize \in Nat \ {0}
  /\ BufSize \in Nat \ {0}
  /\ UMod \in Nat \ {0}

VARIABLES
  args,      \* the operands, each a content or Dash
  stdin,     \* the content of standard input
  nflag,
  cur,       \* the operand argv points to; 1 when there is none
  fd,        \* 0, or 3 for an operand that was opened
  offset,    \* per descriptor, its offset
  header,
  part,      \* the string of the header queued next
  iov,       \* the curiov queued symbols
  lines,
  ret,
  out,       \* the symbols written to standard output
  start,     \* per operand, the offset it was first read at, -1 before
  cut,       \* the operands a read failed on
  pc, status

given == <<args, stdin, nflag>>
place == <<cur, fd, start>>
queue == <<header, part, iov>>
result == <<ret, cut, status>>

vars == <<given, place, offset, queue, lines, out, result, pc>>

Header == -3..0     \* "\n", "==> ", the name and " <==\n"
FD == {0, 3}
Operands == 1..(MaxArgs+1)

Init ==
  /\ args \in UNION {[1..a -> Content \union {Dash}] : a \in 0..MaxArgs}
  /\ stdin \in Content
  /\ nflag \in Count
  /\ cur = 1 /\ fd = 0 /\ offset = [f \in FD |-> 0]
  /\ header = 0 /\ part = 0 /\ iov = <<>> /\ lines = 0 /\ ret = 0
  /\ out = <<>> /\ start = [k \in Operands |-> -1] /\ cut = {}
  /\ pc = "options" /\ status = "running"

ErrorExit ==
  /\ pc' = "exited" /\ status' = "error"
  /\ UNCHANGED <<given, place, offset, queue, lines, out, ret, cut>>

\* Standard input is read for "-", and when there is no operand.
IsNamed(k) == k <= Len(args) /\ args[k] # Dash
StreamOf(k) == IF IsNamed(k) THEN args[k] ELSE stdin
Stream == StreamOf(cur)
-----------------------------------------------------------------------------
\* usage(), for an option head does not have, or -n with a number that is
\* negative.
RejectOptions == pc = "options" /\ ErrorExit

Start ==
  /\ pc = "options" /\ nflag >= 0
  /\ header' = IF Len(args) > 1 THEN 1 ELSE 0
  /\ pc' = "open"
  /\ UNCHANGED <<given, place, offset, part, iov, lines, out, result>>

Open ==
  /\ pc = "open"
  /\ fd' = IF IsNamed(cur) THEN 3 ELSE 0
  /\ offset' = IF IsNamed(cur) THEN [offset EXCEPT ![3] = 0] ELSE offset
  /\ start' = [start EXCEPT ![cur] = offset'[fd']]
  /\ header' = IF header = 1 THEN 2 ELSE header
  /\ part' = IF header = 1 THEN -2 ELSE -3
  /\ pc' = IF header # 0 THEN "header" ELSE "flush0"
  /\ UNCHANGED <<given, cur, iov, lines, out, result>>

OpenFails ==
  /\ pc = "open" /\ IsNamed(cur)
  /\ ret' = 1
  /\ pc' = "next"
  /\ UNCHANGED <<given, place, offset, queue, lines, out, cut, status>>
-----------------------------------------------------------------------------
(***************************************************************************)
(* Queueing a header, one string per step; a full queue is written.        *)
(***************************************************************************)
QueueFull_Late == Len(iov) + 1 > IovSize
QueueFull == Len(iov) + 1 >= IovSize

QueuePart ==
  /\ pc = "header"
  /\ LET queued == Append(iov, <<cur, part>>) IN
       IF QueueFull THEN out' = out \o queued /\ iov' = <<>>
                    ELSE iov' = queued /\ UNCHANGED out
  /\ part' = IF part < 0 THEN part + 1 ELSE part
  /\ pc' = IF part < 0 THEN "header" ELSE "flush0"
  /\ UNCHANGED <<given, place, offset, header, lines, result>>

\* Before the first read of standard input the queue is written.
FlushFirst_Never == FALSE
FlushFirst == fd = 0

\* lines, an unsigned, is set from nflag, a long.
Unsigned(n) == n % UMod

ReadyToRead ==
  /\ pc = "flush0"
  /\ IF FlushFirst THEN out' = out \o iov /\ iov' = <<>>
                   ELSE UNCHANGED <<out, iov>>
  /\ lines' = Unsigned(nflag)
  /\ pc' = "read"
  /\ UNCHANGED <<given, place, offset, header, part, result>>
-----------------------------------------------------------------------------
(***************************************************************************)
(* The read loop.                                                          *)
(***************************************************************************)
NewlinesIn(s, a, b) == {j \in a..b : s[j] = NL}

\* The positions after a, up to b, that belong to the first n lines there.
FirstLines(s, a, b, n) ==
  {j \in (a+1)..b : Cardinality(NewlinesIn(s, a+1, j-1)) < n}

Left == Len(Stream) - offset[fd]

LinesWanted_OneMoreRead == lines # 0 \/ Left > 0
LinesWanted == lines # 0

\* The lines still wanted when the bytes at positions a to b are written.
LinesAfter_EveryChunkAnew(a, b) == lines
LinesAfter(a, b) == lines - Cardinality(NewlinesIn(Stream, a, b))

\* A chunk of m bytes is read; its part that belongs to the lines wanted is
\* written behind the queue.
ReadChunk(m) ==
  /\ pc = "read" /\ LinesWanted /\ m \in 1..BufSize /\ m <= Left
  /\ LET from == offset[fd]
         take == Cardinality(FirstLines(Stream, from, from + m, lines))
     IN /\ out' = out \o iov \o [j \in 1..take |-> <<cur, from + j>>]
        /\ lines' = LinesAfter(from + 1, from + take)
  /\ iov' = <<>>
  /\ offset' = [offset EXCEPT ![fd] = @ + m]
  /\ UNCHANGED <<given, place, header, part, result, pc>>

\* Enough lines, or the end of the stream; the descriptor is closed.
ReadEnd ==
  /\ pc = "read" /\ (~LinesWanted \/ Left = 0)
  /\ pc' = "next"
  /\ UNCHANGED <<given, place, offset, queue, lines, out, result>>

ReadFails ==
  /\ pc = "read" /\ LinesWanted
  /\ cut' = cut \union {cur}
  /\ pc' = "next"
  /\ UNCHANGED <<given, place, offset, queue, lines, out, ret, status>>

NextOperand ==
  /\ pc = "next"
  /\ IF cur < Len(args) THEN cur' = cur + 1 /\ pc' = "open"
                        ELSE pc' = "flush" /\ UNCHANGED cur
  /\ UNCHANGED <<given, fd, start, offset, queue, lines, out, result>>

Exit ==
  /\ pc = "flush"
  /\ out' = out \o iov
  /\ pc' = "exited" /\ status' = "zero"
  /\ UNCHANGED <<given, place, offset, queue, lines, ret, cut>>

\* Each of the four calls of writevn may fail.
WriteFails ==
  /\ \/ pc = "header" /\ QueueFull
     \/ pc = "flush0" /\ FlushFirst
     \/ pc = "read" /\ LinesWanted /\ Left # 0
     \/ pc = "flush" /\ iov # <<>>
  /\ ErrorExit

Next ==
  \/ RejectOptions \/ Start \/ Open \/ OpenFails
  \/ QueuePart \/ ReadyToRead
  \/ \E m \in 1..BufSize : ReadChunk(m)
  \/ ReadEnd \/ ReadFails \/ NextOperand \/ Exit \/ WriteFails

Spec == Init /\ [][Next]_vars
-----------------------------------------------------------------------------
(***************************************************************************)
(* What is true of it.                                                     *)
(***************************************************************************)
Symbol == Operands \X Int

\* iov[curiov] is an element of the array whenever a header string
\* (head.c:70) or the data (head.c:97) is stored there: however many empty or
\* unreadable operands leave their headers queued, the array has room.
QueueHasRoom == Len(iov) < IovSize

\* The bytes operand k contributes: those of its first n lines after the
\* offset it was first read at.
Wanted(k, n) ==
  LET s == StreamOf(k)
      m == Cardinality(FirstLines(s, start[k], Len(s), n))
  IN [j \in 1..m |-> <<k, start[k] + j>>]

\* Its header: without the blank line when no operand before it was opened.
HeaderOf(k) ==
  IF Len(args) < 2 THEN <<>>
  ELSE LET h == <<<<k, -3>>, <<k, -2>>, <<k, -1>>, <<k, 0>>>> IN
       IF \A j \in 1..(k-1) : start[j] = -1 THEN Tail(h) ELSE h

\* All of the output when operands 1..k have been read to their last line.
HeadsOf(n) ==
  LET heads[k \in 0..MaxArgs+1] ==
        IF k = 0 THEN <<>>
        ELSE IF start[k] = -1 THEN heads[k-1]
        ELSE heads[k-1] \o HeaderOf(k) \o Wanted(k, n)
  IN heads[MaxArgs+1]

\* The output is, for each operand that could be opened and in their order,
\* its header and its first nflag lines, wherever the reads cut the streams
\* and however headers were queued (head.c:53-109), for every -n an unsigned
\* can hold.
WritesHeads ==
  status = "zero" /\ cut = {} /\ nflag < UMod => out = HeadsOf(nflag)

\* While standard input is waited for, nothing is left unwritten: who types
\* the input has seen the header (head.c:79-83).
NothingQueuedForTerminal == pc = "read" /\ fd = 0 => iov = <<>>
=============================================================================
