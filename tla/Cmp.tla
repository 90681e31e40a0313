-------------------------------- MODULE Cmp --------------------------------
(***************************************************************************)
(* cmp.c: compare two files through two input buffers that are refilled    *)
(* independently, by reads that may return fewer bytes than asked for, and *)
(* list the differences (-l) through an output buffer.                     *)
(*                                                                         *)
(* An input buffer is a window on its stream: after a read that returned   *)
(* r[k] bytes and moved the descriptor's offset to off[k], buf[j] is the   *)
(* byte of the stream at off[k] - r[k] + j (0-based).                      *)
(***************************************************************************)
EXTENDS Naturals, Sequences, FiniteSets

CONSTANTS
  Byte,      \* the byte values of the inputs
  Inputs,    \* the streams the operands may name
  HalfBuf,   \* sizeof(buf1) = sizeof(buf2) = BUFSIZ/2
  OutCap     \* sizeof(bufout) = BUFSIZ

NL == 10

OCTALSIZ == 3

\* Room one line of -l output needs: the digits of INT_MAX, two blanks, two
\* bytes in octal, the newline and sprintf's terminator.
FMTSIZ == 10 + 1*2 + OCTALSIZ*2 + 1 + 1

ASSUME CmpAssumption ==
  /\ Byte \subseteq 0..255
  /\ Inputs \subseteq Seq(Byte)
  /\ HalfBuf \in Nat \ {0}
  /\ OutCap \in Nat /\ FMTSIZ <= OutCap

Operand == {1, 2}

VARIABLES
  file,      \* the streams behind the two operands
  flag,      \* the last of -l, -s given, "none" without one
  std,       \* the operand that is "-" (standard input), 0 when neither is
  off,       \* per operand, the offset of its descriptor
  r,         \* per operand, r1 and r2: what the last read returned
  i,         \* per operand, i1 and i2: the next byte of the buffer
  byte, line,
  io,        \* bytes of bufout in use
  pend,      \* the positions whose lines are in bufout
  out,       \* -l: the positions whose lines have been written
  stats,     \* the arguments of write_stats, << >> before it is called
  eof,       \* the operand named by "EOF on", 0 when none is
  ret,
  pc,        \* the statement to execute next
  status     \* "running"; exit status "zero" or "one"; "error" from *_exit()

vars == <<file, flag, std, off, r, i, byte, line, io, pend, out, stats, eof,
          ret, pc, status>>

inputs == <<file, flag, std>>
streams == <<off, r, i>>
counters == <<byte, line>>
listing == <<io, pend, out>>
messages == <<stats, eof>>

Init ==
  /\ file \in [Operand -> Inputs]
  /\ flag \in {"none", "l", "s"}
  /\ std \in {0, 1, 2}
  /\ off = [k \in Operand |-> 0]
  /\ r = [k \in Operand |-> 0]
  /\ i = [k \in Operand |-> 0]
  /\ byte = 1 /\ line = 1
  /\ io = 0 /\ pend = <<>> /\ out = <<>>
  /\ stats = <<>> /\ eof = 0
  /\ ret = 0 /\ pc = "open1" /\ status = "running"
-----------------------------------------------------------------------------
(***************************************************************************)
(* Opening the operands.                                                   *)
(***************************************************************************)
ErrorExit == pc' = "exited" /\ status' = "error"

OpenPc(k) == IF k = 1 THEN "open1" ELSE "open2"

Open(k) ==
  /\ pc = OpenPc(k)
  /\ pc' = IF k = 1 THEN "open2" ELSE "fill1"
  /\ UNCHANGED <<inputs, streams, counters, listing, messages, ret, status>>

OpenFails(k) ==
  /\ pc = OpenPc(k) /\ k # std
  /\ ErrorExit
  /\ UNCHANGED <<inputs, streams, counters, listing, messages, ret>>
-----------------------------------------------------------------------------
(***************************************************************************)
(* Refilling the input buffers.                                            *)
(***************************************************************************)
FillPc(k) == IF k = 1 THEN "fill1" ELSE "fill2"
AfterFill(k) == IF k = 1 THEN "fill2" ELSE "scan"

BufferUsedUp(k) == i[k] >= r[k]

ReadReturns_BufoutSize(k) ==
  LET left == Len(file[k]) - off[k] IN
    IF left = 0 THEN {0} ELSE {m \in 1..(2*HalfBuf) : m <= left}

\* read() returns at least one byte, at most the buffer's size, and 0 only
\* at the end of the stream.
ReadReturns(k) ==
  LET left == Len(file[k]) - off[k] IN
    IF left = 0 THEN {0} ELSE {m \in 1..HalfBuf : m <= left}

Refill_IndexKept(k, m) ==
  /\ pc = FillPc(k) /\ BufferUsedUp(k)
  /\ off' = [off EXCEPT ![k] = @ + m]
  /\ r' = [r EXCEPT ![k] = m]
  /\ pc' = AfterFill(k)
  /\ UNCHANGED <<inputs, i, counters, listing, messages, ret, status>>

Refill(k, m) ==
  /\ pc = FillPc(k) /\ BufferUsedUp(k)
  /\ off' = [off EXCEPT ![k] = @ + m]
  /\ r' = [r EXCEPT ![k] = m]
  /\ i' = [i EXCEPT ![k] = 0]
  /\ pc' = AfterFill(k)
  /\ UNCHANGED <<inputs, counters, listing, messages, ret, status>>

KeepBuffer(k) ==
  /\ pc = FillPc(k) /\ ~BufferUsedUp(k)
  /\ pc' = AfterFill(k)
  /\ UNCHANGED <<inputs, streams, counters, listing, messages, ret, status>>

ReadFails(k) ==
  /\ pc = FillPc(k) /\ BufferUsedUp(k)
  /\ ErrorExit
  /\ UNCHANGED <<inputs, streams, counters, listing, messages, ret>>
-----------------------------------------------------------------------------
(***************************************************************************)
(* The inner loop: one byte of each buffer per step.                       *)
(***************************************************************************)
At(k) == file[k][off[k] - r[k] + i[k] + 1]

BothBuffered == pc = "scan" /\ i[1] < r[1] /\ i[2] < r[2]

Advance ==
  /\ i' = [k \in Operand |-> i[k] + 1]
  /\ byte' = byte + 1
  /\ UNCHANGED <<off, r>>

Match_LineEveryByte ==
  /\ BothBuffered /\ At(1) = At(2)
  /\ Advance
  /\ line' = line + 1
  /\ UNCHANGED <<inputs, listing, messages, ret, pc, status>>

Match ==
  /\ BothBuffered /\ At(1) = At(2)
  /\ Advance
  /\ line' = IF At(1) = NL THEN line + 1 ELSE line
  /\ UNCHANGED <<inputs, listing, messages, ret, pc, status>>

\* Without -l: report (unless -s) and return 1.
Mismatch ==
  /\ BothBuffered /\ At(1) # At(2) /\ flag # "l"
  /\ stats' = IF flag = "none" THEN <<byte, line>> ELSE stats
  /\ ret' = 1 /\ pc' = "close"
  /\ UNCHANGED <<inputs, streams, counters, listing, eof, status>>

WriteStatsFails ==
  /\ BothBuffered /\ At(1) # At(2) /\ flag = "none"
  /\ ErrorExit
  /\ UNCHANGED <<inputs, streams, counters, listing, messages, ret>>

\* Digits printed by %d of a positive number, at most those of INT_MAX, and
\* by %o of a char: char is signed, so a byte from 128 up is promoted to a
\* negative int and printed with all 32 bits.
DecDigits(m) == 1 + Cardinality({d \in 1..9 : m >= 10^d})
OctDigits(b) ==
  IF b < 8 THEN 1 ELSE IF b < 64 THEN 2 ELSE IF b < 128 THEN 3 ELSE 11

LineLen(m, b, c) == DecDigits(m) + 1 + OctDigits(b) + 1 + OctDigits(c) + 1

OutputFull_NoReserve == io >= OutCap
OutputFull == io + FMTSIZ >= OutCap

List_StatusKept ==
  /\ BothBuffered /\ At(1) # At(2) /\ flag = "l"
  /\ out' = IF OutputFull THEN out \o pend ELSE out
  /\ pend' = Append(IF OutputFull THEN <<>> ELSE pend, byte)
  /\ io' = (IF OutputFull THEN 0 ELSE io) + LineLen(byte, At(1), At(2))
  /\ Advance
  /\ UNCHANGED <<inputs, line, messages, ret, pc, status>>

List ==
  /\ BothBuffered /\ At(1) # At(2) /\ flag = "l"
  /\ out' = IF OutputFull THEN out \o pend ELSE out
  /\ pend' = Append(IF OutputFull THEN <<>> ELSE pend, byte)
  /\ io' = (IF OutputFull THEN 0 ELSE io) + LineLen(byte, At(1), At(2))
  /\ ret' = 1
  /\ Advance
  /\ UNCHANGED <<inputs, line, messages, pc, status>>

ListWriteFails ==
  /\ BothBuffered /\ At(1) # At(2) /\ flag = "l" /\ OutputFull
  /\ ErrorExit
  /\ UNCHANGED <<inputs, streams, counters, listing, messages, ret>>

ScanEnd_UntilBothEnd ==
  /\ pc = "scan" /\ ~BothBuffered
  /\ pc' = IF r[1] # 0 \/ r[2] # 0 THEN "fill1" ELSE "eof"
  /\ UNCHANGED <<inputs, streams, counters, listing, messages, ret, status>>

\* One of the buffers is used up: go on unless a stream has ended.
ScanEnd ==
  /\ pc = "scan" /\ ~BothBuffered
  /\ pc' = IF r[1] # 0 /\ r[2] # 0 THEN "fill1" ELSE "eof"
  /\ UNCHANGED <<inputs, streams, counters, listing, messages, ret, status>>
-----------------------------------------------------------------------------
(***************************************************************************)
(* After the loop: the "EOF on" message, the last of the listing, close()  *)
(* of what was opened, and the exit.                                       *)
(***************************************************************************)
OneEnded == flag # "s" /\ (r[1] # 0 \/ r[2] # 0) /\ ~(r[1] # 0 /\ r[2] # 0)

SayEof_Swapped ==
  /\ pc = "eof"
  /\ eof' = IF OneEnded THEN (IF r[1] = 0 THEN 2 ELSE 1) ELSE eof
  /\ pc' = "flush"
  /\ UNCHANGED <<inputs, streams, counters, listing, stats, ret, status>>

SayEof ==
  /\ pc = "eof"
  /\ eof' = IF OneEnded THEN (IF r[1] = 0 THEN 1 ELSE 2) ELSE eof
  /\ pc' = "flush"
  /\ UNCHANGED <<inputs, streams, counters, listing, stats, ret, status>>

SayEofFails ==
  /\ pc = "eof" /\ OneEnded
  /\ ErrorExit
  /\ UNCHANGED <<inputs, streams, counters, listing, messages, ret>>

Flush_Forgotten ==
  /\ pc = "flush"
  /\ pc' = "close"
  /\ UNCHANGED <<inputs, streams, counters, listing, messages, ret, status>>

Flush ==
  /\ pc = "flush"
  /\ out' = IF io # 0 THEN out \o pend ELSE out
  /\ pend' = IF io # 0 THEN <<>> ELSE pend
  /\ pc' = "close"
  /\ UNCHANGED <<inputs, streams, counters, io, messages, ret, status>>

FlushFails ==
  /\ pc = "flush" /\ io # 0
  /\ ErrorExit
  /\ UNCHANGED <<inputs, streams, counters, listing, messages, ret>>

Exit ==
  /\ pc = "close"
  /\ pc' = "exited"
  /\ status' = IF ret = 0 THEN "zero" ELSE "one"
  /\ UNCHANGED <<inputs, streams, counters, listing, messages, ret>>

\* At least one of the two operands is not "-", so something is closed.
CloseFails ==
  /\ pc = "close"
  /\ ErrorExit
  /\ UNCHANGED <<inputs, streams, counters, listing, messages, ret>>

Next ==
  \/ \E k \in Operand :
       \/ Open(k)
       \/ OpenFails(k)
       \/ \E m \in ReadReturns(k) : Refill(k, m)
       \/ KeepBuffer(k)
       \/ ReadFails(k)
  \/ Match \/ Mismatch \/ WriteStatsFails \/ List \/ ListWriteFails \/ ScanEnd
  \/ SayEof \/ SayEofFails \/ Flush \/ FlushFails \/ Exit \/ CloseFails

Spec == Init /\ [][Next]_vars

\* The program is one thread and every call it makes returns.
FairSpec == Spec /\ WF_vars(Next)
-----------------------------------------------------------------------------
(***************************************************************************)
(* What is true of it.                                                     *)
(***************************************************************************)
Position == Nat \ {0}

\* Every variable has a value of its type; r and i stay within a buffer and
\* off within the stream.
TypeOK ==
  /\ file \in [Operand -> Seq(Byte)]
  /\ flag \in {"none", "l", "s"} /\ std \in {0, 1, 2}
  /\ off \in [Operand -> Nat] /\ \A k \in Operand : off[k] <= Len(file[k])
  /\ r \in [Operand -> 0..HalfBuf]
  /\ i \in [Operand -> 0..HalfBuf]
  /\ byte \in Position /\ line \in Position
  /\ io \in Nat /\ pend \in Seq(Position) /\ out \in Seq(Position)
  /\ stats \in {<<>>} \union (Position \X Position) /\ eof \in {0, 1, 2}
  /\ ret \in {0, 1}
  /\ pc \in {"open1", "open2", "fill1", "fill2", "scan", "eof", "flush",
             "close", "exited"}
  /\ status \in {"running", "zero", "one", "error"}

AgreeBefore(b) == \A j \in 1..(b-1) : file[1][j] = file[2][j]

NewlinesBefore(b) == {j \in 1..(b-1) : file[1][j] = NL}

\* However the two streams were cut into reads, the position write_stats is
\* given (cmp.c:76) is the first at which they differ, and the line is that
\* of this position in the first file.
ReportsFirstDifference ==
  stats # <<>> =>
    LET b == stats[1] IN
      /\ b <= Len(file[1]) /\ b <= Len(file[2])
      /\ file[1][b] # file[2][b]
      /\ AgreeBefore(b)
      /\ stats[2] = 1 + Cardinality(NewlinesBefore(b))

\* "EOF on" (cmp.c:93-97) names the stream that is the shorter one, and
\* without -l that stream is the beginning of the other.
EofNamesShorter ==
  \A k \in Operand : eof = k =>
    /\ Len(file[k]) < Len(file[3-k])
    /\ flag = "none" => AgreeBefore(Len(file[k]) + 1)

Ascending(s) == \A j, k \in 1..Len(s) : j < k => s[j] < s[k]

Differences ==
  {j \in Position : /\ j <= Len(file[1]) /\ j <= Len(file[2])
                    /\ file[1][j] # file[2][j]}

\* With -l, what has reached standard output when cmp ends without an error
\* is every differing position once and in order: no line is lost or written
\* twice by the flushes of bufout (cmp.c:80-85, 105-107).
ListsEveryDifference ==
  flag = "l" /\ status \in {"zero", "one"} =>
    /\ Ascending(out)
    /\ {out[j] : j \in 1..Len(out)} = {j \in 1..Len(file[1]) : j \in Differences}

\* A position both files have that differs makes the exit status 1, at any
\* place in the reads and in the listing, and equal files make it 0 (cmp.c:78,
\* 86, 109).  When one file is the beginning of the other, nothing is said:
\* the status is 0 then, which POSIX keeps for equal files.
StatusTellsCommonPart ==
  status \in {"zero", "one"} =>
    /\ (\E j \in 1..Len(file[1]) : j \in Differences) => status = "one"
    /\ file[1] = file[2] => status = "zero"

\* The room FMTSIZ reserves (cmp.c:80) covers the line printed next, as long
\* as no byte has its sign bit set: bufout is never filled to its end.
BufferBound == Byte \subseteq 0..127 => io < OutCap

\* No way of cutting the streams makes cmp loop without progress.
Terminates == <>(pc = "exited")
-----------------------------------------------------------------------------
(***************************************************************************)
(* cmp implements the comparison of the two streams position by position.  *)
(***************************************************************************)
Compare == INSTANCE StreamCompare WITH
  n <- byte - 1,
  log <- out \o pend,
  phase <- IF status = "error" THEN "failed"
           ELSE IF pc \in {"flush", "close", "exited"} THEN "decided"
           ELSE "comparing"

\* Refills, flushes and the buffers' sizes are invisible: cmp behaves as the
\* position by position comparison.
ComparesStreams == Compare!Spec
=============================================================================
