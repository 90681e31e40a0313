----------------------------- MODULE CmpProofs -----------------------------
(***************************************************************************)
(* Theorems about Cmp, for every set of streams and every buffer size.     *)
(***************************************************************************)
EXTENDS Cmp, FiniteSetTheorems, SequenceTheorems, TLAPS

-----------------------------------------------------------------------------
(***************************************************************************)
(* The length of a line of the listing.                                    *)
(***************************************************************************)

\* A decimal number takes one to ten digits.
LEMMA DecDigitsRange == ASSUME NEW m \in Nat PROVE DecDigits(m) \in 1..10
<1> DEFINE T == {d \in 1..9 : m >= 10^d}
<1>1. IsFiniteSet(1..9) /\ Cardinality(1..9) = 9
  <2>1. IsFiniteSet(1..9) /\ Cardinality(1..9) = IF 1 > 9 THEN 0 ELSE 9 - 1 + 1
    <3>1. 1 \in Int /\ 9 \in Int
      OBVIOUS
    <3> QED BY ONLY <3>1, FS_Interval, Zenon
  <2> QED BY <2>1
<1>2. T \in SUBSET (1..9)
  OBVIOUS
<1>3. IsFiniteSet(T) /\ Cardinality(T) <= 9
  <2> HIDE DEF T
  <2>1. IsFiniteSet(T) /\ Cardinality(T) <= Cardinality(1..9)
    BY ONLY <1>1, <1>2, FS_Subset
  <2> QED BY ONLY <1>1, <2>1
<1>4. Cardinality(T) \in Nat
  <2> HIDE DEF T
  <2> QED BY <1>3, FS_CardinalityType
<1>5. DecDigits(m) = 1 + Cardinality(T)
  BY DEF DecDigits
<1> HIDE DEF T
<1> QED BY <1>3, <1>4, <1>5

\* A line of the listing has at least one character, and one less than
\* FMTSIZ at most when both bytes are below 128.
LEMMA LineLenRange ==
  ASSUME NEW m \in Nat, NEW b \in Byte, NEW c \in Byte
  PROVE  /\ LineLen(m, b, c) \in Nat \ {0}
         /\ Byte \subseteq 0..127 => LineLen(m, b, c) < FMTSIZ
<1>1. DecDigits(m) \in 1..10
  BY DecDigitsRange
<1>2. b \in 0..255 /\ c \in 0..255
  BY CmpAssumption
<1>3. OctDigits(b) \in 1..11 /\ OctDigits(c) \in 1..11
  BY <1>2 DEF OctDigits
<1>4. Byte \subseteq 0..127 => OctDigits(b) \in 1..3 /\ OctDigits(c) \in 1..3
  BY <1>2 DEF OctDigits
<1> QED BY <1>1, <1>3, <1>4 DEF LineLen, FMTSIZ, OCTALSIZ
-----------------------------------------------------------------------------
(***************************************************************************)
(* Type correctness.  It is inductive together with the fact that neither  *)
(* buffer index passes the end of what was read.                           *)
(***************************************************************************)
Window ==
  \A k \in Operand :
    /\ r[k] <= off[k]
    /\ i[k] <= r[k]

Typed == TypeOK /\ Window

\* What the inner loop reads is a byte of the streams.
LEMMA AtRange ==
  ASSUME Typed, BothBuffered, NEW k \in Operand PROVE At(k) \in Byte
<1>1. file[k] \in Seq(Byte)
  BY DEF Typed, TypeOK
<1>2. off[k] \in Nat /\ r[k] \in Nat /\ i[k] \in Nat
  BY CmpAssumption DEF Typed, TypeOK
<1>3. off[k] <= Len(file[k]) /\ r[k] <= off[k] /\ i[k] < r[k]
  BY DEF Typed, TypeOK, Window, BothBuffered, Operand
<1>4. off[k] - r[k] + i[k] + 1 \in 1..Len(file[k])
  BY <1>1, <1>2, <1>3
<1> QED BY <1>1, <1>4 DEF At

\* Stepping both indices keeps them within what was read.
LEMMA AdvanceRange ==
  ASSUME Typed, BothBuffered, Advance
  PROVE  /\ i' \in [Operand -> 0..HalfBuf]
         /\ \A k \in Operand : i'[k] <= r[k]
<1>1. \A k \in Operand : i[k] < r[k]
  BY DEF BothBuffered, Operand
<1>2. \A k \in Operand : i[k] \in 0..HalfBuf /\ r[k] \in 0..HalfBuf
  BY DEF Typed, TypeOK
<1>3. HalfBuf \in Nat
  BY CmpAssumption
<1>4. \A k \in Operand : i[k] + 1 \in 0..HalfBuf /\ i[k] + 1 <= r[k]
  BY <1>1, <1>2, <1>3
<1>5. i' = [k \in Operand |-> i[k] + 1]
  BY DEF Advance
<1> QED BY <1>4, <1>5

LEMMA TypedInit == Init => Typed
<1> SUFFICES ASSUME Init PROVE Typed
  OBVIOUS
<1>1. \A k \in Operand : file[k] \in Seq(Byte)
  BY CmpAssumption DEF Init
<1>2. file \in [Operand -> Seq(Byte)]
  BY CmpAssumption DEF Init
<1>3. \A k \in Operand : Len(file[k]) \in Nat
  BY <1>1
<1> QED BY <1>2, <1>3, CmpAssumption DEF Init, Typed, TypeOK, Window, Operand, Position

LEMMA TypedNext == Typed /\ [Next]_vars => Typed'
<1> USE DEF Typed, TypeOK, Window, Position,
            inputs, streams, counters, listing, messages
<1> SUFFICES ASSUME Typed, [Next]_vars PROVE Typed'
  OBVIOUS
<1>0. /\ \A k \in Operand : file[k] \in Seq(Byte) /\ Len(file[k]) \in Nat
      /\ HalfBuf \in Nat \ {0}
  BY CmpAssumption
<1>1. ASSUME NEW k \in Operand, Open(k) PROVE Typed'
  BY <1>1 DEF Open, OpenPc
<1>2. ASSUME NEW k \in Operand, OpenFails(k) PROVE Typed'
  BY <1>2 DEF OpenFails, ErrorExit
<1>3. ASSUME NEW k \in Operand, NEW m \in ReadReturns(k), Refill(k, m)
      PROVE  Typed'
  <2>1. m \in 0..HalfBuf /\ off[k] + m <= Len(file[k])
    BY <1>0 DEF ReadReturns
  <2> QED BY <1>0, <1>3, <2>1 DEF Refill, AfterFill
<1>4. ASSUME NEW k \in Operand, KeepBuffer(k) PROVE Typed'
  BY <1>4 DEF KeepBuffer, AfterFill
<1>5. ASSUME NEW k \in Operand, ReadFails(k) PROVE Typed'
  BY <1>5 DEF ReadFails, ErrorExit
<1>6. CASE Match
  <2>1. i' \in [Operand -> 0..HalfBuf] /\ \A k \in Operand : i'[k] <= r[k]
    BY <1>6, AdvanceRange DEF Match
  <2> QED BY <1>6, <2>1 DEF Match, Advance
<1>7. CASE Mismatch
  BY <1>7 DEF Mismatch
<1>8. CASE WriteStatsFails
  BY <1>8 DEF WriteStatsFails, ErrorExit
<1>9. CASE List
  <2>1. i' \in [Operand -> 0..HalfBuf] /\ \A k \in Operand : i'[k] <= r[k]
    BY <1>9, AdvanceRange DEF List
  <2>2. \A k \in Operand : At(k) \in Byte
    BY <1>9, AtRange DEF List
  <2>3. LineLen(byte, At(1), At(2)) \in Nat
    BY <2>2, LineLenRange DEF Operand
  <2>4. io' \in Nat /\ byte' \in Nat \ {0} /\ ret' = 1
    BY <1>9, <2>3 DEF List, Advance
  <2>5. out' \in Seq(Nat \ {0})
    BY <1>9 DEF List
  <2>6. pend' \in Seq(Nat \ {0})
    BY <1>9 DEF List
  <2> QED BY <1>9, <2>1, <2>4, <2>5, <2>6 DEF List, Advance
<1>10. CASE ListWriteFails
  BY <1>10 DEF ListWriteFails, ErrorExit
<1>11. CASE ScanEnd
  BY <1>11 DEF ScanEnd
<1>12. CASE SayEof
  BY <1>12 DEF SayEof
<1>13. CASE SayEofFails
  BY <1>13 DEF SayEofFails, ErrorExit
<1>14. CASE Flush
  BY <1>14 DEF Flush
<1>15. CASE FlushFails
  BY <1>15 DEF FlushFails, ErrorExit
<1>16. CASE Exit
  BY <1>16 DEF Exit
<1>17. CASE CloseFails
  BY <1>17 DEF CloseFails, ErrorExit
<1>18. CASE UNCHANGED vars
  BY <1>18 DEF vars
<1> QED
  BY <1>1, <1>2, <1>3, <1>4, <1>5, <1>6, <1>7, <1>8, <1>9, <1>10, <1>11,
     <1>12, <1>13, <1>14, <1>15, <1>16, <1>17, <1>18 DEF Next

LEMMA AlwaysTyped == Spec => []Typed
BY TypedInit, TypedNext, PTL DEF Spec

\* Every reachable state of cmp is well typed: in particular no buffer index
\* leaves its buffer and no read runs past the end of its stream.
THEOREM TypeCorrect == Spec => []TypeOK
<1>1. Typed => TypeOK
  BY DEF Typed
<1> QED BY <1>1, AlwaysTyped, PTL
-----------------------------------------------------------------------------
(***************************************************************************)
(* The output buffer.                                                      *)
(***************************************************************************)

\* For every buffer size that holds one line and every pair of streams of
\* 7-bit bytes, the listing never fills bufout to its end.
THEOREM BufferBoundHolds == Spec => []BufferBound
<1>1. Init => BufferBound
  BY CmpAssumption DEF Init, BufferBound, FMTSIZ, OCTALSIZ
<1>2. Typed /\ BufferBound /\ [Next]_vars => BufferBound'
  <2> SUFFICES ASSUME Typed, BufferBound, [Next]_vars, Byte \subseteq 0..127
               PROVE  io' < OutCap
    BY DEF BufferBound
  <2>1. CASE List
    <3>1. \A k \in Operand : At(k) \in Byte
      BY <2>1, AtRange DEF List
    <3>2. LineLen(byte, At(1), At(2)) \in Nat /\ LineLen(byte, At(1), At(2)) < FMTSIZ
      BY <3>1, LineLenRange DEF Operand, Typed, TypeOK, Position
    <3>3. FMTSIZ \in Nat
      BY DEF FMTSIZ, OCTALSIZ
    <3>4. io \in Nat
      BY DEF Typed, TypeOK
    <3>5. io' = (IF OutputFull THEN 0 ELSE io) + LineLen(byte, At(1), At(2))
      BY <2>1 DEF List
    <3> QED BY <3>2, <3>3, <3>4, <3>5, CmpAssumption DEF OutputFull
  <2>2. CASE ~List
    <3>1. UNCHANGED io
      BY <2>2 DEF Next, vars, listing, Open, OpenFails, Refill, KeepBuffer,
        ReadFails, Match, Mismatch, WriteStatsFails, ListWriteFails, ScanEnd,
        SayEof, SayEofFails, Flush, FlushFails, Exit, CloseFails
    <3> QED BY <3>1 DEF BufferBound
  <2> QED BY <2>1, <2>2
<1> QED BY <1>1, <1>2, AlwaysTyped, PTL DEF Spec
-----------------------------------------------------------------------------
(***************************************************************************)
(* Where the buffers stand.  In both streams the byte looked at next is    *)
(* number byte; and when a buffer has been filled and is empty, its stream *)
(* has ended.                                                              *)
(***************************************************************************)
Sync == \A k \in Operand : off[k] - r[k] + i[k] = byte - 1

\* The statements behind the refill of buffer k.
Behind(k) == IF k = 1 THEN {"fill2", "scan", "eof"} ELSE {"scan", "eof"}

Fresh ==
  /\ \A k \in Operand : pc \in Behind(k) /\ r[k] = 0 => off[k] = Len(file[k])
  /\ pc = "fill2" => r[1] = 0 \/ i[1] < r[1]
  /\ pc \in {"scan", "eof"} /\ (r[1] = 0 \/ r[2] = 0) =>
       \A k \in Operand : r[k] = 0 \/ i[k] < r[k]
  /\ pc = "eof" => r[1] = 0 \/ r[2] = 0

Placed == Typed /\ Sync /\ Fresh

LEMMA PlacedInit == Init => Placed
BY TypedInit DEF Init, Placed, Sync, Fresh, Behind, Operand

\* What Placed says of one operand.
LEMMA PlacedNumbers ==
  ASSUME Placed, NEW k \in Operand
  PROVE  /\ Len(file[k]) \in Nat /\ off[k] \in Nat /\ r[k] \in Nat
         /\ i[k] \in Nat /\ byte \in Nat \ {0}
         /\ off[k] <= Len(file[k]) /\ r[k] <= off[k] /\ i[k] <= r[k]
         /\ off[k] - r[k] + i[k] = byte - 1
<1>1. /\ file[k] \in Seq(Byte) /\ off[k] \in Nat /\ off[k] <= Len(file[k])
      /\ r[k] \in 0..HalfBuf /\ i[k] \in 0..HalfBuf /\ byte \in Nat \ {0}
  BY DEF Placed, Typed, TypeOK, Position
<1>2. r[k] <= off[k] /\ i[k] <= r[k]
  BY DEF Placed, Typed, Window
<1>3. off[k] - r[k] + i[k] = byte - 1
  BY DEF Placed, Sync
<1>4. r[k] \in Nat /\ i[k] \in Nat /\ Len(file[k]) \in Nat
  BY <1>1, CmpAssumption
<1> QED BY <1>1, <1>2, <1>3, <1>4

\* A refill leaves the next byte where it was in the stream.
LEMMA RefillSync ==
  ASSUME Placed, NEW k \in Operand, NEW m \in ReadReturns(k), Refill(k, m)
  PROVE  Sync'
<1>1. /\ off' = [off EXCEPT ![k] = @ + m] /\ r' = [r EXCEPT ![k] = m]
      /\ i' = [i EXCEPT ![k] = 0] /\ byte' = byte /\ i[k] >= r[k]
  BY DEF Refill, BufferUsedUp, counters
<1>2. /\ off \in [Operand -> Nat] /\ r \in [Operand -> 0..HalfBuf]
      /\ i \in [Operand -> 0..HalfBuf]
  BY DEF Placed, Typed, TypeOK
<1>3. m \in Nat
  BY PlacedNumbers, CmpAssumption DEF ReadReturns
<1>4. SUFFICES ASSUME NEW l \in Operand
               PROVE  off'[l] - r'[l] + i'[l] = byte' - 1
  BY DEF Sync
<1>5. CASE l = k
  <2>1. off'[l] = off[l] + m /\ r'[l] = m /\ i'[l] = 0
    BY <1>1, <1>2, <1>5
  <2>2. /\ off[l] \in Nat /\ r[l] \in Nat /\ i[l] \in Nat /\ byte \in Nat
        /\ i[l] <= r[l] /\ off[l] - r[l] + i[l] = byte - 1
    BY PlacedNumbers
  <2>3. i[l] >= r[l]
    BY <1>1, <1>5
  <2>4. (off[l] + m) - m + 0 = byte - 1
    BY ONLY <1>3, <2>2, <2>3
  <2> QED BY ONLY <1>1, <1>3, <2>1, <2>2, <2>4
<1>6. CASE l # k
  <2>1. off'[l] = off[l] /\ r'[l] = r[l] /\ i'[l] = i[l]
    BY <1>1, <1>2, <1>6
  <2>2. off[l] - r[l] + i[l] = byte - 1
    BY PlacedNumbers
  <2> QED BY ONLY <1>1, <2>1, <2>2
<1> QED BY <1>5, <1>6

\* After the statement that refills buffer k, or finds it not used up, that
\* buffer is empty only if its stream has ended.
LEMMA FilledFresh ==
  ASSUME Placed, NEW k \in Operand,
         pc = FillPc(k), pc' = AfterFill(k), file' = file,
         \A l \in Operand \ {k} : off'[l] = off[l] /\ r'[l] = r[l] /\ i'[l] = i[l],
         r'[k] = 0 => off'[k] = Len(file[k]),
         r'[k] = 0 \/ i'[k] < r'[k]
  PROVE  Fresh'
<1>1. CASE k = 1
  <2>1. pc' = "fill2"
    BY <1>1 DEF AfterFill
  <2>2. /\ r'[1] = 0 => off'[1] = Len(file'[1])
        /\ r'[1] = 0 \/ i'[1] < r'[1]
    BY <1>1
  <2> QED BY <2>1, <2>2 DEF Fresh, Behind, Operand
<1>2. CASE k = 2
  <2>1. pc = "fill2" /\ pc' = "scan"
    BY <1>2 DEF FillPc, AfterFill
  <2>2. /\ r[1] = 0 => off[1] = Len(file[1])
        /\ r[1] = 0 \/ i[1] < r[1]
    BY <2>1 DEF Placed, Fresh, Behind, Operand
  <2>3. off'[1] = off[1] /\ r'[1] = r[1] /\ i'[1] = i[1]
    BY <1>2 DEF Operand
  <2>4. \A l \in Operand : r'[l] = 0 => off'[l] = Len(file'[l])
    BY <1>2, <2>2, <2>3 DEF Operand
  <2>5. \A l \in Operand : r'[l] = 0 \/ i'[l] < r'[l]
    BY <1>2, <2>2, <2>3 DEF Operand
  <2> QED BY <2>1, <2>4, <2>5 DEF Fresh
<1> QED BY <1>1, <1>2 DEF Operand

\* A refill that returned nothing was made at the end of the stream.
LEMMA RefillFresh ==
  ASSUME Placed, NEW k \in Operand, NEW m \in ReadReturns(k), Refill(k, m)
  PROVE  Fresh'
<1>1. /\ off' = [off EXCEPT ![k] = @ + m] /\ r' = [r EXCEPT ![k] = m]
      /\ i' = [i EXCEPT ![k] = 0] /\ file' = file
      /\ pc = FillPc(k) /\ pc' = AfterFill(k)
  BY DEF Refill, inputs
<1>2. /\ off \in [Operand -> Nat] /\ r \in [Operand -> 0..HalfBuf]
      /\ i \in [Operand -> 0..HalfBuf]
  BY DEF Placed, Typed, TypeOK
<1>3. off[k] \in Nat /\ Len(file[k]) \in Nat /\ HalfBuf \in Nat
  BY PlacedNumbers, CmpAssumption
<1>4. m \in Nat /\ (m = 0 => off[k] = Len(file[k]))
  <2>1. CASE Len(file[k]) - off[k] = 0
    BY <1>3, <2>1 DEF ReadReturns
  <2>2. CASE Len(file[k]) - off[k] # 0
    BY <1>3, <2>2 DEF ReadReturns
  <2> QED BY <2>1, <2>2
<1>5. off'[k] = off[k] + m /\ r'[k] = m /\ i'[k] = 0
  BY <1>1, <1>2
<1>6. \A l \in Operand \ {k} : off'[l] = off[l] /\ r'[l] = r[l] /\ i'[l] = i[l]
  BY <1>1, <1>2
<1>7. r'[k] = 0 => off'[k] = Len(file[k])
  BY <1>3, <1>4, <1>5
<1>8. r'[k] = 0 \/ i'[k] < r'[k]
  BY <1>4, <1>5
<1> QED BY <1>1, <1>6, <1>7, <1>8, FilledFresh

\* A buffer that is not used up is left alone.
LEMMA KeepFresh ==
  ASSUME Placed, NEW k \in Operand, KeepBuffer(k) PROVE Fresh'
<1>1. /\ UNCHANGED <<off, r, i, file>> /\ i[k] < r[k]
      /\ pc = FillPc(k) /\ pc' = AfterFill(k)
  <2>1. r[k] \in Nat /\ i[k] \in Nat
    BY PlacedNumbers
  <2> QED BY <2>1 DEF KeepBuffer, BufferUsedUp, inputs, streams
<1>2. i[k] \in Nat /\ r[k] \in Nat
  BY PlacedNumbers
<1>3. r'[k] # 0 /\ i'[k] < r'[k]
  BY <1>1, <1>2
<1> QED BY <1>1, <1>3, FilledFresh

\* A turn of the inner loop moves both buffers on by the byte counted.
LEMMA AdvancePlaced ==
  ASSUME Placed, BothBuffered, Advance, file' = file, pc' = pc
  PROVE  Sync' /\ Fresh'
<1>1. /\ i' = [k \in Operand |-> i[k] + 1] /\ off' = off /\ r' = r
      /\ byte' = byte + 1
  BY DEF Advance
<1>2. Sync'
  <2> SUFFICES ASSUME NEW k \in Operand
               PROVE  off'[k] - r'[k] + i'[k] = byte' - 1
    BY DEF Sync
  <2>1. /\ off[k] \in Nat /\ r[k] \in Nat /\ i[k] \in Nat /\ byte \in Nat
        /\ off[k] - r[k] + i[k] = byte - 1
    BY PlacedNumbers
  <2>2. i'[k] = i[k] + 1
    BY <1>1
  <2> QED BY ONLY <1>1, <2>1, <2>2
<1>3. Fresh'
  <2>1. pc' = "scan" /\ r'[1] # 0 /\ r'[2] # 0
    <3>1. \A k \in Operand : i[k] \in Nat /\ r[k] \in Nat
      BY PlacedNumbers
    <3> QED BY <1>1, <3>1 DEF BothBuffered, Operand
  <2> QED BY <2>1 DEF Fresh, Operand
<1> QED BY <1>2, <1>3

LEMMA PlacedNext == Placed /\ [Next]_vars => Placed'
<1> SUFFICES ASSUME Placed, [Next]_vars PROVE Sync' /\ Fresh'
  BY TypedNext DEF Placed
<1>1. ASSUME UNCHANGED <<off, r, i, byte>> PROVE Sync'
  BY <1>1 DEF Placed, Sync
<1>2. ASSUME UNCHANGED <<off, r, i, byte, file>>,
             pc' \notin {"fill2", "scan", "eof"} \/ pc' = pc
      PROVE  Sync' /\ Fresh'
  <2>1. CASE pc' = pc
    BY <1>1, <1>2, <2>1 DEF Placed, Fresh, Behind
  <2>2. CASE pc' \notin {"fill2", "scan", "eof"}
    BY <1>1, <1>2, <2>2 DEF Fresh, Behind
  <2> QED BY <1>2, <2>1, <2>2
<1>3. ASSUME NEW k \in Operand, Open(k) PROVE Sync' /\ Fresh'
  BY <1>2, <1>3 DEF Open, inputs, streams, counters
<1>4. ASSUME NEW k \in Operand, NEW m \in ReadReturns(k), Refill(k, m)
      PROVE  Sync' /\ Fresh'
  BY <1>4, RefillSync, RefillFresh
<1>5. ASSUME NEW k \in Operand, KeepBuffer(k) PROVE Sync' /\ Fresh'
  BY <1>1, <1>5, KeepFresh DEF KeepBuffer, streams, counters
<1>6. CASE Match \/ List
  BY <1>6, AdvancePlaced DEF Match, List, inputs
<1>7. CASE ScanEnd
  <2>1. /\ UNCHANGED <<off, r, i, byte, file>>
        /\ pc = "scan"
        /\ pc' = IF r[1] # 0 /\ r[2] # 0 THEN "fill1" ELSE "eof"
    BY <1>7 DEF ScanEnd, inputs, streams, counters
  <2>2. CASE pc' = "fill1"
    BY <1>2, <2>1, <2>2
  <2>3. CASE pc' = "eof"
    <3>1. r[1] = 0 \/ r[2] = 0
      BY <2>1, <2>3
    <3> QED BY <1>1, <2>1, <2>3, <3>1 DEF Placed, Fresh, Behind, Operand
  <2> QED BY <2>1, <2>2, <2>3
<1>8. CASE Mismatch \/ SayEof \/ Flush \/ Exit
  BY <1>2, <1>8 DEF Mismatch, SayEof, Flush, Exit, inputs, streams, counters
<1>9. CASE \/ \E k \in Operand : OpenFails(k) \/ ReadFails(k)
           \/ WriteStatsFails \/ ListWriteFails \/ SayEofFails \/ FlushFails
           \/ CloseFails
  BY <1>2, <1>9 DEF OpenFails, ReadFails, WriteStatsFails, ListWriteFails,
    SayEofFails, FlushFails, CloseFails, ErrorExit, inputs, streams, counters
<1>10. CASE UNCHANGED vars
  BY <1>2, <1>10 DEF vars
<1> QED
  BY <1>3, <1>4, <1>5, <1>6, <1>7, <1>8, <1>9, <1>10 DEF Next

LEMMA AlwaysPlaced == Spec => []Placed
BY PlacedInit, PlacedNext, PTL DEF Spec

\* The two bytes that are compared are number byte of each stream.
LEMMA ComparesByte ==
  ASSUME Placed, BothBuffered, NEW k \in Operand
  PROVE  At(k) = file[k][byte] /\ byte \in 1..Len(file[k])
<1>1. i[k] < r[k]
  BY DEF BothBuffered, Operand
<1> QED BY <1>1, PlacedNumbers DEF At

\* Neither stream is shorter than what has been compared.
LEMMA WithinStreams ==
  ASSUME Placed, NEW k \in Operand PROVE byte - 1 <= Len(file[k])
BY PlacedNumbers

\* When the loop has ended, an empty buffer is that of a stream that has
\* been compared to its end, and the other stream is longer if its buffer is
\* not empty.
LEMMA EmptyBufferEndsStream ==
  ASSUME Placed, pc = "eof", NEW k \in Operand
  PROVE  /\ r[k] = 0 => byte - 1 = Len(file[k])
         /\ r[k] # 0 => byte - 1 < Len(file[k])
<1>1. /\ r[k] = 0 => off[k] = Len(file[k])
      /\ r[k] = 0 \/ i[k] < r[k]
  BY DEF Placed, Fresh, Behind, Operand
<1> QED BY <1>1, PlacedNumbers
-----------------------------------------------------------------------------
(***************************************************************************)
(* The first difference.  Without -l the bytes before the one looked at    *)
(* are the same in both streams, and line counts their newlines.           *)
(***************************************************************************)
Matched ==
  flag # "l" => /\ AgreeBefore(byte)
                /\ line = 1 + Cardinality(NewlinesBefore(byte))

\* The newlines before the next byte.
LEMMA NewlinesStep ==
  ASSUME NEW b \in Position
  PROVE  /\ Cardinality(NewlinesBefore(b)) \in Nat
         /\ Cardinality(NewlinesBefore(b + 1)) =
              IF file[1][b] = NL THEN Cardinality(NewlinesBefore(b)) + 1
                                 ELSE Cardinality(NewlinesBefore(b))
<1>1. IsFiniteSet(NewlinesBefore(b))
  <2>1. 1 \in Int /\ b - 1 \in Int
    BY DEF Position
  <2>2. IsFiniteSet(1..(b-1))
    BY ONLY <2>1, FS_Interval, Zenon
  <2>3. NewlinesBefore(b) \subseteq 1..(b-1)
    BY DEF NewlinesBefore
  <2> QED BY <2>2, <2>3, FS_Subset
<1>2. Cardinality(NewlinesBefore(b)) \in Nat
  BY <1>1, FS_CardinalityType
<1>3. 1..((b+1)-1) = (1..(b-1)) \union {b} /\ b \notin 1..(b-1)
  BY DEF Position
<1>4. CASE file[1][b] = NL
  <2>1. NewlinesBefore(b + 1) = NewlinesBefore(b) \union {b}
    BY <1>3, <1>4 DEF NewlinesBefore
  <2>2. b \notin NewlinesBefore(b)
    BY <1>3 DEF NewlinesBefore
  <2> QED BY <1>1, <1>2, <1>4, <2>1, <2>2, FS_AddElement
<1>5. CASE file[1][b] # NL
  <2>1. NewlinesBefore(b + 1) = NewlinesBefore(b)
    BY <1>3, <1>5 DEF NewlinesBefore
  <2> QED BY <1>2, <1>5, <2>1
<1> QED BY <1>4, <1>5

LEMMA MatchedInit == Init => Matched
<1> SUFFICES ASSUME Init PROVE Matched
  OBVIOUS
<1>1. byte = 1 /\ line = 1
  BY DEF Init
<1>2. NewlinesBefore(1) = {} /\ AgreeBefore(1)
  BY DEF NewlinesBefore, AgreeBefore
<1>3. Cardinality({}) = 0
  BY FS_EmptySet
<1> QED BY <1>1, <1>2, <1>3 DEF Matched

LEMMA MatchedNext == Placed /\ Matched /\ [Next]_vars => Matched'
<1> SUFFICES ASSUME Placed, Matched, [Next]_vars PROVE Matched'
  OBVIOUS
<1>1. CASE Match
  <2> SUFFICES ASSUME flag # "l"
               PROVE  AgreeBefore(byte)' /\ (line = 1 + Cardinality(NewlinesBefore(byte)))'
    BY <1>1 DEF Matched, Match, inputs
  <2>1. /\ file' = file /\ byte' = byte + 1
        /\ line' = IF At(1) = NL THEN line + 1 ELSE line
    BY <1>1 DEF Match, Advance, inputs
  <2>2. At(1) = file[1][byte] /\ file[1][byte] = file[2][byte]
    BY <1>1, ComparesByte DEF Match, Operand
  <2>3. byte \in Position
    BY DEF Placed, Typed, TypeOK
  <2>4. AgreeBefore(byte) /\ line = 1 + Cardinality(NewlinesBefore(byte))
    BY DEF Matched
  <2>5. AgreeBefore(byte)'
    BY <2>1, <2>2, <2>3, <2>4 DEF AgreeBefore, Position
  <2>6. NewlinesBefore(byte)' = NewlinesBefore(byte + 1)
    BY <2>1 DEF NewlinesBefore
  <2>7. line' = 1 + Cardinality(NewlinesBefore(byte + 1))
    BY <2>1, <2>2, <2>3, <2>4, NewlinesStep
  <2> QED BY <2>5, <2>6, <2>7
<1>2. CASE List
  BY <1>2 DEF List, Matched, inputs
<1>3. CASE ~Match /\ ~List
  <2>1. UNCHANGED <<file, flag, byte, line>>
    BY <1>3 DEF Next, vars, inputs, streams, counters, Open, OpenFails, Refill,
      KeepBuffer, ReadFails, Mismatch, WriteStatsFails, ListWriteFails, ScanEnd,
      SayEof, SayEofFails, Flush, FlushFails, Exit, CloseFails
  <2> QED BY <2>1 DEF Matched, AgreeBefore, NewlinesBefore
<1> QED BY <1>1, <1>2, <1>3

LEMMA AlwaysMatched == Spec => [](Placed /\ Matched)
BY PlacedInit, PlacedNext, MatchedInit, MatchedNext, PTL DEF Spec

\* For all streams, all buffer sizes and all ways the reads cut the streams,
\* the byte and the line cmp reports are those of the first difference.
THEOREM FirstDifferenceReported == Spec => []ReportsFirstDifference
<1>1. Init => ReportsFirstDifference
  BY DEF Init, ReportsFirstDifference
<1>2. Placed /\ Matched /\ ReportsFirstDifference /\ [Next]_vars
        => ReportsFirstDifference'
  <2> SUFFICES ASSUME Placed, Matched, ReportsFirstDifference, [Next]_vars
               PROVE  ReportsFirstDifference'
    OBVIOUS
  <2>1. CASE Mismatch
    <3>1. file' = file /\ stats' = IF flag = "none" THEN <<byte, line>> ELSE stats
      BY <2>1 DEF Mismatch, inputs
    <3>2. CASE flag = "none"
      <4>1. AgreeBefore(byte) /\ line = 1 + Cardinality(NewlinesBefore(byte))
        BY <3>2 DEF Matched
      <4>2. /\ file[1][byte] # file[2][byte]
            /\ byte <= Len(file[1]) /\ byte <= Len(file[2])
        BY <2>1, ComparesByte DEF Mismatch, Operand
      <4>3. stats' = <<byte, line>>
        BY <3>1, <3>2
      <4>4. stats'[1] = byte /\ stats'[2] = line
        BY <4>3
      <4> QED BY <3>1, <4>1, <4>2, <4>4
            DEF ReportsFirstDifference, AgreeBefore, NewlinesBefore
    <3>3. CASE flag # "none"
      BY <3>1, <3>3 DEF ReportsFirstDifference, AgreeBefore, NewlinesBefore
    <3> QED BY <3>2, <3>3
  <2>2. CASE ~Mismatch
    <3>1. UNCHANGED <<file, stats>>
      BY <2>2 DEF Next, vars, inputs, messages, Open, OpenFails, Refill,
        KeepBuffer, ReadFails, Match, WriteStatsFails, List, ListWriteFails,
        ScanEnd, SayEof, SayEofFails, Flush, FlushFails, Exit, CloseFails
    <3> QED BY <3>1 DEF ReportsFirstDifference, AgreeBefore, NewlinesBefore
  <2> QED BY <2>1, <2>2
<1> QED BY <1>1, <1>2, AlwaysMatched, PTL DEF Spec

\* For all streams and buffer sizes, the operand named by "EOF on" is the
\* shorter one, and without -l it is the beginning of the other.
THEOREM ShorterNamed == Spec => []EofNamesShorter
<1>1. Init => EofNamesShorter
  BY DEF Init, EofNamesShorter, Operand
<1>2. Placed /\ Matched /\ EofNamesShorter /\ [Next]_vars => EofNamesShorter'
  <2> SUFFICES ASSUME Placed, Matched, EofNamesShorter, [Next]_vars
               PROVE  EofNamesShorter'
    OBVIOUS
  <2>1. CASE SayEof
    <3>1. /\ file' = file /\ flag' = flag /\ pc = "eof"
          /\ eof' = IF OneEnded THEN (IF r[1] = 0 THEN 1 ELSE 2) ELSE eof
      BY <2>1 DEF SayEof, inputs
    <3>2. CASE OneEnded
      <4> SUFFICES ASSUME NEW k \in Operand, eof' = k
                   PROVE  /\ Len(file[k]) < Len(file[3-k])
                          /\ flag = "none" => AgreeBefore(Len(file[k]) + 1)
        BY <3>1 DEF EofNamesShorter, AgreeBefore
      <4>1. r[k] = 0 /\ r[3-k] # 0 /\ 3 - k \in Operand
        BY <3>1, <3>2 DEF OneEnded, Operand
      <4>2. byte - 1 = Len(file[k]) /\ byte - 1 < Len(file[3-k])
        BY <3>1, <4>1, EmptyBufferEndsStream
      <4>3. byte = Len(file[k]) + 1
        <5>1. byte \in Nat
          BY DEF Placed, Typed, TypeOK, Position
        <5> QED BY <4>2, <5>1
      <4>4. flag = "none" => AgreeBefore(byte)
        BY DEF Matched
      <4>5. Len(file[k]) < Len(file[3-k])
        BY <4>2
      <4> QED BY <4>3, <4>4, <4>5
    <3>3. CASE ~OneEnded
      BY <3>1, <3>3 DEF EofNamesShorter, AgreeBefore
    <3> QED BY <3>2, <3>3
  <2>2. CASE ~SayEof
    <3>1. UNCHANGED <<file, flag, eof>>
      BY <2>2 DEF Next, vars, inputs, messages, Open, OpenFails, Refill,
        KeepBuffer, ReadFails, Match, Mismatch, WriteStatsFails, List,
        ListWriteFails, ScanEnd, SayEofFails, Flush, FlushFails, Exit, CloseFails
    <3> QED BY <3>1 DEF EofNamesShorter, AgreeBefore
  <2> QED BY <2>1, <2>2
<1> QED BY <1>1, <1>2, AlwaysMatched, PTL DEF Spec
-----------------------------------------------------------------------------
(***************************************************************************)
(* The exit status.  ret says whether a difference lies before the next    *)
(* byte; once the scan is over there is none behind it.                    *)
(***************************************************************************)
DiffersBefore(b) == \E j \in 1..(b-1) : file[1][j] # file[2][j]

DiffersSomewhere == \E j \in 1..Len(file[1]) : j \in Differences

StatusIsWhetherTheyDiffer ==
  status \in {"zero", "one"} => (status = "one" <=> DiffersSomewhere)

Judged ==
  /\ pc \notin {"close", "exited"} => (ret = 1 <=> DiffersBefore(byte))
  /\ pc = "flush" => \A j \in Differences : j < byte
  /\ pc = "close" => (ret = 1 <=> DiffersSomewhere)
  /\ StatusIsWhetherTheyDiffer

\* A position already compared is one that both streams have.
LEMMA BeforeIsCommon ==
  ASSUME Placed, NEW j \in 1..(byte-1), file[1][j] # file[2][j]
  PROVE  j \in 1..Len(file[1]) /\ j \in Differences
<1>1. byte \in Nat /\ j \in Nat /\ j >= 1 /\ j <= byte - 1
  BY DEF Placed, Typed, TypeOK, Position
<1>2. byte - 1 <= Len(file[1]) /\ byte - 1 <= Len(file[2])
  BY WithinStreams DEF Operand
<1>3. Len(file[1]) \in Nat /\ Len(file[2]) \in Nat
  BY DEF Placed, Typed, TypeOK, Operand
<1> QED BY <1>1, <1>2, <1>3 DEF Differences, Position

LEMMA JudgedInit == Init => Judged
<1> SUFFICES ASSUME Init PROVE Judged
  OBVIOUS
<1>1. byte = 1 /\ ret = 0 /\ pc = "open1" /\ status = "running"
  BY DEF Init
<1>2. ~DiffersBefore(1)
  BY DEF DiffersBefore
<1> QED BY <1>1, <1>2 DEF Judged, StatusIsWhetherTheyDiffer

LEMMA JudgedNext == Placed /\ Judged /\ [Next]_vars => Judged'
<1> SUFFICES ASSUME Placed, Judged, [Next]_vars PROVE Judged'
  OBVIOUS
<1> USE DEF inputs, streams, counters, listing, messages
<1>0. byte \in Nat \ {0}
  BY DEF Placed, Typed, TypeOK, Position
<1>1. CASE Match \/ List
  <2>1. /\ BothBuffered /\ pc = "scan" /\ pc' = pc /\ file' = file
        /\ byte' = byte + 1 /\ status' = status
        /\ Match => ret' = ret /\ At(1) = At(2)
        /\ List => ret' = 1 /\ At(1) # At(2)
    BY <1>1 DEF Match, List, Advance, BothBuffered
  <2>2. At(1) = file[1][byte] /\ At(2) = file[2][byte]
    BY <2>1, ComparesByte DEF Operand
  <2>3. ret = 1 <=> DiffersBefore(byte)
    BY <2>1 DEF Judged
  <2>4. 1..((byte + 1) - 1) = (1..(byte - 1)) \union {byte}
    BY <1>0
  <2>5. DiffersBefore(byte)' <=>
          DiffersBefore(byte) \/ file[1][byte] # file[2][byte]
    BY <2>1, <2>4 DEF DiffersBefore
  <2>6. ret' = 1 <=> DiffersBefore(byte)'
    BY <1>1, <2>1, <2>2, <2>3, <2>5
  <2>7. StatusIsWhetherTheyDiffer'
    BY <2>1 DEF Judged, StatusIsWhetherTheyDiffer, DiffersSomewhere, Differences
  <2> QED BY <2>1, <2>6, <2>7 DEF Judged
<1>2. CASE Mismatch
  <2>1. /\ BothBuffered /\ At(1) # At(2) /\ file' = file /\ ret' = 1
        /\ pc' = "close" /\ status' = status
    BY <1>2 DEF Mismatch
  <2>2. /\ file[1][byte] # file[2][byte]
        /\ byte \in 1..Len(file[1]) /\ byte \in 1..Len(file[2])
    BY <2>1, ComparesByte DEF Operand
  <2>3. Len(file[1]) \in Nat /\ Len(file[2]) \in Nat
    BY DEF Placed, Typed, TypeOK, Operand
  <2>4. byte \in Differences
    BY <1>0, <2>2, <2>3 DEF Differences, Position
  <2>5. DiffersSomewhere'
    BY <2>1, <2>2, <2>4 DEF DiffersSomewhere, Differences
  <2>6. StatusIsWhetherTheyDiffer'
    BY <2>1 DEF Judged, StatusIsWhetherTheyDiffer, DiffersSomewhere, Differences
  <2> QED BY <2>1, <2>5, <2>6 DEF Judged
<1>3. CASE SayEof
  <2>1. /\ pc = "eof" /\ pc' = "flush" /\ file' = file /\ byte' = byte
        /\ ret' = ret /\ status' = status
    BY <1>3 DEF SayEof
  <2>2. PICK k \in Operand : r[k] = 0
    BY <2>1 DEF Placed, Fresh, Operand
  <2>3. byte - 1 = Len(file[k])
    BY <2>1, <2>2, EmptyBufferEndsStream
  <2>4. \A j \in Differences : j \in Nat /\ j <= Len(file[k])
    BY DEF Differences, Position, Operand
  <2>5. \A j \in Differences : j < byte
    BY <1>0, <2>3, <2>4
  <2>6. (\A j \in Differences : j < byte)'
    BY <2>1, <2>5 DEF Differences
  <2>7. (ret = 1 <=> DiffersBefore(byte))'
    BY <2>1 DEF Judged, DiffersBefore
  <2>8. StatusIsWhetherTheyDiffer'
    BY <2>1 DEF Judged, StatusIsWhetherTheyDiffer, DiffersSomewhere, Differences
  <2> QED BY <2>1, <2>6, <2>7, <2>8 DEF Judged
<1>4. CASE Flush
  <2>1. /\ pc = "flush" /\ pc' = "close" /\ file' = file
        /\ ret' = ret /\ status' = status
    BY <1>4 DEF Flush
  <2>2. ret = 1 <=> DiffersBefore(byte)
    BY <2>1 DEF Judged
  <2>3. \A j \in Differences : j < byte
    BY <2>1 DEF Judged
  <2>4. DiffersSomewhere => DiffersBefore(byte)
    <3>1. \A j \in Differences : j \in 1..(byte-1) /\ file[1][j] # file[2][j]
      BY <1>0, <2>3 DEF Differences, Position
    <3> QED BY <3>1 DEF DiffersSomewhere, DiffersBefore
  <2>5. DiffersBefore(byte) => DiffersSomewhere
    BY BeforeIsCommon DEF DiffersSomewhere, DiffersBefore
  <2>6. (ret = 1 <=> DiffersSomewhere)'
    BY <2>1, <2>2, <2>4, <2>5 DEF DiffersSomewhere, Differences
  <2>7. StatusIsWhetherTheyDiffer'
    BY <2>1 DEF Judged, StatusIsWhetherTheyDiffer, DiffersSomewhere, Differences
  <2> QED BY <2>1, <2>6, <2>7 DEF Judged
<1>5. CASE Exit
  <2>1. /\ pc = "close" /\ pc' = "exited" /\ file' = file
        /\ status' = IF ret = 0 THEN "zero" ELSE "one"
    BY <1>5 DEF Exit
  <2>2. ret = 1 <=> DiffersSomewhere
    BY <2>1 DEF Judged
  <2>3. ret \in {0, 1}
    BY DEF Placed, Typed, TypeOK
  <2>4. status' = "one" <=> DiffersSomewhere'
    BY <2>1, <2>2, <2>3 DEF DiffersSomewhere, Differences
  <2> QED BY <2>1, <2>4 DEF Judged, StatusIsWhetherTheyDiffer, DiffersSomewhere
<1>6. ASSUME ErrorExit PROVE Judged'
  BY <1>6 DEF ErrorExit, Judged, StatusIsWhetherTheyDiffer
<1>7. ASSUME UNCHANGED <<file, byte, ret, status>>,
             \/ pc' = pc
             \/ /\ pc \in {"open1", "open2", "fill1", "fill2", "scan"}
                /\ pc' \notin {"flush", "close", "exited"}
      PROVE  Judged'
  BY <1>7 DEF Judged, DiffersBefore, DiffersSomewhere, StatusIsWhetherTheyDiffer,
              Differences
<1>8. ASSUME NEW k \in Operand,
             \/ Open(k) \/ KeepBuffer(k)
             \/ \E m \in ReadReturns(k) : Refill(k, m)
      PROVE  Judged'
  BY <1>7, <1>8 DEF Open, OpenPc, KeepBuffer, Refill, FillPc, AfterFill
<1>9. CASE ScanEnd
  BY <1>7, <1>9 DEF ScanEnd
<1>10. CASE UNCHANGED vars
  BY <1>7, <1>10 DEF vars
<1> QED
  BY <1>1, <1>2, <1>3, <1>4, <1>5, <1>6, <1>8, <1>9, <1>10 DEF Next,
    OpenFails, ReadFails, WriteStatsFails, ListWriteFails, SayEofFails,
    FlushFails, CloseFails

\* For all streams and buffer sizes, cmp that ends without an error exits 1
\* when the streams differ at a position they both have, and 0 when they are
\* equal.
THEOREM StatusIsVerdict == Spec => []StatusTellsCommonPart
<1>1. Judged => StatusTellsCommonPart
  BY DEF Judged, StatusIsWhetherTheyDiffer, DiffersSomewhere, StatusTellsCommonPart, Differences
<1> QED BY <1>1, JudgedInit, JudgedNext, PlacedInit, PlacedNext, PTL DEF Spec
-----------------------------------------------------------------------------
(***************************************************************************)
(* The listing.  What has been written and what is still in bufout are,    *)
(* together and in this order, the differences before the next byte.       *)
(***************************************************************************)
Listing == out \o pend

Elements(s) == {s[j] : j \in 1..Len(s)}

CommonDifferences == {j \in 1..Len(file[1]) : j \in Differences}

Listed ==
  /\ io = 0 => pend = <<>>
  /\ flag = "l" /\ pc \notin {"close", "exited"} =>
       /\ Ascending(Listing)
       /\ Elements(Listing) = {j \in 1..(byte-1) : file[1][j] # file[2][j]}
  /\ flag = "l" /\ pc = "close" =>
       Ascending(out) /\ Elements(out) = CommonDifferences
  /\ pc # "exited" => status = "running"
  /\ ListsEveryDifference

\* Appending a greater element to an ascending sequence.
LEMMA AscendingAppend ==
  ASSUME NEW s \in Seq(Position), Ascending(s), NEW b \in Position,
         \A j \in Elements(s) : j < b
  PROVE  /\ Ascending(Append(s, b))
         /\ Elements(Append(s, b)) = Elements(s) \union {b}
<1> DEFINE t == Append(s, b)
<1>1. /\ Len(s) \in Nat /\ Len(t) = Len(s) + 1 /\ t[Len(s) + 1] = b
      /\ \A j \in 1..Len(s) : t[j] = s[j] /\ s[j] < b
  BY DEF Elements
<1>2. 1..Len(t) = (1..Len(s)) \union {Len(s) + 1}
  BY <1>1
<1>3. Ascending(t)
  <2> SUFFICES ASSUME NEW j \in 1..Len(t), NEW k \in 1..Len(t), j < k
               PROVE  t[j] < t[k]
    BY DEF Ascending
  <2>1. j \in 1..Len(s)
    BY <1>1, <1>2
  <2>2. CASE k \in 1..Len(s)
    BY <1>1, <2>1, <2>2 DEF Ascending
  <2>3. CASE k = Len(s) + 1
    BY <1>1, <2>1, <2>3
  <2> QED BY <1>2, <2>2, <2>3
<1>4. Elements(t) = Elements(s) \union {b}
  <2> HIDE DEF t
  <2> QED BY <1>1, <1>2 DEF Elements
<1> QED BY <1>3, <1>4

\* The line of a difference extends the listing, whether or not bufout is
\* written out first.
LEMMA ListExtends ==
  ASSUME Placed, List PROVE Listing' = Append(Listing, byte)
<1>1. out \in Seq(Position) /\ pend \in Seq(Position) /\ byte \in Position
  BY DEF Placed, Typed, TypeOK
<1>2. CASE OutputFull
  <2>1. out' = out \o pend /\ pend' = Append(<<>>, byte)
    BY <1>2 DEF List
  <2> QED BY <1>1, <2>1 DEF Listing
<1>3. CASE ~OutputFull
  <2>1. out' = out /\ pend' = Append(pend, byte)
    BY <1>3 DEF List
  <2> QED BY <1>1, <2>1 DEF Listing
<1> QED BY <1>2, <1>3

LEMMA ListedInit == Init => Listed
<1> SUFFICES ASSUME Init PROVE Listed
  OBVIOUS
<1>1. byte = 1 /\ pend = <<>> /\ out = <<>> /\ pc = "open1" /\ status = "running"
  BY DEF Init
<1>2. Listing = <<>>
  BY <1>1 DEF Listing
<1> QED BY <1>1, <1>2 DEF Listed, ListsEveryDifference, Ascending, Elements

LEMMA ListedNext == Placed /\ Judged /\ Listed /\ [Next]_vars => Listed'
<1> SUFFICES ASSUME Placed, Judged, Listed, [Next]_vars PROVE Listed'
  OBVIOUS
<1> USE DEF inputs, streams, counters, messages
<1>0. /\ byte \in Position /\ io \in Nat
      /\ out \in Seq(Position) /\ pend \in Seq(Position)
  BY DEF Placed, Typed, TypeOK
<1>1. CASE List
  <2>1. /\ BothBuffered /\ pc = "scan" /\ pc' = pc /\ file' = file
        /\ flag = "l" /\ flag' = flag
        /\ byte' = byte + 1 /\ status' = status /\ At(1) # At(2)
    BY <1>1 DEF List, Advance, BothBuffered
  <2>2. /\ file[1][byte] # file[2][byte]
    BY <2>1, ComparesByte DEF Operand
  <2>3. io' # 0
    <3>1. \A k \in Operand : At(k) \in Byte
      BY <2>1, AtRange DEF Placed
    <3>2. LineLen(byte, At(1), At(2)) \in Nat \ {0}
      BY <1>0, <3>1, LineLenRange DEF Operand, Position
    <3> QED BY <1>0, <1>1, <3>2 DEF List
  <2>4. /\ Ascending(Listing)
        /\ Elements(Listing) = {j \in 1..(byte-1) : file[1][j] # file[2][j]}
    BY <2>1 DEF Listed
  <2>5. Listing \in Seq(Position)
    BY <1>0 DEF Listing
  <2>6. \A j \in Elements(Listing) : j < byte
    BY <1>0, <2>4 DEF Position
  <2>7. /\ Ascending(Append(Listing, byte))
        /\ Elements(Append(Listing, byte)) = Elements(Listing) \union {byte}
    BY <1>0, <2>4, <2>5, <2>6, AscendingAppend
  <2>8. 1..((byte + 1) - 1) = (1..(byte - 1)) \union {byte}
    BY <1>0 DEF Position
  <2>9. {j \in 1..((byte+1)-1) : file[1][j] # file[2][j]}
          = {j \in 1..(byte-1) : file[1][j] # file[2][j]} \union {byte}
    BY <2>2, <2>8
  <2>10. Ascending(Listing')
    BY <1>1, <2>7, ListExtends
  <2>11. Elements(Listing') = {j \in 1..((byte+1)-1) : file[1][j] # file[2][j]}
    BY <1>1, <2>4, <2>7, <2>9, ListExtends
  <2>12. ListsEveryDifference'
    BY <2>1 DEF Listed, ListsEveryDifference, Differences
  <2>13. (flag = "l" /\ pc = "close" =>
            Ascending(out) /\ Elements(out) = CommonDifferences)'
    BY <2>1
  <2> QED BY <2>1, <2>3, <2>10, <2>11, <2>12, <2>13 DEF Listed, Elements
<1>2. CASE Match
  <2>1. /\ BothBuffered /\ pc = "scan" /\ pc' = pc /\ file' = file
        /\ flag' = flag /\ byte' = byte + 1 /\ status' = status
        /\ io' = io /\ pend' = pend /\ out' = out /\ At(1) = At(2)
    BY <1>2 DEF Match, Advance, BothBuffered, listing
  <2>2. file[1][byte] = file[2][byte]
    BY <2>1, ComparesByte DEF Operand
  <2>3. 1..((byte + 1) - 1) = (1..(byte - 1)) \union {byte}
    BY <1>0 DEF Position
  <2>4. {j \in 1..((byte+1)-1) : file[1][j] # file[2][j]}
          = {j \in 1..(byte-1) : file[1][j] # file[2][j]}
    BY <2>2, <2>3
  <2>5. ListsEveryDifference'
    BY <2>1 DEF Listed, ListsEveryDifference, Differences
  <2> QED BY <2>1, <2>4, <2>5 DEF Listed, Listing, Ascending, Elements
<1>3. CASE Flush
  <2>1. /\ pc = "flush" /\ pc' = "close" /\ file' = file /\ flag' = flag
        /\ status' = status
        /\ out' = IF io # 0 THEN out \o pend ELSE out
        /\ pend' = IF io # 0 THEN <<>> ELSE pend
    BY <1>3 DEF Flush
  <2>2. pend' = <<>> /\ out' = Listing
    BY <1>0, <2>1 DEF Listed, Listing
  <2>3. {j \in 1..(byte-1) : file[1][j] # file[2][j]} = CommonDifferences
    <3>1. \A j \in CommonDifferences : j \in 1..(byte-1) /\ file[1][j] # file[2][j]
      <4>1. \A j \in Differences : j < byte
        BY <2>1 DEF Judged
      <4> QED BY <1>0, <4>1 DEF CommonDifferences, Differences, Position
    <3>2. \A j \in 1..(byte-1) : file[1][j] # file[2][j] => j \in CommonDifferences
      BY BeforeIsCommon DEF CommonDifferences
    <3> QED BY <3>1, <3>2 DEF CommonDifferences
  <2>4. flag = "l" => Ascending(out') /\ Elements(out') = CommonDifferences
    BY <2>1, <2>2, <2>3 DEF Listed
  <2>5. CommonDifferences' = CommonDifferences
    BY <2>1 DEF CommonDifferences, Differences
  <2>6. ListsEveryDifference'
    BY <2>1, <2>4, <2>5 DEF ListsEveryDifference, CommonDifferences, Elements,
                            Ascending
  <2> QED BY <2>1, <2>2, <2>4, <2>5, <2>6 DEF Listed, Ascending, Elements
<1>4. CASE Exit
  <2>1. /\ pc = "close" /\ pc' = "exited" /\ UNCHANGED <<file, flag, out, io, pend>>
    BY <1>4 DEF Exit, listing
  <2>2. flag = "l" => Ascending(out) /\ Elements(out) = CommonDifferences
    BY <2>1 DEF Listed
  <2>3. ListsEveryDifference'
    BY <2>1, <2>2 DEF ListsEveryDifference, Ascending, Elements,
                      CommonDifferences, Differences
  <2> QED BY <2>1, <2>3 DEF Listed
<1>5. CASE Mismatch
  <2>1. /\ flag # "l" /\ UNCHANGED <<file, flag, out, io, pend, status>>
        /\ pc = "scan"
    BY <1>5 DEF Mismatch, BothBuffered, listing
  <2> QED BY <2>1 DEF Listed, ListsEveryDifference
<1>6. ASSUME ErrorExit, UNCHANGED <<io, pend>> PROVE Listed'
  BY <1>6 DEF ErrorExit, Listed, ListsEveryDifference
<1>7. ASSUME UNCHANGED <<file, flag, byte, io, pend, out, status>>,
             \/ pc' = pc
             \/ pc \notin {"close", "exited"} /\ pc' \notin {"close", "exited"}
      PROVE  Listed'
  BY <1>7 DEF Listed, Listing, ListsEveryDifference, CommonDifferences,
              Differences, Ascending, Elements
<1>8. ASSUME NEW k \in Operand,
             \/ Open(k) \/ KeepBuffer(k)
             \/ \E m \in ReadReturns(k) : Refill(k, m)
      PROVE  Listed'
  BY <1>7, <1>8 DEF Open, OpenPc, KeepBuffer, Refill, FillPc, AfterFill, listing
<1>9. CASE ScanEnd \/ SayEof
  BY <1>7, <1>9 DEF ScanEnd, SayEof, listing
<1>10. CASE UNCHANGED vars
  BY <1>7, <1>10 DEF vars
<1> QED
  BY <1>1, <1>2, <1>3, <1>4, <1>5, <1>6, <1>8, <1>9, <1>10 DEF Next, listing,
    OpenFails, ReadFails, WriteStatsFails, ListWriteFails, SayEofFails,
    FlushFails, CloseFails

\* For all streams and buffer sizes, cmp -l that ends without an error has
\* written every differing position once and in order.
THEOREM EveryDifferenceListed == Spec => []ListsEveryDifference
<1>1. Listed => ListsEveryDifference
  BY DEF Listed
<1> QED BY <1>1, JudgedInit, JudgedNext, PlacedInit, PlacedNext, ListedInit,
           ListedNext, PTL DEF Spec
-----------------------------------------------------------------------------
(***************************************************************************)
(* Cmp implements StreamCompare for every set of streams and every buffer  *)
(* size: the bytes in bufout count as listed, and a step that only moves   *)
(* bytes between a stream and a buffer changes nothing.                    *)
(***************************************************************************)
\* "EOF on" is said after the loop only.
EofUnsaid == pc \notin {"flush", "close", "exited"} => eof = 0

Simulated == Placed /\ Judged /\ Listed /\ EofUnsaid

LEMMA SimulatedInit == Init => Simulated
BY PlacedInit, JudgedInit, ListedInit DEF Simulated, Init, EofUnsaid

LEMMA SimulatedNext == Simulated /\ [Next]_vars => Simulated'
<1> SUFFICES ASSUME EofUnsaid, [Next]_vars PROVE EofUnsaid'
  BY PlacedNext, JudgedNext, ListedNext DEF Simulated
<1> USE DEF EofUnsaid, messages
<1>1. ASSUME NEW k \in Operand,
             \/ Open(k) \/ KeepBuffer(k)
             \/ \E m \in ReadReturns(k) : Refill(k, m)
      PROVE  EofUnsaid'
  BY <1>1 DEF Open, OpenPc, KeepBuffer, Refill, FillPc, AfterFill
<1>2. ASSUME ErrorExit PROVE EofUnsaid'
  BY <1>2 DEF ErrorExit
<1>3. CASE Match \/ List \/ ScanEnd
  BY <1>3 DEF Match, List, BothBuffered, ScanEnd
<1>4. CASE Mismatch \/ SayEof \/ Flush \/ Exit \/ UNCHANGED vars
  BY <1>4 DEF Mismatch, SayEof, Flush, Exit, vars
<1> QED
  BY <1>1, <1>2, <1>3, <1>4 DEF Next, OpenFails, ReadFails, WriteStatsFails,
    ListWriteFails, SayEofFails, FlushFails, CloseFails

LEMMA StepRefines ==
  Simulated /\ [Next]_vars => [Compare!Next]_(Compare!vars)
<1> SUFFICES ASSUME Simulated, [Next]_vars
             PROVE  Compare!Next \/ UNCHANGED Compare!vars
  OBVIOUS
<1> USE DEF inputs, streams, counters, listing, messages
<1>0. /\ byte \in Nat \ {0} /\ io \in Nat
      /\ out \in Seq(Position) /\ pend \in Seq(Position)
      /\ pc # "exited" => status = "running"
      /\ io = 0 => pend = <<>>
      /\ Placed
  BY DEF Simulated, Placed, Typed, TypeOK, Listed, Position
<1>1. CASE Match
  <2>1. /\ BothBuffered /\ pc = "scan" /\ pc' = pc /\ byte' = byte + 1
        /\ At(1) = At(2) /\ line' = IF At(1) = NL THEN line + 1 ELSE line
        /\ UNCHANGED <<file, flag, out, pend, stats, eof, ret, status>>
    BY <1>1 DEF Match, Advance, BothBuffered
  <2>2. /\ At(1) = file[1][byte] /\ At(2) = file[2][byte]
        /\ Len(file[1]) # byte - 1 /\ Len(file[2]) # byte - 1
    BY <1>0, <2>1, ComparesByte DEF Operand
  <2>3. (byte - 1) + 1 = byte /\ byte' - 1 = (byte - 1) + 1
    BY <1>0, <2>1
  <2>4. Compare!Agree
    BY <1>0, <2>1, <2>2, <2>3
       DEF Compare!Agree, Compare!BothHaveNext, Compare!Ended
  <2> QED BY <2>4 DEF Compare!Next
<1>2. CASE List
  <2>1. /\ BothBuffered /\ pc = "scan" /\ pc' = pc /\ byte' = byte + 1
        /\ At(1) # At(2) /\ flag = "l" /\ ret' = 1
        /\ UNCHANGED <<file, flag, line, stats, eof, status>>
    BY <1>2 DEF List, Advance, BothBuffered
  <2>2. /\ At(1) = file[1][byte] /\ At(2) = file[2][byte]
        /\ Len(file[1]) # byte - 1 /\ Len(file[2]) # byte - 1
    BY <1>0, <2>1, ComparesByte DEF Operand
  <2>3. (byte - 1) + 1 = byte /\ byte' - 1 = (byte - 1) + 1
    BY <1>0, <2>1
  <2>4. out' \o pend' = Append(out \o pend, byte)
    BY <1>0, <1>2, ListExtends DEF Listing
  <2>5. Compare!DifferAndList
    BY <1>0, <2>1, <2>2, <2>3, <2>4
       DEF Compare!DifferAndList, Compare!BothHaveNext, Compare!Ended
  <2> QED BY <2>5 DEF Compare!Next
<1>3. CASE Mismatch
  <2>1. /\ BothBuffered /\ pc = "scan" /\ pc' = "close" /\ At(1) # At(2)
        /\ flag # "l" /\ ret' = 1
        /\ stats' = IF flag = "none" THEN <<byte, line>> ELSE stats
        /\ UNCHANGED <<file, flag, byte, line, out, pend, eof, status>>
    BY <1>3 DEF Mismatch, BothBuffered
  <2>2. /\ At(1) = file[1][byte] /\ At(2) = file[2][byte]
        /\ Len(file[1]) # byte - 1 /\ Len(file[2]) # byte - 1
    BY <1>0, <2>1, ComparesByte DEF Operand
  <2>3. (byte - 1) + 1 = byte
    BY <1>0
  <2>4. Compare!DifferAndStop
    BY <1>0, <2>1, <2>2, <2>3
       DEF Compare!DifferAndStop, Compare!BothHaveNext, Compare!Ended
  <2> QED BY <2>4 DEF Compare!Next
<1>4. CASE SayEof
  <2>1. /\ pc = "eof" /\ pc' = "flush"
        /\ eof' = IF OneEnded THEN (IF r[1] = 0 THEN 1 ELSE 2) ELSE eof
        /\ UNCHANGED <<file, flag, byte, line, out, pend, stats, ret, status>>
    BY <1>4 DEF SayEof
  <2>2. \A k \in Operand : r[k] = 0 <=> Len(file[k]) = byte - 1
    <3>1. \A k \in Operand : Len(file[k]) \in Nat
      BY <1>0 DEF Placed, Typed, TypeOK
    <3> QED BY <1>0, <2>1, <3>1, EmptyBufferEndsStream
  <2>3. r[1] = 0 \/ r[2] = 0
    BY <1>0, <2>1 DEF Placed, Fresh
  <2>4. eof = 0
    BY <2>1 DEF Simulated, EofUnsaid
  <2>5. eof' = IF flag = "s" \/ (Len(file[1]) = byte - 1 /\ Len(file[2]) = byte - 1)
               THEN 0 ELSE IF Len(file[1]) = byte - 1 THEN 1 ELSE 2
    BY <2>1, <2>2, <2>3, <2>4 DEF OneEnded, Operand
  <2>6. Compare!End
    BY <1>0, <2>1, <2>2, <2>3, <2>5
       DEF Compare!End, Compare!BothHaveNext, Compare!Ended, Operand
  <2> QED BY <2>6 DEF Compare!Next
<1>5. CASE Flush
  <2>1. /\ pc = "flush" /\ pc' = "close"
        /\ out' = IF io # 0 THEN out \o pend ELSE out
        /\ pend' = IF io # 0 THEN <<>> ELSE pend
        /\ UNCHANGED <<file, flag, byte, line, stats, eof, ret, status>>
    BY <1>5 DEF Flush
  <2>2. out' \o pend' = out \o pend
    <3>1. CASE io # 0
      <4>1. (out \o pend) \o <<>> = out \o pend
        BY <1>0
      <4> QED BY <2>1, <3>1, <4>1
    <3>2. CASE io = 0
      BY <1>0, <2>1, <3>2
    <3> QED BY <3>1, <3>2
  <2> QED BY <1>0, <2>1, <2>2 DEF Compare!vars
<1>6. CASE Exit
  <2>1. /\ pc = "close" /\ pc' = "exited" /\ status' \in {"zero", "one"}
        /\ UNCHANGED <<file, flag, byte, line, out, pend, stats, eof, ret>>
    BY <1>6 DEF Exit
  <2> QED BY <1>0, <2>1 DEF Compare!vars
<1>7. ASSUME ErrorExit, pc # "exited",
             UNCHANGED <<file, flag, byte, line, out, pend, stats, eof, ret>>
      PROVE  Compare!Fail
  BY <1>0, <1>7 DEF ErrorExit, Compare!Fail
<1>8. CASE \E k \in Operand : OpenFails(k) \/ ReadFails(k)
  BY <1>7, <1>8 DEF OpenFails, OpenPc, ReadFails, FillPc, Compare!Next
<1>9. CASE WriteStatsFails \/ ListWriteFails \/ SayEofFails \/ FlushFails
             \/ CloseFails
  BY <1>7, <1>9 DEF WriteStatsFails, ListWriteFails, SayEofFails, FlushFails,
    CloseFails, BothBuffered, Compare!Next
<1>10. ASSUME UNCHANGED <<file, flag, byte, line, out, pend, stats, eof, ret,
                          status>>,
              \/ pc' = pc
              \/ /\ pc \notin {"flush", "close", "exited"}
                 /\ pc' \notin {"flush", "close", "exited"}
       PROVE  UNCHANGED Compare!vars
  BY <1>10 DEF Compare!vars
<1>11. ASSUME NEW k \in Operand,
              \/ Open(k) \/ KeepBuffer(k)
              \/ \E m \in ReadReturns(k) : Refill(k, m)
       PROVE  UNCHANGED Compare!vars
  BY <1>10, <1>11 DEF Open, OpenPc, KeepBuffer, Refill, FillPc, AfterFill
<1>12. CASE ScanEnd
  BY <1>10, <1>12 DEF ScanEnd
<1>13. CASE UNCHANGED vars
  BY <1>10, <1>13 DEF vars
<1> QED
  BY <1>1, <1>2, <1>3, <1>4, <1>5, <1>6, <1>8, <1>9, <1>11, <1>12, <1>13
     DEF Next

\* For all streams and buffer sizes, cmp behaves as the comparison of the two
\* streams position by position.
THEOREM Refines == Spec => ComparesStreams
<1>1. Init => Compare!Init
  BY DEF Init, Compare!Init
<1> QED BY <1>1, SimulatedInit, SimulatedNext, StepRefines, PTL
        DEF Spec, ComparesStreams, Compare!Spec
=============================================================================
