--------------------------------- MODULE Wc ---------------------------------
(***************************************************************************)
(* wc.c: count newlines, words and bytes or characters of each operand.    *)
(* A character may be cut by a read, so the last bytes of a buffer, fewer  *)
(* than MB_CUR_MAX, are moved to its front and looked at again behind the  *)
(* next read; what is left at the end of the stream gets a loop of its own.*)
(*                                                                         *)
(* The buffer is a window on the stream: of the got bytes read so far, the *)
(* last r are in the buffer and not yet looked at.                         *)
(***************************************************************************)
EXTENDS Naturals, Sequences, FiniteSets

CONSTANTS
  Given,       \* the lists of operands, each as what it holds
  Mode,        \* which of -c and -m is in force: "c", "m" or "none"
  MBCurMax,    \* MB_CUR_MAX; characters of up to two bytes are modelled
  BufSize      \* sizeof(buf)

WcAssumption ==
  /\ Given \subseteq Seq(Seq(0..255))
  /\ Mode \subseteq {"c", "m", "none"}
  /\ MBCurMax \in Nat \ {0, 1}
  /\ BufSize \in Nat /\ BufSize >= MBCurMax

VARIABLES
  args, mode,
  cur,        \* the operand argv points to
  got,        \* bytes, the number of bytes read
  r,          \* the bytes in the buffer still to be looked at (r, then prev)
  chars, newline, words, word,
  tbytes, tnewline, twords,
  rows,       \* write_stats: << operand, newlines, words, bytes or chars >>
  ret, pc, status

given == <<args, mode>>
totals == <<tbytes, tnewline, twords, rows>>
counts == <<chars, newline, words, word>>
vars == <<given, cur, got, r, counts, totals, ret, pc, status>>

TOTAL == 0   \* stands for an operand in the row of the totals

Init ==
  /\ args \in Given
  /\ mode \in Mode
  /\ cur = 1 /\ got = 0 /\ r = 0
  /\ chars = 0 /\ newline = 0 /\ words = 0 /\ word = FALSE
  /\ tbytes = 0 /\ tnewline = 0 /\ twords = 0 /\ rows = <<>>
  /\ ret = 0 /\ pc = "open" /\ status = "running"

More == cur <= Len(args)
Stream == args[cur]
-----------------------------------------------------------------------------
Open ==
  /\ pc = "open" /\ More
  /\ got' = 0 /\ r' = 0
  /\ chars' = 0 /\ newline' = 0 /\ words' = 0 /\ word' = FALSE
  /\ pc' = "read"
  /\ UNCHANGED <<given, cur, totals, ret, status>>

\* An operand that cannot be opened is skipped.
OpenFails ==
  /\ pc = "open" /\ More
  /\ ret' = 1 /\ cur' = cur + 1
  /\ UNCHANGED <<given, got, r, counts, totals, pc, status>>

\* Bytes are read behind the r bytes kept.
Room == BufSize - r

Read(m) ==
  /\ pc = "read" /\ m \in 1..Room /\ got + m <= Len(Stream)
  /\ got' = got + m /\ r' = r + m
  /\ pc' = "scan"
  /\ UNCHANGED <<given, cur, counts, totals, ret, status>>

ReadEnd ==
  /\ pc = "read" /\ got = Len(Stream)
  /\ pc' = "tail"
  /\ UNCHANGED <<given, cur, got, r, counts, totals, ret, status>>

ReadFails ==
  /\ pc = "read"
  /\ pc' = "exited" /\ status' = "error"
  /\ UNCHANGED <<given, cur, got, r, counts, totals, ret>>
-----------------------------------------------------------------------------
(***************************************************************************)
(* Looking at one character.                                               *)
(***************************************************************************)
Space(b) == b = 32 \/ b \in 9..13

\* UTF-8, external: one byte below 128, or a lead and a continuation byte.
Lead(b) == b \in 194..223
Cont(b) == b \in 128..191
CodeOf(b, c) == (b % 32) * 64 + (c % 64)

\* A character seen with n bytes left in the buffer: how many bytes it has,
\* 0 when there is none, and the bytes of the wchar_t it becomes.
Character(bytes, value) == [len |-> bytes, value |-> value]

\* mbtoc: the next byte (-c).
mbtoc(b) == Character(1, <<b>>)

\* mbtowc, external: NUL has length 0 and a bad or a cut sequence -1, here
\* the values "nul" and "bad" of len 1.
mbtowc(s, j, n) ==
  IF s[j] < 128 THEN Character(1, <<s[j]>>)
  ELSE IF n > 1 /\ Lead(s[j]) /\ Cont(s[j+1])
       THEN LET code == CodeOf(s[j], s[j+1])
            IN Character(2, <<code % 256, code \div 256>>)
  ELSE Character(0, <<>>)

Position == got - r + 1

Char == IF mode = "c" THEN mbtoc(Stream[Position])
        ELSE mbtowc(Stream, Position, r)

\* What one character does to word and words: a bad byte ends a word, and so
\* does NUL, which then begins one; the bytes of the wchar_t are looked at
\* one by one.
Marks(ch, isNul) ==
  IF ch.len = 0 THEN <<TRUE>>
  ELSE (IF isNul THEN <<TRUE>> ELSE <<>>)
       \o [j \in 1..ch.len |-> Space(ch.value[j])]

\* The word flag after marks s, and how many words they end.
InWord(w, s) == IF s = <<>> THEN w ELSE ~s[Len(s)]
WordsEnded(w, s) ==
  Cardinality({j \in 1..Len(s) : s[j] /\ IF j = 1 THEN w ELSE ~s[j-1]})

\* One turn of the inner loop.
Step ==
  LET ch == Char
      isNul == mode # "c" /\ Stream[Position] = 0
      marks == Marks(ch, isNul)
  IN /\ words' = words + WordsEnded(word, marks)
     /\ word' = InWord(word, marks)
     /\ newline' = newline + (IF ch.value = <<10>> THEN 1 ELSE 0)
     /\ chars' = chars + (IF mode = "m" /\ ch.len > 0 THEN 1 ELSE 0)
     /\ r' = r - (IF ch.len = 0 THEN 1 ELSE ch.len)

\* The loop over a buffer stops when the next character may be cut.
Enough_OneByte == r >= 1
Enough == r >= MBCurMax

Scan ==
  /\ pc = "scan" /\ Enough
  /\ Step
  /\ UNCHANGED <<given, cur, got, totals, ret, pc, status>>

\* The bytes that are left move to the front of the buffer.
Keep ==
  /\ pc = "scan" /\ ~Enough
  /\ pc' = "read"
  /\ UNCHANGED <<given, cur, got, r, counts, totals, ret, status>>

\* After the end of the stream, the bytes kept.
ScanTail ==
  /\ pc = "tail" /\ r > 0
  /\ Step
  /\ UNCHANGED <<given, cur, got, totals, ret, pc, status>>

Size == IF mode = "c" THEN got ELSE chars

Report ==
  /\ pc = "tail" /\ r = 0
  /\ rows' = Append(rows, <<cur, newline, words, Size>>)
  /\ tnewline' = tnewline + newline
  /\ twords' = twords + words
  /\ tbytes' = tbytes + Size
  /\ cur' = cur + 1 /\ pc' = "open"
  /\ UNCHANGED <<given, got, r, counts, ret, status>>

\* With more than one operand, the totals.
Exit ==
  /\ pc = "open" /\ ~More
  /\ rows' = IF Len(args) > 1
             THEN Append(rows, <<TOTAL, tnewline, twords, tbytes>>) ELSE rows
  /\ pc' = "exited"
  /\ status' = IF ret = 0 THEN "zero" ELSE "one"
  /\ UNCHANGED <<given, cur, got, r, counts, tbytes, tnewline, twords, ret>>

Next ==
  \/ Open \/ OpenFails
  \/ \E m \in 1..BufSize : Read(m)
  \/ ReadEnd \/ ReadFails \/ Scan \/ Keep \/ ScanTail \/ Report \/ Exit

Spec == Init /\ [][Next]_vars
-----------------------------------------------------------------------------
(***************************************************************************)
(* The counts, defined on a whole stream.                                  *)
(***************************************************************************)
PairAt(s, j) == j \in 1..(Len(s)-1) /\ Lead(s[j]) /\ Cont(s[j+1])

Newlines(s) == Cardinality({j \in 1..Len(s) : s[j] = 10})
Characters(s) == Cardinality({j \in 1..Len(s) : s[j] < 128 \/ PairAt(s, j)})

\* The marks position j leaves: none for the second byte of a character.
MarksAt(s, j, m) ==
  IF m = "c" THEN <<Space(s[j])>>
  ELSE IF PairAt(s, j-1) THEN <<>>
  ELSE IF PairAt(s, j) THEN LET c == CodeOf(s[j], s[j+1])
                            IN <<Space(c % 256), Space(c \div 256)>>
  ELSE IF s[j] > 127 THEN <<TRUE>>
  ELSE IF s[j] = 0 THEN <<TRUE, FALSE>>
  ELSE <<Space(s[j])>>

MarksOf(s, m) ==
  LET marks[j \in 0..Len(s)] ==
        IF j = 0 THEN <<>> ELSE marks[j-1] \o MarksAt(s, j, m)
  IN marks[Len(s)]

\* Ends of words: a mark behind something that is not one.
Words(s, m) == WordsEnded(FALSE, MarksOf(s, m))

\* Words as POSIX has them (-c): maximal runs without white space.
WordRuns(s) ==
  Cardinality({j \in 1..Len(s) : ~Space(s[j]) /\ (j = 1 \/ Space(s[j-1]))})
-----------------------------------------------------------------------------
(***************************************************************************)
(* What is true of it.                                                     *)
(***************************************************************************)
SumOf(c) ==
  LET sum[j \in 0..Len(rows)] ==
        IF j = 0 THEN 0
        ELSE sum[j-1] + (IF rows[j][1] = TOTAL THEN 0 ELSE rows[j][c])
  IN sum[Len(rows)]

\* Wherever reads cut the stream, inside a character or not, the counts of a
\* row are those of the whole stream (wc.c:76-155, where bytes and an open word
\* are carried from one read to the next and into the last loop).  The words
\* are those wc ends: with -c the runs of bytes that are not blank, but for a
\* run that the end of the stream ends.  The last row is the sum of the others,
\* of those operands that could be opened (wc.c:158-161, 210).
CountsWholeStream ==
  /\ \A j \in 1..Len(rows) : rows[j][1] # TOTAL =>
       LET s == args[rows[j][1]] IN
         /\ rows[j][2] = Newlines(s)
         /\ rows[j][3] = Words(s, mode)
         /\ mode = "c" /\ s # <<>> =>
              rows[j][3] = WordRuns(s) - (IF Space(s[Len(s)]) THEN 0 ELSE 1)
         /\ rows[j][4] = IF mode = "c" THEN Len(s)
                         ELSE IF mode = "m" THEN Characters(s) ELSE 0
  /\ \A j \in 1..Len(rows) : rows[j][1] = TOTAL =>
       \A c \in 2..4 : rows[j][c] = SumOf(c)
=============================================================================
