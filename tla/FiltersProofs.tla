--------------------------- MODULE FiltersProofs ---------------------------
(***************************************************************************)
(* Theorems about head, cat and wc in Filters, for every size of the queue *)
(* and the buffers, every number of operands, all contents and wherever    *)
(* reads cut them.                                                         *)
(***************************************************************************)
EXTENDS Filters, Recursion, SequenceTheorems, TLAPS

HeadRuns == prog = "head"

\* While head runs, its own steps are the only ones.
LEMMA HeadSteps ==
  ASSUME [Next]_vars, HeadRuns'
  PROVE  HeadRuns /\ [H!Next]_(H!vars)
<1>1. CASE HeadStep
  BY <1>1 DEF HeadStep, HeadRuns
<1>2. CASE CatStep \/ WcStep \/ HandOver
  BY <1>2 DEF CatStep, WcStep, HandOver, HeadRuns
<1>3. CASE UNCHANGED vars
  BY <1>3 DEF vars, sharedVars, headVars, HeadRuns, H!vars, H!given,
    H!place, H!queue, H!result
<1> QED BY <1>1, <1>2, <1>3 DEF Next
-----------------------------------------------------------------------------
\* What is queued are parts of headers.
Queued ==
  /\ cur \in Nat /\ part \in Int
  /\ iov \in Seq(Nat \X Int)
  /\ H!QueueHasRoom

LEMMA QueuedInit == H!HeadAssumption /\ H!Init => Queued
BY DEF H!HeadAssumption, H!Init, Queued, H!QueueHasRoom

LEMMA QueuedNext ==
  H!HeadAssumption /\ Queued /\ [H!Next]_(H!vars) => Queued'
<1> SUFFICES ASSUME H!HeadAssumption, Queued, [H!Next]_(H!vars) PROVE Queued'
  OBVIOUS
<1> USE DEF Queued, H!QueueHasRoom, H!place, H!queue
<1>0. IovSize \in Nat \ {0}
  BY DEF H!HeadAssumption
<1>1. ASSUME UNCHANGED <<cur, iov>>, part' = part PROVE Queued'
  BY <1>1
<1>2. ASSUME UNCHANGED <<cur, part>>, iov' = <<>> PROVE Queued'
  BY <1>0, <1>2
<1>3. CASE H!RejectOptions \/ H!OpenFails \/ H!ReadEnd \/ H!ReadFails
           \/ H!Exit \/ H!WriteFails
  <2>1. UNCHANGED <<H!place, H!queue>>
    BY <1>3 DEF H!RejectOptions, H!OpenFails, H!ReadEnd, H!ReadFails, H!Exit,
      H!WriteFails, H!ErrorExit
  <2> QED BY <1>1, <2>1
<1>4. CASE H!Start
  BY <1>1, <1>4 DEF H!Start
<1>5. CASE H!Open
  BY <1>5 DEF H!Open
<1>6. CASE H!QueuePart
  <2>1. cur' = cur /\ part' \in Int
    BY <1>6 DEF H!QueuePart
  <2>2. CASE H!QueueFull
    <3>1. iov' = <<>>
      BY <1>6, <2>2 DEF H!QueuePart
    <3> QED BY <1>0, <2>1, <3>1
  <2>3. CASE ~H!QueueFull
    <3>1. iov' = Append(iov, <<cur, part>>)
      BY <1>6, <2>3 DEF H!QueuePart
    <3>2. iov' \in Seq(Nat \X Int) /\ Len(iov') = Len(iov) + 1
      BY <3>1
    <3>3. Len(iov) + 1 < IovSize
      <4>1. Len(iov) \in Nat
        OBVIOUS
      <4> QED BY <1>0, <2>3, <4>1 DEF H!QueueFull
    <3> QED BY <2>1, <3>2, <3>3
  <2> QED BY <2>2, <2>3
<1>7. CASE H!ReadyToRead
  <2>1. UNCHANGED <<cur, part>> /\ (iov' = <<>> \/ iov' = iov)
    BY <1>7 DEF H!ReadyToRead
  <2> QED BY <1>1, <1>2, <2>1
<1>8. ASSUME NEW m \in 1..BufSize, H!ReadChunk(m) PROVE Queued'
  BY <1>2, <1>8 DEF H!ReadChunk
<1>9. CASE H!NextOperand
  <2>1. UNCHANGED <<part, iov>> /\ (cur' = cur + 1 \/ cur' = cur)
    BY <1>9 DEF H!NextOperand
  <2> QED BY <2>1
<1>10. CASE UNCHANGED H!vars
  BY <1>1, <1>10 DEF H!vars
<1> QED
  BY <1>3, <1>4, <1>5, <1>6, <1>7, <1>8, <1>9, <1>10 DEF H!Next

\* For every size of head's array, a header string and the data that follow the
\* queued strings (head.c:69-70, 96-97) are stored inside of it.
THEOREM QueueNeverOverruns == Spec => []QueueHasRoom
<1> DEFINE Inv == HeadRuns => Queued
<1>1. Init => Inv
  BY FiltersAssumption, QueuedInit DEF Init, HeadRuns
<1>2. Inv /\ [Next]_vars => Inv'
  BY FiltersAssumption, HeadSteps, QueuedNext
<1>3. Inv => QueueHasRoom
  BY DEF HeadRuns, QueueHasRoom, Queued
<1> QED BY <1>1, <1>2, <1>3, PTL DEF Spec
-----------------------------------------------------------------------------
LEMMA WaitingInit == H!Init => H!NothingQueuedForTerminal
BY DEF H!Init, H!NothingQueuedForTerminal

LEMMA WaitingNext ==
  H!NothingQueuedForTerminal /\ [H!Next]_(H!vars) => H!NothingQueuedForTerminal'
<1> SUFFICES ASSUME H!NothingQueuedForTerminal, [H!Next]_(H!vars)
             PROVE  H!NothingQueuedForTerminal'
  OBVIOUS
<1> USE DEF H!NothingQueuedForTerminal
<1>1. CASE H!RejectOptions \/ H!OpenFails \/ H!ReadEnd \/ H!ReadFails
           \/ H!Exit \/ H!WriteFails \/ H!NextOperand
  BY <1>1 DEF H!RejectOptions, H!OpenFails, H!ReadEnd, H!ReadFails, H!Exit,
    H!WriteFails, H!NextOperand, H!ErrorExit
<1>2. CASE H!Start \/ H!Open \/ H!QueuePart
  BY <1>2 DEF H!Start, H!Open, H!QueuePart
<1>3. CASE H!ReadyToRead
  BY <1>3 DEF H!ReadyToRead, H!FlushFirst, H!place
<1>4. ASSUME NEW m \in 1..BufSize, H!ReadChunk(m)
      PROVE  H!NothingQueuedForTerminal'
  BY <1>4 DEF H!ReadChunk
<1>5. CASE UNCHANGED H!vars
  BY <1>5 DEF H!vars, H!place, H!queue
<1> QED BY <1>1, <1>2, <1>3, <1>4, <1>5 DEF H!Next

\* For all operands and after any number of reads, nothing is queued while
\* head waits for standard input (head.c:79-83).
THEOREM TerminalSeesHeader == Spec => []NothingQueuedForTerminal
<1> DEFINE Inv == HeadRuns => H!NothingQueuedForTerminal
<1>1. Init => Inv
  BY WaitingInit DEF Init, HeadRuns
<1>2. Inv /\ [Next]_vars => Inv'
  BY HeadSteps, WaitingNext
<1>3. Inv => NothingQueuedForTerminal
  BY DEF HeadRuns, NothingQueuedForTerminal
<1> QED BY <1>1, <1>2, <1>3, PTL DEF Spec
-----------------------------------------------------------------------------
(***************************************************************************)
(* Pieces of a stream, or of a header, as they are written.                *)
(***************************************************************************)
\* The symbols of operand k behind position a, up to b.
Piece(k, a, b) == [j \in 1..(b-a) |-> <<k, a + j>>]

LEMMA PieceSeq ==
  ASSUME NEW k \in H!Operands, NEW a \in Int, NEW b \in Int, a <= b
  PROVE  /\ Piece(k, a, b) \in Seq(H!Symbol)
         /\ Len(Piece(k, a, b)) = b - a
         /\ \A j \in 1..(b-a) : Piece(k, a, b)[j] = <<k, a + j>>
<1>1. b - a \in Nat /\ \A j \in 1..(b-a) : <<k, a + j>> \in H!Symbol
  BY DEF H!Symbol
<1> QED BY <1>1 DEF Piece

LEMMA PieceOn ==
  ASSUME NEW k \in H!Operands, NEW a \in Int, NEW b \in Int, NEW c \in Int,
         a <= b, b <= c
  PROVE  Piece(k, a, b) \o Piece(k, b, c) = Piece(k, a, c)
<1> DEFINE s == Piece(k, a, b)
           t == Piece(k, b, c)
           u == Piece(k, a, c)
<1>1. s \in Seq(H!Symbol) /\ t \in Seq(H!Symbol) /\ u \in Seq(H!Symbol)
  BY PieceSeq
<1>2. Len(s) = b - a /\ Len(t) = c - b /\ Len(u) = c - a
  BY PieceSeq
<1>3. /\ \A j \in 1..(b-a) : s[j] = <<k, a + j>>
      /\ \A j \in 1..(c-b) : t[j] = <<k, b + j>>
      /\ \A j \in 1..(c-a) : u[j] = <<k, a + j>>
  BY DEF Piece
<1>4. PICK v : v = s \o t
  OBVIOUS
<1> HIDE DEF s, t, u
<1>5. /\ v \in Seq(H!Symbol) /\ Len(v) = Len(s) + Len(t)
      /\ \A j \in 1..(Len(s) + Len(t)) :
           v[j] = IF j <= Len(s) THEN s[j] ELSE t[j - Len(s)]
  BY ONLY <1>1, <1>4, ConcatProperties
<1>6. ASSUME NEW j \in 1..(c-a) PROVE v[j] = u[j]
  <2>1. Len(s) + Len(t) = c - a
    BY <1>2
  <2>2. v[j] = IF j <= b - a THEN s[j] ELSE t[j - (b-a)]
    BY <1>2, <1>5, <2>1
  <2>3. CASE j <= b - a
    BY <1>3, <2>2, <2>3
  <2>4. CASE j > b - a
    <3>1. j - (b-a) \in 1..(c-b) /\ b + (j - (b-a)) = a + j
      BY <2>4
    <3> QED BY <1>3, <2>2, <2>4, <3>1
  <2> QED BY <2>3, <2>4
<1>7. Len(v) = c - a
  BY <1>2, <1>5
<1>8. v = u
  BY <1>1, <1>2, <1>5, <1>6, <1>7, SeqEqual
<1> QED BY <1>4, <1>8 DEF s, t, u

LEMMA PieceNone ==
  ASSUME NEW k \in H!Operands, NEW a \in Int
  PROVE  Piece(k, a, a) = <<>>
BY PieceSeq, EmptySeq

LEMMA PieceAdd ==
  ASSUME NEW k \in H!Operands, NEW a \in Int, NEW b \in Int, a <= b
  PROVE  Piece(k, a, b) \o <<<<k, b + 1>>>> = Piece(k, a, b + 1)
<1>1. /\ Piece(k, b, b + 1) \in Seq(H!Symbol)
      /\ Len(Piece(k, b, b + 1)) = 1 /\ Piece(k, b, b + 1)[1] = <<k, b + 1>>
  <2>1. (b + 1) - b = 1 /\ b + 1 \in Int /\ b <= b + 1
    OBVIOUS
  <2>2. Piece(k, b, b + 1)[1] = <<k, b + 1>>
    BY <2>1 DEF Piece
  <2> QED BY <2>1, <2>2, PieceSeq
<1>2. Piece(k, b, b + 1) = <<<<k, b + 1>>>>
  <2>1. <<<<k, b + 1>>>> \in Seq(H!Symbol) /\ Len(<<<<k, b + 1>>>>) = 1
    BY DEF H!Symbol
  <2>2. \A j \in 1..1 : Piece(k, b, b + 1)[j] = <<<<k, b + 1>>>>[j]
    BY <1>1
  <2> QED BY <1>1, <2>1, <2>2, SeqEqual
<1>3. Piece(k, a, b) \o Piece(k, b, b + 1) = Piece(k, a, b + 1)
  <2>1. b + 1 \in Int /\ b <= b + 1
    OBVIOUS
  <2> QED BY ONLY <2>1, PieceOn, a \in Int, b \in Int, a <= b, k \in H!Operands
<1> QED BY <1>2, <1>3

\* Strings one behind the other.
LEMMA Joined ==
  ASSUME NEW s \in Seq(H!Symbol), NEW t \in Seq(H!Symbol), NEW u \in Seq(H!Symbol)
  PROVE  (s \o t) \o u = s \o (t \o u) /\ s \o t \in Seq(H!Symbol)
<1>1. (s \o t) \o u = s \o (t \o u)
  BY ONLY s \in Seq(H!Symbol), t \in Seq(H!Symbol), u \in Seq(H!Symbol), ConcatAssociative
<1>2. s \o t \in Seq(H!Symbol)
  BY ONLY s \in Seq(H!Symbol), t \in Seq(H!Symbol), ConcatProperties
<1> QED BY ONLY <1>1, <1>2
-----------------------------------------------------------------------------
(***************************************************************************)
(* head: the first lines of a stretch of a stream.                         *)
(***************************************************************************)
\* The cardinality Head has by its EXTENDS is the one the theorems are about.
LEMMA SameSize == ASSUME NEW S PROVE H!Cardinality(S) = Cardinality(S)
BY DEF H!Cardinality, Cardinality, H!IsFiniteSet, IsFiniteSet

NLs(s) == {j \in Int : s[j] = H!NL}

\* The lines that end among the positions a to b.
LinesIn(s, a, b) == Cardinality(H!NewlinesIn(s, a, b))

LEMMA LinesCounted ==
  ASSUME NEW s, NEW i \in Int, NEW j \in Int
  PROVE  LinesIn(s, i, j) = Tally(NLs(s), i, j)
<1>1. H!NewlinesIn(s, i, j) = {k \in i..j : k \in NLs(s)}
  BY DEF H!NewlinesIn, NLs
<1> QED BY <1>1 DEF LinesIn, Tally

\* The positions a+1 to a+t are the first n lines of those up to b: the last of
\* them is still of those lines, and they are all, or those lines have ended.
CutAt(s, a, b, n, t) ==
  /\ t \in 0..(b-a)
  /\ t > 0 => LinesIn(s, a + 1, a + t - 1) < n
  /\ t < b - a => LinesIn(s, a + 1, a + t) >= n

LEMMA FirstLinesCut ==
  ASSUME NEW s, NEW i \in Nat, NEW j \in Nat, i <= j, NEW n \in Nat, NEW t, CutAt(s, i, j, n, t)
  PROVE  /\ H!FirstLines(s, i, j, n) = (i+1)..(i+t)
         /\ Cardinality(H!FirstLines(s, i, j, n)) = t
<1>0. t \in Nat /\ i + t <= j
  BY DEF CutAt
<1>1. ASSUME NEW k \in (i+1)..j
      PROVE  LinesIn(s, i + 1, k - 1) < n <=> k <= i + t
  <2>1. LinesIn(s, i + 1, k - 1) \in Nat
    BY LinesCounted, TallyType
  <2>2. CASE k <= i + t
    <3>1. t > 0 /\ k - 1 <= i + t - 1
      BY <1>0, <2>2
    <3>2. LinesIn(s, i + 1, k - 1) <= LinesIn(s, i + 1, i + t - 1)
      BY <1>0, <3>1, LinesCounted, TallyGrows
    <3>3. LinesIn(s, i + 1, i + t - 1) < n
      BY <3>1 DEF CutAt
    <3>4. LinesIn(s, i + 1, i + t - 1) \in Nat
      BY <1>0, LinesCounted, TallyType
    <3> QED BY <2>1, <2>2, <3>2, <3>3, <3>4
  <2>3. CASE k > i + t
    <3>1. i + t <= k - 1 /\ t < j - i
      BY <1>0, <2>3
    <3>2. LinesIn(s, i + 1, i + t) <= LinesIn(s, i + 1, k - 1)
      BY <1>0, <3>1, LinesCounted, TallyGrows
    <3>3. LinesIn(s, i + 1, i + t) >= n
      BY <3>1 DEF CutAt
    <3>4. LinesIn(s, i + 1, i + t) \in Nat
      BY <1>0, LinesCounted, TallyType
    <3> QED BY <1>0, <2>1, <2>3, <3>2, <3>3, <3>4
  <2> QED BY <1>0, <2>2, <2>3
<1>2. H!FirstLines(s, i, j, n) = {k \in (i+1)..j : LinesIn(s, i + 1, k - 1) < n}
  <2> DEFINE P(k) == Cardinality(H!NewlinesIn(s, i + 1, k - 1)) < n
  <2>1. H!FirstLines(s, i, j, n) = {k \in (i+1)..j : P(k)}
    BY SameSize DEF H!FirstLines
  <2>2. \A k : P(k) <=> LinesIn(s, i + 1, k - 1) < n
    BY DEF LinesIn
  <2> HIDE DEF P
  <2> QED BY <2>1, <2>2
<1>3. H!FirstLines(s, i, j, n) = (i+1)..(i+t)
  BY <1>0, <1>1, <1>2
<1>4. Cardinality((i+1)..(i+t)) = t
  <2>1. i + 1 \in Int /\ i + t \in Int
    BY <1>0
  <2>2. Cardinality((i+1)..(i+t)) = IF i + 1 > i + t THEN 0 ELSE (i + t) - (i + 1) + 1
    BY ONLY <2>1, FS_Interval, Zenon
  <2> QED BY <1>0, <2>2
<1> QED BY <1>3, <1>4

\* Such a cut there is.
LEMMA CutExists ==
  ASSUME NEW s, NEW i \in Nat, NEW j \in Nat, i <= j, NEW n \in Nat
  PROVE  \E t : CutAt(s, i, j, n, t)
<1> DEFINE T == {l \in 0..(j-i) : \E t : CutAt(s, i, i + l, n, t)}
<1>1. 0 \in T
  <2>1. CutAt(s, i, i + 0, n, 0)
    BY DEF CutAt
  <2> QED BY <2>1
<1>2. ASSUME NEW l \in 0..(j-i-1), l \in T PROVE l + 1 \in T
  <2>1. PICK t : CutAt(s, i, i + l, n, t)
    BY <1>2
  <2>2. t \in Nat /\ t <= l /\ l \in Nat /\ LinesIn(s, i + 1, i + l) \in Nat
    BY <2>1, LinesCounted, TallyType DEF CutAt
  <2>3. CASE t < l
    <3>1. CutAt(s, i, i + (l + 1), n, t)
      BY <2>1, <2>2, <2>3 DEF CutAt
    <3> QED BY <3>1
  <2>4. CASE t = l /\ LinesIn(s, i + 1, i + l) >= n
    <3>1. CutAt(s, i, i + (l + 1), n, t)
      BY <2>1, <2>2, <2>4 DEF CutAt
    <3> QED BY <3>1
  <2>5. CASE t = l /\ LinesIn(s, i + 1, i + l) < n
    <3>1. i + (l + 1) - 1 = i + l
      BY <2>2
    <3>2. CutAt(s, i, i + (l + 1), n, l + 1)
      BY <2>2, <2>5, <3>1 DEF CutAt
    <3> QED BY <3>2
  <2> QED BY <2>2, <2>3, <2>4, <2>5
<1>3. 0..(j-i) \subseteq T
  <2>1. j - i \in Nat
    OBVIOUS
  <2> HIDE DEF T
  <2> QED BY <1>1, <1>2, <2>1, UpToInduction
<1>4. j - i \in T /\ i + (j - i) = j
  BY <1>3
<1> QED BY <1>4

\* Of the lines still wanted, no more than those end in a cut.
LEMMA CutEnds ==
  ASSUME NEW s, NEW i \in Nat, NEW j \in Nat, i <= j, NEW n \in Nat, NEW t, CutAt(s, i, j, n, t)
  PROVE  LinesIn(s, i + 1, i + t) \in Nat /\ LinesIn(s, i + 1, i + t) <= n
<1>0. t \in Nat
  BY DEF CutAt
<1>1. LinesIn(s, i + 1, i + t) \in Nat
  BY <1>0, LinesCounted, TallyType
<1>2. CASE t = 0
  <2>1. LinesIn(s, i + 1, i + t) = 0
    BY <1>2, LinesCounted, TallyNone
  <2> QED BY <2>1
<1>3. CASE t > 0
  <2>1. LinesIn(s, i + 1, i + t) <= LinesIn(s, i + 1, i + t - 1) + 1
    BY <1>0, <1>3, LinesCounted, TallyNext, TallyType
  <2>2. LinesIn(s, i + 1, i + t - 1) < n /\ LinesIn(s, i + 1, i + t - 1) \in Nat
    BY <1>0, <1>3, LinesCounted, TallyType DEF CutAt
  <2> QED BY <1>1, <2>1, <2>2
<1> QED BY <1>0, <1>1, <1>2, <1>3

\* The lines of two stretches in a row.
LEMMA LinesSplit ==
  ASSUME NEW s, NEW i \in Int, NEW j \in Int, i <= j + 1, NEW l \in Nat
  PROVE  LinesIn(s, i, j + l) = LinesIn(s, i, j) + LinesIn(s, j + 1, j + l)
BY LinesCounted, TallySplit

\* A cut for one line or more is not empty.
LEMMA CutBegins ==
  ASSUME NEW s, NEW b \in Nat, NEW c \in Nat, b < c, NEW l \in Nat, l > 0,
         NEW u, CutAt(s, b, c, l, u)
  PROVE  u > 0
<1>1. LinesIn(s, b + 1, b) = 0
  BY LinesCounted, TallyNone
<1> QED BY <1>1 DEF CutAt

\* As long as lines are wanted a stretch is cut at its end; with a cut of what
\* follows it is one cut.
LEMMA CutOn ==
  ASSUME NEW s, NEW a \in Nat, NEW b \in Nat, NEW c \in Nat, a <= b, b <= c,
         NEW n \in Nat, NEW l \in Nat, NEW t \in Nat, t = b - a, CutAt(s, a, b, n, t),
         l = n - LinesIn(s, a + 1, b), l > 0, NEW u, CutAt(s, b, c, l, u)
  PROVE  CutAt(s, a, c, n, t + u)
<1>1. u \in Nat /\ u <= c - b /\ LinesIn(s, a + 1, b) \in Nat
  BY LinesCounted, TallyType DEF CutAt
<1>2. c > b => u > 0
  BY <1>1, CutBegins
<1>3. ASSUME NEW v \in Nat
      PROVE  /\ LinesIn(s, a + 1, b + v) = LinesIn(s, a + 1, b) + LinesIn(s, b + 1, b + v)
             /\ LinesIn(s, b + 1, b + v) \in Nat
  <2>1. a + 1 \in Int /\ a + 1 <= b + 1 /\ b + 1 \in Int /\ b + v \in Int
    OBVIOUS
  <2>2. LinesIn(s, b + 1, b + v) \in Nat
    BY <2>1, LinesCounted, TallyType
  <2>3. LinesIn(s, a + 1, b + v) = LinesIn(s, a + 1, b) + LinesIn(s, b + 1, b + v)
    BY ONLY <2>1, LinesSplit, b \in Int, v \in Nat
  <2> QED BY <2>2, <2>3
<1>4. CASE u = 0
  <2>1. c = b
    BY <1>1, <1>2, <1>4
  <2>2. t + u = t /\ b + u = b + 0
    BY <1>4
  <2> QED BY <1>2, <1>3, <2>1, <2>2
<1>5. CASE u > 0
  <2>1. LinesIn(s, b + 1, b + u - 1) < l
    BY <1>5 DEF CutAt
  <2>2. u - 1 \in Nat /\ b + (u - 1) = b + u - 1
    BY <1>1, <1>5
  <2>3. /\ LinesIn(s, a + 1, b + u - 1) < n
        /\ LinesIn(s, a + 1, b + u - 1) \in Nat
    <3>1. /\ LinesIn(s, a + 1, b + u - 1) = LinesIn(s, a + 1, b) + LinesIn(s, b + 1, b + u - 1)
          /\ LinesIn(s, b + 1, b + u - 1) \in Nat
      BY <1>3, <2>2
    <3> QED BY <1>1, <2>1, <3>1
  <2>4. u < c - b => LinesIn(s, a + 1, b + u) >= n
    <3>1. u < c - b => LinesIn(s, b + 1, b + u) >= l
      BY DEF CutAt
    <3> QED BY <1>1, <1>3, <3>1
  <2>5. a + (t + u) = b + u /\ a + (t + u) - 1 = b + u - 1
    BY <1>1
  <2>6. CutAt(s, a, c, n, t + u)
    BY <1>1, <2>3, <2>4, <2>5 DEF CutAt
  <2> QED BY <1>1, <1>2, <1>3, <2>6
<1> QED BY <1>1, <1>4, <1>5
-----------------------------------------------------------------------------
(***************************************************************************)
(* head: what its variables hold.                                          *)
(***************************************************************************)
HeadTyped ==
  /\ args \in Seq(Content \union {Dash}) /\ Len(args) \in 0..MaxArgs
  /\ stdin \in Content /\ nflag \in Count
  /\ cur \in H!Operands /\ fd \in H!FD /\ offset \in [H!FD -> Nat]
  /\ part \in Int /\ lines \in Nat
  /\ out \in Seq(H!Symbol) /\ iov \in Seq(H!Symbol)
  /\ start \in [H!Operands -> Int]

\* The part of a chunk that is written is cut behind the lines still wanted.
LEMMA ChunkCut ==
  ASSUME HeadTyped, H!HeadAssumption, NEW m \in 1..BufSize, H!ReadChunk(m)
  PROVE  \E u \in 0..m :
           /\ CutAt(H!Stream, offset[fd], offset[fd] + m, lines, u)
           /\ out' = (out \o iov) \o Piece(cur, offset[fd], offset[fd] + u)
           /\ lines' = lines - LinesIn(H!Stream, offset[fd] + 1, offset[fd] + u)
<1> DEFINE from == offset[fd]
<1>1. from \in Nat /\ m \in Nat /\ from + m \in Nat /\ from <= from + m /\ lines \in Nat
  BY DEF HeadTyped, H!HeadAssumption
<1>2. PICK u : CutAt(H!Stream, from, from + m, lines, u)
  <2> HIDE DEF from
  <2> QED BY <1>1, CutExists
<1>3. u \in 0..m
  BY <1>1, <1>2 DEF CutAt
<1>4. H!Cardinality(H!FirstLines(H!Stream, from, from + m, lines)) = u
  <2> HIDE DEF from
  <2> QED BY <1>1, <1>2, FirstLinesCut, SameSize
<1>5. /\ out' = out \o iov \o [j \in 1..u |-> <<cur, from + j>>]
      /\ lines' = H!LinesAfter(from + 1, from + u)
  BY <1>4 DEF H!ReadChunk
<1>6. (from + u) - from = u
  BY <1>1, <1>3
<1>7. H!LinesAfter(from + 1, from + u) = lines - LinesIn(H!Stream, from + 1, from + u)
  BY SameSize DEF H!LinesAfter, LinesIn
<1> QED BY <1>2, <1>3, <1>5, <1>6, <1>7 DEF Piece

\* What is queued and what is written, one behind the other, do not tell when the
\* queue was written.
LEMMA PartQueued ==
  ASSUME HeadTyped, H!QueuePart
  PROVE  /\ out' \in Seq(H!Symbol) /\ iov' \in Seq(H!Symbol)
         /\ out' \o iov' = (out \o iov) \o <<<<cur, part>>>>
<1>1. /\ out \in Seq(H!Symbol) /\ iov \in Seq(H!Symbol)
      /\ <<<<cur, part>>>> \in Seq(H!Symbol)
  BY DEF HeadTyped, H!Symbol
<1>2. PICK q : q = Append(iov, <<cur, part>>)
  OBVIOUS
<1>3. q = iov \o <<<<cur, part>>>> /\ q \in Seq(H!Symbol)
  <2>1. <<cur, part>> \in H!Symbol
    BY DEF HeadTyped, H!Symbol
  <2>2. Append(iov, <<cur, part>>) = iov \o <<<<cur, part>>>>
    BY <1>1, <2>1, AppendIsConcat
  <2> QED BY <1>1, <1>2, <2>2, Joined, ZenonT(40)
<1>4. (out' = out \o q /\ iov' = <<>>) \/ (out' = out /\ iov' = q)
  BY <1>2 DEF H!QueuePart
<1>5. /\ out \o q \in Seq(H!Symbol) /\ (out \o q) \o <<>> = out \o q
      /\ (out \o iov) \o <<<<cur, part>>>> = out \o q
  BY <1>1, <1>3, Joined, ConcatEmptySeq
<1>6. <<>> \in Seq(H!Symbol)
  OBVIOUS
<1> QED BY ONLY <1>1, <1>3, <1>4, <1>5, <1>6

LEMMA QueueWritten ==
  ASSUME HeadTyped, H!ReadyToRead
  PROVE  /\ out' \in Seq(H!Symbol) /\ iov' \in Seq(H!Symbol)
         /\ out' \o iov' = out \o iov
<1>1. out \in Seq(H!Symbol) /\ iov \in Seq(H!Symbol) /\ <<>> \in Seq(H!Symbol)
  BY DEF HeadTyped
<1>2. (out' = out \o iov /\ iov' = <<>>) \/ (out' = out /\ iov' = iov)
  BY DEF H!ReadyToRead
<1>3. out \o iov \in Seq(H!Symbol) /\ (out \o iov) \o <<>> = out \o iov
  BY <1>1, Joined, ConcatEmptySeq
<1> QED BY ONLY <1>1, <1>2, <1>3

LEMMA HeadTypedInit == H!HeadAssumption /\ H!Init => HeadTyped
<1> SUFFICES ASSUME H!HeadAssumption, H!Init PROVE HeadTyped
  OBVIOUS
<1>1. MaxArgs \in Nat
  BY DEF H!HeadAssumption
<1>2. PICK a \in 0..MaxArgs : args \in [1..a -> Content \union {Dash}]
  BY DEF H!Init
<1>3. args \in Seq(Content \union {Dash}) /\ Len(args) \in 0..MaxArgs
  BY <1>1, <1>2
<1>4. cur \in H!Operands /\ start \in [H!Operands -> Int]
  BY <1>1 DEF H!Init, H!Operands
<1>5. out \in Seq(H!Symbol) /\ iov \in Seq(H!Symbol)
  BY DEF H!Init
<1>6. fd \in H!FD /\ offset \in [H!FD -> Nat]
  BY DEF H!Init, H!FD
<1> QED BY <1>3, <1>4, <1>5, <1>6 DEF H!Init, HeadTyped

LEMMA HeadTypedNext ==
  H!HeadAssumption /\ HeadTyped /\ [H!Next]_(H!vars) => HeadTyped'
<1> SUFFICES ASSUME H!HeadAssumption, HeadTyped, [H!Next]_(H!vars) PROVE HeadTyped'
  OBVIOUS
<1> USE DEF HeadTyped, H!given, H!place, H!queue, H!result
<1>0. /\ MaxArgs \in Nat /\ BufSize \in Nat /\ UMod \in Nat \ {0} /\ Count \subseteq Int
      /\ Len(args) \in Nat /\ cur \in Nat
  BY DEF H!HeadAssumption, H!Operands
<1>1. CASE H!RejectOptions \/ H!OpenFails \/ H!ReadEnd \/ H!ReadFails
           \/ H!WriteFails \/ H!Start
  BY <1>1 DEF H!RejectOptions, H!OpenFails, H!ReadEnd, H!ReadFails,
    H!WriteFails, H!ErrorExit, H!Start
<1>2. CASE H!Open
  <2>1. fd' \in H!FD /\ offset' \in [H!FD -> Nat]
    BY <1>2 DEF H!Open, H!FD
  <2>2. offset'[fd'] \in Nat
    BY <2>1
  <2>3. start' \in [H!Operands -> Int]
    BY <1>2, <2>2 DEF H!Open
  <2>4. part' \in Int
    BY <1>2 DEF H!Open
  <2> QED BY <1>2, <2>1, <2>3, <2>4 DEF H!Open
<1>3. CASE H!QueuePart
  <2>4. out' \in Seq(H!Symbol) /\ iov' \in Seq(H!Symbol)
    BY <1>3, PartQueued
  <2>5. part' \in Int
    BY <1>3 DEF H!QueuePart
  <2> QED BY <1>3, <2>4, <2>5 DEF H!QueuePart
<1>4. CASE H!ReadyToRead
  <2>1. out' \in Seq(H!Symbol) /\ iov' \in Seq(H!Symbol)
    BY <1>4, QueueWritten
  <2>2. lines' \in Nat
    BY <1>0, <1>4 DEF H!ReadyToRead, H!Unsigned
  <2> QED BY <1>4, <2>1, <2>2 DEF H!ReadyToRead
<1>5. ASSUME NEW m \in 1..BufSize, H!ReadChunk(m) PROVE HeadTyped'
  <2> DEFINE from == offset[fd]
  <2>1. PICK u \in 0..m :
          /\ CutAt(H!Stream, from, from + m, lines, u)
          /\ out' = (out \o iov) \o Piece(cur, from, from + u)
          /\ lines' = lines - LinesIn(H!Stream, from + 1, from + u)
    BY <1>5, ChunkCut
  <2>2. from \in Nat /\ from + m \in Nat /\ from <= from + m /\ u \in Nat
        /\ from + u \in Int /\ from \in Int /\ from <= from + u
    BY <1>0
  <2>3. out' \in Seq(H!Symbol)
    <3> HIDE DEF from
    <3>1. Piece(cur, from, from + u) \in Seq(H!Symbol)
      BY <2>2, PieceSeq
    <3> QED BY <2>1, <3>1, Joined
  <2>4. lines' \in Nat
    <3> HIDE DEF from
    <3>1. /\ LinesIn(H!Stream, from + 1, from + u) \in Nat
          /\ LinesIn(H!Stream, from + 1, from + u) <= lines
      BY <2>1, <2>2, CutEnds
    <3> QED BY <2>1, <3>1
  <2>5. offset' \in [H!FD -> Nat] /\ iov' \in Seq(H!Symbol)
    BY <1>5, <2>2 DEF H!ReadChunk
  <2> QED BY <1>5, <2>3, <2>4, <2>5 DEF H!ReadChunk
<1>6. CASE H!NextOperand
  <2>1. cur' \in H!Operands
    BY <1>0, <1>6, SMTT(30) DEF H!NextOperand, H!Operands
  <2> QED BY <1>6, <2>1 DEF H!NextOperand
<1>7. CASE H!Exit
  <2>1. out \o iov \in Seq(H!Symbol)
    BY ConcatProperties
  <2> QED BY <1>7, <2>1 DEF H!Exit
<1>8. CASE UNCHANGED H!vars
  BY <1>8 DEF H!vars
<1> QED BY <1>1, <1>2, <1>3, <1>4, <1>5, <1>6, <1>7, <1>8 DEF H!Next

\* Where head is among its operands, and in the stream of the one it reads.
AtOperand ==
  /\ cur = 1 \/ cur <= Len(args)
  /\ pc = "flush" \/ status = "zero" => cur >= Len(args)
  /\ \A k \in H!Operands :
       k > cur \/ (k = cur /\ pc \in {"options", "open"}) => start[k] = -1
  /\ args = <<>> => start[1] \in {-1, 0} /\ (start[1] = -1 => offset[0] = 0)

AtByte ==
  /\ pc \in {"header", "flush0", "read"} =>
       /\ fd = IF H!IsNamed(cur) THEN 3 ELSE 0
       /\ start[cur] \in Nat /\ start[cur] <= offset[fd]
       /\ offset[fd] <= Len(H!Stream)
       /\ pc # "read" => start[cur] = offset[fd]
  /\ offset[0] <= Len(stdin)

NoneOpened == \A k \in H!Operands : start[k] = -1

AtHeader ==
  /\ pc \in {"options", "open", "header", "flush0", "read", "next", "flush", "exited"}
  /\ status \in {"zero", "error"} <=> pc = "exited"
  /\ pc = "options" => cur = 1 /\ out = <<>> /\ iov = <<>>
  /\ pc # "options" /\ status # "error" =>
       /\ nflag \in Nat
       /\ header = IF Len(args) < 2 THEN 0 ELSE IF NoneOpened THEN 1 ELSE 2
  /\ pc = "header" => Len(args) >= 2

HeadPlaced == HeadTyped /\ AtOperand /\ AtByte /\ AtHeader

LEMMA HeadPlacedInit == H!HeadAssumption /\ H!Init => HeadPlaced
<1> SUFFICES ASSUME H!HeadAssumption, H!Init PROVE HeadPlaced
  OBVIOUS
<1>1. HeadTyped
  BY HeadTypedInit
<1>2. AtOperand /\ AtHeader
  BY <1>1 DEF H!Init, AtOperand, AtHeader, H!Operands, HeadTyped, H!FD
<1>3. AtByte
  <2>1. Len(stdin) \in Nat
    BY DEF H!Init, H!HeadAssumption
  <2> QED BY <2>1 DEF H!Init, AtByte, H!FD
<1> QED BY <1>1, <1>2, <1>3 DEF HeadPlaced

LEMMA OperandOn ==
  H!HeadAssumption /\ HeadPlaced /\ [H!Next]_(H!vars) => AtOperand'
<1> SUFFICES ASSUME H!HeadAssumption, HeadPlaced, [H!Next]_(H!vars) PROVE AtOperand'
  OBVIOUS
<1> USE DEF AtOperand, H!given, H!place, H!queue, H!result
<1>0. AtOperand /\ AtHeader /\ HeadTyped /\ MaxArgs \in Nat
  BY DEF HeadPlaced, H!HeadAssumption
<1>1. CASE H!RejectOptions \/ H!ReadEnd \/ H!ReadFails \/ H!WriteFails \/ H!Start
           \/ H!OpenFails \/ H!QueuePart \/ H!ReadyToRead \/ H!Exit
  BY <1>0, <1>1 DEF H!RejectOptions, H!OpenFails, H!ReadEnd, H!ReadFails, AtHeader,
    H!WriteFails, H!ErrorExit, H!Start, H!QueuePart, H!ReadyToRead, H!Exit
<1>2. CASE H!Open
  <2>1. cur \in H!Operands /\ fd' \in H!FD /\ start \in [H!Operands -> Int]
        /\ offset \in [H!FD -> Nat]
    BY <1>0, <1>2 DEF H!Open, HeadTyped, H!FD
  <2>2. start' = [start EXCEPT ![cur] = offset'[fd']]
    BY <1>2 DEF H!Open
  <2>3. \A k \in H!Operands : k # cur => start'[k] = start[k]
    BY <2>1, <2>2
  <2>4. \A k \in H!Operands : k > cur => start'[k] = -1
    BY <1>0, <2>1, <2>3 DEF H!Operands
  <2>5. args = <<>> => start'[1] = 0
    <3> SUFFICES ASSUME args = <<>> PROVE start'[1] = 0
      OBVIOUS
    <3>1. cur = 1 /\ ~H!IsNamed(cur)
      BY <1>0, <2>1 DEF H!IsNamed, H!Operands
    <3>2. start[1] = -1 /\ offset[0] = 0
      BY <1>0, <1>2, <2>1, <3>1 DEF H!Open
    <3> QED BY <1>2, <2>1, <2>2, <3>1, <3>2 DEF H!Open
  <2> QED BY <1>0, <1>2, <2>1, <2>4, <2>5 DEF H!Open, AtHeader
<1>3. ASSUME NEW m \in 1..BufSize, H!ReadChunk(m) PROVE AtOperand'
  <2>1. args = <<>> => start[1] = 0
    <3> SUFFICES ASSUME args = <<>> PROVE start[1] = 0
      OBVIOUS
    <3>1. cur = 1
      BY <1>0 DEF HeadTyped, H!Operands
    <3> QED BY <1>0, <1>3, <3>1 DEF H!ReadChunk, HeadPlaced, AtByte
  <2> QED BY <1>0, <1>3, <2>1 DEF H!ReadChunk, AtHeader
<1>4. CASE H!NextOperand
  <2>1. /\ pc = "next" /\ UNCHANGED <<args, start, offset, status>> /\ status # "zero"
        /\ cur \in 1..(MaxArgs+1) /\ Len(args) \in Nat
    BY <1>0, <1>4 DEF H!NextOperand, HeadTyped, H!Operands, AtHeader
  <2>2. \/ cur < Len(args) /\ cur' = cur + 1 /\ pc' = "open"
        \/ cur >= Len(args) /\ cur' = cur /\ pc' = "flush"
    BY <1>4, <2>1 DEF H!NextOperand
  <2>3. \A k \in H!Operands : k > cur => start[k] = -1
    BY <1>0
  <2> QED BY <1>0, <2>1, <2>2, <2>3 DEF H!Operands
<1>5. CASE UNCHANGED H!vars
  BY <1>0, <1>5 DEF H!vars
<1> QED BY <1>1, <1>2, <1>3, <1>4, <1>5 DEF H!Next

LEMMA ByteOn ==
  H!HeadAssumption /\ HeadPlaced /\ [H!Next]_(H!vars) => AtByte'
<1> SUFFICES ASSUME H!HeadAssumption, HeadPlaced, [H!Next]_(H!vars) PROVE AtByte'
  OBVIOUS
<1> USE DEF AtByte, H!given, H!place, H!queue, H!result, H!IsNamed, H!Stream, H!StreamOf
<1>0. AtByte /\ HeadTyped
  BY DEF HeadPlaced
<1>1. CASE H!RejectOptions \/ H!ReadEnd \/ H!ReadFails \/ H!WriteFails \/ H!Start
           \/ H!OpenFails \/ H!QueuePart \/ H!ReadyToRead \/ H!Exit
  BY <1>0, <1>1 DEF H!RejectOptions, H!OpenFails, H!ReadEnd, H!ReadFails,
    H!WriteFails, H!ErrorExit, H!Start, H!QueuePart, H!ReadyToRead, H!Exit
<1>2. CASE H!Open
  <2>1. /\ fd' = (IF H!IsNamed(cur) THEN 3 ELSE 0)
        /\ offset' = IF H!IsNamed(cur) THEN [offset EXCEPT ![3] = 0] ELSE offset
        /\ start' = [start EXCEPT ![cur] = offset'[fd']]
        /\ UNCHANGED <<cur, args, stdin>> /\ pc' # "read"
    BY <1>2 DEF H!Open
  <2>2. /\ offset \in [H!FD -> Nat] /\ start \in [H!Operands -> Int]
        /\ cur \in H!Operands /\ 0 \in H!FD /\ 3 \in H!FD
    BY <1>0 DEF HeadTyped, H!FD
  <2>3. start'[cur] = offset'[fd'] /\ offset'[fd'] \in Nat /\ offset'[0] = offset[0]
    BY <2>1, <2>2
  <2>4. CASE H!IsNamed(cur)
    <3>1. offset'[fd'] = 0
      BY <2>1, <2>2, <2>4
    <3>2. Len(args[cur]) \in Nat
      <4>1. cur \in 1..Len(args) /\ args[cur] # Dash
        BY <1>0, <2>4 DEF HeadTyped, H!Operands
      <4>2. args[cur] \in Content
        BY <1>0, <4>1, ElementOfSeq DEF HeadTyped
      <4> QED BY <4>2 DEF H!HeadAssumption
    <3> QED BY <1>0, <2>1, <2>3, <2>4, <3>1, <3>2
  <2>5. CASE ~H!IsNamed(cur)
    <3>1. Len(stdin) \in Nat
      BY <1>0 DEF HeadTyped, H!HeadAssumption
    <3> QED BY <1>0, <2>1, <2>2, <2>3, <2>5, <3>1
  <2> QED BY <2>4, <2>5
<1>3. ASSUME NEW m \in 1..BufSize, H!ReadChunk(m) PROVE AtByte'
  <2>1. /\ offset' = [offset EXCEPT ![fd] = @ + m] /\ pc = "read" /\ pc' = "read"
        /\ m <= Len(H!Stream) - offset[fd]
        /\ UNCHANGED <<cur, args, stdin, fd, start>>
    BY <1>3 DEF H!ReadChunk, H!Left
  <2>2. /\ offset \in [H!FD -> Nat] /\ fd \in H!FD /\ m \in Nat /\ m > 0
    BY <1>0 DEF HeadTyped, H!HeadAssumption
  <2>3. offset'[fd] = offset[fd] + m /\ (fd # 0 => offset'[0] = offset[0]) /\ offset[fd] \in Nat
    BY <2>1, <2>2 DEF H!FD
  <2>4. Len(H!Stream) \in Nat
    <3>1. CASE H!IsNamed(cur)
      <4>1. cur \in 1..Len(args) /\ args[cur] # Dash
        BY <1>0, <3>1 DEF HeadTyped, H!Operands
      <4>2. args[cur] \in Content
        BY <1>0, <4>1, ElementOfSeq DEF HeadTyped
      <4> QED BY <3>1, <4>2 DEF H!HeadAssumption
    <3>2. CASE ~H!IsNamed(cur)
      BY <1>0, <3>2 DEF HeadTyped, H!HeadAssumption
    <3> QED BY <3>1, <3>2
  <2>5. start[cur] <= offset'[fd] /\ offset'[fd] <= Len(H!Stream) /\ start[cur] \in Nat
    BY <1>0, <2>1, <2>2, <2>3, <2>4
  <2>6. offset'[0] <= Len(stdin)
    BY <1>0, <2>1, <2>3, <2>5
  <2> QED BY <1>0, <2>1, <2>5, <2>6
<1>4. CASE H!NextOperand
  BY <1>0, <1>4 DEF H!NextOperand
<1>5. CASE UNCHANGED H!vars
  BY <1>0, <1>5 DEF H!vars
<1> QED BY <1>1, <1>2, <1>3, <1>4, <1>5 DEF H!Next

LEMMA HeaderOn ==
  H!HeadAssumption /\ HeadPlaced /\ [H!Next]_(H!vars) => AtHeader'
<1> SUFFICES ASSUME H!HeadAssumption, HeadPlaced, [H!Next]_(H!vars) PROVE AtHeader'
  OBVIOUS
<1> USE DEF AtHeader, H!given, H!place, H!queue, H!result
<1>0. AtOperand /\ AtHeader /\ HeadTyped /\ Len(args) \in Nat
  BY DEF HeadPlaced, HeadTyped
<1>1. CASE H!RejectOptions \/ H!ReadEnd \/ H!ReadFails \/ H!WriteFails
           \/ H!OpenFails \/ H!QueuePart \/ H!ReadyToRead \/ H!Exit
  <2>1. NoneOpened' <=> NoneOpened
    BY <1>1 DEF H!RejectOptions, H!OpenFails, H!ReadEnd, H!ReadFails, NoneOpened,
      H!WriteFails, H!ErrorExit, H!QueuePart, H!ReadyToRead, H!Exit
  <2>2. CASE H!RejectOptions \/ H!WriteFails
    BY <1>0, <2>1, <2>2 DEF H!RejectOptions, H!WriteFails, H!ErrorExit
  <2>3. CASE H!ReadEnd \/ H!ReadFails \/ H!OpenFails
    BY <1>0, <2>1, <2>3 DEF H!ReadEnd, H!ReadFails, H!OpenFails
  <2>4. CASE H!QueuePart
    <3>1. /\ pc = "header" /\ pc' \in {"header", "flush0"}
          /\ UNCHANGED <<args, nflag, header, status>>
      BY <2>4 DEF H!QueuePart
    <3> QED BY <1>0, <2>1, <3>1
  <2>5. CASE H!ReadyToRead
    <3>1. /\ pc = "flush0" /\ pc' = "read"
          /\ UNCHANGED <<args, nflag, header, status>>
      BY <2>5 DEF H!ReadyToRead
    <3> QED BY <1>0, <2>1, <3>1
  <2>6. CASE H!Exit
    <3>1. /\ pc = "flush" /\ pc' = "exited" /\ status' = "zero"
          /\ UNCHANGED <<args, nflag, header>>
      BY <2>6 DEF H!Exit
    <3> QED BY <1>0, <2>1, <3>1
  <2> QED BY <1>1, <2>2, <2>3, <2>4, <2>5, <2>6
<1>2. CASE H!Start
  <2>1. NoneOpened /\ NoneOpened'
    BY <1>0, <1>2 DEF H!Start, NoneOpened, AtOperand, HeadTyped, H!Operands
  <2>2. nflag \in Nat
    BY <1>0, <1>2 DEF H!Start, HeadTyped, H!HeadAssumption
  <2> QED BY <1>0, <1>2, <2>1, <2>2 DEF H!Start
<1>3. CASE H!Open
  <2>1. ~NoneOpened'
    <3>1. cur \in H!Operands /\ start \in [H!Operands -> Int] /\ offset \in [H!FD -> Nat]
      BY <1>0 DEF HeadTyped
    <3>2. fd' \in H!FD /\ offset' \in [H!FD -> Nat]
      BY <1>3, <3>1 DEF H!Open, H!FD
    <3>3. start'[cur] = offset'[fd'] /\ offset'[fd'] # -1
      BY <1>3, <3>1, <3>2 DEF H!Open
    <3> QED BY <3>1, <3>3 DEF NoneOpened
  <2>2. /\ pc = "open" /\ pc' \in {"header", "flush0"}
        /\ header' = (IF header = 1 THEN 2 ELSE header)
        /\ pc' = "header" => header # 0
        /\ UNCHANGED <<args, nflag, status>>
    BY <1>3 DEF H!Open
  <2>3. header = (IF Len(args) < 2 THEN 0 ELSE IF NoneOpened THEN 1 ELSE 2)
        /\ nflag \in Nat
    BY <1>0, <2>2
  <2>4. header' = (IF Len(args) < 2 THEN 0 ELSE 2)
    BY <2>2, <2>3
  <2> QED BY <1>0, <2>1, <2>2, <2>3, <2>4
<1>4. ASSUME NEW m \in 1..BufSize, H!ReadChunk(m) PROVE AtHeader'
  <2>1. NoneOpened' <=> NoneOpened
    BY <1>4 DEF H!ReadChunk, NoneOpened
  <2> QED BY <1>0, <1>4, <2>1 DEF H!ReadChunk
<1>5. CASE H!NextOperand
  <2>1. NoneOpened' <=> NoneOpened
    BY <1>5 DEF H!NextOperand, NoneOpened
  <2> QED BY <1>0, <1>5, <2>1 DEF H!NextOperand
<1>6. CASE UNCHANGED H!vars
  <2>1. NoneOpened' <=> NoneOpened
    BY <1>6 DEF H!vars, NoneOpened
  <2> QED BY <1>0, <1>6, <2>1 DEF H!vars
<1> QED BY <1>1, <1>2, <1>3, <1>4, <1>5, <1>6 DEF H!Next

LEMMA HeadPlacedNext ==
  H!HeadAssumption /\ HeadPlaced /\ [H!Next]_(H!vars) => HeadPlaced'
BY HeadTypedNext, OperandOn, ByteOn, HeaderOn DEF HeadPlaced
-----------------------------------------------------------------------------
(***************************************************************************)
(* head: the output of the operands up to one of them, without the         *)
(* recursion HeadsOf is defined by.                                        *)
(***************************************************************************)
Add(k, x) ==
  IF start[k] = -1 THEN x ELSE x \o H!HeaderOf(k) \o H!Wanted(k, nflag)

\* x is the output of operands 1 to c.
Heads(c, x) ==
  \E f : /\ f = [k \in 0..c |-> f[k]]
         /\ f[0] = <<>> /\ f[c] = x
         /\ \A k \in 1..c : f[k] = Add(k, f[k-1])

LEMMA HeadsNone == Heads(0, <<>>)
<1> DEFINE f == [k \in 0..0 |-> <<>>]
<1>1. f = [k \in 0..0 |-> f[k]] /\ f[0] = <<>> /\ \A k \in 1..0 : f[k] = Add(k, f[k-1])
  OBVIOUS
<1> QED BY <1>1 DEF Heads

LEMMA HeadsOne == ASSUME NEW x, Heads(0, x) PROVE x = <<>>
BY DEF Heads

LEMMA HeadsMore ==
  ASSUME NEW c \in Nat, NEW x, Heads(c, x)
  PROVE  Heads(c + 1, Add(c + 1, x))
<1>1. PICK f : /\ f[0] = <<>> /\ f[c] = x
               /\ \A k \in 1..c : f[k] = Add(k, f[k-1])
  BY DEF Heads
<1>2. PICK y : y = Add(c + 1, x)
  OBVIOUS
<1> DEFINE g == [k \in 0..(c+1) |-> IF k = c + 1 THEN y ELSE f[k]]
<1>3. g = [k \in 0..(c+1) |-> g[k]] /\ g[0] = <<>> /\ g[c+1] = y
  BY <1>1
<1>4. ASSUME NEW k \in 1..(c+1) PROVE g[k] = Add(k, g[k-1])
  <2>1. k - 1 \in 0..c /\ g[k-1] = f[k-1]
    OBVIOUS
  <2>2. CASE k = c + 1
    <3>1. g[k-1] = x /\ g[k] = y
      BY <1>1, <2>1, <2>2
    <3> QED BY <1>2, <2>2, <3>1
  <2>3. CASE k # c + 1
    <3>1. k \in 1..c /\ g[k] = f[k]
      BY <2>3
    <3> QED BY <1>1, <2>1, <3>1
  <2> QED BY <2>2, <2>3
<1> HIDE DEF g
<1> QED BY <1>2, <1>3, <1>4 DEF Heads

\* It depends on those operands only.
LEMMA HeadsKept ==
  ASSUME NEW c \in Nat, NEW x, Heads(c, x), UNCHANGED <<args, stdin, nflag>>,
         \A k \in 1..c : start'[k] = start[k]
  PROVE  Heads(c, x)'
<1>1. PICK f : /\ f = [k \in 0..c |-> f[k]]
               /\ f[0] = <<>> /\ f[c] = x
               /\ \A k \in 1..c : f[k] = Add(k, f[k-1])
  BY DEF Heads
<1>2. ASSUME NEW k \in 1..c, NEW y PROVE Add(k, y)' = Add(k, y)
  <2>1. start'[k] = start[k]
    OBVIOUS
  <2>2. H!HeaderOf(k)' = H!HeaderOf(k)
    <3>1. (\A j \in 1..(k-1) : start'[j] = -1) <=> \A j \in 1..(k-1) : start[j] = -1
      OBVIOUS
    <3> QED BY <3>1 DEF H!HeaderOf
  <2>3. H!StreamOf(k)' = H!StreamOf(k)
    BY DEF H!StreamOf, H!IsNamed
  <2>4. H!Wanted(k, nflag)' = H!Wanted(k, nflag)
    BY <2>1, <2>3 DEF H!Wanted
  <2> QED BY <2>1, <2>2, <2>4 DEF Add
<1>3. ASSUME NEW k \in 1..c PROVE f[k] = Add(k, f[k-1])'
  <2>1. f[k] = Add(k, f[k-1])
    BY <1>1
  <2>2. PICK y : y = f[k-1]
    OBVIOUS
  <2> QED BY <1>2, <2>1, <2>2
<1> QED BY <1>1, <1>3 DEF Heads

\* Operands that were not opened add nothing.
LEMMA HeadsSkip ==
  ASSUME NEW c \in Nat, NEW d \in Nat, c <= d, NEW x, Heads(c, x),
         \A k \in (c+1)..d : start[k] = -1
  PROVE  Heads(d, x)
<1> DEFINE T == {l \in 0..(d-c) : Heads(c + l, x)}
<1>1. 0 \in T
  OBVIOUS
<1>2. ASSUME NEW l \in 0..(d-c-1), l \in T PROVE l + 1 \in T
  <2>1. /\ c + l \in Nat /\ c + (l + 1) = (c + l) + 1 /\ start[c + l + 1] = -1
        /\ l + 1 \in 0..(d-c)
    OBVIOUS
  <2>2. Heads(c + l, x) /\ Add((c + l) + 1, x) = x
    BY <1>2, <2>1 DEF Add
  <2> QED BY <2>1, <2>2, HeadsMore
<1>3. d - c \in Nat
  OBVIOUS
<1>4. 0..(d-c) \subseteq T
  <2> HIDE DEF T
  <2> QED BY <1>1, <1>2, <1>3, UpToInduction
<1>5. d - c \in T /\ c + (d - c) = d
  BY <1>3, <1>4
<1> QED BY <1>5

LEMMA HeadsAll ==
  ASSUME MaxArgs \in Nat, NEW x, Heads(MaxArgs + 1, x)
  PROVE  x = H!HeadsOf(nflag)
<1> DEFINE m == MaxArgs + 1
           Is(h) == h = [k \in 0..m |-> IF k = 0 THEN <<>>
                                        ELSE IF start[k] = -1 THEN h[k-1]
                                        ELSE h[k-1] \o H!HeaderOf(k) \o H!Wanted(k, nflag)]
<1>1. PICK f : /\ f = [k \in 0..m |-> f[k]]
               /\ f[0] = <<>> /\ f[m] = x
               /\ \A k \in 1..m : f[k] = Add(k, f[k-1])
  BY DEF Heads
<1>2. Is(f)
  <2> DEFINE h == [k \in 0..m |-> IF k = 0 THEN <<>>
                                  ELSE IF start[k] = -1 THEN f[k-1]
                                  ELSE f[k-1] \o H!HeaderOf(k) \o H!Wanted(k, nflag)]
  <2>1. ASSUME NEW k \in 0..m PROVE f[k] = h[k]
    <3>1. k # 0 => k \in 1..m
      OBVIOUS
    <3> QED BY <1>1, <3>1 DEF Add
  <2> QED BY <1>1, <2>1
<1>3. PICK g : g = CHOOSE h : Is(h)
  OBVIOUS
<1>4. Is(g)
  <2> HIDE DEF Is
  <2> QED BY <1>2, <1>3
<1>5. g[0] = <<>> /\ \A k \in 1..m : g[k] = Add(k, g[k-1])
  <2>1. ASSUME NEW k \in 0..m
        PROVE  g[k] = IF k = 0 THEN <<>> ELSE IF start[k] = -1 THEN g[k-1]
                      ELSE g[k-1] \o H!HeaderOf(k) \o H!Wanted(k, nflag)
    <3>1. PICK h : h = [l \in 0..m |-> IF l = 0 THEN <<>>
                                      ELSE IF start[l] = -1 THEN g[l-1]
                                      ELSE g[l-1] \o H!HeaderOf(l) \o H!Wanted(l, nflag)]
      OBVIOUS
    <3>2. g[k] = h[k]
      BY <1>4, <3>1
    <3> QED BY <3>1, <3>2
  <2>2. 0 \in 0..m /\ \A k \in 1..m : k \in 0..m /\ k # 0
    OBVIOUS
  <2> QED BY <2>1, <2>2 DEF Add
<1>6. H!HeadsOf(nflag) = g[m]
  BY <1>3 DEF H!HeadsOf
<1> DEFINE T == {k \in 0..m : f[k] = g[k]}
<1> HIDE DEF Is
<1>7. 0 \in T
  BY <1>1, <1>5
<1>8. ASSUME NEW k \in 0..(m-1), k \in T PROVE k + 1 \in T
  <2>1. k + 1 \in 1..m /\ (k + 1) - 1 = k
    OBVIOUS
  <2>2. f[k+1] = Add(k + 1, f[(k+1)-1]) /\ g[k+1] = Add(k + 1, g[(k+1)-1])
    BY <1>1, <1>5, <2>1
  <2>3. f[k+1] = g[k+1]
    BY <1>8, <2>1, <2>2
  <2> QED BY <2>1, <2>3
<1>9. 0..m \subseteq T
  <2>1. m \in Nat
    OBVIOUS
  <2> HIDE DEF T, m
  <2> QED BY <1>7, <1>8, <2>1, UpToInduction
<1> QED BY <1>1, <1>6, <1>9
-----------------------------------------------------------------------------
(***************************************************************************)
(* head: what it has written and queued at each point of its loops.        *)
(***************************************************************************)
\* The position before the first string of operand k's header.
Blank(k) == IF \A j \in 1..(k-1) : start[j] = -1 THEN -3 ELSE -4

\* Bytes read and not printed.
Lost == IF nflag = 0 THEN 0 ELSE BufSize - 1

\* Without operands, what is left of standard input.
LeftOver(o) ==
  args = <<>> =>
    \E t \in Nat : /\ CutAt(stdin, 0, Len(stdin), nflag, t)
                   /\ o = Piece(1, 0, t)
                   /\ t <= offset[0] /\ offset[0] - t <= Lost

InHeader ==
  \E x \in Seq(H!Symbol) :
    /\ Heads(cur - 1, x)
    /\ Blank(cur) < part /\ part <= 0
    /\ out \o iov = x \o Piece(cur, Blank(cur), part - 1)

BeforeStream ==
  \E x \in Seq(H!Symbol) :
    Heads(cur - 1, x) /\ out \o iov = x \o H!HeaderOf(cur)

InStream ==
  \E x \in Seq(H!Symbol), t \in Nat :
    /\ Heads(cur - 1, x)
    /\ out \o iov = (x \o H!HeaderOf(cur)) \o Piece(cur, start[cur], start[cur] + t)
    /\ CutAt(H!Stream, start[cur], offset[fd], nflag, t)
    /\ lines = nflag - LinesIn(H!Stream, start[cur] + 1, start[cur] + t)
    /\ offset[fd] - (start[cur] + t) <= Lost

HeadWrites ==
  cut = {} /\ nflag < UMod =>
    /\ pc = "open" => Heads(cur - 1, out \o iov)
    /\ pc = "header" => InHeader
    /\ pc = "flush0" => BeforeStream
    /\ pc = "read" => InStream
    /\ pc \in {"next", "flush"} => Heads(cur, out \o iov) /\ LeftOver(out \o iov)
    /\ status = "zero" => Heads(MaxArgs + 1, out) /\ LeftOver(out)

HeadGood == H!HeadAssumption /\ HeadPlaced /\ HeadWrites /\ cut = {} /\ nflag < UMod

LEMMA HeadFacts ==
  ASSUME H!HeadAssumption, HeadPlaced
  PROVE  /\ cur \in Nat \ {0} /\ cur - 1 \in Nat /\ cur \in H!Operands /\ 1 \in H!Operands
         /\ MaxArgs \in Nat /\ Len(args) \in Nat
         /\ out \in Seq(H!Symbol) /\ iov \in Seq(H!Symbol) /\ out \o iov \in Seq(H!Symbol)
         /\ \A k \in H!Operands : Len(H!StreamOf(k)) \in Nat
<1> USE DEF HeadPlaced, HeadTyped
<1>1. MaxArgs \in Nat /\ Content \subseteq Seq(Nat)
  BY DEF H!HeadAssumption
<1>2. cur \in Nat \ {0} /\ cur - 1 \in Nat /\ cur \in H!Operands /\ 1 \in H!Operands
  BY <1>1 DEF H!Operands
<1>3. ASSUME NEW k \in H!Operands PROVE Len(H!StreamOf(k)) \in Nat
  <2>1. CASE H!IsNamed(k)
    <3>1. k \in 1..Len(args) /\ args[k] # Dash
      BY <2>1 DEF H!IsNamed, H!Operands
    <3>2. args[k] \in Content
      BY <3>1, ElementOfSeq
    <3> QED BY <1>1, <2>1, <3>2 DEF H!StreamOf
  <2>2. CASE ~H!IsNamed(k)
    BY <1>1, <2>2 DEF H!StreamOf
  <2> QED BY <2>1, <2>2
<1>4. out \o iov \in Seq(H!Symbol)
  BY Joined
<1> QED BY <1>1, <1>2, <1>3, <1>4

LEMMA HeaderPiece ==
  ASSUME NEW k \in H!Operands
  PROVE  /\ H!HeaderOf(k) \in Seq(H!Symbol)
         /\ Len(args) < 2 => H!HeaderOf(k) = <<>>
         /\ ~(Len(args) < 2) => H!HeaderOf(k) = Piece(k, Blank(k), 0)
<1>1. CASE Len(args) < 2
  BY <1>1 DEF H!HeaderOf
<1>2. CASE ~(Len(args) < 2)
  <2>1. PICK h : h = <<<<k, -3>>, <<k, -2>>, <<k, -1>>, <<k, 0>>>>
    OBVIOUS
  <2>2. h \in Seq(H!Symbol) /\ Len(h) = 4 /\ h # <<>>
    BY <2>1 DEF H!Symbol
  <2>3. /\ Piece(k, -4, 0) \in Seq(H!Symbol) /\ Len(Piece(k, -4, 0)) = 4
        /\ Piece(k, -3, 0) \in Seq(H!Symbol) /\ Len(Piece(k, -3, 0)) = 3
    <3>1. \A a \in {-4, -3} : a \in Int /\ 0 \in Int /\ a <= 0
      OBVIOUS
    <3>2. \A a \in {-4, -3} : /\ Piece(k, a, 0) \in Seq(H!Symbol)
                             /\ Len(Piece(k, a, 0)) = 0 - a
      BY <3>1, PieceSeq
    <3>3. -4 \in {-4, -3} /\ -3 \in {-4, -3} /\ 0 - (-4) = 4 /\ 0 - (-3) = 3
      OBVIOUS
    <3>4. Piece(k, -4, 0) \in Seq(H!Symbol) /\ Len(Piece(k, -4, 0)) = 4
      BY <3>2, <3>3
    <3>5. Piece(k, -3, 0) \in Seq(H!Symbol) /\ Len(Piece(k, -3, 0)) = 3
      BY <3>2, <3>3
    <3> QED BY <3>4, <3>5
  <2>4. h = Piece(k, -4, 0)
    <3>1. \A j \in 1..4 : h[j] = Piece(k, -4, 0)[j]
      BY <2>1 DEF Piece
    <3> QED BY <2>2, <2>3, <3>1, SeqEqual
  <2>5. Tail(h) = Piece(k, -3, 0)
    <3>1. /\ Tail(h) \in Seq(H!Symbol) /\ Len(Tail(h)) = 3
          /\ \A j \in 1..3 : Tail(h)[j] = h[j+1]
      <4>1. PICK u : u = Tail(h)
        OBVIOUS
      <4>2. /\ u \in Seq(H!Symbol) /\ Len(u) = Len(h) - 1
            /\ \A j \in 1..Len(u) : u[j] = h[j+1]
        BY ONLY <2>2, <4>1, HeadTailProperties
      <4>3. Len(u) = 3
        BY <2>2, <4>2
      <4> QED BY <4>1, <4>2, <4>3
    <3>2. \A j \in 1..3 : h[j+1] = Piece(k, -3, 0)[j]
      BY <2>1 DEF Piece
    <3> QED BY <2>3, <3>1, <3>2, SeqEqual, ZenonT(40)
  <2>6. H!HeaderOf(k) = IF \A j \in 1..(k-1) : start[j] = -1 THEN Tail(h) ELSE h
    BY <1>2, <2>1 DEF H!HeaderOf
  <2> QED BY <1>2, <2>3, <2>4, <2>5, <2>6 DEF Blank
<1> QED BY <1>1, <1>2

LEMMA WantedPiece ==
  ASSUME NEW k \in H!Operands, start[k] \in Nat, Len(H!StreamOf(k)) \in Nat,
         start[k] <= Len(H!StreamOf(k)), NEW n \in Nat, NEW t,
         CutAt(H!StreamOf(k), start[k], Len(H!StreamOf(k)), n, t)
  PROVE  H!Wanted(k, n) = Piece(k, start[k], start[k] + t)
<1>1. H!Cardinality(H!FirstLines(H!StreamOf(k), start[k], Len(H!StreamOf(k)), n)) = t
  <2>1. PICK s, a, b : s = H!StreamOf(k) /\ a = start[k] /\ b = Len(H!StreamOf(k))
    OBVIOUS
  <2>2. Cardinality(H!FirstLines(s, a, b, n)) = t
    BY <2>1, FirstLinesCut
  <2> QED BY <2>1, <2>2, SameSize
<1>2. (start[k] + t) - start[k] = t
  BY DEF CutAt
<1> QED BY <1>1, <1>2 DEF H!Wanted, Piece

LEMMA WritesStart ==
  ASSUME HeadGood, H!Start
  PROVE  HeadWrites'
<1>1. cur = 1 /\ out = <<>> /\ iov = <<>> /\ status # "zero" /\ Heads(0, <<>>)'
  <2>1. cur = 1 /\ out = <<>> /\ iov = <<>> /\ status # "zero"
    BY DEF H!Start, HeadGood, HeadPlaced, AtHeader
  <2>2. UNCHANGED <<args, stdin, nflag, start>>
    BY DEF H!Start, H!given, H!place
  <2>3. Heads(0, <<>>)'
    BY <2>2, HeadsNone, HeadsKept
  <2> QED BY <2>1, <2>3
<1>2. cur' = 1 /\ out' = <<>> /\ iov' = <<>> /\ pc' = "open" /\ status' # "zero"
  BY <1>1 DEF H!Start, H!place, H!result
<1>3. out' \o iov' = <<>> /\ cur' - 1 = 0
  BY <1>2
<1>4. Heads(cur - 1, out \o iov)'
  BY <1>1, <1>3
<1> QED BY <1>2, <1>4 DEF HeadWrites

LEMMA WritesOpen ==
  ASSUME HeadGood, H!Open
  PROVE  HeadWrites'
<1> USE DEF HeadGood
<1>0. /\ cur \in Nat \ {0} /\ cur - 1 \in Nat /\ cur \in H!Operands
      /\ out \o iov \in Seq(H!Symbol) /\ Len(args) \in Nat
      /\ start \in [H!Operands -> Int] /\ MaxArgs \in Nat
  BY HeadFacts DEF HeadPlaced, HeadTyped
<1>1. /\ UNCHANGED <<args, stdin, nflag, cur, out, iov>> /\ status' # "zero"
      /\ \A k \in 1..(cur-1) : start'[k] = start[k]
      /\ \A k \in H!Operands : k > cur => start'[k] = -1
  BY <1>0 DEF H!Open, H!given, H!result, HeadPlaced, AtHeader, AtOperand, H!Operands
<1>2. PICK c, x : c = cur - 1 /\ x = out \o iov
  OBVIOUS
<1>3. Heads(c, x) /\ c \in Nat
  BY <1>0, <1>2 DEF HeadWrites, H!Open
<1>4. Heads(c, x)'
  BY <1>1, <1>2, <1>3, HeadsKept
<1>5. cur' - 1 = c /\ out' \o iov' = x /\ x \in Seq(H!Symbol)
  BY <1>0, <1>1, <1>2
<1>6. /\ header = IF Len(args) < 2 THEN 0 ELSE IF NoneOpened THEN 1 ELSE 2
  BY DEF H!Open, HeadPlaced, AtHeader
<1>7. CASE header = 0
  <2>1. pc' = "flush0" /\ Len(args') < 2
    BY <1>1, <1>6, <1>7 DEF H!Open
  <2>2. H!HeaderOf(cur)' = <<>>
    BY <2>1 DEF H!HeaderOf
  <2>3. x \o <<>> = x
    BY <1>5, ConcatEmptySeq
  <2>4. BeforeStream'
    BY <1>4, <1>5, <2>2, <2>3 DEF BeforeStream
  <2> QED BY <1>1, <2>1, <2>4 DEF HeadWrites
<1>8. CASE header # 0
  <2>1. pc' = "header" /\ part' = IF NoneOpened THEN -2 ELSE -3
    BY <1>6, <1>8 DEF H!Open
  <2>2. Blank(cur)' = IF NoneOpened THEN -3 ELSE -4
    <3>1. NoneOpened <=> \A j \in 1..(cur'-1) : start'[j] = -1
      BY <1>0, <1>1 DEF NoneOpened, H!Open, HeadPlaced, AtOperand, H!Operands
    <3> QED BY <3>1 DEF Blank
  <2>3. Piece(cur', Blank(cur)', part' - 1) = <<>>
    <3>1. Blank(cur)' \in Int /\ part' - 1 = Blank(cur)'
      BY <2>1, <2>2
    <3> QED BY <1>0, <1>1, <3>1, PieceNone
  <2>4. x \o <<>> = x
    BY <1>5, ConcatEmptySeq
  <2>5. InHeader'
    <3>1. Blank(cur)' < part' /\ part' <= 0
      BY <2>1, <2>2
    <3> QED BY <1>4, <1>5, <2>3, <2>4, <3>1 DEF InHeader
  <2> QED BY <1>1, <2>1, <2>5 DEF HeadWrites
<1> QED BY <1>7, <1>8

LEMMA WritesQueuePart ==
  ASSUME HeadGood, H!QueuePart
  PROVE  HeadWrites'
<1> USE DEF HeadGood
<1>0. /\ cur \in Nat \ {0} /\ cur - 1 \in Nat /\ cur \in H!Operands
      /\ out \o iov \in Seq(H!Symbol) /\ Len(args) \in Nat
  BY HeadFacts
<1>1. /\ UNCHANGED <<args, stdin, nflag, cur, start, status>> /\ status # "zero"
      /\ pc = "header" /\ Len(args) >= 2 /\ part \in Int
  BY DEF H!QueuePart, H!given, H!place, H!result, HeadPlaced, AtHeader, HeadTyped
<1>2. PICK x \in Seq(H!Symbol) :
        /\ Heads(cur - 1, x)
        /\ Blank(cur) < part /\ part <= 0
        /\ out \o iov = x \o Piece(cur, Blank(cur), part - 1)
  BY <1>1 DEF HeadWrites, InHeader
<1>3. PICK c, b : c = cur - 1 /\ b = Blank(cur)
  OBVIOUS
<1>4. Heads(c, x)' /\ b \in Int /\ Blank(cur)' = b /\ c = cur' - 1
  <2>1. Heads(c, x)'
    BY <1>0, <1>1, <1>2, <1>3, HeadsKept
  <2> QED BY <1>1, <1>3, <2>1 DEF Blank
<1>5. out' \o iov' = x \o Piece(cur, b, part)
  <2>1. b <= part - 1 /\ (part - 1) + 1 = part /\ part - 1 \in Int
    BY <1>1, <1>2, <1>3, <1>4
  <2>2. Piece(cur, b, part - 1) \o <<<<cur, part>>>> = Piece(cur, b, part)
    BY <1>0, <1>4, <2>1, PieceAdd
  <2>3. Piece(cur, b, part - 1) \in Seq(H!Symbol)
    BY <1>0, <1>4, <2>1, PieceSeq
  <2>4. <<<<cur, part>>>> \in Seq(H!Symbol)
    BY <1>0, <1>1 DEF H!Symbol
  <2>5. out' \o iov' = (out \o iov) \o <<<<cur, part>>>>
    BY PartQueued DEF HeadPlaced
  <2>6. PICK s, u : s = Piece(cur, b, part - 1) /\ u = <<<<cur, part>>>>
    OBVIOUS
  <2>7. (x \o s) \o u = x \o (s \o u)
    BY <2>3, <2>4, <2>6, Joined
  <2> QED BY <1>2, <1>3, <2>2, <2>5, <2>6, <2>7
<1>6. CASE part < 0
  <2>1. pc' = "header" /\ part' = part + 1
    BY <1>6 DEF H!QueuePart
  <2>2. part' - 1 = part /\ b < part' /\ part' <= 0
    BY <1>1, <1>2, <1>3, <1>4, <1>6, <2>1
  <2>3. InHeader'
    BY <1>1, <1>4, <1>5, <2>2 DEF InHeader
  <2> QED BY <1>1, <2>1, <2>3 DEF HeadWrites
<1>7. CASE ~(part < 0)
  <2>1. pc' = "flush0" /\ part = 0
    BY <1>1, <1>2, <1>7 DEF H!QueuePart
  <2>2. H!HeaderOf(cur) = Piece(cur, b, 0)
    BY <1>0, <1>1, <1>3, HeaderPiece
  <2>3. H!HeaderOf(cur)' = H!HeaderOf(cur)
    BY <1>1 DEF H!HeaderOf
  <2>4. BeforeStream'
    BY <1>1, <1>4, <1>5, <2>1, <2>2, <2>3 DEF BeforeStream
  <2> QED BY <1>1, <2>1, <2>4 DEF HeadWrites
<1> QED BY <1>6, <1>7

\* What head may go over to read with: nothing of the stream is printed yet.
LEMMA WritesReadyToRead ==
  ASSUME HeadGood, H!ReadyToRead
  PROVE  HeadWrites'
<1> USE DEF HeadGood
<1>0. /\ cur \in Nat \ {0} /\ cur - 1 \in Nat /\ cur \in H!Operands
      /\ out \o iov \in Seq(H!Symbol)
  BY HeadFacts
<1>1. /\ UNCHANGED <<args, stdin, nflag, cur, fd, offset, start>> /\ status' # "zero"
      /\ pc = "flush0" /\ pc' = "read" /\ lines' = nflag % UMod
  BY DEF H!ReadyToRead, H!given, H!place, H!result, HeadPlaced, AtHeader, H!Unsigned
<1>2. /\ start[cur] \in Nat /\ start[cur] = offset[fd]
      /\ nflag \in Nat /\ UMod \in Nat \ {0} /\ BufSize \in Nat \ {0}
  BY <1>1 DEF HeadPlaced, AtByte, AtHeader, H!HeadAssumption
<1>3. PICK x \in Seq(H!Symbol) : Heads(cur - 1, x) /\ out \o iov = x \o H!HeaderOf(cur)
  BY <1>1 DEF HeadWrites, BeforeStream
<1>4. PICK c, s : c = cur - 1 /\ s = H!Stream
  OBVIOUS
<1>5. Heads(c, x)' /\ c = cur' - 1
  BY <1>0, <1>1, <1>3, <1>4, HeadsKept
<1>6. H!HeaderOf(cur)' = H!HeaderOf(cur) /\ H!Stream' = s
  BY <1>1, <1>4 DEF H!HeaderOf, H!Stream, H!StreamOf, H!IsNamed
<1>7. lines' = nflag
  BY <1>1, <1>2
<1>8. LinesIn(s, start[cur] + 1, start[cur] + 0) = 0
  BY <1>2, LinesCounted, TallyNone
<1>9. CutAt(s, start[cur], offset[fd], nflag, 0) /\ offset[fd] - (start[cur] + 0) <= Lost
  BY <1>2 DEF CutAt, Lost
<1>10. Lost' = Lost
  BY <1>1 DEF Lost
<1>11. out' \o iov' = (x \o H!HeaderOf(cur)) \o Piece(cur, start[cur], start[cur] + 0)
  <2>1. Piece(cur, start[cur], start[cur] + 0) = <<>>
    <3>1. start[cur] + 0 = start[cur] /\ start[cur] \in Int
      BY <1>2
    <3> QED BY <1>0, <3>1, PieceNone
  <2>2. out' \o iov' = out \o iov
    BY QueueWritten DEF HeadPlaced
  <2>3. PICK o : o = out \o iov
    OBVIOUS
  <2>4. o \o <<>> = o
    BY <1>0, <2>3, ConcatEmptySeq
  <2> QED BY <1>3, <2>1, <2>2, <2>3, <2>4
<1>12. lines' = nflag - LinesIn(s, start[cur] + 1, start[cur] + 0)
  BY <1>2, <1>7, <1>8
<1>13. InStream'
  BY <1>1, <1>5, <1>6, <1>9, <1>10, <1>11, <1>12 DEF InStream
<1> QED BY <1>1, <1>13 DEF HeadWrites

\* The facts about the operand that is read.
Reading(x, t) ==
  /\ Heads(cur - 1, x)
  /\ out \o iov = (x \o H!HeaderOf(cur)) \o Piece(cur, start[cur], start[cur] + t)
  /\ CutAt(H!Stream, start[cur], offset[fd], nflag, t)
  /\ lines = nflag - LinesIn(H!Stream, start[cur] + 1, start[cur] + t)
  /\ offset[fd] - (start[cur] + t) <= Lost

LEMMA ReadingFacts ==
  ASSUME HeadGood, pc = "read"
  PROVE  /\ \E x \in Seq(H!Symbol), t \in Nat : Reading(x, t)
         /\ start[cur] \in Nat /\ offset[fd] \in Nat /\ start[cur] <= offset[fd]
         /\ offset[fd] <= Len(H!Stream) /\ Len(H!Stream) \in Nat
         /\ H!Stream = H!StreamOf(cur)
         /\ nflag \in Nat /\ lines \in Nat /\ BufSize \in Nat \ {0}
         /\ fd \in H!FD /\ offset \in [H!FD -> Nat] /\ status # "zero"
<1>1. \E x \in Seq(H!Symbol), t \in Nat : Reading(x, t)
  BY DEF HeadGood, HeadWrites, InStream, Reading
<1>2. Len(H!Stream) \in Nat /\ H!Stream = H!StreamOf(cur)
  BY HeadFacts DEF HeadGood, H!Stream
<1> QED
  BY <1>1, <1>2 DEF HeadGood, HeadPlaced, HeadTyped, AtByte, AtHeader, H!HeadAssumption

LEMMA WritesReadChunk ==
  ASSUME HeadGood, NEW m \in 1..BufSize, H!ReadChunk(m)
  PROVE  HeadWrites'
<1>1. /\ UNCHANGED <<args, stdin, nflag, cur, fd, start, status>>
      /\ pc = "read" /\ pc' = "read" /\ iov' = <<>> /\ lines # 0
      /\ offset' = [offset EXCEPT ![fd] = @ + m]
  BY DEF H!ReadChunk, H!given, H!place, H!result, H!LinesWanted
<1>2. /\ cur - 1 \in Nat /\ cur \in H!Operands
      /\ out \in Seq(H!Symbol) /\ iov \in Seq(H!Symbol) /\ out \o iov \in Seq(H!Symbol)
  BY HeadFacts DEF HeadGood
<1>3. /\ start[cur] \in Nat /\ offset[fd] \in Nat /\ start[cur] <= offset[fd]
      /\ nflag \in Nat /\ lines \in Nat /\ BufSize \in Nat \ {0} /\ m \in Nat
      /\ fd \in H!FD /\ offset \in [H!FD -> Nat] /\ status # "zero"
  BY <1>1, ReadingFacts
<1>4. PICK x \in Seq(H!Symbol), t \in Nat : Reading(x, t)
  BY <1>1, ReadingFacts
<1>5. PICK a, b, s, h : a = start[cur] /\ b = offset[fd] /\ s = H!Stream
                        /\ h = H!HeaderOf(cur)
  OBVIOUS
<1>6. PICK u \in 0..m :
        /\ CutAt(s, b, b + m, lines, u)
        /\ out' = (out \o iov) \o Piece(cur, b, b + u)
        /\ lines' = lines - LinesIn(s, b + 1, b + u)
  BY <1>5, ChunkCut DEF HeadGood, HeadPlaced
<1>7. t = b - a /\ LinesIn(s, a + 1, a + t) \in Nat
  <2>1. LinesIn(s, a + 1, a + t) \in Nat
    BY <1>3, <1>5, LinesCounted, TallyType
  <2>2. ~(LinesIn(s, a + 1, a + t) >= nflag)
    BY <1>1, <1>3, <1>4, <1>5, <2>1 DEF Reading
  <2> QED BY <1>3, <1>4, <1>5, <2>1, <2>2, SMTT(30) DEF Reading, CutAt
<1>8. /\ a \in Nat /\ b \in Nat /\ a <= b /\ m \in Nat /\ m >= 1 /\ u \in Nat
       /\ lines \in Nat /\ lines > 0 /\ nflag \in Nat /\ t \in Nat /\ t = b - a
  <2>1. a \in Nat /\ b \in Nat /\ a <= b
    BY <1>3, <1>5
  <2>2. m >= 1 /\ m \in Nat
    BY <1>3
  <2> QED BY <1>1, <1>3, <1>6, <1>7, <2>1, <2>2
<1>9. /\ CutAt(s, a, b + m, nflag, t + u)
      /\ LinesIn(s, a + 1, b + u) = LinesIn(s, a + 1, b) + LinesIn(s, b + 1, b + u)
      /\ u > 0
  <2>1. /\ a \in Nat /\ b \in Nat /\ b + m \in Nat /\ a <= b /\ b <= b + m /\ b + m > b
        /\ a + t = b
    BY ONLY <1>8
  <2>2. CutAt(s, a, b, nflag, b - a) /\ lines = nflag - LinesIn(s, a + 1, b)
    BY <1>4, <1>5, <1>7, <2>1 DEF Reading
  <2>3. CutAt(s, b, b + m, lines, u)
    BY <1>6
  <2>4. PICK c, l, n : c = b + m /\ l = lines /\ n = nflag
    OBVIOUS
  <2>5. /\ CutAt(s, a, c, n, t + u)
        /\ LinesIn(s, a + 1, b + u) = LinesIn(s, a + 1, b) + LinesIn(s, b + 1, b + u)
    <3>1. /\ a \in Nat /\ b \in Nat /\ c \in Nat /\ a <= b /\ b <= c /\ n \in Nat
          /\ l \in Nat /\ l > 0
      BY <1>8, <2>1, <2>4
    <3>2. /\ t \in Nat /\ t = b - a /\ CutAt(s, a, b, n, t) /\ l = n - LinesIn(s, a + 1, b)
          /\ CutAt(s, b, c, l, u)
      BY <1>8, <2>2, <2>3, <2>4
    <3>3. CutAt(s, a, c, n, t + u)
      BY ONLY <3>1, <3>2, CutOn
    <3>4. LinesIn(s, a + 1, b + u) = LinesIn(s, a + 1, b) + LinesIn(s, b + 1, b + u)
      <4>1. a + 1 \in Int /\ b \in Int /\ a + 1 <= b + 1 /\ u \in Nat
        BY ONLY <1>8
      <4> QED BY ONLY <4>1, LinesSplit
    <3> QED BY <3>3, <3>4
  <2>6. u > 0
    BY <1>8, <2>1, <2>3, CutBegins
  <2> QED BY <1>8, <2>1, <2>4, <2>5, <2>6
<1>10. /\ a + t = b /\ a + (t + u) = b + u /\ offset'[fd] = b + m /\ a \in Int /\ b \in Int
      /\ b + u \in Int /\ a <= b /\ b <= b + u /\ t + u \in Nat
  <2>1. offset'[fd] = b + m
    BY <1>1, <1>3, <1>5
  <2>2. /\ a + t = b /\ a + (t + u) = b + u /\ a \in Int /\ b \in Int
        /\ b + u \in Int /\ a <= b /\ b <= b + u /\ t + u \in Nat
    BY ONLY <1>8
  <2> QED BY <2>1, <2>2
<1>11. lines' = nflag - LinesIn(s, a + 1, a + (t + u))
  <2>1. lines = nflag - LinesIn(s, a + 1, b) /\ LinesIn(s, a + 1, b) \in Nat
    BY <1>4, <1>5, <1>7, <1>10 DEF Reading
  <2>2. LinesIn(s, b + 1, b + u) \in Nat
    BY <1>10, LinesCounted, TallyType
  <2>3. PICK k, l : k = LinesIn(s, a + 1, b) /\ l = LinesIn(s, b + 1, b + u)
    OBVIOUS
  <2>4. LinesIn(s, a + 1, a + (t + u)) = k + l
    BY <1>9, <1>10, <2>3
  <2>5. lines' = lines - l /\ lines = nflag - k /\ k \in Nat /\ l \in Nat
    BY <1>6, <2>1, <2>2, <2>3
  <2> QED BY <1>8, <2>4, <2>5
<1>12. out' \o iov' = (x \o h) \o Piece(cur, a, a + (t + u))
  <2>1. Piece(cur, a, b) \o Piece(cur, b, b + u) = Piece(cur, a, b + u)
    BY <1>2, <1>10, PieceOn, ZenonT(40)
  <2>2. Piece(cur, a, b) \in Seq(H!Symbol) /\ Piece(cur, b, b + u) \in Seq(H!Symbol)
    BY <1>2, <1>10, PieceSeq
  <2>3. PICK y, p, q, o : /\ y = x \o h /\ p = Piece(cur, a, b)
                          /\ q = Piece(cur, b, b + u) /\ o = out \o iov
    OBVIOUS
  <2>4. y \in Seq(H!Symbol)
    BY <1>2, <1>5, <2>3, HeaderPiece, Joined
  <2>5. o = y \o p /\ out' = o \o q
    BY <1>4, <1>5, <1>6, <1>10, <2>3 DEF Reading
  <2>6. (y \o p) \o q = y \o (p \o q) /\ o \o q \in Seq(H!Symbol)
    BY <1>2, <2>2, <2>3, <2>4, Joined, ZenonT(40)
  <2>7. out' \o iov' = o \o q
    BY <1>1, <2>5, <2>6, ConcatEmptySeq
  <2> QED BY <1>10, <2>1, <2>3, <2>5, <2>6, <2>7
<1>13. (b + m) - (a + (t + u)) <= Lost
  <2>1. nflag # 0
    BY <1>1, <1>3, <1>4, <1>5, <1>7 DEF Reading
  <2>2. m <= BufSize
    BY <1>3
  <2> QED BY <1>3, <1>9, <1>10, <2>1, <2>2 DEF Lost
<1>14. PICK c : c = cur - 1
  OBVIOUS
<1>15. Heads(c, x)' /\ c = cur' - 1
  BY <1>1, <1>2, <1>4, <1>14, HeadsKept DEF Reading
<1>16. H!HeaderOf(cur)' = h /\ H!Stream' = s /\ Lost' = Lost /\ start'[cur'] = a
       /\ cur' = cur /\ offset'[fd'] = b + m /\ nflag' = nflag
  BY <1>1, <1>5, <1>10 DEF H!HeaderOf, H!Stream, H!StreamOf, H!IsNamed, Lost
<1>17. InStream'
  BY <1>9, <1>10, <1>11, <1>12, <1>13, <1>15, <1>16 DEF InStream
<1> QED BY <1>1, <1>3, <1>17 DEF HeadWrites

\* The lines are printed, or the stream has ended: operand cur is done.
LEMMA WritesReadEnd ==
  ASSUME HeadGood, H!ReadEnd
  PROVE  HeadWrites'
<1>1. /\ UNCHANGED <<args, stdin, nflag, cur, fd, offset, start, status, out, iov>>
      /\ pc = "read" /\ pc' = "next" /\ (lines = 0 \/ Len(H!Stream) - offset[fd] = 0)
  BY DEF H!ReadEnd, H!given, H!place, H!queue, H!result, H!LinesWanted, H!Left
<1>2. /\ cur \in Nat \ {0} /\ cur - 1 \in Nat /\ cur \in H!Operands
      /\ out \o iov \in Seq(H!Symbol) /\ Len(args) \in Nat
  BY HeadFacts DEF HeadGood
<1>3. /\ start[cur] \in Nat /\ offset[fd] \in Nat /\ start[cur] <= offset[fd]
      /\ offset[fd] <= Len(H!Stream) /\ Len(H!Stream) \in Nat
      /\ H!Stream = H!StreamOf(cur)
      /\ nflag \in Nat /\ lines \in Nat /\ status # "zero"
  BY <1>1, ReadingFacts
<1>4. PICK x \in Seq(H!Symbol), t \in Nat : Reading(x, t)
  BY <1>1, ReadingFacts
<1>5. PICK a, b, s, e, o :
        a = start[cur] /\ b = offset[fd] /\ s = H!Stream /\ e = Len(s) /\ o = out \o iov
  OBVIOUS
<1>6. /\ a \in Nat /\ b \in Nat /\ a <= b /\ b <= e /\ e \in Nat
      /\ LinesIn(s, a + 1, a + t) \in Nat
  <2>1. a \in Nat /\ b \in Nat /\ a <= b /\ b <= e /\ e \in Nat
    BY <1>3, <1>5
  <2>2. LinesIn(s, a + 1, a + t) \in Nat
    BY <2>1, LinesCounted, TallyType
  <2> QED BY <2>1, <2>2
<1>7. CutAt(s, a, e, nflag, t)
  <2>1. CutAt(s, a, b, nflag, t) /\ lines = nflag - LinesIn(s, a + 1, a + t)
    BY <1>4, <1>5 DEF Reading
  <2>2. CASE lines = 0
    <3>1. LinesIn(s, a + 1, a + t) >= nflag
      BY <1>3, <1>6, <2>1, <2>2
    <3> QED BY <1>6, <2>1, <3>1 DEF CutAt
  <2>3. CASE lines # 0
    <3>1. b = e
      BY <1>1, <1>5, <1>6, <2>3
    <3> QED BY <2>1, <3>1
  <2> QED BY <2>2, <2>3
<1>8. H!Wanted(cur, nflag) = Piece(cur, a, a + t)
  <2>1. /\ start[cur] \in Nat /\ Len(H!StreamOf(cur)) \in Nat
        /\ start[cur] <= Len(H!StreamOf(cur))
    BY <1>3, <1>5, <1>6
  <2>2. CutAt(H!StreamOf(cur), start[cur], Len(H!StreamOf(cur)), nflag, t)
    BY <1>3, <1>5, <1>7
  <2>3. H!Wanted(cur, nflag) = Piece(cur, start[cur], start[cur] + t)
    BY <1>2, <1>3, <2>1, <2>2, WantedPiece
  <2> QED BY <1>5, <2>3
<1>9. o = Add(cur, x)
  <2>1. Add(cur, x) = x \o H!HeaderOf(cur) \o H!Wanted(cur, nflag)
    BY <1>3 DEF Add
  <2>2. o = (x \o H!HeaderOf(cur)) \o Piece(cur, a, a + t)
    BY <1>4, <1>5 DEF Reading
  <2> QED BY <1>8, <2>1, <2>2
<1>10. Heads(cur, o)
  <2>1. PICK c : c = cur - 1
    OBVIOUS
  <2>2. Heads(c, x) /\ c \in Nat /\ c + 1 = cur
    BY <1>2, <1>4, <2>1 DEF Reading
  <2> QED BY <1>9, <2>2, HeadsMore
<1>11. PICK k : k = cur
  OBVIOUS
<1>12. Heads(k, o)'
  BY <1>1, <1>2, <1>10, <1>11, HeadsKept
<1>13. LeftOver(o)
  <2> SUFFICES ASSUME args = <<>>
               PROVE  \E u \in Nat : /\ CutAt(stdin, 0, Len(stdin), nflag, u)
                                     /\ o = Piece(1, 0, u)
                                     /\ u <= offset[0] /\ offset[0] - u <= Lost
    BY DEF LeftOver
  <2>1. Len(args) = 0
    OBVIOUS
  <2>2. cur = 1 /\ ~H!IsNamed(cur) /\ s = stdin
    BY <1>2, <1>5, <2>1 DEF HeadGood, HeadPlaced, AtOperand, H!Stream, H!StreamOf, H!IsNamed
  <2>3. a = 0 /\ fd = 0
    BY <1>1, <1>3, <1>5, <2>2 DEF HeadGood, HeadPlaced, AtOperand, AtByte
  <2>4. x = <<>>
    BY <1>4, <2>2, HeadsOne DEF Reading
  <2>5. H!HeaderOf(cur) = <<>>
    BY <2>1 DEF H!HeaderOf
  <2>6. o = Piece(1, 0, t)
    <3>1. Piece(1, 0, t) \in Seq(H!Symbol)
      <4>1. 1 \in H!Operands /\ 0 \in Int /\ t \in Int /\ 0 <= t
        BY <1>2, <2>2
      <4> QED BY <4>1, PieceSeq
    <3>2. PICK p : p = Piece(1, 0, t)
      OBVIOUS
    <3>3. (<<>> \o <<>>) \o p = p
      BY <3>1, <3>2, ConcatEmptySeq
    <3>4. a + t = t
      BY <2>3
    <3> QED BY <1>4, <1>5, <2>2, <2>3, <2>4, <2>5, <3>2, <3>3, <3>4 DEF Reading
  <2>7. t <= b /\ b - t <= Lost /\ b = offset[0]
    BY <1>4, <1>5, <1>6, <2>3 DEF Reading, CutAt
  <2> QED BY <1>5, <1>7, <2>2, <2>3, <2>6, <2>7
<1>14. LeftOver(o)'
  BY <1>1, <1>13 DEF LeftOver, Lost
<1>15. cur' = k /\ out' \o iov' = o
  BY <1>1, <1>5, <1>11
<1> QED BY <1>1, <1>3, <1>12, <1>14, <1>15 DEF HeadWrites

LEMMA WritesOpenFails ==
  ASSUME HeadGood, H!OpenFails
  PROVE  HeadWrites'
<1>1. /\ UNCHANGED <<args, stdin, nflag, cur, start, status, out, iov>>
      /\ pc = "open" /\ pc' = "next" /\ H!IsNamed(cur) /\ status # "zero"
  BY DEF H!OpenFails, H!given, H!place, H!queue, HeadGood, HeadPlaced, AtHeader
<1>2. /\ cur \in Nat \ {0} /\ cur - 1 \in Nat /\ cur \in H!Operands
  BY HeadFacts DEF HeadGood
<1>3. PICK c, k, o : c = cur - 1 /\ k = cur /\ o = out \o iov
  OBVIOUS
<1>4. Heads(c, o) /\ c \in Nat /\ c + 1 = k
  BY <1>1, <1>2, <1>3 DEF HeadGood, HeadWrites
<1>5. Add(k, o) = o
  BY <1>1, <1>2, <1>3 DEF Add, HeadGood, HeadPlaced, AtOperand
<1>6. Heads(k, o)
  BY <1>4, <1>5, HeadsMore
<1>7. Heads(k, o)'
  BY <1>1, <1>2, <1>3, <1>6, HeadsKept
<1>8. args' # <<>>
  BY <1>1, <1>2 DEF H!IsNamed
<1>9. cur' = k /\ out' \o iov' = o
  BY <1>1, <1>3
<1> QED BY <1>1, <1>7, <1>8, <1>9 DEF HeadWrites, LeftOver

LEMMA WritesNextOperand ==
  ASSUME HeadGood, H!NextOperand
  PROVE  HeadWrites'
<1>1. /\ UNCHANGED <<args, stdin, nflag, start, offset, status, out, iov>>
      /\ pc = "next" /\ status # "zero"
      /\ (cur' = cur + 1 /\ pc' = "open") \/ (cur' = cur /\ pc' = "flush")
  BY DEF H!NextOperand, H!given, H!queue, H!result, HeadGood, HeadPlaced, AtHeader
<1>2. cur \in Nat
  BY HeadFacts DEF HeadGood
<1>3. PICK k, o : k = cur /\ o = out \o iov
  OBVIOUS
<1>4. Heads(k, o) /\ LeftOver(o)
  BY <1>1, <1>3 DEF HeadGood, HeadWrites
<1>5. Heads(k, o)' /\ LeftOver(o)'
  <2>1. Heads(k, o)'
    BY <1>1, <1>2, <1>3, <1>4, HeadsKept
  <2>2. LeftOver(o)'
    BY <1>1, <1>4 DEF LeftOver, Lost
  <2> QED BY <2>1, <2>2
<1>6. out' \o iov' = o
  BY <1>1, <1>3
<1>7. CASE cur' = cur + 1 /\ pc' = "open"
  <2>1. cur' - 1 = k
    BY <1>2, <1>3, <1>7
  <2> QED BY <1>1, <1>5, <1>6, <1>7, <2>1 DEF HeadWrites
<1>8. CASE cur' = cur /\ pc' = "flush"
  BY <1>1, <1>3, <1>5, <1>6, <1>8 DEF HeadWrites
<1> QED BY <1>1, <1>7, <1>8

LEMMA WritesExit ==
  ASSUME HeadGood, H!Exit
  PROVE  HeadWrites'
<1>1. /\ UNCHANGED <<args, stdin, nflag, start, offset>>
      /\ pc = "flush" /\ pc' = "exited" /\ out' = out \o iov
  BY DEF H!Exit, H!given, H!place
<1>2. /\ cur \in Nat \ {0} /\ cur \in H!Operands /\ Len(args) \in Nat /\ MaxArgs \in Nat
  BY HeadFacts DEF HeadGood
<1>3. PICK k, o, m : k = cur /\ o = out \o iov /\ m = MaxArgs + 1
  OBVIOUS
<1>4. Heads(k, o) /\ LeftOver(o)
  BY <1>1, <1>3 DEF HeadGood, HeadWrites
<1>5. k \in Nat /\ m \in Nat /\ k <= m /\ \A j \in (k+1)..m : start[j] = -1
  BY <1>2, <1>3 DEF HeadGood, HeadPlaced, AtOperand, H!Operands
<1>6. Heads(m, o)
  BY <1>4, <1>5, HeadsSkip
<1>7. Heads(m, o)'
  BY <1>1, <1>5, <1>6, HeadsKept
<1>8. LeftOver(o)'
  BY <1>1, <1>4 DEF LeftOver, Lost
<1> QED BY <1>1, <1>3, <1>7, <1>8 DEF HeadWrites

LEMMA HeadWritesInit == H!Init => HeadWrites
BY DEF H!Init, HeadWrites

LEMMA HeadWritesNext ==
  H!HeadAssumption /\ HeadPlaced /\ HeadWrites /\ [H!Next]_(H!vars) => HeadWrites'
<1> SUFFICES ASSUME H!HeadAssumption, HeadPlaced, HeadWrites, [H!Next]_(H!vars),
                    cut' = {}, nflag' < UMod
             PROVE  HeadWrites'
  BY DEF HeadWrites
<1>1. CASE UNCHANGED H!vars
  <2>1. /\ UNCHANGED <<args, stdin, nflag, start, cur, fd, part, iov, lines, out, offset,
                       cut, pc, status>>
    BY <1>1 DEF H!vars, H!given, H!place, H!queue, H!result
  <2>2. \A c \in Nat : \A x : Heads(c, x) => Heads(c, x)'
    <3> SUFFICES ASSUME NEW c \in Nat, NEW x, Heads(c, x) PROVE Heads(c, x)'
      OBVIOUS
    <3> QED BY <2>1, HeadsKept
  <2>3. \A x : LeftOver(x) => LeftOver(x)'
    BY <2>1 DEF LeftOver, Lost
  <2>4. /\ H!HeaderOf(cur)' = H!HeaderOf(cur) /\ H!Stream' = H!Stream
        /\ Lost' = Lost /\ Blank(cur)' = Blank(cur)
    BY <2>1 DEF H!HeaderOf, H!Stream, H!StreamOf, H!IsNamed, Lost, Blank
  <2>5. /\ cur \in Nat /\ cur - 1 \in Nat /\ MaxArgs + 1 \in Nat /\ cur' = cur
        /\ cur' - 1 = cur - 1 /\ out' \o iov' = out \o iov /\ out' = out
        /\ cut = {} /\ nflag < UMod
    BY <2>1, HeadFacts
  <2>6. InHeader => InHeader'
    BY <2>1, <2>2, <2>4, <2>5 DEF InHeader
  <2>7. BeforeStream => BeforeStream'
    BY <2>2, <2>4, <2>5 DEF BeforeStream
  <2>8. InStream => InStream'
    BY <2>1, <2>2, <2>4, <2>5 DEF InStream
  <2> QED BY <2>1, <2>2, <2>3, <2>5, <2>6, <2>7, <2>8 DEF HeadWrites
<1>2. CASE H!Next
  <2>1. cut = {} /\ nflag < UMod
    BY <1>2 DEF H!Next, H!RejectOptions, H!Start, H!Open, H!OpenFails, H!QueuePart,
      H!ReadyToRead, H!ReadChunk, H!ReadEnd, H!ReadFails, H!NextOperand, H!Exit,
      H!WriteFails, H!ErrorExit, H!given, H!result
  <2>2. HeadGood
    BY <2>1 DEF HeadGood
  <2>3. CASE H!RejectOptions \/ H!WriteFails
    <3>1. pc' = "exited" /\ status' = "error"
      BY <2>3 DEF H!RejectOptions, H!WriteFails, H!ErrorExit
    <3> QED BY <3>1 DEF HeadWrites
  <2>4. ~H!ReadFails
    BY DEF H!ReadFails
  <2> QED
    BY <1>2, <2>2, <2>3, <2>4, WritesStart, WritesOpen, WritesOpenFails, WritesQueuePart,
      WritesReadyToRead, WritesReadChunk, WritesReadEnd, WritesNextOperand, WritesExit
      DEF H!Next
<1> QED BY <1>1, <1>2

\* For every size of the queue and of the reads, all operands and every -n an
\* unsigned can hold, head's output is the headers and first lines of the
\* operands it could open, in their order (head.c:53-109).
THEOREM HeadsWritten == Spec => []WritesHeads
<1> DEFINE Inv == HeadRuns => HeadPlaced /\ HeadWrites
<1>1. Init => Inv
  BY FiltersAssumption, HeadPlacedInit, HeadWritesInit DEF Init, HeadRuns
<1>2. Inv /\ [Next]_vars => Inv'
  BY FiltersAssumption, HeadSteps, HeadPlacedNext, HeadWritesNext
<1>3. Inv => WritesHeads
  <2> SUFFICES ASSUME HeadPlaced, HeadWrites, status = "zero", cut = {}, nflag < UMod
               PROVE  out = H!HeadsOf(nflag)
    BY DEF WritesHeads, H!WritesHeads, HeadRuns
  <2>1. MaxArgs \in Nat /\ Heads(MaxArgs + 1, out)
    BY FiltersAssumption DEF H!HeadAssumption, HeadWrites
  <2> QED BY <2>1, HeadsAll
<1> QED BY <1>1, <1>2, <1>3, PTL DEF Spec
-----------------------------------------------------------------------------
(***************************************************************************)
(* cat, from the start or behind head.                                     *)
(***************************************************************************)
CatRuns == prog = "cat"

\* While cat runs, its own steps are the only ones.
LEMMA CatSteps ==
  ASSUME [Next]_vars, CatRuns
  PROVE  CatRuns' /\ [Cat!Next]_(Cat!vars) /\ UNCHANGED nflag
<1>1. CASE CatStep
  BY <1>1 DEF CatStep, CatRuns, headVars
<1>2. CASE HeadStep \/ WcStep \/ HandOver
  BY <1>2 DEF HeadStep, WcStep, HandOver, CatRuns
<1>3. CASE UNCHANGED vars
  BY <1>3 DEF vars, sharedVars, headVars, catVars, CatRuns, Cat!vars, Cat!given, Cat!place
<1> QED BY <1>1, <1>2, <1>3 DEF Next

\* It begins to run when the shell starts it behind head.
LEMMA CatBegins ==
  ASSUME [Next]_vars, ~CatRuns, CatRuns'
  PROVE  HandOver
BY DEF Next, HeadStep, CatStep, WcStep, CatRuns, vars

CatTyped ==
  /\ args \in Seq(Content \union {Dash}) /\ Len(args) \in 0..MaxArgs
  /\ stdin \in Content
  /\ cur \in H!Operands /\ fd \in H!FD /\ offset \in [H!FD -> Nat]
  /\ out \in Seq(H!Symbol) /\ pend \in Seq(H!Symbol)
  /\ start \in [H!Operands -> Int]

CatAtOperand ==
  /\ cur = 1 \/ cur <= Len(args)
  /\ pc \in {"options", "open", "copy", "next", "flush", "exited"}
  /\ status \in {"zero", "one", "error"} <=> pc = "exited"
  /\ pc = "flush" \/ status \in {"zero", "one"} => cur >= Len(args)
  /\ pc = "copy" =>
       /\ fd = IF Cat!IsNamed(cur) THEN 3 ELSE 0
       /\ start[cur] \in Nat /\ start[cur] <= offset[fd]
       /\ offset[fd] <= Len(Cat!StreamOf(cur))
  /\ offset[0] <= Len(stdin)
  /\ status \in {"zero", "one"} => pend = <<>>

CatPlaced == CatTyped /\ CatAtOperand

\* A chunk is written or waits in the buffer, behind what is there.
LEMMA CopyOn ==
  ASSUME H!HeadAssumption, CatTyped, NEW m \in 1..BufSize, Cat!Copy(m)
  PROVE  /\ out' \in Seq(H!Symbol) /\ pend' \in Seq(H!Symbol)
         /\ out' \o pend' = (out \o pend) \o Piece(cur, offset[fd], offset[fd] + m)
<1>1. PICK a, q : a = offset[fd] /\ q = Piece(cur, a, a + m)
  OBVIOUS
<1>2. /\ a \in Nat /\ m \in Nat /\ BufSize \in Nat /\ cur \in H!Operands
      /\ out \in Seq(H!Symbol) /\ pend \in Seq(H!Symbol) /\ <<>> \in Seq(H!Symbol)
  BY <1>1 DEF CatTyped, H!HeadAssumption
<1>3. /\ a \in Int /\ a + m \in Int /\ a <= a + m /\ (a + m) - a = m
  BY ONLY <1>2
<1>4. q \in Seq(H!Symbol) /\ q = [j \in 1..m |-> <<cur, a + j>>]
  <2>1. q \in Seq(H!Symbol)
    BY <1>1, <1>2, <1>3, PieceSeq
  <2>2. q = [j \in 1..m |-> <<cur, a + j>>]
    BY <1>1, <1>3 DEF Piece
  <2> QED BY <2>1, <2>2
<1>5. (out' = out \o (pend \o q) /\ pend' = <<>>) \/ (out' = out /\ pend' = pend \o q)
  BY <1>1, <1>4 DEF Cat!Copy
<1>6. /\ pend \o q \in Seq(H!Symbol) /\ out \o (pend \o q) \in Seq(H!Symbol)
      /\ (out \o pend) \o q = out \o (pend \o q)
  <2>1. /\ pend \o q \in Seq(H!Symbol)
        /\ (out \o pend) \o q = out \o (pend \o q)
    <3>1. pend \o q \in Seq(H!Symbol)
      BY <1>2, <1>4, ConcatProperties
    <3>2. (out \o pend) \o q = out \o (pend \o q)
      BY <1>2, <1>4, Joined, SMTT(30)
    <3> QED BY <3>1, <3>2
  <2>2. PICK w : w = pend \o q
    OBVIOUS
  <2>3. out \o w \in Seq(H!Symbol)
    BY <1>2, <2>1, <2>2, Joined
  <2> QED BY <2>1, <2>2, <2>3
<1>7. (out \o (pend \o q)) \o <<>> = out \o (pend \o q)
  BY <1>6, ConcatEmptySeq
<1>8. /\ out' \in Seq(H!Symbol) /\ pend' \in Seq(H!Symbol)
      /\ out' \o pend' = (out \o pend) \o q
  BY ONLY <1>2, <1>5, <1>6, <1>7
<1> QED BY <1>1, <1>8

LEMMA CatStreamType ==
  ASSUME H!HeadAssumption, CatTyped, NEW k \in H!Operands
  PROVE  Len(Cat!StreamOf(k)) \in Nat
<1>1. CASE Cat!IsNamed(k)
  <2>1. k \in 1..Len(args) /\ args[k] # Dash
    BY <1>1 DEF Cat!IsNamed, H!Operands, CatTyped, H!HeadAssumption
  <2>2. args[k] \in Content
    BY <2>1, ElementOfSeq DEF CatTyped
  <2> QED BY <1>1, <2>2 DEF Cat!StreamOf, H!HeadAssumption
<1>2. CASE ~Cat!IsNamed(k)
  BY <1>2 DEF Cat!StreamOf, H!HeadAssumption, CatTyped
<1> QED BY <1>1, <1>2

LEMMA CatPlacedInit == H!HeadAssumption /\ Cat!Init => CatPlaced
<1> SUFFICES ASSUME H!HeadAssumption, Cat!Init PROVE CatPlaced
  OBVIOUS
<1>1. MaxArgs \in Nat
  BY DEF H!HeadAssumption
<1>2. PICK a \in 0..MaxArgs : args \in [1..a -> Content \union {Dash}]
  BY DEF Cat!Init
<1>3. args \in Seq(Content \union {Dash}) /\ Len(args) \in 0..MaxArgs
  BY <1>1, <1>2
<1>4. cur \in H!Operands /\ start \in [H!Operands -> Int]
  BY <1>1 DEF Cat!Init, H!Operands
<1>5. fd \in H!FD /\ offset \in [H!FD -> Nat] /\ offset[0] = 0
  BY DEF Cat!Init, H!FD
<1>6. CatTyped
  BY <1>3, <1>4, <1>5 DEF Cat!Init, CatTyped
<1>7. Len(stdin) \in Nat
  BY DEF Cat!Init, H!HeadAssumption
<1> QED BY <1>5, <1>6, <1>7 DEF Cat!Init, CatPlaced, CatAtOperand

LEMMA CatPlacedNext ==
  H!HeadAssumption /\ CatPlaced /\ [Cat!Next]_(Cat!vars) => CatPlaced'
<1> SUFFICES ASSUME H!HeadAssumption, CatPlaced, [Cat!Next]_(Cat!vars) PROVE CatPlaced'
  OBVIOUS
<1> USE DEF Cat!given, Cat!place
<1>0. CatTyped /\ CatAtOperand /\ Len(args) \in Nat /\ MaxArgs \in Nat /\ cur \in 1..(MaxArgs+1)
      /\ Len(stdin) \in Nat
  BY DEF CatPlaced, CatTyped, H!HeadAssumption, H!Operands
<1>1. CASE Cat!ErrorExit \/ Cat!Options \/ Cat!OpenFails \/ Cat!CopyEnd
  BY <1>0, <1>1 DEF Cat!ErrorExit, Cat!Options, Cat!OpenFails, Cat!CopyEnd,
    CatPlaced, CatTyped, CatAtOperand
<1>2. CASE Cat!CopyFails
  <2>1. /\ UNCHANGED <<args, stdin, cur, fd, start, offset, out, status>>
        /\ pc = "copy" /\ pc' = "next" /\ (pend' = pend \/ pend' = <<>>)
    BY <1>2 DEF Cat!CopyFails
  <2>2. pend' \in Seq(H!Symbol)
    <3>1. pend \in Seq(H!Symbol) /\ <<>> \in Seq(H!Symbol)
      BY <1>0 DEF CatTyped
    <3> QED BY ONLY <2>1, <3>1
  <2> QED BY <1>0, <2>1, <2>2 DEF CatPlaced, CatTyped, CatAtOperand
<1>3. CASE Cat!Open
  <2>1. /\ fd' = (IF Cat!IsNamed(cur) THEN 3 ELSE 0)
        /\ offset' = IF Cat!IsNamed(cur) THEN [offset EXCEPT ![3] = 0] ELSE offset
        /\ start' = [start EXCEPT ![cur] = offset'[fd']]
        /\ UNCHANGED <<args, stdin, cur, pend, out, status>> /\ pc = "open" /\ pc' = "copy"
    BY <1>3 DEF Cat!Open
  <2>2. /\ offset \in [H!FD -> Nat] /\ start \in [H!Operands -> Int]
        /\ cur \in H!Operands /\ 0 \in H!FD /\ 3 \in H!FD
    BY <1>0 DEF CatTyped, H!FD
  <2>3. /\ fd' \in H!FD /\ offset' \in [H!FD -> Nat] /\ offset'[0] = offset[0]
        /\ offset'[fd'] \in Nat
    BY <2>1, <2>2
  <2>4. start' \in [H!Operands -> Int] /\ start'[cur] = offset'[fd']
    BY <2>1, <2>2, <2>3
  <2>5. offset'[fd'] <= Len(Cat!StreamOf(cur))
    <3>1. CASE Cat!IsNamed(cur)
      BY <1>0, <2>1, <2>2, <3>1, CatStreamType
    <3>2. CASE ~Cat!IsNamed(cur)
      BY <1>0, <2>1, <3>2 DEF Cat!StreamOf, CatAtOperand
    <3> QED BY <3>1, <3>2
  <2>6. Cat!IsNamed(cur)' = Cat!IsNamed(cur) /\ Cat!StreamOf(cur)' = Cat!StreamOf(cur)
    BY <2>1 DEF Cat!IsNamed, Cat!StreamOf
  <2>7. CatTyped'
    BY <1>0, <2>1, <2>3, <2>4 DEF CatTyped
  <2>8. CatAtOperand'
    BY <1>0, <2>1, <2>3, <2>4, <2>5, <2>6 DEF CatAtOperand
  <2> QED BY <2>7, <2>8 DEF CatPlaced
<1>4. ASSUME NEW m \in 1..BufSize, Cat!Copy(m) PROVE CatPlaced'
  <2>1. /\ offset' = [offset EXCEPT ![fd] = @ + m] /\ pc = "copy" /\ pc' = "copy"
        /\ m <= Len(Cat!StreamOf(cur)) - offset[fd]
        /\ UNCHANGED <<args, stdin, cur, fd, start, status>>
    BY <1>4 DEF Cat!Copy, Cat!Left
  <2>2. /\ offset \in [H!FD -> Nat] /\ fd \in H!FD /\ m \in Nat /\ m > 0
        /\ Len(Cat!StreamOf(cur)) \in Nat
    BY <1>0, CatStreamType DEF CatTyped, H!HeadAssumption
  <2>3. offset' \in [H!FD -> Nat] /\ offset'[fd] = offset[fd] + m /\ offset[fd] \in Nat
        /\ (fd # 0 => offset'[0] = offset[0])
    BY <2>1, <2>2 DEF H!FD
  <2>4. CatTyped'
    BY <1>0, <1>4, <2>1, <2>3, CopyOn DEF CatTyped
  <2>5. /\ start[cur] \in Nat /\ start[cur] <= offset'[fd]
        /\ offset'[fd] <= Len(Cat!StreamOf(cur))
    BY <1>0, <2>1, <2>2, <2>3 DEF CatAtOperand
  <2>6. Cat!IsNamed(cur)' = Cat!IsNamed(cur) /\ Cat!StreamOf(cur)' = Cat!StreamOf(cur)
    BY <2>1 DEF Cat!IsNamed, Cat!StreamOf
  <2>7. offset'[0] <= Len(stdin)
    BY <1>0, <2>1, <2>3, <2>5 DEF CatAtOperand, Cat!StreamOf
  <2>8. CatAtOperand'
    BY <1>0, <2>1, <2>5, <2>6, <2>7 DEF CatAtOperand
  <2> QED BY <2>4, <2>8 DEF CatPlaced
<1>5. CASE Cat!NextOperand
  <2>1. /\ pc = "next" /\ UNCHANGED <<args, stdin, start, fd, offset, pend, out, status>>
        /\ \/ cur < Len(args) /\ cur' = cur + 1 /\ pc' = "open"
           \/ cur >= Len(args) /\ cur' = cur /\ pc' = "flush"
    BY <1>0, <1>5 DEF Cat!NextOperand
  <2>2. cur' \in H!Operands
    BY <1>0, <2>1, SMTT(30) DEF H!Operands, CatTyped
  <2> QED BY <1>0, <2>1, <2>2 DEF CatPlaced, CatTyped, CatAtOperand
<1>6. CASE Cat!Flush
  <2>1. /\ pc = "flush" /\ pc' = "exited" /\ out' = out \o pend /\ pend' = <<>>
        /\ status' \in {"zero", "one"}
        /\ UNCHANGED <<args, stdin, cur, start, fd, offset>>
    BY <1>6 DEF Cat!Flush
  <2>2. out \o pend \in Seq(H!Symbol)
    BY <1>0, Joined DEF CatTyped
  <2> QED BY <1>0, <2>1, <2>2 DEF CatPlaced, CatTyped, CatAtOperand
<1>7. CASE UNCHANGED Cat!vars
  <2>1. UNCHANGED <<args, stdin, cur, start, fd, offset, pend, out, pc, status>>
    BY <1>7 DEF Cat!vars
  <2> QED BY <1>0, <2>1 DEF CatPlaced, CatTyped, CatAtOperand, Cat!IsNamed, Cat!StreamOf
<1> QED BY <1>1, <1>2, <1>3, <1>4, <1>5, <1>6, <1>7 DEF Cat!Next
-----------------------------------------------------------------------------
(***************************************************************************)
(* cat behind head: the two share standard input and its offset.           *)
(***************************************************************************)
\* head has printed the bytes up to t and read those up to b.
GoesOn(t, b) ==
  /\ CutAt(stdin, 0, Len(stdin), nflag, t)
  /\ t <= b /\ b - t <= Lost /\ b <= offset[0]
  /\ out \o pend = Piece(1, 0, t) \o Piece(1, b, offset[0])
  /\ pc \in {"next", "flush", "exited"} /\ status # "error" => offset[0] = Len(stdin)

HandedOver ==
  /\ args = <<>> /\ cur = 1 /\ nflag \in Nat
  /\ cut = {} /\ nflag < UMod => \E t \in Nat, b \in Nat : GoesOn(t, b)

LEMMA HandedOverBegins ==
  ASSUME H!HeadAssumption, HeadPlaced, HeadWrites, HandOver
  PROVE  CatPlaced' /\ HandedOver'
<1>1. /\ UNCHANGED <<args, cur, stdin, fd, offset, out, start, cut, nflag>>
      /\ args = <<>> /\ status = "zero" /\ pend' = <<>> /\ pc' = "options"
      /\ status' = "running"
  BY DEF HandOver, sharedVars, headVars
<1>2. /\ MaxArgs \in Nat /\ 1 \in H!Operands /\ out \in Seq(H!Symbol)
  BY HeadFacts
<1>3. cur = 1 /\ nflag \in Nat /\ offset[0] <= Len(stdin) /\ offset[0] \in Nat
  <2>1. Len(args) = 0 /\ cur \in Nat
    BY <1>1, HeadFacts
  <2>2. nflag \in Nat
    BY <1>1 DEF HeadPlaced, AtHeader
  <2> QED BY <2>1, <2>2, HeadFacts DEF HeadPlaced, AtOperand, AtByte, HeadTyped, H!FD
<1>4. CatPlaced'
  <2>1. CatTyped'
    BY <1>1 DEF CatTyped, HeadPlaced, HeadTyped
  <2>2. CatAtOperand'
    BY <1>1, <1>3 DEF CatAtOperand
  <2> QED BY <2>1, <2>2 DEF CatPlaced
<1>5. ASSUME cut = {}, nflag < UMod
      PROVE  \E t \in Nat, b \in Nat : GoesOn(t, b)'
  <2>1. PICK t \in Nat : /\ CutAt(stdin, 0, Len(stdin), nflag, t)
                         /\ out = Piece(1, 0, t)
                         /\ t <= offset[0] /\ offset[0] - t <= Lost
    BY <1>1, <1>5 DEF HeadWrites, LeftOver
  <2>2. PICK b, p : b = offset[0] /\ p = Piece(1, 0, t)
    OBVIOUS
  <2>3. Piece(1, b, b) = <<>>
    BY <1>2, <1>3, <2>2, PieceNone
  <2>4. out' \o pend' = Piece(1, 0, t) \o Piece(1, b, offset'[0])
    BY <1>1, <2>1, <2>2, <2>3
  <2>5. b \in Nat /\ b <= offset'[0] /\ Lost' = Lost
    BY <1>1, <1>3, <2>2 DEF Lost
  <2>6. GoesOn(t, b)'
    BY <1>1, <2>1, <2>2, <2>4, <2>5 DEF GoesOn
  <2> QED BY <2>5, <2>6
<1> QED BY <1>1, <1>3, <1>4, <1>5 DEF HandedOver

LEMMA HandedOverNext ==
  ASSUME H!HeadAssumption, CatPlaced, HandedOver, [Cat!Next]_(Cat!vars), UNCHANGED nflag
  PROVE  HandedOver'
<1> USE DEF Cat!given, Cat!place
<1>0. /\ CatTyped /\ CatAtOperand /\ args = <<>> /\ cur = 1 /\ nflag \in Nat
      /\ ~Cat!IsNamed(cur) /\ Cat!StreamOf(cur) = stdin /\ 1 \in H!Operands
      /\ out \in Seq(H!Symbol) /\ pend \in Seq(H!Symbol) /\ Len(stdin) \in Nat
      /\ 0 \in H!FD /\ offset \in [H!FD -> Nat] /\ BufSize \in Nat
  BY DEF CatPlaced, CatTyped, HandedOver, Cat!IsNamed, Cat!StreamOf, H!FD, H!HeadAssumption
<1>1. UNCHANGED <<args, stdin>> /\ cur' = 1
  <2>1. CASE UNCHANGED Cat!vars
    BY <1>0, <2>1 DEF Cat!vars
  <2>2. CASE Cat!Next
    BY <1>0, <2>2 DEF Cat!Next, Cat!ErrorExit, Cat!Options, Cat!Open, Cat!OpenFails, Cat!Copy,
      Cat!CopyEnd, Cat!CopyFails, Cat!NextOperand, Cat!Flush
  <2> QED BY <2>1, <2>2
<1>2. ASSUME cut' = {}, nflag < UMod
      PROVE  \E t \in Nat, b \in Nat : GoesOn(t, b)'
  <2>1. cut = {} /\ ~Cat!CopyFails
    BY <1>2 DEF Cat!Next, Cat!ErrorExit, Cat!Options, Cat!Open, Cat!OpenFails, Cat!Copy,
      Cat!CopyEnd, Cat!CopyFails, Cat!NextOperand, Cat!Flush, Cat!vars
  <2>2. PICK t \in Nat, b \in Nat : GoesOn(t, b)
    BY <1>2, <2>1 DEF HandedOver
  <2>3. Lost' = Lost
    BY DEF Lost
  <2>4. CASE Cat!ErrorExit
    <3>1. GoesOn(t, b)'
      BY <1>1, <2>2, <2>3, <2>4 DEF GoesOn, Cat!ErrorExit
    <3> QED BY <3>1
  <2>5. CASE Cat!Options \/ Cat!NextOperand
    <3>1. GoesOn(t, b)'
      BY <1>1, <2>2, <2>3, <2>5 DEF GoesOn, Cat!Options, Cat!NextOperand,
        CatPlaced, CatAtOperand
    <3> QED BY <3>1
  <2>6. CASE Cat!Open
    <3>1. offset' = offset /\ UNCHANGED <<out, pend, status>> /\ pc' = "copy"
      BY <1>0, <2>6 DEF Cat!Open
    <3>2. GoesOn(t, b)'
      BY <1>1, <2>2, <2>3, <3>1 DEF GoesOn
    <3> QED BY <3>2
  <2>7. ~Cat!OpenFails
    BY <1>0 DEF Cat!OpenFails
  <2>8. ASSUME NEW m \in 1..BufSize, Cat!Copy(m)
        PROVE  \E u \in Nat, c \in Nat : GoesOn(u, c)'
    <3>1. /\ fd = 0 /\ offset' = [offset EXCEPT ![0] = @ + m] /\ pc' = "copy"
      BY <1>0, <2>8 DEF Cat!Copy, CatAtOperand
    <3>2. PICK e, p, q, w :
            /\ e = offset[0] /\ p = Piece(1, 0, t) /\ q = Piece(1, b, e)
            /\ w = Piece(1, e, e + m)
      OBVIOUS
    <3>3. /\ e \in Nat /\ m \in Nat /\ b <= e /\ offset'[0] = e + m /\ e + m \in Nat
      BY <1>0, <2>2, <3>1, <3>2 DEF GoesOn
    <3>4. out' \o pend' = (out \o pend) \o w
      BY <1>0, <2>8, <3>1, <3>2, CopyOn
    <3>5. p \in Seq(H!Symbol) /\ q \in Seq(H!Symbol) /\ w \in Seq(H!Symbol)
      <4>1. /\ 0 \in Int /\ t \in Int /\ b \in Int /\ e \in Int /\ e + m \in Int
            /\ 0 <= t /\ b <= e /\ e <= e + m
        BY <3>3
      <4> QED BY <1>0, <3>2, <4>1, PieceSeq
    <3>6. q \o w = Piece(1, b, e + m)
      <4>1. b \in Int /\ e \in Int /\ e + m \in Int /\ b <= e /\ e <= e + m
        BY <3>3
      <4> QED BY <1>0, <3>2, <4>1, PieceOn, ZenonT(40)
    <3>7. out \o pend = p \o q /\ (p \o q) \o w = p \o (q \o w)
      <4>1. out \o pend = p \o q
        BY <2>2, <3>2 DEF GoesOn
      <4>2. (p \o q) \o w = p \o (q \o w)
        BY ONLY <3>5, Joined
      <4> QED BY <4>1, <4>2
    <3>8. out' \o pend' = Piece(1, 0, t) \o Piece(1, b, e + m)
      BY <3>2, <3>4, <3>6, <3>7
    <3>9. GoesOn(t, b)'
      BY <1>1, <2>2, <2>3, <3>1, <3>3, <3>8 DEF GoesOn
    <3> QED BY <3>9
  <2>9. CASE Cat!CopyEnd
    <3>1. fd = 0 /\ offset[0] = Len(stdin) /\ UNCHANGED <<offset, out, pend, status>>
      BY <1>0, <2>9 DEF Cat!CopyEnd, Cat!Left, CatAtOperand, CatTyped
    <3>2. GoesOn(t, b)'
      BY <1>1, <2>2, <2>3, <3>1 DEF GoesOn
    <3> QED BY <3>2
  <2>10. CASE Cat!Flush
    <3>1. /\ pc = "flush" /\ out' = out \o pend /\ pend' = <<>> /\ offset' = offset
          /\ status # "error"
      BY <1>0, <2>10 DEF Cat!Flush, CatAtOperand
    <3>2. PICK o : o = out \o pend
      OBVIOUS
    <3>3. o \o <<>> = o
      BY <1>0, <3>2, ConcatProperties, ConcatEmptySeq
    <3>4. out' \o pend' = out \o pend
      BY <3>1, <3>2, <3>3
    <3>5. GoesOn(t, b)'
      BY <1>1, <2>2, <2>3, <3>1, <3>4 DEF GoesOn
    <3> QED BY <3>5
  <2>11. CASE UNCHANGED Cat!vars
    <3>1. GoesOn(t, b)'
      BY <1>1, <2>2, <2>3, <2>11 DEF GoesOn, Cat!vars
    <3> QED BY <3>1
  <2> QED BY <2>1, <2>4, <2>5, <2>6, <2>7, <2>8, <2>9, <2>10, <2>11 DEF Cat!Next
<1> QED BY <1>0, <1>1, <1>2 DEF HandedOver

\* For all contents, reads of every size and every -n an unsigned can hold,
\* (head && cat) < file prints the lines asked for and then what head has not
\* read, with less than a buffer missing in between (head.c:86, cat.c:33-54).
THEOREM StdinHandedOver == Spec => []HandsOver
<1> DEFINE Inv == /\ HeadRuns => HeadPlaced /\ HeadWrites
                  /\ CatRuns /\ nflag # Idle => CatPlaced /\ HandedOver
<1>1. Init => Inv
  BY FiltersAssumption, HeadPlacedInit, HeadWritesInit
    DEF Init, HeadRuns, CatRuns, HeadIdle
<1>2. Inv /\ [Next]_vars => Inv'
  <2> SUFFICES ASSUME Inv, [Next]_vars PROVE Inv'
    OBVIOUS
  <2>1. (HeadRuns => HeadPlaced /\ HeadWrites)'
    BY FiltersAssumption, HeadSteps, HeadPlacedNext, HeadWritesNext
  <2>2. ASSUME CatRuns', (nflag # Idle)' PROVE (CatPlaced /\ HandedOver)'
    <3>1. CASE CatRuns
      BY FiltersAssumption, <2>2, <3>1, CatSteps, CatPlacedNext, HandedOverNext
    <3>2. CASE ~CatRuns
      <4>1. HandOver
        BY <2>2, <3>2, CatBegins
      <4>2. HeadRuns
        BY <4>1 DEF HandOver, HeadRuns
      <4> QED BY FiltersAssumption, <4>1, <4>2, HandedOverBegins
    <3> QED BY <3>1, <3>2
  <2> QED BY <2>1, <2>2
<1>3. Inv => HandsOver
  <2> SUFFICES ASSUME CatPlaced, HandedOver, nflag < UMod, status = "zero", cut = {}
               PROVE  LET printed == Cardinality(H!FirstLines(stdin, 0, Len(stdin), nflag))
                          run(a, b) == [j \in 1..(b-a) |-> <<1, a + j>>]
                      IN \E lost \in 0..(IF nflag = 0 THEN 0 ELSE BufSize - 1) :
                           /\ printed + lost <= Len(stdin)
                           /\ out = run(0, printed) \o run(printed + lost, Len(stdin))
    BY DEF HandsOver, CatRuns
  <2>1. PICK t \in Nat, b \in Nat : GoesOn(t, b)
    BY DEF HandedOver
  <2>2. Len(stdin) \in Nat /\ nflag \in Nat /\ BufSize \in Nat /\ out \in Seq(H!Symbol)
    BY FiltersAssumption DEF CatPlaced, CatTyped, H!HeadAssumption, HandedOver
  <2>3. Cardinality(H!FirstLines(stdin, 0, Len(stdin), nflag)) = t
    <3>1. CutAt(stdin, 0, Len(stdin), nflag, t)
      BY <2>1 DEF GoesOn
    <3> QED BY <2>2, <3>1, FirstLinesCut
  <2>4. pend = <<>> /\ offset[0] = Len(stdin)
    BY <2>1 DEF GoesOn, CatPlaced, CatAtOperand
  <2>5. out = Piece(1, 0, t) \o Piece(1, b, Len(stdin))
    BY <2>1, <2>2, <2>4, ConcatEmptySeq DEF GoesOn
  <2>6. /\ b - t \in 0..(IF nflag = 0 THEN 0 ELSE BufSize - 1) /\ t + (b - t) = b
        /\ b <= Len(stdin)
    BY <2>1, <2>2, <2>4 DEF GoesOn, Lost
  <2> QED BY <2>3, <2>5, <2>6 DEF Piece
<1> QED BY <1>1, <1>2, <1>3, PTL DEF Spec
-----------------------------------------------------------------------------
(***************************************************************************)
(* cat alone: the symbols written are looked at as a set and as an order.  *)
(***************************************************************************)
Elements(w) == {w[j] : j \in 1..Len(w)}

Before(x, y) == x[1] < y[1] \/ (x[1] = y[1] /\ x[2] < y[2])

Ordered(w) == \A i, j \in 1..Len(w) : i < j => Before(w[i], w[j])

LEMMA ElementsOn ==
  ASSUME NEW w \in Seq(H!Symbol), NEW v \in Seq(H!Symbol)
  PROVE  Elements(w \o v) = Elements(w) \union Elements(v)
<1>1. PICK u : u = w \o v
  OBVIOUS
<1>2. /\ Len(u) = Len(w) + Len(v) /\ Len(w) \in Nat /\ Len(v) \in Nat
      /\ \A i \in 1..(Len(w) + Len(v)) : u[i] = IF i <= Len(w) THEN w[i] ELSE v[i - Len(w)]
  BY <1>1, ConcatProperties, LenProperties
<1>3. ASSUME NEW x \in Elements(u) PROVE x \in Elements(w) \union Elements(v)
  <2>1. PICK i \in 1..(Len(w) + Len(v)) : x = u[i]
    BY <1>2, <1>3 DEF Elements
  <2>2. CASE i <= Len(w)
    <3>1. i \in 1..Len(w) /\ x = w[i]
      BY <1>2, <2>1, <2>2
    <3> QED BY <3>1 DEF Elements
  <2>3. CASE i > Len(w)
    <3>1. i - Len(w) \in 1..Len(v) /\ x = v[i - Len(w)]
      BY <1>2, <2>1, <2>3
    <3> QED BY <3>1 DEF Elements
  <2> QED BY <1>2, <2>2, <2>3
<1>4. ASSUME NEW x \in Elements(w) PROVE x \in Elements(u)
  <2>1. PICK i \in 1..Len(w) : x = w[i]
    BY <1>4 DEF Elements
  <2>2. i \in 1..Len(u) /\ x = u[i]
    BY <1>2, <2>1
  <2> QED BY <2>2 DEF Elements
<1>5. ASSUME NEW x \in Elements(v) PROVE x \in Elements(u)
  <2>1. PICK i \in 1..Len(v) : x = v[i]
    BY <1>5 DEF Elements
  <2>2. /\ i + Len(w) \in 1..(Len(w) + Len(v)) /\ ~(i + Len(w) <= Len(w))
        /\ (i + Len(w)) - Len(w) = i
    BY <1>2
  <2>3. x = u[i + Len(w)]
    BY <1>2, <2>1, <2>2
  <2> QED BY <1>2, <2>2, <2>3 DEF Elements
<1> QED BY <1>1, <1>3, <1>4, <1>5

LEMMA OrderedOn ==
  ASSUME NEW w \in Seq(H!Symbol), NEW v \in Seq(H!Symbol), Ordered(w), Ordered(v),
         \A x \in Elements(w), y \in Elements(v) : Before(x, y)
  PROVE  Ordered(w \o v)
<1>1. PICK u : u = w \o v
  OBVIOUS
<1>2. /\ Len(u) = Len(w) + Len(v) /\ Len(w) \in Nat /\ Len(v) \in Nat
      /\ \A i \in 1..(Len(w) + Len(v)) : u[i] = IF i <= Len(w) THEN w[i] ELSE v[i - Len(w)]
  BY <1>1, ConcatProperties, LenProperties
<1>3. ASSUME NEW i \in 1..Len(u), NEW j \in 1..Len(u), i < j PROVE Before(u[i], u[j])
  <2>0. /\ u[i] = (IF i <= Len(w) THEN w[i] ELSE v[i - Len(w)])
        /\ u[j] = (IF j <= Len(w) THEN w[j] ELSE v[j - Len(w)])
    BY <1>2
  <2>1. CASE j <= Len(w)
    <3>1. /\ i \in 1..Len(w) /\ j \in 1..Len(w) /\ u[i] = w[i] /\ u[j] = w[j]
      BY <1>2, <1>3, <2>0, <2>1
    <3> QED BY <1>3, <3>1 DEF Ordered
  <2>2. CASE i <= Len(w) /\ j > Len(w)
    <3>1. /\ i \in 1..Len(w) /\ j - Len(w) \in 1..Len(v)
          /\ u[i] = w[i] /\ u[j] = v[j - Len(w)]
      BY <1>2, <2>0, <2>2
    <3>2. u[i] \in Elements(w) /\ u[j] \in Elements(v)
      BY <3>1 DEF Elements
    <3> QED BY <3>2
  <2>3. CASE i > Len(w)
    <3>1. /\ i - Len(w) \in 1..Len(v) /\ j - Len(w) \in 1..Len(v)
          /\ i - Len(w) < j - Len(w)
          /\ u[i] = v[i - Len(w)] /\ u[j] = v[j - Len(w)]
      BY <1>2, <1>3, <2>0, <2>3
    <3> QED BY <3>1 DEF Ordered
  <2> QED BY <1>2, <1>3, <2>1, <2>2, <2>3
<1> QED BY <1>1, <1>3 DEF Ordered

\* What waits may be lost and what is written stays in order.
LEMMA OrderedFront ==
  ASSUME NEW w \in Seq(H!Symbol), NEW v \in Seq(H!Symbol), Ordered(w \o v)
  PROVE  Ordered(w)
<1>1. PICK u : u = w \o v
  OBVIOUS
<1>2. /\ Len(u) = Len(w) + Len(v) /\ Len(w) \in Nat /\ Len(v) \in Nat
      /\ \A i \in 1..(Len(w) + Len(v)) : u[i] = IF i <= Len(w) THEN w[i] ELSE v[i - Len(w)]
  BY <1>1, ConcatProperties, LenProperties
<1>3. \A i \in 1..Len(w) : i \in 1..Len(u) /\ u[i] = w[i]
  BY <1>2
<1> QED BY <1>1, <1>3 DEF Ordered

LEMMA PieceElements ==
  ASSUME NEW k \in H!Operands, NEW a \in Int, NEW b \in Int, a <= b
  PROVE  /\ Elements(Piece(k, a, b)) = {<<k, p>> : p \in (a+1)..b}
         /\ Ordered(Piece(k, a, b))
<1>1. PICK u : u = Piece(k, a, b)
  OBVIOUS
<1>2. Len(u) = b - a /\ \A j \in 1..(b-a) : u[j] = <<k, a + j>>
  BY <1>1, PieceSeq
<1>3. ASSUME NEW p \in (a+1)..b PROVE <<k, p>> \in Elements(u)
  <2>1. p - a \in 1..(b-a) /\ a + (p - a) = p
    OBVIOUS
  <2>2. u[p - a] = <<k, p>>
    BY <1>2, <2>1
  <2> QED BY <1>2, <2>1, <2>2 DEF Elements
<1>4. ASSUME NEW x \in Elements(u) PROVE x \in {<<k, p>> : p \in (a+1)..b}
  <2>1. PICK j \in 1..(b-a) : x = <<k, a + j>>
    BY <1>2, <1>4 DEF Elements
  <2>2. a + j \in (a+1)..b
    OBVIOUS
  <2> QED BY <2>1, <2>2
<1>5. Ordered(u)
  <2> SUFFICES ASSUME NEW i \in 1..(b-a), NEW j \in 1..(b-a), i < j PROVE Before(u[i], u[j])
    BY <1>2 DEF Ordered
  <2>1. u[i] = <<k, a + i>> /\ u[j] = <<k, a + j>> /\ a + i < a + j
    BY <1>2
  <2> QED BY <2>1 DEF Before
<1> QED BY <1>1, <1>3, <1>4, <1>5

LEMMA ElementSymbol ==
  ASSUME NEW w \in Seq(H!Symbol), NEW x \in Elements(w)
  PROVE  x[1] \in H!Operands /\ x[2] \in Int /\ x = <<x[1], x[2]>>
<1>1. x \in H!Symbol
  BY ElementOfSeq DEF Elements
<1> QED BY <1>1 DEF H!Symbol

\* What cat has written or buffered, the operands it has come to, and how far
\* it has read each of those.
Written == out \o pend

Passed(k) == k < cur \/ (k = cur /\ pc \notin {"options", "open"})

ReadTo(k) == IF k = cur /\ pc = "copy" THEN offset[fd] ELSE Len(Cat!StreamOf(k))

UpTo(k) ==
  IF start[k] = -1 THEN {} ELSE {<<k, p>> : p \in (start[k]+1)..ReadTo(k)}

PartOf(E, k) == {x \in E : x[1] = k}

\* What it knows of the operands.
CatTells ==
  /\ \A k \in H!Operands : ~Passed(k) => start[k] = -1
  /\ cut \subseteq 1..cur /\ (pc \in {"options", "open", "copy"} => cur \notin cut)
  /\ status # "error" /\ ret = 0 =>
       cut = {} /\ \A k \in 1..Len(args) : Passed(k) => start[k] # -1
  /\ status = "zero" => ret = 0

\* What it has made of them.
CatCopied ==
  status # "error" =>
    /\ Ordered(Written)
    /\ \A x \in Elements(Written) :
         Passed(x[1]) /\ (x[1] = cur /\ pc = "copy" => x[2] <= offset[fd])
    /\ \A k \in H!Operands \ cut : PartOf(Elements(Written), k) = UpTo(k)

LEMMA CatTellsNext ==
  ASSUME H!HeadAssumption, CatPlaced, CatTells, CatCopied, [Cat!Next]_(Cat!vars)
  PROVE  CatTells'
<1> USE DEF Cat!given, Cat!place
<1>0. /\ CatTyped /\ CatAtOperand /\ Len(args) \in Nat /\ MaxArgs \in Nat
      /\ cur \in 1..(MaxArgs+1) /\ cur \in H!Operands /\ H!Operands = 1..(MaxArgs+1)
      /\ Len(args) <= MaxArgs
  BY DEF CatPlaced, CatTyped, H!HeadAssumption, H!Operands
<1>1. CASE Cat!ErrorExit \/ Cat!CopyEnd \/ Cat!Options
  BY <1>0, <1>1 DEF Cat!ErrorExit, Cat!CopyEnd, Cat!Options, CatTells, Passed, CatAtOperand
<1>2. CASE Cat!OpenFails
  BY <1>0, <1>2 DEF Cat!OpenFails, CatTells, Passed, CatAtOperand
<1>3. CASE Cat!CopyFails
  <2>1. /\ pc = "copy" /\ pc' = "next" /\ ret' = 1 /\ status \notin {"zero", "error"}
        /\ UNCHANGED <<args, cur, start, status>>
        /\ \/ cut' = cut \union {cur}
           \/ cut' = cut \union {cur} \union {pend[j][1] : j \in 1..Len(pend)}
    BY <1>0, <1>3 DEF Cat!CopyFails, Cat!Failure, CatAtOperand
  <2>2. ASSUME NEW j \in 1..Len(pend) PROVE pend[j][1] \in 1..cur
    <3>1. PICK x : x = pend[j]
      OBVIOUS
    <3>2. x \in Elements(pend) /\ x \in Elements(Written)
      <4>1. x \in Elements(pend)
        BY <3>1 DEF Elements
      <4>2. Elements(out \o pend) = Elements(out) \union Elements(pend)
        BY <1>0, ElementsOn DEF CatTyped
      <4> QED BY <4>1, <4>2 DEF Written
    <3>3. x[1] \in H!Operands
      BY <1>0, <3>2, ElementSymbol DEF CatTyped
    <3>4. Passed(x[1])
      BY <2>1, <3>2 DEF CatCopied
    <3> QED BY <1>0, <3>1, <3>3, <3>4 DEF Passed
  <2>3. cut' \subseteq 1..cur
    <3>1. {pend[j][1] : j \in 1..Len(pend)} \subseteq 1..cur
      BY <2>2
    <3>2. cut \union {cur} \subseteq 1..cur
      BY <1>0 DEF CatTells
    <3> QED BY <2>1, <3>1, <3>2
  <2> QED BY <1>0, <2>1, <2>3 DEF CatTells, Passed
<1>4. CASE Cat!Open
  <2>1. /\ pc = "open" /\ pc' = "copy" /\ UNCHANGED <<args, cur, ret, cut, status>>
        /\ start' = [start EXCEPT ![cur] = offset'[fd']]
    BY <1>4 DEF Cat!Open
  <2>2. /\ start \in [H!Operands -> Int] /\ offset'[fd'] \in Nat
    BY <1>0, CatPlacedNext DEF CatPlaced, CatTyped
  <2>3. start'[cur] # -1 /\ \A k \in H!Operands \ {cur} : start'[k] = start[k]
    BY <1>0, <2>1, <2>2
  <2> QED BY <1>0, <2>1, <2>3 DEF CatTells, Passed
<1>5. ASSUME NEW m \in 1..BufSize, Cat!Copy(m) PROVE CatTells'
  BY <1>0, <1>5 DEF Cat!Copy, CatTells, Passed
<1>6. CASE Cat!NextOperand
  <2>1. /\ pc = "next" /\ UNCHANGED <<args, start, ret, cut, status>> /\ status # "zero"
        /\ \/ cur < Len(args) /\ cur' = cur + 1 /\ pc' = "open"
           \/ cur >= Len(args) /\ cur' = cur /\ pc' = "flush"
    BY <1>0, <1>6 DEF Cat!NextOperand, CatAtOperand
  <2> QED BY <1>0, <2>1 DEF CatTells, Passed
<1>7. CASE Cat!Flush
  BY <1>0, <1>7 DEF Cat!Flush, CatTells, Passed, CatAtOperand
<1>8. CASE UNCHANGED Cat!vars
  BY <1>0, <1>8 DEF Cat!vars, CatTells, Passed
<1> QED BY <1>1, <1>2, <1>3, <1>4, <1>5, <1>6, <1>7, <1>8 DEF Cat!Next

\* A step that writes nothing new.
LEMMA CopiedKept ==
  ASSUME CatTyped, CatCopied, status # "error", Written' = Written, pc' # "copy",
         cut \subseteq cut', \A k \in H!Operands : Passed(k) => Passed(k)',
         \A k \in H!Operands \ cut' : UpTo(k)' = UpTo(k)
  PROVE  CatCopied'
<1>1. ASSUME NEW x \in Elements(Written)
      PROVE  Passed(x[1])'
  <2>1. Written \in Seq(H!Symbol)
    BY Joined DEF Written, CatTyped
  <2>2. x[1] \in H!Operands
    BY <1>1, <2>1, ElementSymbol
  <2> QED BY <1>1, <2>2 DEF CatCopied
<1>2. ASSUME NEW k \in H!Operands \ cut'
      PROVE  PartOf(Elements(Written'), k) = UpTo(k)'
  BY <1>2 DEF CatCopied
<1>3. Ordered(Written')
  BY DEF CatCopied
<1> QED BY <1>1, <1>2, <1>3 DEF CatCopied

LEMMA CatCopiedOpen ==
  ASSUME H!HeadAssumption, CatPlaced, CatTells, CatCopied, Cat!Open
  PROVE  CatCopied'
<1>1. /\ CatTyped /\ cur \in H!Operands /\ start \in [H!Operands -> Int]
      /\ H!Operands = 1..(MaxArgs+1) /\ MaxArgs \in Nat /\ status # "error"
      /\ Written \in Seq(H!Symbol)
  BY Joined DEF CatPlaced, CatTyped, CatAtOperand, H!Operands, H!HeadAssumption, Cat!Open, Written
<1>2. PICK o : o = offset'[fd']
  OBVIOUS
<1>3. /\ start' = [start EXCEPT ![cur] = o] /\ pc = "open" /\ pc' = "copy"
      /\ UNCHANGED <<args, stdin, cur, out, pend, cut, status>>
  BY <1>2 DEF Cat!Open, Cat!given
<1>4. o \in Nat
  BY <1>2, CatPlacedNext DEF CatPlaced, CatTyped, Cat!Next
<1>5. /\ start'[cur] = o /\ \A k \in H!Operands \ {cur} : start'[k] = start[k]
      /\ Written' = Written
  BY <1>1, <1>3 DEF Written
<1>6. \A k \in H!Operands : Passed(k) => Passed(k)' /\ k # cur
  BY <1>1, <1>3 DEF Passed
<1>7. ASSUME NEW x \in Elements(Written) PROVE Passed(x[1])' /\ x[1] # cur'
  <2>1. x[1] \in H!Operands
    BY <1>1, <1>7, ElementSymbol
  <2> QED BY <1>1, <1>3, <1>6, <1>7, <2>1 DEF CatCopied
<1>8. ASSUME NEW k \in H!Operands \ cut'
      PROVE  PartOf(Elements(Written'), k) = UpTo(k)'
  <2>1. CASE k = cur
    <3>1. UpTo(k)' = {}
      <4>1. ReadTo(k)' = o /\ (o+1)..o = {}
        BY <1>2, <1>3, <1>4, <2>1 DEF ReadTo
      <4> QED BY <1>4, <1>5, <2>1, <4>1 DEF UpTo
    <3>2. PartOf(Elements(Written), k) = {}
      BY <1>3, <1>7, <2>1 DEF PartOf
    <3> QED BY <1>5, <3>1, <3>2
  <2>2. CASE k # cur
    <3>1. ReadTo(k)' = ReadTo(k) /\ start'[k] = start[k]
      BY <1>3, <1>5, <1>8, <2>2 DEF ReadTo, Cat!StreamOf, Cat!IsNamed
    <3>2. UpTo(k)' = UpTo(k)
      BY <3>1 DEF UpTo
    <3> QED BY <1>1, <1>3, <1>5, <1>8, <3>2 DEF CatCopied
  <2> QED BY <2>1, <2>2
<1>9. Ordered(Written')
  BY <1>1, <1>5 DEF CatCopied
<1> QED BY <1>5, <1>7, <1>8, <1>9 DEF CatCopied

LEMMA CatCopiedCopy ==
  ASSUME H!HeadAssumption, CatPlaced, CatTells, CatCopied,
         NEW m \in 1..BufSize, Cat!Copy(m)
  PROVE  CatCopied'
<1>1. /\ CatTyped /\ cur \in H!Operands /\ start \in [H!Operands -> Int]
      /\ H!Operands = 1..(MaxArgs+1) /\ MaxArgs \in Nat /\ status # "error"
      /\ BufSize \in Nat /\ offset \in [H!FD -> Nat] /\ fd \in H!FD /\ m \in Nat
      /\ Written \in Seq(H!Symbol)
  <2>1. pc = "copy"
    BY DEF Cat!Copy
  <2> QED BY <2>1, Joined, SMTT(30)
    DEF CatPlaced, CatTyped, CatAtOperand, H!Operands, H!HeadAssumption, Written
<1>2. PICK a, b, q, w, v :
        a = offset[fd] /\ b = a + m /\ q = Piece(cur, a, b) /\ w = Written /\ v = Written'
  OBVIOUS
<1>3. /\ offset' = [offset EXCEPT ![fd] = @ + m] /\ pc = "copy" /\ pc' = "copy"
      /\ UNCHANGED <<args, stdin, cur, fd, start, cut, status>>
  BY DEF Cat!Copy, Cat!given, Cat!place
<1>4. a \in Int /\ b \in Int /\ a <= b /\ offset'[fd] = b /\ a \in Nat
  BY <1>1, <1>2, <1>3
<1>5. q \in Seq(H!Symbol) /\ w \in Seq(H!Symbol) /\ v = w \o q
  <2>1. q \in Seq(H!Symbol)
    BY <1>1, <1>2, <1>4, PieceSeq
  <2>2. v = w \o q
    BY <1>1, <1>2, CopyOn DEF Written
  <2> QED BY <1>1, <1>2, <2>1, <2>2
<1>6. Elements(q) = {<<cur, p>> : p \in (a+1)..b} /\ Ordered(q)
  BY <1>1, <1>2, <1>4, PieceElements
<1>7. Elements(v) = Elements(w) \union Elements(q)
  BY <1>5, ElementsOn
<1>8. ASSUME NEW x \in Elements(w)
      PROVE  /\ x[1] \in H!Operands /\ x[2] \in Int /\ Passed(x[1])
             /\ x[1] = cur => x[2] <= a
  <2>1. x[1] \in H!Operands /\ x[2] \in Int
    BY <1>5, <1>8, ElementSymbol
  <2> QED BY <1>1, <1>2, <1>3, <1>8, <2>1 DEF CatCopied
<1>9. ASSUME NEW y \in Elements(q)
      PROVE  y[1] = cur /\ y[2] \in (a+1)..b
  BY <1>6, <1>9
<1>10. Ordered(v)
  <2>1. ASSUME NEW x \in Elements(w), NEW y \in Elements(q) PROVE Before(x, y)
    <3>1. x[1] < cur \/ x[1] = cur
      BY <1>1, <1>8, <2>1 DEF Passed
    <3>2. y[1] = cur /\ y[2] \in (a+1)..b /\ x[2] \in Int
      BY <1>8, <1>9, <2>1
    <3> QED BY <1>4, <1>8, <2>1, <3>1, <3>2 DEF Before
  <2>2. Ordered(w)
    BY <1>1, <1>2 DEF CatCopied
  <2> QED BY <1>5, <1>6, <2>1, <2>2, OrderedOn
<1>11. ASSUME NEW x \in Elements(v)
       PROVE  Passed(x[1])' /\ (x[1] = cur => x[2] <= b)
  <2>1. CASE x \in Elements(w)
    BY <1>1, <1>3, <1>4, <1>8, <2>1, <1>2 DEF Passed
  <2>2. CASE x \in Elements(q)
    BY <1>1, <1>3, <1>4, <1>9, <2>2 DEF Passed
  <2> QED BY <1>7, <1>11, <2>1, <2>2
<1>12. ASSUME NEW k \in H!Operands \ cut'
       PROVE  PartOf(Elements(v), k) = UpTo(k)'
  <2>0. PartOf(Elements(w), k) = UpTo(k)
    BY <1>1, <1>2, <1>3, <1>12 DEF CatCopied
  <2>1. CASE k = cur
    <3>1. start[cur] \in Nat /\ start[cur] <= a
      BY <1>2, <1>3 DEF CatPlaced, CatAtOperand
    <3>2. PICK s : s = start[cur]
      OBVIOUS
    <3>3. UpTo(k) = {<<k, p>> : p \in (s+1)..a} /\ UpTo(k)' = {<<k, p>> : p \in (s+1)..b}
      BY <1>2, <1>3, <1>4, <2>1, <3>1, <3>2 DEF UpTo, ReadTo
    <3>4. PartOf(Elements(v), k) = PartOf(Elements(w), k) \union Elements(q)
      BY <1>7, <1>9, <2>1 DEF PartOf
    <3>5. (s+1)..b = ((s+1)..a) \union ((a+1)..b)
      BY <1>4, <3>1, <3>2
    <3> QED BY <1>6, <2>0, <2>1, <3>3, <3>4, <3>5
  <2>2. CASE k # cur
    <3>1. ReadTo(k)' = ReadTo(k) /\ start'[k] = start[k]
      BY <1>3, <2>2 DEF ReadTo, Cat!StreamOf, Cat!IsNamed
    <3>2. UpTo(k)' = UpTo(k)
      BY <3>1 DEF UpTo
    <3>3. PartOf(Elements(v), k) = PartOf(Elements(w), k)
      BY <1>7, <1>9, <2>2 DEF PartOf
    <3> QED BY <2>0, <3>2, <3>3
  <2> QED BY <2>1, <2>2
<1> QED BY <1>2, <1>3, <1>4, <1>10, <1>11, <1>12 DEF CatCopied

LEMMA CatCopiedFails ==
  ASSUME H!HeadAssumption, CatPlaced, CatTells, CatCopied, Cat!CopyFails
  PROVE  CatCopied'
<1>1. /\ CatTyped /\ status # "error" /\ cur \in cut' /\ cut \subseteq cut'
      /\ UNCHANGED <<args, stdin, cur, start, out, status>>
      /\ pc = "copy" /\ pc' = "next" /\ pend' \in {pend, <<>>}
      /\ pend' # pend => {pend[j][1] : j \in 1..Len(pend)} \subseteq cut'
  BY DEF CatPlaced, CatAtOperand, Cat!CopyFails, Cat!given, Cat!place
<1>2. /\ \A k \in H!Operands : Passed(k) => Passed(k)'
      /\ \A k \in H!Operands \ cut' : UpTo(k)' = UpTo(k)
  <2>1. ASSUME NEW k \in H!Operands \ cut' PROVE UpTo(k)' = UpTo(k)
    <3>1. ReadTo(k)' = ReadTo(k)
      BY <1>1, <2>1 DEF ReadTo, Cat!StreamOf, Cat!IsNamed
    <3> QED BY <1>1, <3>1 DEF UpTo
  <2>2. \A k \in H!Operands : Passed(k) => Passed(k)'
    BY <1>1 DEF Passed
  <2> QED BY <2>1, <2>2
<1>3. CASE pend' = pend
  <2>1. Written' = Written
    BY <1>1, <1>3 DEF Written
  <2> QED BY <1>1, <1>2, <2>1, CopiedKept
<1>4. CASE pend' # pend
  <2>1. out \in Seq(H!Symbol) /\ pend \in Seq(H!Symbol) /\ Written = out \o pend
    BY <1>1 DEF CatTyped, Written
  <2>2. Written' = out
    BY <1>1, <1>4, <2>1, ConcatEmptySeq DEF Written
  <2>3. Ordered(out)
    BY <1>1, <2>1, OrderedFront DEF CatCopied
  <2>4. Elements(Written) = Elements(out) \union Elements(pend)
    BY <2>1, ElementsOn
  <2>5. ASSUME NEW x \in Elements(out) PROVE Passed(x[1])'
    <3>1. x[1] \in H!Operands
      BY <2>1, <2>5, ElementSymbol
    <3>2. Passed(x[1])
      BY <1>1, <2>4, <2>5 DEF CatCopied
    <3> QED BY <1>2, <3>1, <3>2
  <2>6. ASSUME NEW k \in H!Operands \ cut' PROVE PartOf(Elements(out), k) = UpTo(k)'
    <3>1. \A x \in Elements(pend) : x[1] # k
      BY <1>1, <1>4, <2>6 DEF Elements
    <3>2. PartOf(Elements(Written), k) = PartOf(Elements(out), k)
      BY <2>4, <3>1 DEF PartOf
    <3>3. PartOf(Elements(Written), k) = UpTo(k)
      BY <1>1, <2>6 DEF CatCopied
    <3> QED BY <1>2, <2>6, <3>2, <3>3
  <2> QED BY <1>1, <2>2, <2>3, <2>5, <2>6 DEF CatCopied
<1> QED BY <1>3, <1>4

LEMMA CatCopiedNext ==
  ASSUME H!HeadAssumption, CatPlaced, CatTells, CatCopied, [Cat!Next]_(Cat!vars)
  PROVE  CatCopied'
<1> USE DEF Cat!given, Cat!place
<1>0. /\ CatTyped /\ CatAtOperand /\ cur \in H!Operands /\ H!Operands = 1..(MaxArgs+1)
      /\ MaxArgs \in Nat
  BY DEF CatPlaced, CatTyped, H!Operands, H!HeadAssumption
<1>1. CASE Cat!ErrorExit
  BY <1>1 DEF Cat!ErrorExit, CatCopied
<1>2. CASE Cat!Options \/ Cat!OpenFails \/ Cat!NextOperand
  <2>1. /\ UNCHANGED <<args, stdin, start, offset, fd, out, pend, cut, status>>
        /\ pc \in {"options", "open", "next"} /\ pc' # "copy"
        /\ cur' = cur \/ (cur' = cur + 1 /\ pc = "next")
    BY <1>2 DEF Cat!Options, Cat!OpenFails, Cat!NextOperand
  <2>2. \A k \in H!Operands : Passed(k) => Passed(k)'
    BY <1>0, <1>2, <2>1 DEF Passed, Cat!Options, Cat!OpenFails, Cat!NextOperand
  <2>3. ASSUME NEW k \in H!Operands PROVE UpTo(k)' = UpTo(k)
    <3>1. ReadTo(k)' = ReadTo(k)
      BY <2>1 DEF ReadTo, Cat!StreamOf, Cat!IsNamed
    <3> QED BY <2>1, <3>1 DEF UpTo
  <2>4. Written' = Written /\ status # "error"
    BY <1>0, <2>1 DEF Written, CatAtOperand
  <2> QED BY <1>0, <2>1, <2>2, <2>3, <2>4, CopiedKept
<1>3. CASE Cat!Open
  BY <1>3, CatCopiedOpen
<1>4. ASSUME NEW m \in 1..BufSize, Cat!Copy(m) PROVE CatCopied'
  BY <1>4, CatCopiedCopy
<1>5. CASE Cat!CopyEnd
  <2>1. /\ UNCHANGED <<args, stdin, cur, start, offset, fd, out, pend, cut, status>>
        /\ pc = "copy" /\ pc' = "next" /\ Len(Cat!StreamOf(cur)) - offset[fd] = 0
    BY <1>5 DEF Cat!CopyEnd, Cat!Left
  <2>2. \A k \in H!Operands : Passed(k) => Passed(k)'
    BY <1>0, <2>1 DEF Passed
  <2>3. Len(Cat!StreamOf(cur)) = offset[fd]
    <3>1. Len(Cat!StreamOf(cur)) \in Nat /\ offset[fd] \in Nat
      BY <1>0, CatStreamType DEF CatTyped
    <3> QED BY <2>1, <3>1
  <2>4. ASSUME NEW k \in H!Operands PROVE UpTo(k)' = UpTo(k)
    <3>1. ReadTo(k)' = ReadTo(k)
      BY <2>1, <2>3 DEF ReadTo, Cat!StreamOf, Cat!IsNamed
    <3> QED BY <2>1, <3>1 DEF UpTo
  <2>5. Written' = Written /\ status # "error"
    BY <1>0, <2>1 DEF Written, CatAtOperand
  <2> QED BY <1>0, <2>1, <2>2, <2>4, <2>5, CopiedKept
<1>6. CASE Cat!CopyFails
  BY <1>6, CatCopiedFails
<1>7. CASE Cat!Flush
  <2>1. /\ UNCHANGED <<args, stdin, cur, start, offset, fd, cut>> /\ status # "error"
        /\ pc = "flush" /\ pc' = "exited" /\ out' = out \o pend /\ pend' = <<>>
    BY <1>0, <1>7 DEF Cat!Flush, CatAtOperand
  <2>2. Written' = Written
    <3>1. PICK w : w = out \o pend
      OBVIOUS
    <3>2. w \in Seq(H!Symbol)
      BY <1>0, <3>1, Joined DEF CatTyped
    <3>3. w \o <<>> = w
      BY <3>2, ConcatEmptySeq
    <3> QED BY <2>1, <3>1, <3>3 DEF Written
  <2>3. \A k \in H!Operands : Passed(k) => Passed(k)'
    BY <1>0, <2>1 DEF Passed
  <2>4. ASSUME NEW k \in H!Operands PROVE UpTo(k)' = UpTo(k)
    <3>1. ReadTo(k)' = ReadTo(k)
      BY <2>1 DEF ReadTo, Cat!StreamOf, Cat!IsNamed
    <3> QED BY <2>1, <3>1 DEF UpTo
  <2> QED BY <1>0, <2>1, <2>2, <2>3, <2>4, CopiedKept
<1>8. CASE UNCHANGED Cat!vars
  <2>1. UNCHANGED <<args, stdin, cur, start, offset, fd, out, pend, cut, pc, status>>
    BY <1>8 DEF Cat!vars
  <2> QED BY <2>1 DEF CatCopied, Written, Passed, UpTo, ReadTo, Cat!StreamOf, Cat!IsNamed
<1> QED BY <1>1, <1>2, <1>3, <1>4, <1>5, <1>6, <1>7, <1>8 DEF Cat!Next

LEMMA CatInit ==
  ASSUME H!HeadAssumption, Cat!Init
  PROVE  CatTells /\ CatCopied
<1>1. /\ cur = 1 /\ pc = "options" /\ status = "running" /\ cut = {} /\ ret = 0
      /\ out = <<>> /\ pend = <<>> /\ \A k \in H!Operands : start[k] = -1
  BY DEF Cat!Init, H!Operands
<1>2. Written = <<>> /\ Elements(Written) = {} /\ Ordered(Written)
  <2>1. Written = <<>> /\ Len(Written) = 0
    BY <1>1, ConcatEmptySeq DEF Written
  <2> QED BY <2>1 DEF Elements, Ordered
<1>3. CatTells
  <2>1. Len(args) \in Nat
    BY CatPlacedInit DEF CatPlaced, CatTyped, H!HeadAssumption
  <2>2. \A k \in 1..Len(args) : ~Passed(k)
    BY <1>1, <2>1 DEF Passed
  <2> QED BY <1>1, <2>2 DEF CatTells
<1>4. \A k \in H!Operands : PartOf(Elements(Written), k) = UpTo(k)
  BY <1>1, <1>2 DEF PartOf, UpTo
<1> QED BY <1>2, <1>3, <1>4 DEF CatCopied

\* For all operands, contents and buffers, with failures at any of them: what
\* cat has written when it ends holds each operand it read to the end, whole,
\* once and in its place, and after a status of zero every operand (cat.c:33-54).
THEOREM OperandsCopied == Spec => []CatCopies
<1> DEFINE Inv == /\ HeadRuns => HeadPlaced
                  /\ CatRuns /\ nflag = Idle => CatPlaced /\ CatTells /\ CatCopied
<1>1. Init => Inv
  BY FiltersAssumption, HeadPlacedInit, CatPlacedInit, CatInit DEF Init, HeadRuns, CatRuns
<1>2. Inv /\ [Next]_vars => Inv'
  <2> SUFFICES ASSUME Inv, [Next]_vars PROVE Inv'
    OBVIOUS
  <2>1. (HeadRuns => HeadPlaced)'
    BY FiltersAssumption, HeadSteps, HeadPlacedNext
  <2>2. ASSUME CatRuns', (nflag = Idle)' PROVE (CatPlaced /\ CatTells /\ CatCopied)'
    <3>1. CASE CatRuns
      BY FiltersAssumption, <2>2, <3>1, CatSteps, CatPlacedNext, CatTellsNext, CatCopiedNext
    <3>2. CASE ~CatRuns
      <4>1. HandOver
        BY <2>2, <3>2, CatBegins
      <4>2. HeadRuns /\ nflag' = nflag
        BY <4>1 DEF HandOver, HeadRuns, headVars
      <4>3. nflag \in Count
        BY <4>2 DEF HeadPlaced, HeadTyped
      <4> QED BY FiltersAssumption, <2>2, <4>2, <4>3
    <3> QED BY <3>1, <3>2
  <2> QED BY <2>1, <2>2
<1>3. Inv => CatCopies
  <2> SUFFICES ASSUME CatPlaced, CatTells, CatCopied, status \in {"zero", "one"}
               PROVE  /\ \A k \in 1..(MaxArgs+1) \ cut : Cat!Of(k) = Cat!Bytes(k)
                      /\ \A i, j \in 1..Len(out) : i < j =>
                           \/ out[i][1] < out[j][1]
                           \/ out[i][1] = out[j][1] /\ out[i][2] < out[j][2]
                      /\ status = "zero" =>
                           cut = {} /\ \A k \in 1..Len(args) : start[k] # -1
    BY DEF CatCopies, Cat!CatCopies, CatRuns
  <2>1. /\ pend = <<>> /\ pc = "exited" /\ cur >= Len(args) /\ out \in Seq(H!Symbol)
        /\ Len(args) \in Nat /\ cur \in Nat /\ MaxArgs \in Nat
    BY FiltersAssumption DEF CatPlaced, CatAtOperand, CatTyped, H!Operands, H!HeadAssumption
  <2>2. Written = out
    BY <2>1, ConcatEmptySeq DEF Written
  <2>3. \A i, j \in 1..Len(out) : i < j =>
           \/ out[i][1] < out[j][1]
           \/ out[i][1] = out[j][1] /\ out[i][2] < out[j][2]
    BY <2>2 DEF CatCopied, Ordered, Before
  <2>4. ASSUME NEW k \in 1..(MaxArgs+1) \ cut PROVE Cat!Of(k) = Cat!Bytes(k)
    <3>1. PartOf(Elements(out), k) = UpTo(k)
      BY <2>2, <2>4 DEF CatCopied, H!Operands
    <3> QED BY <2>1, <3>1 DEF PartOf, Elements, UpTo, ReadTo, Cat!Of, Cat!Bytes
  <2>5. status = "zero" => cut = {} /\ \A k \in 1..Len(args) : start[k] # -1
    BY <2>1 DEF CatTells, Passed
  <2> QED BY <2>3, <2>4, <2>5
<1> QED BY <1>1, <1>2, <1>3, PTL DEF Spec
-----------------------------------------------------------------------------
(***************************************************************************)
(* wc: ends of words.                                                      *)
(***************************************************************************)
LEMMA WcSize == ASSUME NEW S PROVE Wc!Cardinality(S) = Cardinality(S)
BY DEF Wc!Cardinality, Cardinality, Wc!IsFiniteSet, IsFiniteSet

\* The positions of marks s that end a word, w telling whether one is open.
EndsIn(w, s) == {j \in Int : s[j] /\ IF j = 1 THEN w ELSE ~s[j-1]}

LEMMA WordsCounted ==
  ASSUME NEW w \in BOOLEAN, NEW s \in Seq(BOOLEAN)
  PROVE  Wc!WordsEnded(w, s) = Tally(EndsIn(w, s), 1, Len(s))
<1>1. {j \in 1..Len(s) : s[j] /\ IF j = 1 THEN w ELSE ~s[j-1]} = {k \in 1..Len(s) : k \in EndsIn(w, s)}
  BY DEF EndsIn
<1> DEFINE P(j) == s[j] /\ IF j = 1 THEN w ELSE ~s[j-1]
<1>2. Wc!WordsEnded(w, s) = Cardinality({j \in 1..Len(s) : P(j)})
  BY WcSize DEF Wc!WordsEnded
<1> QED BY <1>1, <1>2 DEF Tally

LEMMA WordsOn ==
  ASSUME NEW w \in BOOLEAN, NEW s \in Seq(BOOLEAN), NEW t \in Seq(BOOLEAN)
  PROVE  /\ Wc!InWord(w, s) \in BOOLEAN
         /\ Wc!InWord(w, s \o t) = Wc!InWord(Wc!InWord(w, s), t)
         /\ Wc!WordsEnded(w, s \o t)
              = Wc!WordsEnded(w, s) + Wc!WordsEnded(Wc!InWord(w, s), t)
<1>1. PICK u, v, a, b : u = s \o t /\ v = Wc!InWord(w, s) /\ a = Len(s) /\ b = Len(t)
  OBVIOUS
<1>2. /\ u \in Seq(BOOLEAN) /\ Len(u) = a + b /\ a \in Nat /\ b \in Nat
      /\ \A i \in 1..(a + b) : u[i] = IF i <= a THEN s[i] ELSE t[i - a]
  BY <1>1, ConcatProperties, LenProperties
<1>3. v = IF a = 0 THEN w ELSE ~s[a]
  BY <1>1, <1>2, EmptySeq DEF Wc!InWord
<1>4. v \in BOOLEAN
  <2>1. a # 0 => s[a] \in BOOLEAN
    BY <1>1, <1>2, ElementOfSeq
  <2> QED BY <1>3, <2>1
<1>5. Wc!InWord(w, u) = Wc!InWord(v, t)
  <2>1. CASE b = 0
    <3>1. t = <<>> /\ u = s
      BY <1>1, <2>1, EmptySeq, ConcatEmptySeq
    <3> QED BY <1>1, <3>1 DEF Wc!InWord
  <2>2. CASE b # 0
    <3>1. t # <<>> /\ u # <<>> /\ u[a + b] = t[b]
      BY <1>1, <1>2, <2>2, EmptySeq
    <3> QED BY <1>1, <1>2, <3>1 DEF Wc!InWord
  <2> QED BY <2>1, <2>2
<1>6. Wc!WordsEnded(w, u) = Wc!WordsEnded(w, s) + Wc!WordsEnded(v, t)
  <2>1. Wc!WordsEnded(w, u) = Tally(EndsIn(w, u), 1, a + b)
    BY <1>2, WordsCounted
  <2>2. Tally(EndsIn(w, u), 1, a + b) = Tally(EndsIn(w, u), 1, a) + Tally(EndsIn(w, u), a + 1, a + b)
    <3>1. PICK S : S = EndsIn(w, u)
      OBVIOUS
    <3>2. 1 \in Int /\ a \in Int /\ 1 <= a + 1 /\ b \in Nat
      BY <1>2
    <3>3. Tally(S, 1, a + b) = Tally(S, 1, a) + Tally(S, a + 1, a + b)
      BY ONLY <3>2, TallySplit
    <3> QED BY <3>1, <3>3
  <2>3. Tally(EndsIn(w, u), 1, a) = Tally(EndsIn(w, s), 1, a)
    <3>1. ASSUME NEW k \in 1..a PROVE k \in EndsIn(w, u) <=> k \in EndsIn(w, s)
      <4>1. u[k] = s[k] /\ (k # 1 => u[k-1] = s[k-1])
        BY <1>2, <3>1
      <4> QED BY <4>1 DEF EndsIn
    <3>2. PICK S, T : S = EndsIn(w, u) /\ T = EndsIn(w, s)
      OBVIOUS
    <3> QED BY <1>2, <3>1, <3>2, TallyAlike
  <2>4. Tally(EndsIn(v, t), 1, b) = Tally(EndsIn(w, u), a + 1, a + b)
    <3>1. ASSUME NEW k \in 1..b PROVE k \in EndsIn(v, t) <=> a + k \in EndsIn(w, u)
      <4>1. u[a + k] = t[k] /\ a + k \in Int /\ k \in Int
        BY <1>2, <3>1
      <4>2. CASE k # 1
        <5>1. u[(a + k) - 1] = t[k - 1] /\ a + k # 1
          BY <1>2, <3>1, <4>2
        <5> QED BY <4>1, <4>2, <5>1 DEF EndsIn
      <4>3. CASE k = 1 /\ a = 0
        <5>1. a + k = 1 /\ v = w
          BY <1>3, <4>3
        <5> QED BY <4>1, <4>3, <5>1 DEF EndsIn
      <4>4. CASE k = 1 /\ a # 0
        <5>1. a + k # 1 /\ u[(a + k) - 1] = s[a] /\ v = ~s[a]
          BY <1>2, <1>3, <4>4
        <5> QED BY <4>1, <4>4, <5>1 DEF EndsIn
      <4> QED BY <1>2, <4>2, <4>3, <4>4
    <3>2. PICK S, T : S = EndsIn(v, t) /\ T = EndsIn(w, u)
      OBVIOUS
    <3>3. b \in Nat /\ a \in Int /\ \A k \in 1..b : k \in S <=> a + k \in T
      BY <1>2, <3>1, <3>2
    <3>4. Tally(S, 1, b) = Tally(T, a + 1, a + b)
      BY ONLY <3>3, TallyMoved
    <3> QED BY <3>2, <3>4
  <2>5. Wc!WordsEnded(w, s) = Tally(EndsIn(w, s), 1, a)
    BY <1>1, WordsCounted
  <2>6. Wc!WordsEnded(v, t) = Tally(EndsIn(v, t), 1, b)
    BY <1>1, <1>4, WordsCounted
  <2> QED BY <2>1, <2>2, <2>3, <2>4, <2>5, <2>6
<1> QED BY <1>1, <1>4, <1>5, <1>6
-----------------------------------------------------------------------------
(***************************************************************************)
(* wc: the marks of a stream and the sums of the rows up to a place,       *)
(* without the recursions MarksOf and SumOf are defined by.                *)
(***************************************************************************)
\* x is what the positions 1 to c of s leave.
MarksTo(s, m, c, x) ==
  \E f : /\ f = [k \in 0..c |-> f[k]]
         /\ f[0] = <<>> /\ f[c] = x
         /\ \A k \in 1..c : f[k] = f[k-1] \o Wc!MarksAt(s, k, m)

LEMMA MarksNone == ASSUME NEW s, NEW m PROVE MarksTo(s, m, 0, <<>>)
<1> DEFINE f == [k \in 0..0 |-> <<>>]
<1>1. /\ f = [k \in 0..0 |-> f[k]] /\ f[0] = <<>>
      /\ \A k \in 1..0 : f[k] = f[k-1] \o Wc!MarksAt(s, k, m)
  OBVIOUS
<1> QED BY <1>1 DEF MarksTo

LEMMA MarksMore ==
  ASSUME NEW s, NEW m, NEW c \in Nat, NEW x, MarksTo(s, m, c, x)
  PROVE  MarksTo(s, m, c + 1, x \o Wc!MarksAt(s, c + 1, m))
<1>1. PICK f : /\ f[0] = <<>> /\ f[c] = x
               /\ \A k \in 1..c : f[k] = f[k-1] \o Wc!MarksAt(s, k, m)
  BY DEF MarksTo
<1>2. PICK y : y = x \o Wc!MarksAt(s, c + 1, m)
  OBVIOUS
<1> DEFINE g == [k \in 0..(c+1) |-> IF k = c + 1 THEN y ELSE f[k]]
<1>3. g = [k \in 0..(c+1) |-> g[k]] /\ g[0] = <<>> /\ g[c+1] = y
  BY <1>1
<1>4. ASSUME NEW k \in 1..(c+1) PROVE g[k] = g[k-1] \o Wc!MarksAt(s, k, m)
  <2>1. k - 1 \in 0..c /\ g[k-1] = f[k-1]
    OBVIOUS
  <2>2. CASE k = c + 1
    <3>1. g[k-1] = x /\ g[k] = y
      BY <1>1, <2>1, <2>2
    <3> QED BY <1>2, <2>2, <3>1
  <2>3. CASE k # c + 1
    <3>1. k \in 1..c /\ g[k] = f[k]
      BY <2>3
    <3> QED BY <1>1, <2>1, <3>1
  <2> QED BY <2>2, <2>3
<1> HIDE DEF g
<1> QED BY <1>2, <1>3, <1>4 DEF MarksTo

LEMMA MarksAll ==
  ASSUME NEW s, NEW m, Len(s) \in Nat, NEW x, MarksTo(s, m, Len(s), x)
  PROVE  x = Wc!MarksOf(s, m)
<1> DEFINE n == Len(s)
           Is(h) == h = [k \in 0..n |-> IF k = 0 THEN <<>>
                                        ELSE h[k-1] \o Wc!MarksAt(s, k, m)]
<1>1. PICK f : /\ f = [k \in 0..n |-> f[k]]
               /\ f[0] = <<>> /\ f[n] = x
               /\ \A k \in 1..n : f[k] = f[k-1] \o Wc!MarksAt(s, k, m)
  BY DEF MarksTo
<1>2. Is(f)
  <2> DEFINE h == [k \in 0..n |-> IF k = 0 THEN <<>> ELSE f[k-1] \o Wc!MarksAt(s, k, m)]
  <2>1. ASSUME NEW k \in 0..n PROVE f[k] = h[k]
    <3>1. k # 0 => k \in 1..n
      OBVIOUS
    <3> QED BY <1>1, <3>1
  <2> QED BY <1>1, <2>1
<1>3. PICK g : g = CHOOSE h : Is(h)
  OBVIOUS
<1>4. Is(g)
  <2> HIDE DEF Is
  <2> QED BY <1>2, <1>3
<1>5. g[0] = <<>> /\ \A k \in 1..n : g[k] = g[k-1] \o Wc!MarksAt(s, k, m)
  <2>1. ASSUME NEW k \in 0..n
        PROVE  g[k] = IF k = 0 THEN <<>> ELSE g[k-1] \o Wc!MarksAt(s, k, m)
    <3>1. PICK h : h = [l \in 0..n |-> IF l = 0 THEN <<>> ELSE g[l-1] \o Wc!MarksAt(s, l, m)]
      OBVIOUS
    <3>2. g[k] = h[k]
      BY <1>4, <3>1
    <3> QED BY <3>1, <3>2
  <2>2. 0 \in 0..n /\ \A k \in 1..n : k \in 0..n /\ k # 0
    OBVIOUS
  <2> QED BY <2>1, <2>2
<1>6. Wc!MarksOf(s, m) = g[n]
  BY <1>3 DEF Wc!MarksOf
<1> DEFINE T == {k \in 0..n : f[k] = g[k]}
<1> HIDE DEF Is
<1>7. 0 \in T
  BY <1>1, <1>5
<1>8. ASSUME NEW k \in 0..(n-1), k \in T PROVE k + 1 \in T
  <2>1. k + 1 \in 1..n /\ (k + 1) - 1 = k
    OBVIOUS
  <2>2. /\ f[k+1] = f[(k+1)-1] \o Wc!MarksAt(s, k + 1, m)
        /\ g[k+1] = g[(k+1)-1] \o Wc!MarksAt(s, k + 1, m)
    BY <1>1, <1>5, <2>1
  <2>3. f[k+1] = g[k+1]
    BY <1>8, <2>1, <2>2
  <2> QED BY <2>1, <2>3
<1>9. 0..n \subseteq T
  <2>1. n \in Nat
    OBVIOUS
  <2> HIDE DEF T, n
  <2> QED BY <1>7, <1>8, <2>1, UpToInduction
<1> QED BY <1>1, <1>6, <1>9

\* v is the sum of column c of the rows R of operands.
Share(row, c) == IF row[1] = Wc!TOTAL THEN 0 ELSE row[c]

SumsTo(R, c, v) ==
  \E f : /\ f = [k \in 0..Len(R) |-> f[k]]
         /\ f[0] = 0 /\ f[Len(R)] = v
         /\ \A k \in 1..Len(R) : f[k] = f[k-1] + Share(R[k], c)

LEMMA SumsNone == ASSUME NEW c PROVE SumsTo(<<>>, c, 0)
<1> DEFINE f == [k \in 0..0 |-> 0]
<1>1. /\ f = [k \in 0..0 |-> f[k]] /\ f[0] = 0 /\ Len(<<>>) = 0
      /\ \A k \in 1..0 : f[k] = f[k-1] + Share(<<>>[k], c)
  OBVIOUS
<1> QED BY <1>1 DEF SumsTo

Row == Nat \X Nat \X Nat \X Nat

LEMMA SumsMore ==
  ASSUME NEW R \in Seq(Row), NEW row \in Row, NEW c, NEW v, SumsTo(R, c, v)
  PROVE  SumsTo(Append(R, row), c, v + Share(row, c))
<1>1. PICK n, Q : n = Len(R) /\ Q = Append(R, row)
  OBVIOUS
<1>2. /\ n \in Nat /\ Len(Q) = n + 1 /\ Q[n+1] = row
      /\ \A k \in 1..n : Q[k] = R[k]
  BY <1>1, AppendProperties, LenProperties
<1>3. PICK f : /\ f[0] = 0 /\ f[n] = v
               /\ \A k \in 1..n : f[k] = f[k-1] + Share(R[k], c)
  BY <1>1 DEF SumsTo
<1>4. PICK y : y = v + Share(row, c)
  OBVIOUS
<1> DEFINE g == [k \in 0..(n+1) |-> IF k = n + 1 THEN y ELSE f[k]]
<1>5. g = [k \in 0..(n+1) |-> g[k]] /\ g[0] = 0 /\ g[n+1] = y
  BY <1>2, <1>3
<1>6. ASSUME NEW k \in 1..(n+1) PROVE g[k] = g[k-1] + Share(Q[k], c)
  <2>1. k - 1 \in 0..n /\ g[k-1] = f[k-1]
    BY <1>2
  <2>2. CASE k = n + 1
    <3>1. g[k-1] = v /\ g[k] = y /\ Q[k] = row
      BY <1>2, <1>3, <2>1, <2>2
    <3> QED BY <1>4, <3>1
  <2>3. CASE k # n + 1
    <3>1. k \in 1..n /\ g[k] = f[k] /\ Q[k] = R[k]
      BY <1>2, <2>3
    <3> QED BY <1>3, <2>1, <3>1
  <2> QED BY <2>2, <2>3
<1> HIDE DEF g
<1> QED BY <1>1, <1>2, <1>4, <1>5, <1>6 DEF SumsTo

LEMMA SumsAll ==
  ASSUME rows \in Seq(Row), NEW c, NEW v, SumsTo(rows, c, v)
  PROVE  v = Wc!SumOf(c)
<1> DEFINE n == Len(rows)
           Is(h) == h = [k \in 0..n |-> IF k = 0 THEN 0
                                        ELSE h[k-1] + (IF rows[k][1] = Wc!TOTAL THEN 0 ELSE rows[k][c])]
<1>0. n \in Nat
  OBVIOUS
<1>1. PICK f : /\ f = [k \in 0..n |-> f[k]]
               /\ f[0] = 0 /\ f[n] = v
               /\ \A k \in 1..n : f[k] = f[k-1] + (IF rows[k][1] = Wc!TOTAL THEN 0 ELSE rows[k][c])
  BY DEF SumsTo, Share
<1>2. Is(f)
  <2> DEFINE h == [k \in 0..n |-> IF k = 0 THEN 0
                                  ELSE f[k-1] + (IF rows[k][1] = Wc!TOTAL THEN 0 ELSE rows[k][c])]
  <2>1. ASSUME NEW k \in 0..n PROVE f[k] = h[k]
    <3>1. k # 0 => k \in 1..n
      OBVIOUS
    <3> QED BY <1>1, <3>1
  <2> QED BY <1>1, <2>1
<1>3. PICK g : g = CHOOSE h : Is(h)
  OBVIOUS
<1>4. Is(g)
  <2> HIDE DEF Is
  <2> QED BY <1>2, <1>3
<1>5. /\ g[0] = 0
      /\ \A k \in 1..n : g[k] = g[k-1] + (IF rows[k][1] = Wc!TOTAL THEN 0 ELSE rows[k][c])
  <2>1. ASSUME NEW k \in 0..n
        PROVE  g[k] = IF k = 0 THEN 0
                      ELSE g[k-1] + (IF rows[k][1] = Wc!TOTAL THEN 0 ELSE rows[k][c])
    <3>1. PICK h : h = [l \in 0..n |-> IF l = 0 THEN 0
                          ELSE g[l-1] + (IF rows[l][1] = Wc!TOTAL THEN 0 ELSE rows[l][c])]
      OBVIOUS
    <3>2. g[k] = h[k]
      BY <1>4, <3>1
    <3> QED BY <3>1, <3>2
  <2>2. 0 \in 0..n /\ \A k \in 1..n : k \in 0..n /\ k # 0
    BY <1>0
  <2> QED BY <2>1, <2>2
<1>6. Wc!SumOf(c) = g[n]
  BY <1>3 DEF Wc!SumOf
<1> DEFINE T == {k \in 0..n : f[k] = g[k]}
<1> HIDE DEF Is
<1>7. 0 \in T
  BY <1>0, <1>1, <1>5
<1>8. ASSUME NEW k \in 0..(n-1), k \in T PROVE k + 1 \in T
  <2>1. k + 1 \in 1..n /\ (k + 1) - 1 = k
    BY <1>0
  <2>2. /\ f[k+1] = f[k] + (IF rows[k+1][1] = Wc!TOTAL THEN 0 ELSE rows[k+1][c])
        /\ g[k+1] = g[k] + (IF rows[k+1][1] = Wc!TOTAL THEN 0 ELSE rows[k+1][c])
    BY <1>1, <1>5, <2>1
  <2>3. f[k+1] = g[k+1]
    BY <1>8, <2>1, <2>2
  <2> QED BY <1>0, <2>1, <2>3
<1>9. 0..n \subseteq T
  <2> HIDE DEF T, n
  <2> QED BY <1>0, <1>7, <1>8, UpToInduction
<1> QED BY <1>0, <1>1, <1>6, <1>9
-----------------------------------------------------------------------------
(***************************************************************************)
(* wc: what one character does.                                            *)
(***************************************************************************)
Bytes == 0..255

\* The counts of the first p bytes of s.
NewlineAt(s) == {j \in Int : s[j] = 10}
CharacterAt(s) == {j \in Int : s[j] < 128 \/ Wc!PairAt(s, j)}

NewlinesTo(s, p, n) == n = Tally(NewlineAt(s), 1, p)
CharsTo(s, m, p, n) == n = IF m = "m" THEN Tally(CharacterAt(s), 1, p) ELSE 0

WordsTo(s, m, p, n, w) ==
  \E x \in Seq(BOOLEAN) :
    /\ MarksTo(s, m, p, x)
    /\ n = Wc!WordsEnded(FALSE, x) /\ w = Wc!InWord(FALSE, x)

\* They are those of the position, which is not within a character.
CountedTo(s, p) ==
  /\ mode # "c" => ~Wc!PairAt(s, p)
  /\ NewlinesTo(s, p, newline) /\ CharsTo(s, mode, p, chars)
  /\ WordsTo(s, mode, p, words, word)

\* A character of n bytes at q with marks x, l newlines and c characters.
Looks(s, q, n, x, l, c) ==
  /\ n \in {1, 2} /\ x \in Seq(BOOLEAN) /\ x = Wc!MarksAt(s, q, mode)
  /\ n = 2 => Wc!MarksAt(s, q + 1, mode) = <<>>
  /\ l = Tally(NewlineAt(s), q, q + n - 1)
  /\ c = IF mode = "m" THEN Tally(CharacterAt(s), q, q + n - 1) ELSE 0
  /\ mode # "c" => ~Wc!PairAt(s, q + n - 1)

LEMMA CountsOn ==
  ASSUME NEW s, NEW p \in Nat, CountedTo(s, p),
         NEW n, NEW x, NEW l, NEW c, Looks(s, p + 1, n, x, l, c),
         words \in Nat, word \in BOOLEAN, mode' = mode,
         newline' = newline + l, chars' = chars + c,
         words' = words + Wc!WordsEnded(word, x), word' = Wc!InWord(word, x)
  PROVE  CountedTo(s, p + n)'
<1>1. n \in Nat /\ x \in Seq(BOOLEAN)
  BY DEF Looks
<1>2. ASSUME NEW S PROVE Tally(S, 1, p + n) = Tally(S, 1, p) + Tally(S, p + 1, (p + 1) + n - 1)
  <2>1. 1 \in Int /\ p \in Int /\ 1 <= p + 1 /\ (p + 1) + n - 1 = p + n
    BY <1>1
  <2>2. Tally(S, 1, p + n) = Tally(S, 1, p) + Tally(S, p + 1, p + n)
    BY ONLY <1>1, <2>1, TallySplit
  <2> QED BY <2>1, <2>2
<1>3. NewlinesTo(s, p + n, newline')
  BY <1>2 DEF CountedTo, NewlinesTo, Looks
<1>4. CharsTo(s, mode, p + n, chars')
  BY <1>2 DEF CountedTo, CharsTo, Looks
<1>5. mode # "c" => ~Wc!PairAt(s, p + n)
  <2>1. (p + 1) + n - 1 = p + n
    BY <1>1
  <2> QED BY <2>1 DEF Looks
<1>6. WordsTo(s, mode, p + n, words', word')
  <2>1. PICK y \in Seq(BOOLEAN) :
          /\ MarksTo(s, mode, p, y)
          /\ words = Wc!WordsEnded(FALSE, y) /\ word = Wc!InWord(FALSE, y)
    BY DEF CountedTo, WordsTo
  <2>2. PICK z : z = y \o x
    OBVIOUS
  <2>3. z \in Seq(BOOLEAN)
    BY <1>1, <2>2, ConcatProperties
  <2>4. words' = Wc!WordsEnded(FALSE, z) /\ word' = Wc!InWord(FALSE, z)
    BY <1>1, <2>1, <2>2, WordsOn
  <2>5. MarksTo(s, mode, p + 1, z)
    BY <2>1, <2>2, MarksMore DEF Looks
  <2>6. MarksTo(s, mode, p + n, z)
    <3>1. CASE n = 1
      BY <2>5, <3>1
    <3>2. CASE n = 2
      <4>1. Wc!MarksAt(s, (p + 1) + 1, mode) = <<>> /\ p + 1 \in Nat /\ (p + 1) + 1 = p + n
        BY <3>2 DEF Looks
      <4>2. MarksTo(s, mode, (p + 1) + 1, z \o <<>>)
        BY <2>5, <4>1, MarksMore
      <4>3. z \o <<>> = z
        BY <2>3, ConcatEmptySeq
      <4> QED BY <4>1, <4>2, <4>3
    <3> QED BY <3>1, <3>2 DEF Looks
  <2> QED BY <2>3, <2>4, <2>6 DEF WordsTo
<1> QED BY <1>3, <1>4, <1>5, <1>6 DEF CountedTo

\* A character of one byte, of two, and none.
LEMMA SpaceType ==
  /\ \A c \in Int : Wc!Space(c) \in BOOLEAN
  /\ Wc!Space(0) = FALSE
BY DEF Wc!Space

LEMMA MarksOne ==
  ASSUME NEW a \in Int, NEW ch, ch = Wc!Character(1, <<a>>)
  PROVE  /\ ch.len = 1 /\ ch.value = <<a>>
         /\ Wc!Marks(ch, FALSE) = <<Wc!Space(a)>>
<1>1. PICK u : u = Wc!Space(a)
  OBVIOUS
<1>2. ch.len = 1 /\ ch.value = <<a>>
  BY DEF Wc!Character
<1>3. u \in BOOLEAN
  BY <1>1, SpaceType
<1>4. [j \in 1..1 |-> Wc!Space(<<a>>[j])] = <<u>>
  <2>1. \A j \in 1..1 : Wc!Space(<<a>>[j]) = u
    BY <1>1
  <2> QED BY <1>3, <2>1
<1>5. <<>> \o <<u>> = <<u>>
  BY <1>3, ConcatEmptySeq
<1> QED BY <1>1, <1>2, <1>4, <1>5 DEF Wc!Marks

LEMMA MarksNul ==
  ASSUME NEW ch, ch = Wc!Character(1, << 0 >>)
  PROVE  Wc!Marks(ch, TRUE) = <<TRUE, FALSE>>
<1>1. ch.len = 1 /\ ch.value = <<0>>
  BY DEF Wc!Character
<1>2. PICK t, f : t = TRUE /\ f = FALSE
  OBVIOUS
<1>3. t \in BOOLEAN /\ f \in BOOLEAN
  BY <1>2
<1>4. [j \in 1..1 |-> Wc!Space(<<0>>[j])] = <<f>>
  <2>1. Wc!Space(0) = f
    BY <1>2, SpaceType
  <2>2. \A j \in 1..1 : Wc!Space(<<0>>[j]) = f
    BY <2>1
  <2> QED BY <1>3, <2>2
<1>5. <<t>> \o <<f>> = <<t, f>>
  <2>1. PICK u, v : u = <<t>> \o <<f>> /\ v = <<t, f>>
    OBVIOUS
  <2>2. <<t>> \in Seq(BOOLEAN) /\ <<f>> \in Seq(BOOLEAN) /\ v \in Seq(BOOLEAN)
    BY <1>3, <2>1
  <2>3. u \in Seq(BOOLEAN) /\ Len(u) = 2 /\ u[1] = t /\ u[2] = f
    BY <2>1, <2>2, ConcatProperties
  <2>4. Len(v) = 2 /\ v[1] = t /\ v[2] = f
    BY <2>1
  <2>5. u = v
    BY ONLY <2>2, <2>3, <2>4, SeqEqual
  <2> QED BY <2>1, <2>5
<1>6. Wc!Marks(ch, TRUE) = <<TRUE>> \o [j \in 1..ch.len |-> Wc!Space((ch.value)[j])]
  <2>1. ch.len # 0
    BY <1>1
  <2> QED BY <2>1, Zenon DEF Wc!Marks
<1>7. Wc!Marks(ch, TRUE) = <<t>> \o <<f>>
  BY <1>1, <1>2, <1>4, <1>6, Zenon
<1> QED BY <1>2, <1>5, <1>7, Zenon

LEMMA MarksTwo ==
  ASSUME NEW a \in Int, NEW b \in Int, NEW ch, ch = Wc!Character(2, <<a, b>>)
  PROVE  /\ ch.len = 2 /\ ch.value # <<10>>
         /\ Wc!Marks(ch, FALSE) = <<Wc!Space(a), Wc!Space(b)>>
<1>1. PICK u, v : u = Wc!Space(a) /\ v = Wc!Space(b)
  OBVIOUS
<1>2. ch.len = 2 /\ ch.value = <<a, b>> /\ ch.value # <<10>>
  BY DEF Wc!Character
<1>3. u \in BOOLEAN /\ v \in BOOLEAN
  BY <1>1, SpaceType
<1>4. [j \in 1..2 |-> Wc!Space(<<a, b>>[j])] = <<u, v>>
  <2>1. Wc!Space(<<a, b>>[1]) = u /\ Wc!Space(<<a, b>>[2]) = v
    BY <1>1
  <2> QED BY <1>3, <2>1
<1>5. <<>> \o <<u, v>> = <<u, v>>
  BY <1>3, ConcatEmptySeq
<1>6. Wc!Marks(ch, FALSE) = <<>> \o [j \in 1..ch.len |-> Wc!Space((ch.value)[j])]
  <2>1. ch.len # 0
    BY <1>2
  <2> QED BY <2>1, Zenon DEF Wc!Marks
<1>7. Wc!Marks(ch, FALSE) = <<u, v>>
  BY <1>2, <1>4, <1>5, <1>6, Zenon
<1> QED BY <1>1, <1>2, <1>7, Zenon

LEMMA MarksBad ==
  ASSUME NEW n, NEW ch, ch = Wc!Character(0, <<>>)
  PROVE  ch.len = 0 /\ ch.value # <<10>> /\ Wc!Marks(ch, n) = <<TRUE>>
<1>1. ch.len = 0 /\ ch.value # <<10>>
  BY DEF Wc!Character
<1>2. Wc!Marks(ch, n) = <<TRUE>>
  BY <1>1, Zenon DEF Wc!Marks
<1> QED BY <1>1, <1>2

LEMMA LeadsApart ==
  ASSUME NEW b \in Int
  PROVE  /\ b < 128 => ~Wc!Lead(b)
         /\ Wc!Cont(b) => ~Wc!Lead(b) /\ ~(b < 128) /\ b # 10
BY DEF Wc!Lead, Wc!Cont

\* In a buffer of r bytes, or at the end of the stream, wc sees what is there.
LEMMA WcLooks ==
  ASSUME NEW s \in Seq(Bytes), s = Wc!Stream, NEW p \in Nat, p = got - r,
         got \in Nat, r \in Nat \ {0}, got <= Len(s), p + r = got,
         r > 1 \/ got = Len(s), mode # "c" => ~Wc!PairAt(s, p), Wc!Step
  PROVE  \E n, x, l, c :
           /\ Looks(s, p + 1, n, x, l, c) /\ n <= r /\ r' = r - n
           /\ newline' = newline + l /\ chars' = chars + c
           /\ words' = words + Wc!WordsEnded(word, x) /\ word' = Wc!InWord(word, x)
<1>1. PICK q, b, ch, m :
        /\ q = p + 1 /\ b = s[q] /\ ch = Wc!Char
        /\ m = Wc!Marks(ch, mode # "c" /\ s[q] = 0)
  OBVIOUS
<1>2. /\ q \in 1..Len(s) /\ q = Wc!Position /\ b \in Bytes /\ Len(s) \in Nat
      /\ q - 1 = p /\ b \in Int /\ b = Wc!Stream[Wc!Position]
  <2>1. Len(s) \in Nat
    BY LenProperties
  <2>2. q \in 1..Len(s) /\ q - 1 = p /\ q = Wc!Position
    BY <1>1, <2>1 DEF Wc!Position
  <2>3. b \in Bytes
    BY <1>1, <2>2, ElementOfSeq
  <2> QED BY <1>1, <2>1, <2>2, <2>3 DEF Bytes
<1>3. /\ words' = words + Wc!WordsEnded(word, m) /\ word' = Wc!InWord(word, m)
      /\ newline' = newline + (IF ch.value = <<10>> THEN 1 ELSE 0)
      /\ chars' = chars + (IF mode = "m" /\ ch.len > 0 THEN 1 ELSE 0)
      /\ r' = r - (IF ch.len = 0 THEN 1 ELSE ch.len)
  BY <1>1, <1>2 DEF Wc!Step
<1>4. ASSUME NEW S PROVE /\ Tally(S, q, q + 1 - 1) = IF q \in S THEN 1 ELSE 0
                         /\ Tally(S, q, q + 2 - 1) = (IF q \in S THEN 1 ELSE 0) + (IF q + 1 \in S THEN 1 ELSE 0)
  <2>1. q \in Int /\ q - 1 \in Int /\ q - 1 < q /\ q <= q /\ q + 1 \in Int /\ q <= q + 1
        /\ (q + 1) - 1 = q /\ (q + 2) - 1 = q + 1
    BY <1>2
  <2>2. Tally(S, q, q) = Tally(S, q, q - 1) + (IF q \in S THEN 1 ELSE 0)
    BY ONLY <2>1, TallyNext
  <2>3. Tally(S, q, q - 1) = 0
    BY ONLY <2>1, TallyNone
  <2>4. Tally(S, q, q + 1) = Tally(S, q, (q + 1) - 1) + (IF q + 1 \in S THEN 1 ELSE 0)
    BY ONLY <2>1, TallyNext
  <2> QED BY <2>1, <2>2, <2>3, <2>4
<1>5. ASSUME mode = "c" \/ b < 128
      PROVE  /\ ch = Wc!Character(1, <<b>>)
             /\ ch.len = 1 /\ ch.value = <<b>>
  BY <1>1, <1>2, <1>5 DEF Wc!Char, Wc!mbtoc, Wc!mbtowc, Wc!Character
<1>6. CASE mode = "c"
  <2>1. m = Wc!MarksAt(s, q, mode) /\ m \in Seq(BOOLEAN)
    <3>1. PICK u : u = Wc!Space(b)
      OBVIOUS
    <3>2. Wc!Marks(ch, FALSE) = <<u>> /\ u \in BOOLEAN
      BY <1>2, <1>5, <1>6, <3>1, MarksOne, SpaceType
    <3>3. Wc!MarksAt(s, q, mode) = <<u>>
      BY <1>1, <1>6, <3>1 DEF Wc!MarksAt
    <3>4. m = Wc!Marks(ch, FALSE)
      BY <1>1, <1>6
    <3>5. m = <<u>>
      BY <3>2, <3>4, Zenon
    <3>6. <<u>> \in Seq(BOOLEAN)
      BY <3>2
    <3> QED BY <3>3, <3>5, <3>6, Zenon
  <2>2. PICK l : l = IF b = 10 THEN 1 ELSE 0
    OBVIOUS
  <2>3. Looks(s, q, 1, m, l, 0)
    BY <1>1, <1>2, <1>4, <1>6, <2>1, <2>2, SMTT(30) DEF Looks, NewlineAt
  <2>4. newline' = newline + l /\ chars' = chars + 0 /\ r' = r - 1
    BY <1>3, <1>5, <1>6, <2>2
  <2> QED BY <1>1, <1>3, <2>3, <2>4, SMTT(30)
<1>7. CASE mode # "c" /\ b < 128
  <2>0. ~Wc!PairAt(s, q - 1) /\ ~Wc!PairAt(s, q) /\ ~(b > 127)
    <3>1. ~Wc!PairAt(s, q - 1)
      BY <1>2, <1>7
    <3>2. ~Wc!Lead(s[q])
      <4>1. b \in Int /\ b < 128
        BY <1>2, <1>7
      <4>2. ~Wc!Lead(b)
        BY ONLY <4>1, LeadsApart
      <4> QED BY <1>1, <4>2
    <3> QED BY <1>2, <1>7, <3>1, <3>2 DEF Wc!PairAt
  <2>1. m = Wc!MarksAt(s, q, mode) /\ m \in Seq(BOOLEAN)
    <3>1. CASE b = 0
      <4>1. m = <<TRUE, FALSE>>
        <5>1. m = Wc!Marks(ch, TRUE)
          BY <1>1, <1>7, <3>1
        <5> QED BY <1>5, <1>7, <3>1, <5>1, MarksNul
      <4>2. Wc!MarksAt(s, q, mode) = <<TRUE, FALSE>>
        BY <1>1, <1>7, <2>0, <3>1 DEF Wc!MarksAt
      <4> QED BY <4>1, <4>2
    <3>2. CASE b # 0
      <4>0. PICK u : u = Wc!Space(b)
        OBVIOUS
      <4>1. m = <<u>> /\ u \in BOOLEAN
        <5>1. m = Wc!Marks(ch, FALSE)
          BY <1>1, <1>7, <3>2
        <5> QED BY <1>2, <1>5, <1>7, <4>0, <5>1, MarksOne, SpaceType
      <4>2. Wc!MarksAt(s, q, mode) = <<u>>
        BY <1>1, <1>7, <2>0, <3>2, <4>0 DEF Wc!MarksAt
      <4> QED BY <4>1, <4>2
    <3> QED BY <3>1, <3>2
  <2>2. PICK l, c : l = (IF b = 10 THEN 1 ELSE 0) /\ c = (IF mode = "m" THEN 1 ELSE 0)
    OBVIOUS
  <2>3. Looks(s, q, 1, m, l, c)
    BY <1>1, <1>2, <1>4, <1>7, <2>0, <2>1, <2>2, SMTT(30) DEF Looks, NewlineAt, CharacterAt
  <2>4. newline' = newline + l /\ chars' = chars + c /\ r' = r - 1
    BY <1>3, <1>5, <1>7, <2>2, SMTT(30)
  <2> QED BY <1>1, <1>3, <2>3, <2>4
<1>8. CASE mode # "c" /\ b >= 128 /\ r > 1 /\ Wc!Lead(b) /\ Wc!Cont(s[q+1])
  <2>0. q + 1 \in 1..Len(s) /\ q \in 1..(Len(s)-1) /\ s[q+1] \in Bytes
    BY <1>1, <1>2, <1>8, ElementOfSeq
  <2>1. /\ Wc!PairAt(s, q) /\ ~Wc!PairAt(s, q - 1) /\ ~Wc!PairAt(s, q + 1)
        /\ ~(b < 128) /\ ~(s[q+1] < 128) /\ b # 10 /\ s[q+1] # 10 /\ b # 0
    <3>1. Wc!PairAt(s, q)
      BY <1>1, <1>8, <2>0 DEF Wc!PairAt
    <3>2. ~Wc!PairAt(s, q - 1)
      BY <1>2, <1>8
    <3>3. ~Wc!Lead(s[q+1]) /\ ~(s[q+1] < 128) /\ s[q+1] # 10
      <4>1. PICK d : d = s[q+1]
        OBVIOUS
      <4>2. d \in Bytes /\ Wc!Cont(d)
        BY <1>8, <2>0, <4>1
      <4>3. d \in Int
        BY ONLY <4>2 DEF Bytes
      <4>4. ~Wc!Lead(d) /\ ~(d < 128) /\ d # 10
        BY ONLY <4>2, <4>3, LeadsApart
      <4> QED BY <4>1, <4>4
    <3>4. ~Wc!PairAt(s, q + 1)
      BY <3>3 DEF Wc!PairAt
    <3>5. ~(b < 128) /\ ~(s[q+1] < 128) /\ b # 10 /\ s[q+1] # 10 /\ b # 0
      <4>1. ~(b < 128) /\ b # 10 /\ b # 0
        BY ONLY <1>2, <1>8
      <4> QED BY ONLY <3>3, <4>1
    <3> QED BY <3>1, <3>2, <3>4, <3>5
  <2>2. PICK e, v, z : /\ e = Wc!CodeOf(b, s[q+1]) /\ v = e % 256 /\ z = e \div 256
    OBVIOUS
  <2>3. v \in Int /\ z \in Int
    <3>1. e \in Int
      BY <1>2, <2>0, <2>2 DEF Wc!CodeOf, Bytes
    <3> QED BY <2>2, <3>1
  <2>4. ch = Wc!Character(2, <<v, z>>)
    <3>1. ch = Wc!mbtowc(Wc!Stream, Wc!Position, r)
      BY <1>1, <1>8 DEF Wc!Char
    <3>2. ch = Wc!mbtowc(s, q, r)
      BY <1>2, <3>1
    <3> QED BY <1>1, <1>8, <2>1, <2>2, <3>2 DEF Wc!mbtowc
  <2>5. PICK f, g : f = Wc!Space(v) /\ g = Wc!Space(z)
    OBVIOUS
  <2>6. ch.len = 2 /\ ch.value # <<10>> /\ m = <<f, g>> /\ f \in BOOLEAN /\ g \in BOOLEAN
    <3>1. m = Wc!Marks(ch, FALSE)
      BY <1>1, <2>1
    <3> QED BY <2>3, <2>4, <2>5, <3>1, MarksTwo, SpaceType
  <2>7. Wc!MarksAt(s, q, mode) = <<f, g>>
    BY <1>1, <1>8, <2>1, <2>2, <2>5 DEF Wc!MarksAt
  <2>8. Wc!MarksAt(s, q + 1, mode) = <<>>
    BY <1>2, <1>8, <2>1 DEF Wc!MarksAt
  <2>9. PICK c : c = IF mode = "m" THEN 1 ELSE 0
    OBVIOUS
  <2>10. Looks(s, q, 2, m, 0, c)
    <3>1. q + 2 - 1 = q + 1 /\ m \in Seq(BOOLEAN)
      BY <1>2, <2>6
    <3>2. Tally(NewlineAt(s), q, q + 2 - 1) = 0
      BY <1>1, <1>4, <2>1 DEF NewlineAt
    <3>3. Tally(CharacterAt(s), q, q + 2 - 1) = 1
      BY <1>1, <1>2, <1>4, <2>1, SMTT(30) DEF CharacterAt
    <3> QED BY <1>8, <2>1, <2>6, <2>7, <2>8, <2>9, <3>1, <3>2, <3>3 DEF Looks
  <2>11. newline' = newline + 0 /\ chars' = chars + c /\ r' = r - 2
    BY <1>3, <2>6, <2>9
  <2> QED BY <1>1, <1>3, <1>8, <2>10, <2>11
<1>9. CASE mode # "c" /\ b >= 128 /\ ~(r > 1 /\ Wc!Lead(b) /\ Wc!Cont(s[q+1]))
  <2>1. /\ ~Wc!PairAt(s, q) /\ ~Wc!PairAt(s, q - 1) /\ ~(b < 128) /\ b > 127 /\ b # 10
    <3>1. r = 1 => q = Len(s)
      BY <1>1
    <3>2. ~Wc!PairAt(s, q)
      BY <1>1, <1>2, <1>9, <3>1 DEF Wc!PairAt
    <3> QED BY <1>1, <1>2, <1>9, <3>2 DEF Bytes
  <2>2. ch = Wc!Character(0, <<>>)
    <3>1. ch = Wc!mbtowc(Wc!Stream, Wc!Position, r)
      BY <1>1, <1>9 DEF Wc!Char
    <3>2. ch = Wc!mbtowc(s, q, r)
      BY <1>2, <3>1
    <3> QED BY <1>1, <1>9, <2>1, <3>2 DEF Wc!mbtowc
  <2>3. m = <<TRUE>> /\ m \in Seq(BOOLEAN) /\ ch.len = 0 /\ ch.value # <<10>>
    <3>1. m = <<TRUE>> /\ ch.len = 0 /\ ch.value # <<10>>
      BY <1>1, <2>2, MarksBad
    <3> QED BY <3>1
  <2>4. Wc!MarksAt(s, q, mode) = <<TRUE>>
    BY <1>1, <1>9, <2>1 DEF Wc!MarksAt
  <2>5. Looks(s, q, 1, m, 0, 0)
    <3>1. q + 1 - 1 = q /\ 1 # 2
      BY <1>2
    <3>2. Tally(NewlineAt(s), q, q + 1 - 1) = 0
      BY <1>1, <1>4, <2>1 DEF NewlineAt
    <3>3. Tally(CharacterAt(s), q, q + 1 - 1) = 0
      BY <1>1, <1>4, <2>1 DEF CharacterAt
    <3> QED BY <1>9, <2>1, <2>3, <2>4, <3>1, <3>2, <3>3 DEF Looks
  <2>6. newline' = newline + 0 /\ chars' = chars + 0 /\ r' = r - 1
    BY <1>3, <2>3
  <2> QED BY <1>1, <1>3, <2>5, <2>6
<1> QED BY <1>2, <1>6, <1>7, <1>8, <1>9 DEF Bytes
-----------------------------------------------------------------------------
(***************************************************************************)
(* wc: the counts of all of a stream.                                      *)
(***************************************************************************)
LEMMA BytesAreInt == Bytes \subseteq Int
BY DEF Bytes

\* With -c a byte leaves one mark.
LEMMA MarksOfBytes ==
  ASSUME NEW s \in Seq(Bytes), NEW n \in Nat, n <= Len(s), NEW x, MarksTo(s, "c", n, x)
  PROVE  x \in Seq(BOOLEAN) /\ Len(x) = n /\ \A j \in 1..n : x[j] = Wc!Space(s[j])
<1>1. PICK f : /\ f[0] = <<>> /\ f[n] = x
               /\ \A k \in 1..n : f[k] = f[k-1] \o Wc!MarksAt(s, k, "c")
  BY DEF MarksTo
<1> DEFINE T == {k \in 0..n : /\ f[k] \in Seq(BOOLEAN) /\ Len(f[k]) = k
                              /\ \A j \in 1..k : f[k][j] = Wc!Space(s[j])}
<1>2. 0 \in T
  <2>1. f[0] \in Seq(BOOLEAN) /\ Len(f[0]) = 0 /\ 0 \in 0..n
    BY <1>1, EmptySeq
  <2>2. \A j \in 1..0 : f[0][j] = Wc!Space(s[j])
    OBVIOUS
  <2> QED BY <2>1, <2>2
<1>3. ASSUME NEW k \in 0..(n-1), k \in T PROVE k + 1 \in T
  <2>1. PICK u, v, w : u = f[k] /\ v = Wc!Space(s[k+1]) /\ w = f[k+1]
    OBVIOUS
  <2>2. k + 1 \in 1..n /\ (k + 1) - 1 = k /\ k + 1 \in 1..Len(s) /\ k \in Nat
    BY LenProperties
  <2>3. v \in BOOLEAN
    <3>1. s[k+1] \in Bytes
      BY <2>2, ElementOfSeq
    <3> QED BY <2>1, <3>1, BytesAreInt, SpaceType
  <2>4. w = u \o <<v>>
    BY <1>1, <2>1, <2>2 DEF Wc!MarksAt
  <2>5. u \in Seq(BOOLEAN) /\ Len(u) = k /\ \A j \in 1..k : u[j] = Wc!Space(s[j])
    BY <1>3, <2>1
  <2>6. <<v>> \in Seq(BOOLEAN) /\ Len(<<v>>) = 1 /\ <<v>>[1] = v
    BY <2>3
  <2>7. /\ w \in Seq(BOOLEAN) /\ Len(w) = k + 1
        /\ \A j \in 1..(k+1) : w[j] = IF j <= k THEN u[j] ELSE <<v>>[j - k]
    BY <2>4, <2>5, <2>6, ConcatProperties
  <2>8. ASSUME NEW j \in 1..(k+1) PROVE w[j] = Wc!Space(s[j])
    <3>1. CASE j <= k
      BY <2>2, <2>5, <2>7, <3>1
    <3>2. CASE j > k
      <4>1. j = k + 1 /\ j - k = 1
        BY <2>2, <3>2
      <4> QED BY <2>1, <2>6, <2>7, <3>2, <4>1
    <3> QED BY <2>2, <3>1, <3>2
  <2> QED BY <2>1, <2>2, <2>7, <2>8
<1>4. 0..n \subseteq T
  <2> HIDE DEF T
  <2> QED BY <1>2, <1>3, UpToInduction
<1>5. n \in T
  BY <1>4
<1> QED BY <1>1, <1>5

RunsIn(s) == {j \in Int : ~Wc!Space(s[j]) /\ (j = 1 \/ Wc!Space(s[j-1]))}

\* As many words have ended as have begun, but for one that is open.
LEMMA RunsCounted ==
  ASSUME NEW s \in Seq(Bytes), NEW n \in Nat \ {0}, n = Len(s), NEW x, MarksTo(s, "c", n, x)
  PROVE  Wc!WordsEnded(FALSE, x) = Wc!WordRuns(s) - (IF Wc!Space(s[n]) THEN 0 ELSE 1)
<1>1. x \in Seq(BOOLEAN) /\ Len(x) = n /\ \A j \in 1..n : x[j] = Wc!Space(s[j])
  BY MarksOfBytes
<1>2. PICK E, R : E = EndsIn(FALSE, x) /\ R = RunsIn(s)
  OBVIOUS
<1>3. Wc!WordsEnded(FALSE, x) = Tally(E, 1, n)
  BY <1>1, <1>2, WordsCounted
<1>4. Wc!WordRuns(s) = Tally(R, 1, n)
  <2> DEFINE P(j) == ~Wc!Space(s[j]) /\ (j = 1 \/ Wc!Space(s[j-1]))
  <2>1. {j \in 1..n : P(j)} = {j \in 1..n : j \in R}
    BY <1>2 DEF RunsIn
  <2>2. Wc!WordRuns(s) = Cardinality({j \in 1..n : P(j)})
    BY WcSize DEF Wc!WordRuns
  <2> QED BY <2>1, <2>2 DEF Tally
<1>5. \A j \in 1..n : Wc!Space(s[j]) \in BOOLEAN
  BY <1>1, ElementOfSeq
<1> DEFINE Open(k) == IF Wc!Space(s[k]) THEN 0 ELSE 1
           T == {k \in 0..n : k # 0 => Tally(R, 1, k) = Tally(E, 1, k) + Open(k)}
<1>6. ASSUME NEW k \in 0..(n-1)
      PROVE  /\ Tally(E, 1, k + 1) = Tally(E, 1, k) + (IF k + 1 \in E THEN 1 ELSE 0)
             /\ Tally(R, 1, k + 1) = Tally(R, 1, k) + (IF k + 1 \in R THEN 1 ELSE 0)
             /\ Tally(E, 1, k) \in Nat /\ Tally(R, 1, k) \in Nat
  <2>1. 1 \in Int /\ k + 1 \in Int /\ 1 <= k + 1 /\ (k + 1) - 1 = k /\ k \in Int
    OBVIOUS
  <2>2. Tally(E, 1, k + 1) = Tally(E, 1, k) + (IF k + 1 \in E THEN 1 ELSE 0)
    BY ONLY <2>1, TallyNext
  <2>3. Tally(R, 1, k + 1) = Tally(R, 1, k) + (IF k + 1 \in R THEN 1 ELSE 0)
    BY ONLY <2>1, TallyNext
  <2> QED BY <2>1, <2>2, <2>3, TallyType
<1>7. ASSUME NEW k \in 0..(n-1), k \in T PROVE k + 1 \in T
  <2>1. k + 1 \in 1..n /\ k + 1 \in Int /\ (k + 1) - 1 = k
    OBVIOUS
  <2>2. CASE k = 0
    <3>1. Tally(E, 1, k) = 0 /\ Tally(R, 1, k) = 0
      BY <2>2, TallyNone
    <3>2. ~(k + 1 \in E)
      BY <1>2, <2>1, <2>2 DEF EndsIn
    <3>3. k + 1 \in R <=> ~Wc!Space(s[k+1])
      BY <1>2, <2>1, <2>2 DEF RunsIn
    <3>4. PICK o : o = Open(k + 1)
      OBVIOUS
    <3>5. o = IF k + 1 \in R THEN 1 ELSE 0
      BY <3>3, <3>4
    <3>6. Tally(R, 1, k + 1) = Tally(E, 1, k + 1) + o
      <4>1. Tally(R, 1, k + 1) = o
        <5>1. Tally(R, 1, k + 1) = Tally(R, 1, k) + o
          BY <1>6, <3>5
        <5> QED BY <3>1, <3>5, <5>1
      <4>2. Tally(E, 1, k + 1) = 0
        <5>1. Tally(E, 1, k + 1) = Tally(E, 1, k) + 0
          BY <1>6, <3>2
        <5> QED BY <3>1, <5>1
      <4> QED BY <3>5, <4>1, <4>2
    <3>7. k + 1 \in 0..n
      BY <2>1
    <3> QED BY <3>4, <3>6, <3>7
  <2>3. CASE k # 0
    <3>1. k \in 1..n /\ k + 1 # 1
      BY <2>3
    <3>2. x[k] = Wc!Space(s[k]) /\ x[k+1] = Wc!Space(s[k+1])
      BY <1>1, <2>1, <3>1
    <3>3. k + 1 \in E <=> Wc!Space(s[k+1]) /\ ~Wc!Space(s[k])
      BY <1>2, <2>1, <3>1, <3>2 DEF EndsIn
    <3>4. k + 1 \in R <=> ~Wc!Space(s[k+1]) /\ Wc!Space(s[k])
      BY <1>2, <2>1, <3>1 DEF RunsIn
    <3>5. Tally(R, 1, k) = Tally(E, 1, k) + Open(k)
      BY <1>7, <2>3
    <3> QED BY <1>6, <2>1, <3>3, <3>4, <3>5
  <2> QED BY <2>2, <2>3
<1>8. 0 \in T
  OBVIOUS
<1>9. 0..n \subseteq T
  <2> HIDE DEF T
  <2> QED BY <1>7, <1>8, UpToInduction
<1>10. PICK o : o = Open(n)
  OBVIOUS
<1>11. Tally(R, 1, n) = Tally(E, 1, n) + o /\ o \in {0, 1}
  BY <1>9, <1>10
<1>12. Tally(E, 1, n) \in Nat /\ Tally(R, 1, n) \in Nat
  BY TallyType
<1>13. Wc!WordsEnded(FALSE, x) = Wc!WordRuns(s) - o
  <2>1. PICK a, b : a = Tally(E, 1, n) /\ b = Tally(R, 1, n)
    OBVIOUS
  <2>2. a \in Nat /\ b = a + o /\ o \in {0, 1}
    BY <1>11, <1>12, <2>1
  <2>3. a = b - o
    BY ONLY <2>2
  <2> QED BY <1>3, <1>4, <2>1, <2>3
<1> QED BY <1>10, <1>13

\* A row that is right.
Right(row) ==
  LET s == args[row[1]] IN
    /\ row[2] = Wc!Newlines(s)
    /\ row[3] = Wc!Words(s, mode)
    /\ mode = "c" /\ s # <<>> =>
         row[3] = Wc!WordRuns(s) - (IF Wc!Space(s[Len(s)]) THEN 0 ELSE 1)
    /\ row[4] = IF mode = "c" THEN Len(s)
                ELSE IF mode = "m" THEN Wc!Characters(s) ELSE 0

LEMMA RowRight ==
  ASSUME args \in Seq(Seq(Bytes)), cur \in 1..Len(args), got = Len(args[cur]),
         CountedTo(args[cur], Len(args[cur]))
  PROVE  Right(<<cur, newline, words, Wc!Size>>)
<1>1. PICK s, n : s = args[cur] /\ n = Len(s)
  OBVIOUS
<1>2. s \in Seq(Bytes) /\ n \in Nat
  BY <1>1, ElementOfSeq, LenProperties
<1>3. newline = Wc!Newlines(s)
  <2>1. {j \in 1..n : s[j] = 10} = {j \in 1..n : j \in NewlineAt(s)}
    BY DEF NewlineAt
  <2>2. Wc!Newlines(s) = Cardinality({j \in 1..n : s[j] = 10})
    BY <1>1, WcSize DEF Wc!Newlines
  <2> QED BY <1>1, <2>1, <2>2 DEF CountedTo, NewlinesTo, Tally
<1>4. PICK x \in Seq(BOOLEAN) : MarksTo(s, mode, n, x) /\ words = Wc!WordsEnded(FALSE, x)
  BY <1>1 DEF CountedTo, WordsTo
<1>5. words = Wc!Words(s, mode)
  <2>1. x = Wc!MarksOf(s, mode)
    BY <1>1, <1>2, <1>4, MarksAll
  <2> QED BY <1>4, <2>1 DEF Wc!Words
<1>6. ASSUME mode = "c", s # <<>>
      PROVE  words = Wc!WordRuns(s) - (IF Wc!Space(s[n]) THEN 0 ELSE 1)
  <2>1. n # 0
    BY <1>1, <1>2, <1>6, EmptySeq
  <2> QED BY <1>1, <1>2, <1>4, <1>6, <2>1, RunsCounted
<1>7. Wc!Size = IF mode = "c" THEN n ELSE IF mode = "m" THEN Wc!Characters(s) ELSE 0
  <2>1. Wc!Characters(s) = Tally(CharacterAt(s), 1, n)
    <3> DEFINE P(j) == s[j] < 128 \/ Wc!PairAt(s, j)
    <3>1. {j \in 1..n : P(j)} = {j \in 1..n : j \in CharacterAt(s)}
      BY DEF CharacterAt
    <3>2. Wc!Characters(s) = Cardinality({j \in 1..n : P(j)})
      BY <1>1, WcSize DEF Wc!Characters
    <3> QED BY <3>1, <3>2 DEF Tally
  <2>2. mode # "c" => Wc!Size = chars
    BY DEF Wc!Size
  <2>3. mode = "c" => Wc!Size = n
    BY <1>1 DEF Wc!Size
  <2>4. chars = IF mode = "m" THEN Tally(CharacterAt(s), 1, n) ELSE 0
    BY <1>1 DEF CountedTo, CharsTo
  <2> QED BY <2>1, <2>2, <2>3, <2>4
<1> QED BY <1>1, <1>3, <1>5, <1>6, <1>7 DEF Right
-----------------------------------------------------------------------------
(***************************************************************************)
(* wc: its steps.                                                          *)
(***************************************************************************)
WcRuns == prog = "wc"

LEMMA WcSteps ==
  ASSUME [Next]_vars, WcRuns'
  PROVE  WcRuns /\ [Wc!Next]_(Wc!vars)
<1>1. CASE WcStep
  BY <1>1 DEF WcStep, WcRuns
<1>2. CASE HeadStep \/ CatStep \/ HandOver
  BY <1>2 DEF HeadStep, CatStep, HandOver, WcRuns
<1>3. CASE UNCHANGED vars
  BY <1>3 DEF vars, wcVars, WcRuns, Wc!vars, Wc!given, Wc!counts, Wc!totals
<1> QED BY <1>1, <1>2, <1>3 DEF Next

WcTyped ==
  /\ args \in Seq(Seq(Bytes)) /\ mode \in {"c", "m", "none"}
  /\ cur \in Nat \ {0} /\ got \in Nat /\ r \in Nat /\ r <= got
  /\ chars \in Nat /\ newline \in Nat /\ words \in Nat /\ word \in BOOLEAN
  /\ tbytes \in Nat /\ tnewline \in Nat /\ twords \in Nat /\ rows \in Seq(Row)

\* In the loops, the counts are those of the bytes that were looked at.
WcAtByte ==
  /\ pc \in {"open", "read", "scan", "tail", "exited"}
  /\ pc \in {"read", "scan", "tail"} =>
       /\ cur \in 1..Len(args) /\ got <= Len(args[cur])
       /\ CountedTo(args[cur], got - r)
  /\ pc = "tail" => got = Len(args[cur])

\* The rows written are right, and what is to become the totals adds them up.
WcRows ==
  /\ \A j \in 1..Len(rows) : rows[j][1] # Wc!TOTAL => Right(rows[j])
  /\ \A j \in 1..Len(rows) :
       rows[j][1] = Wc!TOTAL =>
         pc = "exited" /\ rows[j] = <<Wc!TOTAL, tnewline, twords, tbytes>>
  /\ SumsTo(rows, 2, tnewline) /\ SumsTo(rows, 3, twords) /\ SumsTo(rows, 4, tbytes)

WcInv == WcTyped /\ WcAtByte /\ WcRows

LEMMA CountedNone ==
  ASSUME NEW s, NEW m
  PROVE  /\ ~Wc!PairAt(s, 0) /\ NewlinesTo(s, 0, 0) /\ CharsTo(s, m, 0, 0)
         /\ WordsTo(s, m, 0, 0, FALSE)
<1>1. Tally(NewlineAt(s), 1, 0) = 0 /\ Tally(CharacterAt(s), 1, 0) = 0
  BY TallyNone
<1>2. ~Wc!PairAt(s, 0)
  BY DEF Wc!PairAt
<1>3. WordsTo(s, m, 0, 0, FALSE)
  <2>1. <<>> \in Seq(BOOLEAN) /\ Len(<<>>) = 0
    BY EmptySeq
  <2>2. Wc!InWord(FALSE, <<>>) = FALSE
    BY DEF Wc!InWord
  <2>3. Wc!WordsEnded(FALSE, <<>>) = 0
    <3>1. Wc!WordsEnded(FALSE, <<>>) = Tally(EndsIn(FALSE, <<>>), 1, Len(<<>>))
      BY <2>1, WordsCounted
    <3>2. PICK S : S = EndsIn(FALSE, <<>>)
      OBVIOUS
    <3>3. Tally(S, 1, 0) = 0
      BY TallyNone
    <3> QED BY <2>1, <3>1, <3>2, <3>3
  <2> QED BY <2>1, <2>2, <2>3, MarksNone DEF WordsTo
<1> QED BY <1>1, <1>2, <1>3 DEF NewlinesTo, CharsTo

LEMMA WcInit == ASSUME Wc!WcAssumption, Wc!Init PROVE WcInv
<1>1. WcTyped
  <2>1. args \in Seq(Seq(Bytes)) /\ mode \in {"c", "m", "none"}
    BY DEF Wc!Init, Wc!WcAssumption, Bytes
  <2>2. rows = <<>> /\ rows \in Seq(Row)
    BY EmptySeq DEF Wc!Init
  <2>3. /\ cur \in Nat \ {0} /\ got \in Nat /\ r \in Nat /\ r <= got
        /\ chars \in Nat /\ newline \in Nat /\ words \in Nat
        /\ tbytes \in Nat /\ tnewline \in Nat /\ twords \in Nat
    BY DEF Wc!Init
  <2>4. word \in BOOLEAN
    BY DEF Wc!Init
  <2> QED BY <2>1, <2>2, <2>3, <2>4 DEF WcTyped
<1>2. WcAtByte
  BY DEF Wc!Init, WcAtByte
<1>3. WcRows
  <2>1. /\ rows = <<>> /\ tnewline = 0 /\ twords = 0 /\ tbytes = 0
        /\ \A j \in 1..Len(rows) : FALSE
    BY DEF Wc!Init
  <2> QED BY <2>1, SumsNone DEF WcRows
<1> QED BY <1>1, <1>2, <1>3 DEF WcInv

\* One turn of either inner loop.
LEMMA WcTurn ==
  ASSUME WcInv, pc \in {"scan", "tail"}, r > 0, r > 1 \/ got = Len(args[cur]), Wc!Step,
         UNCHANGED <<args, mode, cur, got, tbytes, tnewline, twords, rows, ret, pc, status>>
  PROVE  WcInv'
<1>1. PICK s, p : s = args[cur] /\ p = got - r
  OBVIOUS
<1>2. /\ cur \in 1..Len(args) /\ got <= Len(s) /\ CountedTo(s, p)
      /\ got \in Nat /\ r \in Nat \ {0} /\ p \in Nat /\ p + r = got
      /\ s \in Seq(Bytes) /\ s = Wc!Stream /\ words \in Nat /\ word \in BOOLEAN
      /\ newline \in Nat /\ chars \in Nat /\ r <= got
  BY <1>1, ElementOfSeq DEF WcInv, WcTyped, WcAtByte, Wc!Stream
<1>3. PICK n, x, l, c :
           /\ Looks(s, p + 1, n, x, l, c) /\ n <= r /\ r' = r - n
           /\ newline' = newline + l /\ chars' = chars + c
           /\ words' = words + Wc!WordsEnded(word, x) /\ word' = Wc!InWord(word, x)
  BY <1>1, <1>2, WcLooks DEF CountedTo
<1>4. CountedTo(s, p + n)'
  BY <1>2, <1>3, CountsOn
<1>5. n \in {1, 2} /\ p + n = got' - r' /\ r' \in Nat /\ r' <= got'
  BY <1>1, <1>2, <1>3 DEF Looks
<1>6. l \in Nat /\ c \in Nat
  <2>1. p + 1 \in Int /\ p + 1 + n - 1 \in Int
    BY <1>2, <1>5
  <2> QED BY <1>3, <2>1, TallyType DEF Looks
<1>7. words' \in Nat /\ word' \in BOOLEAN
  <2>1. x \in Seq(BOOLEAN)
    BY <1>3 DEF Looks
  <2>2. Wc!WordsEnded(word, x) \in Nat
    BY <1>2, <2>1, WordsCounted, TallyType, LenProperties
  <2>3. Wc!InWord(word, x) \in BOOLEAN
    BY <1>2, <2>1, WordsOn
  <2> QED BY <1>2, <1>3, <2>2, <2>3, SMTT(30)
<1>8. WcTyped'
  BY <1>2, <1>3, <1>5, <1>6, <1>7 DEF WcInv, WcTyped
<1>9. WcAtByte'
  <2>1. PICK a : a = got' - r'
    OBVIOUS
  <2>2. CountedTo(s, a)'
    BY <1>4, <1>5, <2>1
  <2>3. CountedTo(args[cur], got - r)'
    BY <1>1, <2>1, <2>2 DEF CountedTo
  <2> QED BY <1>1, <1>2, <2>3 DEF WcInv, WcAtByte
<1>10. WcRows'
  BY DEF WcInv, WcRows, Right
<1> QED BY <1>8, <1>9, <1>10 DEF WcInv

LEMMA WcReport ==
  ASSUME WcInv, Wc!Report
  PROVE  WcInv'
<1>1. /\ pc = "tail" /\ r = 0 /\ got = Len(args[cur]) /\ cur \in 1..Len(args)
      /\ args \in Seq(Seq(Bytes)) /\ rows \in Seq(Row) /\ cur \in Nat /\ cur # 0
      /\ got \in Nat /\ mode \in {"c", "m", "none"}
      /\ newline \in Nat /\ words \in Nat /\ chars \in Nat
      /\ tbytes \in Nat /\ tnewline \in Nat /\ twords \in Nat
  BY DEF WcInv, WcTyped, WcAtByte, Wc!Report
<1>2. PICK z, row : z = Wc!Size /\ row = <<cur, newline, words, z>>
  OBVIOUS
<1>3. /\ rows' = Append(rows, row) /\ tnewline' = tnewline + newline
      /\ twords' = twords + words /\ tbytes' = tbytes + z /\ cur' = cur + 1 /\ pc' = "open"
      /\ UNCHANGED <<args, mode, got, r, chars, newline, words, word>>
  BY <1>2 DEF Wc!Report, Wc!given, Wc!counts
<1>4. z \in Nat
  BY <1>1, <1>2 DEF Wc!Size
<1>5. row \in Row /\ row[1] = cur /\ row[2] = newline /\ row[3] = words /\ row[4] = z
  BY <1>1, <1>2, <1>4 DEF Row
<1>6. Right(row)
  <2>1. CountedTo(args[cur], Len(args[cur]))
    <3>1. got - r = Len(args[cur])
      BY <1>1
    <3> QED BY <1>1, <3>1 DEF WcInv, WcAtByte
  <2> QED BY <1>1, <1>2, <2>1, RowRight
<1>7. /\ rows' \in Seq(Row) /\ Len(rows') = Len(rows) + 1 /\ Len(rows) \in Nat
      /\ rows'[Len(rows) + 1] = row /\ \A j \in 1..Len(rows) : rows'[j] = rows[j]
  BY <1>1, <1>3, <1>5, AppendProperties, LenProperties
<1>8. WcTyped'
  BY <1>1, <1>3, <1>4, <1>7 DEF WcInv, WcTyped
<1>9. WcAtByte'
  BY <1>3 DEF WcAtByte
<1>10. row[1] # Wc!TOTAL
  BY <1>1, <1>5 DEF Wc!TOTAL
<1>11. ASSUME NEW j \in 1..Len(rows') PROVE rows'[j][1] # Wc!TOTAL /\ Right(rows'[j])
  <2>1. CASE j = Len(rows) + 1
    BY <1>6, <1>7, <1>10, <2>1
  <2>2. CASE j # Len(rows) + 1
    <3>1. j \in 1..Len(rows) /\ rows'[j] = rows[j]
      BY <1>7, <1>11, <2>2
    <3>2. rows[j][1] # Wc!TOTAL /\ Right(rows[j])
      BY <1>1, <3>1 DEF WcInv, WcRows
    <3> QED BY <3>1, <3>2
  <2> QED BY <2>1, <2>2
<1>12. ASSUME NEW j \in 1..Len(rows') PROVE Right(rows[j])'
  BY <1>3, <1>11 DEF Right
<1>13. ASSUME NEW c \in 2..4, NEW v, SumsTo(rows, c, v) PROVE SumsTo(rows', c, v + row[c])
  <2>1. Share(row, c) = row[c]
    BY <1>10 DEF Share
  <2>2. SumsTo(Append(rows, row), c, v + Share(row, c))
    BY <1>1, <1>5, <1>13, SumsMore
  <2> QED BY <1>3, <2>1, <2>2
<1>14. /\ SumsTo(rows', 2, tnewline') /\ SumsTo(rows', 3, twords') /\ SumsTo(rows', 4, tbytes')
  BY <1>3, <1>5, <1>13 DEF WcInv, WcRows
<1>15. WcRows'
  <2>1. /\ (\A j \in 1..Len(rows) : rows[j][1] # Wc!TOTAL => Right(rows[j]))'
        /\ \A j \in 1..Len(rows') : rows'[j][1] # Wc!TOTAL
    BY <1>11, <1>12
  <2> QED BY <1>14, <2>1 DEF WcRows, Wc!TOTAL
<1> QED BY <1>8, <1>9, <1>15 DEF WcInv

LEMMA WcExit ==
  ASSUME WcInv, Wc!Exit
  PROVE  WcInv'
<1>1. /\ pc = "open" /\ pc' = "exited"
      /\ UNCHANGED <<args, mode, cur, got, r, chars, newline, words, word,
                     tbytes, tnewline, twords>>
      /\ rows \in Seq(Row) /\ tnewline \in Nat /\ twords \in Nat /\ tbytes \in Nat
  BY DEF WcInv, WcTyped, Wc!Exit, Wc!given, Wc!counts
<1>2. PICK row : row = <<Wc!TOTAL, tnewline, twords, tbytes>>
  OBVIOUS
<1>3. rows' = Append(rows, row) \/ rows' = rows
  BY <1>2 DEF Wc!Exit
<1>4. WcAtByte'
  BY <1>1 DEF WcAtByte
<1>6. CASE rows' = rows
  <2>1. WcTyped'
    BY <1>1, <1>6 DEF WcInv, WcTyped
  <2>2. WcRows'
    BY <1>1, <1>6 DEF WcInv, WcRows, Right
  <2> QED BY <1>4, <2>1, <2>2 DEF WcInv
<1>7. CASE rows' = Append(rows, row)
  <2>1. row \in Row /\ row[1] = Wc!TOTAL
    BY <1>1, <1>2 DEF Row, Wc!TOTAL
  <2>2. /\ rows' \in Seq(Row) /\ Len(rows') = Len(rows) + 1 /\ Len(rows) \in Nat
        /\ rows'[Len(rows) + 1] = row /\ \A j \in 1..Len(rows) : rows'[j] = rows[j]
    BY <1>1, <1>7, <2>1, AppendProperties, LenProperties
  <2>3. WcTyped'
    BY <1>1, <2>2 DEF WcInv, WcTyped
  <2>4. ASSUME NEW j \in 1..Len(rows')
        PROVE  /\ rows'[j][1] # Wc!TOTAL => Right(rows'[j])
               /\ rows'[j][1] = Wc!TOTAL => rows'[j] = row
    <3>1. CASE j = Len(rows) + 1
      BY <2>1, <2>2, <3>1
    <3>2. CASE j # Len(rows) + 1
      <4>1. j \in 1..Len(rows) /\ rows'[j] = rows[j]
        BY <2>2, <2>4, <3>2
      <4>2. rows[j][1] # Wc!TOTAL /\ Right(rows[j])
        BY <1>1, <4>1 DEF WcInv, WcRows
      <4> QED BY <4>1, <4>2
    <3> QED BY <3>1, <3>2
  <2>5. ASSUME NEW c \in 2..4, NEW v \in Nat, SumsTo(rows, c, v) PROVE SumsTo(rows', c, v)
    <3>1. Share(row, c) = 0 /\ v + 0 = v
      BY <2>1 DEF Share
    <3>2. SumsTo(Append(rows, row), c, v + Share(row, c))
      BY <1>1, <2>1, <2>5, SumsMore
    <3> QED BY <1>7, <3>1, <3>2
  <2>6. SumsTo(rows', 2, tnewline') /\ SumsTo(rows', 3, twords') /\ SumsTo(rows', 4, tbytes')
    BY <1>1, <2>5 DEF WcInv, WcRows
  <2>7. WcRows'
    <3>1. (\A j \in 1..Len(rows) : rows[j][1] # Wc!TOTAL => Right(rows[j]))'
      <4>1. ASSUME NEW j \in 1..Len(rows'), rows'[j][1] # Wc!TOTAL PROVE Right(rows[j])'
        BY <1>1, <2>4, <4>1 DEF Right
      <4> QED BY <4>1 DEF Wc!TOTAL
    <3>2. \A j \in 1..Len(rows') :
             rows'[j][1] = Wc!TOTAL => rows'[j] = <<Wc!TOTAL, tnewline', twords', tbytes'>>
      BY <1>1, <1>2, <2>4
    <3> QED BY <1>1, <2>6, <3>1, <3>2 DEF WcRows, Wc!TOTAL
  <2> QED BY <1>4, <2>3, <2>7 DEF WcInv
<1> QED BY <1>3, <1>6, <1>7

LEMMA WcNext ==
  ASSUME Wc!WcAssumption, WcInv, [Wc!Next]_(Wc!vars)
  PROVE  WcInv'
<1> USE DEF Wc!given, Wc!counts, Wc!totals
<1>0. WcTyped /\ WcAtByte /\ WcRows /\ args \in Seq(Seq(Bytes)) /\ Len(args) \in Nat
      /\ cur \in Nat
  BY LenProperties DEF WcInv, WcTyped
<1>1. CASE Wc!Open
  <2>1. /\ UNCHANGED <<args, mode, cur, tbytes, tnewline, twords, rows>>
        /\ pc = "open" /\ pc' = "read" /\ got' = 0 /\ r' = 0 /\ cur <= Len(args)
        /\ chars' = 0 /\ newline' = 0 /\ words' = 0 /\ word' = FALSE
    BY <1>1 DEF Wc!Open, Wc!More
  <2>2. WcTyped'
    <3>1. /\ got' \in Nat /\ r' \in Nat /\ r' <= got'
          /\ chars' \in Nat /\ newline' \in Nat /\ words' \in Nat
      BY <2>1
    <3>2. word' \in BOOLEAN
      BY <2>1
    <3> QED BY <1>0, <2>1, <3>1, <3>2 DEF WcTyped
  <2>3. PICK s : s = args[cur]
    OBVIOUS
  <2>4. s \in Seq(Bytes) /\ cur \in 1..Len(args) /\ Len(s) \in Nat
    BY <1>0, <2>1, <2>3, ElementOfSeq, LenProperties DEF WcTyped
  <2>5. CountedTo(s, 0)'
    <3>1. /\ ~Wc!PairAt(s, 0) /\ NewlinesTo(s, 0, 0) /\ CharsTo(s, mode, 0, 0)
          /\ WordsTo(s, mode, 0, 0, FALSE)
      BY CountedNone
    <3>2. newline' = 0 /\ chars' = 0 /\ words' = 0 /\ word' = FALSE /\ mode' = mode
      BY <2>1
    <3> QED BY ONLY <3>1, <3>2, Zenon DEF CountedTo
  <2>6. CountedTo(args[cur], got - r)'
    <3>1. got' - r' = 0
      BY <2>1
    <3> QED BY <2>1, <2>3, <2>5, <3>1 DEF CountedTo
  <2>7. WcAtByte'
    BY <2>1, <2>3, <2>4, <2>6 DEF WcAtByte
  <2>8. WcRows'
    BY <1>0, <2>1 DEF WcRows, Right
  <2> QED BY <2>2, <2>7, <2>8 DEF WcInv
<1>2. CASE Wc!OpenFails
  BY <1>0, <1>2 DEF Wc!OpenFails, WcInv, WcTyped, WcAtByte, WcRows, Right
<1>3. ASSUME NEW m \in 1..WcBufSize, Wc!Read(m) PROVE WcInv'
  <2>1. /\ UNCHANGED <<args, mode, cur, tbytes, tnewline, twords, rows,
                       chars, newline, words, word>>
        /\ pc = "read" /\ pc' = "scan" /\ got' = got + m /\ r' = r + m
        /\ got + m <= Len(args[cur])
    BY <1>3 DEF Wc!Read, Wc!Stream
  <2>2. m \in Nat /\ got \in Nat /\ r \in Nat /\ r <= got
    BY <1>0, <1>3 DEF WcTyped, Wc!WcAssumption
  <2>3. WcTyped'
    BY <1>0, <2>1, <2>2 DEF WcTyped
  <2>4. PICK a : a = got - r
    OBVIOUS
  <2>5. got' - r' = a
    BY <2>1, <2>2, <2>4
  <2>6. CountedTo(args[cur], a)
    BY <1>0, <2>1, <2>4 DEF WcAtByte
  <2>7. CountedTo(args[cur], got - r)'
    BY <2>1, <2>5, <2>6 DEF CountedTo
  <2>8. WcAtByte'
    BY <1>0, <2>1, <2>7 DEF WcAtByte
  <2>9. WcRows'
    BY <1>0, <2>1 DEF WcRows, Right
  <2> QED BY <2>3, <2>8, <2>9 DEF WcInv
<1>4. CASE Wc!ReadEnd \/ Wc!ReadFails \/ Wc!Keep
  <2>1. /\ UNCHANGED <<args, mode, cur, got, r, tbytes, tnewline, twords, rows,
                       chars, newline, words, word>>
        /\ pc \in {"read", "scan"} /\ pc' \in {"read", "tail", "exited"}
        /\ pc' = "tail" => got = Len(args[cur])
    BY <1>4 DEF Wc!ReadEnd, Wc!ReadFails, Wc!Keep, Wc!Stream
  <2>2. WcTyped'
    BY <1>0, <2>1 DEF WcTyped
  <2>3. WcAtByte'
    BY <1>0, <2>1 DEF WcAtByte, CountedTo
  <2>4. WcRows'
    BY <1>0, <2>1 DEF WcRows, Right
  <2> QED BY <2>2, <2>3, <2>4 DEF WcInv
<1>5. CASE Wc!Scan
  <2>1. r > 1 /\ r > 0
    BY <1>0, <1>5 DEF Wc!Scan, Wc!Enough, Wc!WcAssumption, WcTyped
  <2> QED BY <1>0, <1>5, <2>1, WcTurn DEF Wc!Scan, WcInv
<1>6. CASE Wc!ScanTail
  <2>1. got = Len(args[cur])
    BY <1>0, <1>6 DEF Wc!ScanTail, WcAtByte
  <2> QED BY <1>0, <1>6, <2>1, WcTurn DEF Wc!ScanTail, WcInv
<1>7. CASE Wc!Report
  BY <1>7, WcReport
<1>8. CASE Wc!Exit
  BY <1>8, WcExit
<1>9. CASE UNCHANGED Wc!vars
  BY <1>0, <1>9 DEF Wc!vars, WcInv, WcTyped, WcAtByte, WcRows, Right, CountedTo
<1> QED BY <1>1, <1>2, <1>3, <1>4, <1>5, <1>6, <1>7, <1>8, <1>9 DEF Wc!Next

\* For all operands, buffers and modes, wherever reads cut the streams, also
\* inside of a character: each row holds the counts of the whole operand, and
\* the totals add up the rows (wc.c:76-161, 210).
THEOREM StreamsCounted == Spec => []CountsWholeStream
<1> DEFINE Inv == WcRuns => WcInv
<1>1. Init => Inv
  BY FiltersAssumption, WcInit DEF Init, WcRuns
<1>2. Inv /\ [Next]_vars => Inv'
  BY FiltersAssumption, WcSteps, WcNext
<1>3. Inv => CountsWholeStream
  <2> SUFFICES ASSUME WcInv PROVE Wc!CountsWholeStream
    BY DEF CountsWholeStream, WcRuns
  <2>1. \A j \in 1..Len(rows) : rows[j][1] # Wc!TOTAL => Right(rows[j])
    BY DEF WcInv, WcRows
  <2>2. ASSUME NEW j \in 1..Len(rows), rows[j][1] = Wc!TOTAL, NEW c \in 2..4
        PROVE  rows[j][c] = Wc!SumOf(c)
    <3>1. rows[j] = <<Wc!TOTAL, tnewline, twords, tbytes>> /\ rows \in Seq(Row)
      BY <2>2 DEF WcInv, WcRows, WcTyped
    <3>2. SumsTo(rows, c, rows[j][c])
      <4>1. rows[j][2] = tnewline /\ rows[j][3] = twords /\ rows[j][4] = tbytes
        BY <3>1
      <4>2. c = 2 \/ c = 3 \/ c = 4
        OBVIOUS
      <4> QED BY <4>1, <4>2 DEF WcInv, WcRows
    <3> QED BY <3>1, <3>2, SumsAll
  <2> QED BY <2>1, <2>2 DEF Wc!CountsWholeStream, Right
<1> QED BY <1>1, <1>2, <1>3, PTL DEF Spec
=============================================================================
