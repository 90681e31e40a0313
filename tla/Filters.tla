------------------------------ MODULE Filters ------------------------------
(***************************************************************************)
(* The programs that read operands and "-": head, cat and wc.  A behaviour *)
(* runs one of them, prog; head without operands may be followed by cat,   *)
(* as a shell does with (head && cat) < file: the two share descriptor 0   *)
(* and its offset, and write to the same output.  Variables of a program   *)
(* that is not run are Idle.                                               *)
(***************************************************************************)
EXTENDS Integers, Sequences, FiniteSets

CONSTANTS
  Progs,                                                \* run first
  Content, Dash, MaxArgs, Count, IovSize, BufSize, UMod,   \* head, cat
  Given, Mode, MBCurMax, WcBufSize,                        \* wc
  Idle

VARIABLES
  prog, args, cur, ret, pc, status,
  stdin, fd, offset, out, start, cut,                      \* head, cat
  nflag, header, part, iov, lines,                         \* head
  uflag, pend,                                             \* cat
  mode, got, r, chars, newline, words, word, tbytes, tnewline, twords,
  rows                                                     \* wc

sharedVars == <<stdin, fd, offset, out, start, cut>>
headVars == <<nflag, header, part, iov, lines>>
catVars == <<uflag, pend>>
wcVars == <<mode, got, r, chars, newline, words, word, tbytes, tnewline, twords,
            rows>>

vars == <<prog, args, cur, ret, pc, status, sharedVars, headVars, catVars, wcVars>>

H == INSTANCE Head
Cat == INSTANCE Cat
Wc == INSTANCE Wc WITH BufSize <- WcBufSize

ASSUME FiltersAssumption ==
  /\ Progs \subseteq {"head", "cat", "wc"}
  /\ H!HeadAssumption /\ Wc!WcAssumption
  /\ Idle \notin Count

HeadIdle ==
  /\ nflag = Idle /\ header = Idle /\ part = Idle /\ iov = Idle /\ lines = Idle

CatIdle == uflag = Idle /\ pend = Idle

SharedIdle ==
  /\ stdin = Idle /\ fd = Idle /\ offset = Idle /\ out = Idle
  /\ start = Idle /\ cut = Idle

WcIdle ==
  /\ mode = Idle /\ got = Idle /\ r = Idle /\ chars = Idle /\ newline = Idle
  /\ words = Idle /\ word = Idle /\ tbytes = Idle /\ tnewline = Idle
  /\ twords = Idle /\ rows = Idle

Init ==
  /\ prog \in Progs
  /\ \/ prog = "head" /\ H!Init /\ CatIdle /\ WcIdle
     \/ prog = "cat" /\ Cat!Init /\ HeadIdle /\ WcIdle
     \/ prog = "wc" /\ Wc!Init /\ SharedIdle /\ HeadIdle /\ CatIdle

HeadStep ==
  prog = "head" /\ H!Next /\ UNCHANGED <<prog, catVars, wcVars>>
CatStep ==
  prog = "cat" /\ Cat!Next /\ UNCHANGED <<prog, headVars, wcVars>>
WcStep ==
  /\ prog = "wc" /\ Wc!Next
  /\ UNCHANGED <<prog, sharedVars, headVars, catVars>>

\* The shell starts cat on what head has left of standard input.
HandOver ==
  /\ prog = "head" /\ args = <<>> /\ status = "zero"
  /\ prog' = "cat" /\ uflag' \in BOOLEAN /\ pend' = <<>>
  /\ pc' = "options" /\ status' = "running"
  /\ UNCHANGED <<args, cur, ret, sharedVars, headVars, wcVars>>

Next == HeadStep \/ CatStep \/ WcStep \/ HandOver

Spec == Init /\ [][Next]_vars
-----------------------------------------------------------------------------
(***************************************************************************)
(* What is true of the program that is run.                                *)
(***************************************************************************)
\* iov[curiov] is an element of head's array whenever it is stored to
\* (head.c:70, 97).
QueueHasRoom == prog = "head" => H!QueueHasRoom

\* head's output is the header and first lines of each operand (head.c:53-109).
WritesHeads == prog = "head" => H!WritesHeads

\* While head waits for standard input, its headers are written
\* (head.c:79-83).
NothingQueuedForTerminal == prog = "head" => H!NothingQueuedForTerminal

\* cat copies each operand whole and in its place, and its status of zero says
\* that nothing is missing (cat.c:33-54).  Run after head, it is not the only
\* one to have written.
CatCopies == prog = "cat" /\ nflag = Idle => Cat!CatCopies

\* wc's counts are those of the whole stream, and its totals the sums of its
\* rows (wc.c:76-161, 210).
CountsWholeStream == prog = "wc" => Wc!CountsWholeStream

\* cat after head goes on where head stopped reading, and head reads no more
\* than it needs to (head.c:86): the two write the lines asked for and then the
\* rest, no byte twice and none missing but those of head's last buffer that it
\* did not print, fewer than a buffer holds.
HandsOver ==
  prog = "cat" /\ nflag # Idle /\ nflag < UMod /\ status = "zero" /\ cut = {} =>
    LET printed == Cardinality(H!FirstLines(stdin, 0, Len(stdin), nflag))
        run(a, b) == [j \in 1..(b-a) |-> <<1, a + j>>]
    IN \E lost \in 0..(IF nflag = 0 THEN 0 ELSE BufSize - 1) :
         /\ printed + lost <= Len(stdin)
         /\ out = run(0, printed) \o run(printed + lost, Len(stdin))
=============================================================================
