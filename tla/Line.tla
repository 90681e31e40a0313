-------------------------------- MODULE Line --------------------------------
(***************************************************************************)
(* basename.c, dirname.c, tty.c, logname.c and uname.c: write one line,    *)
(* made from an operand or asked of the system.                            *)
(***************************************************************************)
EXTENDS Naturals, Sequences, SequencesExt, FiniteSets

CONSTANTS
  Char, Slash, Nul,
  Before,     \* what may lie in memory before the operand, its end a Nul
  MaxName

LineAssumption ==
  /\ Slash \in Char /\ Nul \notin Char \union {"."} /\ MaxName \in Nat
  /\ \A b \in Before : b \in Seq(Char \union {Nul}) /\ Len(b) > MaxName /\ Last(b) = Nul

VARIABLES
  prog,
  given,      \* the operands, options and surroundings; operand: basename has
              \* one. Without, string stands for the NULL in its place, of which
              \* basename() makes what it makes of an empty string, and suffix
              \* for what lies behind argv, a string of the environment
  mem,        \* the program's own variables, none here
  out, pc, status

vars == <<prog, given, mem, out, pc, status>>

Name == UNION {[1..n -> Char] : n \in 0..MaxName}
Flag == <<"s", "n", "r", "v", "m">>    \* uname's, in the order of flags[]

Init ==
  /\ \/ prog = "basename" /\ given \in [operand : {TRUE}, string : Name, suffix : Name, before : Before]
     \/ prog = "basename" /\ given \in [operand : {FALSE}, string : {<<>>}, suffix : Name,
                                       before : Before]
     \/ prog = "dirname" /\ given \in [string : Name]
     \/ prog = "uname" /\ given \in [flags : SUBSET Range(Flag)]    \* -a: all of them
     \/ prog \in {"tty", "logname"} /\ given \in [name : {<<>>, <<"name">>}]
  /\ mem = <<>> /\ out = <<>> /\ pc = "start" /\ status = "running"

Exit(s) == pc' = "exited" /\ status' = s /\ UNCHANGED <<prog, given, mem, out>>

\* Options the programs do not have, and too many operands or, but for
\* basename, too few.
Usage == pc = "start" /\ Exit("usage")

Puts(line) ==
  pc = "start" /\ out' = line /\ pc' = "write" /\ UNCHANGED <<prog, given, mem, status>>
-----------------------------------------------------------------------------
(***************************************************************************)
(* libgen, external.  An empty string gives a "." in read-only memory.     *)
(***************************************************************************)
Slashes(s) == {k \in 1..Len(s) : s[k] = Slash}

\* The string up to its last character that is no slash.
Cut(s) == LET k == {j \in 1..Len(s) : s[j] # Slash} IN
          SubSeq(s, 1, IF k = {} THEN 0 ELSE Max(k))

AllSlashes(s) == s # <<>> /\ Cut(s) = <<>>

\* How much of a string lies before what basename() returns.
Prefix(s) == IF AllSlashes(s) THEN SubSeq(s, 1, Len(s) - 1)
             ELSE SubSeq(s, 1, Max(Slashes(Cut(s)) \union {0}))

Base(s) == IF s = <<>> THEN <<".">> ELSE IF AllSlashes(s) THEN <<Slash>>
           ELSE SubSeq(Cut(s), Len(Prefix(s)) + 1, Len(Cut(s)))

Parent(s) == IF AllSlashes(s) \/ AllSlashes(Prefix(s)) THEN <<Slash>>
             ELSE IF Prefix(s) = <<>> THEN <<".">> ELSE Cut(Prefix(s))
-----------------------------------------------------------------------------
(***************************************************************************)
(* basename.                                                               *)
(***************************************************************************)
Memory == given.before \o Prefix(given.string) \o Base(given.string) \o <<Nul>>
PathAt == Len(given.before) + Len(Prefix(given.string)) + 1

\* The C string that begins at k.
StringAt(m, k) == SubSeq(m, k, Min({j \in k..Len(m) : m[j] = Nul}) - 1)

\* path+off.  off is below zero, wrapped as a size_t, for a suffix that is
\* longer than the path; the sum is then before path.
SuffixAt_OffByOne == PathAt + Len(Base(given.string)) - Len(given.suffix) - 1
SuffixAt == PathAt + Len(Base(given.string)) - Len(given.suffix)

Ends == StringAt(Memory, SuffixAt) = given.suffix

Basename ==
  /\ prog = "basename"
  /\ Puts(StringAt(IF Ends THEN [Memory EXCEPT ![SuffixAt] = Nul] ELSE Memory, PathAt))

\* The Nul written into the read-only ".", and what is behind argv is no string.
Killed ==
  /\ prog = "basename" /\ pc = "start" /\ given.string = <<>>
  /\ Ends \/ ~given.operand
  /\ Exit("killed")
-----------------------------------------------------------------------------
Dirname == prog = "dirname" /\ Puts(Parent(given.string))

Tty ==
  /\ prog = "tty"
  /\ Puts(IF given.name = <<>> THEN <<"not a tty\n">> ELSE given.name)

Logname == prog = "logname" /\ given.name # <<>> /\ Puts(given.name)

NoLogname == prog = "logname" /\ given.name = <<>> /\ pc = "start" /\ Exit("error")

Asked == IF given.flags \subseteq {"s"} THEN {"s"} ELSE given.flags

Uname == prog = "uname" /\ Puts(SelectSeq(Flag, LAMBDA f : f \in Asked))

UnameFails == prog = "uname" /\ pc = "start" /\ Exit("error")

\* tty alone exits with one and two.
Write ==
  /\ pc = "write"
  /\ Exit(IF prog = "tty" /\ given.name = <<>> THEN "one" ELSE "zero")

WriteFails == pc = "write" /\ Exit(IF prog = "tty" THEN "two" ELSE "error")

Next ==
  \/ Usage \/ Basename \/ Killed \/ Dirname \/ Tty \/ Logname \/ NoLogname
  \/ Uname \/ UnameFails \/ Write \/ WriteFails

Spec == Init /\ [][Next]_vars
-----------------------------------------------------------------------------
\* basename removes the suffix from what follows the last slash where that ends
\* with it and never looks further back, whatever bytes a longer suffix is
\* compared with before it (basename.c:38-40).  Nothing is said of a suffix equal
\* to the whole name, which leaves an empty line, and of no operand.
BasenameStrips ==
  prog = "basename" /\ status = "zero" /\ given.operand =>
    LET base == Base(given.string) IN
    given.suffix # base =>
      out = IF IsSuffix(given.suffix, base)
            THEN SubSeq(base, 1, Len(base) - Len(given.suffix)) ELSE base
=============================================================================
