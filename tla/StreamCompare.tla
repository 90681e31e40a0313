--------------------------- MODULE StreamCompare ---------------------------
(***************************************************************************)
(* What cmp promises of two byte streams, with neither buffers nor read    *)
(* sizes: the streams are compared position by position in lock step.      *)
(* Module Cmp, the program as written, is shown to implement it.           *)
(***************************************************************************)
EXTENDS Naturals, Sequences

CONSTANT NL    \* the newline byte

VARIABLES
  file,     \* the two streams, << first, second >>
  flag,     \* "none", "l" (list all differences) or "s" (silent)
  n,        \* positions compared so far
  line,     \* 1 + the newlines seen at positions where the streams agree
  log,      \* -l: the differing positions, in the order they are listed
  stats,    \* << byte, line >> of the reported first difference, or << >>
  eof,      \* the stream reported as ending early, 0 when none is
  ret,      \* 1 as soon as a difference has been found
  phase     \* "comparing", then "decided"; "failed" after an I/O error

vars == <<file, flag, n, line, log, stats, eof, ret, phase>>

Init ==
  /\ n = 0 /\ line = 1 /\ log = <<>> /\ stats = <<>>
  /\ eof = 0 /\ ret = 0 /\ phase = "comparing"

Ended(k) == Len(file[k]) = n

BothHaveNext == ~Ended(1) /\ ~Ended(2)

Agree ==
  /\ phase = "comparing" /\ BothHaveNext
  /\ file[1][n+1] = file[2][n+1]
  /\ n' = n + 1
  /\ line' = IF file[1][n+1] = NL THEN line + 1 ELSE line
  /\ UNCHANGED <<file, flag, log, stats, eof, ret, phase>>

\* Without -l the first difference decides the comparison.
DifferAndStop ==
  /\ phase = "comparing" /\ BothHaveNext /\ flag # "l"
  /\ file[1][n+1] # file[2][n+1]
  /\ stats' = IF flag = "none" THEN <<n+1, line>> ELSE stats
  /\ ret' = 1 /\ phase' = "decided"
  /\ UNCHANGED <<file, flag, n, line, log, eof>>

DifferAndList ==
  /\ phase = "comparing" /\ BothHaveNext /\ flag = "l"
  /\ file[1][n+1] # file[2][n+1]
  /\ log' = Append(log, n+1)
  /\ n' = n + 1 /\ ret' = 1
  /\ UNCHANGED <<file, flag, line, stats, eof, phase>>

End ==
  /\ phase = "comparing" /\ ~BothHaveNext
  /\ eof' = IF flag = "s" \/ (Ended(1) /\ Ended(2)) THEN 0
            ELSE IF Ended(1) THEN 1 ELSE 2
  /\ phase' = "decided"
  /\ UNCHANGED <<file, flag, n, line, log, stats, ret>>

Fail ==
  /\ phase # "failed" /\ phase' = "failed"
  /\ UNCHANGED <<file, flag, n, line, log, stats, eof, ret>>

Next == Agree \/ DifferAndStop \/ DifferAndList \/ End \/ Fail

Spec == Init /\ [][Next]_vars
=============================================================================
