-------------------------------- MODULE Nice --------------------------------
(***************************************************************************)
(* nice.c: execute a utility with another nice value.                      *)
(***************************************************************************)
EXTENDS Integers

CONSTANTS
  Lowest, Highest,   \* the range of nice values, -20 and 19
  Increment,         \* the increments -n may be given
  Result             \* how the utility ends

NiceValue == Lowest..Highest

VARIABLES
  inherited,   \* the nice value nice was started with
  value,       \* its nice value
  privileged,  \* it may lower its nice value
  nflag,       \* 0 without -n
  refused,     \* the option was bad or the system refused the nice value
  errno, olderrno,
  util, pc, status

vars == <<inherited, value, privileged, nflag, refused, errno, olderrno, util,
          pc, status>>

given == <<inherited, privileged, nflag, util>>

Init ==
  /\ inherited \in NiceValue /\ value = inherited
  /\ privileged \in BOOLEAN
  /\ nflag \in Increment \union {0}
  /\ refused = FALSE /\ errno = "none" /\ olderrno = "none"
  /\ util \in {"missing", "noexec"} \union Result
  /\ pc = "options" /\ status = "none"

Exit(s) == pc' = "exited" /\ status' = s

\* usage(); the argument of -n is out of range.
BadIncrement ==
  /\ pc = "options"
  /\ refused' = TRUE
  /\ Exit("error")
  /\ UNCHANGED <<given, value, errno, olderrno>>

\* nice(), external: the sum, cut off at both ends.
Within(v) == IF v < Lowest THEN Lowest ELSE IF v > Highest THEN Highest ELSE v

Failed_Negative(v) == v < 0
Failed(v) == v = -1

\* nice() returns the new value; -1 is taken for a failure, whatever errno.
Adjust ==
  /\ pc = "options" /\ nflag # 0
  /\ nflag > 0 \/ privileged
  /\ value' = Within(value + nflag)
  /\ IF Failed(value') THEN Exit("error") ELSE pc' = "exec" /\ UNCHANGED status
  /\ UNCHANGED <<given, refused, errno, olderrno>>

AdjustRefused ==
  /\ pc = "options" /\ nflag < 0 /\ ~privileged
  /\ refused' = TRUE /\ errno' = "EPERM"
  /\ Exit("error")
  /\ UNCHANGED <<given, value, olderrno>>

KeepValue ==
  /\ pc = "options" /\ nflag = 0
  /\ pc' = "exec"
  /\ UNCHANGED <<given, value, refused, errno, olderrno, status>>

\* errno is saved before the call of execvp() it is meant to tell about.
Exec ==
  /\ pc = "exec"
  /\ olderrno' = errno
  /\ IF util \in Result
     THEN pc' = "running" /\ UNCHANGED <<errno, status>>
     ELSE /\ errno' = IF util = "missing" THEN "ENOENT" ELSE "EACCES"
          /\ Exit(IF olderrno' = "ENOENT" THEN "127" ELSE "126")
  /\ UNCHANGED <<given, value, refused>>

UtilityEnds ==
  /\ pc = "running"
  /\ Exit(util)
  /\ UNCHANGED <<given, value, refused, errno, olderrno>>

Next ==
  \/ BadIncrement \/ Adjust \/ AdjustRefused \/ KeepValue \/ Exec
  \/ UtilityEnds

Spec == Init /\ [][Next]_vars
-----------------------------------------------------------------------------
\* The utility runs at the nice value asked for, as near as the range allows,
\* and never at another; nice gives up without having been refused only where
\* the value it has then got is -1 (nice.c:41).
NiceIsAsked ==
  /\ pc = "running" => value = Within(inherited + nflag)
  /\ status = "error" => refused \/ (value = -1 /\ Within(inherited + nflag) = -1)

\* POSIX, which readme.txt says the tools conform to: 127 when the utility is
\* not found.
NotFoundIs127 ==
  util = "missing" /\ status \notin {"none", "error"} => status = "127"
=============================================================================
