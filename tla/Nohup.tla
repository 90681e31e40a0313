-------------------------------- MODULE Nohup --------------------------------
(***************************************************************************)
(* nohup.c: ignore SIGHUP, take the standard descriptors off the terminal  *)
(* and execute a utility.  The descriptors are replaced by close() followed*)
(* by open() or dup(), which take the lowest descriptor that is free.      *)
(***************************************************************************)
EXTENDS Naturals, FiniteSets

CONSTANTS
  Result     \* how the utility ends

VARIABLES
  opened,    \* what descriptors 0, 1 and 2 were on when nohup was started
  fds,       \* what each descriptor is on: "closed", "tty", "file", "null",
             \* "nohup.out" or, for HOME with nohup.out put right behind, "home"
  writable,  \* nohup.out can be opened in the working directory
  home,      \* HOME: "unset", "set", "long" (exceeds buf) or "edge" (does not, but
             \* leaves no room for the name behind it)
  cmask,     \* the classes of permissions the umask took away at the start
  umask,     \* those it takes away now
  mode,      \* the permissions the file under HOME was created with
  ignoring,  \* SIGHUP is ignored
  util, pc, status

vars == <<opened, fds, writable, home, cmask, umask, mode, ignoring, util, pc, status>>

given == <<opened, writable, home, cmask, util>>
fixed == <<given, umask, mode, ignoring>>

Standard == 0..2
Descriptor == 0..3       \* one more than can be taken
Class == {"owner", "others"}

Init ==
  /\ opened \in [Standard -> {"closed", "tty", "file"}]
  /\ fds = [n \in Descriptor |-> IF n \in Standard THEN opened[n] ELSE "closed"]
  /\ writable \in BOOLEAN /\ home \in {"unset", "set", "edge", "long"}
  /\ cmask \in SUBSET Class /\ umask = cmask /\ mode = Class
  /\ ignoring = FALSE
  /\ util \in {"missing", "noexec"} \union Result
  /\ pc = "signal" /\ status = "none"

Exit(s) == pc' = "exited" /\ status' = s

isatty(n) == fds[n] = "tty"

\* What is left by close(n), and by a call that returns a new descriptor.
Closed(f, n) == [f EXCEPT ![n] = "closed"]
Opened(f, what) ==
  LET lowest == CHOOSE n \in Descriptor :
                  /\ f[n] = "closed"
                  /\ \A m \in Descriptor : f[m] = "closed" => n <= m
  IN [f EXCEPT ![lowest] = what]
-----------------------------------------------------------------------------
\* A hangup before SIGHUP is ignored ends nohup.
Hangup ==
  /\ ~ignoring /\ pc # "exited"
  /\ Exit("hangup")
  /\ UNCHANGED <<fixed, fds>>

\* nohup takes no options; a utility is given.
IgnoreHangup ==
  /\ pc = "signal"
  /\ ignoring' = TRUE /\ pc' = "stdout"
  /\ UNCHANGED <<given, fds, umask, mode, status>>

Stdout ==
  /\ pc = "stdout"
  /\ IF isatty(1) THEN fds' = Closed(fds, 1) /\ pc' = "open"
                  ELSE pc' = "stderr" /\ UNCHANGED fds
  /\ UNCHANGED <<fixed, status>>

OpenHere ==
  /\ pc = "open"
  /\ IF writable THEN fds' = Opened(fds, "nohup.out") /\ pc' = "stderr"
                 ELSE pc' = "home" /\ UNCHANGED fds
  /\ UNCHANGED <<fixed, status>>

\* The mode is masked with the old umask itself, and the umask stays 0.
OpenHome ==
  /\ pc = "home" /\ home = "set"
  /\ umask' = {}
  /\ mode' = {"owner"} \intersect umask
  /\ fds' = Opened(fds, "home")
  /\ pc' = "stderr"
  /\ UNCHANGED <<given, ignoring, status>>

HomeFails ==
  /\ pc = "home" /\ home # "edge"
  /\ umask' \in IF home = "set" THEN {{}} ELSE {umask}
  /\ Exit("error")
  /\ UNCHANGED <<given, fds, mode, ignoring>>

\* buf ends nine bytes behind PATH_MAX: strcpy() writes beyond it for a HOME
\* that memccpy() has just let pass. What follows is undefined, but the name is
\* too long for any open().
HomeOverruns ==
  /\ pc = "home" /\ home = "edge"
  /\ umask' \in {umask, {}}
  /\ \E s \in {"error", "crash"} : Exit(s)
  /\ UNCHANGED <<given, fds, mode, ignoring>>

ErrClosed_Not == fds
ErrClosed == Closed(fds, 2)

\* dup(1) is not checked: when 1 is closed it fails and 2 stays closed.
Stderr ==
  /\ pc = "stderr"
  /\ fds' = IF ~isatty(2) THEN fds
            ELSE IF fds[1] = "closed" THEN ErrClosed
            ELSE Opened(ErrClosed, fds[1])
  /\ pc' = "stdin"
  /\ UNCHANGED <<fixed, status>>

Stdin ==
  /\ pc = "stdin"
  /\ fds' = IF isatty(0) THEN Opened(Closed(fds, 0), "null") ELSE fds
  /\ pc' = "exec"
  /\ UNCHANGED <<fixed, status>>

\* close() of a terminal, and the open() of /dev/null, may fail.
DescriptorFails ==
  /\ \/ pc = "stdout" /\ isatty(1)
     \/ pc = "stderr" /\ isatty(2)
     \/ pc = "stdin" /\ isatty(0)
  /\ Exit("error")
  /\ UNCHANGED <<fixed, fds>>

Exec ==
  /\ pc = "exec"
  /\ IF util \in Result THEN pc' = "running" /\ UNCHANGED status
     ELSE Exit(IF util = "missing" THEN "127" ELSE "126")
  /\ UNCHANGED <<fixed, fds>>

\* The utility, which has replaced nohup.
UtilityEnds ==
  /\ pc = "running"
  /\ Exit(util)
  /\ UNCHANGED <<fixed, fds>>

Next ==
  \/ HomeOverruns \/ Hangup \/ IgnoreHangup \/ Stdout \/ OpenHere \/ OpenHome \/ HomeFails
  \/ Stderr \/ Stdin \/ DescriptorFails \/ Exec \/ UtilityEnds

Spec == Init /\ [][Next]_vars
-----------------------------------------------------------------------------
(***************************************************************************)
(* What is true of it.                                                     *)
(***************************************************************************)
Executed == pc = "running"
AllOpen == \A n \in Standard : opened[n] # "closed"
Outfile == {"nohup.out", "home"}

\* Provided that the three standard descriptors were open, the utility is
\* started with them open and with no other: a terminal's output goes to
\* nohup.out, its errors go where output goes and its input is /dev/null, and
\* what was not on the terminal is not touched (nohup.c:29-59, where each
\* close() is followed by a call that has to return the same number).  Nothing
\* is said of a nohup started with one of them closed.  The umask is the one
\* nohup was given, but nothing is said of it when output goes to HOME, where
\* nohup.c:43 leaves it 0.
DescriptorsReplaced ==
  Executed /\ AllOpen =>
    /\ opened[0] = "tty" => fds[0] = "null"
    /\ opened[1] = "tty" => fds[1] \in Outfile
    /\ opened[2] = "tty" => fds[2] = fds[1]
    /\ \A n \in Standard : opened[n] = "file" => fds[n] = "file"
    /\ fds[3] = "closed" /\ ignoring
    /\ fds[1] # "home" => umask = cmask
-----------------------------------------------------------------------------
(***************************************************************************)
(* What its caller sees of it, in the terms of Invocation.                 *)
(***************************************************************************)
phase == IF pc = "running" THEN "running"
         ELSE IF pc = "exited" THEN "done" ELSE "setup"
=============================================================================
