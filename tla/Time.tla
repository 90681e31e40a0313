-------------------------------- MODULE Time --------------------------------
(***************************************************************************)
(* time.c: run a utility in a child process, wait for it, report the time  *)
(* it took and exit with its status.                                       *)
(***************************************************************************)
EXTENDS Integers

CONSTANTS
  Result,      \* how the utility ends, by a signal ("killed") too
  MaxClock     \* the clock, in ticks, stops here

VARIABLES
  util,
  sigchld,    \* "default" or, if the parent of time ignored SIGCHLD, "ignored"
  clock,      \* ticks since boot
  began,      \* rstart
  ended,      \* rend
  child,      \* "none", "forked", "running", "zombie", "reaped"
  how,        \* how the child ended, "none" before
  died,       \* when it ended, on the clock
  cutime,     \* the child's processor time is in the times of its parent
  charged,    \* cutime when the times were taken
  stat_loc,   \* "unset" or what waitpid() stored
  report,     \* the real time written to standard error, -1 before
  pc, status

vars == <<util, sigchld, clock, began, ended, child, how, died, cutime, charged,
          stat_loc, report, pc, status>>

given == <<util, sigchld>>
family == <<child, how, died, cutime>>
times == <<began, ended, charged>>

Init ==
  /\ util \in {"missing", "noexec"} \union Result
  /\ sigchld \in {"default", "ignored"}
  /\ clock = 0 /\ began = 0 /\ ended = 0
  /\ child = "none" /\ how = "none" /\ died = 0 /\ cutime = FALSE /\ charged = FALSE
  /\ stat_loc = "unset" /\ report = -1
  /\ pc = "start" /\ status = "none"

Exit(s) == pc' = "exited" /\ status' = s
-----------------------------------------------------------------------------
Tick ==
  /\ clock < MaxClock /\ pc # "exited"
  /\ clock' = clock + 1
  /\ UNCHANGED <<given, times, family, stat_loc, report, pc, status>>

\* usage() is called, or sysconf(), the first times(), fork(), the second
\* times() or write() fails.
Fails ==
  /\ pc \in {"start", "fork", "stop", "report"}
  /\ Exit("error")
  /\ UNCHANGED <<given, clock, times, family, stat_loc, report>>

StartClock ==
  /\ pc = "start"
  /\ began' = clock /\ pc' = "fork"
  /\ UNCHANGED <<given, clock, ended, charged, family, stat_loc, report, status>>

Fork ==
  /\ pc = "fork"
  /\ child' = "forked" /\ pc' = "wait"
  /\ UNCHANGED <<given, clock, times, how, died, cutime, stat_loc, report, status>>

\* The child's end: when SIGCHLD is ignored nothing of it is kept.
ChildEnds(h) ==
  /\ how' = h /\ died' = clock
  /\ child' = IF sigchld = "ignored" THEN "reaped" ELSE "zombie"

\* The child: execvp(), and 126 + (errno == ENOENT) when that fails.
ChildExec ==
  /\ child = "forked"
  /\ IF util \in Result THEN child' = "running" /\ UNCHANGED <<how, died>>
     ELSE ChildEnds(IF util = "missing" THEN "127" ELSE "126")
  /\ UNCHANGED <<given, clock, times, cutime, stat_loc, report, pc, status>>

ChildExits ==
  /\ child = "running"
  /\ ChildEnds(util)
  /\ UNCHANGED <<given, clock, times, cutime, stat_loc, report, pc, status>>

Waited_NoHang == child # "none"
Waited_Retried == child = "zombie"
Waited == child \in {"zombie", "reaped"}

\* waitpid() returns the child's status, or fails because there is no child
\* left to wait for; that is not checked.
Wait ==
  /\ pc = "wait" /\ Waited
  /\ IF child = "zombie" THEN stat_loc' = how /\ cutime' = TRUE /\ child' = "reaped"
     ELSE UNCHANGED <<stat_loc, cutime, child>>
  /\ pc' = "stop"
  /\ UNCHANGED <<given, clock, times, how, died, report, status>>

StopClock ==
  /\ pc = "stop"
  /\ ended' = clock /\ charged' = cutime /\ pc' = "report"
  /\ UNCHANGED <<given, clock, began, family, stat_loc, report, status>>

\* WEXITSTATUS, or 1 for a child that was killed; what the macros make of a
\* stat_loc that was never set is not determined.
ReturnValue(s) ==
  IF s = "unset" THEN {"exit0", "exit1", "126", "127"}
  ELSE {IF s = "killed" THEN "exit1" ELSE s}

WriteTimes ==
  /\ pc = "report"
  /\ report' = ended - began
  /\ \E s \in ReturnValue(stat_loc) : Exit(s)
  /\ UNCHANGED <<given, clock, times, family, stat_loc>>

Next ==
  \/ Tick \/ Fails \/ StartClock \/ Fork \/ ChildExec \/ ChildExits \/ Wait
  \/ StopClock \/ WriteTimes

Spec == Init /\ [][Next]_vars

\* The child runs independently of its parent, and the utility ends.
Parent == StartClock \/ Fork \/ Wait \/ StopClock \/ WriteTimes \/ Fails
Child == ChildExec \/ ChildExits

-----------------------------------------------------------------------------
(***************************************************************************)
(* What is true of it.                                                     *)
(***************************************************************************)
\* The times written are those of a child that has ended: they cover the
\* whole of its run, and its processor time is among them (time.c:72-74, the
\* clock is stopped behind the wait).
TimesWholeRun ==
  report >= 0 =>
    /\ how # "none" /\ report >= died - began
    /\ sigchld = "default" => charged
-----------------------------------------------------------------------------
(***************************************************************************)
(* What its caller sees of it, in the terms of Invocation; with SIGCHLD    *)
(* ignored nothing can be promised.                                        *)
(***************************************************************************)
phase == IF pc = "exited" THEN "done"
         ELSE IF util \in Result /\ (how # "none" \/ child = "running")
              THEN "running" ELSE "setup"

utility == IF util = "killed" THEN "exit1" ELSE util

outcome == IF sigchld = "ignored" /\ status # "none" THEN "error" ELSE status
=============================================================================
