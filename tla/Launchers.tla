----------------------------- MODULE Launchers -----------------------------
(***************************************************************************)
(* The four programs that start another one: nohup, nice, env, and time,   *)
(* which alone does it in a child process.  A behaviour runs one of them,  *)
(* prog; the variables the programs have in common, util, pc and status,   *)
(* are the running program's, those of the other programs are Idle.        *)
(***************************************************************************)
EXTENDS Integers, Sequences

CONSTANTS
  Progs,               \* the programs run, of "nohup", "nice", "env", "time"
  Result,              \* how the utility started ends
  Lowest, Highest,     \* nice values
  Increment,           \* what nice -n is given
  Name, Value,         \* of environment variables
  MaxArgs,             \* most assignments env is given
  MaxClock,            \* the clock stops here
  Idle                 \* the value of the variables of another program

ASSUME LaunchersAssumption ==
  /\ Progs \subseteq {"nohup", "nice", "env", "time"}
  /\ Lowest \in Int /\ Highest \in Int /\ Lowest <= 0 /\ 0 <= Highest
  /\ Increment \subseteq Int
  /\ {"exit0", "exit1"} \subseteq Result
  /\ {"none", "unset", "error", "missing", "noexec"} \intersect Result = {}
  /\ MaxArgs \in Nat /\ MaxClock \in Nat

VARIABLES
  prog, util, pc, status,
  opened, fds, writable, home, cmask, umask, mode, ignoring,   \* nohup
  inherited, value, privileged, nflag, refused, errno, olderrno,  \* nice
  before, environ, iflag, args, done, printed,                 \* env
  sigchld, clock, began, ended, child, how, died, cutime, charged, stat_loc,
  report                                                       \* time

nohupVars == <<opened, fds, writable, home, cmask, umask, mode, ignoring>>
niceVars == <<inherited, value, privileged, nflag, refused, errno, olderrno>>
envVars == <<before, environ, iflag, args, done, printed>>
timeVars == <<sigchld, clock, began, ended, child, how, died, cutime, charged,
              stat_loc, report>>

vars == <<prog, util, pc, status, nohupVars, niceVars, envVars, timeVars>>

Nohup == INSTANCE Nohup
Nice == INSTANCE Nice
Env == INSTANCE Env
Time == INSTANCE Time

NohupIdle ==
  /\ opened = Idle /\ fds = Idle /\ writable = Idle /\ home = Idle
  /\ cmask = Idle /\ umask = Idle /\ mode = Idle /\ ignoring = Idle

NiceIdle ==
  /\ inherited = Idle /\ value = Idle /\ privileged = Idle /\ nflag = Idle
  /\ refused = Idle /\ errno = Idle /\ olderrno = Idle

EnvIdle ==
  /\ before = Idle /\ environ = Idle /\ iflag = Idle /\ args = Idle
  /\ done = Idle /\ printed = Idle

TimeIdle ==
  /\ sigchld = Idle /\ clock = Idle /\ began = Idle /\ ended = Idle
  /\ child = Idle /\ how = Idle /\ died = Idle /\ cutime = Idle
  /\ charged = Idle /\ stat_loc = Idle /\ report = Idle

Init ==
  /\ prog \in Progs
  /\ IF prog = "nohup" THEN Nohup!Init ELSE NohupIdle
  /\ IF prog = "nice" THEN Nice!Init ELSE NiceIdle
  /\ IF prog = "env" THEN Env!Init ELSE EnvIdle
  /\ IF prog = "time" THEN Time!Init ELSE TimeIdle

NohupStep ==
  prog = "nohup" /\ Nohup!Next /\ UNCHANGED <<prog, niceVars, envVars, timeVars>>
NiceStep ==
  prog = "nice" /\ Nice!Next /\ UNCHANGED <<prog, nohupVars, envVars, timeVars>>
EnvStep ==
  prog = "env" /\ Env!Next /\ UNCHANGED <<prog, nohupVars, niceVars, timeVars>>
TimeStep ==
  prog = "time" /\ Time!Next /\ UNCHANGED <<prog, nohupVars, niceVars, envVars>>

Next == NohupStep \/ NiceStep \/ EnvStep \/ TimeStep

Spec == Init /\ [][Next]_vars

\* nohup, nice and env are one thread; time and its child run independently
\* of each other.
TimeParent ==
  prog = "time" /\ Time!Parent /\ UNCHANGED <<prog, nohupVars, niceVars, envVars>>
TimeChild ==
  prog = "time" /\ Time!Child /\ UNCHANGED <<prog, nohupVars, niceVars, envVars>>

FairSpec ==
  /\ Spec
  /\ WF_vars(NohupStep \/ NiceStep \/ EnvStep)
  /\ WF_vars(TimeParent) /\ WF_vars(TimeChild)
-----------------------------------------------------------------------------
(***************************************************************************)
(* What is true of the program that is run.                                *)
(***************************************************************************)
\* nohup replaces the descriptors on the terminal and nothing else
\* (nohup.c:29-59).
DescriptorsReplaced == prog = "nohup" => Nohup!DescriptorsReplaced

\* nice runs the utility at the nice value asked for (nice.c:41).
NiceIsAsked == prog = "nice" => Nice!NiceIsAsked

\* env gives the utility, or prints, the assignments and what they leave of
\* the old environment (env.c:27, 33-35, 43-44).
SeesEnvironment == prog = "env" => Env!SeesEnvironment

\* time reports times of a child that has ended (time.c:72-74).
TimesWholeRun == prog = "time" => Time!TimesWholeRun

\* Every launcher ends when the utility does: time is not left waiting for a
\* child that has already ended (time.c:72).
Ends == <>(pc = "exited")

\* POSIX, which readme.txt says the tools conform to: nice exits with 127
\* when the utility is not found.
NotFoundIs127 == prog = "nice" => Nice!NotFoundIs127
-----------------------------------------------------------------------------
(***************************************************************************)
(* What nohup, env and time owe their caller.  nice is left out: it does   *)
(* not tell 126 from 127 (nice.c:44).                                      *)
(***************************************************************************)
callee ==
  IF prog = "nice" THEN "missing"
  ELSE IF prog = "env" THEN Env!utility
  ELSE IF prog = "time" THEN Time!utility ELSE util

stage ==
  IF prog = "nohup" THEN Nohup!phase
  ELSE IF prog = "env" THEN Env!phase
  ELSE IF prog = "time" THEN Time!phase ELSE "setup"

answer ==
  IF prog = "time" THEN Time!outcome ELSE IF prog = "nice" THEN "none" ELSE status

Contract == INSTANCE Invocation WITH util <- callee, phase <- stage, status <- answer

\* 127 when the utility is not found, 126 when it cannot be executed, and the
\* utility's own status otherwise.
StartsUtility == Contract!Spec
=============================================================================
