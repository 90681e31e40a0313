-------------------------- MODULE LaunchersProofs --------------------------
(***************************************************************************)
(* Theorems about Launchers, for every range of nice values, every         *)
(* increment, every set of variables and values and any number of          *)
(* assignments and ticks.                                                  *)
(***************************************************************************)
EXTENDS Launchers, TLAPS

\* While a program runs, its own steps are the only ones.
LEMMA NohupSteps ==
  ASSUME [Next]_vars, prog' = "nohup"
  PROVE  prog = "nohup" /\ [Nohup!Next]_(Nohup!vars)
BY DEF Next, NohupStep, NiceStep, EnvStep, TimeStep, vars, nohupVars, Nohup!vars

LEMMA NiceSteps ==
  ASSUME [Next]_vars, prog' = "nice"
  PROVE  prog = "nice" /\ [Nice!Next]_(Nice!vars)
BY DEF Next, NohupStep, NiceStep, EnvStep, TimeStep, vars, niceVars, Nice!vars

LEMMA TimeSteps ==
  ASSUME [Next]_vars, prog' = "time"
  PROVE  prog = "time" /\ [Time!Next]_(Time!vars)
BY DEF Next, NohupStep, NiceStep, EnvStep, TimeStep, vars, timeVars, Time!vars
-----------------------------------------------------------------------------
(***************************************************************************)
(* nice.                                                                   *)
(***************************************************************************)
\* The value is the inherited one until nice() was called, and the one asked
\* for when the utility is about to be executed.
Adjusted ==
  /\ inherited \in Nice!NiceValue /\ nflag \in Int
  /\ util \notin {"none", "error"}
  /\ pc \in {"options", "exec", "running"} => status = "none"
  /\ pc = "options" => value = inherited
  /\ pc \in {"exec", "running"} => value = Nice!Within(inherited + nflag)
  /\ Nice!NiceIsAsked

LEMMA AdjustedInit == Nice!Init => Adjusted
BY LaunchersAssumption DEF Nice!Init, Adjusted, Nice!NiceValue, Nice!NiceIsAsked

LEMMA AdjustedNext == Adjusted /\ [Nice!Next]_(Nice!vars) => Adjusted'
<1> SUFFICES ASSUME Adjusted, [Nice!Next]_(Nice!vars) PROVE Adjusted'
  OBVIOUS
<1> USE LaunchersAssumption DEF Adjusted, Nice!NiceIsAsked, Nice!given, Nice!Exit
<1>1. CASE Nice!BadIncrement
  BY <1>1 DEF Nice!BadIncrement
<1>2. CASE Nice!Adjust
  BY <1>2 DEF Nice!Adjust, Nice!Failed, Nice!Within, Nice!NiceValue
<1>3. CASE Nice!AdjustRefused
  BY <1>3 DEF Nice!AdjustRefused
<1>4. CASE Nice!KeepValue
  <2>1. value = Nice!Within(inherited + nflag)
    BY <1>4 DEF Nice!KeepValue, Nice!Within, Nice!NiceValue
  <2> QED BY <1>4, <2>1 DEF Nice!KeepValue
<1>5. CASE Nice!Exec
  BY <1>5 DEF Nice!Exec
<1>6. CASE Nice!UtilityEnds
  BY <1>6 DEF Nice!UtilityEnds
<1>7. CASE UNCHANGED Nice!vars
  BY <1>7 DEF Nice!vars
<1> QED BY <1>1, <1>2, <1>3, <1>4, <1>5, <1>6, <1>7 DEF Nice!Next

\* The utility runs at the nice value asked for, or at the end of the range;
\* nice fails unrefused only where it has reached -1 (nice.c:41).
THEOREM NiceValueHolds == Spec => []NiceIsAsked
<1> DEFINE Inv == prog = "nice" => Adjusted
<1>1. Init => Inv
  BY AdjustedInit DEF Init
<1>2. Inv /\ [Next]_vars => Inv'
  BY NiceSteps, AdjustedNext
<1>3. Inv => NiceIsAsked
  BY DEF NiceIsAsked, Adjusted
<1> QED BY <1>1, <1>2, <1>3, PTL DEF Spec
-----------------------------------------------------------------------------
(***************************************************************************)
(* time.                                                                   *)
(***************************************************************************)
\* What is known of the child and of the clock at each point of the parent.
Timed ==
  /\ util # "none"
  /\ clock \in Nat /\ began \in Nat /\ ended \in Nat /\ died \in Nat
  /\ died <= clock
  /\ child \in {"zombie", "reaped"} => how # "none"
  /\ child = "reaped" /\ sigchld = "default" => cutime
  /\ pc \in {"stop", "report"} \/ report >= 0 => child = "reaped"
  /\ pc = "report" => died <= ended /\ (sigchld = "default" => charged)
  /\ pc # "exited" => report = -1
  /\ Time!TimesWholeRun

LEMMA TimedInit == Time!Init => Timed
BY LaunchersAssumption DEF Time!Init, Timed, Time!TimesWholeRun

LEMMA TimedNext == Timed /\ [Time!Next]_(Time!vars) => Timed'
<1> SUFFICES ASSUME Timed, [Time!Next]_(Time!vars) PROVE Timed'
  OBVIOUS
<1> USE DEF Timed, Time!TimesWholeRun, Time!given, Time!times, Time!family
<1>1. CASE Time!Tick
  BY <1>1 DEF Time!Tick
<1>2. CASE Time!Fails
  BY <1>2 DEF Time!Fails, Time!Exit
<1>3. CASE Time!StartClock
  BY <1>3 DEF Time!StartClock
<1>4. CASE Time!Fork
  BY <1>4 DEF Time!Fork
<1>5. CASE Time!ChildExec
  BY <1>5 DEF Time!ChildExec, Time!ChildEnds
<1>6. CASE Time!ChildExits
  BY <1>6 DEF Time!ChildExits, Time!ChildEnds
<1>7. CASE Time!Wait
  BY <1>7 DEF Time!Wait, Time!Waited
<1>8. CASE Time!StopClock
  BY <1>8 DEF Time!StopClock
<1>9. CASE Time!WriteTimes
  BY <1>9 DEF Time!WriteTimes, Time!Exit
<1>10. CASE UNCHANGED Time!vars
  BY <1>10 DEF Time!vars
<1> QED
  BY <1>1, <1>2, <1>3, <1>4, <1>5, <1>6, <1>7, <1>8, <1>9, <1>10 DEF Time!Next

\* Whatever the clock does and however parent and child are interleaved, the
\* times written cover the child's whole run (time.c:72-76).
THEOREM TimesCoverRun == Spec => []TimesWholeRun
<1> DEFINE Inv == prog = "time" => Timed
<1>1. Init => Inv
  BY TimedInit DEF Init
<1>2. Inv /\ [Next]_vars => Inv'
  BY TimeSteps, TimedNext
<1>3. Inv => TimesWholeRun
  BY DEF TimesWholeRun, Timed
<1> QED BY <1>1, <1>2, <1>3, PTL DEF Spec
-----------------------------------------------------------------------------
(***************************************************************************)
(* nohup.                                                                  *)
(***************************************************************************)
\* open() and dup() return the descriptor that was closed before them.
LEMMA LowestIsOne ==
  ASSUME NEW f, DOMAIN f = Nohup!Descriptor, f[0] # "closed", f[1] = "closed", NEW w
  PROVE  Nohup!Opened(f, w) = [f EXCEPT ![1] = w]
<1>1. \A n \in Nohup!Descriptor :
        (f[n] = "closed" /\ \A m \in Nohup!Descriptor : f[m] = "closed" => n <= m)
          <=> n = 1
  BY DEF Nohup!Descriptor
<1>2. (CHOOSE n \in Nohup!Descriptor :
        f[n] = "closed" /\ \A m \in Nohup!Descriptor : f[m] = "closed" => n <= m) = 1
  <2>1. 1 \in Nohup!Descriptor
    BY DEF Nohup!Descriptor
  <2> QED BY <1>1, <2>1
<1> QED BY <1>2 DEF Nohup!Opened

LEMMA LowestIsTwo ==
  ASSUME NEW f, DOMAIN f = Nohup!Descriptor, f[0] # "closed", f[1] # "closed",
         f[2] = "closed", NEW w
  PROVE  Nohup!Opened(f, w) = [f EXCEPT ![2] = w]
<1>1. \A n \in Nohup!Descriptor :
        (f[n] = "closed" /\ \A m \in Nohup!Descriptor : f[m] = "closed" => n <= m)
          <=> n = 2
  BY DEF Nohup!Descriptor
<1>2. (CHOOSE n \in Nohup!Descriptor :
        f[n] = "closed" /\ \A m \in Nohup!Descriptor : f[m] = "closed" => n <= m) = 2
  <2>1. 2 \in Nohup!Descriptor
    BY DEF Nohup!Descriptor
  <2> QED BY <1>1, <2>1
<1> QED BY <1>2 DEF Nohup!Opened

LEMMA LowestIsZero ==
  ASSUME NEW f, DOMAIN f = Nohup!Descriptor, f[0] = "closed", NEW w
  PROVE  Nohup!Opened(f, w) = [f EXCEPT ![0] = w]
<1>1. \A n \in Nohup!Descriptor :
        (f[n] = "closed" /\ \A m \in Nohup!Descriptor : f[m] = "closed" => n <= m)
          <=> n = 0
  BY DEF Nohup!Descriptor
<1>2. (CHOOSE n \in Nohup!Descriptor :
        f[n] = "closed" /\ \A m \in Nohup!Descriptor : f[m] = "closed" => n <= m) = 0
  <2>1. 0 \in Nohup!Descriptor
    BY DEF Nohup!Descriptor
  <2> QED BY <1>1, <2>1
<1> QED BY <1>2 DEF Nohup!Opened

\* The descriptors as they are before and behind each of the three blocks.
OutDone == IF opened[1] = "tty" THEN fds[1] \in Nohup!Outfile ELSE fds[1] = "file"
ErrDone == fds[2] = IF opened[2] = "tty" THEN fds[1] ELSE "file"
InDone == fds[0] = IF opened[0] = "tty" THEN "null" ELSE "file"

Prepared ==
  /\ DOMAIN fds = Nohup!Descriptor
  /\ \A n \in Nohup!Standard : opened[n] \in {"tty", "file"}
  /\ pc \in {"signal", "stdout", "open", "home", "stderr", "stdin", "exec", "running",
             "exited"}
  /\ fds[3] = "closed"
  /\ pc \in {"signal", "stdout"} => \A n \in Nohup!Standard : fds[n] = opened[n]
  /\ pc \in {"open", "home"} =>
       /\ opened[1] = "tty" /\ fds[1] = "closed"
       /\ fds[0] = opened[0] /\ fds[2] = opened[2]
  /\ pc = "stderr" => OutDone /\ fds[0] = opened[0] /\ fds[2] = opened[2]
  /\ pc = "stdin" => OutDone /\ ErrDone /\ fds[0] = opened[0]
  /\ pc \in {"exec", "running"} => OutDone /\ ErrDone /\ InDone
  /\ pc \notin {"signal", "exited"} => ignoring
  /\ pc # "exited" /\ fds[1] # "home" => umask = cmask

LEMMA PreparedInit == Nohup!Init /\ Nohup!AllOpen => Prepared
<1> SUFFICES ASSUME Nohup!Init, Nohup!AllOpen PROVE Prepared
  OBVIOUS
<1>1. \A n \in Nohup!Standard : fds[n] = opened[n] /\ opened[n] \in {"tty", "file"}
  BY DEF Nohup!Init, Nohup!AllOpen, Nohup!Standard, Nohup!Descriptor
<1>2. fds[3] = "closed"
  BY DEF Nohup!Init, Nohup!Standard, Nohup!Descriptor
<1> QED BY <1>1, <1>2 DEF Nohup!Init, Prepared

LEMMA PreparedNext == Prepared /\ [Nohup!Next]_(Nohup!vars) => Prepared'
<1> SUFFICES ASSUME Prepared, [Nohup!Next]_(Nohup!vars) PROVE Prepared'
  OBVIOUS
<1> USE DEF Nohup!given, Nohup!fixed
<1>1. CASE Nohup!Hangup \/ Nohup!DescriptorFails \/ Nohup!UtilityEnds
  BY <1>1 DEF Nohup!Hangup, Nohup!DescriptorFails, Nohup!UtilityEnds, Nohup!Exit, Prepared
<1>2. CASE Nohup!HomeFails \/ Nohup!HomeOverruns
  BY <1>2 DEF Nohup!HomeFails, Nohup!HomeOverruns, Nohup!Exit, Prepared
<1>3. CASE Nohup!IgnoreHangup
  BY <1>3 DEF Nohup!IgnoreHangup, Prepared
<1>4. CASE Nohup!Stdout
  <2>1. CASE Nohup!isatty(1)
    <3>1. fds' = [fds EXCEPT ![1] = "closed"] /\ pc' = "open" /\ pc = "stdout"
      BY <1>4, <2>1 DEF Nohup!Stdout, Nohup!Closed
    <3> QED
      BY <1>4, <2>1, <3>1 DEF Nohup!Stdout, Nohup!isatty, Prepared, Nohup!Standard,
        Nohup!Descriptor
  <2>2. CASE ~Nohup!isatty(1)
    BY <1>4, <2>2 DEF Nohup!Stdout, Nohup!isatty, Prepared, OutDone, Nohup!Standard
  <2> QED BY <2>1, <2>2
<1>5. CASE Nohup!OpenHere
  <2>1. CASE writable
    <3>1. fds[0] # "closed" /\ fds[1] = "closed" /\ DOMAIN fds = Nohup!Descriptor
      BY <1>5 DEF Nohup!OpenHere, Prepared, Nohup!Standard
    <3>2. fds' = [fds EXCEPT ![1] = "nohup.out"] /\ pc' = "stderr"
      BY <1>5, <2>1, <3>1, LowestIsOne DEF Nohup!OpenHere
    <3> QED
      BY <1>5, <3>2 DEF Nohup!OpenHere, Prepared, OutDone, Nohup!Outfile, Nohup!Standard,
        Nohup!Descriptor
  <2>2. CASE ~writable
    BY <1>5, <2>2 DEF Nohup!OpenHere, Prepared
  <2> QED BY <2>1, <2>2
<1>6. CASE Nohup!OpenHome
  <2>1. fds[0] # "closed" /\ fds[1] = "closed" /\ DOMAIN fds = Nohup!Descriptor
    BY <1>6 DEF Nohup!OpenHome, Prepared, Nohup!Standard
  <2>2. fds' = [fds EXCEPT ![1] = "home"] /\ pc' = "stderr"
    BY <1>6, <2>1, LowestIsOne DEF Nohup!OpenHome
  <2> QED
    BY <1>6, <2>2 DEF Nohup!OpenHome, Prepared, OutDone, Nohup!Outfile, Nohup!Standard,
      Nohup!Descriptor
<1>7. CASE Nohup!Stderr
  <2>1. fds[1] # "closed" /\ fds[0] # "closed" /\ DOMAIN fds = Nohup!Descriptor
    BY <1>7 DEF Nohup!Stderr, Prepared, OutDone, Nohup!Outfile, Nohup!Standard
  <2>2. fds' = IF fds[2] = "tty" THEN [fds EXCEPT ![2] = fds[1]] ELSE fds
    <3>1. CASE fds[2] = "tty"
      <4> DEFINE f == [fds EXCEPT ![2] = "closed"]
      <4>1. DOMAIN f = Nohup!Descriptor /\ f[0] # "closed" /\ f[1] # "closed"
            /\ f[2] = "closed"
        BY <2>1 DEF Nohup!Descriptor
      <4>2. Nohup!Opened(f, fds[1]) = [f EXCEPT ![2] = fds[1]]
        BY <4>1, LowestIsTwo
      <4>3. fds' = Nohup!Opened(f, fds[1])
        BY <1>7, <2>1, <3>1 DEF Nohup!Stderr, Nohup!ErrClosed, Nohup!Closed, Nohup!isatty
      <4> QED BY <2>1, <3>1, <4>2, <4>3 DEF Nohup!Descriptor
    <3>2. CASE fds[2] # "tty"
      BY <1>7, <3>2 DEF Nohup!Stderr, Nohup!isatty
    <3> QED BY <3>1, <3>2
  <2> QED
    BY <1>7, <2>1, <2>2 DEF Nohup!Stderr, Prepared, OutDone, ErrDone, Nohup!Standard,
      Nohup!Descriptor
<1>8. CASE Nohup!Stdin
  <2>1. fds' = IF fds[0] = "tty" THEN [fds EXCEPT ![0] = "null"] ELSE fds
    <3>1. CASE fds[0] = "tty"
      <4> DEFINE f == [fds EXCEPT ![0] = "closed"]
      <4>1. DOMAIN fds = Nohup!Descriptor
        BY DEF Prepared
      <4>2. DOMAIN f = Nohup!Descriptor /\ f[0] = "closed"
        BY <4>1 DEF Nohup!Descriptor
      <4>3. Nohup!Opened(f, "null") = [f EXCEPT ![0] = "null"]
        BY <4>2, LowestIsZero
      <4>4. fds' = Nohup!Opened(f, "null")
        BY <1>8, <3>1 DEF Nohup!Stdin, Nohup!Closed, Nohup!isatty
      <4> QED BY <3>1, <4>1, <4>3, <4>4 DEF Nohup!Descriptor
    <3>2. CASE fds[0] # "tty"
      BY <1>8, <3>2 DEF Nohup!Stdin, Nohup!isatty
    <3> QED BY <3>1, <3>2
  <2> QED
    BY <1>8, <2>1 DEF Nohup!Stdin, Prepared, OutDone, ErrDone, InDone, Nohup!Standard,
      Nohup!Descriptor
<1>9. CASE Nohup!Exec
  BY <1>9 DEF Nohup!Exec, Nohup!Exit, Prepared, OutDone, ErrDone, InDone
<1>10. CASE UNCHANGED Nohup!vars
  BY <1>10 DEF Nohup!vars, Prepared, OutDone, ErrDone, InDone
<1> QED
  BY <1>1, <1>2, <1>3, <1>4, <1>5, <1>6, <1>7, <1>8, <1>9, <1>10 DEF Nohup!Next

LEMMA OpenedKept == [Nohup!Next]_(Nohup!vars) => opened' = opened
BY DEF Nohup!Next, Nohup!vars, Nohup!fixed, Nohup!given, Nohup!Hangup,
  Nohup!IgnoreHangup, Nohup!Stdout, Nohup!OpenHere, Nohup!OpenHome, Nohup!HomeFails,
  Nohup!HomeOverruns, Nohup!Stderr, Nohup!Stdin, Nohup!DescriptorFails, Nohup!Exec, Nohup!UtilityEnds

\* When the three standard descriptors were open, each close() in nohup is
\* followed by a call that returns the descriptor just closed, so the utility
\* gets the descriptors promised (nohup.c:29-59); with them the umask, unless
\* output goes to HOME.
THEOREM UtilityGetsDescriptors == Spec => []DescriptorsReplaced
<1> DEFINE Inv == prog = "nohup" /\ Nohup!AllOpen => Prepared
<1>1. Init => Inv
  BY PreparedInit DEF Init
<1>2. Inv /\ [Next]_vars => Inv'
  <2> SUFFICES ASSUME Inv, [Next]_vars, prog' = "nohup", Nohup!AllOpen'
               PROVE  Prepared'
    OBVIOUS
  <2>1. prog = "nohup" /\ [Nohup!Next]_(Nohup!vars)
    BY NohupSteps
  <2>2. Nohup!AllOpen
    BY <2>1, OpenedKept DEF Nohup!AllOpen
  <2> QED BY <2>1, <2>2, PreparedNext
<1>3. Inv => DescriptorsReplaced
  BY DEF DescriptorsReplaced, Nohup!DescriptorsReplaced, Nohup!Executed, Prepared,
    OutDone, ErrDone, InDone, Nohup!Standard
<1> QED BY <1>1, <1>2, <1>3, PTL DEF Spec
-----------------------------------------------------------------------------
(***************************************************************************)
(* Each program implements Invocation.                                     *)
(***************************************************************************)
LEMMA EnvSteps ==
  ASSUME [Next]_vars, prog' = "env"
  PROVE  prog = "env" /\ [Env!Next]_(Env!vars)
BY DEF Next, NohupStep, NiceStep, EnvStep, TimeStep, vars, envVars, Env!vars

\* What a step of each does to the variables of Invocation.
StepOf(u, ph, st, u1, ph1, st1) ==
  \/ u1 = u /\ ph1 = ph /\ st1 = st
  \/ u1 = u /\ ph1 = "done" /\
       \/ ph # "done" /\ st1 = "error"
       \/ ph = "setup" /\ st1 \in {"hangup", "crash"}
       \/ ph = "setup" /\ u = "missing" /\ st1 = "127"
       \/ ph = "setup" /\ u = "noexec" /\ st1 = "126"
       \/ ph = "running" /\ st1 = u
  \/ u1 = u /\ ph = "setup" /\ u \in Result /\ ph1 = "running" /\ st1 = st

NohupServes ==
  /\ util \in {"missing", "noexec"} \union Result
  /\ pc \in {"signal", "stdout", "open", "home", "stderr", "stdin", "exec", "running",
             "exited"}
  /\ pc # "exited" => status = "none"
  /\ pc \notin {"signal", "exited"} => ignoring

LEMMA NohupServesInit == Nohup!Init => NohupServes
BY DEF Nohup!Init, NohupServes

LEMMA NohupServesNext ==
  NohupServes /\ [Nohup!Next]_(Nohup!vars) =>
    NohupServes' /\ StepOf(util, Nohup!phase, status, util', Nohup!phase', status')
<1> SUFFICES ASSUME NohupServes, [Nohup!Next]_(Nohup!vars)
    PROVE NohupServes' /\ StepOf(util, Nohup!phase, status, util', Nohup!phase', status')
  OBVIOUS
<1> USE DEF NohupServes, StepOf, Nohup!phase, Nohup!given, Nohup!fixed, Nohup!Exit
<1>1. CASE Nohup!Hangup
  BY <1>1 DEF Nohup!Hangup
<1>2. CASE Nohup!IgnoreHangup
  BY <1>2 DEF Nohup!IgnoreHangup
<1>3. CASE Nohup!Stdout \/ Nohup!OpenHere \/ Nohup!OpenHome
  BY <1>3 DEF Nohup!Stdout, Nohup!OpenHere, Nohup!OpenHome
<1>4. CASE Nohup!HomeFails \/ Nohup!HomeOverruns \/ Nohup!DescriptorFails
  BY <1>4 DEF Nohup!HomeFails, Nohup!HomeOverruns, Nohup!DescriptorFails
<1>5. CASE Nohup!Stderr \/ Nohup!Stdin
  BY <1>5 DEF Nohup!Stderr, Nohup!Stdin
<1>6. CASE Nohup!Exec
  BY <1>6 DEF Nohup!Exec
<1>7. CASE Nohup!UtilityEnds
  BY <1>7 DEF Nohup!UtilityEnds
<1>8. CASE UNCHANGED Nohup!vars
  BY <1>8 DEF Nohup!vars
<1> QED BY <1>1, <1>2, <1>3, <1>4, <1>5, <1>6, <1>7, <1>8 DEF Nohup!Next

EnvServes ==
  /\ util \in {"none", "missing", "noexec"} \union Result
  /\ pc \in {"options", "assign", "print", "running", "exited"}
  /\ pc # "exited" => status = "none"
  /\ pc = "print" => util = "none"
  /\ pc = "running" => util \in Result

LEMMA EnvServesInit == Env!Init => EnvServes
BY DEF Env!Init, EnvServes

LEMMA EnvServesNext ==
  EnvServes /\ [Env!Next]_(Env!vars) =>
    EnvServes' /\ StepOf(Env!utility, Env!phase, status, Env!utility', Env!phase', status')
<1> SUFFICES ASSUME EnvServes, [Env!Next]_(Env!vars)
    PROVE EnvServes' /\ StepOf(Env!utility, Env!phase, status, Env!utility', Env!phase', status')
  OBVIOUS
<1> USE LaunchersAssumption
    DEF EnvServes, StepOf, Env!phase, Env!utility, Env!given, Env!Exit
<1>1. CASE Env!BadOptions \/ Env!AssignFails \/ Env!PrintFails
  BY <1>1 DEF Env!BadOptions, Env!AssignFails, Env!PrintFails
<1>2. CASE Env!Options \/ Env!Assign \/ Env!PrintEntry
  BY <1>2 DEF Env!Options, Env!Assign, Env!PrintEntry
<1>3. CASE Env!Exec
  BY <1>3 DEF Env!Exec, Env!Failure
<1>4. CASE Env!UtilityEnds
  BY <1>4 DEF Env!UtilityEnds
<1>5. CASE Env!StartPrint
  BY <1>5 DEF Env!StartPrint
<1>6. CASE Env!PrintEnd
  BY <1>6 DEF Env!PrintEnd
<1>7. CASE UNCHANGED Env!vars
  BY <1>7 DEF Env!vars
<1> QED BY <1>1, <1>2, <1>3, <1>4, <1>5, <1>6, <1>7 DEF Env!Next

\* The child has ended before its status is used, and as the utility or the
\* failure of execvp() says.
TimeServes ==
  /\ util \in {"missing", "noexec"} \union Result
  /\ sigchld \in {"default", "ignored"}
  /\ pc \in {"start", "fork", "wait", "stop", "report", "exited"}
  /\ pc # "exited" => status = "none"
  /\ pc \in {"start", "fork"} => child = "none"
  /\ child \in {"none", "forked"} => how = "none"
  /\ child = "running" => util \in Result /\ how = "none"
  /\ child \in {"zombie", "reaped"} =>
       how = IF util = "missing" THEN "127" ELSE IF util = "noexec" THEN "126" ELSE util
  /\ child = "reaped" /\ sigchld = "default" => stat_loc = how
  /\ sigchld = "ignored" => child # "zombie" /\ stat_loc = "unset"
  /\ pc \in {"stop", "report"} => child = "reaped"

LEMMA TimeServesInit == Time!Init => TimeServes
BY DEF Time!Init, TimeServes

LEMMA TimeServesNext ==
  TimeServes /\ [Time!Next]_(Time!vars) =>
    TimeServes' /\ StepOf(Time!utility, Time!phase, Time!outcome,
                         Time!utility', Time!phase', Time!outcome')
<1> SUFFICES ASSUME TimeServes, [Time!Next]_(Time!vars)
    PROVE TimeServes' /\ StepOf(Time!utility, Time!phase, Time!outcome,
                               Time!utility', Time!phase', Time!outcome')
  OBVIOUS
<1> USE LaunchersAssumption
    DEF TimeServes, StepOf, Time!phase, Time!utility, Time!outcome, Time!given,
      Time!family, Time!times
<1>1. CASE Time!Tick
  BY <1>1 DEF Time!Tick
<1>2. CASE Time!Fails
  BY <1>2 DEF Time!Fails, Time!Exit
<1>3. CASE Time!StartClock \/ Time!Fork
  BY <1>3 DEF Time!StartClock, Time!Fork
<1>4. CASE Time!ChildExec
  BY <1>4 DEF Time!ChildExec, Time!ChildEnds
<1>5. CASE Time!ChildExits
  BY <1>5 DEF Time!ChildExits, Time!ChildEnds
<1>6. CASE Time!Wait \/ Time!StopClock
  BY <1>6 DEF Time!Wait, Time!Waited, Time!StopClock
<1>7. CASE Time!WriteTimes
  BY <1>7 DEF Time!WriteTimes, Time!ReturnValue, Time!Exit
<1>8. CASE UNCHANGED Time!vars
  BY <1>8 DEF Time!vars
<1> QED BY <1>1, <1>2, <1>3, <1>4, <1>5, <1>6, <1>7, <1>8 DEF Time!Next

Serves ==
  /\ prog \in {"nohup", "nice", "env", "time"}
  /\ prog = "nohup" => NohupServes
  /\ prog = "env" => EnvServes
  /\ prog = "time" => TimeServes

LEMMA ServesInit == Init => Serves /\ Contract!Init
<1> SUFFICES ASSUME Init PROVE Serves /\ Contract!Init
  OBVIOUS
<1> USE DEF callee, stage, answer
<1>1. Serves
  BY LaunchersAssumption, NohupServesInit, EnvServesInit, TimeServesInit
  DEF Init, Serves
<1>2. CASE prog = "nohup"
  BY <1>1, <1>2 DEF Init, Nohup!Init, Nohup!phase, Contract!Init, Contract!Util
<1>3. CASE prog = "nice"
  BY <1>1, <1>3 DEF Contract!Init, Contract!Util
<1>4. CASE prog = "env"
  BY <1>1, <1>4, LaunchersAssumption DEF Init, Env!Init, Env!phase, Env!utility, Contract!Init,
    Contract!Util
<1>5. CASE prog = "time"
  BY <1>1, <1>5, LaunchersAssumption DEF Init, Time!Init, Time!phase, Time!utility,
    Time!outcome, Contract!Init, Contract!Util
<1> QED BY <1>1, <1>2, <1>3, <1>4, <1>5 DEF Serves

LEMMA ServesNext == Serves /\ [Next]_vars => Serves' /\ [Contract!Next]_(Contract!vars)
<1> SUFFICES ASSUME Serves, [Next]_vars PROVE Serves' /\ [Contract!Next]_(Contract!vars)
  OBVIOUS
<1>1. prog' = prog
  BY DEF Next, NohupStep, NiceStep, EnvStep, TimeStep, vars
<1>2. Serves' /\ StepOf(callee, stage, answer, callee', stage', answer')
  <2> USE <1>1 DEF Serves, callee, stage, answer
  <2>1. CASE prog = "nohup"
    BY <2>1, NohupSteps, NohupServesNext
  <2>2. CASE prog = "nice"
    BY <2>2 DEF StepOf
  <2>3. CASE prog = "env"
    BY <2>3, EnvSteps, EnvServesNext
  <2>4. CASE prog = "time"
    BY <2>4, TimeSteps, TimeServesNext
  <2> QED BY <2>1, <2>2, <2>3, <2>4
<1> QED
  BY <1>2 DEF StepOf, Contract!Next, Contract!vars, Contract!End, Contract!GiveUp,
    Contract!Interrupted, Contract!NotFound, Contract!NotExecutable, Contract!Start,
    Contract!Ended

\* For every utility and set of results: what nohup, env and time exit with is
\* what Invocation says, step by step.
THEOREM LaunchersServe == Spec => StartsUtility
<1>1. Init => Serves /\ Contract!Init
  BY ServesInit
<1>2. Serves /\ [Next]_vars => Serves' /\ [Contract!Next]_(Contract!vars)
  BY ServesNext
<1> QED BY <1>1, <1>2, PTL DEF Spec, StartsUtility, Contract!Spec
-----------------------------------------------------------------------------
(***************************************************************************)
(* env.                                                                    *)
(***************************************************************************)
Entry == Name \X Value

\* The entries that are wanted when the first n assignments are all.
WantedOf(n) ==
  {e \in Entry :
     \/ \E j \in 1..n : args[j] = e /\ \A k \in (j+1)..n : args[k][1] # e[1]
     \/ /\ ~iflag /\ e \in Env!Entries(before)
        /\ \A j \in 1..n : args[j][1] # e[1]}

\* The array is what the assignments made so far ask for; the cursor takes it
\* from there to what is printed.
Assigned ==
  /\ before \in Seq(Entry) /\ environ \in Seq(Entry) /\ printed \in Seq(Entry)
  /\ args \in Seq(Entry) /\ done \in 0..Len(args) /\ iflag \in BOOLEAN
  /\ Env!NamesOnce(before) /\ Env!NamesOnce(environ)
  /\ pc = "options" => environ = before /\ done = 0
  /\ pc \in {"options", "assign"} => printed = <<>>
  /\ pc = "assign" => Env!Entries(environ) = WantedOf(done)
  /\ pc = "running" => util # "none" /\ Env!Entries(environ) = WantedOf(Len(args))
  /\ pc = "print" => /\ Env!Entries(printed \o environ) = WantedOf(Len(args))
                     /\ Env!NamesOnce(printed \o environ)
  /\ pc = "exited" /\ util = "none" /\ status = "exit0" =>
       Env!Entries(printed) = WantedOf(Len(args)) /\ Env!NamesOnce(printed)

\* putenv() takes the place of the entry of that name, if there is one.
LEMMA PutEntry ==
  ASSUME NEW s \in Seq(Entry), NEW e \in Entry, Env!NamesOnce(s)
  PROVE  /\ Env!Put(s, e) \in Seq(Entry) /\ Env!NamesOnce(Env!Put(s, e))
         /\ Env!Entries(Env!Put(s, e)) = {e} \union {x \in Env!Entries(s) : x[1] # e[1]}
<1>1. CASE \E j \in 1..Len(s) : s[j][1] = e[1]
  <2>1. PICK t : t = [j \in 1..Len(s) |-> IF s[j][1] = e[1] THEN e ELSE s[j]]
    OBVIOUS
  <2>2. Env!Put(s, e) = t
    BY <1>1, <2>1 DEF Env!Put
  <2>3. t \in Seq(Entry) /\ Len(t) = Len(s)
    BY <2>1
  <2>4. \A j \in 1..Len(s) : t[j][1] = s[j][1] /\ t[j] = IF s[j][1] = e[1] THEN e ELSE s[j]
    BY <2>1
  <2>5. Env!NamesOnce(t)
    BY <2>3, <2>4 DEF Env!NamesOnce
  <2>6. Env!Entries(t) = {e} \union {x \in Env!Entries(s) : x[1] # e[1]}
    <3>1. ASSUME NEW j \in 1..Len(s)
          PROVE  t[j] \in {e} \union {x \in Env!Entries(s) : x[1] # e[1]}
      BY <2>4 DEF Env!Entries
    <3>2. e \in Env!Entries(t)
      BY <1>1, <2>3, <2>4 DEF Env!Entries
    <3>3. ASSUME NEW j \in 1..Len(s), s[j][1] # e[1] PROVE s[j] \in Env!Entries(t)
      BY <2>3, <2>4, <3>3 DEF Env!Entries
    <3> QED BY <2>3, <3>1, <3>2, <3>3 DEF Env!Entries
  <2> QED BY <2>2, <2>3, <2>5, <2>6
<1>2. CASE ~\E j \in 1..Len(s) : s[j][1] = e[1]
  <2>1. Env!Put(s, e) = Append(s, e)
    BY <1>2 DEF Env!Put
  <2>2. /\ Append(s, e) \in Seq(Entry) /\ Len(Append(s, e)) = Len(s) + 1
        /\ Append(s, e)[Len(s) + 1] = e
        /\ \A j \in 1..Len(s) : Append(s, e)[j] = s[j]
    OBVIOUS
  <2>3. Env!NamesOnce(Append(s, e))
    BY <1>2, <2>2 DEF Env!NamesOnce
  <2>4. Env!Entries(Append(s, e)) = {e} \union {x \in Env!Entries(s) : x[1] # e[1]}
    <3>1. 1..(Len(s) + 1) = (1..Len(s)) \union {Len(s) + 1}
      OBVIOUS
    <3>2. Env!Entries(Append(s, e)) = Env!Entries(s) \union {e}
      BY <2>2, <3>1 DEF Env!Entries
    <3>3. \A x \in Env!Entries(s) : x[1] # e[1]
      BY <1>2 DEF Env!Entries
    <3> QED BY <3>2, <3>3
  <2> QED BY <2>1, <2>2, <2>3, <2>4
<1> QED BY <1>1, <1>2

\* One assignment more.
LEMMA WantedNext ==
  ASSUME args \in Seq(Entry), NEW n \in Nat, n < Len(args)
  PROVE  WantedOf(n + 1) = {args[n+1]} \union {x \in WantedOf(n) : x[1] # args[n+1][1]}
<1>1. args[n+1] \in Entry
  OBVIOUS
<1>2. 1..(n+1) = (1..n) \union {n+1}
  OBVIOUS
<1>3. ASSUME NEW x \in WantedOf(n + 1), x # args[n+1]
      PROVE  x \in WantedOf(n) /\ x[1] # args[n+1][1]
  <2>1. x \in Entry
    BY DEF WantedOf
  <2>2. CASE \E j \in 1..(n+1) : args[j] = x /\ \A k \in (j+1)..(n+1) : args[k][1] # x[1]
    <3>1. PICK j \in 1..(n+1) : args[j] = x /\ \A k \in (j+1)..(n+1) : args[k][1] # x[1]
      BY <2>2
    <3>2. j \in 1..n /\ n + 1 \in (j+1)..(n+1) /\ \A k \in (j+1)..n : k \in (j+1)..(n+1)
      BY <1>2, <1>3, <3>1
    <3>3. args[n+1][1] # x[1] /\ \A k \in (j+1)..n : args[k][1] # x[1]
      BY <3>1, <3>2
    <3> QED BY <2>1, <3>1, <3>2, <3>3 DEF WantedOf
  <2>3. CASE /\ ~iflag /\ x \in Env!Entries(before)
             /\ \A j \in 1..(n+1) : args[j][1] # x[1]
    BY <1>2, <2>1, <2>3 DEF WantedOf
  <2> QED BY <2>2, <2>3 DEF WantedOf
<1>4. args[n+1] \in WantedOf(n + 1)
  <2>1. n + 1 \in 1..(n+1) /\ \A k \in ((n+1)+1)..(n+1) : FALSE
    OBVIOUS
  <2> QED BY <1>1, <2>1 DEF WantedOf
<1>5. ASSUME NEW x \in WantedOf(n), x[1] # args[n+1][1] PROVE x \in WantedOf(n + 1)
  <2>1. x \in Entry
    BY DEF WantedOf
  <2>2. CASE \E j \in 1..n : args[j] = x /\ \A k \in (j+1)..n : args[k][1] # x[1]
    <3>1. PICK j \in 1..n : args[j] = x /\ \A k \in (j+1)..n : args[k][1] # x[1]
      BY <2>2
    <3>2. j \in 1..(n+1) /\ \A k \in (j+1)..(n+1) : k \in (j+1)..n \/ k = n + 1
      BY <3>1
    <3>3. \A k \in (j+1)..(n+1) : args[k][1] # x[1]
      BY <1>5, <3>1, <3>2
    <3> QED BY <2>1, <3>1, <3>2, <3>3 DEF WantedOf
  <2>3. CASE /\ ~iflag /\ x \in Env!Entries(before)
             /\ \A j \in 1..n : args[j][1] # x[1]
    BY <1>2, <1>5, <2>1, <2>3 DEF WantedOf
  <2> QED BY <2>2, <2>3 DEF WantedOf
<1> QED BY <1>3, <1>4, <1>5

\* When all assignments are made, what is wanted is what Env says.
LEMMA WantedAll ==
  ASSUME args \in Seq(Entry), before \in Seq(Entry), Env!NamesOnce(before)
  PROVE  WantedOf(Len(args)) = Env!Wanted
<1>1. \A e : Env!Last(before, e) <=> e \in Env!Entries(before)
  <2>1. ASSUME NEW j \in 1..Len(before) PROVE Env!Last(before, before[j])
    <3>1. \A k \in (j+1)..Len(before) : k \in 1..Len(before) /\ k # j
      OBVIOUS
    <3> QED BY <3>1 DEF Env!Last, Env!NamesOnce
  <2>2. ASSUME NEW e, Env!Last(before, e) PROVE e \in Env!Entries(before)
    BY <2>2 DEF Env!Last, Env!Entries
  <2>3. ASSUME NEW e \in Env!Entries(before) PROVE Env!Last(before, e)
    <3>1. PICK j \in 1..Len(before) : e = before[j]
      BY DEF Env!Entries
    <3> QED BY <2>1, <3>1
  <2> QED BY <2>2, <2>3
<1>2. Env!Entry = Entry
  BY DEF Env!Entry, Entry
<1> QED BY <1>1, <1>2 DEF WantedOf, Env!Wanted, Env!Last

\* An entry printed leaves the array and joins what is printed.
LEMMA CursorMoves ==
  ASSUME NEW s \in Seq(Entry), NEW t \in Seq(Entry), t # <<>>
  PROVE  Append(s, Head(t)) \o Tail(t) = s \o t
<1>1. Len(Append(s, Head(t)) \o Tail(t)) = Len(s \o t)
  OBVIOUS
<1>2. \A j \in 1..Len(s \o t) : (Append(s, Head(t)) \o Tail(t))[j] = (s \o t)[j]
  <2> TAKE j \in 1..Len(s \o t)
  <2>1. CASE j <= Len(s)
    BY <2>1
  <2>2. CASE j = Len(s) + 1
    BY <2>2
  <2>3. CASE j > Len(s) + 1
    BY <2>3
  <2> QED BY <2>1, <2>2, <2>3
<1>3. Append(s, Head(t)) \o Tail(t) \in Seq(Entry) /\ s \o t \in Seq(Entry)
  OBVIOUS
<1> QED BY <1>1, <1>2, <1>3

\* Names are there once in what follows the first, too.
LEMMA NamesOnceTail ==
  ASSUME NEW t \in Seq(Entry), t # <<>>, Env!NamesOnce(t)
  PROVE  Env!NamesOnce(Tail(t))
<1>1. Len(Tail(t)) = Len(t) - 1 /\ \A j \in 1..Len(Tail(t)) : Tail(t)[j] = t[j+1]
  OBVIOUS
<1>2. \A j \in 1..Len(Tail(t)) : j + 1 \in 1..Len(t)
  BY <1>1
<1> SUFFICES ASSUME NEW j \in 1..Len(Tail(t)), NEW k \in 1..Len(Tail(t)),
                    Tail(t)[j][1] = Tail(t)[k][1]
             PROVE  j = k
  BY DEF Env!NamesOnce
<1>3. j + 1 = k + 1
  BY <1>1, <1>2 DEF Env!NamesOnce
<1> QED BY <1>3

LEMMA AssignedInit == Env!Init => Assigned
<1> SUFFICES ASSUME Env!Init PROVE Assigned
  OBVIOUS
<1>1. \A l \in Nat : [1..l -> Entry] \subseteq Seq(Entry)
  OBVIOUS
<1>2. PICK l \in 0..2 : before \in [1..l -> Entry]
  BY DEF Env!Init, Env!Entry, Entry
<1>3. PICK m \in 0..MaxArgs : args \in [1..m -> Entry]
  BY DEF Env!Init, Env!Entry, Entry
<1>4. before \in Seq(Entry) /\ args \in Seq(Entry)
  BY <1>1, <1>2, <1>3, LaunchersAssumption
<1>5. Env!NamesOnce(before)
  BY DEF Env!Init
<1> QED BY <1>4, <1>5 DEF Env!Init, Assigned

LEMMA AssignedNext == Assigned /\ [Env!Next]_(Env!vars) => Assigned'
<1> SUFFICES ASSUME Assigned, [Env!Next]_(Env!vars) PROVE Assigned'
  OBVIOUS
<1>0. UNCHANGED <<before, iflag, args, util>>
  BY DEF Env!Next, Env!BadOptions, Env!Options, Env!Assign, Env!AssignFails, Env!Exec,
    Env!UtilityEnds, Env!StartPrint, Env!PrintEntry, Env!PrintFails, Env!PrintEnd,
    Env!given, Env!vars
<1>a. \A n : WantedOf(n)' = WantedOf(n)
  BY <1>0 DEF WantedOf
<1>1. CASE Env!BadOptions \/ Env!AssignFails \/ Env!PrintFails
  BY <1>0, <1>1 DEF Env!BadOptions, Env!AssignFails, Env!PrintFails, Env!Exit, Assigned
<1>2. CASE Env!Options
  <2>1. /\ environ' = IF iflag THEN <<>> ELSE environ
        /\ environ = before /\ done = 0 /\ done' = 0 /\ pc' = "assign" /\ printed' = <<>>
    BY <1>2 DEF Env!Options, Assigned
  <2>2. environ' \in Seq(Entry) /\ Env!NamesOnce(environ')
    BY <2>1 DEF Assigned, Env!NamesOnce
  <2>3. Env!Entries(environ') = WantedOf(0)
    <3>1. \A j \in 1..0 : FALSE
      OBVIOUS
    <3>2. WantedOf(0) = {e \in Entry : ~iflag /\ e \in Env!Entries(before)}
      BY <3>1 DEF WantedOf
    <3>3. Env!Entries(before) \subseteq Entry
      BY DEF Assigned, Env!Entries
    <3>4. Env!Entries(<<>>) = {}
      BY DEF Env!Entries
    <3> QED BY <2>1, <3>2, <3>3, <3>4
  <2>4. WantedOf(done)' = WantedOf(0) /\ Env!Entries(environ)' = Env!Entries(environ')
    BY <1>0, <2>1 DEF WantedOf, Env!Entries
  <2> QED BY <1>0, <2>1, <2>2, <2>3, <2>4 DEF Assigned, Env!NamesOnce
<1>3. CASE Env!Assign
  <2>1. PICK n \in Nat, e \in Entry :
          /\ n = done /\ n < Len(args) /\ done' = n + 1 /\ e = args[n+1]
    BY <1>3 DEF Env!Assign, Assigned
  <2>2. /\ environ' = Env!Put(environ, e) /\ pc = "assign" /\ UNCHANGED <<printed, pc, status>>
    BY <1>3, <2>1 DEF Env!Assign
  <2>3. /\ environ' \in Seq(Entry) /\ Env!NamesOnce(environ')
        /\ Env!Entries(environ') = {e} \union {x \in Env!Entries(environ) : x[1] # e[1]}
    BY <2>2, PutEntry DEF Assigned
  <2>4. Env!Entries(environ') = WantedOf(n + 1)
    BY <2>1, <2>2, <2>3, WantedNext DEF Assigned
  <2>5. WantedOf(done)' = WantedOf(n + 1) /\ Env!Entries(environ)' = Env!Entries(environ')
        /\ Env!NamesOnce(environ)'
    BY <1>0, <2>1, <2>3 DEF WantedOf, Env!Entries, Env!NamesOnce
  <2> QED BY <1>0, <2>1, <2>2, <2>3, <2>4, <2>5 DEF Assigned
<1>4. CASE Env!Exec \/ Env!StartPrint
  <2>1. /\ UNCHANGED <<environ, done, printed>> /\ pc = "assign" /\ done = Len(args)
        /\ printed = <<>>
        /\ \/ pc' = "running" /\ util # "none"
           \/ pc' = "exited" /\ util # "none"
           \/ pc' = "print"
    BY <1>4 DEF Env!Exec, Env!StartPrint, Env!Exit, Assigned
  <2>2. printed \o environ = environ
    BY <2>1 DEF Assigned
  <2>3. Env!Entries(environ) = WantedOf(Len(args)) /\ Env!NamesOnce(environ)
    BY <2>1 DEF Assigned
  <2> QED BY <1>0, <1>a, <2>1, <2>2, <2>3 DEF Assigned
<1>5. CASE Env!UtilityEnds
  BY <1>0, <1>5 DEF Env!UtilityEnds, Env!Exit, Assigned
<1>6. CASE Env!PrintEntry
  <2>1. /\ printed' = Append(printed, Head(environ)) /\ environ' = Tail(environ)
        /\ environ # <<>> /\ pc = "print" /\ UNCHANGED <<done, pc, status>>
    BY <1>6 DEF Env!PrintEntry
  <2>2. printed' \o environ' = printed \o environ
    BY <2>1, CursorMoves DEF Assigned
  <2>3. printed' \in Seq(Entry) /\ environ' \in Seq(Entry) /\ Env!NamesOnce(environ')
    BY <2>1, NamesOnceTail DEF Assigned
  <2>4. Env!Entries(printed \o environ)' = WantedOf(Len(args))
        /\ Env!NamesOnce(printed \o environ)'
    BY <2>1, <2>2 DEF Assigned
  <2> QED BY <1>0, <1>a, <2>1, <2>3, <2>4 DEF Assigned
<1>7. CASE Env!PrintEnd
  <2>1. environ = <<>> /\ pc = "print" /\ pc' = "exited" /\ UNCHANGED <<environ, done, printed>>
    BY <1>7 DEF Env!PrintEnd, Env!Exit
  <2>2. printed \o environ = printed
    BY <2>1 DEF Assigned
  <2> QED BY <1>0, <1>a, <2>1, <2>2 DEF Assigned
<1>8. CASE UNCHANGED Env!vars
  BY <1>0, <1>a, <1>8 DEF Env!vars, Assigned
<1> QED BY <1>1, <1>2, <1>3, <1>4, <1>5, <1>6, <1>7, <1>8 DEF Env!Next

\* Whatever the inherited environment and however many assignments of whatever
\* names, repeated ones too: the utility gets, or the list shows, the last
\* assignment of each name and, without -i, the entries no assignment names,
\* each name once (env.c:27, 33-35, 43-44).
THEOREM EnvironmentSeen == Spec => []SeesEnvironment
<1> DEFINE Inv == prog = "env" => Assigned
<1>1. Init => Inv
  BY AssignedInit DEF Init
<1>2. Inv /\ [Next]_vars => Inv'
  BY EnvSteps, AssignedNext
<1>3. Inv => SeesEnvironment
  BY WantedAll DEF SeesEnvironment, Env!SeesEnvironment, Assigned
<1> QED BY <1>1, <1>2, <1>3, PTL DEF Spec
=============================================================================
