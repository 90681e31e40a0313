------------------------------ MODULE Commands ------------------------------
(***************************************************************************)
(* The programs that do one thing and exit: kill, pwd, id, basename,       *)
(* dirname, tty, logname, uname, echo, date, sleep and stty.  A behaviour  *)
(* runs one of them, prog; variables the others alone have are Idle.       *)
(***************************************************************************)
EXTENDS Integers, Sequences, FiniteSets

CONSTANTS
  Sigs, TERM, Argument, MaxArgs, IovSize,             \* kill
  Path, Dir, Here, Link, None, MaxMoves,              \* pwd
  Primary, Stranger, Databases,                       \* id
  Char, Slash, Nul, Before, MaxName,                  \* basename, dirname
  MaxTokens,                                          \* echo
  Pair, Bad, ThisYear, Seconds, UMod,                 \* date, sleep
  Modes, Delays, Controls, Speeds, Speed, CharVal,    \* stty
  Idle

VARIABLES
  prog, given, mem, out, pc, status,
  optind, sigsend, lopt, flags, sent, ret,                     \* kill
  where, target, cwd, cst, moves, raced, named                 \* pwd

killVars == <<optind, sigsend, lopt, flags, sent, ret>>
pwdVars == <<where, target, cwd, cst, moves, raced, named>>
vars == <<prog, given, mem, out, pc, status, killVars, pwdVars>>

Kill == INSTANCE Kill WITH args <- given, listed <- out
Pwd == INSTANCE Pwd WITH PWD <- given
Id == INSTANCE Id
Line == INSTANCE Line
Echo == INSTANCE Echo
Date == INSTANCE Date
Stty == INSTANCE Stty

ASSUME CommandsAssumption ==
  /\ Kill!KillAssumption /\ Pwd!PwdAssumption /\ Id!IdAssumption
  /\ Line!LineAssumption /\ Echo!EchoAssumption /\ Date!DateAssumption
  /\ Stty!SttyAssumption

KillIdle ==
  /\ optind = Idle /\ sigsend = Idle /\ lopt = Idle /\ flags = Idle
  /\ sent = Idle /\ ret = Idle
PwdIdle ==
  /\ where = Idle /\ target = Idle /\ cwd = Idle /\ cst = Idle
  /\ moves = Idle /\ raced = Idle /\ named = Idle

Init ==
  \/ Kill!Init /\ mem = Idle /\ PwdIdle
  \/ Pwd!Init /\ mem = Idle /\ KillIdle
  \/ (Id!Init \/ Line!Init \/ Echo!Init \/ Date!Init \/ Stty!Init) /\ KillIdle /\ PwdIdle

KillStep == prog = "kill" /\ Kill!Next /\ UNCHANGED <<mem, pwdVars>>
PwdStep == prog = "pwd" /\ Pwd!Next /\ UNCHANGED <<mem, killVars>>
OtherStep ==
  /\ \/ prog = "id" /\ Id!Next
     \/ prog \in {"basename", "dirname", "tty", "logname", "uname"} /\ Line!Next
     \/ prog = "echo" /\ Echo!Next
     \/ prog \in {"date", "sleep"} /\ Date!Next
     \/ prog = "stty" /\ Stty!Next
  /\ UNCHANGED <<killVars, pwdVars>>

Next == KillStep \/ PwdStep \/ OtherStep

Spec == Init /\ [][Next]_vars
-----------------------------------------------------------------------------
(***************************************************************************)
(* What is true of the program that is run.                                *)
(***************************************************************************)

\* kill signals what it was asked to, each process once and with the signal of
\* whichever form the option had (kill.c:146-175).
SignalsAsAsked == Kill!SignalsAsAsked

\* Two requests on one command line of kill have no effect at all (kill.c:152).
ConflictSendsNothing == Kill!ConflictSendsNothing

\* kill -l lists the whole table (kill.c:79-88).
ListsAll == Kill!ListsAll

\* pwd writes a path that has led to the working directory, however directories
\* are renamed meanwhile (pwd.c:48-58).
PwdNamesCwd == Pwd!PwdNamesCwd

\* id lists the groups of its user, all of them, and no others (id.c:32-49).
IdListsGroups == Id!IdListsGroups

\* basename removes the suffix, and compares nothing else (basename.c:38-40).
BasenameStrips == Line!BasenameStrips

\* echo writes what its operands spell (echo.c:7-59).
EchoSpells == Echo!EchoSpells

\* date sets the clock to the year its operand names, or not at all, and sleep
\* sleeps as long as it was asked to (date.c:44-73, sleep.c:32-34).
TimeIsAsked == Date!DateIsAsked /\ Date!SleepsWhole

\* stty -a tells the settings of the terminal (stty.c:69-118, 233-236).
SttyTellsSettings == Stty!SttyTellsSettings

\* kill.c:10: the signal may be given as -signal_name or -signal_number.
DashSignalAccepted == Kill!DashSignalAccepted
=============================================================================
