--------------------------- MODULE CommandsProofs ---------------------------
(***************************************************************************)
(* Theorems about kill, pwd, date, sleep, basename, echo, id and stty in   *)
(* Commands, for all command lines, tables of signals, sizes of the array  *)
(* they are written from, paths and directories, renames of them, lengths  *)
(* of sleep, characters and lengths of a name, operands of echo, group     *)
(* databases and tables of terminal settings.                              *)
(***************************************************************************)
EXTENDS Commands, Recursion, SequenceTheorems, TLAPS

\* No program becomes another one.
LEMMA ProgStays ==
  ASSUME [Next]_vars
  PROVE  prog' = prog
<1>1. CASE KillStep
  BY <1>1 DEF KillStep, Kill!Next, Kill!given, Kill!Exit, Kill!Sees, Kill!Lists, Kill!NextPid,
    Kill!OptionS, Kill!OptionSFails, Kill!OptionL, Kill!MissingOptarg, Kill!MissingSignal,
    Kill!Usage, Kill!OptionsEnd, Kill!LongOption, Kill!NoLongOption, Kill!Conflict,
    Kill!CheckEnd, Kill!WriteSig, Kill!DumpSigs, Kill!DumpEnd, Kill!WriteFails, Kill!BadPid,
    Kill!Send, Kill!SendToSelf, Kill!Finish
<1>2. CASE PwdStep
  BY <1>2 DEF PwdStep, Pwd!Next, Pwd!Exit, Pwd!Usage, Pwd!Getcwd, Pwd!GetcwdFails, Pwd!StatCwd,
    Pwd!StatPWD, Pwd!Realpath, Pwd!Write, Pwd!WriteFails, Pwd!Other
<1>3. CASE prog = "id" /\ Id!Next
  BY <1>3 DEF Id!Next, Id!Exit, Id!Writes, Id!Usage, Id!GetEntry, Id!NoEntry, Id!NoGroup,
    Id!Undefined, Id!PrintUser, Id!PrintGroup, Id!PrintGroups, Id!DefaultPrint, Id!Scan,
    Id!ScanEnd, Id!GetgrentFails, Id!Write
<1>4. CASE Line!Next
  BY <1>4 DEF Line!Next, Line!Exit, Line!Puts, Line!Usage, Line!Basename, Line!Killed,
    Line!Dirname, Line!Tty, Line!Logname, Line!NoLogname, Line!Uname, Line!UnameFails,
    Line!Write, Line!WriteFails
<1>5. CASE prog = "echo" /\ Echo!Next
  BY <1>5 DEF Echo!Next, Echo!Puts, Echo!Exit, Echo!Separator, Echo!Text, Echo!Letter,
    Echo!Octal, Echo!Other, Echo!Stop, Echo!Undefined, Echo!Newline, Echo!WriteFails
<1>6. CASE Date!Next
  BY <1>6 DEF Date!Next, Date!Exit, Date!DateFails, Date!DateUsage, Date!WriteTime,
    Date!InvalidDate, Date!SetDate, Date!SetDateFails, Date!SleepUsage, Date!Sleep,
    Date!SleepEnd
<1>7. CASE prog = "stty" /\ Stty!Next
  BY <1>7 DEF Stty!Next, Stty!Exit, Stty!DumpSettings, Stty!DumpSpeed, Stty!Operands,
    Stty!Usage, Stty!Fails
<1>8. CASE UNCHANGED vars
  BY <1>8 DEF vars
<1> QED BY <1>1, <1>2, <1>3, <1>4, <1>5, <1>6, <1>7, <1>8 DEF Next, OtherStep

\* While a program runs, its own steps are the only ones.
LEMMA KillSteps ==
  ASSUME [Next]_vars, prog = "kill"
  PROVE  [Kill!Next]_(Kill!vars)
BY DEF Next, KillStep, PwdStep, OtherStep, vars, killVars, Kill!vars, Kill!given, Kill!effects,
  Kill!opts

LEMMA PwdSteps ==
  ASSUME [Next]_vars, prog = "pwd"
  PROVE  [Pwd!Next]_(Pwd!vars)
BY DEF Next, KillStep, PwdStep, OtherStep, vars, pwdVars, Pwd!vars, Pwd!world

LEMMA DateSteps ==
  ASSUME [Next]_vars, prog \in {"date", "sleep"}
  PROVE  [Date!Next]_(Date!vars)
BY DEF Next, KillStep, PwdStep, OtherStep, vars, Date!vars
-----------------------------------------------------------------------------
(***************************************************************************)
(* pwd.                                                                    *)
(***************************************************************************)
\* A directory has one path at most, and that of Here is remembered.
OnePath ==
  /\ where \in [Path -> Dir \union {None}] /\ target \in Path
  /\ \A x, y \in Path : where[x] = where[y] /\ where[x] # None => x = y
  /\ \A x \in Path : where[x] = Here => x \in named

\* What each call has found, and what still holds of it when nothing moved.
Found ==
  /\ given \in Path \union {Link, None}
  /\ pc # "exited" => status = "running"
  /\ pc \in {"stat", "compare", "realpath"} => given # None /\ cwd \in Path /\ cwd \in named
  /\ pc \in {"stat", "compare", "realpath", "write"} /\ ~raced => out \in named
  /\ status = "zero" /\ ~raced => out \in named
  /\ pc \in {"compare", "realpath"} /\ ~raced => cst # None /\ where[cwd] = cst
  /\ pc = "realpath" /\ ~raced => Pwd!stat(given) = cst

LEMMA FoundInit == Pwd!Init => OnePath /\ Found
<1> SUFFICES ASSUME Pwd!Init PROVE OnePath /\ Found
  OBVIOUS
<1>1. \A x, y \in Path : where[x] = where[y] /\ where[x] # None => x = y
  BY DEF Pwd!Init
<1>2. \A x \in Path : where[x] = Here => x \in named
  BY DEF Pwd!Init, Pwd!At
<1> QED BY <1>1, <1>2 DEF Pwd!Init, OnePath, Found

\* The other process moves directories, and leaves every one with one path.
LEMMA OtherMoves == OnePath /\ Pwd!Other => OnePath'
<1> SUFFICES ASSUME OnePath, Pwd!Other PROVE OnePath'
  OBVIOUS
<1>0. target' \in Path /\ where' \in [Path -> Dir \union {None}]
  BY DEF OnePath, Pwd!Other
<1>1. \A x, y \in Path : where'[x] = where'[y] /\ where'[x] # None => x = y
  <2>1. ASSUME NEW p \in Path, NEW q \in Path, where[p] # None, where[q] = None,
               where' = [where EXCEPT ![q] = where[p], ![p] = None]
        PROVE  \A x, y \in Path : where'[x] = where'[y] /\ where'[x] # None => x = y
    BY <2>1 DEF OnePath
  <2>2. ASSUME NEW p \in Path, NEW d \in Dir, where[p] = None, Pwd!At(where, d) = {},
               where' = [where EXCEPT ![p] = d]
        PROVE  \A x, y \in Path : where'[x] = where'[y] /\ where'[x] # None => x = y
    BY <2>2 DEF OnePath, Pwd!At
  <2>3. CASE UNCHANGED where
    BY <2>3 DEF OnePath
  <2> QED BY <2>1, <2>2, <2>3 DEF Pwd!Other
<1>2. \A x \in Path : where'[x] = Here => x \in named'
  BY DEF Pwd!Other, Pwd!At
<1> QED BY <1>0, <1>1, <1>2 DEF OnePath

LEMMA FoundNext == OnePath /\ Found /\ [Pwd!Next]_(Pwd!vars) => (OnePath /\ Found)'
<1> SUFFICES ASSUME OnePath, Found, [Pwd!Next]_(Pwd!vars) PROVE OnePath' /\ Found'
  OBVIOUS
<1>0. Link \notin Path /\ None \notin Path /\ Link # None
  BY CommandsAssumption DEF Pwd!PwdAssumption
<1>1. CASE Pwd!Other
  <2>1. OnePath'
    BY <1>1, OtherMoves
  <2>2. /\ named \subseteq named' /\ raced' = (raced \/ pc \in {"compare", "realpath"})
        /\ UNCHANGED <<given, cwd, cst, out, pc, status>>
    BY <1>1 DEF Pwd!Other
  <2> QED BY <2>1, <2>2 DEF Found
<1> USE DEF Pwd!world, Pwd!Exit
<1>2. CASE Pwd!Getcwd
  <2>1. PICK p \in Path : where[p] = Here /\ cwd' = p /\ out' = p
    BY <1>2 DEF Pwd!Getcwd, Pwd!At
  <2>2. p \in named
    BY <2>1 DEF OnePath
  <2> QED BY <1>2, <2>1, <2>2 DEF Pwd!Getcwd, Found, OnePath
<1>3. CASE Pwd!StatCwd
  BY <1>3 DEF Pwd!StatCwd, Found, OnePath
<1>4. CASE Pwd!StatPWD
  BY <1>4 DEF Pwd!StatPWD, Pwd!Same, Pwd!stat, Pwd!Real, Found, OnePath
<1>5. CASE Pwd!Realpath
  <2>1. ~raced => Pwd!Real(given) = cwd
    <3>1. Pwd!Real(given) \in Path
      BY <1>0, <1>5 DEF Pwd!Real, Pwd!Realpath, Found, OnePath
    <3> QED BY <1>5, <3>1 DEF Pwd!stat, Pwd!Realpath, Found, OnePath
  <2> QED BY <1>5, <2>1 DEF Pwd!Realpath, Found, OnePath
<1>6. CASE Pwd!Usage \/ Pwd!GetcwdFails \/ Pwd!Write \/ Pwd!WriteFails
  BY <1>6 DEF Pwd!Usage, Pwd!GetcwdFails, Pwd!Write, Pwd!WriteFails, Found, OnePath
<1>7. CASE UNCHANGED Pwd!vars
  BY <1>7 DEF Pwd!vars, Found, OnePath, Pwd!stat, Pwd!Real
<1> QED BY <1>1, <1>2, <1>3, <1>4, <1>5, <1>6, <1>7 DEF Pwd!Next

\* For any number of paths and renames, pwd writes a path that has led to its
\* directory, unless one fell between its stat() and realpath() (pwd.c:48-58).
THEOREM PwdTruthful == Spec => []PwdNamesCwd
<1> DEFINE Inv == prog = "pwd" => OnePath /\ Found
<1>1. Init => Inv
  BY FoundInit DEF Init, Kill!Init, Pwd!Init, Id!Init, Line!Init, Echo!Init, Date!Init, Stty!Init
<1>2. Inv /\ [Next]_vars => Inv'
  BY ProgStays, PwdSteps, FoundNext
<1>3. Inv => PwdNamesCwd
  BY DEF PwdNamesCwd, Pwd!PwdNamesCwd, Found
<1> QED BY <1>1, <1>2, <1>3, PTL DEF Spec
-----------------------------------------------------------------------------
(***************************************************************************)
(* kill.                                                                   *)
(***************************************************************************)
\* Nothing is done before the options are checked, nor with two that exclude
\* one another.
Once ==
  /\ flags \in [{"l", "s", "longs"} -> {0, 1}]
  /\ pc \in {"options", "long", "check"} \/ Kill!Exclusive => sent = <<>> /\ out = <<>>
  /\ pc \in {"dump", "name", "signal"} => ~Kill!Exclusive

LEMMA OnceNext == Once /\ [Kill!Next]_(Kill!vars) => Once'
<1> SUFFICES ASSUME Once, [Kill!Next]_(Kill!vars) PROVE Once'
  OBVIOUS
<1> USE DEF Once, Kill!given, Kill!effects, Kill!opts, Kill!Exit, Kill!Goto
<1>1. ASSUME NEW f \in {"l", "s", "longs"}, NEW n, Kill!Sees(f, n),
             pc \in {"options", "long", "check"}, pc' \in {"options", "long", "check"}
      PROVE  Once'
  BY <1>1 DEF Kill!Sees
<1>2. CASE Kill!OptionS \/ Kill!OptionL \/ Kill!MissingOptarg \/ Kill!LongOption
  BY <1>1, <1>2 DEF Kill!OptionS, Kill!OptionL, Kill!MissingOptarg, Kill!LongOption, Kill!Option
<1>3. CASE Kill!OptionSFails \/ Kill!Usage \/ Kill!Conflict \/ Kill!WriteFails
  BY <1>3 DEF Kill!OptionSFails, Kill!Usage, Kill!Conflict, Kill!WriteFails, Kill!Option,
    Kill!Exclusive
<1>4. CASE Kill!MissingSignal \/ Kill!OptionsEnd \/ Kill!NoLongOption
  BY <1>4 DEF Kill!MissingSignal, Kill!OptionsEnd, Kill!NoLongOption, Kill!Option,
    Kill!Exclusive
<1>5. CASE Kill!CheckEnd
  BY <1>5 DEF Kill!CheckEnd, Kill!Exclusive
<1>6. CASE Kill!WriteSig \/ Kill!DumpSigs \/ Kill!DumpEnd
  BY <1>6 DEF Kill!WriteSig, Kill!DumpSigs, Kill!DumpEnd, Kill!Lists, Kill!Exclusive
<1>7. ASSUME NEW r \in {0, 1}, Kill!BadPid \/ Kill!Send(r) PROVE Once'
  BY <1>7 DEF Kill!BadPid, Kill!Send, Kill!NextPid, Kill!Exclusive
<1>8. CASE Kill!SendToSelf \/ Kill!Finish
  BY <1>8 DEF Kill!SendToSelf, Kill!Finish, Kill!Exclusive
<1>9. CASE UNCHANGED Kill!vars
  BY <1>9 DEF Kill!vars, Kill!Exclusive
<1> QED
  BY <1>2, <1>3, <1>4, <1>5, <1>6, <1>7, <1>8, <1>9 DEF Kill!Next

LEMMA OnceInit == Kill!Init => Once
BY DEF Kill!Init, Once, Kill!Exclusive

\* With every command line, two of -l, -s and -signal have no effect
\* (kill.c:152).
THEOREM ConflictsHarmless == Spec => []ConflictSendsNothing
<1> DEFINE Inv == prog = "kill" => Once
<1>1. Init => Inv
  BY OnceInit DEF Init, Pwd!Init, Id!Init, Line!Init, Echo!Init, Date!Init, Stty!Init
<1>2. Inv /\ [Next]_vars => Inv'
  BY ProgStays, KillSteps, OnceNext
<1>3. Inv => ConflictSendsNothing
  <2> SUFFICES ASSUME Once, NEW f \in DOMAIN flags, NEW g \in DOMAIN flags,
                      f # g, flags[f] = 1, flags[g] = 1
               PROVE  sent = <<>> /\ out = <<>>
    BY DEF ConflictSendsNothing, Kill!ConflictSendsNothing
  <2>1. flags["l"] \in {0, 1} /\ flags["s"] \in {0, 1} /\ flags["longs"] \in {0, 1}
    BY DEF Once
  <2>2. Kill!Exclusive
    <3>1. f \in {"l", "s", "longs"} /\ g \in {"l", "s", "longs"}
      BY DEF Once
    <3> QED BY <2>1, <3>1 DEF Kill!Exclusive
  <2> QED BY <2>2 DEF Once
<1> QED BY <1>1, <1>2, <1>3, PTL DEF Spec
-----------------------------------------------------------------------------
\* kill -l: what is listed so far is the beginning of the table.
Beginning ==
  /\ out \in Seq(Nat) /\ Len(out) <= Len(Sigs)
  /\ \A k \in 1..Len(out) : out[k] = Sigs[k]

Listing ==
  given = <<[kind |-> "-l", n |-> 0]>> =>
    /\ pc = "options" => (optind = 1 \/ (optind = 2 /\ flags["l"] = 1)) /\ lopt = <<>>
    /\ pc \in {"long", "check"} => flags["l"] = 1 /\ lopt = <<>>
    /\ pc \notin {"options", "exited"} => optind = 2
    /\ pc # "name" /\ (pc # "exited" => status = "running")
    /\ pc = "dump" => Beginning
    /\ pc = "signal" \/ status = "zero" => out = Sigs

LEMMA BatchBegins ==
  ASSUME Beginning, Kill!DumpSigs
  PROVE  Beginning'
<1> DEFINE m == Len(out)
           e == Kill!BatchEnd(m)
           more == SubSeq(Sigs, m + 1, e)
<1>1. Sigs \in Seq(Nat) /\ m \in Nat /\ Len(Sigs) \in Nat /\ m < Len(Sigs)
  BY CommandsAssumption DEF Kill!KillAssumption, Beginning, Kill!DumpSigs
<1>2. e \in Nat /\ m <= e /\ e <= Len(Sigs)
  <2>1. Kill!Batch \in Nat
    BY CommandsAssumption DEF Kill!KillAssumption, Kill!Batch
  <2> QED BY <1>1, <2>1 DEF Kill!BatchEnd
<1>3. /\ more \in Seq(Nat) /\ Len(more) = e - m
      /\ \A k \in 1..(e - m) : more[k] = Sigs[m + k]
  <2> HIDE DEF m, e
  <2>1. \A k \in m+1..e : Sigs[k] \in Nat
    BY <1>1, <1>2
  <2>2. Len(more) = e - m
    BY <1>1, <1>2
  <2>3. \A k \in 1..(e - m) : more[k] = Sigs[m + k]
    BY <1>1, <1>2
  <2>4. more \in Seq(Nat)
    BY <1>1, <1>2, <2>1
  <2> QED BY <2>2, <2>3, <2>4
<1>4. out' = out \o more
  BY DEF Kill!DumpSigs, Kill!Lists, Kill!BatchFrom
<1>5. out \in Seq(Nat) /\ \A k \in 1..m : out[k] = Sigs[k]
  BY DEF Beginning
<1> HIDE DEF m, e, more
<1>6. out' \in Seq(Nat) /\ Len(out') = e
  BY <1>1, <1>2, <1>3, <1>4, <1>5 DEF m
<1>7. ASSUME NEW k \in 1..e PROVE out'[k] = Sigs[k]
  <2>1. CASE k <= m
    BY <1>1, <1>2, <1>3, <1>4, <1>5, <1>7, <2>1 DEF m
  <2>2. CASE k > m
    <3>1. k - m \in 1..(e - m) /\ out'[k] = more[k - m]
      BY <1>1, <1>2, <1>3, <1>4, <1>5, <1>7, <2>2 DEF m
    <3> QED BY <1>1, <1>2, <1>3, <1>7, <3>1
  <2> QED BY <1>1, <1>7, <2>1, <2>2
<1> QED BY <1>2, <1>6, <1>7 DEF Beginning

LEMMA ListingNext == Once /\ Listing /\ [Kill!Next]_(Kill!vars) => Listing'
<1> SUFFICES ASSUME Once, Listing, [Kill!Next]_(Kill!vars) PROVE Listing'
  OBVIOUS
<1>0. given' = given
  BY DEF Kill!Next, Kill!vars, Kill!given, Kill!Exit, Kill!Sees, Kill!Lists, Kill!NextPid,
    Kill!OptionS, Kill!OptionSFails, Kill!OptionL, Kill!MissingOptarg, Kill!MissingSignal,
    Kill!Usage, Kill!OptionsEnd, Kill!LongOption, Kill!NoLongOption, Kill!Conflict,
    Kill!CheckEnd, Kill!WriteSig, Kill!DumpSigs, Kill!DumpEnd, Kill!WriteFails, Kill!BadPid,
    Kill!Send, Kill!SendToSelf, Kill!Finish
<1> SUFFICES ASSUME given = <<[kind |-> "-l", n |-> 0]>> PROVE Listing'
  BY <1>0 DEF Listing
<1>a. Len(given) = 1 /\ given[1].kind = "-l"
  OBVIOUS
<1>b. Sigs \in Seq(Nat)
  BY CommandsAssumption DEF Kill!KillAssumption
<1> USE <1>0, <1>a DEF Listing, Kill!given, Kill!effects, Kill!opts, Kill!Exit, Kill!Goto,
      Kill!Option, Kill!More, Kill!Arg, Kill!Sees, Kill!HasOptarg
<1>1. CASE Kill!OptionS \/ Kill!OptionSFails \/ Kill!OptionL \/ Kill!MissingSignal \/ Kill!Usage
  BY <1>1 DEF Kill!OptionS, Kill!OptionSFails, Kill!OptionL, Kill!MissingSignal, Kill!Usage
<1>2. CASE Kill!MissingOptarg
  BY <1>2 DEF Kill!MissingOptarg, Once
<1>3. CASE Kill!OptionsEnd
  BY <1>3 DEF Kill!OptionsEnd
<1>4. CASE Kill!LongOption \/ Kill!NoLongOption
  BY <1>4 DEF Kill!LongOption, Kill!NoLongOption, Kill!IsLong
<1>5. CASE Kill!Conflict \/ Kill!WriteFails
  BY <1>5 DEF Kill!Conflict, Kill!WriteFails
<1>6. CASE Kill!CheckEnd
  <2>1. pc = "check" /\ pc' = "dump" /\ out = <<>> /\ UNCHANGED <<out, optind, status>>
    BY <1>6 DEF Kill!CheckEnd, Once
  <2>2. Beginning'
    BY <1>b, <2>1 DEF Beginning
  <2> QED BY <2>1, <2>2
<1>7. CASE Kill!DumpSigs
  <2>1. pc = "dump" /\ UNCHANGED <<pc, status, optind>>
    BY <1>7 DEF Kill!DumpSigs, Kill!Lists
  <2>2. Beginning'
    BY <1>7, <2>1, BatchBegins
  <2> QED BY <2>1, <2>2
<1>8. CASE Kill!DumpEnd
  <2>1. pc = "dump" /\ pc' = "signal" /\ UNCHANGED <<out, status, optind>> /\ Beginning
    BY <1>8 DEF Kill!DumpEnd
  <2>2. Len(out) = Len(Sigs)
    BY <1>8, <1>b DEF Beginning, Kill!DumpEnd
  <2>3. out = Sigs
    BY <1>b, <2>1, <2>2, SeqEqual DEF Beginning
  <2> QED BY <2>1, <2>3
<1>9. ASSUME NEW r \in {0, 1}, Kill!WriteSig \/ Kill!BadPid \/ Kill!Send(r) \/ Kill!SendToSelf
      PROVE  Listing'
  BY <1>9 DEF Kill!WriteSig, Kill!BadPid, Kill!Send, Kill!SendToSelf
<1>10. CASE Kill!Finish
  BY <1>10 DEF Kill!Finish
<1>11. CASE UNCHANGED Kill!vars
  BY <1>11 DEF Kill!vars, Beginning
<1> QED
  BY <1>1, <1>2, <1>3, <1>4, <1>5, <1>6, <1>7, <1>8, <1>9, <1>10, <1>11 DEF Kill!Next

\* Every table of signals is listed whole, once and in order, whatever the
\* size of the array its names are gathered in (kill.c:79-88).
THEOREM WholeTableListed == Spec => []ListsAll
<1> DEFINE Inv == prog = "kill" => Once /\ Listing
<1>1. Init => Inv
  BY OnceInit DEF Init, Kill!Init, Pwd!Init, Id!Init, Line!Init, Echo!Init, Date!Init,
    Stty!Init, Listing
<1>2. Inv /\ [Next]_vars => Inv'
  BY ProgStays, KillSteps, OnceNext, ListingNext
<1>3. Inv => ListsAll
  BY DEF ListsAll, Kill!ListsAll, Listing
<1> QED BY <1>1, <1>2, <1>3, PTL DEF Spec
-----------------------------------------------------------------------------
\* kill's commands whose meaning is beyond doubt: process IDs behind a signal.
Well ==
  /\ given \in Seq(Argument) /\ \A k \in 1..Len(given) : given[k].n \in Nat
  /\ Argument \subseteq [kind : Kill!Kind, n : Nat]

WithS == Len(given) >= 2 /\ given[1].kind = "-s" /\ Kill!PidsFrom = 3
Dashed == Kill!IsDash(1) /\ Kill!PidsFrom = 2
DashDash == Kill!IsDash(2) /\ given[1].kind = "--" /\ Kill!PidsFrom = 3
Plain == Kill!PidsFrom = 1

LEMMA TailNumbers ==
  ASSUME Well, NEW k \in 1..3, k <= Len(given) + 1
  PROVE  Kill!Numbers(Kill!From(k)) <=> \A j \in k..Len(given) : given[j].kind = "number"
<1> DEFINE t == Kill!From(k)
<1>1. Len(given) \in Nat /\ Len(t) = Len(given) - k + 1
  BY DEF Well, Kill!From
<1>2. \A i \in 1..Len(t) : t[i] = given[k + i - 1]
  BY <1>1 DEF Well, Kill!From
<1>3. ASSUME \A i \in 1..Len(t) : t[i].kind = "number", NEW j \in k..Len(given)
      PROVE  given[j].kind = "number"
  <2>1. j - k + 1 \in 1..Len(t) /\ k + (j - k + 1) - 1 = j
    BY <1>1
  <2> QED BY <1>2, <1>3, <2>1
<1>4. ASSUME \A j \in k..Len(given) : given[j].kind = "number", NEW i \in 1..Len(t)
      PROVE  t[i].kind = "number"
  <2>1. k + i - 1 \in k..Len(given)
    BY <1>1
  <2> QED BY <1>2, <1>4, <2>1
<1> QED BY <1>3, <1>4 DEF Kill!Numbers

LEMMA FourForms ==
  ASSUME Well, Kill!PidsFrom # 0
  PROVE  /\ Kill!PidsFrom \in 1..3 /\ Kill!PidsFrom <= Len(given) + 1
         /\ \A j \in Kill!PidsFrom..Len(given) : given[j].kind = "number"
         /\ WithS \/ Dashed \/ DashDash \/ Plain
<1>0. Len(given) \in Nat
  BY DEF Well
<1>1. CASE Len(given) >= 2 /\ given[1].kind = "-s" /\ given[2].kind = "name"
             /\ Kill!Numbers(Kill!From(3))
  <2>1. Kill!PidsFrom = 3
    BY <1>1 DEF Kill!PidsFrom
  <2> QED BY <1>0, <1>1, <2>1, TailNumbers DEF WithS
<1>2. CASE Kill!IsDash(1) /\ Kill!Numbers(Kill!From(2))
  <2>1. Kill!PidsFrom = 2 /\ Len(given) >= 1
    BY <1>2 DEF Kill!PidsFrom, Kill!IsDash
  <2> QED BY <1>0, <1>2, <2>1, TailNumbers DEF Dashed
<1>3. CASE /\ ~(Kill!IsDash(1) /\ Kill!Numbers(Kill!From(2)))
           /\ Kill!IsDash(2) /\ given[1].kind = "--" /\ Kill!Numbers(Kill!From(3))
  <2>1. Kill!PidsFrom = 3 /\ Len(given) >= 2
    BY <1>3 DEF Kill!PidsFrom, Kill!IsDash
  <2> QED BY <1>0, <1>3, <2>1, TailNumbers DEF DashDash
<1>4. CASE Kill!Numbers(given)
  <2>1. \A j \in 1..Len(given) : given[j].kind = "number"
    BY <1>4 DEF Kill!Numbers
  <2>2. ~Kill!IsDash(1) /\ ~Kill!IsDash(2) /\ ~(Len(given) >= 2 /\ given[1].kind = "-s")
    BY <1>0, <2>1 DEF Kill!IsDash
  <2>3. Kill!PidsFrom = 1
    BY <1>4, <2>2 DEF Kill!PidsFrom
  <2> QED BY <1>0, <2>1, <2>3 DEF Plain
<1> QED BY <1>1, <1>2, <1>3, <1>4 DEF Kill!PidsFrom

\* How far kill has come with such a command, and the signal it has by then.
Delivering ==
  /\ optind \in Nat \ {0} /\ flags["l"] = 0 /\ pc \notin {"dump", "name"}
  /\ Dashed => pc \in {"options", "exited"}
  /\ pc = "options" =>
       \/ optind = 1 /\ sigsend = TERM
       \/ WithS /\ optind = 3 /\ sigsend = given[2].n
  /\ pc = "long" =>
       \/ DashDash /\ optind = 2
       \/ (WithS \/ Plain) /\ optind = Kill!PidsFrom /\ sigsend = Kill!AskedSignal
  /\ pc = "check" => optind = Kill!PidsFrom /\ sigsend = Kill!AskedSignal
  /\ pc = "signal" =>
       /\ sigsend = Kill!AskedSignal /\ optind = Kill!PidsFrom + Len(sent)
       /\ optind <= Len(given) + 1

Delivered ==
  /\ sent \in Seq(Int \X Int) /\ Len(sent) <= Len(given) - Kill!PidsFrom + 1
  /\ pc \in {"options", "long", "check"} => sent = <<>>
  /\ \A j \in 1..Len(sent) :
       sent[j] = <<given[Kill!PidsFrom + j - 1].n, Kill!AskedSignal>>
  /\ pc # "exited" => status = "running"
  /\ status \in {"zero", "one"} => Len(sent) = Len(given) - Kill!PidsFrom + 1

Asking == Well /\ TERM \in Nat /\ (Kill!PidsFrom # 0 => Delivering /\ Delivered)

LEMMA AskingInit == Kill!Init => Asking
<1> SUFFICES ASSUME Kill!Init PROVE Asking
  OBVIOUS
<1>1. Argument \subseteq [kind : Kill!Kind, n : Nat] /\ MaxArgs \in Nat /\ TERM \in Nat
  BY CommandsAssumption DEF Kill!KillAssumption
<1>2. given \in Seq(Argument)
  <2>1. PICK k \in 0..MaxArgs : given \in [1..k -> Argument]
    BY DEF Kill!Init
  <2> QED BY <1>1, <2>1, SeqDef
<1>3. Well
  BY <1>1, <1>2 DEF Well
<1>4. ASSUME Kill!PidsFrom # 0 PROVE Delivering /\ Delivered
  <2>1. Kill!PidsFrom \in 1..3 /\ Kill!PidsFrom <= Len(given) + 1 /\ Len(given) \in Nat
    BY <1>3, <1>4, FourForms DEF Well
  <2> QED BY <2>1 DEF Kill!Init, Delivering, Delivered
<1> QED BY <1>1, <1>3, <1>4 DEF Asking

\* The steps before the process IDs.
LEMMA DeliveringOptions ==
  ASSUME Asking, Kill!PidsFrom # 0, given' = given, pc \in {"options", "long", "check"},
         Kill!Next, pc' # "exited"
  PROVE  Delivering'
<1>0. /\ Len(given) \in Nat /\ Kill!PidsFrom \in 1..3 /\ Kill!PidsFrom <= Len(given) + 1
      /\ \A j \in Kill!PidsFrom..Len(given) : given[j].kind = "number"
      /\ WithS \/ Dashed \/ DashDash \/ Plain
  BY FourForms DEF Asking, Well
<1>1. /\ Kill!PidsFrom' = Kill!PidsFrom /\ Kill!AskedSignal' = Kill!AskedSignal
      /\ WithS' = WithS /\ Dashed' = Dashed /\ DashDash' = DashDash /\ Plain' = Plain
  BY DEF Kill!PidsFrom, Kill!AskedSignal, Kill!From, Kill!IsDash, Kill!Numbers, Kill!Known,
    WithS, Dashed, DashDash, Plain
<1>2. Delivering /\ sent = <<>>
  BY DEF Asking, Delivered
<1>3. ASSUME optind <= Len(given), optind >= Kill!PidsFrom PROVE given[optind].kind = "number"
  BY <1>0, <1>2, <1>3 DEF Delivering
<1> USE <1>0, <1>1, <1>2 DEF Kill!given, Kill!effects, Kill!opts, Kill!Exit, Kill!Goto,
      Kill!Option, Kill!More, Kill!Arg, Kill!Sees, Kill!HasOptarg, Kill!Optarg
<1>4. CASE pc = "options"
  <2>1. (optind = 1 /\ sigsend = TERM) \/ (WithS /\ optind = 3 /\ sigsend = given[2].n)
    BY <1>4 DEF Delivering
  <2>2. CASE Kill!OptionS
    <3>1. optind = 1 /\ WithS
      BY <1>3, <2>1, <2>2 DEF Kill!OptionS, WithS, Dashed, DashDash, Plain, Kill!IsDash
    <3> QED BY <2>2, <3>1 DEF Kill!OptionS, Delivering, Dashed, WithS
  <2>3. CASE Kill!OptionL \/ Kill!MissingOptarg \/ Kill!MissingSignal
    BY <1>3, <2>1, <2>3 DEF Kill!OptionL, Kill!MissingOptarg, Kill!MissingSignal, WithS, Dashed,
      DashDash, Plain, Kill!IsDash
  <2>4. CASE Kill!OptionsEnd
    <3>1. ~Dashed
      BY <2>1, <2>4 DEF Kill!OptionsEnd, Dashed, WithS, Kill!IsDash
    <3>2. CASE WithS
      <4>1. optind = 3 /\ optind' = 3
        BY <1>3, <2>1, <2>4, <3>2 DEF Kill!OptionsEnd, WithS
      <4>2. Kill!AskedSignal = given[2].n
        BY <3>2 DEF WithS, Kill!AskedSignal
      <4> QED BY <2>1, <2>4, <3>1, <3>2, <4>1, <4>2 DEF Kill!OptionsEnd, Delivering, WithS
    <3>3. CASE DashDash
      <4>1. optind = 1 /\ optind' = 2
        BY <2>1, <2>4, <3>3 DEF Kill!OptionsEnd, WithS, DashDash, Kill!IsDash
      <4> QED BY <2>4, <3>1, <3>3, <4>1 DEF Kill!OptionsEnd, Delivering
    <3>4. CASE Plain
      <4>1. optind = 1 /\ optind' = 1 /\ sigsend = TERM
        BY <1>3, <2>1, <2>4, <3>4 DEF Kill!OptionsEnd, WithS, Plain
      <4>2. Kill!AskedSignal = TERM
        BY <3>4 DEF Plain, Kill!AskedSignal
      <4> QED BY <2>4, <3>1, <3>4, <4>1, <4>2 DEF Kill!OptionsEnd, Delivering, Plain
    <3> QED BY <3>1, <3>2, <3>3, <3>4
  <2> QED
    BY <1>4, <2>2, <2>3, <2>4 DEF Kill!Next, Kill!OptionSFails, Kill!Usage, Kill!LongOption,
      Kill!NoLongOption, Kill!Conflict, Kill!CheckEnd, Kill!WriteSig, Kill!DumpSigs,
      Kill!DumpEnd, Kill!WriteFails, Kill!BadPid, Kill!Send, Kill!SendToSelf, Kill!Finish
<1>5. CASE pc = "long"
  <2>1. CASE Kill!LongOption
    <3>1. DashDash /\ optind = 2
      BY <1>3, <1>5, <2>1 DEF Delivering, Kill!LongOption, Kill!IsLong
    <3>2. Kill!AskedSignal = given[2].n /\ optind' = 3
      BY <2>1, <3>1 DEF DashDash, Kill!AskedSignal, Kill!LongOption
    <3> QED BY <1>5, <2>1, <3>1, <3>2 DEF Kill!LongOption, Kill!LongSignal, Delivering, DashDash
  <2>2. CASE Kill!NoLongOption
    <3>1. ~(DashDash /\ optind = 2)
      BY <2>2 DEF DashDash, Kill!IsDash, Kill!NoLongOption, Kill!IsLong
    <3> QED BY <1>5, <2>2, <3>1 DEF Kill!NoLongOption, Delivering
  <2> QED
    BY <1>5, <2>1, <2>2 DEF Kill!Next, Kill!OptionS, Kill!OptionSFails, Kill!OptionL,
      Kill!MissingOptarg, Kill!MissingSignal, Kill!Usage, Kill!OptionsEnd, Kill!Conflict,
      Kill!CheckEnd, Kill!WriteSig, Kill!DumpSigs, Kill!DumpEnd, Kill!WriteFails, Kill!BadPid,
      Kill!Send, Kill!SendToSelf, Kill!Finish
<1>6. CASE pc = "check"
  <2>1. Kill!CheckEnd
    BY <1>6 DEF Kill!Next, Kill!OptionS, Kill!OptionSFails, Kill!OptionL, Kill!MissingOptarg,
      Kill!MissingSignal, Kill!Usage, Kill!OptionsEnd, Kill!LongOption, Kill!NoLongOption,
      Kill!Conflict, Kill!WriteSig, Kill!DumpSigs, Kill!DumpEnd, Kill!WriteFails, Kill!BadPid,
      Kill!Send, Kill!SendToSelf, Kill!Finish
  <2> QED BY <1>6, <2>1 DEF Kill!CheckEnd, Delivering
<1> QED BY <1>4, <1>5, <1>6

\* The steps that send.
LEMMA SendDelivers ==
  ASSUME Asking, Kill!PidsFrom # 0, given' = given, pc = "signal", optind <= Len(given),
         NEW s, s = <<Kill!Pid, sigsend>>, sent' = Append(sent, s)
  PROVE  /\ sent' \in Seq(Int \X Int) /\ Len(sent') = Len(sent) + 1
         /\ Len(sent') <= Len(given) - Kill!PidsFrom + 1
         /\ \A j \in 1..Len(sent') :
              sent'[j] = <<given[Kill!PidsFrom + j - 1].n, Kill!AskedSignal>>
<1>0. /\ Len(given) \in Nat /\ Kill!PidsFrom \in 1..3 /\ Len(sent) \in Nat
      /\ \A j \in Kill!PidsFrom..Len(given) : given[j].kind = "number"
      /\ WithS \/ Dashed \/ DashDash \/ Plain
  BY FourForms DEF Asking, Well, Delivered
<1>1. sigsend = Kill!AskedSignal /\ optind = Kill!PidsFrom + Len(sent)
  BY DEF Asking, Delivering
<1>2. Kill!Pid = given[optind].n /\ Kill!Pid \in Nat
  <2>1. optind \in 1..Len(given) /\ given[optind].kind = "number"
    BY <1>0, <1>1
  <2> QED BY <2>1 DEF Kill!Pid, Kill!Arg, Asking, Well
<1>3. Kill!AskedSignal \in Nat
  <2>1. CASE Plain
    BY <2>1 DEF Asking, Plain, Kill!AskedSignal
  <2>2. CASE WithS \/ Dashed \/ DashDash
    <3>1. Kill!PidsFrom - 1 \in 1..Len(given)
      BY <1>0, <2>2 DEF WithS, Dashed, DashDash, Kill!IsDash
    <3> QED BY <2>2, <3>1 DEF Asking, Well, Kill!AskedSignal, WithS, Dashed, DashDash
  <2> QED BY <1>0, <2>1, <2>2
<1>4. sent \in Seq(Int \X Int) /\ s \in Int \X Int
  BY <1>1, <1>2, <1>3 DEF Asking, Delivered
<1>5. sent' \in Seq(Int \X Int) /\ Len(sent') = Len(sent) + 1
  BY <1>4
<1>6. ASSUME NEW j \in 1..Len(sent')
      PROVE  sent'[j] = <<given[Kill!PidsFrom + j - 1].n, Kill!AskedSignal>>
  <2>1. CASE j = Len(sent) + 1
    BY <1>0, <1>1, <1>2, <1>4, <1>5, <2>1
  <2>2. CASE j # Len(sent) + 1
    <3>1. j \in 1..Len(sent)
      BY <1>0, <1>5, <1>6, <2>2
    <3>2. sent'[j] = sent[j]
      BY <1>4, <3>1
    <3>3. sent[j] = <<given[Kill!PidsFrom + j - 1].n, Kill!AskedSignal>>
      BY <3>1 DEF Asking, Delivered
    <3> QED BY <3>2, <3>3
  <2> QED BY <2>1, <2>2
<1>7. Len(sent') <= Len(given) - Kill!PidsFrom + 1
  <2>1. Len(sent') = Len(sent) + 1 /\ Kill!PidsFrom + Len(sent) <= Len(given)
    BY <1>1, <1>5
  <2> HIDE <1>5
  <2> QED BY <1>0, <2>1
<1> QED BY <1>5, <1>6, <1>7

LEMMA AskingNext == Asking /\ [Kill!Next]_(Kill!vars) => Asking'
<1> SUFFICES ASSUME Asking, [Kill!Next]_(Kill!vars) PROVE Asking'
  OBVIOUS
<1>0. given' = given
  BY DEF Kill!Next, Kill!vars, Kill!given, Kill!Exit, Kill!Sees, Kill!Lists, Kill!NextPid,
    Kill!OptionS, Kill!OptionSFails, Kill!OptionL, Kill!MissingOptarg, Kill!MissingSignal,
    Kill!Usage, Kill!OptionsEnd, Kill!LongOption, Kill!NoLongOption, Kill!Conflict,
    Kill!CheckEnd, Kill!WriteSig, Kill!DumpSigs, Kill!DumpEnd, Kill!WriteFails, Kill!BadPid,
    Kill!Send, Kill!SendToSelf, Kill!Finish
<1>1. /\ Kill!PidsFrom' = Kill!PidsFrom /\ Kill!AskedSignal' = Kill!AskedSignal
      /\ WithS' = WithS /\ Dashed' = Dashed /\ DashDash' = DashDash /\ Plain' = Plain
      /\ Well' = Well
  BY <1>0 DEF Kill!PidsFrom, Kill!AskedSignal, Kill!From, Kill!IsDash, Kill!Numbers,
    Kill!Known, WithS, Dashed, DashDash, Plain, Well
<1> SUFFICES ASSUME Kill!PidsFrom # 0 PROVE Delivering' /\ Delivered'
  BY <1>1 DEF Asking
<1>2. Delivering /\ Delivered
  BY DEF Asking
<1>3. /\ Len(given) \in Nat /\ Kill!PidsFrom \in 1..3 /\ Len(sent) \in Nat
      /\ Kill!PidsFrom <= Len(given) + 1
  BY <1>2, FourForms DEF Asking, Well, Delivered
<1>4. CASE UNCHANGED Kill!vars
  BY <1>0, <1>1, <1>2, <1>4 DEF Kill!vars, Kill!opts, Kill!effects, Delivering, Delivered
<1>5. CASE Kill!Next /\ pc \in {"options", "long", "check"}
  <2>1. sent' = sent /\ sent = <<>>
    BY <1>2, <1>5 DEF Delivered, Kill!Next, Kill!Exit, Kill!Sees, Kill!effects, Kill!Option,
      Kill!OptionS, Kill!OptionSFails, Kill!OptionL, Kill!MissingOptarg, Kill!MissingSignal,
      Kill!Usage, Kill!OptionsEnd, Kill!LongOption, Kill!NoLongOption, Kill!Conflict,
      Kill!CheckEnd, Kill!WriteSig, Kill!DumpSigs, Kill!DumpEnd, Kill!WriteFails,
      Kill!BadPid, Kill!Send, Kill!SendToSelf, Kill!Finish
  <2>2. CASE pc' = "exited"
    <3>1. status' \in {"error", "usage"} /\ optind' = optind /\ flags' = flags
      BY <1>5, <2>2 DEF Kill!Next, Kill!Exit, Kill!opts, Kill!Goto, Kill!Sees, Kill!effects, Kill!Option,
        Kill!OptionS, Kill!OptionSFails, Kill!OptionL, Kill!MissingOptarg, Kill!MissingSignal,
        Kill!Usage, Kill!OptionsEnd, Kill!LongOption, Kill!NoLongOption, Kill!Conflict,
        Kill!CheckEnd, Kill!WriteSig, Kill!DumpSigs, Kill!DumpEnd, Kill!WriteFails,
        Kill!BadPid, Kill!Send, Kill!SendToSelf, Kill!Finish
    <3> QED BY <1>0, <1>1, <1>2, <1>3, <2>1, <2>2, <3>1 DEF Delivering, Delivered
  <2>3. CASE pc' # "exited"
    <3>1. Delivering'
      BY <1>0, <1>5, <2>3, DeliveringOptions
    <3>2. status' = status
      BY <1>5, <2>3 DEF Kill!Next, Kill!Exit, Kill!Goto, Kill!Sees, Kill!Option,
        Kill!OptionS, Kill!OptionSFails, Kill!OptionL, Kill!MissingOptarg, Kill!MissingSignal,
        Kill!Usage, Kill!OptionsEnd, Kill!LongOption, Kill!NoLongOption, Kill!Conflict,
        Kill!CheckEnd, Kill!WriteSig, Kill!DumpSigs, Kill!DumpEnd, Kill!WriteFails,
        Kill!BadPid, Kill!Send, Kill!SendToSelf, Kill!Finish
    <3> QED BY <1>0, <1>1, <1>2, <1>3, <1>5, <2>1, <2>3, <3>1, <3>2 DEF Delivered
  <2> QED BY <2>2, <2>3
<1>6. CASE Kill!Next /\ pc \notin {"options", "long", "check"}
  <2>0. pc = "signal" /\ status = "running"
    BY <1>2, <1>6 DEF Delivering, Delivered, Kill!Next, Kill!Option, Kill!OptionS, Kill!OptionSFails,
      Kill!OptionL, Kill!MissingOptarg, Kill!MissingSignal, Kill!Usage, Kill!OptionsEnd,
      Kill!LongOption, Kill!NoLongOption, Kill!Conflict, Kill!CheckEnd, Kill!WriteSig,
      Kill!DumpSigs, Kill!DumpEnd, Kill!WriteFails, Kill!BadPid, Kill!Send, Kill!SendToSelf,
      Kill!Finish
  <2>1. (\E r \in {0, 1} : Kill!Send(r)) \/ Kill!BadPid \/ Kill!SendToSelf \/ Kill!Finish
    BY <1>6, <2>0 DEF Kill!Next, Kill!Option, Kill!OptionS, Kill!OptionSFails,
      Kill!OptionL, Kill!MissingOptarg, Kill!MissingSignal, Kill!Usage, Kill!OptionsEnd,
      Kill!LongOption, Kill!NoLongOption, Kill!Conflict, Kill!CheckEnd, Kill!WriteSig,
      Kill!DumpSigs, Kill!DumpEnd, Kill!WriteFails
  <2>2. optind \in Nat /\ optind = Kill!PidsFrom + Len(sent) /\ optind <= Len(given) + 1
        /\ flags["l"] = 0 /\ ~Dashed /\ sigsend = Kill!AskedSignal
    BY <1>2, <2>0 DEF Delivering
  <2>3. ASSUME NEW r \in {0, 1}, Kill!Send(r) PROVE Delivering' /\ Delivered'
    <3>1. /\ optind <= Len(given) /\ sent' = Append(sent, <<Kill!Pid, sigsend>>)
          /\ optind' = optind + 1 /\ UNCHANGED <<pc, status, flags, sigsend>>
      BY <2>3 DEF Kill!Send, Kill!More, Kill!NextPid
    <3>2. /\ sent' \in Seq(Int \X Int) /\ Len(sent') = Len(sent) + 1
          /\ Len(sent') <= Len(given) - Kill!PidsFrom + 1
          /\ \A j \in 1..Len(sent') :
               sent'[j] = <<given[Kill!PidsFrom + j - 1].n, Kill!AskedSignal>>
      BY <1>0, <2>0, <3>1, SendDelivers
    <3>3. Delivering'
      BY <1>0, <1>1, <1>3, <2>0, <2>2, <3>1, <3>2 DEF Delivering
    <3>4. Delivered'
      BY <1>0, <1>1, <2>0, <3>1, <3>2 DEF Delivered
    <3> QED BY <3>3, <3>4
  <2>4. CASE Kill!SendToSelf
    <3>1. optind <= Len(given) /\ sent' = Append(sent, <<Kill!Pid, sigsend>>)
          /\ pc' = "exited" /\ status' = "killed" /\ UNCHANGED <<optind, flags>>
      BY <2>4 DEF Kill!SendToSelf, Kill!More, Kill!Exit, Kill!opts
    <3>2. /\ sent' \in Seq(Int \X Int) /\ Len(sent') = Len(sent) + 1
          /\ Len(sent') <= Len(given) - Kill!PidsFrom + 1
          /\ \A j \in 1..Len(sent') :
               sent'[j] = <<given[Kill!PidsFrom + j - 1].n, Kill!AskedSignal>>
      BY <1>0, <2>0, <3>1, SendDelivers
    <3> QED BY <1>0, <1>1, <1>2, <3>1, <3>2 DEF Delivering, Delivered
  <2>5. CASE Kill!BadPid
    <3>1. optind \in Kill!PidsFrom..Len(given) /\ optind \in 1..Len(given)
      BY <1>3, <2>2, <2>5 DEF Kill!BadPid, Kill!More
    <3>2. given[optind].kind = "number" /\ given[optind].n \in Nat
      BY <3>1, FourForms DEF Asking, Well
    <3> QED BY <2>5, <3>2 DEF Kill!BadPid, Kill!Pid, Kill!Arg
  <2>6. CASE Kill!Finish
    <3>1. /\ ~(optind <= Len(given)) /\ pc' = "exited" /\ UNCHANGED <<optind, flags, sent>>
      BY <2>6 DEF Kill!Finish, Kill!More, Kill!Exit, Kill!opts, Kill!effects
    <3>2. Len(sent) = Len(given) - Kill!PidsFrom + 1
      BY <1>3, <2>2, <3>1
    <3> QED BY <1>0, <1>1, <1>2, <3>1, <3>2 DEF Delivering, Delivered
  <2> QED BY <2>1, <2>3, <2>4, <2>5, <2>6
<1> QED BY <1>4, <1>5, <1>6

\* On every command line of one of the four forms, kill sends the signal asked
\* for to each process once and in order, whichever fail (kill.c:146-175).
THEOREM AskedSignalsSent == Spec => []SignalsAsAsked
<1> DEFINE Inv == prog = "kill" => Asking
<1>1. Init => Inv
  BY AskingInit DEF Init, Pwd!Init, Id!Init, Line!Init, Echo!Init, Date!Init, Stty!Init
<1>2. Inv /\ [Next]_vars => Inv'
  BY ProgStays, KillSteps, AskingNext
<1>3. Inv => SignalsAsAsked
  <2> SUFFICES ASSUME Asking, Kill!PidsFrom # 0
               PROVE  /\ \A j \in 1..Len(sent) :
                           /\ Kill!PidsFrom + j - 1 <= Len(given)
                           /\ sent[j] = <<given[Kill!PidsFrom + j - 1].n, Kill!AskedSignal>>
                      /\ status \in {"zero", "one"} => Len(sent) = Len(given) - Kill!PidsFrom + 1
    BY DEF SignalsAsAsked, Kill!SignalsAsAsked
  <2>1. Delivered /\ Well
    BY DEF Asking
  <2>2. Kill!PidsFrom \in 1..3 /\ Len(given) \in Nat
    BY <2>1, FourForms DEF Well
  <2>3. Len(sent) \in Nat /\ Len(sent) <= Len(given) - Kill!PidsFrom + 1
    BY <2>1 DEF Delivered
  <2>4. ASSUME NEW j \in 1..Len(sent) PROVE Kill!PidsFrom + j - 1 <= Len(given)
    BY <2>2, <2>3
  <2>5. \A j \in 1..Len(sent) : sent[j] = <<given[Kill!PidsFrom + j - 1].n, Kill!AskedSignal>>
    BY <2>1 DEF Delivered
  <2>6. status \in {"zero", "one"} => Len(sent) = Len(given) - Kill!PidsFrom + 1
    BY <2>1 DEF Delivered
  <2> QED BY <2>4, <2>5, <2>6
<1> QED BY <1>1, <1>2, <1>3, PTL DEF Spec
-----------------------------------------------------------------------------
(***************************************************************************)
(* date and sleep.                                                         *)
(***************************************************************************)
LEMMA YearSpelt ==
  ASSUME NEW f \in Date!Dates, Date!WellFormed(f)
  PROVE  1900 + Date!Year(f) = Date!NamedYear(f)
<1>0. Pair \subseteq 0..99 /\ ThisYear \in Nat
  BY CommandsAssumption DEF Date!DateAssumption
<1> DEFINE D == Pair \union {Bad}
<1>1. PICK y \in {<<>>} \union {<<p>> : p \in D} \union (Pair \X D) : f = <<1, 1, 1, 1>> \o y
  <2>1. f # <<1, 1, 1>> /\ f # <<1, 1, 1, 1, 20, 20, 1>>
    BY DEF Date!WellFormed
  <2>2. f # <<1, Bad, 1, 1>>
    <3> SUFFICES ASSUME f = <<1, Bad, 1, 1>> PROVE FALSE
      OBVIOUS
    <3>1. f[2] = Bad /\ 2 \in DOMAIN f
      OBVIOUS
    <3> QED BY <3>1 DEF Date!WellFormed, Date!Range
  <2> QED BY <2>1, <2>2 DEF Date!Dates
<1>2. ASSUME NEW k \in DOMAIN f PROVE f[k] # Bad
  BY <1>2 DEF Date!WellFormed, Date!Range
<1>3. f \in Seq(D \union {1}) /\ y \in Seq(D \union {1}) /\ Len(y) \in {0, 1, 2}
  <2>1. y \in Seq(D \union {1}) /\ Len(y) \in {0, 1, 2}
    <3>1. ASSUME NEW p \in D PROVE <<p>> \in Seq(D \union {1}) /\ Len(<<p>>) = 1
      BY <3>1
    <3>2. ASSUME NEW p \in D, NEW q \in D
          PROVE  <<p, q>> \in Seq(D \union {1}) /\ Len(<<p, q>>) = 2
      BY <3>2
    <3>3. CASE y = <<>>
      BY <3>3
    <3>4. CASE y \in {<<p>> : p \in D}
      BY <3>1, <3>4
    <3>5. CASE y \in Pair \X D
      <4>1. y[1] \in D /\ y[2] \in D /\ y = <<y[1], y[2]>>
        BY <3>5
      <4> QED BY <3>2, <4>1
    <3> QED BY <1>1, <3>3, <3>4, <3>5
  <2>2. <<1, 1, 1, 1>> \in Seq(D \union {1})
    OBVIOUS
  <2> QED BY <1>1, <2>1, <2>2, ConcatProperties
<1>4. Len(f) = 4 + Len(y) /\ \A i \in 1..Len(y) : f[4 + i] = y[i]
  <2>1. <<1, 1, 1, 1>> \in Seq(D \union {1}) /\ Len(<<1, 1, 1, 1>>) = 4
    OBVIOUS
  <2> QED BY <1>1, <1>3, <2>1, ConcatProperties
<1> DEFINE z == SubSeq(f, 5, Len(f))
<1>5. Len(z) = Len(y) /\ \A i \in 1..Len(y) : z[i] = f[4 + i]
  BY <1>3, <1>4
<1>6. \A i \in 1..Len(y) : f[4 + i] \in 0..99
  <2> SUFFICES ASSUME NEW i \in 1..Len(y) PROVE f[4 + i] \in 0..99
    OBVIOUS
  <2>1. 4 + i \in DOMAIN f
    BY <1>3, <1>4
  <2>2. f[4 + i] \in D
    <3>1. y[i] \in D
      BY <1>1
    <3> QED BY <1>4, <3>1
  <2> QED BY <1>0, <1>2, <2>1, <2>2
<1> HIDE DEF z
<1>7. CASE Len(y) = 0
  <2>1. Date!Year(f) = ThisYear
    BY <1>4, <1>7 DEF Date!Year
  <2>2. Date!NamedYear(f) = 1900 + ThisYear
    BY <1>5, <1>7 DEF Date!NamedYear, z
  <2> QED BY <1>0, <2>1, <2>2
<1>8. CASE Len(y) = 1
  <2>1. f[5] \in 0..99 /\ z[1] = f[5] /\ Len(z) = 1 /\ Len(f) = 5
    BY <1>4, <1>5, <1>6, <1>8
  <2>2. Date!Year(f) = IF f[5] < 69 THEN f[5] + 100 ELSE f[5]
    BY <2>1 DEF Date!Year, Date!ShortYear
  <2>3. Date!NamedYear(f) = IF f[5] \in 69..99 THEN 1900 + f[5] ELSE 2000 + f[5]
    BY <2>1 DEF Date!NamedYear, z
  <2>4. PICK n \in 0..99 : n = f[5]
    BY <2>1
  <2>5. Date!Year(f) = IF n < 69 THEN n + 100 ELSE n
    BY <2>2, <2>4
  <2>6. Date!NamedYear(f) = IF n \in 69..99 THEN 1900 + n ELSE 2000 + n
    BY <2>3, <2>4
  <2>7. CASE n < 69
    BY <2>5, <2>6, <2>7
  <2>8. CASE ~(n < 69)
    BY <2>5, <2>6, <2>8
  <2> QED BY <2>7, <2>8
<1>9. CASE Len(y) = 2
  <2>1. /\ f[5] \in 0..99 /\ f[6] \in 0..99 /\ z[1] = f[5] /\ z[2] = f[6]
        /\ Len(z) = 2 /\ Len(f) = 6
    BY <1>4, <1>5, <1>6, <1>9
  <2>2. Date!Year(f) = (f[5] - 19) * 100 + f[6]
    BY <2>1 DEF Date!Year
  <2>3. Date!NamedYear(f) = 100 * f[5] + f[6]
    BY <2>1 DEF Date!NamedYear, z
  <2>4. PICK m \in 0..99, n \in 0..99 : m = f[5] /\ n = f[6]
    BY <2>1
  <2>5. Date!Year(f) = (m - 19) * 100 + n
    BY <2>2, <2>4
  <2>6. Date!NamedYear(f) = 100 * m + n
    BY <2>3, <2>4
  <2> QED BY <2>5, <2>6
<1> QED BY <1>3, <1>7, <1>8, <1>9

\* The clock is not set before date exits.
Unset ==
  prog = "date" =>
    /\ given.operand \in {<<>>, << <<"+">> >>} \union {<<d>> : d \in Date!Dates}
    /\ pc # "exited" => mem = <<>> /\ status = "running"
    /\ Date!DateIsAsked

\* What is left to sleep and what was slept is what was asked for.
Slept ==
  prog = "sleep" =>
    /\ mem.left \in Nat /\ mem.slept \in Nat /\ mem.left + mem.slept = given % UMod
    /\ pc # "exited" => status = "running"
    /\ Date!SleepsWhole

LEMMA DateInit == Date!Init => Unset /\ Slept
<1> SUFFICES ASSUME Date!Init PROVE Unset /\ Slept
  OBVIOUS
<1>1. Unset
  BY DEF Date!Init, Unset, Date!DateIsAsked
<1>2. Slept
  <2>1. Seconds \subseteq Nat /\ UMod \in Nat \ {0}
    BY CommandsAssumption DEF Date!DateAssumption
  <2>2. ASSUME NEW s \in Nat PROVE s % UMod \in Nat /\ (s % UMod) + 0 = s % UMod
    BY <2>1
  <2> SUFFICES ASSUME prog = "sleep" PROVE Slept
    BY DEF Slept
  <2>3. /\ given \in Nat /\ mem = [left |-> given % UMod, slept |-> 0]
        /\ status = "running"
    BY <2>1 DEF Date!Init
  <2> QED BY <2>2, <2>3 DEF Slept, Date!SleepsWhole
<1> QED BY <1>1, <1>2

LEMMA UnsetNext == Unset /\ [Date!Next]_(Date!vars) => Unset'
<1> SUFFICES ASSUME Unset, [Date!Next]_(Date!vars), prog = "date", prog' = prog, given' = given
             PROVE  Unset'
  BY DEF Unset, Date!Next, Date!vars, Date!Exit, Date!DateFails, Date!DateUsage,
    Date!WriteTime, Date!InvalidDate, Date!SetDate, Date!SetDateFails, Date!SleepUsage,
    Date!Sleep, Date!SleepEnd
<1> DEFINE U == /\ given.operand \in {<<>>, << <<"+">> >>} \union {<<d>> : d \in Date!Dates}
                /\ pc # "exited" => mem = <<>> /\ status = "running"
<1>u. U /\ Date!DateIsAsked
  BY DEF Unset
<1>a. ASSUME mem' = <<>>, status' # "zero" \/ ~Date!Sets PROVE Date!DateIsAsked'
  BY <1>a DEF Date!DateIsAsked, Date!Sets
<1>0. SUFFICES U' /\ Date!DateIsAsked'
  BY <1>0 DEF Unset
<1>1. CASE Date!DateFails \/ Date!InvalidDate \/ Date!SetDateFails
  <2>1. mem' = mem /\ pc # "exited" /\ pc' = "exited" /\ status' = "error"
    BY <1>1 DEF Date!DateFails, Date!InvalidDate, Date!SetDateFails, Date!Exit, Date!Running
  <2> QED BY <1>u, <1>a, <2>1
<1>2. CASE Date!DateUsage
  <2>1. mem' = mem /\ pc = "start" /\ status' = status
    BY <1>2 DEF Date!DateUsage
  <2> QED BY <1>u, <1>a, <2>1
<1>3. CASE Date!WriteTime
  <2>1. mem' = mem /\ pc # "exited" /\ pc' = "exited" /\ ~Date!Sets
    BY <1>3 DEF Date!WriteTime, Date!Running
  <2> QED BY <1>u, <1>a, <2>1
<1>5. CASE Date!SetDate
  <2>1. /\ pc' = "exited" /\ status' = "zero" /\ Len(mem') = 1 /\ mem' # <<>>
        /\ mem'[1].year = Date!Year(Date!Operand) /\ Date!WellFormed(Date!Operand) /\ Date!Sets
    BY <1>5 DEF Date!SetDate
  <2>2. Date!Operand \in Date!Dates
    BY <1>u, <2>1 DEF Date!Sets, Date!Operand
  <2>3. 1900 + mem'[1].year = Date!NamedYear(Date!Operand)
    BY <2>1, <2>2, YearSpelt
  <2>5. Date!Operand' = Date!Operand /\ Date!Sets' = Date!Sets
    BY DEF Date!Operand, Date!Sets
  <2>6. Date!DateIsAsked'
    BY <2>1, <2>3, <2>5 DEF Date!DateIsAsked
  <2> QED BY <1>u, <2>1, <2>6
<1>6. CASE Date!SleepUsage \/ Date!Sleep \/ Date!SleepEnd
  BY <1>6 DEF Date!SleepUsage, Date!Sleep, Date!SleepEnd, Date!Awake
<1>7. CASE UNCHANGED Date!vars
  <2>1. UNCHANGED <<prog, given, mem, out, pc, status>>
    BY <1>7 DEF Date!vars
  <2>2. Date!Operand' = Date!Operand /\ (Date!Sets <=> Date!Sets')
    BY DEF Date!Operand, Date!Sets
  <2>3. Date!DateIsAsked'
    BY <1>u, <2>1, <2>2 DEF Date!DateIsAsked
  <2> QED BY <1>u, <2>1, <2>3
<1> QED BY <1>1, <1>2, <1>3, <1>5, <1>6, <1>7 DEF Date!Next

LEMMA SleptNext == Slept /\ [Date!Next]_(Date!vars) => Slept'
<1> SUFFICES ASSUME Slept, [Date!Next]_(Date!vars), prog = "sleep", prog' = prog, given' = given
             PROVE  Slept'
  BY DEF Slept, Date!Next, Date!vars, Date!Exit, Date!DateFails, Date!DateUsage,
    Date!WriteTime, Date!InvalidDate, Date!SetDate, Date!SetDateFails, Date!SleepUsage,
    Date!Sleep, Date!SleepEnd
<1> USE DEF Slept, Date!SleepsWhole, Date!Exit
<1>1. CASE Date!Sleep
  <2>1. PICK r \in 0..mem.left : mem' = [left |-> r, slept |-> mem.slept + mem.left - r]
    BY <1>1 DEF Date!Sleep
  <2>2. mem'.left = r /\ mem'.slept = mem.slept + mem.left - r
    BY <2>1
  <2>3. pc' = "awake" /\ pc # "exited" /\ status' = status
    BY <1>1 DEF Date!Sleep, Date!Awake
  <2> QED BY <2>1, <2>2, <2>3
<1>2. CASE Date!SleepEnd
  BY <1>2 DEF Date!SleepEnd, Date!Awake
<1>3. CASE Date!SleepUsage
  BY <1>3 DEF Date!SleepUsage
<1>4. CASE UNCHANGED Date!vars
  BY <1>4 DEF Date!vars
<1> QED
  BY <1>1, <1>2, <1>3, <1>4 DEF Date!Next, Date!DateFails, Date!DateUsage, Date!WriteTime,
    Date!InvalidDate, Date!SetDate, Date!SetDateFails, Date!Running

\* date sets the clock to the year its operand spells or not at all, and sleep
\* sleeps the seconds asked for however often it is woken, for every length of
\* the sleep and every present year (date.c:44-73, sleep.c:32-34).
THEOREM TimesAsked == Spec => []TimeIsAsked
<1> DEFINE Inv == prog \in {"date", "sleep"} => Unset /\ Slept
<1>1. Init => Inv
  BY DateInit DEF Init, Kill!Init, Pwd!Init, Id!Init, Line!Init, Echo!Init, Stty!Init
<1>2. Inv /\ [Next]_vars => Inv'
  BY ProgStays, DateSteps, UnsetNext, SleptNext
<1>3. Inv => TimeIsAsked
  BY DEF TimeIsAsked, Date!DateIsAsked, Date!SleepsWhole, Unset, Slept
<1> QED BY <1>1, <1>2, <1>3, PTL DEF Spec
-----------------------------------------------------------------------------
(***************************************************************************)
(* basename.                                                               *)
(***************************************************************************)
\* Max(), of the numbers up to a bound.
LEMMA GreatestIsMax ==
  ASSUME NEW n \in Nat, NEW S \in SUBSET (0..n), S # {}
  PROVE  Line!Max(S) \in S /\ \A y \in S : Line!Max(S) >= y
BY Greatest DEF Line!Max

\* A suffix, without turning the sequences round.
LEMMA SuffixParts ==
  ASSUME NEW V, NEW s \in Seq(V), NEW t \in Seq(V)
  PROVE  Line!IsSuffix(s, t)
         <=> Len(s) <= Len(t) /\ SubSeq(t, Len(t) - Len(s) + 1, Len(t)) = s
<1> DEFINE r == Line!Reverse(s)
           q == Line!Reverse(t)
<1>1. r \in Seq(V) /\ Len(r) = Len(s) /\ q \in Seq(V) /\ Len(q) = Len(t)
  BY DEF Line!Reverse
<1>2. \A i \in 1..Len(s) : r[i] = s[Len(s) - i + 1]
  BY DEF Line!Reverse
<1>3. \A i \in 1..Len(t) : q[i] = t[Len(t) - i + 1]
  BY DEF Line!Reverse
<1>4. Line!IsSuffix(s, t) <=> Len(s) <= Len(t) /\ SubSeq(r, 1, Len(s)) = SubSeq(q, 1, Len(s))
  BY <1>1 DEF Line!IsSuffix, Line!IsPrefix
<1> HIDE DEF r, q
<1>5. SUFFICES ASSUME Len(s) <= Len(t)
      PROVE  SubSeq(r, 1, Len(s)) = SubSeq(q, 1, Len(s))
             <=> SubSeq(t, Len(t) - Len(s) + 1, Len(t)) = s
  BY <1>4
<1> DEFINE u == SubSeq(t, Len(t) - Len(s) + 1, Len(t))
<1>6. u \in Seq(V) /\ Len(u) = Len(s) /\ \A i \in 1..Len(s) : u[i] = t[Len(t) - Len(s) + i]
  BY <1>5
<1>7. SubSeq(r, 1, Len(s)) = r
  BY <1>1
<1> DEFINE v == SubSeq(q, 1, Len(s))
<1>8. v \in Seq(V) /\ Len(v) = Len(s) /\ \A i \in 1..Len(s) : v[i] = q[i]
  BY <1>1, <1>5
<1> HIDE DEF u, v
<1>9. ASSUME r = v PROVE u = s
  <2>1. ASSUME NEW i \in 1..Len(s) PROVE u[i] = s[i]
    <3>1. Len(s) - i + 1 \in 1..Len(s) /\ Len(s) - (Len(s) - i + 1) + 1 = i
      OBVIOUS
    <3>2. r[Len(s) - i + 1] = s[i]
      BY <1>2, <3>1
    <3>3. Len(s) - i + 1 \in 1..Len(t) /\ Len(t) - (Len(s) - i + 1) + 1 = Len(t) - Len(s) + i
      BY <1>5
    <3>4. q[Len(s) - i + 1] = t[Len(t) - Len(s) + i]
      BY <1>3, <3>3
    <3> QED BY <1>6, <1>8, <1>9, <3>1, <3>2, <3>4
  <2> QED BY <1>6, <2>1, SeqEqual
<1>10. ASSUME u = s PROVE r = v
  <2>1. ASSUME NEW i \in 1..Len(s) PROVE r[i] = v[i]
    <3>1. Len(s) - i + 1 \in 1..Len(s) /\ Len(t) - Len(s) + (Len(s) - i + 1) = Len(t) - i + 1
      OBVIOUS
    <3>2. s[Len(s) - i + 1] = t[Len(t) - i + 1]
      BY <1>6, <1>10, <3>1
    <3>3. i \in 1..Len(t)
      BY <1>5
    <3> QED BY <1>2, <1>3, <1>8, <3>2, <3>3
  <2> QED BY <1>1, <1>8, <2>1, SeqEqual
<1> QED BY <1>7, <1>9, <1>10 DEF u, v

\* The string in memory that ends with the first Nul.
LEMMA StringIs ==
  ASSUME NEW V, Nul \notin V, NEW t \in Seq(V), NEW m \in Seq(V \union {Nul}), NEW k \in 1..Len(m),
         k + Len(t) <= Len(m), m[k + Len(t)] = Nul, \A j \in 1..Len(t) : m[k + j - 1] = t[j]
  PROVE  Line!StringAt(m, k) = t
<1> DEFINE S == {j \in k..Len(m) : m[j] = Nul}
           e == k + Len(t)
<1>0. k \in Nat /\ Len(t) \in Nat /\ Len(m) \in Nat
  OBVIOUS
<1>1. e \in S
  BY <1>0
<1>2. ASSUME NEW j \in S PROVE e <= j
  <2>1. SUFFICES ASSUME j < e PROVE FALSE
    BY <1>0
  <2>2. j - k + 1 \in 1..Len(t) /\ k + (j - k + 1) - 1 = j
    BY <1>0, <2>1
  <2>3. m[j] = t[j - k + 1] /\ t[j - k + 1] \in V
    BY <2>2
  <2> QED BY <2>3
<1>3. ASSUME NEW x, x \in S, \A y \in S : x <= y PROVE x = e
  <2>1. x \in Int /\ e \in Int
    BY <1>0, <1>3
  <2>2. x <= e /\ e <= x
    BY <1>1, <1>2, <1>3
  <2> QED BY <2>1, <2>2
<1>4. Line!Min(S) = e
  <2> HIDE DEF S, e
  <2> QED BY <1>1, <1>2, <1>3 DEF Line!Min
<1>5. Line!StringAt(m, k) = SubSeq(m, k, e - 1)
  BY <1>4 DEF Line!StringAt
<1>6. \A i \in k..(e-1) : m[i] \in V \union {Nul}
  BY <1>0
<1> DEFINE u == SubSeq(m, k, e - 1)
<1>7. /\ u \in Seq(V \union {Nul}) /\ Len(u) = Len(t)
      /\ \A j \in 1..Len(t) : u[j] = m[k + j - 1]
  <2>1. k \in Int /\ e - 1 \in Int /\ (e - 1) - k + 1 = Len(t)
    BY <1>0
  <2> HIDE DEF e
  <2>2. /\ u \in Seq(V \union {Nul}) /\ Len(u) = IF k <= e - 1 THEN (e - 1) - k + 1 ELSE 0
        /\ \A j \in 1..((e - 1) - k + 1) : u[j] = m[k + j - 1]
    BY <1>6, <2>1, SubSeqProperties
  <2> QED BY <1>0, <2>1, <2>2
<1>8. t \in Seq(V \union {Nul})
  OBVIOUS
<1> HIDE DEF u, e, S
<1>9. \A j \in 1..Len(u) : u[j] = t[j]
  BY <1>7
<1>10. u = t
  BY <1>7, <1>8, <1>9, SeqEqual
<1> QED BY <1>5, <1>10 DEF u

\* What libgen makes of a name.
LEMMA NameParts ==
  ASSUME NEW s \in Seq(Char)
  PROVE  /\ Line!Prefix(s) \in Seq(Char)
         /\ Line!Base(s) \in Seq(Char \union {"."})
<1> DEFINE ks == {j \in 1..Len(s) : s[j] # Slash}
           c == Line!Cut(s)
           n == IF ks = {} THEN 0 ELSE Line!Max(ks)
<1>1. n \in 0..Len(s)
  <2>1. ks \in SUBSET (0..Len(s)) /\ Len(s) \in Nat /\ n = IF ks = {} THEN 0 ELSE Line!Max(ks)
    OBVIOUS
  <2> HIDE DEF ks, n
  <2>2. ks # {} => Line!Max(ks) \in ks
    BY <2>1, GreatestIsMax
  <2> QED BY <2>1, <2>2
<1>2. c = SubSeq(s, 1, n)
  BY DEF Line!Cut
<1> HIDE DEF n, c
<1>3. c \in Seq(Char) /\ Len(c) = n
  BY <1>1, <1>2
<1> DEFINE l == Line!Max(Line!Slashes(c) \union {0})
<1>4. l \in 0..n
  <2>1. Line!Slashes(c) \union {0} \in SUBSET (0..n) /\ Line!Slashes(c) \union {0} # {}
    BY <1>3 DEF Line!Slashes
  <2>2. n \in Nat
    BY <1>1
  <2>3. l \in Line!Slashes(c) \union {0}
    BY <2>1, <2>2, GreatestIsMax
  <2> QED BY <2>1, <2>3
<1> HIDE DEF l
<1>5. Line!Prefix(s) \in Seq(Char)
  <2>1. CASE Line!AllSlashes(s)
    BY <2>1 DEF Line!Prefix, Line!AllSlashes
  <2>2. CASE ~Line!AllSlashes(s)
    <3>1. Line!Prefix(s) = SubSeq(s, 1, l)
      BY <2>2 DEF Line!Prefix, l, c
    <3> QED BY <1>1, <1>4, <3>1
  <2> QED BY <2>1, <2>2
<1>6. Line!Base(s) \in Seq(Char \union {"."})
  <2>1. CASE s = <<>> \/ Line!AllSlashes(s)
    <3>1. <<Slash>> \in Seq(Char \union {"."}) /\ <<".">> \in Seq(Char \union {"."})
      BY CommandsAssumption DEF Line!LineAssumption
    <3> QED BY <2>1, <3>1 DEF Line!Base
  <2>2. CASE s # <<>> /\ ~Line!AllSlashes(s)
    <3> DEFINE p == Len(Line!Prefix(s))
    <3>1. Line!Base(s) = SubSeq(c, p + 1, Len(c)) /\ p \in Nat
      BY <1>5, <2>2 DEF Line!Base, c
    <3> HIDE DEF p
    <3> QED BY <1>1, <1>3, <3>1
  <2> QED BY <2>1, <2>2
<1> QED BY <1>5, <1>6

\* A sequence with a value written into it, or beside it.
LEMMA SeqWritten ==
  ASSUME NEW V, NEW m \in Seq(V), NEW e, NEW x \in V,
         NEW n, n = [m EXCEPT ![e] = x]
  PROVE  /\ n \in Seq(V) /\ Len(n) = Len(m)
         /\ \A j \in 1..Len(m) : n[j] = IF j = e THEN x ELSE m[j]
<1>1. CASE e \in 1..Len(m)
  <2>1. n \in Seq(V) /\ Len(n) = Len(m) /\ \A j \in 1..Len(m) : n[j] = IF j = e THEN x ELSE m[j]
    BY <1>1, ExceptSeq
  <2> QED BY <2>1
<1>2. CASE e \notin 1..Len(m)
  <2>0. m = [j \in 1..Len(m) |-> m[j]] /\ DOMAIN m = 1..Len(m)
    OBVIOUS
  <2>1. n = m
    BY <1>2, <2>0
  <2> QED BY <1>2, <2>1
<1> QED BY <1>1, <1>2

\* The string t is at the end of the memory m, at k.
Holds(m, k, t, V) ==
  /\ Nul \notin V /\ t \in Seq(V) /\ m \in Seq(V \union {Nul})
  /\ k \in 1..Len(m) /\ Len(m) = k + Len(t) /\ m[k + Len(t)] = Nul
  /\ \A j \in 1..Len(t) : m[k + j - 1] = t[j]

\* A name in memory, and a Nul written into it or before it.
LEMMA NamesInMemory ==
  ASSUME NEW V, NEW t, NEW f \in Seq(V), NEW m, NEW k, Holds(m, k, t, V),
         NEW e, e = k + Len(t) - Len(f)
  PROVE  Line!StringAt(IF Line!StringAt(m, e) = f THEN [m EXCEPT ![e] = Nul] ELSE m, k)
           = IF Line!IsSuffix(f, t) THEN SubSeq(t, 1, Len(t) - Len(f)) ELSE t
<1> DEFINE n == IF Line!StringAt(m, e) = f THEN [m EXCEPT ![e] = Nul] ELSE m
           c == Len(t) - Len(f)
           u == SubSeq(t, c + 1, Len(t))
           r == SubSeq(t, 1, c)
<1> /\ Nul \notin V /\ t \in Seq(V) /\ m \in Seq(V \union {Nul})
    /\ k \in 1..Len(m) /\ Len(m) = k + Len(t) /\ m[k + Len(t)] = Nul
    /\ \A j \in 1..Len(t) : m[k + j - 1] = t[j]
  BY DEF Holds
<1>0. k \in Nat /\ Len(t) \in Nat /\ Len(f) \in Nat /\ c = Len(t) - Len(f) /\ e = k + c
  OBVIOUS
<1>1. Line!IsSuffix(f, t) <=> Len(f) <= Len(t) /\ u = f
  BY SuffixParts
<1>2. Line!StringAt(m, k) = t
  <2>1. k + Len(t) <= Len(m)
    BY <1>0
  <2> QED BY <2>1, StringIs
<1>3. CASE Len(f) <= Len(t)
  <2>0. c \in 0..Len(t)
    BY <1>0, <1>3
  <2>1. /\ u \in Seq(V) /\ Len(u) = Len(t) - c
        /\ \A j \in 1..(Len(t) - c) : u[j] = t[c + j]
    BY <2>0
  <2>2. r \in Seq(V) /\ Len(r) = c /\ \A j \in 1..c : r[j] = t[j]
    BY <2>0
  <2> HIDE DEF n, c, u, r
  <2>3. Line!StringAt(m, e) = u
    <3>1. e \in 1..Len(m) /\ e + Len(u) = k + Len(t)
      BY <1>0, <2>0, <2>1
    <3>2. ASSUME NEW j \in 1..Len(u) PROVE m[e + j - 1] = u[j]
      <4>1. c + j \in 1..Len(t) /\ k + (c + j) - 1 = e + j - 1 /\ j \in 1..(Len(t) - c)
        BY <1>0, <2>0, <2>1
      <4> QED BY <2>1, <4>1
    <3>3. m[e + Len(u)] = Nul /\ e + Len(u) <= Len(m)
      BY <3>1
    <3> QED BY <2>1, <3>1, <3>2, <3>3, StringIs
  <2>4. CASE u = f
    <3>0. Nul \in V \union {Nul}
      OBVIOUS
    <3>1. n = [m EXCEPT ![e] = Nul]
      BY <2>3, <2>4 DEF n
    <3>2. /\ n \in Seq(V \union {Nul}) /\ Len(n) = Len(m)
          /\ \A j \in 1..Len(m) : n[j] = IF j = e THEN Nul ELSE m[j]
      <4>1. n \in Seq(V \union {Nul})
        <5>1. PICK W : W = V \union {Nul}
          OBVIOUS
        <5>2. m \in Seq(W) /\ Nul \in W
          BY <5>1
        <5>3. n \in Seq(W)
          BY <3>1, <5>2, SeqWritten
        <5> QED BY <5>1, <5>3
      <4>2. Len(n) = Len(m)
        BY <3>0, <3>1, SeqWritten
      <4>3. \A j \in 1..Len(m) : n[j] = IF j = e THEN Nul ELSE m[j]
        BY <3>0, <3>1, SeqWritten
      <4> QED BY <4>1, <4>2, <4>3
    <3>3. k \in 1..Len(n) /\ k + Len(r) <= Len(n) /\ n[k + Len(r)] = Nul
      <4>1. e \in 1..Len(m) /\ k + Len(r) = e
        BY <1>0, <2>0, <2>2
      <4> QED BY <3>2, <4>1
    <3>4. ASSUME NEW j \in 1..Len(r) PROVE n[k + j - 1] = r[j]
      <4>1. j \in 1..c /\ j \in 1..Len(t) /\ k + j - 1 \in 1..Len(m) /\ k + j - 1 # e
        BY <1>0, <2>0, <2>2
      <4> QED BY <2>2, <3>2, <4>1
    <3>5. Line!StringAt(n, k) = r
      BY <2>2, <3>2, <3>3, <3>4, StringIs
    <3> QED BY <1>1, <1>3, <2>4, <3>5 DEF n, r, c
  <2>5. CASE u # f
    <3>1. n = m
      BY <2>3, <2>5 DEF n
    <3> QED BY <1>1, <1>2, <2>5, <3>1 DEF n
  <2> QED BY <2>4, <2>5
<1>4. CASE ~(Len(f) <= Len(t))
  <2> HIDE DEF n, u, r
  <2>1. e < k
    BY <1>0, <1>4
  <2>2. /\ n \in Seq(V \union {Nul}) /\ Len(n) = Len(m)
        /\ \A j \in 1..Len(m) : j # e => n[j] = m[j]
    <3>0. Nul \in V \union {Nul}
      OBVIOUS
    <3>1. CASE n = m
      BY <3>1
    <3>2. CASE n = [m EXCEPT ![e] = Nul]
      <4>1. n \in Seq(V \union {Nul})
        <5>1. PICK W : W = V \union {Nul}
          OBVIOUS
        <5>2. m \in Seq(W) /\ Nul \in W
          BY <5>1
        <5>3. n \in Seq(W)
          BY <3>2, <5>2, SeqWritten
        <5> QED BY <5>1, <5>3
      <4>2. Len(n) = Len(m)
        BY <3>0, <3>2, SeqWritten
      <4>3. \A j \in 1..Len(m) : n[j] = IF j = e THEN Nul ELSE m[j]
        BY <3>0, <3>2, SeqWritten
      <4> QED BY <4>1, <4>2, <4>3
    <3> QED BY <3>1, <3>2 DEF n
  <2>3. k \in 1..Len(n) /\ k + Len(t) <= Len(n) /\ n[k + Len(t)] = Nul
    <3>1. k + Len(t) \in 1..Len(m) /\ k + Len(t) # e
      BY <1>0, <2>1
    <3> QED BY <2>2, <3>1
  <2>4. ASSUME NEW j \in 1..Len(t) PROVE n[k + j - 1] = t[j]
    <3>1. k + j - 1 \in 1..Len(m) /\ k + j - 1 # e
      BY <1>0, <2>1
    <3> QED BY <2>2, <3>1
  <2>5. Line!StringAt(n, k) = t
    BY <2>2, <2>3, <2>4, StringIs
  <2> QED BY <1>1, <1>4, <2>5 DEF n
<1> QED BY <1>3, <1>4

\* What basename writes of an operand.
Stripped ==
  LET base == Line!Base(given.string) IN
  IF Line!IsSuffix(given.suffix, base)
  THEN SubSeq(base, 1, Len(base) - Len(given.suffix)) ELSE base

Named ==
  /\ given \in [operand : BOOLEAN, string : Line!Name, suffix : Line!Name, before : Before]
  /\ pc # "exited" => status = "running"
  /\ pc = "write" \/ status = "zero" => out = Stripped

LEMMA BasenameWrites ==
  ASSUME given \in [operand : BOOLEAN, string : Line!Name, suffix : Line!Name, before : Before],
         Line!Basename
  PROVE  out' = Stripped
<1> DEFINE s == given.string
           f == given.suffix
           b == given.before
           p == Line!Prefix(s)
           t == Line!Base(s)
           V == Char \union {"."}
           W == V \union {Nul}
           m == b \o p \o t \o <<Nul>>
           k == Len(b) + Len(p) + 1
<1>0. Nul \notin V /\ \A x \in Before : x \in Seq(Char \union {Nul})
  BY CommandsAssumption DEF Line!LineAssumption
<1>1. s \in Seq(Char) /\ f \in Seq(V) /\ b \in Seq(W)
  <2>1. MaxName \in Nat
    BY CommandsAssumption DEF Line!LineAssumption
  <2>2. \A x \in Line!Name : x \in Seq(Char)
    BY <2>1 DEF Line!Name
  <2>3. s \in Line!Name /\ f \in Line!Name /\ b \in Before
    OBVIOUS
  <2>4. s \in Seq(Char) /\ f \in Seq(Char) /\ b \in Seq(Char \union {Nul})
    BY <1>0, <2>2, <2>3
  <2> HIDE DEF s, f, b
  <2> QED BY <2>4
<1>2. p \in Seq(Char) /\ t \in Seq(V)
  BY <1>1, NameParts
<1>3. Line!Memory = m /\ Line!PathAt = k /\ Line!SuffixAt = k + Len(t) - Len(f)
  BY DEF Line!Memory, Line!PathAt, Line!SuffixAt
<1>4. /\ out' = Line!StringAt(IF Line!StringAt(m, Line!SuffixAt) = f
                              THEN [m EXCEPT ![Line!SuffixAt] = Nul] ELSE m, k)
      /\ Stripped = IF Line!IsSuffix(f, t) THEN SubSeq(t, 1, Len(t) - Len(f)) ELSE t
  BY <1>3 DEF Line!Basename, Line!Ends, Line!Puts, Stripped
<1> HIDE DEF s, f, b, p, t, V
<1>5. b \in Seq(W) /\ p \in Seq(W) /\ t \in Seq(W) /\ <<Nul>> \in Seq(W)
  BY <1>0, <1>1, <1>2 DEF V
<1>6. /\ m \in Seq(W) /\ Len(m) = k + Len(t) /\ k \in 1..Len(m) /\ m[k + Len(t)] = Nul
      /\ \A j \in 1..Len(t) : m[k + j - 1] = t[j]
  BY <1>5
<1> HIDE DEF m, k
<1>7. PICK e : e = Line!SuffixAt
  OBVIOUS
<1>8. e = k + Len(t) - Len(f)
  BY <1>3, <1>7
<1>10. Holds(m, k, t, V)
  BY <1>0, <1>2, <1>6 DEF Holds
<1>9. Line!StringAt(IF Line!StringAt(m, e) = f THEN [m EXCEPT ![e] = Nul] ELSE m, k)
        = IF Line!IsSuffix(f, t) THEN SubSeq(t, 1, Len(t) - Len(f)) ELSE t
  BY <1>1, <1>8, <1>10, NamesInMemory
<1> QED BY <1>4, <1>7, <1>9

LEMMA NamedNext == Named /\ [prog = "basename" /\ Line!Next]_(Line!vars) => Named'
<1> SUFFICES ASSUME Named, [prog = "basename" /\ Line!Next]_(Line!vars) PROVE Named'
  OBVIOUS
<1> USE DEF Named, Stripped
<1>1. CASE Line!Basename
  <2>1. out' = Stripped
    BY <1>1, BasenameWrites
  <2>2. pc' = "write" /\ UNCHANGED <<given, status>> /\ status = "running"
    BY <1>1 DEF Line!Basename, Line!Puts
  <2> QED BY <2>1, <2>2
<1>2. CASE prog = "basename" /\ (Line!Usage \/ Line!Killed \/ Line!Write \/ Line!WriteFails)
  BY <1>2 DEF Line!Usage, Line!Killed, Line!Write, Line!WriteFails, Line!Exit
<1>3. CASE UNCHANGED Line!vars
  BY <1>3 DEF Line!vars
<1> QED
  BY <1>1, <1>2, <1>3 DEF Line!Next, Line!Dirname, Line!Tty, Line!Logname, Line!NoLogname,
    Line!Uname, Line!UnameFails

LEMMA LineSteps ==
  ASSUME [Next]_vars, prog = "basename"
  PROVE  [prog = "basename" /\ Line!Next]_(Line!vars)
BY DEF Next, KillStep, PwdStep, OtherStep, vars, Line!vars

\* basename removes the suffix where the name ends with it and changes nothing
\* else, however long the suffix and whatever is in memory before the operand
\* (basename.c:38-40); nothing is said of a suffix equal to the whole name, nor
\* of no operand.
THEOREM SuffixesStripped == Spec => []BasenameStrips
<1> DEFINE Inv == prog = "basename" => Named
<1>0. <<>> \in Line!Name
  <2>1. 0 \in 0..MaxName /\ <<>> \in [1..0 -> Char]
    BY CommandsAssumption DEF Line!LineAssumption
  <2> QED BY <2>1 DEF Line!Name
<1>1. Init => Inv
  BY <1>0 DEF Init, Named, Kill!Init, Pwd!Init, Id!Init, Line!Init, Echo!Init, Date!Init, Stty!Init
<1>2. Inv /\ [Next]_vars => Inv'
  BY ProgStays, LineSteps, NamedNext
<1>3. Inv => BasenameStrips
  BY DEF Named, Stripped, BasenameStrips, Line!BasenameStrips
<1> QED BY <1>1, <1>2, <1>3, PTL DEF Spec
-----------------------------------------------------------------------------
(***************************************************************************)
(* echo.                                                                   *)
(***************************************************************************)
\* A sequence of sequences and what it is put together.
Concat(n, V, q) == CHOOSE F :
  Follows(F, n, Seq(V), <<>>, [k \in 1..n |-> [x \in Seq(V) |-> x \o q[k]]])

LEMMA Concatenates ==
  ASSUME NEW n \in Nat, NEW V, NEW q \in [1..n -> Seq(V)]
  PROVE  /\ Concat(n, V, q) \in [0..n -> Seq(V)] /\ Concat(n, V, q)[0] = <<>>
         /\ \A k \in 1..n : Concat(n, V, q)[k] = Concat(n, V, q)[k-1] \o q[k]
<1> DEFINE E == [k \in 1..n |-> [x \in Seq(V) |-> x \o q[k]]]
           F == Concat(n, V, q)
<1>1. E \in Steps(n, Seq(V)) /\ <<>> \in Seq(V)
  <2>1. \A k \in 1..n : [x \in Seq(V) |-> x \o q[k]] \in [Seq(V) -> Seq(V)]
    <3>1. ASSUME NEW k \in 1..n, NEW x \in Seq(V) PROVE x \o q[k] \in Seq(V)
      OBVIOUS
    <3> QED BY <3>1
  <2> QED BY <2>1 DEF Steps
<1>2. Follows(F, n, Seq(V), <<>>, E)
  <2>1. F = CHOOSE G : Follows(G, n, Seq(V), <<>>, E)
    BY DEF Concat
  <2> HIDE DEF F, E
  <2>2. \E G : Follows(G, n, Seq(V), <<>>, E)
    BY <1>1, RecursionExists
  <2> QED BY <2>1, <2>2
<1>3. F \in [0..n -> Seq(V)] /\ F[0] = <<>> /\ \A k \in 1..n : F[k] = E[k][F[k-1]]
  BY <1>2 DEF Follows
<1>4. ASSUME NEW k \in 1..n PROVE F[k] = F[k-1] \o q[k]
  <2>1. k - 1 \in 0..n
    OBVIOUS
  <2> HIDE DEF F
  <2>2. F[k-1] \in Seq(V)
    BY <1>3, <2>1
  <2>3. E[k][F[k-1]] = F[k-1] \o q[k]
    BY <2>2
  <2> QED BY <1>3, <2>3
<1> QED BY <1>3, <1>4

\* FlattenSeq() of the first n of them.
LEMMA Flattens ==
  ASSUME NEW n \in Nat, NEW V, NEW q \in [1..n -> Seq(V)], NEW l \in 0..n
  PROVE  Echo!FlattenSeq([k \in 1..l |-> q[k]]) = Concat(n, V, q)[l]
<1> DEFINE p == [k \in 1..l |-> q[k]]
           F == Concat(n, V, q)
<1>0. F \in [0..n -> Seq(V)] /\ F[0] = <<>> /\ \A k \in 1..n : F[k] = F[k-1] \o q[k]
  BY Concatenates
<1> HIDE DEF F
<1>1. p \in Seq(Seq(V)) /\ Len(p) = l /\ \A k \in 1..l : p[k] = q[k]
  OBVIOUS
<1> HIDE DEF p
<1>2. CASE l = 0
  <2>1. p = <<>>
    BY <1>1, <1>2
  <2>2. Echo!FlattenSeq(p) = p
    BY <1>1, <1>2 DEF Echo!FlattenSeq
  <2> QED BY <1>0, <1>2, <2>1, <2>2 DEF p, F
<1>3. CASE l > 0
  <2> DEFINE flatten[i \in 1..Len(p)] == IF i = 1 THEN p[i] ELSE flatten[i-1] \o p[i]
             D(g) == g = [i \in 1..l |-> IF i = 1 THEN p[i] ELSE g[i-1] \o p[i]]
  <2>1. Echo!FlattenSeq(p) = flatten[l]
    BY <1>1, <1>3 DEF Echo!FlattenSeq
  <2>2. flatten = CHOOSE g : D(g)
    BY <1>1
  <2>3. D([i \in 1..l |-> F[i]])
    <3> DEFINE g == [i \in 1..l |-> F[i]]
    <3>1. ASSUME NEW i \in 1..l
          PROVE  F[i] = IF i = 1 THEN p[i] ELSE g[i-1] \o p[i]
      <4>1. CASE i = 1
        <5>1. F[1] = F[0] \o q[1] /\ q[1] \in Seq(V) /\ p[1] = q[1]
          <6>1. 1 \in 1..n /\ 1 - 1 = 0 /\ 1 \in 1..l
            BY <1>3
          <6> QED BY <1>0, <1>1, <6>1
        <5>2. F[1] = q[1]
          BY <1>0, <5>1
        <5> QED BY <4>1, <5>1, <5>2
      <4>2. CASE i # 1
        <5>1. i \in 1..n /\ i - 1 \in 1..l
          BY <4>2
        <5> QED BY <1>0, <1>1, <4>2, <5>1
      <4> QED BY <4>1, <4>2
    <3> QED BY <3>1
  <2> HIDE DEF flatten
  <2>4. PICK g : flatten = g /\ D(g)
    <3> HIDE DEF D
    <3> QED BY <2>2, <2>3
  <2>5. \A i \in 1..l : g[i] = IF i = 1 THEN p[i] ELSE g[i-1] \o p[i]
    BY <2>4
  <2> DEFINE S == {i \in 0..l : i > 0 => g[i] = F[i]}
  <2>6. 0 \in S
    OBVIOUS
  <2>7. ASSUME NEW i \in 0..(l-1), i \in S PROVE i + 1 \in S
    <3>1. i + 1 \in 1..l /\ i + 1 \in 1..n /\ (i + 1) - 1 = i
      OBVIOUS
    <3>2. F[i+1] = F[i] \o q[i+1] /\ p[i+1] = q[i+1]
      BY <1>0, <1>1, <3>1
    <3>3. CASE i = 0
      <4>1. g[1] = p[1]
        BY <1>3, <2>5
      <4>2. F[1] = q[1]
        <5>1. F[1] = F[0] \o q[1] /\ q[1] \in Seq(V)
          BY <3>1, <3>2, <3>3
        <5> QED BY <1>0, <5>1
      <4> QED BY <3>1, <3>2, <3>3, <4>1, <4>2
    <3>4. CASE i > 0
      <4>1. PICK j \in 1..l : j = i + 1
        BY <3>1
      <4>2. j # 1 /\ j - 1 = i
        BY <3>4, <4>1
      <4>3. g[j] = g[i] \o p[j]
        BY <2>5, <4>2
      <4>4. g[i] = F[i]
        BY <2>7, <3>4
      <4>5. g[i+1] = F[i+1]
        BY <3>2, <4>1, <4>3, <4>4
      <4> QED BY <3>1, <4>5
    <3> QED BY <3>3, <3>4
  <2>8. 0..l \subseteq S
    <3>1. l \in Nat
      OBVIOUS
    <3> HIDE DEF S
    <3> QED BY <2>6, <2>7, <3>1, UpToInduction
  <2>9. g[l] = F[l]
    BY <1>3, <2>8
  <2> QED BY <2>1, <2>4, <2>9 DEF p, F
<1> QED BY <1>2, <1>3

Written == {"x", "\n", "byte", "\\", "q"}
Spelling == [k \in 1..Len(given) |->
               IF given[k] \in {"c", "00"} THEN <<>> ELSE Echo!Spelt(given[k], <<>>)]
Spelled == Concat(Len(given), Written, Spelling)

LEMMA SpeltSeq ==
  ASSUME given \in Seq(Echo!Token)
  PROVE  /\ Len(given) \in Nat /\ Spelling \in [1..Len(given) -> Seq(Written)]
         /\ Spelled \in [0..Len(given) -> Seq(Written)] /\ Spelled[0] = <<>>
         /\ \A k \in 1..Len(given) : Spelled[k] = Spelled[k-1] \o Spelling[k]
<1> DEFINE Plainly == {"sep", "x", "n", "0", "q", "end"}
<1>1. \A t \in Plainly : Echo!Spelt(t, <<>>) \in Seq(Written)
  <2>1. /\ <<"x">> \in Seq(Written) /\ <<"\n">> \in Seq(Written) /\ <<"byte">> \in Seq(Written)
        /\ <<"\\", "q">> \in Seq(Written) /\ <<"\\">> \in Seq(Written) /\ <<>> \in Seq(Written)
    BY DEF Written
  <2>2. /\ Echo!Spelt("x", <<>>) = <<"x">> /\ Echo!Spelt("n", <<>>) = <<"\n">>
        /\ Echo!Spelt("0", <<>>) = <<"byte">> /\ Echo!Spelt("q", <<>>) = <<"\\", "q">>
        /\ Echo!Spelt("end", <<>>) = <<"\\">> /\ Echo!Spelt("sep", <<>>) = <<>>
    BY DEF Echo!Spelt
  <2> QED BY <2>1, <2>2
<1>2. \A k \in 1..Len(given) : Spelling[k] \in Seq(Written)
  <2>1. \A t \in Echo!Token : t \in {"c", "00"} \/ t \in Plainly
    BY DEF Echo!Token
  <2>2. <<>> \in Seq(Written)
    OBVIOUS
  <2> HIDE DEF Plainly
  <2>3. ASSUME NEW k \in 1..Len(given) PROVE Spelling[k] \in Seq(Written)
    <3>1. PICK t \in Echo!Token : t = given[k]
      OBVIOUS
    <3>2. Spelling[k] = IF t \in {"c", "00"} THEN <<>> ELSE Echo!Spelt(t, <<>>)
      BY <3>1 DEF Spelling
    <3> QED BY <1>1, <2>1, <2>2, <3>2
  <2> QED BY <2>3
<1>3. Len(given) \in Nat /\ Spelling \in [1..Len(given) -> Seq(Written)]
  BY <1>2 DEF Spelling
<1> QED BY <1>3, Concatenates DEF Spelled

\* A prefix stays one of what is written behind it.
LEMMA PrefixStays ==
  ASSUME NEW V, NEW s \in Seq(V), NEW t \in Seq(V), NEW w \in Seq(V), Echo!IsPrefix(s, t)
  PROVE  Echo!IsPrefix(s, t \o w)
<1>. PICK o : o = t \o w
  OBVIOUS
<1>1. /\ o \in Seq(V) /\ Len(o) = Len(t) + Len(w) /\ Len(s) \in Nat /\ Len(w) \in Nat
      /\ Len(t) \in Nat /\ \A i \in 1..Len(t) : o[i] = t[i]
  OBVIOUS
<1>2. Len(s) <= Len(t) /\ SubSeq(s, 1, Len(s)) = SubSeq(t, 1, Len(s))
  BY DEF Echo!IsPrefix
<1>3. SubSeq(t, 1, Len(s)) = SubSeq(o, 1, Len(s))
  BY <1>1, <1>2
<1> QED BY <1>1, <1>2, <1>3 DEF Echo!IsPrefix

LEMMA PrefixSelf ==
  ASSUME NEW V, NEW s \in Seq(V)
  PROVE  Echo!IsPrefix(s, s)
BY DEF Echo!IsPrefix

\* The first k tokens of g are as Sure(k) wants them.
Clear(g, k) ==
  /\ \A j \in 1..k : g[j] \notin {"c", "00"}
  /\ \A i, j \in 1..k : ~(g[i] = "0" /\ g[j] \in {"q", "end"})

LEMMA SureIsClear == \A k \in Int : Echo!Sure(k) <=> Clear(given, k)
BY DEF Echo!Sure, Clear

\* oth[] is changed by the escapes that were there and out is what they spell,
\* and then what it may be.
EchoTyped ==
  /\ given \in Seq(Echo!Token) /\ mem.done \in 0..Len(given)
  /\ \A k \in 1..mem.done : given[k] # "c"

OthTold ==
  /\ mem.oth \in {"\\", "byte", "Nul"} \X {"Nul", "q"}
  /\ mem.oth[1] = "byte" => \E k \in 1..mem.done : given[k] = "0"
  /\ mem.oth[1] = "Nul" => \E k \in 1..mem.done : given[k] = "00"
  /\ mem.oth[2] = "q" => \E k \in 1..mem.done : given[k] = "q"

OutSpelt ==
  /\ out \in Seq(Written)
  /\ pc = "run" => status = "running"
  /\ pc = "run" /\ Clear(given, mem.done) => out = Spelled[mem.done]
  /\ pc = "run" =>
       \A k \in 0..mem.done : Clear(given, k) => Echo!IsPrefix(Spelled[k], out)
  /\ status = "zero" =>
       \A k \in 0..Len(given) : Clear(given, k) =>
         /\ Echo!IsPrefix(Spelled[k], out)
         /\ k = Len(given) => out = Append(Spelled[k], "\n")
         /\ k < Len(given) /\ given[k+1] = "c" => out = Spelled[k]

Echoed == EchoTyped /\ OthTold /\ OutSpelt

LEMMA EchoInit == Echo!Init => Echoed
<1> SUFFICES ASSUME Echo!Init PROVE Echoed
  OBVIOUS
<1>1. MaxTokens \in Nat
  BY CommandsAssumption DEF Echo!EchoAssumption
<1>2. PICK n \in 0..MaxTokens : given \in [1..n -> Echo!Token]
  BY DEF Echo!Init
<1>3. given \in Seq(Echo!Token)
  BY <1>1, <1>2
<1>4. Spelled[0] = <<>> /\ Len(given) \in Nat
  BY <1>3, SpeltSeq
<1>5. mem.done = 0 /\ mem.oth = <<"\\", "Nul">> /\ out = <<>> /\ pc = "run" /\ status = "running"
  BY DEF Echo!Init
<1>6. EchoTyped
  BY <1>3, <1>4, <1>5 DEF EchoTyped
<1>7. OthTold
  BY <1>5 DEF OthTold
<1>8. OutSpelt
  <2>1. <<>> \in Seq(Written) /\ Echo!IsPrefix(<<>>, <<>>)
    <3>1. <<>> \in Seq(Written)
      OBVIOUS
    <3> QED BY <3>1, PrefixSelf
  <2>2. \A k \in 0..mem.done : k = 0
    BY <1>5
  <2> QED BY <1>4, <1>5, <2>1, <2>2 DEF OutSpelt
<1> QED BY <1>6, <1>7, <1>8 DEF Echoed

\* One token is written as it spells, where oth[] leaves no doubt.
LEMMA TokenWritten ==
  ASSUME Echoed, Echo!More, NEW w \in Seq(Written), NEW oth, Echo!Puts(w, oth),
         NEW t, t = Echo!Next1, t # "c",
         Clear(given, mem.done + 1) => w = Echo!Spelt(t, <<>>),
         oth \in {"\\", "byte", "Nul"} \X {"Nul", "q"},
         oth[1] = "byte" => mem.oth[1] = "byte" \/ t = "0",
         oth[1] = "Nul" => mem.oth[1] = "Nul" \/ t = "00",
         oth[2] = "q" => mem.oth[2] = "q" \/ t = "q"
  PROVE  Echoed'
<1>0. PICK d : d = mem.done
  OBVIOUS
<1>1. /\ given \in Seq(Echo!Token) /\ d \in 0..Len(given) /\ \A k \in 1..d : given[k] # "c"
      /\ out \in Seq(Written)
  BY <1>0 DEF Echoed, EchoTyped, OutSpelt
<1>2. d < Len(given) /\ t = given[d+1] /\ pc = "run" /\ status = "running"
  BY <1>0 DEF Echo!More, Echo!Next1, Echoed, OutSpelt
<1>3. d \in Nat /\ d + 1 \in 1..Len(given) /\ d + 1 \in 0..Len(given) /\ (d + 1) - 1 = d
  <2>1. Len(given) \in Nat
    BY <1>1
  <2> QED BY <1>1, <1>2, <2>1
<1>4. /\ mem'.done = d + 1 /\ mem'.oth = oth /\ given' = given /\ out' = out \o w
      /\ pc' = pc /\ status' = status
  BY <1>0 DEF Echo!Puts
<1>6. Spelled' = Spelled
  BY <1>4 DEF Spelled, Spelling
<1>7. \A k \in 1..(d+1) : k \in 1..d \/ k = d + 1
  BY <1>3
<1>8. Clear(given, d + 1) => out' = Spelled[d+1]
  <2> SUFFICES ASSUME Clear(given, d + 1) PROVE out' = Spelled[d+1]
    OBVIOUS
  <2>1. Spelled[d+1] = Spelled[(d+1)-1] \o Spelling[d+1]
    BY <1>1, <1>3, SpeltSeq
  <2>0. \A k \in 1..d : k \in 1..(d+1)
    BY <1>3
  <2>4. t \notin {"c", "00"}
    <3>1. d + 1 \in 1..(d+1)
      BY <1>3
    <3> QED BY <1>2, <3>1 DEF Clear
  <2>2. Spelling[d+1] = Echo!Spelt(t, <<>>)
    BY <1>2, <1>3, <2>4 DEF Spelling
  <2>3. out = Spelled[d]
    <3>1. Clear(given, d)
      BY <2>0 DEF Clear
    <3> QED BY <1>0, <1>2, <3>1 DEF Echoed, OutSpelt
  <2> QED BY <1>0, <1>3, <1>4, <2>1, <2>2, <2>3
<1>9. EchoTyped'
  <2>1. \A k \in 1..(d+1) : given[k] # "c"
    BY <1>1, <1>2, <1>7
  <2> QED BY <1>1, <1>3, <1>4, <2>1 DEF EchoTyped
<1>10. OthTold'
  <2>1. /\ mem.oth[1] = "byte" => \E k \in 1..d : given[k] = "0"
        /\ mem.oth[1] = "Nul" => \E k \in 1..d : given[k] = "00"
        /\ mem.oth[2] = "q" => \E k \in 1..d : given[k] = "q"
    BY <1>0 DEF Echoed, OthTold
  <2>2. \A k \in 1..d : k \in 1..(d+1)
    BY <1>3
  <2>3. d + 1 \in 1..(d+1)
    BY <1>3
  <2>4. /\ oth[1] = "byte" => \E k \in 1..(d+1) : given[k] = "0"
        /\ oth[1] = "Nul" => \E k \in 1..(d+1) : given[k] = "00"
        /\ oth[2] = "q" => \E k \in 1..(d+1) : given[k] = "q"
    BY <1>2, <2>1, <2>2, <2>3
  <2> QED BY <1>4, <2>4 DEF OthTold
<1>11. out' \in Seq(Written)
  BY <1>1, <1>4
<1>12. ASSUME NEW k \in 0..(d+1), Clear(given, k) PROVE Echo!IsPrefix(Spelled[k], out')
  <2>1. CASE k = d + 1
    BY <1>8, <1>11, <1>12, <2>1, PrefixSelf
  <2>2. CASE k # d + 1
    <3>1. k \in 0..d /\ k \in 0..Len(given)
      BY <1>1, <1>3, <2>2
    <3>2. Echo!IsPrefix(Spelled[k], out)
      BY <1>0, <1>2, <1>12, <3>1 DEF Echoed, OutSpelt
    <3>3. Spelled[k] \in Seq(Written)
      BY <1>1, <3>1, SpeltSeq
    <3> QED BY <1>1, <1>4, <3>2, <3>3, PrefixStays
  <2> QED BY <2>1, <2>2
<1>13. OutSpelt'
  BY <1>2, <1>4, <1>6, <1>8, <1>11, <1>12 DEF OutSpelt
<1> QED BY <1>9, <1>10, <1>13 DEF Echoed

LEMMA EchoedNext == Echoed /\ [Echo!Next]_(Echo!vars) => Echoed'
<1> SUFFICES ASSUME Echoed, [Echo!Next]_(Echo!vars) PROVE Echoed'
  OBVIOUS
<1>. PICK d, t : d = mem.done /\ t = Echo!Next1
  OBVIOUS
<1>0. /\ d \in 0..Len(given) /\ given \in Seq(Echo!Token) /\ \A k \in 1..d : given[k] # "c"
      /\ d \in Nat /\ Len(given) \in Nat /\ out \in Seq(Written)
  BY DEF Echoed, EchoTyped, OutSpelt
<1>1. PICK x \in {"\\", "byte", "Nul"}, y \in {"Nul", "q"} : mem.oth = <<x, y>>
  BY DEF Echoed, OthTold
\* Where the next token is clear as well, the others have left oth[] so.
<1>2. ASSUME Clear(given, d + 1)
      PROVE  /\ x # "Nul"
             /\ x = "byte" => t \notin {"q", "end"}
             /\ y = "q" => t # "0"
             /\ t # "00"
  <2>0. d + 1 \in 1..(d+1) /\ t = given[d+1] /\ \A k \in 1..d : k \in 1..(d+1)
    BY <1>0 DEF Echo!Next1
  <2>1. /\ x = "byte" => \E k \in 1..(d+1) : given[k] = "0"
        /\ x = "Nul" => \E k \in 1..(d+1) : given[k] = "00"
        /\ y = "q" => \E k \in 1..(d+1) : given[k] = "q"
    BY <1>1, <2>0 DEF Echoed, OthTold
  <2> QED BY <1>2, <2>0, <2>1 DEF Clear
<1>3. CASE Echo!Text
  <2>1. Echo!More /\ t = "x" /\ Echo!Puts(<<"x">>, mem.oth)
    BY <1>3 DEF Echo!Text
  <2>2. Echo!Spelt("x", <<>>) = <<"x">> /\ <<"x">> \in Seq(Written)
    BY DEF Echo!Spelt, Written
  <2>3. PICK w, oth : w = <<"x">> /\ oth = mem.oth
    OBVIOUS
  <2>4. /\ Echo!More /\ t = "x" /\ Echo!Puts(w, oth) /\ oth = mem.oth
        /\ w = Echo!Spelt(t, <<>>) /\ w \in Seq(Written)
    BY <2>1, <2>2, <2>3
  <2>5. oth \in {"\\", "byte", "Nul"} \X {"Nul", "q"}
    BY <1>1, <2>3
  <2> QED BY <2>4, <2>5, TokenWritten
<1>4. CASE Echo!Letter
  <2>1. Echo!More /\ t = "n" /\ Echo!Puts(<<"\n">>, mem.oth)
    BY <1>4 DEF Echo!Letter
  <2>2. Echo!Spelt("n", <<>>) = <<"\n">> /\ <<"\n">> \in Seq(Written)
    BY DEF Echo!Spelt, Written
  <2>3. PICK w, oth : w = <<"\n">> /\ oth = mem.oth
    OBVIOUS
  <2>4. /\ Echo!More /\ t = "n" /\ Echo!Puts(w, oth) /\ oth = mem.oth
        /\ w = Echo!Spelt(t, <<>>) /\ w \in Seq(Written)
    BY <2>1, <2>2, <2>3
  <2>5. oth \in {"\\", "byte", "Nul"} \X {"Nul", "q"}
    BY <1>1, <2>3
  <2> QED BY <2>4, <2>5, TokenWritten
<1>11. CASE Echo!Separator
  <2>1. Echo!More /\ t = "sep" /\ Echo!Puts(<<>>, mem.oth)
    BY <1>11 DEF Echo!Separator
  <2>2. Echo!Spelt("sep", <<>>) = <<>> /\ <<>> \in Seq(Written)
    BY DEF Echo!Spelt
  <2>3. PICK w, oth : w = <<>> /\ oth = mem.oth
    OBVIOUS
  <2>4. /\ Echo!More /\ t = "sep" /\ Echo!Puts(w, oth) /\ oth = mem.oth
        /\ w = Echo!Spelt(t, <<>>) /\ w \in Seq(Written)
    BY <2>1, <2>2, <2>3
  <2>5. oth \in {"\\", "byte", "Nul"} \X {"Nul", "q"}
    BY <1>1, <2>3
  <2> QED BY <2>4, <2>5, TokenWritten
<1>5. CASE Echo!Octal
  <2>1. PICK byte \in {"byte", "Nul"}, second \in {"Nul", y} :
          /\ Echo!More /\ t \in {"0", "00"} /\ byte = (IF t = "0" THEN "byte" ELSE "Nul")
          /\ Echo!Puts(Echo!Str(<<byte, second>>), <<byte, second>>)
    BY <1>1, <1>5 DEF Echo!Octal
  <2>3. PICK oth : oth = <<byte, second>>
    OBVIOUS
  <2>2. Clear(given, d + 1) => Echo!Str(oth) = Echo!Spelt(t, <<>>)
    <3>1. Clear(given, d + 1) => second = "Nul" /\ t = "0"
      BY <1>2, <2>1
    <3>2. Echo!Str(<<"byte", "Nul">>) = <<"byte">> /\ Echo!Spelt("0", <<>>) = <<"byte">>
      BY DEF Echo!Str, Echo!Spelt
    <3> QED BY <2>1, <2>3, <3>1, <3>2
  <2>4. /\ oth \in {"\\", "byte", "Nul"} \X {"Nul", "q"}
        /\ oth[1] = "byte" => t = "0"
        /\ oth[1] = "Nul" => t = "00"
        /\ oth[2] = "q" => mem.oth[2] = "q"
    BY <1>1, <2>1, <2>3
  <2>5. PICK w : w = Echo!Str(oth)
    OBVIOUS
  <2>6. w \in Seq(Written)
    <3>1. oth[1] \in {"byte", "Nul"} /\ oth[2] \in {"Nul", "q"} /\ oth = <<oth[1], oth[2]>>
      BY <2>1, <2>3
    <3>2. w \in {<<>>, <<"byte">>, <<"byte", "q">>}
      BY <2>5, <3>1 DEF Echo!Str
    <3>3. <<"byte">> \in Seq(Written) /\ <<"byte", "q">> \in Seq(Written) /\ <<>> \in Seq(Written)
      BY DEF Written
    <3> QED BY <3>2, <3>3
  <2>7. t # "c" /\ Echo!Puts(w, oth) /\ Echo!More
    BY <2>1, <2>3, <2>5
  <2> QED BY <2>2, <2>4, <2>5, <2>6, <2>7, TokenWritten
<1>6. CASE Echo!Other
  <2>1. PICK oth : oth = <<x, Echo!OtherChar(t)>>
    OBVIOUS
  <2>2. Echo!More /\ t \in {"q", "end"} /\ Echo!Puts(Echo!Str(oth), oth)
    BY <1>1, <1>6, <2>1 DEF Echo!Other
  <2>3. Clear(given, d + 1) => Echo!Str(oth) = Echo!Spelt(t, <<>>)
    <3>1. Clear(given, d + 1) => x = "\\"
      BY <1>2, <2>2
    <3> QED BY <2>1, <2>2, <3>1 DEF Echo!Str, Echo!Spelt, Echo!OtherChar
  <2>4. /\ oth \in {"\\", "byte", "Nul"} \X {"Nul", "q"}
        /\ oth[1] = mem.oth[1]
        /\ oth[2] = "q" => t = "q"
    BY <1>1, <2>1, <2>2 DEF Echo!OtherChar
  <2>5. PICK w : w = Echo!Str(oth)
    OBVIOUS
  <2>6. w \in Seq(Written)
    <3>1. oth[2] \in {"Nul", "q"} /\ oth = <<x, oth[2]>>
      BY <2>1 DEF Echo!OtherChar
    <3>2. w \in {<<>>, <<"byte">>, <<"byte", "q">>, <<"\\">>, <<"\\", "q">>}
      BY <2>5, <3>1 DEF Echo!Str
    <3>3. /\ <<"byte">> \in Seq(Written) /\ <<"byte", "q">> \in Seq(Written) /\ <<>> \in Seq(Written)
          /\ <<"\\">> \in Seq(Written) /\ <<"\\", "q">> \in Seq(Written)
      BY DEF Written
    <3> QED BY <3>2, <3>3
  <2> QED BY <2>2, <2>3, <2>4, <2>5, <2>6, TokenWritten
<1>7. CASE Echo!Stop
  <2>1. /\ d < Len(given) /\ given[d+1] = "c" /\ UNCHANGED <<given, mem, out>>
        /\ pc = "run" /\ pc' = "exited" /\ status' = "zero"
    BY <1>7 DEF Echo!Stop, Echo!More, Echo!Next1, Echo!Exit
  <2>2. ASSUME NEW k \in 0..Len(given), Clear(given, k)
        PROVE  /\ Echo!IsPrefix(Spelled[k], out) /\ k # Len(given)
               /\ given[k+1] = "c" => out = Spelled[k]
    <3>1. k <= d
      <4>1. k > d => d + 1 \in 1..k
        BY <1>0
      <4> QED BY <2>1, <2>2, <4>1, <1>0 DEF Clear
    <3>2. k \in 0..d /\ k # Len(given)
      BY <1>0, <2>1, <3>1
    <3>3. k # d => k + 1 \in 1..d
      BY <1>0, <3>2
    <3>4. given[k+1] = "c" => k = d
      BY <1>0, <3>3
    <3> QED BY <2>1, <2>2, <3>2, <3>4 DEF Echoed, OutSpelt
  <2>4. Spelled' = Spelled
    BY <2>1 DEF Spelled, Spelling
  <2> QED BY <2>1, <2>2, <2>4 DEF Echoed, EchoTyped, OthTold, OutSpelt
<1>8. CASE Echo!Newline
  <2>1. /\ d = Len(given) /\ UNCHANGED <<given, mem>> /\ out' = Append(out, "\n")
        /\ pc = "run" /\ pc' = "exited" /\ status' = "zero"
    BY <1>8 DEF Echo!Newline, Echo!Exit
  <2>0. out' = out \o <<"\n">> /\ <<"\n">> \in Seq(Written) /\ out' \in Seq(Written)
    <3>1. <<"\n">> \in Seq(Written) /\ "\n" \in Written
      BY DEF Written
    <3>2. Append(out, "\n") = out \o <<"\n">>
      BY <1>0, <3>1, AppendIsConcat
    <3> QED BY <1>0, <2>1, <3>1, <3>2
  <2>2. ASSUME NEW k \in 0..Len(given), Clear(given, k)
        PROVE  /\ Echo!IsPrefix(Spelled[k], out')
               /\ k = Len(given) => out' = Append(Spelled[k], "\n")
    <3>1. Spelled[k] \in Seq(Written)
      BY <1>0, SpeltSeq
    <3>2. Echo!IsPrefix(Spelled[k], out)
      BY <2>1, <2>2 DEF Echoed, OutSpelt
    <3>3. k = Len(given) => out = Spelled[k]
      BY <2>1, <2>2 DEF Echoed, OutSpelt
    <3>4. Echo!IsPrefix(Spelled[k], out')
      BY <1>0, <2>0, <3>1, <3>2, PrefixStays
    <3> QED BY <2>1, <3>3, <3>4
  <2>3. ASSUME NEW k \in 0..Len(given), k < Len(given), Clear(given, k), given[k+1] = "c"
        PROVE  FALSE
    <3>1. k + 1 \in 1..d
      BY <1>0, <2>1, <2>3
    <3> QED BY <1>0, <2>3, <3>1
  <2>4. Spelled' = Spelled
    BY <2>1 DEF Spelled, Spelling
  <2> QED BY <2>0, <2>1, <2>2, <2>3, <2>4 DEF Echoed, EchoTyped, OthTold, OutSpelt
<1>9. CASE Echo!Undefined \/ Echo!WriteFails
  <2>1. /\ UNCHANGED <<given, mem, out>>
        /\ pc' = "exited" /\ status' \in {"killed", "error"}
    BY <1>9 DEF Echo!Undefined, Echo!WriteFails, Echo!Exit
  <2> QED BY <2>1 DEF Echoed, EchoTyped, OthTold, OutSpelt
<1>10. CASE UNCHANGED Echo!vars
  <2>1. UNCHANGED <<given, mem, out, pc, status>>
    BY <1>10 DEF Echo!vars
  <2>2. Spelled' = Spelled
    BY <2>1 DEF Spelled, Spelling
  <2> QED BY <2>1, <2>2 DEF Echoed, EchoTyped, OthTold, OutSpelt
<1> QED
  BY <1>3, <1>4, <1>5, <1>6, <1>7, <1>8, <1>9, <1>10, <1>11 DEF Echo!Next

LEMMA EchoSteps ==
  ASSUME [Next]_vars, prog = "echo"
  PROVE  [Echo!Next]_(Echo!vars)
BY DEF Next, KillStep, PwdStep, OtherStep, vars, Echo!vars

\* However many operands echo has, in whatever order their escapes come, what
\* it writes begins with what they spell up to an octal zero or to where an
\* octal and an unknown escape have met in the static oth[]; if they never do it
\* ends there, with a newline or at \c.  Of what comes behind, nothing is said
\* (echo.c:10, 17, 26, 32, 48-59, 69-72).
THEOREM OperandsSpelt == Spec => []EchoSpells
<1> DEFINE Inv == prog = "echo" => Echoed
<1>1. Init => Inv
  BY EchoInit DEF Init, Kill!Init, Pwd!Init, Id!Init, Line!Init, Date!Init, Stty!Init
<1>2. Inv /\ [Next]_vars => Inv'
  BY ProgStays, EchoSteps, EchoedNext
<1>3. Inv => EchoSpells
  <2> DEFINE Text(k) == Echo!FlattenSeq([j \in 1..k |-> Echo!Spelt(given[j], <<>>)])
  <2> SUFFICES ASSUME Echoed, status = "zero"
      PROVE  \A k \in 0..Len(given) : Echo!Sure(k) =>
               /\ Echo!IsPrefix(Text(k), out)
               /\ k = Len(given) => out = Append(Text(k), "\n")
               /\ k < Len(given) /\ given[k+1] = "c" => out = Text(k)
    BY DEF EchoSpells, Echo!EchoSpells
  <2>1. given \in Seq(Echo!Token) /\ Len(given) \in Nat
    BY DEF Echoed, EchoTyped
  <2>2. ASSUME NEW k \in 0..Len(given), Clear(given, k) PROVE Text(k) = Spelled[k]
    <3>1. [j \in 1..k |-> Echo!Spelt(given[j], <<>>)] = [j \in 1..k |-> Spelling[j]]
      <4>1. ASSUME NEW j \in 1..k PROVE Echo!Spelt(given[j], <<>>) = Spelling[j]
        <5>1. j \in 1..Len(given) /\ given[j] \notin {"c", "00"}
          BY <2>1, <2>2 DEF Clear
        <5> QED BY <5>1 DEF Spelling
      <4> QED BY <4>1
    <3>2. Echo!FlattenSeq([j \in 1..k |-> Spelling[j]]) = Spelled[k]
      BY <2>1, SpeltSeq, Flattens, ZenonT(40) DEF Spelled
    <3> QED BY <3>1, <3>2
  <2>3. \A k \in 0..Len(given) : k \in Int
    BY <2>1
  <2> HIDE DEF Text
  <2>4. ASSUME NEW k \in 0..Len(given), Echo!Sure(k)
        PROVE  /\ Echo!IsPrefix(Text(k), out)
               /\ k = Len(given) => out = Append(Text(k), "\n")
               /\ k < Len(given) /\ given[k+1] = "c" => out = Text(k)
    <3>1. Clear(given, k)
      BY <2>3, <2>4, SureIsClear
    <3>2. Text(k) = Spelled[k]
      BY <2>2, <3>1
    <3> QED BY <3>1, <3>2 DEF Echoed, OutSpelt
  <2> QED BY <2>4
<1> QED BY <1>1, <1>2, <1>3, PTL DEF Spec
-----------------------------------------------------------------------------
(***************************************************************************)
(* id.                                                                     *)
(***************************************************************************)
Entries == {"user", "gid", "euid", "group"} \X (Id!User \union {Stranger} \union Nat)

GivenTyped ==
  given \in [flags : SUBSET Id!Flag, named : BOOLEAN, uid : Id!User \union {Stranger},
             euid : Id!User \union {Stranger}, shared : BOOLEAN, db : Databases]

LEMMA DatabaseSeq ==
  ASSUME GivenTyped
  PROVE  Len(given.db) \in Nat
<1>1. given.db \in Seq([gid : Nat, mem : SUBSET Id!User])
  BY CommandsAssumption DEF GivenTyped, Id!IdAssumption, Id!User
<1> QED BY <1>1

\* A group written behind others is repeated if it was there.
LEMMA GroupAdded ==
  ASSUME NEW o \in Seq(Entries), NEW g \in Nat, NEW e, e = <<"group", g>>, NEW n, n = o \o <<e>>
  PROVE  /\ n \in Seq(Entries) /\ Id!GroupsIn(n) = Id!GroupsIn(o) \union {g}
         /\ \A h : Id!Repeats(n, h) => Id!Repeats(o, h) \/ (h = g /\ g \in Id!GroupsIn(o))
<1>. PICK l : l = Len(o)
  OBVIOUS
<1>1. e \in Entries /\ e[1] = "group" /\ e[2] = g
  BY DEF Entries
<1>2. /\ n \in Seq(Entries) /\ l \in Nat /\ Len(n) = l + 1 /\ n[l+1] = e
      /\ \A j \in 1..l : n[j] = o[j]
  BY <1>1
<1>3. \A j \in 1..(l+1) : j \in 1..l \/ j = l + 1
  BY <1>2
<1>4. l + 1 \in 1..Len(n) /\ \A j \in 1..l : j \in 1..Len(n)
  BY <1>2
<1>5. \A j \in 1..l : n[j][1] = o[j][1] /\ n[j][2] = o[j][2]
  BY <1>2
<1>6. \A x \in Id!GroupsIn(n) : x \in Id!GroupsIn(o) \union {g}
  BY <1>1, <1>2, <1>3, <1>5 DEF Id!GroupsIn
<1>7. \A x \in Id!GroupsIn(o) : x \in Id!GroupsIn(n)
  BY <1>4, <1>5 DEF Id!GroupsIn
<1>8. g \in Id!GroupsIn(n)
  BY <1>1, <1>2, <1>4 DEF Id!GroupsIn
<1>9. ASSUME NEW h, Id!Repeats(n, h) PROVE Id!Repeats(o, h) \/ (h = g /\ g \in Id!GroupsIn(o))
  <2>. PICK f : f = <<"group", h>>
    OBVIOUS
  <2>1. PICK j, k \in 1..Len(n) : j # k /\ n[j] = f /\ n[k] = f
    BY <1>9 DEF Id!Repeats
  <2>2. f[1] = "group" /\ f[2] = h
    OBVIOUS
  <2>3. ASSUME NEW i \in 1..l, NEW m \in 1..Len(n), i # m, n[i] = f, n[m] = f
        PROVE  Id!Repeats(o, h) \/ (h = g /\ g \in Id!GroupsIn(o))
    <3>1. o[i] = f
      BY <1>2, <2>3
    <3>2. CASE m \in 1..l
      <4>1. o[m] = f
        BY <1>2, <2>3, <3>2
      <4> QED BY <2>3, <3>1, <3>2, <4>1 DEF Id!Repeats
    <3>3. CASE m = l + 1
      <4>1. h = g
        BY <1>1, <1>2, <2>2, <2>3, <3>3
      <4>2. o[i][1] = "group" /\ o[i][2] = g
        BY <2>2, <3>1, <4>1
      <4>3. g \in Id!GroupsIn(o)
        BY <4>2 DEF Id!GroupsIn
      <4> QED BY <4>1, <4>3
    <3> QED BY <1>2, <1>3, <3>2, <3>3
  <2>4. j \in 1..l \/ k \in 1..l
    BY <1>2, <1>3, <2>1
  <2> QED BY <2>1, <2>3, <2>4
<1> QED BY <1>2, <1>6, <1>7, <1>8, <1>9

\* The user is looked up no more, or where nothing is overwritten.
Kept == "G" \in Id!flags \/ given.euid = given.uid \/ (given.named /\ ~given.shared)

\* Of the user u and the database d: the entries that name u, what is due when
\* getgrent() has come to p, and what is given twice.
NamingIn(u, d) == {k \in 1..Len(d) : u \in d[k].mem}
Due(u, d, p) == {Primary[u]} \union {d[k].gid : k \in {i \in NamingIn(u, d) : i <= p}}
Twice(u, d, g) ==
  \/ g = Primary[u] /\ \E k \in NamingIn(u, d) : d[k].gid = g
  \/ \E j, k \in NamingIn(u, d) : j # k /\ d[j].gid = g /\ d[k].gid = g

ListedTo(u, d, o, p) ==
  /\ o \in Seq(Entries) /\ Id!GroupsIn(o) = Due(u, d, p)
  /\ \A g : Id!Repeats(o, g) => Twice(u, d, g)

\* Listed are the group of the entry and those of the database up to getgrent()'s
\* place in it, and what was looked up is still the user.
IdListing ==
  /\ GivenTyped /\ mem = [pwd |-> mem.pwd, pos |-> mem.pos]
  /\ pc \in {"start", "print", "scan", "write", "exited"}
  /\ pc # "exited" => status = "running"
  /\ pc \in {"start", "print"} => mem.pos = 0 /\ out = <<>>
  /\ pc \in {"print", "scan"} => given.uid \in Id!User
  /\ pc = "print" => mem.pwd = given.uid /\ ~Id!Conflict
  /\ pc = "scan" /\ Kept =>
       /\ mem.pwd = given.uid /\ mem.pos \in 0..Len(given.db)
       /\ ListedTo(given.uid, given.db, out, mem.pos)
  /\ (pc = "write" \/ status = "zero") /\ Id!flags \intersect {"g", "u"} = {} /\ Kept =>
       ListedTo(given.uid, given.db, out, Len(given.db))

\* The first group, behind what there is of the user.
LEMMA FirstListed ==
  ASSUME NEW u \in Id!User, NEW d \in Databases, NEW users \in Seq(Entries),
         \A k \in 1..Len(users) : users[k][1] # "group",
         NEW e, e = <<"group", Primary[u]>>
  PROVE  ListedTo(u, d, users \o <<e>>, 0)
<1>. PICK g, n : g = Primary[u] /\ n = users \o <<e>>
  OBVIOUS
<1>1. g \in Nat /\ Len(d) \in Nat
  <2>1. d \in Seq([gid : Nat, mem : SUBSET Id!User])
    BY CommandsAssumption DEF Id!IdAssumption, Id!User
  <2> QED BY <2>1, CommandsAssumption DEF Id!IdAssumption, Id!User
<1>2. Id!GroupsIn(users) = {} /\ \A h : ~Id!Repeats(users, h)
  <2>1. Id!GroupsIn(users) = {}
    BY DEF Id!GroupsIn
  <2>2. ASSUME NEW h, NEW k \in 1..Len(users), users[k] = <<"group", h>> PROVE FALSE
    <3>1. users[k][1] = "group"
      BY <2>2
    <3> QED BY <3>1
  <2> QED BY <2>1, <2>2 DEF Id!Repeats
<1>3. /\ n \in Seq(Entries) /\ Id!GroupsIn(n) = Id!GroupsIn(users) \union {g}
      /\ \A h : Id!Repeats(n, h) => Id!Repeats(users, h) \/ (h = g /\ g \in Id!GroupsIn(users))
  <2>1. users \in Seq(Entries) /\ g \in Nat /\ e = <<"group", g>> /\ n = users \o <<e>>
    BY <1>1
  <2> QED BY ONLY <2>1, GroupAdded
<1>4. Due(u, d, 0) = {g}
  <2>1. {i \in NamingIn(u, d) : i <= 0} = {}
    BY <1>1 DEF NamingIn
  <2> QED BY <2>1 DEF Due
<1> QED BY <1>2, <1>3, <1>4 DEF ListedTo

\* The next entry of the database, with the user or without.
LEMMA NextListed ==
  ASSUME NEW u \in Id!User, NEW d \in Databases, NEW p \in 0..Len(d), p < Len(d),
         NEW o, ListedTo(u, d, o, p), NEW e, e = <<"group", d[p+1].gid>>, NEW n,
         u \in d[p+1].mem => n = o \o <<e>>,
         u \notin d[p+1].mem => n = o
  PROVE  ListedTo(u, d, n, p + 1)
<1>0. d \in Seq([gid : Nat, mem : SUBSET Id!User])
  BY CommandsAssumption DEF Id!IdAssumption, Id!User
<1>1. p + 1 \in 1..Len(d) /\ p \in Nat /\ Len(d) \in Nat
  BY <1>0
<1>2. \A i \in 1..Len(d) : i <= p + 1 <=> i <= p \/ i = p + 1
  BY <1>1
<1>3. p + 1 \in NamingIn(u, d) <=> u \in d[p+1].mem
  BY <1>1 DEF NamingIn
<1>4. \A i \in NamingIn(u, d) : i \in 1..Len(d)
  BY DEF NamingIn
<1>5. CASE u \notin d[p+1].mem
  <2>1. {i \in NamingIn(u, d) : i <= p + 1} = {i \in NamingIn(u, d) : i <= p}
    BY <1>2, <1>3, <1>4, <1>5
  <2>2. Due(u, d, p + 1) = Due(u, d, p)
    BY <2>1 DEF Due
  <2> QED BY <1>5, <2>2 DEF ListedTo
<1>6. CASE u \in d[p+1].mem
  <2>. PICK g : g = d[p+1].gid
    OBVIOUS
  <2>1. g \in Nat /\ o \in Seq(Entries) /\ n = o \o <<e>> /\ e = <<"group", g>>
    <3>1. d[p+1] \in [gid : Nat, mem : SUBSET Id!User]
      BY <1>0, <1>1, ElementOfSeq
    <3>2. g \in Nat
      BY <3>1
    <3> QED BY <1>6, <3>2 DEF ListedTo
  <2>2. /\ n \in Seq(Entries) /\ Id!GroupsIn(n) = Id!GroupsIn(o) \union {g}
        /\ \A h : Id!Repeats(n, h) => Id!Repeats(o, h) \/ (h = g /\ g \in Id!GroupsIn(o))
    BY ONLY <2>1, GroupAdded
  <2>3. Due(u, d, p + 1) = Due(u, d, p) \union {g}
    <3>1. {i \in NamingIn(u, d) : i <= p + 1} = {i \in NamingIn(u, d) : i <= p} \union {p + 1}
      BY <1>1, <1>2, <1>3, <1>4, <1>6
    <3> QED BY <3>1 DEF Due
  <2>4. ASSUME g \in Due(u, d, p) PROVE Twice(u, d, g)
    <3>1. CASE g = Primary[u]
      BY <1>3, <1>6, <3>1 DEF Twice
    <3>2. CASE g # Primary[u]
      <4>1. PICK i \in NamingIn(u, d) : i <= p /\ d[i].gid = g
        BY <2>4, <3>2 DEF Due
      <4>2. i # p + 1
        BY <1>1, <1>4, <4>1
      <4> QED BY <1>3, <1>6, <4>1, <4>2 DEF Twice
    <3> QED BY <3>1, <3>2
  <2> QED BY <2>2, <2>3, <2>4 DEF ListedTo
<1> QED BY <1>5, <1>6

LEMMA PairConcat ==
  ASSUME NEW a, NEW b, NEW c
  PROVE  <<a, b>> \o <<>> = <<a, b>> /\ <<a, b>> \o <<c>> = <<a, b, c>>
<1>0. /\ <<a, b>> \in Seq({a, b, c}) /\ <<c>> \in Seq({a, b, c}) /\ <<a, b, c>> \in Seq({a, b, c})
  OBVIOUS
<1>1. <<a, b>> \o <<>> = <<a, b>>
  BY <1>0
<1> DEFINE s == <<a, b>> \o <<c>>
           t == <<a, b, c>>
<1>2. s \in Seq({a, b, c}) /\ Len(s) = 3 /\ s[1] = a /\ s[2] = b /\ s[3] = c
  BY <1>0
<1>3. Len(t) = 3 /\ t[1] = a /\ t[2] = b /\ t[3] = c
  OBVIOUS
<1> HIDE DEF s, t
<1>4. \A k \in 1..Len(s) : s[k] = t[k]
  <2>1. \A k \in 1..3 : k = 1 \/ k = 2 \/ k = 3
    OBVIOUS
  <2> QED BY <1>2, <1>3, <2>1
<1>5. s = t
  BY <1>0, <1>2, <1>3, <1>4, SeqEqual DEF t
<1> QED BY <1>1, <1>5 DEF s, t

LEMMA IdListingNext == IdListing /\ [Id!Next]_(Id!vars) => IdListing'
<1> SUFFICES ASSUME IdListing, [Id!Next]_(Id!vars) PROVE IdListing'
  OBVIOUS
<1>0. given' = given
  BY DEF Id!Next, Id!vars, Id!Usage, Id!GetEntry, Id!NoEntry, Id!NoGroup, Id!Undefined,
    Id!PrintUser, Id!PrintGroup, Id!PrintGroups, Id!DefaultPrint, Id!Scan, Id!ScanEnd,
    Id!GetgrentFails, Id!Write, Id!Writes, Id!Exit, Id!Passed
<1>1. GivenTyped /\ GivenTyped'
  BY <1>0 DEF IdListing, GivenTyped
<1>2. given.db \in Databases /\ Len(given.db) \in Nat /\ 0 \in 0..Len(given.db)
  BY <1>1, DatabaseSeq DEF GivenTyped
<1>3. (Kept' <=> Kept) /\ Id!flags' = Id!flags /\ (Id!Conflict' <=> Id!Conflict)
  BY <1>0 DEF Kept, Id!flags, Id!Conflict
<1>4. CASE Id!Usage \/ Id!NoEntry \/ Id!NoGroup \/ Id!Undefined \/ Id!GetgrentFails
  <2>1. pc' = "exited" /\ status' \in {"usage", "error", "undefined"} /\ UNCHANGED mem
    BY <1>4 DEF Id!Usage, Id!NoEntry, Id!NoGroup, Id!Undefined, Id!GetgrentFails, Id!Exit
  <2> QED BY <1>1, <2>1 DEF IdListing
<1>5. CASE Id!GetEntry
  <2>1. /\ pc = "start" /\ pc' = "print" /\ UNCHANGED status /\ ~Id!Conflict
        /\ given.uid # Stranger /\ mem' = [mem EXCEPT !.pwd = given.uid] /\ out' = out \o <<>>
    BY <1>5 DEF Id!GetEntry, Id!Writes
  <2>2. given.uid \in Id!User
    BY <1>1, <2>1 DEF GivenTyped
  <2>3. out' = <<>> /\ status = "running" /\ mem.pos = 0
    BY <2>1 DEF IdListing
  <2>4. /\ mem'.pos = 0 /\ mem'.pwd = given.uid /\ mem' = [pwd |-> mem'.pwd, pos |-> mem'.pos]
    BY <2>1, <2>3 DEF IdListing
  <2> QED BY <1>0, <1>1, <1>3, <2>1, <2>2, <2>3, <2>4 DEF IdListing
<1>6. CASE Id!PrintUser \/ Id!PrintGroup
  <2>1. pc' = "write" /\ UNCHANGED <<status, mem>> /\ Id!flags \intersect {"g", "u"} # {}
    BY <1>6 DEF Id!PrintUser, Id!PrintGroup, Id!Writes
  <2>2. Id!flags' \intersect {"g", "u"} # {}
    BY <1>3, <2>1
  <2>3. status = "running"
    BY <1>6 DEF IdListing, Id!PrintUser, Id!PrintGroup
  <2> QED BY <1>1, <2>1, <2>2, <2>3 DEF IdListing
<1>7. ASSUME NEW users \in Seq(Entries), \A k \in 1..Len(users) : users[k][1] # "group",
             given.uid \in Id!User,
             out' = users \o << <<"group", Primary[given.uid]>> >>,
             pc' = "scan", UNCHANGED status, status = "running",
             mem'.pos = 0, Kept => mem'.pwd = given.uid,
             mem' = [pwd |-> mem'.pwd, pos |-> mem'.pos]
      PROVE  IdListing'
  <2>1. ListedTo(given.uid, given.db, out', 0)
    BY <1>2, <1>7, FirstListed
  <2> QED BY <1>0, <1>1, <1>2, <1>3, <1>7, <2>1 DEF IdListing
<1>8. CASE Id!PrintGroups
  <2>1. /\ pc = "print" /\ pc' = "scan" /\ UNCHANGED <<status, mem>>
        /\ out' = out \o << <<"group", Primary[mem.pwd]>> >>
    BY <1>8 DEF Id!PrintGroups, Id!Writes, Id!pwd
  <2>2. /\ mem.pwd = given.uid /\ mem.pos = 0 /\ out = <<>> /\ given.uid \in Id!User
        /\ status = "running" /\ mem = [pwd |-> mem.pwd, pos |-> mem.pos]
    BY <2>1 DEF IdListing
  <2>3. out' = <<>> \o << <<"group", Primary[given.uid]>> >> /\ <<>> \in Seq(Entries)
    BY <2>1, <2>2
  <2>4. \A k \in 1..Len(<<>>) : <<>>[k][1] # "group"
    OBVIOUS
  <2> QED BY <1>7, <2>1, <2>2, <2>3, <2>4
<1>9. CASE Id!DefaultPrint
  <2> DEFINE same == given.euid \in {mem.pwd, Stranger}
             users == << <<"user", mem.pwd>>, <<"gid", Primary[mem.pwd]>> >>
                      \o (IF same THEN <<>> ELSE << <<"euid", given.euid>> >>)
  <2>1. /\ pc = "print" /\ pc' = "scan" /\ UNCHANGED status /\ Id!flags \subseteq {"n"}
        /\ out' = out \o (users \o << <<"group", Primary[mem.pwd]>> >>)
        /\ \E user \in Id!Left : mem' = [mem EXCEPT !.pwd = user]
    BY <1>9 DEF Id!DefaultPrint, Id!Writes, Id!pwd
  <2>2. /\ mem.pwd = given.uid /\ mem.pos = 0 /\ out = <<>> /\ given.uid \in Id!User
        /\ status = "running" /\ mem = [pwd |-> mem.pwd, pos |-> mem.pos]
    BY <2>1 DEF IdListing
  <2>3. PICK user \in Id!Left : mem' = [mem EXCEPT !.pwd = user]
    BY <2>1
  <2>4. mem'.pos = 0 /\ mem' = [pwd |-> mem'.pwd, pos |-> mem'.pos] /\ mem'.pwd = user
    BY <2>2, <2>3
  <2>5. Kept => user = given.uid
    <3>1. Kept => Id!Left = {mem.pwd}
      BY <2>1, <2>2 DEF Kept, Id!Left, Id!pwd
    <3> QED BY <2>2, <3>1
  <2>6. users \in Seq(Entries) /\ \A k \in 1..Len(users) : users[k][1] # "group"
    <3>0. PICK a, b, c : /\ a = <<"user", mem.pwd>> /\ b = <<"gid", Primary[mem.pwd]>>
                         /\ c = <<"euid", given.euid>>
      OBVIOUS
    <3>1. a \in Entries /\ b \in Entries /\ c \in Entries
      <4>1. given.euid \in Id!User \union {Stranger} /\ Primary[mem.pwd] \in Nat
        BY <1>1, <2>2, CommandsAssumption DEF GivenTyped, Id!IdAssumption, Id!User
      <4> QED BY <2>2, <3>0, <4>1 DEF Entries
    <3>2. a[1] # "group" /\ b[1] # "group" /\ c[1] # "group"
      BY <3>0
    <3>3. users = <<a, b>> \/ users = <<a, b, c>>
      <4>1. users = <<a, b>> \o <<>> \/ users = <<a, b>> \o <<c>>
        BY <3>0
      <4> HIDE DEF users
      <4> QED BY <4>1, PairConcat
    <3> HIDE DEF users
    <3>4. CASE users = <<a, b>>
      <4>1. <<a, b>> \in Seq(Entries) /\ Len(<<a, b>>) = 2
        BY <3>1
      <4>2. \A k \in 1..2 : <<a, b>>[k] \in {a, b}
        OBVIOUS
      <4> QED BY <3>2, <3>4, <4>1, <4>2
    <3>5. CASE users = <<a, b, c>>
      <4>1. <<a, b, c>> \in Seq(Entries) /\ Len(<<a, b, c>>) = 3
        BY <3>1
      <4>2. \A k \in 1..3 : <<a, b, c>>[k] \in {a, b, c}
        OBVIOUS
      <4> QED BY <3>2, <3>5, <4>1, <4>2
    <3> QED BY <3>3, <3>4, <3>5
  <2> HIDE DEF users, same
  <2>7. out' = users \o << <<"group", Primary[given.uid]>> >>
    <3>0. Primary[given.uid] \in Nat
      BY <2>2, CommandsAssumption DEF Id!IdAssumption, Id!User
    <3>1. << <<"group", Primary[given.uid]>> >> \in Seq(Entries)
      BY <3>0 DEF Entries
    <3>2. users \o << <<"group", Primary[given.uid]>> >> \in Seq(Entries)
      BY <2>6, <3>1
    <3>3. out' = <<>> \o (users \o << <<"group", Primary[given.uid]>> >>)
      BY <2>1, <2>2
    <3> QED BY <3>2, <3>3
  <2> QED BY <1>7, <2>1, <2>2, <2>4, <2>5, <2>6, <2>7
<1>10. CASE Id!Scan
  <2>. PICK p : p = mem.pos
    OBVIOUS
  <2>1. /\ pc = "scan" /\ pc' = "scan" /\ UNCHANGED status /\ p < Len(given.db)
        /\ mem' = [mem EXCEPT !.pos = p + 1]
        /\ \/ mem.pwd \notin given.db[p+1].mem /\ UNCHANGED out
           \/ mem.pwd \in given.db[p+1].mem /\ out' = out \o << <<"group", given.db[p+1].gid>> >>
    BY <1>10 DEF Id!Scan, Id!Passed, Id!Writes, Id!pwd, Id!pos, Id!db
  <2>2. /\ given.uid \in Id!User /\ status = "running"
        /\ mem = [pwd |-> mem.pwd, pos |-> mem.pos]
        /\ Kept => mem.pwd = given.uid /\ p \in 0..Len(given.db)
                /\ ListedTo(given.uid, given.db, out, p)
    BY <2>1 DEF IdListing
  <2>3. mem'.pos = p + 1 /\ mem'.pwd = mem.pwd /\ mem' = [pwd |-> mem'.pwd, pos |-> mem'.pos]
    BY <2>1, <2>2
  <2>4. ASSUME Kept
        PROVE  p + 1 \in 0..Len(given.db) /\ ListedTo(given.uid, given.db, out', p + 1)
    <3>. PICK u, d, e : u = given.uid /\ d = given.db /\ e = <<"group", d[p+1].gid>>
      OBVIOUS
    <3>1. /\ u \in Id!User /\ d \in Databases /\ p \in 0..Len(d) /\ p < Len(d)
          /\ ListedTo(u, d, out, p)
          /\ u \in d[p+1].mem => out' = out \o <<e>>
          /\ u \notin d[p+1].mem => out' = out
      BY <1>2, <2>1, <2>2, <2>4
    <3>2. ListedTo(u, d, out', p + 1)
      BY <3>1, NextListed
    <3> QED BY <1>2, <2>1, <2>2, <2>4, <3>2
  <2> QED BY <1>0, <1>1, <1>3, <2>1, <2>2, <2>3, <2>4 DEF IdListing
<1>11. CASE Id!ScanEnd
  <2>1. /\ pc = "scan" /\ pc' = "write" /\ UNCHANGED <<status, mem>>
        /\ mem.pos = Len(given.db) /\ out' = out \o <<>>
    BY <1>11 DEF Id!ScanEnd, Id!Writes, Id!pos, Id!db
  <2>2. /\ status = "running" /\ mem = [pwd |-> mem.pwd, pos |-> mem.pos]
        /\ Kept => ListedTo(given.uid, given.db, out, Len(given.db))
    BY <2>1 DEF IdListing
  <2>3. Kept => out' = out
    BY <2>1, <2>2 DEF ListedTo
  <2> QED BY <1>0, <1>1, <1>3, <2>1, <2>2, <2>3 DEF IdListing
<1>12. CASE Id!Write \/ UNCHANGED Id!vars
  <2>1. /\ UNCHANGED <<given, mem, out>>
        /\ \/ pc = "write" /\ pc' = "exited" /\ status' = "zero"
           \/ UNCHANGED <<pc, status>>
    BY <1>12 DEF Id!Write, Id!Exit, Id!vars
  <2> QED BY <1>0, <1>1, <1>3, <2>1 DEF IdListing
<1> QED
  BY <1>4, <1>5, <1>6, <1>8, <1>9, <1>10, <1>11, <1>12 DEF Id!Next

LEMMA IdSteps ==
  ASSUME [Next]_vars, prog = "id"
  PROVE  [Id!Next]_(Id!vars)
BY DEF Next, KillStep, PwdStep, OtherStep, vars, Id!vars

\* id lists the groups of its user and no others, each once but for those the
\* databases give twice, in every database and with every entry in it
\* (id.c:32-49, 115-122).  Nothing is said of an id without options that looks
\* up another effective user in the struct it scans with.
THEOREM GroupsListed == Spec => []IdListsGroups
<1> DEFINE Inv == prog = "id" => IdListing
<1>1. Init => Inv
  BY DEF Init, IdListing, GivenTyped, Kill!Init, Pwd!Init, Id!Init, Line!Init, Echo!Init,
    Date!Init, Stty!Init
<1>2. Inv /\ [Next]_vars => Inv'
  BY ProgStays, IdSteps, IdListingNext
<1>3. Inv => IdListsGroups
  <2> SUFFICES ASSUME IdListing, status = "zero", Id!flags \intersect {"g", "u"} = {}, Kept
      PROVE  /\ Id!GroupsIn(out) = Id!Groups
             /\ \A g \in Id!Groups : Id!Repeats(out, g) => Id!GivenTwice(g)
    BY DEF IdListsGroups, Id!IdListsGroups, Kept
  <2>1. /\ ListedTo(given.uid, given.db, out, Len(given.db)) /\ Len(given.db) \in Nat
        /\ Id!db = given.db
    BY DatabaseSeq DEF IdListing, Id!db
  <2>2. Id!Naming = NamingIn(given.uid, given.db)
    BY DEF Id!Naming, NamingIn, Id!db
  <2>3. {i \in Id!Naming : i <= Len(given.db)} = Id!Naming
    BY <2>1 DEF Id!Naming
  <2>4. Due(given.uid, given.db, Len(given.db)) = Id!Groups
    BY <2>1, <2>2, <2>3 DEF Due, Id!Groups
  <2>5. \A g : Twice(given.uid, given.db, g) => Id!GivenTwice(g)
    BY <2>1, <2>2 DEF Twice, Id!GivenTwice
  <2> QED BY <2>1, <2>4, <2>5 DEF ListedTo
<1> QED BY <1>1, <1>2, <1>3, PTL DEF Spec
-----------------------------------------------------------------------------
(***************************************************************************)
(* stty.                                                                   *)
(***************************************************************************)
LEMMA RangeConcat ==
  ASSUME NEW V, NEW s \in Seq(V), NEW u \in Seq(V)
  PROVE  Stty!Range(s \o u) = Stty!Range(s) \union Stty!Range(u)
<1>1. /\ s \o u \in Seq(V) /\ Len(s \o u) = Len(s) + Len(u)
      /\ \A i \in 1..(Len(s) + Len(u)) :
           (s \o u)[i] = IF i <= Len(s) THEN s[i] ELSE u[i - Len(s)]
  BY ConcatProperties
<1>. PICK o : o = s \o u
  OBVIOUS
<1>2. /\ DOMAIN o = 1..(Len(s) + Len(u)) /\ DOMAIN s = 1..Len(s) /\ DOMAIN u = 1..Len(u)
      /\ Len(s) \in Nat /\ Len(u) \in Nat
  BY <1>1
<1>3. ASSUME NEW i \in DOMAIN o PROVE o[i] \in Stty!Range(s) \union Stty!Range(u)
  <2>1. CASE i <= Len(s)
    <3>1. i \in DOMAIN s /\ o[i] = s[i]
      BY <1>1, <1>2, <2>1
    <3> QED BY <3>1 DEF Stty!Range
  <2>2. CASE i > Len(s)
    <3>1. i - Len(s) \in DOMAIN u /\ o[i] = u[i - Len(s)]
      BY <1>1, <1>2, <2>2
    <3> QED BY <3>1 DEF Stty!Range
  <2> QED BY <1>2, <2>1, <2>2
<1>4. ASSUME NEW i \in DOMAIN s PROVE s[i] \in Stty!Range(o)
  <2>1. i \in DOMAIN o /\ o[i] = s[i]
    BY <1>1, <1>2
  <2> QED BY <2>1 DEF Stty!Range
<1>5. ASSUME NEW i \in DOMAIN u PROVE u[i] \in Stty!Range(o)
  <2>1. Len(s) + i \in DOMAIN o /\ ~(Len(s) + i <= Len(s)) /\ (Len(s) + i) - Len(s) = i
    BY <1>2
  <2>2. o[Len(s) + i] = u[i]
    BY <1>1, <1>2, <2>1
  <2> QED BY <2>1, <2>2 DEF Stty!Range
<1>6. Stty!Range(o) \subseteq Stty!Range(s) \union Stty!Range(u)
  <2>1. \A y \in Stty!Range(o) : \E i \in DOMAIN o : y = o[i]
    BY DEF Stty!Range
  <2> QED BY <1>3, <2>1
<1>7. Stty!Range(s) \subseteq Stty!Range(o)
  <2>1. \A y \in Stty!Range(s) : \E i \in DOMAIN s : y = s[i]
    BY DEF Stty!Range
  <2> QED BY <1>4, <2>1
<1>8. Stty!Range(u) \subseteq Stty!Range(o)
  <2>1. \A y \in Stty!Range(u) : \E i \in DOMAIN u : y = u[i]
    BY DEF Stty!Range
  <2> QED BY <1>5, <2>1
<1> QED BY <1>6, <1>7, <1>8

\* A function of 1..n as a sequence, and the elements of it.
LEMMA RangeSeq ==
  ASSUME NEW n \in Nat, NEW f, f = [k \in 1..n |-> f[k]]
  PROVE  f \in Seq(Stty!Range(f)) /\ Stty!Range(f) = {f[k] : k \in 1..n}
<1>1. DOMAIN f = 1..n
  OBVIOUS
<1>2. Stty!Range(f) = {f[k] : k \in 1..n}
  BY <1>1 DEF Stty!Range
<1>3. \A k \in 1..n : f[k] \in Stty!Range(f)
  BY <1>2
<1>4. f \in [1..n -> Stty!Range(f)]
  BY <1>3
<1> QED BY <1>2, <1>4

\* The first word of a line and the number of words tell what it is about.
LEMMA ControlTold ==
  ASSUME NEW c \in 0..255, c # 255
  PROVE  Stty!Tells(Stty!Shown(c)) = c
<1>1. CASE c = 0
  BY <1>1 DEF Stty!Tells, Stty!Shown
<1>2. CASE c = 127
  BY <1>2 DEF Stty!Tells, Stty!Shown
<1>3. CASE c \notin {0, 127}
  <2>1. PICK b : b = (c + 64) % 256
    OBVIOUS
  <2>2. b \in 0..255 /\ b # 63 /\ (b + 192) % 256 = c
    BY <1>3, <2>1
  <2>3. Stty!Shown(c) = <<b>>
    BY <1>3, <2>1 DEF Stty!Shown
  <2>4. <<b>> # <<>> /\ <<b>> # <<63>> /\ <<b>>[1] = b
    BY <2>2
  <2> QED BY <2>2, <2>3, <2>4 DEF Stty!Tells
<1> QED BY <1>1, <1>2, <1>3

LEMMA TwoConcat ==
  ASSUME NEW a, NEW b
  PROVE  <<a>> \o <<b>> = <<a, b>>
<1> DEFINE s == <<a>> \o <<b>>
           t == <<a, b>>
<1>1. <<a>> \in Seq({a, b}) /\ <<b>> \in Seq({a, b}) /\ t \in Seq({a, b})
  OBVIOUS
<1>2. s \in Seq({a, b}) /\ Len(s) = 2 /\ s[1] = a /\ s[2] = b
  BY <1>1
<1>3. Len(t) = 2 /\ t[1] = a /\ t[2] = b
  OBVIOUS
<1> HIDE DEF s, t
<1>4. \A k \in 1..Len(s) : s[k] = t[k]
  BY <1>2, <1>3
<1>5. s = t
  BY <1>1, <1>2, <1>3, <1>4, SeqEqual
<1> QED BY <1>5 DEF s, t

LEMMA SpeedNamed ==
  ASSUME NEW w, NEW x
  PROVE  <<w>> \o Stty!Name(x) = IF x \in Speeds THEN <<w, x>> ELSE <<w>>
<1>1. CASE x \in Speeds
  <2>1. <<w>> \o <<x>> = <<w, x>>
    BY TwoConcat
  <2> QED BY <1>1, <2>1 DEF Stty!Name
<1>2. CASE x \notin Speeds
  <2>1. <<w>> \o <<>> = <<w>>
    OBVIOUS
  <2> QED BY <1>2, <2>1 DEF Stty!Name
<1> QED BY <1>1, <1>2

\* The speeds and the size of the window.
LEMMA SpeedsTold ==
  ASSUME given.t \in Stty!Settings
  PROVE  \E V :
    /\ Stty!dump_speed \in Seq(V)
    /\ \A y \in V : y[1] \in {"rows", "columns", "speed", "ispeed", "ospeed"} /\ Len(y) \in {1, 2}
    /\ given.t.ispeed \in Speeds =>
         \E w \in {"speed", "ispeed"} : <<w, given.t.ispeed>> \in Stty!Range(Stty!dump_speed)
    /\ given.t.ospeed \in Speeds =>
         \E w \in {"speed", "ospeed"} : <<w, given.t.ospeed>> \in Stty!Range(Stty!dump_speed)
<1>. PICK i, j : i = given.t.ispeed /\ j = given.t.ospeed
  OBVIOUS
<1>. PICK a, b, c, r, l : /\ a = <<"speed">> \o Stty!Name(i) /\ b = <<"ispeed">> \o Stty!Name(i)
                          /\ c = <<"ospeed">> \o Stty!Name(j)
                          /\ r = <<"rows">> /\ l = <<"columns">>
  OBVIOUS
<1>1. /\ a = IF i \in Speeds THEN <<"speed", i>> ELSE <<"speed">>
      /\ b = IF i \in Speeds THEN <<"ispeed", i>> ELSE <<"ispeed">>
      /\ c = IF j \in Speeds THEN <<"ospeed", j>> ELSE <<"ospeed">>
  BY SpeedNamed
<1> DEFINE V == {a, b, c, r, l}
           s == IF i = j THEN <<a>> ELSE <<b, c>>
           x == IF "rows" \in given.size THEN <<r>> ELSE <<>>
           z == IF "columns" \in given.size THEN <<l>> ELSE <<>>
<1>2. s \in Seq(V) /\ x \in Seq(V) /\ z \in Seq(V)
  <2>0. a \in V /\ b \in V /\ c \in V /\ r \in V /\ l \in V
    OBVIOUS
  <2> HIDE DEF V
  <2>1. /\ <<a>> \in Seq(V) /\ <<b, c>> \in Seq(V) /\ <<r>> \in Seq(V) /\ <<l>> \in Seq(V)
        /\ <<>> \in Seq(V)
    BY ONLY <2>0
  <2> QED BY <2>1
<1>3. Stty!dump_speed = s \o (x \o z)
  BY DEF Stty!dump_speed, Stty!dump_dimen, Stty!t
<1>4. \A y \in V : y[1] \in {"rows", "columns", "speed", "ispeed", "ospeed"} /\ Len(y) \in {1, 2}
  <2> DEFINE P(y) == /\ y[1] \in {"rows", "columns", "speed", "ispeed", "ospeed"}
                     /\ Len(y) \in {1, 2}
  <2>0. ASSUME NEW w \in {"speed", "ispeed", "ospeed"}, NEW v,
               NEW y, y = <<w, v>> \/ y = <<w>>
        PROVE  P(y)
    <3>1. CASE y = <<w, v>>
      <4>1. y[1] = w /\ Len(y) = 2
        BY ONLY <3>1
      <4> QED BY <4>1
    <3>2. CASE y = <<w>>
      <4>1. y[1] = w /\ Len(y) = 1
        BY ONLY <3>2
      <4> QED BY <4>1
    <3> QED BY <2>0, <3>1, <3>2
  <2> HIDE DEF P
  <2>1. P(a)
    BY <1>1, <2>0
  <2>2. P(b)
    BY <1>1, <2>0
  <2>3. P(c)
    BY <1>1, <2>0
  <2> USE DEF P
  <2>4. P(r) /\ P(l)
    OBVIOUS
  <2> HIDE DEF P
  <2>5. \A y \in V : P(y)
    BY <2>1, <2>2, <2>3, <2>4
  <2> QED BY <2>5 DEF P
<1>5. i = j => a \in Stty!Range(s)
  <2>1. i = j => s = <<a>>
    OBVIOUS
  <2>2. 1 \in DOMAIN <<a>> /\ <<a>>[1] = a
    BY ONLY TRUE
  <2> HIDE DEF s
  <2> QED BY <2>1, <2>2 DEF Stty!Range
<1>6. i # j => b \in Stty!Range(s) /\ c \in Stty!Range(s)
  <2>1. i # j => s = <<b, c>>
    OBVIOUS
  <2>2. /\ 1 \in DOMAIN <<b, c>> /\ 2 \in DOMAIN <<b, c>>
        /\ <<b, c>>[1] = b /\ <<b, c>>[2] = c
    BY ONLY TRUE
  <2> HIDE DEF s
  <2> QED BY <2>1, <2>2 DEF Stty!Range
<1> HIDE DEF s, x, z, V
<1>7. Stty!dump_speed \in Seq(V) /\ Stty!Range(s) \subseteq Stty!Range(Stty!dump_speed)
  <2>1. x \o z \in Seq(V)
    BY <1>2
  <2>2. Stty!Range(s \o (x \o z)) = Stty!Range(s) \union Stty!Range(x \o z)
    <3>1. PICK y : y = x \o z
      OBVIOUS
    <3>2. s \in Seq(V) /\ y \in Seq(V)
      BY <1>2, <2>1, <3>1
    <3>3. Stty!Range(s \o y) = Stty!Range(s) \union Stty!Range(y)
      BY ONLY <3>2, RangeConcat
    <3> QED BY <3>1, <3>3
  <2>3. s \o (x \o z) \in Seq(V)
    BY <1>2, <2>1, ConcatProperties
  <2> QED BY <1>3, <2>2, <2>3
<1>8. i \in Speeds =>
        \E w \in {"speed", "ispeed"} : <<w, i>> \in Stty!Range(Stty!dump_speed)
  BY <1>1, <1>5, <1>6, <1>7
<1>9. j \in Speeds =>
        \E w \in {"speed", "ospeed"} : <<w, j>> \in Stty!Range(Stty!dump_speed)
  BY <1>1, <1>5, <1>6, <1>7
<1> QED BY <1>4, <1>7, <1>8, <1>9

\* What is said of the lines o, in the words of SttyTellsSettings.
SttyTold(o) ==
  /\ given.t.on = {m \in Stty!Range(Modes) : <<m>> \in Stty!Range(o)}
  /\ Stty!Range(Modes) \ given.t.on = {m \in Stty!Range(Modes) : <<"-", m>> \in Stty!Range(o)}
  /\ given.t.ispeed \in Speeds =>
       \E w \in {"speed", "ispeed"} : <<w, given.t.ispeed>> \in Stty!Range(o)
  /\ given.t.ospeed \in Speeds =>
       \E w \in {"speed", "ospeed"} : <<w, given.t.ospeed>> \in Stty!Range(o)
  /\ \A k \in 1..Len(Controls) :
       \E line \in Stty!Range(o) :
         /\ Len(line) >= 2 /\ SubSeq(line, 1, 2) = <<Controls[k], "=">>
         /\ given.t.cc[k] = 255 \/ Stty!Tells(SubSeq(line, 3, Len(line))) = given.t.cc[k]

\* The line of a control character, taken apart.
LEMMA ControlLine ==
  ASSUME NEW w, NEW c \in 0..255,
         NEW y, y = <<w, "=">> \o Stty!Shown(c)
  PROVE  /\ Len(y) \in {2, 3} /\ y[1] = w
         /\ SubSeq(y, 1, 2) = <<w, "=">> /\ SubSeq(y, 3, Len(y)) = Stty!Shown(c)
<1>. PICK p, q : p = <<w, "=">> /\ q = Stty!Shown(c)
  OBVIOUS
<1>. PICK b : q = <<>> \/ q = <<b>>
  BY DEF Stty!Shown
<1>. PICK V : V = {w, "=", b}
  OBVIOUS
<1>1. p \in Seq(V) /\ q \in Seq(V) /\ Len(p) = 2 /\ p[1] = w /\ Len(q) \in {0, 1}
  <2>1. w \in V /\ "=" \in V /\ b \in V
    OBVIOUS
  <2>2. p \in Seq(V) /\ Len(p) = 2 /\ p[1] = w
    BY ONLY <2>1, p = <<w, "=">>
  <2>3. <<>> \in Seq(V) /\ <<b>> \in Seq(V) /\ Len(<<>>) = 0 /\ Len(<<b>>) = 1
    BY ONLY <2>1
  <2> QED BY ONLY <2>2, <2>3, q = <<>> \/ q = <<b>>
<1>. PICK n : n = Len(q)
  OBVIOUS
<1>2. /\ y \in Seq(V) /\ Len(y) = 2 + n /\ n \in Nat
      /\ \A i \in 1..(2 + n) : y[i] = IF i <= 2 THEN p[i] ELSE q[i - 2]
  <2>1. /\ p \o q \in Seq(V) /\ Len(p \o q) = Len(p) + Len(q)
        /\ \A i \in 1..(Len(p) + Len(q)) :
             (p \o q)[i] = IF i <= Len(p) THEN p[i] ELSE q[i - Len(p)]
    <3>1. p \in Seq(V) /\ q \in Seq(V)
      BY <1>1
    <3> QED BY ONLY <3>1, ConcatProperties
  <2>2. n \in Nat /\ Len(p) = 2
    BY <1>1
  <2>3. y = p \o q
    OBVIOUS
  <2> QED BY ONLY <2>1, <2>2, <2>3, n = Len(q)
<1>. PICK a, d : a = SubSeq(y, 1, 2) /\ d = SubSeq(y, 3, 2 + n)
  OBVIOUS
<1>3. /\ \A i \in 1..2 : y[i] \in V /\ y[i] = p[i]
      /\ \A i \in 3..(2 + n) : y[i] \in V /\ y[i] = q[i - 2]
  <2>1. /\ \A i \in 1..2 : p[i] \in V
        /\ \A i \in 1..n : q[i] \in V
    <3>1. DOMAIN p = 1..2 /\ DOMAIN q = 1..n
      BY ONLY <1>1, n = Len(q)
    <3>2. /\ \A i \in DOMAIN p : p[i] \in V
          /\ \A i \in DOMAIN q : q[i] \in V
      BY ONLY <1>1
    <3> QED BY ONLY <3>1, <3>2
  <2>2. /\ \A i \in 1..2 : i \in 1..(2 + n) /\ i <= 2
        /\ \A i \in 3..(2 + n) : i \in 1..(2 + n) /\ ~(i <= 2) /\ i - 2 \in 1..n
    BY <1>2
  <2> QED BY ONLY <1>2, <2>1, <2>2
<1>4. a = p
  <2>1. a \in Seq(V) /\ Len(a) = 2 /\ \A i \in 1..2 : a[i] = p[i]
    <3>1. /\ a \in Seq(V) /\ Len(a) = IF 1 <= 2 THEN 2 - 1 + 1 ELSE 0
          /\ \A i \in 1..(2 - 1 + 1) : a[i] = y[1 + i - 1]
      <4>1. PICK m, l : m = 1 /\ l = 2
        OBVIOUS
      <4>2. m \in Int /\ l \in Int /\ (\A i \in m..l : y[i] \in V) /\ a = SubSeq(y, m, l)
        BY ONLY <1>3, <4>1, a = SubSeq(y, 1, 2)
      <4>3. /\ a \in Seq(V) /\ Len(a) = IF m <= l THEN l - m + 1 ELSE 0
            /\ \A i \in 1..(l - m + 1) : a[i] = y[m + i - 1]
        BY ONLY <4>2, SubSeqProperties
      <4> QED BY <4>1, <4>3
    <3> QED BY ONLY <1>3, <3>1
  <2>2. p \in Seq(V) /\ Len(p) = 2
    BY <1>1
  <2> QED BY ONLY <2>1, <2>2, SeqEqual
<1>5. d = q
  <2>1. /\ d \in Seq(V) /\ Len(d) = IF 3 <= 2 + n THEN (2 + n) - 3 + 1 ELSE 0
        /\ \A i \in 1..((2 + n) - 3 + 1) : d[i] = y[3 + i - 1]
    BY <1>2, <1>3, SubSeqProperties
  <2>2. Len(d) = n
    BY <1>2, <2>1
  <2>3. ASSUME NEW i \in 1..n PROVE d[i] = q[i]
    <3>1. /\ i \in 1..((2 + n) - 3 + 1) /\ 3 + i - 1 = i + 2 /\ i + 2 \in 3..(2 + n)
          /\ (i + 2) - 2 = i
      BY <1>2
    <3> QED BY <1>3, <2>1, <3>1
  <2> QED BY <2>1, <2>2, <2>3, SeqEqual
<1>6. Len(y) \in {2, 3}
  <2>1. n \in {0, 1}
    BY <1>1
  <2> QED BY ONLY <1>2, <2>1
<1>7. y[1] = w
  <2>1. y[1] = p[1]
    BY <1>2
  <2> QED BY ONLY <1>1, <2>1
<1>8. SubSeq(y, 1, 2) = <<w, "=">> /\ SubSeq(y, 3, Len(y)) = Stty!Shown(c)
  BY ONLY <1>2, <1>4, <1>5, a = SubSeq(y, 1, 2), d = SubSeq(y, 3, 2 + n), p = <<w, "=">>,
    q = Stty!Shown(c)
<1> QED BY ONLY <1>6, <1>7, <1>8

\* The lines of the modes, the delays and the control characters.
LEMMA ModeLines ==
  Stty!Range(Stty!dump_modes) =
    {IF Modes[k] \in given.t.on THEN <<Modes[k]>> ELSE <<"-", Modes[k]>> : k \in 1..Len(Modes)}
BY DEF Stty!Range, Stty!dump_modes, Stty!t

LEMMA DelayLines ==
  \A y \in Stty!Range(Stty!dump_delays) : Len(y) \in {0, 3}
<1>1. \A y \in Stty!Range(Stty!dump_delays) : \E k, d : y = <<"delay", k, d>> \/ y = <<>>
  BY DEF Stty!Range, Stty!dump_delays
<1>2. ASSUME NEW k, NEW d PROVE Len(<<"delay", k, d>>) = 3
  OBVIOUS
<1>3. Len(<<>>) = 0
  OBVIOUS
<1> QED BY <1>1, <1>2, <1>3

LEMMA ControlLines ==
  Stty!Range(Stty!dump_controls) =
    {<<Controls[k], "=">> \o Stty!Shown(given.t.cc[k]) : k \in 1..Len(Controls)}
BY DEF Stty!Range, Stty!dump_controls, Stty!t

\* All the lines there are.
LEMMA LinesOf ==
  ASSUME Stty!SttyAssumption, given.t \in Stty!Settings, NEW o,
         o = Stty!dump_speed \o Stty!dump_modes \o Stty!dump_delays \o Stty!dump_controls
  PROVE  Stty!Range(o) =
           Stty!Range(Stty!dump_speed) \union Stty!Range(Stty!dump_modes)
           \union Stty!Range(Stty!dump_delays) \union Stty!Range(Stty!dump_controls)
<1>1. Len(Modes) \in Nat /\ Len(Delays) \in Nat /\ Len(Controls) \in Nat
  BY DEF Stty!SttyAssumption
<1>. PICK s, m, d, c : /\ s = Stty!dump_speed /\ m = Stty!dump_modes
                       /\ d = Stty!dump_delays /\ c = Stty!dump_controls
  OBVIOUS
<1>2. \E V : s \in Seq(V)
  BY SpeedsTold
<1>3. m \in Seq(Stty!Range(m))
  <2>1. m = [k \in 1..Len(Modes) |-> m[k]]
    BY DEF Stty!dump_modes
  <2> QED BY <1>1, <2>1, RangeSeq
<1>4. d \in Seq(Stty!Range(d))
  <2>1. d = [k \in 1..Len(Delays) |-> d[k]]
    BY DEF Stty!dump_delays
  <2> QED BY <1>1, <2>1, RangeSeq
<1>5. c \in Seq(Stty!Range(c))
  <2>1. c = [k \in 1..Len(Controls) |-> c[k]]
    BY DEF Stty!dump_controls
  <2> QED BY <1>1, <2>1, RangeSeq
<1>6. PICK V : s \in Seq(V) /\ m \in Seq(V) /\ d \in Seq(V) /\ c \in Seq(V)
  <2>1. PICK U : s \in Seq(U)
    BY <1>2
  <2>2. PICK V : V = U \union Stty!Range(m) \union Stty!Range(d) \union Stty!Range(c)
    OBVIOUS
  <2>3. U \subseteq V /\ Stty!Range(m) \subseteq V /\ Stty!Range(d) \subseteq V
        /\ Stty!Range(c) \subseteq V
    BY <2>2
  <2>4. ASSUME NEW A, NEW B, A \subseteq B, NEW x \in Seq(A) PROVE x \in Seq(B)
    BY ONLY <2>4
  <2>5. s \in Seq(V)
    BY <2>1, <2>3, <2>4
  <2>6. m \in Seq(V)
    BY <1>3, <2>3, <2>4
  <2>7. d \in Seq(V)
    BY <1>4, <2>3, <2>4
  <2>8. c \in Seq(V)
    BY <1>5, <2>3, <2>4
  <2> QED BY <2>5, <2>6, <2>7, <2>8
<1>7. PICK x : x = s \o m
  OBVIOUS
<1>8. PICK y : y = x \o d
  OBVIOUS
<1>9. /\ x \in Seq(V) /\ Stty!Range(x) = Stty!Range(s) \union Stty!Range(m)
  BY ONLY <1>6, <1>7, RangeConcat, ConcatProperties
<1>10. /\ y \in Seq(V) /\ Stty!Range(y) = Stty!Range(x) \union Stty!Range(d)
  BY ONLY <1>6, <1>8, <1>9, RangeConcat, ConcatProperties
<1>11. o = y \o c
  BY <1>7, <1>8
<1>12. Stty!Range(o) = Stty!Range(y) \union Stty!Range(c)
  BY ONLY <1>6, <1>10, <1>11, RangeConcat
<1> QED BY <1>9, <1>10, <1>12

\* What -a writes tells the settings.
LEMMA DumpTells ==
  ASSUME Stty!SttyAssumption, given.t \in Stty!Settings, NEW o,
         o = Stty!dump_speed \o Stty!dump_modes \o Stty!dump_delays \o Stty!dump_controls
  PROVE  SttyTold(o)
<1>. PICK A, M, D, C, on :
       /\ A = Stty!Range(Stty!dump_speed) /\ M = Stty!Range(Stty!dump_modes)
       /\ D = Stty!Range(Stty!dump_delays) /\ C = Stty!Range(Stty!dump_controls)
       /\ on = given.t.on
  OBVIOUS
<1>1. Stty!Range(o) = A \union M \union D \union C
  BY LinesOf
<1>2. /\ on \subseteq Stty!Range(Modes)
      /\ Stty!Range(Modes) = {Modes[k] : k \in 1..Len(Modes)}
  BY DEF Stty!Settings, Stty!SttyAssumption, Stty!Range
<1>3. \A y \in A : /\ y[1] \in {"rows", "columns", "speed", "ispeed", "ospeed"}
                   /\ Len(y) \in {1, 2}
  <2>1. PICK V : /\ Stty!dump_speed \in Seq(V)
                 /\ \A y \in V : /\ y[1] \in {"rows", "columns", "speed", "ispeed", "ospeed"}
                                 /\ Len(y) \in {1, 2}
    BY SpeedsTold
  <2>2. A \subseteq V
    BY <2>1 DEF Stty!Range
  <2> QED BY <2>1, <2>2
<1>4. M = {IF Modes[k] \in on THEN <<Modes[k]>> ELSE <<"-", Modes[k]>> : k \in 1..Len(Modes)}
  BY ModeLines
<1>5. \A y \in D : Len(y) \in {0, 3}
  BY DelayLines
<1>6. C = {<<Controls[k], "=">> \o Stty!Shown(given.t.cc[k]) : k \in 1..Len(Controls)}
  BY ControlLines
<1>7. ASSUME NEW k \in 1..Len(Controls)
      PROVE  /\ Controls[k] # "-"
             /\ given.t.cc[k] \in 0..255
  <2>1. Controls[k] # "-"
    <3>1. "-" \notin Stty!Range(Controls) /\ DOMAIN Controls = 1..Len(Controls)
      BY DEF Stty!SttyAssumption
    <3> QED BY ONLY <3>1 DEF Stty!Range
  <2>2. given.t.cc \in [1..Len(Controls) -> CharVal] /\ CharVal \subseteq 0..255
    BY DEF Stty!Settings, Stty!SttyAssumption
  <2> QED BY <2>1, <2>2
<1>8. ASSUME NEW y \in C PROVE Len(y) \in {2, 3} /\ y[1] # "-"
  <2>1. PICK k \in 1..Len(Controls) :
          y = <<Controls[k], "=">> \o Stty!Shown(given.t.cc[k])
    BY <1>6
  <2>2. PICK w, c : /\ w = Controls[k] /\ c = given.t.cc[k]
    OBVIOUS
  <2>3. c \in 0..255 /\ y = <<w, "=">> \o Stty!Shown(c) /\ w # "-"
    BY <1>7, <2>1, <2>2
  <2>4. Len(y) \in {2, 3}
    BY ONLY <2>3, ControlLine
  <2>5. y[1] = w
    BY ONLY <2>3, ControlLine
  <2> QED BY <2>3, <2>4, <2>5
<1>9. ASSUME NEW m \in Stty!Range(Modes) PROVE (<<m>> \in Stty!Range(o)) <=> m \in on
  <2>1. Len(<<m>>) = 1 /\ <<m>>[1] = m
    OBVIOUS
  <2>2. <<m>> \notin A
    BY <1>3, <2>1 DEF Stty!SttyAssumption
  <2>3. <<m>> \notin D /\ <<m>> \notin C
    BY ONLY <1>5, <1>8, <2>1
  <2>4. \A x : <<m>> # <<"-", x>> /\ (<<m>> = <<x>> => m = x)
    OBVIOUS
  <2>5. (<<m>> \in M) <=> m \in on
    BY <1>2, <1>4, <2>4
  <2> QED BY <1>1, <2>2, <2>3, <2>5
<1>10. ASSUME NEW m \in Stty!Range(Modes)
       PROVE  (<<"-", m>> \in Stty!Range(o)) <=> m \notin on
  <2>1. Len(<<"-", m>>) = 2 /\ <<"-", m>>[1] = "-"
    OBVIOUS
  <2>2. <<"-", m>> \notin A
    BY <1>3, <2>1
  <2>3. <<"-", m>> \notin D /\ <<"-", m>> \notin C
    BY ONLY <1>5, <1>8, <2>1
  <2>4. \A x : <<"-", m>> # <<x>> /\ (<<"-", m>> = <<"-", x>> => m = x)
    OBVIOUS
  <2>5. (<<"-", m>> \in M) <=> m \notin on
    BY <1>2, <1>4, <2>4
  <2> QED BY <1>1, <2>2, <2>3, <2>5
<1>11. ASSUME NEW k \in 1..Len(Controls)
       PROVE  \E line \in Stty!Range(o) :
                /\ Len(line) >= 2 /\ SubSeq(line, 1, 2) = <<Controls[k], "=">>
                /\ given.t.cc[k] = 255 \/ Stty!Tells(SubSeq(line, 3, Len(line))) = given.t.cc[k]
  <2>. PICK w, c, y : /\ w = Controls[k] /\ c = given.t.cc[k]
                      /\ y = <<Controls[k], "=">> \o Stty!Shown(given.t.cc[k])
    OBVIOUS
  <2>1. c \in 0..255 /\ y = <<w, "=">> \o Stty!Shown(c)
    BY <1>7
  <2>2. /\ Len(y) \in {2, 3}
        /\ SubSeq(y, 1, 2) = <<w, "=">> /\ SubSeq(y, 3, Len(y)) = Stty!Shown(c)
    <3>1. Len(y) \in {2, 3}
      BY ONLY <2>1, ControlLine
    <3>2. SubSeq(y, 1, 2) = <<w, "=">>
      BY ONLY <2>1, ControlLine
    <3>3. SubSeq(y, 3, Len(y)) = Stty!Shown(c)
      BY ONLY <2>1, ControlLine
    <3> QED BY ONLY <3>1, <3>2, <3>3
  <2>3. c = 255 \/ Stty!Tells(Stty!Shown(c)) = c
    BY <2>1, ControlTold
  <2>4. y \in Stty!Range(o)
    BY <1>1, <1>6
  <2>5. Len(y) >= 2
    BY <2>2
  <2> QED BY <2>2, <2>3, <2>4, <2>5
<1>12. /\ given.t.ispeed \in Speeds =>
            \E w \in {"speed", "ispeed"} : <<w, given.t.ispeed>> \in Stty!Range(o)
       /\ given.t.ospeed \in Speeds =>
            \E w \in {"speed", "ospeed"} : <<w, given.t.ospeed>> \in Stty!Range(o)
  BY <1>1, SpeedsTold
<1>13. on = {m \in Stty!Range(Modes) : <<m>> \in Stty!Range(o)}
  BY <1>2, <1>9
<1>14. Stty!Range(Modes) \ on = {m \in Stty!Range(Modes) : <<"-", m>> \in Stty!Range(o)}
  BY <1>2, <1>10
<1> QED BY <1>11, <1>12, <1>13, <1>14 DEF SttyTold

Settled ==
  prog = "stty" =>
    /\ given.t \in Stty!Settings
    /\ status = "running" => pc = "start"
    /\ status = "zero" /\ given.asked = "-a" => SttyTold(out)

LEMMA SettledNext == Settled /\ [prog = "stty" /\ Stty!Next]_(Stty!vars) => Settled'
<1>. SUFFICES ASSUME Settled, [prog = "stty" /\ Stty!Next]_(Stty!vars), prog' = "stty"
              PROVE  Settled'
  BY DEF Settled
<1>1. CASE UNCHANGED Stty!vars
  BY <1>1 DEF Settled, SttyTold, Stty!vars
<1>2. CASE prog = "stty" /\ Stty!DumpSettings
  <2>1. Stty!SttyAssumption /\ given.t \in Stty!Settings
    BY <1>2, CommandsAssumption DEF Settled
  <2>2. SttyTold(out')
    <3>1. PICK o : o = out'
      OBVIOUS
    <3>2. o = Stty!dump_speed \o Stty!dump_modes \o Stty!dump_delays \o Stty!dump_controls
      BY <1>2, <3>1 DEF Stty!DumpSettings
    <3>3. SttyTold(o)
      BY <2>1, <3>2, DumpTells
    <3> QED BY <3>1, <3>3
  <2>3. given' = given /\ status' = "zero"
    BY <1>2 DEF Stty!DumpSettings, Stty!Exit
  <2> QED BY <2>1, <2>2, <2>3 DEF Settled, SttyTold
<1>3. CASE prog = "stty" /\ (Stty!DumpSpeed \/ Stty!Operands \/ Stty!Usage \/ Stty!Fails)
  <2>1. /\ given' = given /\ status' # "running"
        /\ status' = "zero" => given.asked # "-a"
    BY <1>3 DEF Stty!DumpSpeed, Stty!Operands, Stty!Usage, Stty!Fails, Stty!Exit
  <2> QED BY <1>3, <2>1 DEF Settled
<1> QED BY <1>1, <1>2, <1>3 DEF Stty!Next

\* stty alone takes steps while it runs.
LEMMA SttySteps ==
  ASSUME [Next]_vars
  PROVE  [prog = "stty" /\ Stty!Next]_(Stty!vars) \/ prog # "stty"
BY DEF Next, KillStep, PwdStep, OtherStep, vars, Stty!vars

\* What stty -a writes tells every setting of the terminal, whichever modes,
\* delays, control characters and speeds the tables of stty.h have: a mode is
\* there as on or as off, never as both, and a control character can be told
\* from what is written, but 255 (stty.c:69-118, 233-236).
THEOREM SettingsTold == Spec => []SttyTellsSettings
<1>1. Init => Settled
  BY DEF Init, Settled, Kill!Init, Pwd!Init, Id!Init, Line!Init, Echo!Init, Date!Init, Stty!Init
<1>2. Settled /\ [Next]_vars => Settled'
  <2>. SUFFICES ASSUME Settled, [Next]_vars
                PROVE  Settled'
    OBVIOUS
  <2>1. CASE prog = "stty"
    BY <2>1, SettledNext, SttySteps
  <2>2. CASE prog # "stty"
    <3>1. prog' # "stty"
      BY <2>2, ProgStays
    <3> QED BY <3>1 DEF Settled
  <2> QED BY <2>1, <2>2
<1>3. Settled => SttyTellsSettings
  BY DEF Settled, SttyTold, SttyTellsSettings, Stty!SttyTellsSettings, Stty!t
<1> QED BY <1>1, <1>2, <1>3, PTL DEF Spec
=============================================================================
