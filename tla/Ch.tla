--------------------------------- MODULE Ch ---------------------------------
(***************************************************************************)
(* chown.c and chgrp.c, with ch.h, and chmod.c: change the owner, group or *)
(* mode of files, and with -R of the files below them.  chown and chgrp    *)
(* pick the functions they call for an operand and during the walk from    *)
(* one table, by the options; chgrp differs in the options it refuses      *)
(* together and in what the walk does with errors.  chmod is the same      *)
(* program with one option and the functions chmod() and stat().           *)
(***************************************************************************)
EXTENDS Naturals, Sequences, Nftw

CONSTANTS
  Progs,        \* the programs
  Operand,      \* the files the operands may name
  MaxArgs, MaxOptions

ChAssumption ==
  /\ NftwAssumption /\ Operand \subseteq Node
  /\ MaxArgs \in Nat \ {0} /\ MaxOptions \in Nat

Option == {"h", "H", "L", "P", "R"}

\* A row of funcs[] (ch.h): the functions called on an operand, to tell
\* whether it is a directory, and during the walk, and the walk's FTW_PHYS.
Call(st, ch, rch, phys) == [stfn |-> st, chfn |-> ch, rchfn |-> rch, phys |-> phys]

\* chmod has no table: it calls chmod() and stat(), and walks with FTW_PHYS.
chmodCall == Call("stat", "chmod", "chmod", TRUE)

default == [chown |-> Call("NULL", "chown", "NULL", FALSE),
            chgrp |-> Call("NULL", "chown", "NULL", FALSE),
            chmod |-> chmodCall]

Options(p) == IF p = "chmod" THEN {"R"} ELSE Option

walkFn_FollowsLinks == "chown"
walkFn == "lchown"

funcs ==
  [H |-> Call("stat", "chown", "lchown", TRUE),
   L |-> Call("stat", "chown", "chown", FALSE),
   h |-> Call("NULL", "lchown", "NULL", FALSE),
   P |-> Call("lstat", "lchown", walkFn, TRUE)]

VARIABLES
  prog,        \* the program that is run
  options, args,
  o, a,        \* the options and operands dealt with
  flags,       \* the set of flags[] that are 1
  call,
  denied,      \* the files whose owner may not be changed
  changed,     \* the files that have been changed
  failed,      \* a change or the walk has failed
  ret, pc, status

given == <<prog, options, args, denied, shut>>
result == <<changed, failed, ret>>
vars == <<given, o, a, flags, call, walk, result, pc, status>>

Init ==
  /\ prog \in Progs \intersect DOMAIN default
  /\ options \in UNION {[1..n -> Options(prog)] : n \in 0..MaxOptions}
  /\ args \in UNION {[1..n -> Operand] : n \in 1..MaxArgs}
  /\ \E f \in Faults : denied = f.denied /\ shut = f.shut
  /\ o = 0 /\ a = 0 /\ flags = {} /\ call = default[prog]
  /\ todo = {} /\ entered = {} /\ changed = {} /\ failed = FALSE
  /\ ret = 0 /\ pc = "options" /\ status = "running"

Exit(s) ==
  /\ pc' = "exited" /\ status' = s
  /\ UNCHANGED <<given, o, a, flags, call, walk, result>>
-----------------------------------------------------------------------------
\* Each option of chown and chgrp sets its flag and replaces the whole of
\* call, -R as if it were -L.
NextOption ==
  /\ pc = "options" /\ o < Len(options)
  /\ LET opt == options[o+1] IN
       /\ flags' = flags \union {opt}
       /\ call' = IF prog = "chmod" THEN call
                  ELSE funcs[IF opt = "R" THEN "L" ELSE opt]
  /\ o' = o + 1
  /\ UNCHANGED <<given, a, walk, result, pc, status>>

\* chgrp compares a sum of two flags with 2.
BothHAndR == prog = "chown" /\ {"h", "R"} \subseteq flags

BadOptions ==
  \/ BothHAndR
  \/ "R" \notin flags /\ {"H", "L", "P"} \intersect flags # {}

OptionsEnd == pc = "options" /\ o = Len(options)

Usage == OptionsEnd /\ BadOptions /\ Exit("one")

\* xstrtouid(), xstrtogid() or parsemode(), external, knows the name or mode,
\* or the program exits.
Names ==
  /\ OptionsEnd /\ ~BadOptions
  /\ a' = 1 /\ pc' = "change"
  /\ UNCHANGED <<given, o, flags, call, walk, result, status>>

NamesFail == OptionsEnd /\ ~BadOptions /\ Exit("error")
-----------------------------------------------------------------------------
\* The file the system call fn, external, changes when given n.
Subject(fn, n) == IF fn = "lchown" THEN n ELSE Resolved(n)

CanChange(fn, n) == Subject(fn, n) \notin denied \union {Nothing}

\* One call of it on n; count tells whether the caller sets ret when it fails.
TryChange(fn, n, count) ==
  IF CanChange(fn, n)
  THEN changed' = changed \union {Subject(fn, n)} /\ UNCHANGED <<failed, ret>>
  ELSE /\ failed' = TRUE /\ ret' = (IF count THEN 1 ELSE ret)
       /\ UNCHANGED changed

NextOperand == IF a < Len(args) THEN a' = a + 1 /\ pc' = "change"
               ELSE pc' = "exit" /\ UNCHANGED a

Failed == failed' = TRUE /\ ret' = 1 /\ UNCHANGED changed

Change ==
  /\ pc = "change"
  /\ TryChange(call.chfn, args[a], TRUE)
  /\ IF CanChange(call.chfn, args[a]) /\ "R" \in flags
     THEN pc' = "stat" /\ UNCHANGED a ELSE NextOperand
  /\ UNCHANGED <<given, o, flags, call, walk, status>>

\* Only a directory is walked.
StatFile_Lstat == args[a]
StatFile == IF call.stfn = "lstat" THEN args[a] ELSE Resolved(args[a])

Stat ==
  /\ pc = "stat" /\ call.stfn # "NULL"
  /\ IF StatFile \in Dir
     THEN Begin(args[a]) /\ pc' = "walk" /\ UNCHANGED a
     ELSE NextOperand /\ UNCHANGED walk
  /\ UNCHANGED <<given, o, flags, call, result, status>>

StatFails ==
  /\ pc = "stat" /\ call.stfn # "NULL"
  /\ Failed /\ NextOperand
  /\ UNCHANGED <<given, o, flags, call, walk, status>>

\* Calling a function that is NULL ends the program.
StatNull == pc = "stat" /\ call.stfn = "NULL" /\ Exit("crash")

\* Whether the callback of the walk sets ret: wchown does not.
WalkFailureCounts_Never == FALSE
WalkFailureCounts == prog # "chown"

\* nftw() comes to n and calls wchown, wchgrp or wchmod, unless it is a
\* directory it has been in.  They do not look at info, which tells of a
\* directory that cannot be opened.
Visit(n) ==
  /\ pc = "walk" /\ Pass(n, call.phys)
  /\ IF Reported(n, call.phys)
     THEN TryChange(call.rchfn, n, WalkFailureCounts) ELSE UNCHANGED result
  /\ UNCHANGED <<given, o, a, flags, call, pc, status>>

WalkEnd ==
  /\ pc = "walk" /\ todo = {}
  /\ NextOperand
  /\ UNCHANGED <<given, o, flags, call, walk, result, status>>

\* nftw() returns -1 in the middle of the walk.
AfterFailure_Retry == Begin(args[a]) /\ UNCHANGED <<a, pc>>
AfterFailure == NextOperand /\ todo' = {} /\ UNCHANGED entered

WalkFails ==
  /\ pc = "walk" /\ todo # {}
  /\ Failed /\ AfterFailure
  /\ UNCHANGED <<given, o, flags, call, status>>

Finish == pc = "exit" /\ Exit(IF ret = 0 THEN "zero" ELSE "one")

Next ==
  \/ NextOption \/ Usage \/ Names \/ NamesFail
  \/ Change \/ Stat \/ StatFails \/ StatNull
  \/ \E n \in Node : Visit(n)
  \/ WalkEnd \/ WalkFails \/ Finish

Spec == Init /\ [][Next]_vars
-----------------------------------------------------------------------------
TypeOK ==
  /\ o \in 0..MaxOptions /\ a \in 0..MaxArgs
  /\ flags \subseteq Option
  /\ call \in {default[prog]} \union {funcs[opt] : opt \in DOMAIN funcs}
  /\ todo \subseteq Node /\ entered \subseteq Dir /\ changed \subseteq Node
  /\ failed \in BOOLEAN /\ ret \in {0, 1}
  /\ pc \in {"options", "change", "stat", "walk", "exit", "exited"}
  /\ status \in {"running", "zero", "one", "error", "crash"}

Given(opt) == \E j \in 1..Len(options) : options[j] = opt

\* How links are treated (chown.c:11, chgrp.c:10, -R [-H | -L | -P]): the last
\* of the three; which it is without them is left to the program, chown.c:64.
Mode ==
  LET at == {j \in 1..Len(options) : options[j] \in {"H", "L", "P"}} IN
    IF at = {} THEN "L" ELSE options[CHOOSE j \in at : \A k \in at : k <= j]

\* The files the options select, of those below n: all, or, when reading is
\* TRUE, those that can be reached in spite of directories that are shut.
Files(n, phys, reading) == IF reading THEN Reached(n, phys, {}) ELSE Below[phys][n]

Selected(n, reading) ==
  IF ~Given("R") THEN (IF Given("h") THEN {n} ELSE {Resolved(n)})
  ELSE IF prog = "chmod" THEN {Resolved(m) : m \in Files(n, TRUE, reading)}
  ELSE IF Mode \in {"H", "P"} THEN Files(n, TRUE, reading)
  ELSE {Resolved(m) : m \in Files(n, FALSE, reading)}

AllSelected(reading) ==
  (UNION {Selected(args[j], reading) : j \in 1..Len(args)}) \ {Nothing}

\* The command lines the properties below are about.  Not those with which the
\* programs do something else than their usage texts offer: -h with -R
\* (chgrp.c:67); -R behind -H or -P, which undoes these (chown.c:64); and with
\* -H, or chmod, a link as operand of -R, which is not walked (chown.c:95,
\* chmod.c:70).
Covered ==
  /\ ~(Given("h") /\ Given("R"))
  /\ Given("R") /\ prog # "chmod" /\ Mode # "L" => options[Len(options)] # "R"
  /\ Given("R") /\ (prog = "chmod" \/ Mode = "H") =>
       \A j \in 1..Len(args) : args[j] \notin Link

\* At no time is a file changed that the options do not select: -P changes
\* no file outside of the tree through a link, -h not the target, -L no link
\* itself (ch.h:18-22, where a row combines four settings); chmod does change
\* the files links in the tree lead to, but goes no further there.
ChangesOnlySelected == Covered => changed \subseteq AllSelected(FALSE)

\* All of them are changed when nothing failed, whatever the order of the
\* walk and also when links lead in a circle.  Not those that only directories
\* lead to which cannot be opened: that the walk misses them is no failure to
\* the programs (chown.c:19, chgrp.c:19, chmod.c:18 ignore info).
ChangesAllSelected ==
  pc = "exited" /\ status \in {"zero", "one"} /\ ~failed /\ ~BadOptions /\ Covered
    => AllSelected(TRUE) \subseteq changed

\* chgrp.c:10 gives -h and -R as alternatives: with both, chgrp does not call
\* the stat function that the row of -h does not have.
ChgrpNeverCallsNull == prog = "chgrp" => status # "crash"

\* chgrp and chmod that exit with zero have changed all that was selected: a
\* failure in the walk gets past a callback that always returns 0
\* (chgrp.c:19-24, chmod.c:18-23).  Not so with chown (chown.c:19-20), nor, in
\* any of them, the content of directories that cannot be opened.
ZeroMeansAllChanged ==
  prog # "chown" /\ status = "zero" /\ Covered => AllSelected(TRUE) \subseteq changed
=============================================================================
