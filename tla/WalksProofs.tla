---------------------------- MODULE WalksProofs ----------------------------
(***************************************************************************)
(* Theorems about the programs in Walks, chown, chgrp and chmod and, at    *)
(* the end, du: for every tree, with links anywhere in it, all options,    *)
(* operands and failures.                                                  *)
(***************************************************************************)
EXTENDS Walks, Recursion, SequenceTheorems

\* While one of the three runs, its own steps are the only ones.
LEMMA ChSteps ==
  ASSUME [Next]_vars, prog' # "du"
  PROVE  prog # "du" /\ [Ch!Next]_(Ch!vars)
<1>1. CASE ChStep
  BY <1>1 DEF ChStep
<1>2. CASE DuStep
  <2>1. UNCHANGED prog
    BY <1>2 DEF DuStep, Du!Next, Du!given, Du!Exit, Du!NextOption, Du!Usage, Du!BadBlocksize,
      Du!Start, Du!Visit, Du!VisitUnstated, Du!WalkEnd, Du!WalkFails, Du!AfterWalk, Du!Open,
      Du!LstatFails, Du!ReaddirFinds, Du!ReaddirMisses, Du!Total, Du!Finish
  <2> QED BY <1>2, <2>1 DEF DuStep
<1>3. CASE UNCHANGED vars
  BY <1>3 DEF vars, chVars, Ch!vars, Ch!given, Ch!result, Ch!walk
<1> QED BY <1>1, <1>2, <1>3 DEF Next
-----------------------------------------------------------------------------
(***************************************************************************)
(* The row of the table that the options choose.                           *)
(***************************************************************************)
Chosen ==
  /\ prog \in {"chown", "chgrp", "chmod"}
  /\ options \in Seq(Ch!Option) /\ args \in Seq(Node) /\ Len(args) > 0
  /\ prog = "chmod" => \A j \in 1..Len(options) : options[j] = "R"
  /\ o \in 0..Len(options)
  /\ flags = {options[j] : j \in 1..o}
  /\ call = IF prog = "chmod" \/ o = 0 THEN Ch!default[prog]
            ELSE Ch!funcs[IF options[o] = "R" THEN "L" ELSE options[o]]
  /\ pc \notin {"options", "exited"} => o = Len(options) /\ ~Ch!BadOptions
  /\ pc \in {"change", "stat", "walk"} => a \in 1..Len(args)
  /\ pc \in {"stat", "walk"} => "R" \in flags

LEMMA FunctionSeq ==
  ASSUME NEW S, NEW m, NEW f \in UNION {[1..n -> S] : n \in 0..m}, m \in Nat
  PROVE  f \in Seq(S)
<1>1. PICK n \in 0..m : f \in [1..n -> S]
  OBVIOUS
<1> QED BY <1>1, SeqDef

LEMMA ChosenInit == Ch!Init => Chosen
<1> SUFFICES ASSUME Ch!Init PROVE Chosen
  OBVIOUS
<1> USE WalksAssumption DEF Ch!ChAssumption
<1>1. prog \in {"chown", "chgrp", "chmod"}
  BY DEF Ch!Init, Ch!default
<1>2. options \in Seq(Ch!Options(prog))
  BY FunctionSeq DEF Ch!Init
<1>3. args \in Seq(Node) /\ Len(args) > 0
  <2>1. PICK n \in 1..MaxArgs : args \in [1..n -> Operand]
    BY DEF Ch!Init
  <2>2. args \in [1..n -> Node] /\ n \in Nat
    BY <2>1
  <2>3. args \in Seq(Node) /\ Len(args) = n
    BY <2>2, SeqDef
  <2> QED BY <2>3
<1>4. options \in Seq(Ch!Option)
  <2>1. options \in UNION {[1..n -> Ch!Option] : n \in 0..MaxOptions}
    BY DEF Ch!Init, Ch!Options, Ch!Option
  <2> QED BY <2>1, FunctionSeq
<1>5. prog = "chmod" => \A j \in 1..Len(options) : options[j] = "R"
  <2>1. ASSUME prog = "chmod" PROVE options \in Seq({"R"})
    BY <1>2, <2>1 DEF Ch!Options
  <2> QED BY <2>1
<1>6. Len(options) \in Nat
  BY <1>4
<1> QED BY <1>1, <1>3, <1>4, <1>5, <1>6 DEF Ch!Init, Chosen, Ch!default

LEMMA ChosenNext == Chosen /\ [Ch!Next]_(Ch!vars) => Chosen'
<1> SUFFICES ASSUME Chosen, [Ch!Next]_(Ch!vars) PROVE Chosen'
  OBVIOUS
<1>0. Len(options) \in Nat /\ Len(args) \in Nat
  BY DEF Chosen
<1> USE DEF Chosen, Ch!BadOptions, Ch!BothHAndR, Ch!given, Ch!result, Ch!Exit, Ch!NextOperand
<1>1. CASE Ch!NextOption
  <2>1. options[o+1] \in Ch!Option /\ o + 1 \in 1..Len(options)
    BY <1>0, <1>1 DEF Ch!NextOption
  <2>2. flags' = {options[j] : j \in 1..o+1}
    <3>1. 1..o+1 = (1..o) \union {o+1}
      BY <1>0
    <3> QED BY <1>1, <3>1 DEF Ch!NextOption
  <2>3. call' = IF prog = "chmod" \/ o + 1 = 0 THEN Ch!default[prog]
                ELSE Ch!funcs[IF options[o+1] = "R" THEN "L" ELSE options[o+1]]
    BY <1>0, <1>1 DEF Ch!NextOption
  <2> QED BY <1>0, <1>1, <2>1, <2>2, <2>3 DEF Ch!NextOption
<1>2. CASE Ch!Usage \/ Ch!NamesFail
  BY <1>2 DEF Ch!Usage, Ch!NamesFail, Ch!OptionsEnd
<1>3. CASE Ch!Names
  <2>1. UNCHANGED <<prog, options, args, o, flags, call>>
    BY <1>3 DEF Ch!Names
  <2>2. a' = 1 /\ pc' = "change" /\ o = Len(options) /\ ~Ch!BadOptions
    BY <1>3 DEF Ch!Names, Ch!OptionsEnd
  <2>3. 1 \in 1..Len(args)
    BY <1>0
  <2> QED BY <2>1, <2>2, <2>3
<1>4. CASE Ch!Change
  <2>1. UNCHANGED <<prog, options, args, o, flags, call, status>>
    BY <1>4 DEF Ch!Change
  <2>2. a' \in 1..Len(args) \/ pc' = "exit"
    BY <1>0, <1>4 DEF Ch!Change
  <2>3. pc' \in {"change", "exit"} \/ (pc' = "stat" /\ "R" \in flags)
    BY <1>4 DEF Ch!Change
  <2> QED BY <1>4, <2>1, <2>2, <2>3 DEF Ch!Change
<1>5. CASE Ch!Stat \/ Ch!StatFails
  BY <1>0, <1>5 DEF Ch!Stat, Ch!StatFails
<1>6. CASE Ch!StatNull \/ Ch!Finish
  BY <1>6 DEF Ch!StatNull, Ch!Finish
<1>7. ASSUME NEW n \in Node, Ch!Visit(n) PROVE Chosen'
  BY <1>7 DEF Ch!Visit
<1>8. CASE Ch!WalkEnd \/ Ch!WalkFails
  BY <1>0, <1>8 DEF Ch!WalkEnd, Ch!WalkFails, Ch!AfterFailure
<1>9. CASE UNCHANGED Ch!vars
  BY <1>9 DEF Ch!vars
<1> QED BY <1>1, <1>2, <1>3, <1>4, <1>5, <1>6, <1>7, <1>8, <1>9 DEF Ch!Next
-----------------------------------------------------------------------------
(***************************************************************************)
(* The status.                                                             *)
(***************************************************************************)
Told ==
  /\ prog # "chown" /\ failed => ret = 1
  /\ pc # "exited" => status = "running"
  /\ status = "zero" => ret = 0 /\ ~Ch!BadOptions

LEMMA ToldNext == Chosen /\ Told /\ [Ch!Next]_(Ch!vars) => Told'
<1> SUFFICES ASSUME Chosen, Told, [Ch!Next]_(Ch!vars) PROVE Told'
  OBVIOUS
<1> USE DEF Told, Ch!given, Ch!result, Ch!Exit
<1>1. CASE Ch!NextOption
  BY <1>1 DEF Ch!NextOption
<1>2. CASE Ch!Usage \/ Ch!Names \/ Ch!NamesFail
  BY <1>2 DEF Ch!Usage, Ch!Names, Ch!NamesFail, Ch!OptionsEnd
<1>3. CASE Ch!Change
  BY <1>3 DEF Ch!Change, Ch!TryChange, Ch!NextOperand
<1>4. CASE Ch!Stat \/ Ch!StatFails \/ Ch!StatNull
  BY <1>4 DEF Ch!Stat, Ch!StatFails, Ch!StatNull, Ch!Failed, Ch!NextOperand
<1>5. ASSUME NEW n \in Node, Ch!Visit(n) PROVE Told'
  BY <1>5 DEF Ch!Visit, Ch!TryChange, Ch!WalkFailureCounts
<1>6. CASE Ch!WalkEnd \/ Ch!WalkFails
  BY <1>6 DEF Ch!WalkEnd, Ch!WalkFails, Ch!Failed, Ch!AfterFailure, Ch!NextOperand
<1>7. CASE Ch!Finish
  BY <1>7 DEF Ch!Finish, Chosen, Ch!BadOptions, Ch!BothHAndR
<1>8. CASE UNCHANGED Ch!vars
  BY <1>8 DEF Ch!vars, Ch!BadOptions, Ch!BothHAndR
<1> QED BY <1>1, <1>2, <1>3, <1>4, <1>5, <1>6, <1>7, <1>8 DEF Ch!Next
-----------------------------------------------------------------------------
(***************************************************************************)
(* What that row does is what the options ask for.                         *)
(***************************************************************************)
Within(n) == Below[call.phys][n]
Open(n) == Ch!Reached(n, call.phys, {})

\* The files a walk from n may change, and those it is to.
WalkChanges(n) == {Ch!Subject(call.rchfn, m) : m \in Within(n)}
OpenChanges(n) == {Ch!Subject(call.rchfn, m) : m \in Open(n)}

LEMMA LastOption ==
  ASSUME Chosen, pc \notin {"options", "exited"}
  PROVE  /\ \A opt : Ch!Given(opt) <=> opt \in flags
         /\ options # <<>> =>
              Len(options) \in 1..Len(options) /\ options[Len(options)] \in flags \intersect Ch!Option
         /\ options = <<>> <=> Len(options) = 0
<1>1. Len(options) \in Nat /\ o = Len(options) /\ options \in Seq(Ch!Option)
  BY DEF Chosen
<1>2. \A opt : Ch!Given(opt) <=> opt \in flags
  BY <1>1 DEF Chosen, Ch!Given
<1>3. options = <<>> <=> Len(options) = 0
  BY <1>1, EmptySeq
<1>4. ASSUME options # <<>>
      PROVE  /\ Len(options) \in 1..Len(options)
             /\ options[Len(options)] \in flags \intersect Ch!Option
  <2>1. Len(options) \in 1..Len(options)
    BY <1>1, <1>3, <1>4
  <2>2. options[Len(options)] \in flags
    BY <1>1, <2>1 DEF Chosen
  <2>3. options[Len(options)] \in Ch!Option
    BY <1>1, <2>1
  <2> QED BY <2>1, <2>2, <2>3
<1> QED BY <1>2, <1>3, <1>4

\* Without -R.
LEMMA OperandOnly ==
  ASSUME Chosen, pc \notin {"options", "exited"}, "R" \notin flags, NEW n \in Node, NEW reading
  PROVE  Ch!Selected(n, reading) = {Ch!Subject(call.chfn, n)}
<1>1. ~Ch!Given("R") /\ (Ch!Given("h") <=> "h" \in flags)
  BY LastOption
<1>2. flags \intersect {"H", "L", "P"} = {}
  BY DEF Chosen, Ch!BadOptions
<1>3. CASE prog = "chmod"
  <2>1. options = <<>>
    BY <1>1, <1>3, LastOption DEF Chosen, Ch!Given
  <2>2. "h" \notin flags
    BY <2>1, LastOption DEF Ch!Given
  <2> QED BY <1>1, <1>3, <2>2 DEF Chosen, Ch!Selected, Ch!Subject, Ch!default, Ch!chmodCall, Ch!Call
<1>4. CASE prog # "chmod" /\ options = <<>>
  <2>1. "h" \notin flags /\ o = 0
    BY <1>4, LastOption DEF Ch!Given, Chosen
  <2> QED BY <1>1, <1>4, <2>1 DEF Chosen, Ch!Selected, Ch!Subject, Ch!default, Ch!Call
<1>5. CASE prog # "chmod" /\ options # <<>>
  <2>1. options[Len(options)] = "h" /\ o = Len(options) /\ o # 0
    BY <1>2, <1>5, LastOption DEF Chosen, Ch!Option
  <2>2. call.chfn = "lchown" /\ "h" \in flags
    BY <1>5, <2>1, LastOption DEF Chosen, Ch!funcs, Ch!Call
  <2> QED BY <1>1, <2>2 DEF Ch!Selected, Ch!Subject
<1> QED BY <1>3, <1>4, <1>5

\* With -R: the walk from n, which is only made when n is a directory.
LEMMA WalkAsAsked ==
  ASSUME Chosen, pc \notin {"options", "exited"}, "R" \in flags, Ch!Covered, 
         NEW j \in 1..Len(args), NEW n, n = args[j]
  PROVE  /\ n \in Node /\ call.phys \in BOOLEAN
         /\ Ch!Selected(n, FALSE) = WalkChanges(n) /\ Ch!Selected(n, TRUE) = OpenChanges(n)
         /\ Ch!Subject(call.chfn, n) = Ch!Subject(call.rchfn, n)
         /\ (IF call.stfn = "lstat" THEN n ELSE Ch!Resolved(n)) = Ch!File(n, call.phys)
         /\ ~call.phys => call.rchfn = "chown"
<1>0. n \in Node
  BY DEF Chosen
<1>1. Ch!Given("R") /\ ~Ch!Given("h")
  BY LastOption DEF Ch!Covered
<1>2. options # <<>> /\ options[Len(options)] \in {"R", "H", "L", "P"} /\ o = Len(options) /\ o # 0
  <2>1. options # <<>>
    BY <1>1, LastOption DEF Ch!Given
  <2>2. options[Len(options)] # "h"
    BY <1>1, <2>1, LastOption
  <2> QED BY <2>1, <2>2, LastOption DEF Ch!Option, Chosen
<1>m. options[Len(options)] = "R" => prog = "chmod" \/ Ch!Mode = "L"
  BY <1>1 DEF Ch!Covered
<1>n. options[Len(options)] # "R" => Ch!Mode = options[Len(options)]
  <2> DEFINE at == {k \in 1..Len(options) : options[k] \in {"H", "L", "P"}}
  <2>1. SUFFICES ASSUME options[Len(options)] # "R" PROVE Ch!Mode = options[Len(options)]
    OBVIOUS
  <2>2. Len(options) \in Nat /\ Len(options) \in at
    BY <1>2, <2>1, LastOption DEF Chosen
  <2>3. \A k \in at : k \in Int /\ k <= Len(options)
    BY <2>2
  <2>4. \A j1 \in at : (\A k \in at : k <= j1) => j1 = Len(options)
    BY <2>2, <2>3
  <2>5. Ch!Mode = options[CHOOSE j1 \in at : \A k \in at : k <= j1]
    BY <2>2 DEF Ch!Mode
  <2> HIDE DEF at
  <2> QED BY <2>2, <2>3, <2>4, <2>5
<1>3. CASE prog = "chmod"
  <2>1. n \notin Ch!Link
    BY <1>1, <1>3 DEF Ch!Covered
  <2>2. call.stfn = "stat" /\ call.chfn = "chmod" /\ call.rchfn = "chmod" /\ call.phys = TRUE
    BY <1>3 DEF Chosen, Ch!default, Ch!chmodCall, Ch!Call
  <2> QED BY <1>0, <1>1, <1>3, <2>1, <2>2 DEF Ch!Selected, Ch!Files, WalkChanges, Within, OpenChanges,
        Open, Ch!Subject, Ch!Resolved, Ch!File
<1>4. CASE prog # "chmod" /\ Ch!Mode = "H"
  <2>1. n \notin Ch!Link
    BY <1>1, <1>4 DEF Ch!Covered
  <2>2. call.stfn = "stat" /\ call.chfn = "chown" /\ call.rchfn = "lchown" /\ call.phys = TRUE
    BY <1>2, <1>4, <1>m, <1>n DEF Chosen, Ch!funcs, Ch!Call
  <2> QED BY <1>0, <1>1, <1>4, <2>1, <2>2 DEF Ch!Selected, Ch!Files, WalkChanges, Within, OpenChanges,
        Open, Ch!Subject, Ch!Resolved, Ch!File
<1>5. CASE prog # "chmod" /\ Ch!Mode = "P"
  <2>1. call.stfn = "lstat" /\ call.chfn = "lchown" /\ call.rchfn = "lchown" /\ call.phys = TRUE
    BY <1>2, <1>5, <1>m, <1>n DEF Chosen, Ch!funcs, Ch!Call, Ch!walkFn
  <2> QED BY <1>0, <1>1, <1>5, <2>1 DEF Ch!Selected, Ch!Files, WalkChanges, Within, OpenChanges, Open,
        Ch!Subject, Ch!File
<1>6. CASE prog # "chmod" /\ Ch!Mode = "L"
  <2>1. call.stfn = "stat" /\ call.chfn = "chown" /\ call.rchfn = "chown" /\ call.phys = FALSE
    BY <1>2, <1>6, <1>m, <1>n DEF Chosen, Ch!funcs, Ch!Call
  <2> QED BY <1>0, <1>1, <1>6, <2>1 DEF Ch!Selected, Ch!Files, WalkChanges, Within, OpenChanges, Open,
        Ch!Subject, Ch!File
<1> QED BY <1>2, <1>3, <1>4, <1>5, <1>6, <1>m, <1>n
-----------------------------------------------------------------------------
(***************************************************************************)
(* The files a walk reaches.                                               *)
(***************************************************************************)
LEMMA ReachedClosed ==
  ASSUME NEW phys \in BOOLEAN, NEW n \in Node, NEW m \in Below[phys][n]
  PROVE  Ch!Inside(m, phys) \subseteq Below[phys][n] /\ m \in Node
BY WalksAssumption DEF Ch!ChAssumption, Ch!NftwAssumption, Ch!Closed

\* A set of them that holds the first and is closed holds them all.
LEMMA ReachedLeast ==
  ASSUME NEW phys \in BOOLEAN, NEW n \in Node, NEW S, n \in S,
         \A m \in S \intersect Below[phys][n] : Ch!Inside(m, phys) \subseteq S
  PROVE  Below[phys][n] \subseteq S
<1> DEFINE T == S \intersect Below[phys][n]
<1>1. T \in SUBSET Below[phys][n] /\ n \in T
  BY WalksAssumption DEF Ch!ChAssumption, Ch!NftwAssumption
<1>2. Ch!Closed(T, phys)
  BY ReachedClosed DEF Ch!Closed
<1>3. T = Below[phys][n]
  BY <1>1, <1>2, WalksAssumption DEF Ch!ChAssumption, Ch!NftwAssumption
<1> QED BY <1>3

\* What is no directory to a walk is all it reaches.
LEMMA ReachedAlone ==
  ASSUME NEW phys \in BOOLEAN, NEW n \in Node, Ch!File(n, phys) \notin Ch!Dir
  PROVE  Below[phys][n] = {n}
<1>1. Below[phys][n] \subseteq {n}
  BY ReachedLeast DEF Ch!Inside
<1> QED BY <1>1, WalksAssumption DEF Ch!ChAssumption, Ch!NftwAssumption
\* The same of those it can open on its way.
LEMMA OpenHolds ==
  ASSUME NEW phys \in BOOLEAN, NEW n \in Node
  PROVE  /\ n \in Ch!Reached(n, phys, {}) /\ Ch!Reached(n, phys, {}) \subseteq Below[phys][n]
         /\ \A m \in Ch!Reached(n, phys, {}) : Ch!File(m, phys) \notin shut =>
              Ch!Inside(m, phys) \subseteq Ch!Reached(n, phys, {})
<1>1. n \in Below[phys][n]
  BY WalksAssumption DEF Ch!ChAssumption, Ch!NftwAssumption
<1>2. n \in Ch!Reached(n, phys, {}) /\ Ch!Reached(n, phys, {}) \subseteq Below[phys][n]
  BY <1>1 DEF Ch!Reached, Ch!Holds
<1>3. ASSUME NEW m \in Ch!Reached(n, phys, {}), Ch!File(m, phys) \notin shut,
             NEW c \in Ch!Inside(m, phys)
      PROVE  c \in Ch!Reached(n, phys, {})
  <2>1. c \in Below[phys][n]
    BY <1>2, <1>3, ReachedClosed
  <2>2. ASSUME NEW S \in SUBSET Below[phys][n], Ch!Holds(S, n, phys, {}) PROVE c \in S
    <3>1. m \in S
      BY <2>2 DEF Ch!Reached
    <3> QED BY <1>3, <2>2, <3>1 DEF Ch!Holds
  <2> QED BY <2>1, <2>2 DEF Ch!Reached
<1> QED BY <1>2, <1>3

LEMMA OpenLeast ==
  ASSUME NEW phys \in BOOLEAN, NEW n \in Node, NEW S, n \in S, S \subseteq Ch!Reached(n, phys, {}),
         \A m \in S : Ch!File(m, phys) \notin shut => Ch!Inside(m, phys) \subseteq S
  PROVE  Ch!Reached(n, phys, {}) \subseteq S
<1>1. S \in SUBSET Below[phys][n] /\ Ch!Holds(S, n, phys, {})
  BY OpenHolds DEF Ch!Holds
<1> QED BY <1>1 DEF Ch!Reached
-----------------------------------------------------------------------------
(***************************************************************************)
(* What is changed at each point, and what has been passed.                *)
(***************************************************************************)
At == args[a]

ChangesSelected ==
  Ch!Covered =>
    /\ changed \subseteq Ch!AllSelected(FALSE)
    /\ pc = "walk" => todo \subseteq Within(At)

LEMMA SelectedOfAll ==
  ASSUME NEW j \in 1..Len(args), NEW n, n \in Ch!Selected(args[j], FALSE), n # Nothing
  PROVE  n \in Ch!AllSelected(FALSE)
BY DEF Ch!AllSelected

\* One call on n changes what it must.
LEMMA OneChange ==
  ASSUME NEW fn, NEW n, NEW count, Ch!TryChange(fn, n, count), Ch!Covered,
         changed \subseteq Ch!AllSelected(FALSE),
         NEW j \in 1..Len(args), Ch!Subject(fn, n) \in Ch!Selected(args[j], FALSE)
  PROVE  changed' \subseteq Ch!AllSelected(FALSE)
BY SelectedOfAll DEF Ch!TryChange, Ch!CanChange

\* The commands themselves stay as they are.
LEMMA CommandStays ==
  ASSUME [Ch!Next]_(Ch!vars)
  PROVE  /\ UNCHANGED <<prog, options, args, denied, shut>>
         /\ Ch!Covered' = Ch!Covered /\ Ch!AllSelected(FALSE)' = Ch!AllSelected(FALSE)
<1>1. UNCHANGED <<prog, options, args, denied, shut>>
  BY DEF Ch!Next, Ch!vars, Ch!given, Ch!Exit, Ch!NextOption, Ch!Usage, Ch!Names, Ch!NamesFail,
    Ch!Change, Ch!Stat, Ch!StatFails, Ch!StatNull, Ch!Visit, Ch!WalkEnd, Ch!WalkFails, Ch!Finish
<1>2. Ch!Covered' = Ch!Covered
  BY <1>1 DEF Ch!Covered, Ch!Given, Ch!Mode
<1>3. Ch!AllSelected(FALSE)' = Ch!AllSelected(FALSE)
  BY <1>1 DEF Ch!AllSelected, Ch!Selected, Ch!Files, Ch!Given, Ch!Mode
<1> QED BY <1>1, <1>2, <1>3

LEMMA ChangeSelected ==
  ASSUME Chosen, ChangesSelected, Ch!Covered, Ch!Change
  PROVE  changed' \subseteq Ch!AllSelected(FALSE)
<1>1. pc = "change" /\ a \in 1..Len(args) /\ At \in Node /\ changed \subseteq Ch!AllSelected(FALSE)
  <2>1. pc = "change" /\ a \in 1..Len(args) /\ At \in Node
    BY DEF Ch!Change, Chosen, At
  <2>2. changed \subseteq Ch!AllSelected(FALSE)
    BY DEF ChangesSelected
  <2> QED BY <2>1, <2>2
<1>2. Ch!Subject(call.chfn, At) \in Ch!Selected(At, FALSE)
  <2>1. CASE "R" \notin flags
    BY <1>1, <2>1, OperandOnly
  <2>2. CASE "R" \in flags
    <3>1. At \in Within(At)
      BY <1>1, <2>2, WalkAsAsked, WalksAssumption DEF At, Within, Ch!ChAssumption,
        Ch!NftwAssumption
    <3> QED BY <1>1, <2>2, <3>1, WalkAsAsked DEF At, WalkChanges
  <2> QED BY <2>1, <2>2
<1> QED BY <1>1, <1>2, OneChange DEF Ch!Change, At

LEMMA VisitSelected ==
  ASSUME Chosen, ChangesSelected, Ch!Covered, NEW n \in Node, Ch!Visit(n)
  PROVE  changed' \subseteq Ch!AllSelected(FALSE) /\ todo' \subseteq Within(At)
<1>1. /\ pc = "walk" /\ a \in 1..Len(args) /\ "R" \in flags /\ At \in Node
      /\ changed \subseteq Ch!AllSelected(FALSE) /\ n \in Within(At)
  <2>1. pc = "walk" /\ n \in todo
    BY DEF Ch!Visit, Ch!Pass
  <2>2. a \in 1..Len(args) /\ "R" \in flags /\ At \in Node
    BY <2>1 DEF Chosen, At
  <2>3. changed \subseteq Ch!AllSelected(FALSE) /\ todo \subseteq Within(At)
    BY <2>1 DEF ChangesSelected
  <2> QED BY <2>1, <2>2, <2>3
<1>2. call.phys \in BOOLEAN /\ Ch!Selected(At, FALSE) = WalkChanges(At)
  BY <1>1, WalkAsAsked DEF At
<1>3. Ch!Subject(call.rchfn, n) \in Ch!Selected(At, FALSE)
  BY <1>1, <1>2 DEF WalkChanges
<1>4. changed' \subseteq Ch!AllSelected(FALSE)
  <2>1. CASE Ch!Reported(n, call.phys)
    BY <1>1, <1>3, <2>1, OneChange DEF Ch!Visit, At
  <2>2. CASE ~Ch!Reported(n, call.phys)
    BY <1>1, <2>2 DEF Ch!Visit, Ch!result
  <2> QED BY <2>1, <2>2
<1>5. todo' \subseteq Within(At)
  <2>1. Ch!Inside(n, call.phys) \subseteq Within(At)
    BY <1>1, <1>2, ReachedClosed DEF Within
  <2>2. todo' \subseteq todo \union Ch!Inside(n, call.phys)
    BY DEF Ch!Visit, Ch!Pass, Ch!Inside
  <2>3. todo \subseteq Within(At)
    BY <1>1 DEF ChangesSelected
  <2> QED BY <2>1, <2>2, <2>3
<1> QED BY <1>4, <1>5

LEMMA SelectedNext == Chosen /\ ChangesSelected /\ [Ch!Next]_(Ch!vars) => ChangesSelected'
<1> SUFFICES ASSUME Chosen, ChangesSelected, [Ch!Next]_(Ch!vars), Ch!Covered
             PROVE  changed' \subseteq Ch!AllSelected(FALSE) /\ (pc' = "walk" => todo' \subseteq Within(At)')
  BY CommandStays DEF ChangesSelected
<1>0. changed \subseteq Ch!AllSelected(FALSE)
  BY DEF ChangesSelected
<1> USE <1>0 DEF Ch!result, Ch!walk, Ch!Exit, Ch!NextOperand
<1>1. CASE Ch!NextOption \/ Ch!Usage \/ Ch!Names \/ Ch!NamesFail
  BY <1>1 DEF Ch!NextOption, Ch!Usage, Ch!Names, Ch!NamesFail, Ch!OptionsEnd
<1>2. CASE Ch!Change
  BY <1>2, ChangeSelected DEF Ch!Change
<1>3. CASE Ch!Stat
  <2>1. changed' = changed /\ call' = call /\ args' = args
    BY <1>3, CommandStays DEF Ch!Stat
  <2>2. ASSUME pc' = "walk" PROVE todo' = {At} /\ a' = a
    BY <1>3, <2>2 DEF Ch!Stat, Ch!Begin, At
  <2>3. At \in Within(At)
    BY <1>3, WalkAsAsked, WalksAssumption DEF At, Within, Ch!ChAssumption, Ch!NftwAssumption,
      Chosen, Ch!Stat
  <2> QED BY <2>1, <2>2, <2>3 DEF Within, At
<1>4. CASE Ch!StatFails \/ Ch!StatNull \/ Ch!Finish
  BY <1>4 DEF Ch!StatFails, Ch!StatNull, Ch!Finish, Ch!Failed
<1>5. ASSUME NEW n \in Node, Ch!Visit(n)
      PROVE  changed' \subseteq Ch!AllSelected(FALSE) /\ todo' \subseteq Within(At)'
  <2>1. UNCHANGED <<args, a, call>>
    BY <1>5, CommandStays DEF Ch!Visit
  <2> QED BY <1>5, <2>1, VisitSelected DEF Within, At
<1>6. CASE Ch!WalkEnd \/ Ch!WalkFails
  BY <1>6 DEF Ch!WalkEnd, Ch!WalkFails, Ch!Failed, Ch!AfterFailure
<1>7. CASE UNCHANGED Ch!vars
  BY <1>7 DEF Ch!vars, Ch!given, ChangesSelected, Within, At
<1> QED BY <1>1, <1>2, <1>3, <1>4, <1>5, <1>6, <1>7 DEF Ch!Next

\* chown, chgrp and chmod change no file their options do not select, in any
\* tree and whatever links are in it; command lines that are not Covered left
\* out (ch.h:18-22, chown.c:80-95).
THEOREM OnlySelectedChange == Spec => []ChangesOnlySelected
<1> DEFINE Inv == prog # "du" => Chosen /\ ChangesSelected
<1>1. Init => Inv
  BY ChosenInit DEF Init, Ch!Init, Du!Init, ChangesSelected
<1>2. Inv /\ [Next]_vars => Inv'
  BY ChSteps, ChosenNext, SelectedNext
<1>3. Inv => ChangesOnlySelected
  BY DEF ChangesOnlySelected, Ch!ChangesOnlySelected, ChangesSelected
<1> QED BY <1>1, <1>2, <1>3, PTL DEF Spec
-----------------------------------------------------------------------------
(***************************************************************************)
(* That nothing is left out.                                               *)
(***************************************************************************)

\* The walk has passed n or has still to: n is changed, and when it is a
\* directory its content has been queued.
Known(n) ==
  \/ n \in todo
  \/ /\ Ch!Subject(call.rchfn, n) \in changed
     /\ Ch!File(n, call.phys) \in Ch!Dir => Ch!File(n, call.phys) \in entered

WalkCovers ==
  /\ Known(At)
  /\ entered \subseteq Ch!Dir
  /\ \A d \in entered \ shut : \A n \in Children[d] : Known(n)
  /\ ~call.phys => entered \subseteq changed

\* The files selected of the operand n that the walk can reach; the operands
\* before k are done.
Asked(n) == Ch!Selected(n, TRUE)
Done(k) == \A j \in 1..Len(args) : j < k => Asked(args[j]) \ {Nothing} \subseteq changed

ChangesAll ==
  Ch!Covered /\ ~failed =>
    /\ pc \in {"change", "stat", "walk"} => Done(a)
    /\ pc \in {"stat", "walk"} => Ch!Subject(call.chfn, At) \in changed
    /\ pc = "walk" => WalkCovers
    /\ pc = "exit" => Done(Len(args) + 1)
    /\ pc = "exited" /\ status \in {"zero", "one"} /\ ~Ch!BadOptions => Done(Len(args) + 1)

\* What is done stays done.
LEMMA DoneStays ==
  ASSUME NEW k, Done(k), [Ch!Next]_(Ch!vars), changed \subseteq changed'
  PROVE  Done(k)'
<1>1. UNCHANGED <<prog, options, args, shut>>
  BY CommandStays
<1>2. \A n : Asked(n)' = Asked(n)
  BY <1>1 DEF Asked, Ch!Selected, Ch!Files, Ch!Reached, Ch!Holds, Ch!Given, Ch!Mode
<1> QED BY <1>1, <1>2 DEF Done

\* The operand that is done last completes them.
LEMMA NextDone ==
  ASSUME Chosen, Done(a), a \in 1..Len(args), Asked(At) \ {Nothing} \subseteq changed',
         [Ch!Next]_(Ch!vars), changed \subseteq changed', Ch!NextOperand
  PROVE  /\ pc' \in {"change", "stat", "walk"} => Done(a)'
         /\ pc' = "exit" => Done(Len(args) + 1)'
         /\ pc' \in {"change", "exit"}
<1>1. UNCHANGED <<prog, options, args, shut>>
  BY CommandStays
<1>2. \A n : Asked(n)' = Asked(n)
  BY <1>1 DEF Asked, Ch!Selected, Ch!Files, Ch!Reached, Ch!Holds, Ch!Given, Ch!Mode
<1>3. Len(args) \in Nat
  BY DEF Chosen
<1>4. \A j \in 1..Len(args) : j < a + 1 => Asked(args[j]) \ {Nothing} \subseteq changed'
  BY <1>3 DEF Done, At
<1>5. CASE a < Len(args)
  BY <1>1, <1>2, <1>4, <1>5 DEF Done, Ch!NextOperand
<1>6. CASE ~(a < Len(args))
  <2>1. a = Len(args)
    BY <1>3, <1>6
  <2> QED BY <1>1, <1>2, <1>4, <1>6, <2>1 DEF Done, Ch!NextOperand
<1> QED BY <1>5, <1>6

\* A walk with nothing left to visit has changed what it reaches.
LEMMA WalkComplete ==
  ASSUME call.phys \in BOOLEAN, At \in Node, WalkCovers, todo = {}
  PROVE  OpenChanges(At) \subseteq changed
<1> DEFINE S == {n \in Open(At) : Known(n)}
<1>1. At \in S
  BY OpenHolds DEF WalkCovers, Open
<1>2. ASSUME NEW m \in S, Ch!File(m, call.phys) \notin shut
      PROVE  Ch!Inside(m, call.phys) \subseteq S
  <2>1. Ch!Inside(m, call.phys) \subseteq Open(At)
    BY <1>2, OpenHolds DEF Open
  <2>2. CASE Ch!File(m, call.phys) \in Ch!Dir
    <3>1. Ch!File(m, call.phys) \in entered
      BY <2>2 DEF Known
    <3> QED BY <1>2, <2>1, <2>2, <3>1 DEF WalkCovers, Ch!Inside
  <2>3. CASE Ch!File(m, call.phys) \notin Ch!Dir
    BY <2>3 DEF Ch!Inside
  <2> QED BY <2>2, <2>3
<1>3. Open(At) \subseteq S
  <2>1. \A m \in S : Ch!File(m, call.phys) \notin shut => Ch!Inside(m, call.phys) \subseteq S
    BY <1>2
  <2>2. S \subseteq Ch!Reached(At, call.phys, {})
    BY DEF Open
  <2> HIDE DEF S
  <2> QED BY <1>1, <2>1, <2>2, OpenLeast DEF Open
<1> QED BY <1>3 DEF OpenChanges, Known

LEMMA VisitCovers ==
  ASSUME call.phys \in BOOLEAN, ~call.phys => call.rchfn = "chown", WalkCovers,
         NEW n \in Node, Ch!Visit(n), ~failed', UNCHANGED args
  PROVE  WalkCovers' /\ changed \subseteq changed'
<1> DEFINE file == Ch!File(n, call.phys)
<1>0. /\ UNCHANGED <<a, call, shut>> /\ n \in todo
      /\ entered' = entered \union ({file} \intersect (Ch!Dir \ entered))
      /\ todo' = (todo \ {n}) \union
                 UNION {Children[d] : d \in ({file} \intersect (Ch!Dir \ entered)) \ shut}
  BY DEF Ch!Visit, Ch!Pass, Ch!given
<1>1. changed \subseteq changed' /\ Ch!Subject(call.rchfn, n) \in changed'
  <2>1. CASE Ch!Reported(n, call.phys)
    BY <2>1 DEF Ch!Visit, Ch!TryChange
  <2>2. CASE ~Ch!Reported(n, call.phys)
    <3>1. ~call.phys /\ file \in entered /\ changed' = changed
      BY <2>2 DEF Ch!Visit, Ch!Reported, Ch!result
    <3>2. Ch!Subject(call.rchfn, n) = file
      BY <3>1 DEF Ch!Subject, Ch!File
    <3> QED BY <3>1, <3>2 DEF WalkCovers
  <2> QED BY <2>1, <2>2
<1>2. ASSUME NEW m, Known(m) PROVE Known(m)'
  <2>1. CASE m = n
    BY <1>0, <1>1, <2>1 DEF Known
  <2>2. CASE m # n
    BY <1>0, <1>1, <1>2, <2>2 DEF Known
  <2> QED BY <2>1, <2>2
<1>3. Known(At)'
  BY <1>0, <1>2 DEF WalkCovers, At
<1>4. ASSUME NEW d \in entered', d \notin shut'
      PROVE  \A m \in Children[d] : Known(m)'
  <2>1. CASE d \in entered
    BY <1>0, <1>2, <1>4, <2>1 DEF WalkCovers
  <2>2. CASE d \notin entered
    <3>1. Children[d] \subseteq todo'
      BY <1>0, <1>4, <2>2
    <3> QED BY <3>1 DEF Known
  <2> QED BY <2>1, <2>2
<1>5. ~call.phys' => entered' \subseteq changed'
  <2> SUFFICES ASSUME ~call.phys PROVE entered' \subseteq changed'
    BY <1>0
  <2>1. entered \subseteq changed'
    BY <1>1 DEF WalkCovers
  <2>2. Ch!Subject(call.rchfn, n) = file
    BY DEF Ch!Subject, Ch!File
  <2> QED BY <1>0, <1>1, <2>1, <2>2
<1>6. entered' \subseteq Ch!Dir
  BY <1>0 DEF WalkCovers
<1> QED BY <1>1, <1>3, <1>4, <1>5, <1>6 DEF WalkCovers

\* The steps that a failure does not make the properties empty.
LEMMA ChangeAll ==
  ASSUME Chosen, ChangesAll, Ch!Covered, Ch!Change, ~failed'
  PROVE  ChangesAll'
<1>0. /\ pc = "change" /\ a \in 1..Len(args) /\ At \in Node /\ ~failed
      /\ Done(a) /\ [Ch!Next]_(Ch!vars) /\ UNCHANGED <<args, call, flags, shut>>
  <2>1. pc = "change" /\ ~failed /\ UNCHANGED <<args, call, flags, shut>>
    BY DEF Ch!Change, Ch!TryChange, Ch!given
  <2>2. a \in 1..Len(args) /\ At \in Node
    BY <2>1 DEF Chosen, At
  <2>3. Done(a)
    BY <2>1 DEF ChangesAll
  <2> QED BY <2>1, <2>2, <2>3 DEF Ch!Next
<1>1. Ch!CanChange(call.chfn, At) /\ changed' = changed \union {Ch!Subject(call.chfn, At)}
  BY DEF Ch!Change, Ch!TryChange, At
<1>2. CASE "R" \in flags
  <2>1. pc' = "stat" /\ a' = a
    BY <1>1, <1>2 DEF Ch!Change, At
  <2>2. Done(a)'
    <3>1. Done(a)' <=> (\A j \in 1..Len(args) : j < a => Asked(args[j])' \ {Nothing} \subseteq changed')
      BY <1>0, <2>1 DEF Done
    <3>2. \A n : Asked(n)' = Asked(n)
      BY <1>0, CommandStays DEF Asked, Ch!Selected, Ch!Files, Ch!Reached, Ch!Holds, Ch!Given, Ch!Mode
    <3> QED BY <1>0, <1>1, <3>1, <3>2 DEF Done
  <2>3. Ch!Subject(call.chfn, At)' \in changed'
    BY <1>0, <1>1, <2>1 DEF At
  <2> QED BY <2>1, <2>2, <2>3 DEF ChangesAll
<1>3. CASE "R" \notin flags
  <2>1. Ch!NextOperand
    BY <1>3 DEF Ch!Change
  <2>2. Asked(At) \ {Nothing} \subseteq changed'
    BY <1>0, <1>1, <1>3, OperandOnly DEF Asked
  <2> QED BY <1>0, <1>1, <2>1, <2>2, NextDone DEF ChangesAll
<1> QED BY <1>2, <1>3

LEMMA StatAll ==
  ASSUME Chosen, ChangesAll, Ch!Covered, Ch!Stat, ~failed'
  PROVE  ChangesAll'
<1>0. /\ pc = "stat" /\ a \in 1..Len(args) /\ At \in Node /\ ~failed /\ "R" \in flags
      /\ Done(a) /\ [Ch!Next]_(Ch!vars) /\ UNCHANGED <<args, call, changed>>
      /\ Ch!Subject(call.chfn, At) \in changed
  <2>1. pc = "stat" /\ ~failed /\ UNCHANGED <<args, call, changed>>
    BY DEF Ch!Stat, Ch!given, Ch!result
  <2>2. a \in 1..Len(args) /\ At \in Node /\ "R" \in flags
    BY <2>1 DEF Chosen, At
  <2>3. Done(a) /\ Ch!Subject(call.chfn, At) \in changed
    BY <2>1 DEF ChangesAll
  <2> QED BY <2>1, <2>2, <2>3 DEF Ch!Next
<1>1. /\ call.phys \in BOOLEAN /\ Asked(At) = OpenChanges(At)
      /\ Ch!StatFile = Ch!File(At, call.phys)
      /\ Ch!Subject(call.rchfn, At) = Ch!Subject(call.chfn, At)
  BY <1>0, WalkAsAsked DEF At, Asked, Ch!StatFile
<1>2. CASE Ch!StatFile \in Ch!Dir
  <2>1. pc' = "walk" /\ a' = a /\ todo' = {At} /\ entered' = {}
    BY <1>2 DEF Ch!Stat, Ch!Begin, At
  <2>2. WalkCovers'
    BY <1>0, <2>1 DEF WalkCovers, Known, At
  <2>3. Done(a)'
    BY <1>0, <2>1, DoneStays
  <2>4. Ch!Subject(call.chfn, At)' \in changed'
    BY <1>0, <2>1 DEF At
  <2> QED BY <2>1, <2>2, <2>3, <2>4 DEF ChangesAll
<1>3. CASE Ch!StatFile \notin Ch!Dir
  <2>1. Open(At) \subseteq {At}
    BY <1>0, <1>1, <1>3, ReachedAlone DEF Open, Ch!Reached
  <2>2. Asked(At) \subseteq changed'
    BY <1>0, <1>1, <2>1 DEF OpenChanges
  <2>3. Ch!NextOperand
    BY <1>3 DEF Ch!Stat
  <2> QED BY <1>0, <2>2, <2>3, NextDone DEF ChangesAll
<1> QED BY <1>2, <1>3

LEMMA VisitAll ==
  ASSUME Chosen, ChangesAll, Ch!Covered, NEW n \in Node, Ch!Visit(n), ~failed'
  PROVE  ChangesAll'
<1>0. /\ pc = "walk" /\ pc' = "walk" /\ a \in 1..Len(args) /\ ~failed /\ "R" \in flags
      /\ [Ch!Next]_(Ch!vars) /\ UNCHANGED <<args, a, call>>
  BY CommandStays DEF Ch!Visit, Ch!TryChange, Ch!result, Chosen, Ch!Next
<1>1. Done(a) /\ Ch!Subject(call.chfn, At) \in changed /\ WalkCovers
  BY <1>0 DEF ChangesAll
<1>2. WalkCovers' /\ changed \subseteq changed'
  <2>1. call.phys \in BOOLEAN /\ (~call.phys => call.rchfn = "chown")
    BY <1>0, WalkAsAsked
  <2> QED BY <1>0, <1>1, <2>1, VisitCovers
<1>3. Done(a)'
  BY <1>0, <1>1, <1>2, DoneStays
<1>4. Ch!Subject(call.chfn, At)' \in changed'
  BY <1>0, <1>1, <1>2 DEF At
<1> QED BY <1>0, <1>2, <1>3, <1>4 DEF ChangesAll

LEMMA WalkEndAll ==
  ASSUME Chosen, ChangesAll, Ch!Covered, Ch!WalkEnd, ~failed'
  PROVE  ChangesAll'
<1>0. /\ pc = "walk" /\ a \in 1..Len(args) /\ At \in Node /\ ~failed /\ "R" \in flags /\ todo = {}
      /\ Done(a) /\ WalkCovers /\ [Ch!Next]_(Ch!vars) /\ changed' = changed /\ Ch!NextOperand
  BY DEF Ch!WalkEnd, Chosen, At, ChangesAll, Ch!Next, Ch!result
<1>1. call.phys \in BOOLEAN /\ Asked(At) = OpenChanges(At)
  BY <1>0, WalkAsAsked DEF At, Asked
<1>2. Asked(At) \subseteq changed'
  BY <1>0, <1>1, WalkComplete
<1> QED BY <1>0, <1>2, NextDone DEF ChangesAll

LEMMA AllNext == Chosen /\ ChangesAll /\ [Ch!Next]_(Ch!vars) => ChangesAll'
<1> SUFFICES ASSUME Chosen, ChangesAll, [Ch!Next]_(Ch!vars), Ch!Covered, ~failed'
             PROVE  ChangesAll'
  BY CommandStays DEF ChangesAll
<1>1. CASE Ch!NextOption
  BY <1>1 DEF Ch!NextOption, ChangesAll
<1>2. CASE Ch!Names
  BY <1>2, CommandStays DEF Ch!Names, ChangesAll, Done
<1>3. CASE Ch!Usage \/ Ch!NamesFail \/ Ch!StatNull
  BY <1>3 DEF Ch!Usage, Ch!NamesFail, Ch!StatNull, Ch!OptionsEnd, Ch!Exit, ChangesAll,
    Ch!BadOptions, Ch!BothHAndR, Ch!given
<1>4. CASE Ch!Change
  BY <1>4, ChangeAll
<1>5. CASE Ch!Stat
  BY <1>5, StatAll
<1>6. CASE Ch!StatFails \/ Ch!WalkFails
  BY <1>6 DEF Ch!StatFails, Ch!WalkFails, Ch!Failed
<1>7. ASSUME NEW n \in Node, Ch!Visit(n) PROVE ChangesAll'
  BY <1>7, VisitAll
<1>8. CASE Ch!WalkEnd
  BY <1>8, WalkEndAll
<1>9. CASE Ch!Finish
  <2>1. pc = "exit" /\ pc' = "exited" /\ UNCHANGED <<prog, options, args, shut, failed, changed>>
    BY <1>9 DEF Ch!Finish, Ch!Exit, Ch!given, Ch!result
  <2>2. Done(Len(args) + 1)
    BY <2>1 DEF ChangesAll
  <2>3. Done(Len(args) + 1)'
    <3>1. \A n : Asked(n)' = Asked(n)
      BY <2>1 DEF Asked, Ch!Selected, Ch!Files, Ch!Reached, Ch!Holds, Ch!Given, Ch!Mode
    <3> QED BY <2>1, <2>2, <3>1 DEF Done
  <2> QED BY <2>1, <2>3 DEF ChangesAll
<1>10. CASE UNCHANGED Ch!vars
  <2>1. /\ UNCHANGED <<prog, options, args, shut, flags, call, o, a, changed, failed>>
        /\ UNCHANGED <<todo, entered, pc, status>>
    BY <1>10 DEF Ch!vars, Ch!given, Ch!result, Ch!walk
  <2>2. \A n : Asked(n)' = Asked(n)
    BY <2>1 DEF Asked, Ch!Selected, Ch!Files, Ch!Reached, Ch!Holds, Ch!Given, Ch!Mode
  <2>3. Ch!BadOptions' = Ch!BadOptions
    BY <2>1 DEF Ch!BadOptions, Ch!BothHAndR
  <2>4. WalkCovers' = WalkCovers
    BY <2>1 DEF WalkCovers, Known, At
  <2>5. Done(a)' = Done(a) /\ Done(Len(args) + 1)' = Done(Len(args) + 1)
    BY <2>1, <2>2 DEF Done
  <2> QED BY <2>1, <2>3, <2>4, <2>5, CommandStays DEF ChangesAll, At
<1> QED BY <1>1, <1>2, <1>3, <1>4, <1>5, <1>6, <1>7, <1>8, <1>9, <1>10 DEF Ch!Next

\* What the properties say of a program that is done.
LEMMA DoneIsAll ==
  ASSUME Chosen, Done(Len(args) + 1)
  PROVE  Ch!AllSelected(TRUE) \subseteq changed
<1>1. Len(args) \in Nat
  BY DEF Chosen
<1>2. Ch!AllSelected(TRUE) = (UNION {Asked(args[j]) : j \in 1..Len(args)}) \ {Nothing}
  BY DEF Ch!AllSelected, Asked
<1>3. \A j \in 1..Len(args) : Asked(args[j]) \ {Nothing} \subseteq changed
  BY <1>1 DEF Done
<1> QED BY <1>2, <1>3

\* chown, chgrp and chmod that saw no failure have changed every file their
\* options select and the walk can reach, in any tree; command lines that are
\* not Covered left out (chown.c:80-95, chgrp.c:76-92, chmod.c:61-75).
THEOREM AllSelectedChange == Spec => []ChangesAllSelected
<1> DEFINE Inv == prog # "du" => Chosen /\ ChangesAll
<1>1. Init => Inv
  BY ChosenInit DEF Init, Ch!Init, Du!Init, ChangesAll
<1>2. Inv /\ [Next]_vars => Inv'
  BY ChSteps, ChosenNext, AllNext
<1>3. Inv => ChangesAllSelected
  BY DoneIsAll DEF ChangesAllSelected, Ch!ChangesAllSelected, ChangesAll
<1> QED BY <1>1, <1>2, <1>3, PTL DEF Spec

\* chgrp and chmod that exit with zero have changed them: every failure, at any
\* depth of the walk, is told (chgrp.c:19-24, chmod.c:18-23).
THEOREM FailuresTold == Spec => []ZeroMeansAllChanged
<1> DEFINE Inv == prog # "du" => Chosen /\ ChangesAll /\ Told
<1>1. Init => Inv
  BY ChosenInit DEF Init, Ch!Init, Du!Init, ChangesAll, Told
<1>2. Inv /\ [Next]_vars => Inv'
  BY ChSteps, ChosenNext, AllNext, ToldNext
<1>3. Inv => ZeroMeansAllChanged
  <2> SUFFICES ASSUME Chosen, ChangesAll, Told, prog # "du", prog # "chown", status = "zero",
                      Ch!Covered
               PROVE  Ch!AllSelected(TRUE) \subseteq changed
    BY DEF ZeroMeansAllChanged, Ch!ZeroMeansAllChanged
  <2>1. pc = "exited" /\ ret = 0 /\ ~failed /\ ~Ch!BadOptions
    BY DEF Told
  <2> QED BY <2>1, DoneIsAll DEF ChangesAll
<1> QED BY <1>1, <1>2, <1>3, PTL DEF Spec
-----------------------------------------------------------------------------
(***************************************************************************)
(* du.                                                                     *)
(***************************************************************************)
\* While it runs, its own steps are the only ones.
LEMMA DuSteps ==
  ASSUME [Next]_vars, prog' = "du"
  PROVE  prog = "du" /\ [Du!Next]_(Du!vars)
<1>1. CASE ChStep
  BY <1>1, CommandStays DEF ChStep, Ch!vars
<1>2. CASE DuStep
  BY <1>2 DEF DuStep
<1>3. CASE UNCHANGED vars
  BY <1>3 DEF vars, duVars, Du!vars, Du!given, Du!chosen, Du!operand, Du!walk, Du!result
<1> QED BY <1>1, <1>2, <1>3 DEF Next

LEMMA DuSameSize == ASSUME NEW S PROVE Du!Cardinality(S) = Cardinality(S)
BY DEF Du!Cardinality, Cardinality, Du!IsFiniteSet, IsFiniteSet

LEMMA DuTree ==
  /\ Du!NftwAssumption /\ Du!Forest /\ Cwds \subseteq Du!Dir /\ IsFiniteSet(Node)
  /\ \A d \in Du!Dir : \A m, n \in Children[d] : Name[m] = Name[n] => m = n
  /\ Blocks \in [Node -> Nat] /\ DuOperand \subseteq Node
<1>1. Du!DuAssumption
  BY WalksAssumption
<1> QED BY <1>1 DEF Du!DuAssumption, Du!Forest, Du!IsFiniteSet, IsFiniteSet

\* Where du is, and the types of what it has.
DuPlaced ==
  /\ options \in Seq(Du!Option) /\ args \in Seq(Node) /\ cwd \in Du!Dir
  /\ rows \in Seq((Node \union {Nothing}) \X Nat)
  /\ todo \subseteq Node /\ names \subseteq Node
  /\ total \in Nat /\ blocks \in Nat /\ a \in 1..(Len(args) + 1)
  /\ pc \in {"options", "operand", "readdir", "walk", "exit", "exited"}
  /\ pc \in {"options", "exit"} => a = 1
  /\ pc \in {"operand", "readdir"} => args # <<>>
  /\ pc = "readdir" => a <= Len(args)
  /\ pc = "walk" => root \in Node /\ (args # <<>> => a <= Len(args))
  /\ pc = "exit" => args = <<>>
  /\ pc # "exited" => status = "running"
  /\ status = "zero" => ret = 0 /\ a > Len(args)

LEMMA DuInit == Du!Init => DuPlaced
<1>. SUFFICES ASSUME Du!Init PROVE DuPlaced
  OBVIOUS
<1>1. args \in Seq(Node)
  <2>1. PICK n \in 0..MaxDuArgs : args \in [1..n -> DuOperand]
    BY DEF Du!Init
  <2>2. args \in [1..n -> Node] /\ n \in Nat
    BY <2>1, DuTree
  <2> QED BY <2>2, SeqDef
<1>2. Len(args) \in Nat
  BY <1>1
<1>3. options \in Seq(Du!Option)
  <2>1. options \in UNION {[1..n -> Du!Option] : n \in 0..MaxOptions} /\ MaxOptions \in Nat
    BY WalksAssumption DEF Du!Init, Du!DuAssumption
  <2> QED BY <2>1, FunctionSeq
<1>4. cwd \in Du!Dir
  BY DuTree DEF Du!Init
<1> QED BY <1>1, <1>2, <1>3, <1>4 DEF Du!Init, DuPlaced

LEMMA RowTypes == ASSUME NEW n \in Node PROVE Du!Entry(n) \in Node /\ Du!StBlocks(n) \in Nat
<1>1. Du!File(n, Du!phys) \in Node \union {Nothing} /\ Du!Dir \subseteq Node /\ Nothing \notin Node
  BY DuTree DEF Du!NftwAssumption, Du!File, Du!Resolved
<1> QED BY <1>1, DuTree DEF Du!Entry, Du!StBlocks

LEMMA PlacedNext == DuPlaced /\ [Du!Next]_(Du!vars) => DuPlaced'
<1>. SUFFICES ASSUME DuPlaced, [Du!Next]_(Du!vars) PROVE DuPlaced'
  OBVIOUS
<1>0. /\ args \in Seq(Node) /\ Len(args) \in Nat /\ (args = <<>> <=> Len(args) = 0)
      /\ rows \in Seq((Node \union {Nothing}) \X Nat) /\ a \in 1..(Len(args) + 1)
      /\ total \in Nat /\ blocks \in Nat /\ Du!Dir \subseteq Node
      /\ \A d \in Du!Dir : Children[d] \subseteq Node
  BY EmptySeq, DuTree DEF DuPlaced, Du!NftwAssumption
<1>. USE DEF Du!given, Du!chosen, Du!operand, Du!walk, Du!result
<1>1. CASE Du!NextOption
  BY <1>1 DEF DuPlaced, Du!NextOption
<1>2. CASE Du!Usage \/ Du!BadBlocksize
  BY <1>2 DEF DuPlaced, Du!Usage, Du!BadBlocksize, Du!Exit, Du!OptionsEnd
<1>3. CASE Du!Start
  <2>1. cwd \in Node
    BY <1>0, DuTree DEF DuPlaced
  <2> QED BY <1>0, <1>3, <2>1 DEF DuPlaced, Du!Start, Du!Walk, Du!Begin, Du!OptionsEnd
<1>4. ASSUME NEW n \in Node, NEW found \in BOOLEAN, Du!Visit(n, found) PROVE DuPlaced'
  <2>1. todo' \subseteq Node
    <3>1. CASE Du!OtherSystem(n)
      BY <1>4, <3>1 DEF DuPlaced, Du!Visit
    <3>2. CASE ~Du!OtherSystem(n)
      BY <1>0, <1>4, <3>2 DEF DuPlaced, Du!Visit, Du!Pass
    <3> QED BY <3>1, <3>2
  <2>2. rows' \in Seq((Node \union {Nothing}) \X Nat) /\ total' \in Nat
    <3>1. Du!Entry(n) \in Node /\ Du!StBlocks(n) \in Nat
      BY RowTypes
    <3>2. PICK row : row = <<Du!Entry(n), Du!StBlocks(n)>>
      OBVIOUS
    <3>3. row \in (Node \union {Nothing}) \X Nat
      BY <3>1, <3>2
    <3>4. \/ rows' = rows /\ total' = total
          \/ rows' = Append(rows, row) /\ total' = total + Du!StBlocks(n)
      BY <1>4, <3>2 DEF Du!Visit
    <3>5. Append(rows, row) \in Seq((Node \union {Nothing}) \X Nat)
      BY ONLY <1>0, <3>3, AppendProperties
    <3>6. total + Du!StBlocks(n) \in Nat
      BY <1>0, <3>1
    <3> QED BY <1>0, <3>4, <3>5, <3>6
  <2>3. UNCHANGED <<options, args, cwd, names, blocks, a, pc, status, root>> /\ pc = "walk"
    BY <1>4 DEF Du!Visit
  <2> QED BY <2>1, <2>2, <2>3 DEF DuPlaced
<1>5. CASE Du!WalkEnd \/ Du!WalkFails
  BY <1>0, <1>5 DEF DuPlaced, Du!WalkEnd, Du!WalkFails, Du!AfterWalk
<1>6. CASE Du!Open \/ Du!LstatFails
  <2>1. pc = "operand" /\ a <= Len(args) /\ a \in 1..Len(args) /\ args[a] \in Node
    BY <1>0, <1>6 DEF Du!Open, Du!LstatFails
  <2>2. Blocks[args[a]] \in Nat
    BY <2>1, DuTree
  <2> QED BY <1>0, <1>6, <2>1, <2>2 DEF DuPlaced, Du!Open, Du!LstatFails
<1>7. ASSUME NEW d \in Node, Du!ReaddirMisses(d) PROVE DuPlaced'
  BY <1>7 DEF DuPlaced, Du!ReaddirMisses
<1>11. ASSUME NEW d \in Node, NEW n \in Node, Du!ReaddirFinds(d, n) PROVE DuPlaced'
  BY <1>0, <1>11 DEF DuPlaced, Du!ReaddirFinds, Du!Walk, Du!Begin
<1>12. ASSUME NEW n \in Node, Du!VisitUnstated(n) PROVE DuPlaced'
  BY <1>12 DEF DuPlaced, Du!VisitUnstated
<1>8. CASE Du!Total
  <2>1. total' = total + blocks /\ total' \in Nat
    BY <1>0, <1>8 DEF Du!Total
  <2>2. rows' \in Seq((Node \union {Nothing}) \X Nat)
    <3>1. rows' = rows \/ rows' = Append(rows, <<Nothing, total'>>)
      BY <1>8 DEF Du!Total
    <3>2. <<Nothing, total'>> \in (Node \union {Nothing}) \X Nat
      BY <2>1
    <3>3. Append(rows, <<Nothing, total'>>) \in Seq((Node \union {Nothing}) \X Nat)
      BY ONLY <1>0, <3>2, AppendProperties
    <3> QED BY <1>0, <3>1, <3>3
  <2>3. a' = a + 1 /\ pc' = "operand" /\ pc = "readdir"
    BY <1>8 DEF Du!Total
  <2> QED BY <1>0, <1>8, <2>1, <2>2, <2>3 DEF DuPlaced, Du!Total
<1>9. CASE Du!Finish
  BY <1>0, <1>9 DEF DuPlaced, Du!Finish, Du!Exit
<1>10. CASE UNCHANGED Du!vars
  BY <1>10 DEF DuPlaced, Du!vars
<1> QED BY <1>1, <1>2, <1>3, <1>4, <1>5, <1>6, <1>7, <1>8, <1>9, <1>10, <1>11, <1>12 DEF Du!Next
-----------------------------------------------------------------------------
\* What a walk from r passes over, where it goes, and what it lists.
Away(r) ==
  {m \in Node : "MOUNT" \in call /\ ~((Du!File(m, Du!phys) \in Mounted) <=> (Du!File(r, Du!phys) \in Mounted))}

Goes(r) == Du!Reached(r, Du!phys, Away(r))

Lists(r) == {Du!Entry(n) : n \in {m \in Goes(r) : Du!Listed(m)}}

LEMMA PassedOver == ASSUME NEW n \in Node PROVE Du!OtherSystem(n) <=> n \in Away(root)
<1>1. ("MOUNT" \in call /\ Du!File(n, Du!phys) \in Mounted /\ Du!File(root, Du!phys) \notin Mounted)
      \/ ("MOUNT" \in call /\ Du!File(n, Du!phys) \notin Mounted /\ Du!File(root, Du!phys) \in Mounted)
      <=> Du!OtherSystem(n)
  BY DEF Du!OtherSystem
<1> QED BY <1>1 DEF Away

\* What it reaches is the least that holds its beginning.
LEMMA BelowIs ==
  ASSUME NEW ph \in BOOLEAN, NEW r \in Node
  PROVE  /\ Below[ph][r] \subseteq Node /\ r \in Below[ph][r]
         /\ \A m \in Below[ph][r] : Du!Inside(m, ph) \subseteq Below[ph][r]
         /\ \A S \in SUBSET Below[ph][r] :
              r \in S /\ (\A m \in S : Du!Inside(m, ph) \subseteq S) => S = Below[ph][r]
<1>1. Below[ph] \in [Node -> SUBSET Node]
  BY DuTree DEF Du!NftwAssumption
<1>2. /\ r \in Below[ph][r] /\ Du!Closed(Below[ph][r], ph)
      /\ \A S \in SUBSET Below[ph][r] : r \in S /\ Du!Closed(S, ph) => S = Below[ph][r]
  BY DuTree DEF Du!NftwAssumption
<1> QED BY <1>1, <1>2 DEF Du!Closed

LEMMA ReachedIs ==
  ASSUME NEW r \in Node
  PROVE  /\ Goes(r) \subseteq Below[Du!phys][r] /\ Below[Du!phys][r] \subseteq Node
         /\ r \in Goes(r)
         /\ \A v \in Goes(r) : Du!File(v, Du!phys) \notin shut =>
              \A m \in Du!Inside(v, Du!phys) : m \notin Away(r) => m \in Goes(r)
         /\ \A V \in SUBSET Goes(r) : Du!Holds(V, r, Du!phys, Away(r)) => Goes(r) = V
<1>1. PICK ph \in BOOLEAN : ph = Du!phys
  <2>1. Du!phys = TRUE \/ Du!phys = FALSE
    BY DEF Du!phys
  <2> QED BY <2>1
<1>2. PICK off : off = Away(r)
  OBVIOUS
<1>3. Goes(r) = {n \in Below[ph][r] : \A S \in SUBSET Below[ph][r] : Du!Holds(S, r, ph, off) => n \in S}
  BY <1>1, <1>2 DEF Goes, Du!Reached
<1>4. Below[ph][r] \subseteq Node /\ r \in Below[ph][r]
      /\ \A m \in Below[ph][r] : Du!Inside(m, ph) \subseteq Below[ph][r]
  BY BelowIs
<1>5. ASSUME NEW v \in Goes(r), Du!File(v, ph) \notin shut, NEW m \in Du!Inside(v, ph), m \notin off
      PROVE  m \in Goes(r)
  <2>1. m \in Below[ph][r]
    BY <1>3, <1>4, <1>5
  <2>2. ASSUME NEW S \in SUBSET Below[ph][r], Du!Holds(S, r, ph, off) PROVE m \in S
    <3>1. v \in S
      BY <1>3, <2>2
    <3> QED BY <1>5, <2>2, <3>1 DEF Du!Holds
  <2> QED BY <1>3, <2>1, <2>2
<1>6. r \in Goes(r)
  BY <1>3, <1>4 DEF Du!Holds
<1>7. ASSUME NEW V \in SUBSET Goes(r), Du!Holds(V, r, ph, off) PROVE Goes(r) = V
  <2>1. V \in SUBSET Below[ph][r]
    BY <1>3
  <2> QED BY <1>3, <1>7, <2>1
<1> QED BY <1>1, <1>2, <1>3, <1>4, <1>5, <1>6, <1>7

\* A walk has passed V: what is in the directories it has been in and could
\* read it has passed or will, it has been in the directories among V, and none
\* of V comes again but one that leads into a directory.
Walking(V) ==
  /\ root \in Node /\ V \subseteq Goes(root)
  /\ root \in V \union todo
  /\ entered = {Du!File(v, Du!phys) : v \in V} \intersect Du!Dir
  /\ \A e \in entered \ shut : \A m \in Children[e] : m \notin Away(root) => m \in V \union todo
  /\ \A m \in V \union todo : m = root \/ \E e \in entered \ shut : m \in Children[e]
  /\ \A m \in V \intersect todo : ~Du!phys /\ Du!File(m, Du!phys) \in Du!Dir

\* What it has listed then.
Shown(V) == {Du!Entry(v) : v \in {m \in V : Du!Listed(m)}}

\* None of them is taken to be listed a second time.
LEMMA ShownOnce ==
  ASSUME NEW V, Walking(V), NEW n \in todo
  PROVE  /\ Du!Listed(n) /\ Du!Reported(n, Du!phys) =>
              Du!Entry(n) \notin Shown(V) /\ Shown(V \union {n}) = Shown(V) \union {Du!Entry(n)}
         /\ ~(Du!Listed(n) /\ Du!Reported(n, Du!phys)) => Shown(V \union {n}) = Shown(V)
<1>1. /\ Du!Dir \intersect Du!Link = {} /\ Nothing \notin Du!Dir
  BY DuTree DEF Du!NftwAssumption
<1>2. \A v \in V : Du!File(v, Du!phys) \in Du!Dir => Du!File(v, Du!phys) \in entered
  BY DEF Walking
<1>3. \A e \in entered : e \in Du!Dir /\ \E v \in V : e = Du!File(v, Du!phys)
  BY DEF Walking
<1>4. \A v : v \in Du!Dir => Du!File(v, Du!phys) = v
  BY <1>1 DEF Du!File, Du!Resolved
<1>5. ASSUME Du!Listed(n), Du!Reported(n, Du!phys), NEW v \in V, Du!Entry(n) = Du!Entry(v)
      PROVE  FALSE
  <2>1. CASE Du!File(n, Du!phys) \in Du!Dir
    <3>1. Du!File(n, Du!phys) \in entered
      BY <1>2, <1>4, <1>5, <2>1 DEF Du!Entry
    <3>2. Du!phys
      BY <1>5, <3>1 DEF Du!Reported
    <3>3. n \in V
      BY <1>3, <3>1, <3>2 DEF Du!File
    <3> QED BY <3>2, <3>3 DEF Walking
  <2>2. CASE Du!File(n, Du!phys) \notin Du!Dir
    <3>1. n = v
      BY <1>4, <1>5, <2>2 DEF Du!Entry
    <3> QED BY <2>2, <3>1 DEF Walking
  <2> QED BY <2>1, <2>2
<1>6. ASSUME ~Du!Reported(n, Du!phys), Du!Listed(n)
      PROVE  \E v \in V : Du!Listed(v) /\ Du!Entry(v) = Du!Entry(n)
  BY <1>3, <1>6 DEF Du!Reported, Du!Listed, Du!Entry
<1> QED BY <1>5, <1>6 DEF Shown

LEMMA VisitWalks ==
  ASSUME NEW V, Walking(V), NEW n \in Node, NEW found, Du!Visit(n, found)
  PROVE  /\ Du!OtherSystem(n) => Walking(V)'
         /\ ~Du!OtherSystem(n) => Walking(V \union {n})'
<1>1. UNCHANGED <<root, call, shut>> /\ n \in todo
  BY DEF Du!Visit, Du!given, Du!chosen
<1>2. /\ Du!phys' = Du!phys /\ Away(root)' = Away(root)
      /\ Goes(root)' = Goes(root)
  BY <1>1 DEF Du!phys, Away, Goes, Du!Reached, Du!Holds
<1>3. CASE Du!OtherSystem(n)
  <2>1. todo' = todo \ {n} /\ entered' = entered
    BY <1>3 DEF Du!Visit
  <2>2. n # root /\ n \in Away(root)
    <3>1. n \in Away(root)
      BY <1>3, PassedOver
    <3> QED BY <3>1 DEF Away
  <2> QED BY <1>1, <1>2, <1>3, <2>1, <2>2 DEF Walking
<1>4. CASE ~Du!OtherSystem(n)
  <2> DEFINE f == Du!File(n, Du!phys)
             into == {f} \intersect (Du!Dir \ entered)
             new == UNION {Children[d] : d \in into \ shut}
  <2>1. todo' = (todo \ {n}) \union new /\ entered' = entered \union into
    BY <1>4 DEF Du!Visit, Du!Pass
  <2>2. n \notin Away(root)
    BY <1>4, PassedOver
  <2>3. n \in Goes(root)
    <3>1. CASE n = root
      BY <3>1, ReachedIs DEF Walking
    <3>2. CASE n # root
      <4>1. PICK e \in entered \ shut : n \in Children[e]
        BY <1>1, <3>2 DEF Walking
      <4>2. PICK v \in V : e = Du!File(v, Du!phys) /\ e \in Du!Dir
        BY <4>1 DEF Walking
      <4>3. n \in Du!Inside(v, Du!phys) /\ v \in Goes(root)
        BY <4>1, <4>2 DEF Du!Inside, Walking
      <4>4. root \in Node /\ n \notin Away(root) /\ Du!File(v, Du!phys) \notin shut
        BY <2>2, <3>2, <4>1, <4>2 DEF Walking
      <4> QED BY <4>3, <4>4, ReachedIs
    <3> QED BY <3>1, <3>2
  <2>4. ASSUME NEW m \in V \union {n}, m \in todo' PROVE ~Du!phys /\ Du!File(m, Du!phys) \in Du!Dir
    <3>1. CASE m \in V /\ m \in todo
      BY <3>1 DEF Walking
    <3>2. CASE ~(m \in V /\ m \in todo)
      <4>1. m \in new /\ f \in Du!Dir /\ f \notin entered /\ m \in Children[f]
        BY <2>1, <2>4, <3>2
      <4>2. CASE m = n
        <5>1. ~Du!phys
          BY <4>1, <4>2, DuTree DEF Du!Forest, Du!NftwAssumption, Du!File
        <5> QED BY <4>1, <4>2, <5>1
      <4>3. CASE m # n
        <5>1. m = root
          <6>1. SUFFICES ASSUME m # root PROVE FALSE
            OBVIOUS
          <6>2. PICK e \in entered : m \in Children[e] /\ e \in Du!Dir
            BY <4>3, <6>1 DEF Walking
          <6>3. e = f
            BY <4>1, <6>2, DuTree DEF Du!Forest
          <6> QED BY <4>1, <6>2, <6>3
        <5>2. ~Du!phys
          <6>1. SUFFICES ASSUME Du!phys PROVE FALSE
            OBVIOUS
          <6>2. f = n /\ Du!phys = TRUE
            BY <6>1 DEF Du!File, Du!phys
          <6>3. n \in Below[TRUE][root] /\ root \in Node
            BY <2>3, <6>2, ReachedIs DEF Walking
          <6> QED BY <4>1, <5>1, <6>2, <6>3, DuTree DEF Du!Forest
        <5>3. Du!File(root, Du!phys) \in Du!Dir
          <6>1. SUFFICES ASSUME Du!File(root, Du!phys) \notin Du!Dir PROVE FALSE
            OBVIOUS
          <6>2. Du!Holds({root}, root, Du!phys, Away(root)) /\ root \in Goes(root) /\ root \in Node
            BY <6>1, ReachedIs DEF Du!Holds, Du!Inside, Walking
          <6>3. Goes(root) = {root}
            BY <6>2, ReachedIs
          <6> QED BY <2>3, <4>3, <5>1, <6>3
        <5> QED BY <5>1, <5>2, <5>3
      <4> QED BY <4>2, <4>3
    <3> QED BY <3>1, <3>2
  <2>5. entered \union into = {Du!File(v, Du!phys) : v \in V \union {n}} \intersect Du!Dir
    BY DEF Walking
  <2>6. ASSUME NEW e \in (entered \union into) \ shut, NEW m \in Children[e], m \notin Away(root)
        PROVE  m \in (V \union {n}) \union todo'
    <3>1. CASE e \in entered
      BY <2>1, <2>6, <3>1 DEF Walking
    <3>2. CASE e \in into
      BY <2>1, <2>6, <3>2
    <3> QED BY <3>1, <3>2
  <2>7. ASSUME NEW m \in (V \union {n}) \union todo', m # root
        PROVE  \E e \in (entered \union into) \ shut : m \in Children[e]
    <3>1. CASE m \in V \union todo
      BY <2>7, <3>1 DEF Walking
    <3>2. CASE m \in new
      BY <3>2
    <3> QED BY <1>1, <2>1, <3>1, <3>2
  <2>8. V \union {n} \subseteq Goes(root) /\ root \in (V \union {n}) \union todo'
    BY <2>1, <2>3 DEF Walking
  <2> HIDE DEF into, new, f
  <2>9. root \in Node
    BY DEF Walking
  <2>10. root' \in Node /\ V \union {n} \subseteq Goes(root)'
    BY <1>1, <1>2, <2>8, <2>9
  <2>11. root' \in (V \union {n}) \union todo'
    BY <1>1, <2>8
  <2>12. entered' = {Du!File(v, Du!phys') : v \in V \union {n}} \intersect Du!Dir
    BY <1>2, <2>1, <2>5
  <2>13. \A e \in entered' \ shut' : \A m \in Children[e] :
           m \notin Away(root)' => m \in (V \union {n}) \union todo'
    BY <1>1, <1>2, <2>1, <2>6
  <2>14. \A m \in (V \union {n}) \union todo' : m = root' \/ \E e \in entered' \ shut' : m \in Children[e]
    BY <1>1, <2>1, <2>7
  <2>15. \A m \in (V \union {n}) \intersect todo' : ~Du!phys' /\ Du!File(m, Du!phys') \in Du!Dir
    BY <1>2, <2>4
  <2>16. Walking(V \union {n})'
    BY <2>10, <2>11, <2>12, <2>13, <2>14, <2>15 DEF Walking
  <2> QED BY <1>4, <2>16
<1> QED BY <1>3, <1>4

\* A walk with nothing left has shown its tree.
LEMMA WalkShows ==
  ASSUME NEW V, Walking(V), todo = {} PROVE Shown(V) = Lists(root)
<1>1. Du!Holds(V, root, Du!phys, Away(root))
  <2>1. ASSUME NEW v \in V, Du!File(v, Du!phys) \notin shut,
               NEW m \in Du!Inside(v, Du!phys), m \notin Away(root)
        PROVE  m \in V
    <3>1. Du!File(v, Du!phys) \in entered \ shut /\ m \in Children[Du!File(v, Du!phys)]
      BY <2>1 DEF Du!Inside, Walking
    <3> QED BY <2>1, <3>1 DEF Walking
  <2> QED BY <2>1 DEF Du!Holds, Walking
<1>2. Goes(root) = V
  BY <1>1, ReachedIs DEF Walking
<1> QED BY <1>2 DEF Shown, Lists
-----------------------------------------------------------------------------
\* What the walks list; how often R has n in its rows, how many of the walks
\* from F list it, and that R has each n as often as F and L together.
Trees == [r \in Node |-> Lists(r)]

Times(R, n) == Cardinality({j \in 1..Len(R) : R[j][1] = n})

Owed(T, F, n) == Cardinality({w \in F : n \in T[w]})

Balanced(T, R, F, L) ==
  \A n \in Node : Times(R, n) = Owed(T, F, n) + (IF n \in L THEN 1 ELSE 0)

LEMMA TimesMore ==
  ASSUME NEW V, NEW R \in Seq(V), NEW x \in V, NEW n
  PROVE  /\ Times(R, n) \in Nat
         /\ Times(Append(R, x), n) = Times(R, n) + (IF x[1] = n THEN 1 ELSE 0)
<1>1. PICK l, Q : l = Len(R) /\ Q = Append(R, x)
  OBVIOUS
<1>2. /\ l \in Nat /\ Len(Q) = l + 1 /\ Q[l+1] = x
      /\ \A k \in 1..l : Q[k] = R[k]
  BY <1>1, AppendProperties, LenProperties
<1> DEFINE J == {j \in 1..l : R[j][1] = n}
<1>3. IsFiniteSet(J) /\ l + 1 \notin J
  <2>1. IsFiniteSet(1..l) /\ J \subseteq 1..l
    BY <1>2, FS_Interval
  <2> QED BY <1>2, <2>1, FS_Subset
<1>4. {j \in 1..(l+1) : Q[j][1] = n} = IF x[1] = n THEN J \union {l+1} ELSE J
  <2>1. \A j \in 1..l : Q[j][1] = R[j][1]
    BY <1>2
  <2>2. Q[l+1][1] = x[1]
    BY <1>2
  <2> HIDE DEF J
  <2>3. \A j : j \in 1..(l+1) <=> j \in 1..l \/ j = l + 1
    BY <1>2
  <2>4. \A j : j \in J <=> j \in 1..l /\ R[j][1] = n
    BY DEF J
  <2> QED BY <2>1, <2>2, <2>3, <2>4
<1> HIDE DEF J
<1>5. Cardinality(J) \in Nat /\ Cardinality(J \union {l+1}) = Cardinality(J) + 1
  BY <1>3, FS_AddElement, FS_CardinalityType
<1>6. Times(R, n) = Cardinality(J)
  BY <1>1 DEF Times, J
<1>7. Times(Q, n) = Cardinality(IF x[1] = n THEN J \union {l+1} ELSE J)
  BY <1>2, <1>4 DEF Times
<1> QED BY <1>1, <1>5, <1>6, <1>7

LEMMA OwedMore ==
  ASSUME NEW T, NEW F, IsFiniteSet(F), NEW w \in F, NEW n
  PROVE  /\ Owed(T, F \ {w}, n) \in Nat
         /\ Owed(T, F, n) = Owed(T, F \ {w}, n) + (IF n \in T[w] THEN 1 ELSE 0)
<1> DEFINE A == {v \in F \ {w} : n \in T[v]}
<1>1. IsFiniteSet(A) /\ w \notin A
  <2>1. A \subseteq F
    OBVIOUS
  <2> QED BY <2>1, FS_Subset
<1>2. {v \in F : n \in T[v]} = IF n \in T[w] THEN A \union {w} ELSE A
  OBVIOUS
<1>3. Owed(T, F \ {w}, n) = Cardinality(A)
  BY DEF Owed
<1> HIDE DEF A
<1>4. Cardinality(A) \in Nat /\ Cardinality(A \union {w}) = Cardinality(A) + 1
  BY <1>1, FS_AddElement, FS_CardinalityType
<1>5. Owed(T, F, n) = Cardinality(IF n \in T[w] THEN A \union {w} ELSE A)
  BY <1>2 DEF Owed
<1> QED BY <1>3, <1>4, <1>5

\* A row for what is new to L adds it to L, one for none of the files nothing.
LEMMA BalancedRow ==
  ASSUME NEW T, NEW V, NEW R \in Seq(V), NEW F, IsFiniteSet(F), NEW L,
         Balanced(T, R, F, L), NEW x \in V
  PROVE  /\ x[1] \in Node \ L => Balanced(T, Append(R, x), F, L \union {x[1]})
         /\ x[1] \notin Node => Balanced(T, Append(R, x), F, L)
<1>1. ASSUME NEW n \in Node
      PROVE  /\ Owed(T, F, n) \in Nat
             /\ Times(R, n) = Owed(T, F, n) + (IF n \in L THEN 1 ELSE 0)
             /\ Times(Append(R, x), n) = Times(R, n) + (IF x[1] = n THEN 1 ELSE 0)
  <2>1. IsFiniteSet({w \in F : n \in T[w]})
    BY FS_Subset
  <2>2. Owed(T, F, n) \in Nat
    BY <2>1, FS_CardinalityType DEF Owed
  <2> QED BY <2>2, TimesMore DEF Balanced
<1>2. ASSUME x[1] \in Node \ L, NEW n \in Node
      PROVE  Times(Append(R, x), n) = Owed(T, F, n) + (IF n \in L \union {x[1]} THEN 1 ELSE 0)
  BY <1>1, <1>2
<1>3. ASSUME x[1] \notin Node, NEW n \in Node
      PROVE  Times(Append(R, x), n) = Owed(T, F, n) + (IF n \in L THEN 1 ELSE 0)
  BY <1>1, <1>3
<1> QED BY <1>2, <1>3 DEF Balanced

\* A walk that has shown its tree is one of those dealt with.
LEMMA BalancedWalk ==
  ASSUME NEW T, NEW R, NEW F, IsFiniteSet(F), NEW w \in F,
         Balanced(T, R, F \ {w}, T[w])
  PROVE  Balanced(T, R, F, {})
<1>1. ASSUME NEW n \in Node PROVE Times(R, n) = Owed(T, F, n) + 0
  <2>1. Times(R, n) = Owed(T, F \ {w}, n) + (IF n \in T[w] THEN 1 ELSE 0)
    BY DEF Balanced
  <2>2. /\ Owed(T, F \ {w}, n) \in Nat
        /\ Owed(T, F, n) = Owed(T, F \ {w}, n) + (IF n \in T[w] THEN 1 ELSE 0)
    BY OwedMore
  <2> QED BY <2>1, <2>2
<1>2. \A n \in Node : n \notin {}
  OBVIOUS
<1> QED BY <1>1, <1>2 DEF Balanced

LEMMA BalancedNone == ASSUME NEW T PROVE Balanced(T, <<>>, {}, {})
<1>1. ASSUME NEW n \in Node PROVE Times(<<>>, n) = 0 /\ Owed(T, {}, n) = 0
  <2>1. {j \in 1..Len(<<>>) : <<>>[j][1] = n} = {}
    OBVIOUS
  <2>2. {w \in {} : n \in T[w]} = {}
    OBVIOUS
  <2> QED BY <2>1, <2>2, FS_EmptySet DEF Times, Owed
<1> QED BY <1>1 DEF Balanced
-----------------------------------------------------------------------------
\* The roots whose walks are dealt with, or being.
Dealt ==
  IF args = <<>> THEN Du!Roots
  ELSE IF a > 1 THEN Du!Roots
  ELSE IF pc \in {"readdir", "walk"} THEN Du!Roots \ names ELSE {}

LEMMA RootsFinite ==
  ASSUME DuPlaced
  PROVE  Du!Roots \subseteq Node /\ IsFiniteSet(Du!Roots) /\ IsFiniteSet(Dealt) /\ Dealt \subseteq Du!Roots
<1>1. Du!Roots \subseteq Node
  BY DuTree DEF DuPlaced, Du!Roots, Du!NftwAssumption
<1>2. Dealt \subseteq Du!Roots
  BY DEF Dealt
<1> QED BY <1>1, <1>2, DuTree, FS_Subset

\* What a du of a Covered command line without an error so far has written.
Listing ==
  Du!Covered =>
    /\ pc = "options" => rows = <<>> /\ total = 0 /\ names = {}
    /\ args # <<>> /\ pc \in {"readdir", "walk"} => names \subseteq Du!Roots
    /\ pc \in {"operand", "readdir", "exit"} => Balanced(Trees, rows, Dealt, {})
    /\ pc = "walk" => root \in Dealt /\ \E V \in SUBSET Node :
         Walking(V) /\ Balanced(Trees, rows, Dealt \ {root}, Shown(V))
    /\ status = "zero" => Balanced(Trees, rows, Du!Roots, {})

\* What is asked for stays, and once the options are dealt with what is listed.
LEMMA AskedStays ==
  ASSUME UNCHANGED <<options, args, shut, cwd>>
  PROVE  Du!Roots' = Du!Roots /\ Du!Covered' = Du!Covered
<1>1. Du!Roots' = Du!Roots
  BY DEF Du!Roots
<1>2. \A opt : Du!Given(opt)' = Du!Given(opt)
  BY DEF Du!Given
<1> QED BY <1>1, <1>2 DEF Du!Covered

LEMMA TreesStay ==
  ASSUME UNCHANGED <<call, flags, shut>>
  PROVE  Trees' = Trees /\ \A V : Shown(V)' = Shown(V)
<1>1. /\ Du!phys' = Du!phys /\ \A r : Away(r)' = Away(r)
      /\ \A n : Du!Entry(n)' = Du!Entry(n) /\ Du!Listed(n)' = Du!Listed(n)
  BY DEF Du!phys, Away, Du!Entry, Du!Listed
<1>2. \A S, r, off : Du!Holds(S, r, Du!phys, off)' = Du!Holds(S, r, Du!phys, off)
  BY <1>1 DEF Du!Holds
<1>3. \A r : Goes(r)' = Goes(r)
  BY <1>1, <1>2 DEF Goes, Du!Reached
<1>4. \A r : Lists(r)' = Lists(r)
  BY <1>1, <1>3 DEF Lists
<1>5. Trees' = Trees
  BY <1>4 DEF Trees
<1>6. \A V : Shown(V)' = Shown(V)
  BY <1>1 DEF Shown
<1> QED BY <1>5, <1>6

LEMMA WalkBegins ==
  ASSUME root' \in Node, todo' = {root'}, entered' = {}
  PROVE  Walking({})' /\ Shown({})' = {}
BY DEF Walking, Shown

LEMMA VisitLists ==
  ASSUME DuPlaced, Listing, Du!Covered, NEW n \in Node, NEW found \in BOOLEAN, Du!Visit(n, found),
         ret = 0, ret' = 0
  PROVE  Listing'
<1>1. /\ UNCHANGED <<options, args, cwd, call, flags, shut, a, names, root, pc, status>>
      /\ n \in todo /\ pc = "walk" /\ status = "running"
  BY DEF DuPlaced, Du!Visit, Du!given, Du!chosen, Du!operand
<1>2. /\ Trees' = Trees /\ Du!Roots' = Du!Roots /\ Du!Covered' = Du!Covered
      /\ \A V : Shown(V)' = Shown(V)
  BY <1>1, TreesStay, AskedStays
<1>3. Dealt' = Dealt
  BY <1>1, <1>2 DEF Dealt
<1>4. PICK V \in SUBSET Node :
        root \in Dealt /\ Walking(V) /\ Balanced(Trees, rows, Dealt \ {root}, Shown(V))
  BY <1>1 DEF Listing
<1>5. IsFiniteSet(Dealt \ {root})
  BY RootsFinite, FS_Subset
<1>6. ASSUME NEW U \in SUBSET Node, Walking(U)', Balanced(Trees, rows', Dealt \ {root}, Shown(U))
      PROVE  Listing'
  <2>1. Balanced(Trees', rows', Dealt' \ {root'}, Shown(U)')
    BY <1>1, <1>2, <1>3, <1>6
  <2>2. root' \in Dealt' /\ pc' = "walk" /\ status' = "running"
    BY <1>1, <1>3, <1>4
  <2>3. args' # <<>> => names' \subseteq Du!Roots'
    BY <1>1, <1>2 DEF Listing
  <2> QED BY <1>6, <2>1, <2>2, <2>3 DEF Listing
<1>7. CASE Du!OtherSystem(n)
  <2>1. rows' = rows /\ Walking(V)'
    BY <1>4, <1>7, VisitWalks DEF Du!Visit, Du!result
  <2> QED BY <1>4, <1>6, <2>1
<1>8. CASE ~Du!OtherSystem(n)
  <2>1. Walking(V \union {n})' /\ V \union {n} \in SUBSET Node
    BY <1>4, <1>8, VisitWalks
  <2>2. CASE ~(Du!Listed(n) /\ Du!Reported(n, Du!phys))
    <3>1. rows' = rows
      BY <1>8, <2>2 DEF Du!Visit, Du!result
    <3>2. Shown(V \union {n}) = Shown(V)
      BY <1>1, <1>4, <2>2, ShownOnce
    <3> QED BY <1>4, <1>6, <2>1, <3>1, <3>2
  <2>3. CASE Du!Listed(n) /\ Du!Reported(n, Du!phys)
    <3>1. PICK row : row = <<Du!Entry(n), Du!StBlocks(n)>>
      OBVIOUS
    <3>2. rows' = Append(rows, row)
      <4>1. found
        BY <1>8, <2>3 DEF Du!Visit, Du!StatvfsFailed
      <4> QED BY <1>8, <2>3, <3>1, <4>1 DEF Du!Visit
    <3>3. Du!Entry(n) \in Node \ Shown(V) /\ Shown(V \union {n}) = Shown(V) \union {Du!Entry(n)}
      BY <1>1, <1>4, <2>3, RowTypes, ShownOnce
    <3>4. row \in (Node \union {Nothing}) \X Nat /\ row[1] = Du!Entry(n)
      BY <3>1, <3>3, RowTypes
    <3>5. rows \in Seq((Node \union {Nothing}) \X Nat)
      BY DEF DuPlaced
    <3>6. Balanced(Trees, Append(rows, row), Dealt \ {root}, Shown(V) \union {row[1]})
      <4>1. row[1] \in Node \ Shown(V)
        BY <3>3, <3>4
      <4> QED BY <1>4, <1>5, <3>4, <3>5, <4>1, BalancedRow
    <3>7. Balanced(Trees, rows', Dealt \ {root}, Shown(V \union {n}))
      BY <3>2, <3>3, <3>4, <3>6
    <3> QED BY <1>6, <2>1, <3>7
  <2> QED BY <2>2, <2>3
<1> QED BY <1>7, <1>8

LEMMA ListingNext ==
  ASSUME DuPlaced, Listing, ret = 0, [Du!Next]_(Du!vars), ret' = 0
  PROVE  Listing'
<1>0. UNCHANGED <<options, args, shut, cwd>>
  BY DEF Du!Next, Du!vars, Du!given, Du!Exit, Du!NextOption, Du!Usage, Du!BadBlocksize, Du!Start,
    Du!Visit, Du!VisitUnstated, Du!WalkEnd, Du!WalkFails, Du!AfterWalk, Du!Open, Du!LstatFails,
    Du!ReaddirFinds, Du!ReaddirMisses, Du!Total, Du!Finish
<1>a. Du!Roots' = Du!Roots /\ Du!Covered' = Du!Covered
  BY <1>0, AskedStays
<1> SUFFICES ASSUME Du!Covered PROVE Listing'
  BY <1>a DEF Listing
<1>b. /\ args \in Seq(Node) /\ Len(args) \in Nat /\ (args = <<>> <=> Len(args) = 0)
      /\ rows \in Seq((Node \union {Nothing}) \X Nat) /\ a \in 1..(Len(args) + 1)
      /\ pc # "exited" => status = "running"
  BY EmptySeq DEF DuPlaced
<1>c. Len(args) <= 1
  BY DEF Du!Covered
<1>. USE DEF Du!given, Du!chosen, Du!operand, Du!walk, Du!result
<1>1. CASE Du!NextOption
  <2>1. pc = "options" /\ pc' = pc /\ UNCHANGED <<rows, total, names, status>>
    BY <1>1 DEF Du!NextOption
  <2> QED BY <1>b, <2>1 DEF Listing
<1>2. CASE Du!Usage \/ Du!BadBlocksize
  <2>1. pc' = "exited" /\ status' # "zero"
    BY <1>2 DEF Du!Usage, Du!BadBlocksize, Du!Exit
  <2> QED BY <2>1 DEF Listing
<1>3. CASE Du!Start
  <2>1. /\ pc = "options" /\ rows = <<>> /\ names = {} /\ status' = "running" /\ a = 1
        /\ UNCHANGED <<call, flags, rows, names, a>>
    BY <1>b, <1>3 DEF Du!Start, Du!OptionsEnd, Listing, DuPlaced
  <2>2. Trees' = Trees
    BY <1>0, <2>1, TreesStay
  <2>3. CASE args = <<>>
    <3>1. root' = cwd /\ todo' = {root'} /\ entered' = {} /\ pc' = "walk"
      BY <1>3, <2>3 DEF Du!Start, Du!Walk, Du!Begin
    <3>2. cwd \in Node
      BY DuTree DEF DuPlaced, Du!NftwAssumption
    <3>3. Walking({})' /\ Shown({})' = {}
      BY <3>1, <3>2, WalkBegins
    <3>4. Du!Roots = {root'}
      BY <2>3, <3>1 DEF Du!Roots
    <3>5. root' \in Dealt' /\ Dealt' \ {root'} = {}
      BY <1>0, <1>a, <2>3, <3>4 DEF Dealt
    <3>6. Balanced(Trees', rows', Dealt' \ {root'}, Shown({})')
      BY <2>1, <3>3, <3>5, BalancedNone
    <3> QED BY <1>0, <2>1, <2>3, <3>1, <3>3, <3>5, <3>6 DEF Listing
  <2>4. CASE args # <<>>
    <3>1. pc' = "operand"
      BY <1>3, <2>4 DEF Du!Start
    <3>2. Dealt' = {}
      BY <1>0, <2>1, <2>4, <3>1 DEF Dealt
    <3>3. Balanced(Trees', rows', Dealt', {})
      BY <2>1, <3>2, BalancedNone
    <3> QED BY <2>1, <3>1, <3>3 DEF Listing
  <2> QED BY <2>3, <2>4
<1>4. ASSUME NEW n \in Node, NEW found \in BOOLEAN, Du!Visit(n, found) PROVE Listing'
  BY <1>4, VisitLists
<1>5. CASE Du!WalkEnd \/ Du!WalkFails
  <2>1. Du!WalkEnd
    BY <1>5 DEF Du!WalkFails
  <2>2. /\ pc = "walk" /\ todo = {} /\ pc' = (IF args = <<>> THEN "exit" ELSE "readdir")
        /\ UNCHANGED <<call, flags, a, names, rows, status>>
    BY <2>1 DEF Du!WalkEnd, Du!AfterWalk
  <2>3. Trees' = Trees
    BY <1>0, <2>2, TreesStay
  <2>4. Dealt' = Dealt
    BY <1>0, <1>a, <2>2 DEF Dealt
  <2>5. PICK V \in SUBSET Node :
          root \in Dealt /\ Walking(V) /\ Balanced(Trees, rows, Dealt \ {root}, Shown(V))
    BY <2>2 DEF Listing
  <2>6. Shown(V) = Trees[root]
    <3>1. Shown(V) = Lists(root) /\ root \in Node
      BY <2>2, <2>5, WalkShows DEF Walking
    <3> QED BY <3>1 DEF Trees
  <2>7. Balanced(Trees, rows, Dealt \ {root}, Trees[root]) /\ IsFiniteSet(Dealt)
    BY <2>5, <2>6, RootsFinite
  <2>8. Balanced(Trees, rows, Dealt, {})
    BY <2>5, <2>7, BalancedWalk
  <2>9. Balanced(Trees', rows', Dealt', {})
    BY <2>2, <2>3, <2>4, <2>8
  <2>10. args # <<>> => names' \subseteq Du!Roots'
    BY <1>a, <2>2 DEF Listing
  <2> QED BY <1>0, <1>b, <2>2, <2>9, <2>10 DEF Listing
<1>6. CASE Du!Open \/ Du!LstatFails
  <2>1. Du!Open
    BY <1>6 DEF Du!LstatFails
  <2>2. /\ pc = "operand" /\ a <= Len(args) /\ pc' = "readdir" /\ args[a] \notin shut
        /\ names' = IF args[a] \in Du!Dir THEN Children[args[a]] ELSE {}
        /\ UNCHANGED <<call, flags, a, rows, status>>
    BY <2>1 DEF Du!Open
  <2>3. Trees' = Trees /\ args # <<>> /\ a = 1
    BY <1>0, <1>b, <1>c, <2>2, TreesStay
  <2>4. names' = Du!Roots
    BY <2>2, <2>3 DEF Du!Roots
  <2>5. Dealt' = {} /\ Dealt = {}
    BY <1>0, <1>a, <2>2, <2>3, <2>4 DEF Dealt
  <2>6. Balanced(Trees, rows, Dealt, {})
    BY <2>2 DEF Listing
  <2>7. Balanced(Trees', rows', Dealt', {})
    BY <2>2, <2>3, <2>5, <2>6
  <2> QED BY <1>a, <1>b, <2>2, <2>4, <2>7 DEF Listing
<1>7. ASSUME NEW d \in Node, NEW n \in Node, Du!ReaddirFinds(d, n) PROVE Listing'
  <2>1. /\ pc = "readdir" /\ d \in names /\ names' = names \ {d} /\ n \in Du!LookedUp(d)
        /\ root' = n /\ todo' = {root'} /\ entered' = {} /\ pc' = "walk"
        /\ UNCHANGED <<call, flags, a, rows, status>>
    BY <1>7 DEF Du!ReaddirFinds, Du!Walk, Du!Begin
  <2>2. Trees' = Trees
    BY <1>0, <2>1, TreesStay
  <2>3. args # <<>> /\ a = 1 /\ names \subseteq Du!Roots /\ Balanced(Trees, rows, Dealt, {})
    <3>1. args # <<>> /\ a <= Len(args)
      BY <2>1 DEF DuPlaced
    <3> QED BY <1>b, <1>c, <2>1, <3>1 DEF Listing
  <2>4. args[1] = cwd /\ args[1] \in Du!Dir /\ d \in Children[cwd]
    <3>1. args[1] \in Du!Dir /\ Du!Roots = Children[args[1]]
      BY <2>1, <2>3 DEF Du!Roots
    <3> QED BY <2>1, <2>3, <3>1 DEF Du!Covered
  <2>5. n = d
    <3>1. n \in Children[cwd] /\ Name[n] = Name[d]
      BY <2>1 DEF Du!LookedUp
    <3> QED BY <2>4, <3>1, DuTree
  <2>6. root' \in Dealt' /\ Dealt' \ {root'} = Dealt
    BY <1>0, <1>a, <2>1, <2>3, <2>5 DEF Dealt
  <2>7. Walking({})' /\ Shown({})' = {}
    BY <2>1, WalkBegins
  <2>8. Balanced(Trees', rows', Dealt' \ {root'}, Shown({})')
    BY <2>1, <2>2, <2>3, <2>6, <2>7
  <2>9. status' = "running" /\ names' \subseteq Du!Roots'
    BY <1>a, <1>b, <2>1, <2>3
  <2> QED BY <2>1, <2>6, <2>7, <2>8, <2>9 DEF Listing
<1>8. CASE Du!Total
  <2>1. /\ pc = "readdir" /\ names = {} /\ a' = a + 1 /\ pc' = "operand"
        /\ rows' = (IF total' = 0 THEN rows ELSE Append(rows, <<Nothing, total'>>))
        /\ total' = total + blocks
        /\ UNCHANGED <<call, flags, names, status>>
    BY <1>8 DEF Du!Total
  <2>2. Trees' = Trees /\ args # <<>> /\ a = 1
    <3>1. args # <<>> /\ a <= Len(args)
      BY <2>1 DEF DuPlaced
    <3> QED BY <1>0, <1>b, <1>c, <2>1, <3>1, TreesStay
  <2>3. Dealt' = Dealt
    BY <1>0, <1>a, <2>1, <2>2 DEF Dealt
  <2>4. Balanced(Trees, rows', Dealt, {})
    <3>1. PICK row : row = <<Nothing, total'>>
      OBVIOUS
    <3>2. row \in (Node \union {Nothing}) \X Nat /\ row[1] = Nothing /\ Nothing \notin Node
      BY <2>1, <3>1, DuTree DEF DuPlaced, Du!NftwAssumption
    <3>3. Balanced(Trees, rows, Dealt, {})
      BY <2>1 DEF Listing
    <3>4. Balanced(Trees, Append(rows, row), Dealt, {})
      BY <1>b, <3>2, <3>3, BalancedRow, RootsFinite
    <3> QED BY <2>1, <3>1, <3>3, <3>4
  <2>5. Balanced(Trees', rows', Dealt', {})
    BY <2>2, <2>3, <2>4
  <2> QED BY <1>b, <2>1, <2>5 DEF Listing
<1>9. CASE Du!Finish
  <2>1. /\ pc \in {"exit", "operand"} /\ (pc = "operand" => a > Len(args)) /\ pc' = "exited"
        /\ UNCHANGED <<call, flags, rows>>
    BY <1>9 DEF Du!Finish, Du!Exit
  <2>2. Trees' = Trees
    BY <1>0, <2>1, TreesStay
  <2>3. Dealt = Du!Roots
    BY <1>b, <2>1 DEF Dealt, DuPlaced
  <2>4. Balanced(Trees, rows, Dealt, {})
    BY <2>1 DEF Listing
  <2>5. Balanced(Trees', rows', Du!Roots', {})
    BY <1>a, <2>1, <2>2, <2>3, <2>4
  <2> QED BY <2>1, <2>5 DEF Listing
<1>10. CASE UNCHANGED Du!vars
  <2>1. UNCHANGED <<call, flags, a, names, rows, total, root, todo, entered, pc, status>>
    BY <1>10 DEF Du!vars
  <2>2. Trees' = Trees /\ \A V : Shown(V)' = Shown(V)
    BY <1>0, <2>1, TreesStay
  <2>3. Dealt' = Dealt
    BY <1>0, <1>a, <2>1 DEF Dealt
  <2>4. ASSUME NEW V, Walking(V) PROVE Walking(V)'
    BY <1>0, <2>1, <2>4 DEF Walking, Du!phys, Goes, Away, Du!Reached, Du!Holds
  <2>5. ASSUME pc' = "walk"
        PROVE  root' \in Dealt' /\ \E V \in SUBSET Node :
                 Walking(V)' /\ Balanced(Trees', rows', Dealt' \ {root'}, Shown(V)')
    <3>1. PICK V \in SUBSET Node :
            root \in Dealt /\ Walking(V) /\ Balanced(Trees, rows, Dealt \ {root}, Shown(V))
      BY <2>1, <2>5 DEF Listing
    <3> QED BY <2>1, <2>2, <2>3, <2>4, <3>1
  <2>6. pc' \in {"operand", "readdir", "exit"} => Balanced(Trees', rows', Dealt', {})
    BY <2>1, <2>2, <2>3 DEF Listing
  <2>7. status' = "zero" => Balanced(Trees', rows', Du!Roots', {})
    BY <1>a, <2>1, <2>2 DEF Listing
  <2>8. args' # <<>> /\ pc' \in {"readdir", "walk"} => names' \subseteq Du!Roots'
    BY <1>0, <1>a, <2>1 DEF Listing
  <2> QED BY <2>1, <2>5, <2>6, <2>7, <2>8 DEF Listing
<1>11. CASE (\E n \in Node : Du!VisitUnstated(n)) \/ (\E d \in Node : Du!ReaddirMisses(d))
  BY <1>11 DEF Du!VisitUnstated, Du!StatvfsFailed, Du!ReaddirMisses
<1> QED BY <1>1, <1>2, <1>3, <1>4, <1>5, <1>6, <1>7, <1>8, <1>9, <1>10, <1>11 DEF Du!Next
-----------------------------------------------------------------------------
\* v is the sum of the rows R of files.
Share(row) == IF row[1] = Nothing THEN 0 ELSE row[2]

SumsTo(R, v) ==
  \E f : /\ f = [k \in 0..Len(R) |-> f[k]]
         /\ f[0] = 0 /\ f[Len(R)] = v
         /\ \A k \in 1..Len(R) : f[k] = f[k-1] + Share(R[k])

LEMMA SumsNone == SumsTo(<<>>, 0)
<1> DEFINE f == [k \in 0..0 |-> 0]
<1>1. /\ f = [k \in 0..0 |-> f[k]] /\ f[0] = 0 /\ Len(<<>>) = 0
      /\ \A k \in 1..0 : f[k] = f[k-1] + Share(<<>>[k])
  OBVIOUS
<1> QED BY <1>1 DEF SumsTo

LEMMA SumsMore ==
  ASSUME NEW V, NEW R \in Seq(V), NEW row \in V, NEW v, SumsTo(R, v)
  PROVE  SumsTo(Append(R, row), v + Share(row))
<1>1. PICK n, Q : n = Len(R) /\ Q = Append(R, row)
  OBVIOUS
<1>2. /\ n \in Nat /\ Len(Q) = n + 1 /\ Q[n+1] = row
      /\ \A k \in 1..n : Q[k] = R[k]
  BY <1>1, AppendProperties, LenProperties
<1>3. PICK f : /\ f[0] = 0 /\ f[n] = v
               /\ \A k \in 1..n : f[k] = f[k-1] + Share(R[k])
  BY <1>1 DEF SumsTo
<1>4. PICK y : y = v + Share(row)
  OBVIOUS
<1> DEFINE g == [k \in 0..(n+1) |-> IF k = n + 1 THEN y ELSE f[k]]
<1>5. g = [k \in 0..(n+1) |-> g[k]] /\ g[0] = 0 /\ g[n+1] = y
  BY <1>2, <1>3
<1>6. ASSUME NEW k \in 1..(n+1) PROVE g[k] = g[k-1] + Share(Q[k])
  <2>1. k - 1 \in 0..n /\ g[k-1] = f[k-1]
    BY <1>2
  <2>2. CASE k = n + 1
    <3>1. g[k-1] = v /\ g[k] = y /\ Q[k] = row
      BY <1>2, <1>3, <2>1, <2>2
    <3> QED BY <1>4, <3>1
  <2>3. CASE k # n + 1
    <3>1. k \in 1..n /\ g[k] = f[k] /\ Q[k] = R[k]
      BY <1>2, <2>3
    <3> QED BY <1>3, <2>1, <3>1
  <2> QED BY <2>2, <2>3
<1> HIDE DEF g
<1> QED BY <1>1, <1>2, <1>4, <1>5, <1>6 DEF SumsTo

LEMMA SumsAll ==
  ASSUME NEW V, rows \in Seq(V), NEW v, SumsTo(rows, v)
  PROVE  v = Du!Sum
<1> DEFINE n == Len(rows)
           Is(h) == h = [k \in 0..n |-> IF k = 0 THEN 0
                                        ELSE h[k-1] + (IF rows[k][1] = Nothing THEN 0 ELSE rows[k][2])]
<1>0. n \in Nat
  OBVIOUS
<1>1. PICK f : /\ f = [k \in 0..n |-> f[k]]
               /\ f[0] = 0 /\ f[n] = v
               /\ \A k \in 1..n : f[k] = f[k-1] + (IF rows[k][1] = Nothing THEN 0 ELSE rows[k][2])
  BY DEF SumsTo, Share
<1>2. Is(f)
  <2> DEFINE h == [k \in 0..n |-> IF k = 0 THEN 0
                                  ELSE f[k-1] + (IF rows[k][1] = Nothing THEN 0 ELSE rows[k][2])]
  <2>1. ASSUME NEW k \in 0..n PROVE f[k] = h[k]
    <3>1. k # 0 => k \in 1..n
      OBVIOUS
    <3> QED BY <1>1, <3>1
  <2> QED BY <1>1, <2>1
<1>3. PICK g : g = CHOOSE h : Is(h)
  OBVIOUS
<1>4. Is(g)
  <2> HIDE DEF Is
  <2> QED BY <1>2, <1>3
<1>5. /\ g[0] = 0
      /\ \A k \in 1..n : g[k] = g[k-1] + (IF rows[k][1] = Nothing THEN 0 ELSE rows[k][2])
  <2>1. ASSUME NEW k \in 0..n
        PROVE  g[k] = IF k = 0 THEN 0
                      ELSE g[k-1] + (IF rows[k][1] = Nothing THEN 0 ELSE rows[k][2])
    <3>1. PICK h : h = [l \in 0..n |-> IF l = 0 THEN 0
                          ELSE g[l-1] + (IF rows[l][1] = Nothing THEN 0 ELSE rows[l][2])]
      OBVIOUS
    <3>2. g[k] = h[k]
      BY <1>4, <3>1
    <3> QED BY <3>1, <3>2
  <2>2. 0 \in 0..n /\ \A k \in 1..n : k \in 0..n /\ k # 0
    BY <1>0
  <2> QED BY <2>1, <2>2
<1>6. Du!Sum = g[n]
  BY <1>3 DEF Du!Sum
<1> DEFINE T == {k \in 0..n : f[k] = g[k]}
<1> HIDE DEF Is
<1>7. 0 \in T
  BY <1>0, <1>1, <1>5
<1>8. ASSUME NEW k \in 0..(n-1), k \in T PROVE k + 1 \in T
  <2>1. k + 1 \in 1..n /\ (k + 1) - 1 = k
    BY <1>0
  <2>2. /\ f[k+1] = f[k] + (IF rows[k+1][1] = Nothing THEN 0 ELSE rows[k+1][2])
        /\ g[k+1] = g[k] + (IF rows[k+1][1] = Nothing THEN 0 ELSE rows[k+1][2])
    BY <1>1, <1>5, <2>1
  <2>3. f[k+1] = g[k+1]
    BY <1>8, <2>1, <2>2
  <2> QED BY <1>0, <2>1, <2>3
<1>9. 0..n \subseteq T
  <2> HIDE DEF T, n
  <2> QED BY <1>0, <1>7, <1>8, UpToInduction
<1> QED BY <1>0, <1>1, <1>6, <1>9

\* total of a du without an error so far that has a single operand: the sum of
\* the rows, behind the operand with its blocks, and then the last row unless
\* it is 0.
Summed ==
  /\ pc \in {"readdir", "walk"} /\ args # <<>> => blocks = Blocks[args[a]]
  /\ Len(args) = 1 /\ a = 1 =>
       SumsTo(rows, total) /\ \A j \in 1..Len(rows) : rows[j][1] # Nothing
  /\ Len(args) = 1 /\ a = 2 =>
       \E s \in Nat :
         /\ SumsTo(rows, s) /\ total = s + Blocks[args[1]]
         /\ IF total = 0 THEN \A j \in 1..Len(rows) : rows[j][1] # Nothing
            ELSE rows # <<>> /\ rows[Len(rows)] = <<Nothing, total>>

LEMMA SummedNext ==
  ASSUME DuPlaced, Summed, ret = 0, [Du!Next]_(Du!vars), ret' = 0
  PROVE  Summed'
<1>0. /\ args \in Seq(Node) /\ Len(args) \in Nat /\ (args = <<>> <=> Len(args) = 0)
      /\ rows \in Seq((Node \union {Nothing}) \X Nat) /\ a \in 1..(Len(args) + 1)
      /\ total \in Nat /\ Len(rows) \in Nat
  BY EmptySeq DEF DuPlaced
<1>. USE DEF Du!given, Du!chosen, Du!operand, Du!walk, Du!result
<1>1. ASSUME UNCHANGED <<args, a, blocks, total, rows>>,
             pc' \in {"readdir", "walk"} /\ args # <<>> => pc \in {"readdir", "walk"}
      PROVE  Summed'
  BY <1>1 DEF Summed
<1>2. CASE \/ Du!NextOption \/ Du!Usage \/ Du!BadBlocksize \/ Du!Start \/ Du!WalkEnd
           \/ Du!WalkFails \/ Du!Finish \/ UNCHANGED Du!vars
  BY <1>1, <1>2 DEF Du!NextOption, Du!Usage, Du!BadBlocksize, Du!Start, Du!Walk, Du!WalkEnd,
    Du!WalkFails, Du!AfterWalk, Du!Finish, Du!Exit, Du!OptionsEnd, Du!vars
<1>3. ASSUME NEW n \in Node, NEW found \in BOOLEAN, Du!Visit(n, found) PROVE Summed'
  <2>1. pc = "walk" /\ pc' = pc /\ UNCHANGED <<args, a, blocks>>
    BY <1>3 DEF Du!Visit
  <2>2. PICK row : row = <<Du!Entry(n), Du!StBlocks(n)>>
    OBVIOUS
  <2>3. \/ UNCHANGED <<total, rows>>
        \/ rows' = Append(rows, row) /\ total' = total + row[2]
    BY <1>3, <2>2 DEF Du!Visit
  <2>4. CASE UNCHANGED <<total, rows>>
    BY <1>1, <2>1, <2>4
  <2>5. CASE rows' = Append(rows, row) /\ total' = total + row[2]
    <3>1. row \in (Node \union {Nothing}) \X Nat /\ row[1] # Nothing
      BY <2>2, RowTypes, DuTree DEF Du!NftwAssumption
    <3>2. Share(row) = row[2]
      BY <3>1 DEF Share
    <3>3. Len(args) = 1 => a = 1
      BY <1>0, <2>1 DEF DuPlaced
    <3>4. ASSUME Len(args) = 1
          PROVE  SumsTo(rows', total') /\ \A j \in 1..Len(rows') : rows'[j][1] # Nothing
      <4>1. SumsTo(rows, total) /\ \A j \in 1..Len(rows) : rows[j][1] # Nothing
        BY <3>3, <3>4 DEF Summed
      <4>2. SumsTo(Append(rows, row), total + Share(row))
        BY <1>0, <3>1, <4>1, SumsMore
      <4>3. /\ Len(rows') = Len(rows) + 1 /\ rows'[Len(rows) + 1] = row
            /\ \A j \in 1..Len(rows) : rows'[j] = rows[j]
        BY <1>0, <2>5, <3>1, AppendProperties
      <4>4. \A j \in 1..Len(rows') : j \in 1..Len(rows) \/ j = Len(rows) + 1
        BY <1>0, <4>3
      <4> QED BY <2>5, <3>1, <3>2, <4>1, <4>2, <4>3, <4>4
    <3>5. Len(args') = 1 => a' # 2
      BY <2>1, <3>3
    <3>6. args' # <<>> => blocks' = Blocks[args'[a']]
      BY <2>1 DEF Summed
    <3> QED BY <2>1, <3>4, <3>5, <3>6 DEF Summed
  <2> QED BY <2>3, <2>4, <2>5
<1>4. CASE Du!Open \/ Du!LstatFails
  <2>1. Du!Open
    BY <1>4 DEF Du!LstatFails
  <2>2. blocks' = Blocks[args[a]] /\ UNCHANGED <<args, a, total, rows>>
    BY <2>1 DEF Du!Open
  <2> QED BY <2>2 DEF Summed
<1>5. CASE \E d \in Node : \E n \in Node : Du!ReaddirFinds(d, n)
  <2>1. pc = "readdir" /\ UNCHANGED <<args, a, blocks, total, rows>>
    BY <1>5 DEF Du!ReaddirFinds
  <2> QED BY <1>1, <2>1
<1>7. CASE (\E n \in Node : Du!VisitUnstated(n)) \/ (\E d \in Node : Du!ReaddirMisses(d))
  BY <1>7 DEF Du!VisitUnstated, Du!StatvfsFailed, Du!ReaddirMisses
<1>6. CASE Du!Total
  <2>1. /\ pc = "readdir" /\ a' = a + 1 /\ pc' = "operand" /\ UNCHANGED args
        /\ total' = total + blocks
        /\ rows' = (IF total' = 0 THEN rows ELSE Append(rows, <<Nothing, total'>>))
    BY <1>6 DEF Du!Total
  <2>2. args # <<>> /\ blocks = Blocks[args[a]]
    BY <2>1 DEF DuPlaced, Summed
  <2>3. ASSUME Len(args) = 1
        PROVE  \E s \in Nat :
                 /\ SumsTo(rows', s) /\ total' = s + Blocks[args[1]]
                 /\ IF total' = 0 THEN \A j \in 1..Len(rows') : rows'[j][1] # Nothing
                    ELSE rows' # <<>> /\ rows'[Len(rows')] = <<Nothing, total'>>
    <3>1. a = 1
      BY <1>0, <2>1, <2>3 DEF DuPlaced
    <3>2. SumsTo(rows, total) /\ \A j \in 1..Len(rows) : rows[j][1] # Nothing
      BY <2>3, <3>1 DEF Summed
    <3>3. total' = total + Blocks[args[1]]
      BY <2>1, <2>2, <3>1
    <3>4. CASE total' = 0
      BY <1>0, <2>1, <3>2, <3>3, <3>4
    <3>5. CASE total' # 0
      <4>1. PICK row : row = <<Nothing, total'>>
        OBVIOUS
      <4>2. row \in (Node \union {Nothing}) \X Nat /\ Share(row) = 0
        BY <1>0, <2>1, <4>1 DEF DuPlaced, Share
      <4>3. SumsTo(Append(rows, row), total + Share(row))
        BY <1>0, <3>2, <4>2, SumsMore
      <4>4. total + Share(row) = total
        BY <1>0, <4>2
      <4>5. rows' = Append(rows, row)
        BY <2>1, <3>5, <4>1
      <4>6. rows' # <<>> /\ rows'[Len(rows')] = row
        <5>1. PICK R, Q : R = rows /\ Q = Append(rows, row)
          OBVIOUS
        <5>2. R \in Seq((Node \union {Nothing}) \X Nat) /\ Len(R) \in Nat /\ Q = Append(R, row)
          BY <1>0, <5>1
        <5>3. Len(Q) = Len(R) + 1 /\ Q[Len(R) + 1] = row
          BY ONLY <4>2, <5>2, AppendProperties
        <5>4. Q # <<>> /\ Q[Len(Q)] = row
          <6>1. Len(<<>>) = 0
            OBVIOUS
          <6> QED BY <5>2, <5>3, <6>1
        <5> QED BY <4>5, <5>1, <5>4
      <4> QED BY <1>0, <3>3, <3>5, <4>1, <4>3, <4>4, <4>5, <4>6
    <3> QED BY <3>4, <3>5
  <2>4. Len(args') = 1 => a' # 1
    BY <1>0, <2>1
  <2> QED BY <2>1, <2>3, <2>4 DEF Summed
<1> QED BY <1>2, <1>3, <1>4, <1>5, <1>6, <1>7 DEF Du!Next

-----------------------------------------------------------------------------
(***************************************************************************)
(* What du lists is what the options ask for.                              *)
(***************************************************************************)
DuChosen ==
  /\ o \in 0..Len(options) /\ flags = {options[j] : j \in 1..o}
  /\ "PHYS" \in call => "H" \in flags
  /\ "H" \in flags => "PHYS" \in call \/ "L" \in flags
  /\ "MOUNT" \in call => "x" \in flags
  /\ \A j \in 1..o : options[j] = "x" /\ (\A k \in (j+1)..o : options[k] \notin {"H", "L"})
       => "MOUNT" \in call
  /\ pc # "options" /\ status \in {"running", "zero"} => o = Len(options) /\ ~Du!Conflict

LEMMA DuChosenInit == Du!Init => DuPlaced /\ DuChosen
BY DuInit DEF Du!Init, DuPlaced, DuChosen

LEMMA DuChosenNext == DuPlaced /\ DuChosen /\ [Du!Next]_(Du!vars) => DuChosen'
<1> SUFFICES ASSUME DuPlaced, DuChosen, [Du!Next]_(Du!vars) PROVE DuChosen'
  OBVIOUS
<1>0. /\ Len(options) \in Nat /\ o \in 0..Len(options) /\ flags = {options[j] : j \in 1..o}
      /\ pc # "exited" => status = "running"
  BY DEF DuPlaced, DuChosen
<1>1. CASE Du!NextOption
  <2>1. /\ pc = "options" /\ pc' = pc /\ options' = options /\ o' = o + 1 /\ o + 1 \in 1..Len(options)
        /\ flags' = flags \union {options[o+1]} /\ call' = Du!CallAfter(options[o+1])
    BY <1>0, <1>1 DEF Du!NextOption, Du!given
  <2>2. options[o+1] \in Du!Option
    BY <2>1 DEF DuPlaced
  <2>3. flags' = {options[j] : j \in 1..(o+1)} /\ 1..(o+1) = (1..o) \union {o+1}
    BY <1>0, <2>1
  <2>4. /\ "PHYS" \in call' => "H" \in flags'
        /\ "H" \in flags' => "PHYS" \in call' \/ "L" \in flags'
        /\ "MOUNT" \in call' => "x" \in flags'
    BY <2>1, <2>2 DEF Du!CallAfter, Du!Option, DuChosen
  <2>5. ASSUME NEW j \in 1..(o+1), options[j] = "x",
               \A k \in (j+1)..(o+1) : options[k] \notin {"H", "L"}
        PROVE  "MOUNT" \in call'
    <3>1. CASE j = o + 1
      BY <2>1, <2>5, <3>1 DEF Du!CallAfter
    <3>2. CASE j # o + 1
      <4>1. j \in 1..o /\ options[o+1] \notin {"H", "L"} /\ \A k \in (j+1)..o : k \in (j+1)..(o+1)
        BY <1>0, <2>5, <3>2
      <4>2. "MOUNT" \in call
        BY <2>5, <4>1 DEF DuChosen
      <4> QED BY <2>1, <2>2, <4>1, <4>2 DEF Du!CallAfter, Du!Option
    <3> QED BY <3>1, <3>2
  <2> QED BY <2>1, <2>3, <2>4, <2>5 DEF DuChosen
<1>2. ASSUME UNCHANGED <<options, o, flags, call>>,
             pc' # "options" /\ status' \in {"running", "zero"} => o = Len(options) /\ ~Du!Conflict
      PROVE  DuChosen'
  BY <1>2 DEF DuChosen, Du!Conflict
<1>3. ASSUME UNCHANGED <<options, o, flags, call>>, pc # "options", status \in {"running", "zero"}
      PROVE  DuChosen'
  BY <1>2, <1>3 DEF DuChosen
<1> USE DEF Du!given, Du!chosen, Du!operand, Du!walk, Du!result
<1>4. CASE Du!Usage \/ Du!BadBlocksize
  BY <1>2, <1>4 DEF Du!Usage, Du!BadBlocksize, Du!Exit
<1>5. CASE Du!Start
  BY <1>2, <1>5 DEF Du!Start, Du!OptionsEnd
<1>6. ASSUME NEW n \in Node, NEW found \in BOOLEAN, Du!Visit(n, found) PROVE DuChosen'
  BY <1>0, <1>3, <1>6 DEF Du!Visit
<1>7. ASSUME NEW n \in Node, Du!VisitUnstated(n) PROVE DuChosen'
  BY <1>0, <1>3, <1>7 DEF Du!VisitUnstated
<1>8. CASE Du!WalkEnd \/ Du!WalkFails
  BY <1>0, <1>3, <1>8 DEF Du!WalkEnd, Du!WalkFails, Du!AfterWalk
<1>9. CASE Du!Open \/ Du!LstatFails \/ Du!Total
  BY <1>0, <1>3, <1>9 DEF Du!Open, Du!LstatFails, Du!Total
<1>10. ASSUME NEW d \in Node, NEW n \in Node, Du!ReaddirFinds(d, n) \/ Du!ReaddirMisses(d)
       PROVE  DuChosen'
  BY <1>0, <1>3, <1>10 DEF Du!ReaddirFinds, Du!ReaddirMisses
<1>11. CASE Du!Finish
  BY <1>0, <1>3, <1>11 DEF Du!Finish, Du!Exit
<1>12. CASE UNCHANGED Du!vars
  BY <1>2, <1>12 DEF Du!vars, DuChosen
<1> QED BY <1>1, <1>4, <1>5, <1>6, <1>7, <1>8, <1>9, <1>10, <1>11, <1>12 DEF Du!Next

\* Links are followed by the walk as they are asked to be, or there are none.
LEMMA AsAsked ==
  ASSUME DuPlaced, DuChosen, status = "zero", Du!Covered
  PROVE  /\ \A opt : Du!Given(opt) <=> opt \in flags
         /\ Du!Given("x") <=> "MOUNT" \in call
         /\ \A r \in Du!Roots : (Du!phys <=> Du!Keep)
              \/ (~Du!phys /\ Du!Keep /\ Below[FALSE][r] \intersect Du!Link = {})
<1>1. o = Len(options) /\ ~Du!Conflict /\ Len(options) \in Nat
  <2>1. pc # "options"
    BY DEF DuPlaced
  <2> QED BY <2>1 DEF DuPlaced, DuChosen
<1>2. \A opt : Du!Given(opt) <=> opt \in flags
  BY <1>1 DEF DuChosen, Du!Given
<1>3. Du!Given("x") => "MOUNT" \in call
  <2>1. SUFFICES ASSUME Du!Given("x") PROVE "MOUNT" \in call
    OBVIOUS
  <2>2. PICK j \in 1..Len(options) :
          options[j] = "x" /\ \A k \in (j+1)..Len(options) : options[k] \notin {"H", "L"}
    BY <2>1 DEF Du!Covered
  <2> QED BY <1>1, <2>2 DEF DuChosen
<1>4. "MOUNT" \in call => Du!Given("x")
  BY <1>2 DEF DuChosen
<1>5. Du!phys => "H" \in flags
  BY DEF Du!phys, DuChosen
<1>6. "H" \in flags => Du!phys /\ "L" \notin flags
  BY <1>1 DEF Du!phys, DuChosen, Du!Conflict
<1>7. Du!Keep <=> "L" \notin flags
  BY <1>2 DEF Du!Keep
<1>8. ASSUME "H" \notin flags, "L" \notin flags, NEW r \in Du!Roots
      PROVE  Below[FALSE][r] \intersect Du!Link = {}
  BY <1>2, <1>8 DEF Du!Covered
<1> QED BY <1>2, <1>3, <1>4, <1>5, <1>6, <1>7, <1>8

LEMMA SameWalk ==
  ASSUME NEW p \in BOOLEAN, NEW q \in BOOLEAN, NEW r \in Node, NEW offp, NEW offq,
         \A m \in Below[p][r] : Du!File(m, p) = Du!File(m, q) /\ (m \in offp <=> m \in offq)
  PROVE  Below[p][r] = Below[q][r] /\ Du!Reached(r, p, offp) = Du!Reached(r, q, offq)
<1>1. \A m \in Below[p][r] : Du!Inside(m, p) = Du!Inside(m, q)
  BY DEF Du!Inside
<1>2. Below[q][r] \subseteq Below[p][r]
  <2> DEFINE S == Below[q][r] \intersect Below[p][r]
  <2>1. S \in SUBSET Below[q][r] /\ r \in S
    BY BelowIs
  <2>2. \A m \in S : Du!Inside(m, q) \subseteq S
    BY <1>1, BelowIs
  <2>3. S = Below[q][r]
    <3> HIDE DEF S
    <3> QED BY <2>1, <2>2, BelowIs
  <2> QED BY <2>3
<1>3. Below[p][r] = Below[q][r]
  <2>1. r \in Below[q][r] /\ \A m \in Below[q][r] : Du!Inside(m, p) \subseteq Below[q][r]
    BY <1>1, <1>2, BelowIs
  <2> QED BY <1>2, <2>1, BelowIs
<1>4. ASSUME NEW S \in SUBSET Below[p][r]
      PROVE  Du!Holds(S, r, p, offp) <=> Du!Holds(S, r, q, offq)
  <2>1. ASSUME NEW n \in S PROVE Du!Inside(n, p) \ offp = Du!Inside(n, q) \ offq
    <3>1. Du!Inside(n, p) = Du!Inside(n, q) /\ Du!Inside(n, p) \subseteq Below[p][r]
      BY <1>1, BelowIs
    <3> QED BY <3>1
  <2>2. \A n \in S : Du!File(n, p) = Du!File(n, q)
    OBVIOUS
  <2> QED BY <2>1, <2>2 DEF Du!Holds
<1> QED BY <1>3, <1>4 DEF Du!Reached

LEMMA ListsAsked ==
  ASSUME DuPlaced, DuChosen, status = "zero", Du!Covered, NEW r \in Du!Roots
  PROVE  r \in Node /\ Lists(r) = Du!Tree(r) /\ (Du!Keep => Lists(r) \subseteq Below[TRUE][r])
<1>1. r \in Node
  BY RootsFinite
<1>2. PICK p \in BOOLEAN, q \in BOOLEAN : p = Du!phys /\ q = Du!Keep
  <2>1. Du!phys \in BOOLEAN /\ Du!Keep \in BOOLEAN
    BY DEF Du!phys, Du!Keep
  <2> QED BY <2>1
<1>3. PICK offp, offq : offp = Away(r) /\ offq = Du!Off(r)
  OBVIOUS
<1>4. \A m \in Below[p][r] : Du!File(m, p) = Du!File(m, q)
  <2>1. p = q \/ (p = FALSE /\ q = TRUE /\ Below[FALSE][r] \intersect Du!Link = {})
    <3>1. (Du!phys <=> Du!Keep) \/ (~Du!phys /\ Du!Keep /\ Below[FALSE][r] \intersect Du!Link = {})
      BY AsAsked
    <3>2. (p <=> q) \/ (~p /\ q /\ Below[FALSE][r] \intersect Du!Link = {})
      BY <1>2, <3>1
    <3>3. CASE p <=> q
      <4>1. p = q
        BY ONLY <3>3, p \in BOOLEAN, q \in BOOLEAN
      <4> QED BY <4>1
    <3>4. CASE ~p /\ q /\ Below[FALSE][r] \intersect Du!Link = {}
      <4>1. p = FALSE /\ q = TRUE
        BY ONLY <3>4, p \in BOOLEAN, q \in BOOLEAN
      <4> QED BY <3>4, <4>1
    <3> QED BY <3>2, <3>3, <3>4
  <2>2. ASSUME p = FALSE, q = TRUE, Below[FALSE][r] \intersect Du!Link = {}, NEW m \in Below[p][r]
        PROVE  Du!File(m, p) = m /\ Du!File(m, q) = m
    BY <2>2 DEF Du!File, Du!Resolved
  <2> QED BY <2>1, <2>2
<1>5. r \in Below[p][r] /\ Below[p][r] \subseteq Node
  BY <1>1, BelowIs
<1>6. \A m \in Below[p][r] : m \in offp <=> m \in offq
  <2>1. offp = {m \in Node : "MOUNT" \in call /\ ~((Du!File(m, p) \in Mounted) <=> (Du!File(r, p) \in Mounted))}
    BY <1>2, <1>3 DEF Away
  <2>2. offq = IF Du!Given("x")
               THEN {m \in Node : ~((Du!File(m, q) \in Mounted) <=> (Du!File(r, q) \in Mounted))} ELSE {}
    BY <1>2, <1>3 DEF Du!Off
  <2>3. Du!Given("x") <=> "MOUNT" \in call
    BY AsAsked
  <2> QED BY <1>4, <1>5, <2>1, <2>2, <2>3
<1>7. PICK R : R = Du!Reached(r, p, offp)
  OBVIOUS
<1>8. Goes(r) = R /\ R = Du!Reached(r, q, offq) /\ R \subseteq Below[p][r] /\ Below[p][r] = Below[q][r]
  <2>1. Goes(r) = R
    BY <1>2, <1>3, <1>7 DEF Goes
  <2>2. R \subseteq Below[p][r]
    BY <1>7 DEF Du!Reached
  <2> QED BY <1>1, <1>4, <1>6, <1>7, <2>1, <2>2, SameWalk
<1>9. ASSUME NEW m \in R
      PROVE  /\ Du!Listed(m) <=> Du!Given("a") \/ Du!File(m, q) \in Du!Dir \ shut
             /\ Du!Entry(m) = IF Du!File(m, q) \in Du!Dir THEN Du!File(m, q) ELSE m
  <2>1. Du!File(m, Du!phys) = Du!File(m, q)
    BY <1>2, <1>4, <1>8
  <2>2. Du!Given("a") <=> "a" \in flags
    BY AsAsked
  <2> QED BY <2>1, <2>2 DEF Du!Listed, Du!Entry
<1>10. Du!Tree(r) = {IF Du!File(n, q) \in Du!Dir THEN Du!File(n, q) ELSE n :
                      n \in {m \in R : Du!Given("a") \/ Du!File(m, q) \in Du!Dir \ shut}}
  BY <1>2, <1>3, <1>8 DEF Du!Tree
<1>11. Lists(r) = Du!Tree(r)
  BY <1>8, <1>9, <1>10 DEF Lists
<1>12. ASSUME Du!Keep PROVE Lists(r) \subseteq Below[TRUE][r]
  <2>1. q = TRUE
    BY <1>2, <1>12
  <2>2. \A m : Du!File(m, q) = m
    BY <2>1 DEF Du!File
  <2>3. Lists(r) \subseteq R
    BY <1>10, <1>11, <2>2
  <2>4. R \subseteq Below[q][r]
    BY <1>8
  <2> QED BY <2>1, <2>3, <2>4
<1> QED BY <1>1, <1>11, <1>12

\* A file is below one of two files of a directory only.
LEMMA Parent ==
  ASSUME NEW r \in Node, NEW m \in Below[TRUE][r], m # r
  PROVE  \E e \in Du!Dir : e \in Below[TRUE][r] /\ m \in Children[e]
<1> DEFINE S == Below[TRUE][r] \ {m}
<1>1. SUFFICES ASSUME \A e \in Du!Dir : e \in Below[TRUE][r] => m \notin Children[e] PROVE FALSE
  OBVIOUS
<1>2. /\ r \in Below[TRUE][r] /\ \A n \in Below[TRUE][r] : Du!Inside(n, TRUE) \subseteq Below[TRUE][r]
      /\ \A T \in SUBSET Below[TRUE][r] :
           r \in T /\ (\A n \in T : Du!Inside(n, TRUE) \subseteq T) => T = Below[TRUE][r]
  BY BelowIs
<1>3. \A n : Du!Inside(n, TRUE) = IF n \in Du!Dir THEN Children[n] ELSE {}
  BY DEF Du!Inside, Du!File
<1>4. \A n \in S : Du!Inside(n, TRUE) \subseteq S
  BY <1>1, <1>2, <1>3
<1>5. S = Below[TRUE][r]
  BY <1>2, <1>4
<1> QED BY <1>5

LEMMA BelowOne ==
  ASSUME NEW d \in Du!Dir, NEW b \in Children[d], NEW c \in Children[d], b # c
  PROVE  Below[TRUE][b] \intersect Below[TRUE][c] = {}
<1>0. b \in Node /\ c \in Node
  BY DuTree DEF Du!NftwAssumption
<1>1. /\ \A e, f \in Du!Dir : \A n : n \in Children[e] /\ n \in Children[f] => e = f
      /\ d \notin Below[TRUE][b] /\ d \notin Below[TRUE][c]
  BY DuTree DEF Du!Forest
<1>2. /\ b \in Below[TRUE][b] /\ \A n \in Below[TRUE][b] : Du!Inside(n, TRUE) \subseteq Below[TRUE][b]
      /\ \A T \in SUBSET Below[TRUE][b] :
           b \in T /\ (\A n \in T : Du!Inside(n, TRUE) \subseteq T) => T = Below[TRUE][b]
  BY <1>0, BelowIs
<1>3. \A n : Du!Inside(n, TRUE) = IF n \in Du!Dir THEN Children[n] ELSE {}
  BY DEF Du!Inside, Du!File
<1> DEFINE S == Below[TRUE][b] \ Below[TRUE][c]
<1>4. b \in S
  <2>1. SUFFICES ASSUME b \in Below[TRUE][c] PROVE FALSE
    BY <1>2
  <2>2. PICK e \in Du!Dir : e \in Below[TRUE][c] /\ b \in Children[e]
    BY <1>0, <2>1, Parent
  <2> QED BY <1>1, <2>2
<1>5. ASSUME NEW n \in S, n \in Du!Dir, NEW m \in Children[n] PROVE m \in S
  <2>1. m \in Below[TRUE][b]
    BY <1>2, <1>3, <1>5
  <2>2. SUFFICES ASSUME m \in Below[TRUE][c] PROVE FALSE
    BY <2>1
  <2>3. CASE m = c
    BY <1>1, <1>5, <2>3
  <2>4. CASE m # c
    <3>1. PICK e \in Du!Dir : e \in Below[TRUE][c] /\ m \in Children[e]
      BY <1>0, <2>2, <2>4, Parent
    <3> QED BY <1>1, <1>5, <3>1
  <2> QED BY <2>3, <2>4
<1>6. \A n \in S : Du!Inside(n, TRUE) \subseteq S
  BY <1>3, <1>5
<1>7. S = Below[TRUE][b]
  <2>1. S \in SUBSET Below[TRUE][b]
    OBVIOUS
  <2> HIDE DEF S
  <2> QED BY <1>2, <1>4, <1>6, <2>1
<1> QED BY <1>7

LEMMA RootsApart ==
  ASSUME DuPlaced, NEW r \in Du!Roots, NEW s \in Du!Roots, r # s
  PROVE  Below[TRUE][r] \intersect Below[TRUE][s] = {}
<1>1. args # <<>> /\ args[1] \in Du!Dir /\ r \in Children[args[1]] /\ s \in Children[args[1]]
  BY DEF Du!Roots
<1> QED BY <1>1, BelowOne

\* A du that exits with zero has listed the trees it was asked for and nothing
\* else, every file once unless links are followed; and with -a the total is the
\* sum of that and the operand's own blocks, for every tree; command lines that
\* are not Covered left out (du.c:26-48, 117-153).
THEOREM TreeListed == Spec => []DuListsTree
<1> DEFINE Inv == prog = "du" => DuPlaced /\ DuChosen /\ (ret = 0 => Listing /\ Summed)
<1>1. Init => Inv
  <2>1. ASSUME Du!Init PROVE Listing /\ Summed
    <3>1. rows = <<>> /\ total = 0 /\ names = {} /\ a = 1 /\ pc = "options" /\ status = "running"
      BY <2>1 DEF Du!Init
    <3> QED BY <3>1, SumsNone DEF Listing, Summed
  <2>2. ASSUME Ch!Init PROVE prog # "du"
    BY <2>2 DEF Ch!Init, Ch!default
  <2> QED BY <2>1, <2>2, DuChosenInit DEF Init
<1>2. Inv /\ [Next]_vars => Inv'
  <2> SUFFICES ASSUME Inv, [Next]_vars, prog' = "du"
               PROVE  DuPlaced' /\ DuChosen' /\ (ret' = 0 => Listing' /\ Summed')
    OBVIOUS
  <2>1. prog = "du" /\ [Du!Next]_(Du!vars)
    BY DuSteps
  <2>2. ret' = 0 => ret = 0
    BY <2>1 DEF Du!Next, Du!vars, Du!NextOption, Du!Usage, Du!BadBlocksize, Du!Start, Du!Visit,
      Du!VisitUnstated, Du!StatvfsFailed, Du!WalkEnd, Du!WalkFails, Du!Open, Du!LstatFails,
      Du!ReaddirFinds, Du!ReaddirMisses, Du!Total, Du!Finish, Du!Exit, Du!result
  <2> QED BY <2>1, <2>2, PlacedNext, DuChosenNext, ListingNext, SummedNext
<1>3. Inv => DuListsTree
  <2> SUFFICES ASSUME Inv, prog = "du", status = "zero", Du!Covered PROVE Du!ListsTree
    BY DEF DuListsTree, Du!ListsTree
  <2>1. DuPlaced /\ DuChosen /\ Listing /\ Summed /\ a > Len(args) /\ Balanced(Trees, rows, Du!Roots, {})
    BY DEF DuPlaced, Listing
  <2>2. \A r \in Du!Roots : Trees[r] = Du!Tree(r) /\ (Du!Keep => Du!Tree(r) \subseteq Below[TRUE][r])
    BY <2>1, ListsAsked DEF Trees
  <2>3. ASSUME NEW n \in Node
        PROVE  /\ Du!RowsOf(n) # {} <=> \E r \in Du!Roots : n \in Du!Tree(r)
               /\ Du!Keep => Du!Cardinality(Du!RowsOf(n)) <= 1
    <3> DEFINE F == {r \in Du!Roots : n \in Trees[r]}
               J == {j \in 1..Len(rows) : rows[j][1] = n}
    <3>1. Cardinality(J) = Cardinality(F) + 0 /\ n \notin {}
      BY <2>1 DEF Balanced, Times, Owed
    <3>2. IsFiniteSet(F) /\ IsFiniteSet(J)
      <4>1. IsFiniteSet(Du!Roots) /\ Len(rows) \in Nat
        BY <2>1, RootsFinite DEF DuPlaced
      <4>2. IsFiniteSet(1..Len(rows)) /\ F \subseteq Du!Roots /\ J \subseteq 1..Len(rows)
        BY <4>1, FS_Interval
      <4> QED BY <4>1, <4>2, FS_Subset
    <3>3. J = Du!RowsOf(n) /\ (F # {} <=> \E r \in Du!Roots : n \in Du!Tree(r))
      BY <2>2 DEF Du!RowsOf
    <3>4. ASSUME Du!Keep PROVE \A r, s \in F : r = s
      <4>1. \A r \in F : r \in Du!Roots /\ n \in Below[TRUE][r]
        BY <2>2, <3>4
      <4>2. \A r, s \in Du!Roots : r # s => Below[TRUE][r] \intersect Below[TRUE][s] = {}
        BY <2>1, RootsApart
      <4> HIDE DEF F
      <4> QED BY <4>1, <4>2
    <3> HIDE DEF F, J
    <3>5. Cardinality(J) = Cardinality(F) /\ Cardinality(F) \in Nat
      BY <3>1, <3>2, FS_CardinalityType
    <3>6. J # {} <=> F # {}
      BY <3>2, <3>5, FS_EmptySet
    <3>7. ASSUME Du!Keep PROVE Cardinality(F) <= 1
      <4>1. F = {} \/ \E r : F = {r}
        <5>1. \A r, s \in F : r = s
          BY <3>4, <3>7
        <5>2. ASSUME NEW r \in F PROVE F = {r}
          BY <5>1
        <5> QED BY <5>2
      <4>2. Cardinality({}) = 0 /\ \A r : Cardinality({r}) = 1
        BY FS_EmptySet, FS_Singleton
      <4>3. CASE F = {}
        <5>1. Cardinality(F) = 0
          BY <4>2, <4>3
        <5> QED BY <5>1
      <4>4. CASE \E r : F = {r}
        <5>1. Cardinality(F) = 1
          BY <4>2, <4>4
        <5> QED BY <5>1
      <4> QED BY <4>1, <4>3, <4>4
    <3> QED BY <3>3, <3>5, <3>6, <3>7, DuSameSize
  <2>4. ASSUME args # <<>>, Du!Sum + Blocks[args[1]] # 0
        PROVE  rows # <<>> /\ rows[Len(rows)] = <<Nothing, Du!Sum + Blocks[args[1]]>>
    <3>1. Len(args) = 1 /\ a = 2 /\ rows \in Seq((Node \union {Nothing}) \X Nat)
      <4>1. args \in Seq(Node) /\ Len(args) <= 1 /\ a \in 1..(Len(args) + 1)
        BY <2>1 DEF DuPlaced, Du!Covered
      <4>2. Len(args) = 1
        <5>1. Len(args) # 0 /\ Len(args) \in Nat
          BY <2>4, <4>1, EmptySeq
        <5>2. PICK l : l = Len(args)
          OBVIOUS
        <5>3. l \in Nat /\ l # 0 /\ l <= 1
          BY <4>1, <5>1, <5>2
        <5>4. l = 1
          BY ONLY <5>3
        <5> QED BY <5>2, <5>4
      <4> QED BY <2>1, <4>1, <4>2 DEF DuPlaced
    <3>2. PICK s \in Nat :
            /\ SumsTo(rows, s) /\ total = s + Blocks[args[1]]
            /\ IF total = 0 THEN \A j \in 1..Len(rows) : rows[j][1] # Nothing
               ELSE rows # <<>> /\ rows[Len(rows)] = <<Nothing, total>>
      BY <2>1, <3>1 DEF Summed
    <3>3. s = Du!Sum
      BY <3>1, <3>2, SumsAll
    <3> QED BY <2>4, <3>2, <3>3
  <2> QED BY <2>3, <2>4 DEF Du!ListsTree
<1> QED BY <1>1, <1>2, <1>3, PTL DEF Spec
=============================================================================
