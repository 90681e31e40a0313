----------------------------- MODULE DirsProofs -----------------------------
(***************************************************************************)
(* Theorems about Dirs, for any number of processes, every tree of paths   *)
(* and all command lines.                                                  *)
(***************************************************************************)
EXTENDS Dirs, TLAPS

Status == {"running", "error", "zero", "one"}

\* Where each process is in its operands: at a directory on the way to the
\* present one, and only with -p.
Typed ==
  /\ tree \in [Path -> Kind] /\ job \in [Proc -> Job]
  /\ a \in [Proc -> Nat \ {0}] /\ at \in [Proc -> Path \union {Top}]
  /\ ret \in [Proc -> {0, 1}] /\ pc \in [Proc -> {"options", "work", "stat", "exited"}]
  /\ status \in [Proc -> Status]
  /\ fault \subseteq Proc

OnTheWay(p) ==
  /\ pc[p] = "stat" => a[p] <= Len(job[p].args)
  /\ at[p] # Top =>
       /\ job[p].p /\ a[p] <= Len(job[p].args) /\ at[p] \in Way[Operand(p)]
       /\ job[p].prog = "mkdir" => at[p] # Operand(p)
       /\ job[p].prog = "rmdir" => Dirname[at[p]] # Top

IInv == Typed /\ \A p \in Proc : OnTheWay(p)

LEMMA JobTyped ==
  ASSUME Typed, NEW p \in Proc
  PROVE  /\ job[p] \in Job /\ job[p].p \in BOOLEAN /\ job[p].args \in Seq(Path)
         /\ a[p] \in Nat \ {0}
         /\ a[p] <= Len(job[p].args) => Operand(p) \in Path
<1>1. job[p] \in Job /\ a[p] \in Nat \ {0}
  BY DEF Typed
<1>2. job[p].p \in BOOLEAN /\ job[p].args \in Seq(Path)
  BY <1>1, TreeAssumption
<1> QED BY <1>1, <1>2 DEF Operand

\* mkdir -p always has a directory to make next.
LEMMA MakingOnTheWay ==
  ASSUME IInv, NEW p \in Proc, Mkdir(p), Working(p)
  PROVE  /\ Making(p) \in Path /\ Making(p) \in Named(p)
         /\ job[p].p => Making(p) \in Way[Operand(p)] /\ Dirname[Making(p)] = at[p]
<1>1. job[p].args \in Seq(Path) /\ a[p] \in Nat \ {0} /\ Operand(p) \in Path
  BY JobTyped DEF IInv, Working
<1>2. Operand(p) \in Args(p)
  BY <1>1 DEF Args, Operand, Working
<1>3. CASE job[p].p
  <2>1. at[p] \in {Top} \union (Way[Operand(p)] \ {Operand(p)})
    BY DEF IInv, OnTheWay, Mkdir, Typed
  <2>2. \E x \in Way[Operand(p)] : Dirname[x] = at[p]
    BY <1>1, <2>1, TreeAssumption
  <2>3. Making(p) \in Way[Operand(p)] /\ Dirname[Making(p)] = at[p]
    BY <1>3, <2>2 DEF Making
  <2>4. Way[Operand(p)] \subseteq Path
    BY <1>1, TreeAssumption
  <2> QED BY <1>2, <1>3, <2>3, <2>4 DEF Named, Mkdir
<1>4. CASE ~job[p].p
  BY <1>1, <1>2, <1>4 DEF Making, Named, Mkdir
<1> QED BY <1>3, <1>4

LEMMA RemovingOnTheWay ==
  ASSUME IInv, NEW p \in Proc, Rmdir(p), Working(p)
  PROVE  /\ Removing(p) \in Path /\ Removing(p) \in Named(p)
         /\ job[p].p => Removing(p) \in Way[Operand(p)]
         /\ ~job[p].p => Removing(p) = Operand(p)
<1>1. job[p].args \in Seq(Path) /\ a[p] \in Nat \ {0} /\ Operand(p) \in Path
  BY JobTyped DEF IInv, Working
<1>2. Operand(p) \in Args(p)
  BY <1>1 DEF Args, Operand, Working
<1>3. Operand(p) \in Way[Operand(p)] /\ Way[Operand(p)] \subseteq Path
  BY <1>1, TreeAssumption
<1>4. CASE at[p] = Top
  BY <1>1, <1>2, <1>3, <1>4 DEF Removing, Named, Rmdir
<1>5. CASE at[p] # Top
  <2>1. job[p].p /\ at[p] \in Way[Operand(p)] /\ Dirname[at[p]] # Top
    BY <1>5 DEF IInv, OnTheWay, Rmdir
  <2>2. Dirname[at[p]] \in Way[Operand(p)]
    BY <1>1, <2>1, TreeAssumption
  <2> QED BY <1>2, <1>3, <1>5, <2>1, <2>2 DEF Removing, Named, Rmdir
<1> QED BY <1>4, <1>5
-----------------------------------------------------------------------------
\* Of p's variables a step changes nothing else, and of the others' nothing.
LEMMA OthersStay ==
  ASSUME IInv, NEW p \in Proc, job' = job, Typed',
         \A q \in Proc \ {p} : a'[q] = a[q] /\ at'[q] = at[q] /\ pc'[q] = pc[q],
         OnTheWay(p)'
  PROVE  IInv'
<1> SUFFICES ASSUME NEW q \in Proc, q # p PROVE OnTheWay(q)'
  BY DEF IInv
<1>1. OnTheWay(q)
  BY DEF IInv
<1> QED BY <1>1 DEF OnTheWay, Operand

LEMMA NextOperandInv ==
  ASSUME IInv, NEW p \in Proc, job' = job, NextOperand(p),
         tree' \in [Path -> Kind], fault' \subseteq Proc, ret' \in [Proc -> {0, 1}],
         status' = status
  PROVE  IInv'
<1>1. Typed'
  <2>1. a[p] + 1 \in Nat \ {0}
    BY DEF IInv, Typed
  <2>2. a' \in [Proc -> Nat \ {0}]
    BY <2>1 DEF IInv, Typed, NextOperand, Set
  <2> QED BY <2>2 DEF IInv, Typed, Status, NextOperand, Set
<1>2. OnTheWay(p)'
  BY DEF IInv, Typed, Status, NextOperand, Set, OnTheWay
<1> QED BY <1>1, <1>2, OthersStay DEF NextOperand, Set, IInv, Typed, Status

LEMMA ExitInv ==
  ASSUME IInv, NEW p \in Proc, NEW s \in Status, Exit(p, s), UNCHANGED <<job, a, at, ret>>,
         tree' \in [Path -> Kind], fault' \subseteq Proc
  PROVE  IInv'
<1>1. Typed'
  BY DEF IInv, Typed, Status, Exit, Set
<1>2. OnTheWay(p)'
  BY DEF IInv, Typed, Status, Exit, Set, OnTheWay, Operand
<1> QED BY <1>1, <1>2, OthersStay DEF Exit, Set, IInv, Typed, Status

LEMMA InvInit == DirsInit => IInv
<1> SUFFICES ASSUME Init PROVE IInv
  BY DEF DirsInit
<1>1. tree \in [Path -> Kind]
  BY TreeAssumption DEF Init
<1>2. Typed
  BY <1>1 DEF Init, Typed, Status
<1>3. ASSUME NEW p \in Proc PROVE OnTheWay(p)
  BY <1>3 DEF Init, OnTheWay
<1> QED BY <1>2, <1>3 DEF IInv

LEMMA InvMkdir == ASSUME IInv, NEW p \in Proc, MkdirStep(p) PROVE IInv'
<1>1. CASE Make(p)
  <2>1. Making(p) \in Path /\ (job[p].p => Making(p) \in Way[Operand(p)])
    BY <1>1, MakingOnTheWay DEF Make
  <2>2. tree' \in [Path -> Kind]
    BY <1>1, <2>1 DEF Make, Set, Kind, IInv, Typed
  <2>3. CASE Making(p) = Operand(p)
    BY <1>1, <2>2, <2>3, NextOperandInv DEF Make, IInv, Typed
  <2>4. CASE Making(p) # Operand(p)
    <3>1. at' = Set(at, p, Making(p)) /\ UNCHANGED <<job, fault, a, pc, ret, status>>
      BY <1>1, <2>4 DEF Make
    <3>2. Typed'
      BY <2>1, <2>2, <3>1 DEF IInv, Typed, Status, Set
    <3>3. job[p].p
      BY <2>4 DEF Making
    <3>4. OnTheWay(p)'
      BY <1>1, <2>1, <2>4, <3>1, <3>3 DEF IInv, Typed, Status, Set, OnTheWay, Make, Mkdir, Working,
        Operand
    <3> QED BY <3>1, <3>2, <3>4, OthersStay DEF Set, IInv, Typed, Status
  <2> QED BY <2>3, <2>4
<1>2. CASE WayExists(p)
  <2>1. Making(p) \in Path /\ (job[p].p => Making(p) \in Way[Operand(p)])
    BY <1>2, MakingOnTheWay DEF WayExists
  <2>2. at' = Set(at, p, Making(p)) /\ UNCHANGED <<tree, job, fault, a, pc, ret, status>>
    BY <1>2 DEF WayExists
  <2>3. Typed'
    BY <2>1, <2>2 DEF IInv, Typed, Status, Set
  <2>4. OnTheWay(p)'
    BY <1>2, <2>1, <2>2 DEF IInv, Typed, Status, Set, OnTheWay, WayExists, Making, Mkdir, Working,
      Operand
  <2> QED BY <2>2, <2>3, <2>4, OthersStay DEF Set, IInv, Typed, Status
<1>3. CASE Exists(p)
  <2>1. pc' = Set(pc, p, "stat") /\ UNCHANGED <<tree, job, fault, a, at, ret, status>>
    BY <1>3 DEF Exists
  <2>2. Typed'
    BY <2>1 DEF IInv, Typed, Status, Set
  <2>3. OnTheWay(p)'
    BY <1>3, <2>1 DEF IInv, Typed, Status, Set, OnTheWay, Exists, Working, Operand
  <2> QED BY <2>1, <2>2, <2>3, OthersStay DEF Set, IInv, Typed, Status
<1>4. CASE MakeFails(p)
  BY <1>4, NextOperandInv DEF MakeFails, Blame, Set, IInv, Typed, Status
<1>5. CASE StatDir(p)
  BY <1>5, NextOperandInv DEF StatDir, IInv, Typed
<1>6. CASE StatRejects(p)
  BY <1>6, NextOperandInv DEF StatRejects, Rejected, Blame, Set, IInv, Typed, Status
<1> QED BY <1>1, <1>2, <1>3, <1>4, <1>5, <1>6 DEF MkdirStep

LEMMA InvRmdir == ASSUME IInv, NEW p \in Proc, RmdirStep(p) PROVE IInv'
<1>1. CASE Remove(p)
  <2>1. Removing(p) \in Path /\ (job[p].p => Removing(p) \in Way[Operand(p)])
    BY <1>1, RemovingOnTheWay DEF Remove
  <2>2. tree' \in [Path -> Kind]
    BY <1>1, <2>1 DEF Remove, Set, Kind, IInv, Typed
  <2>3. CASE Upward(p) /\ Dirname[Removing(p)] # Top
    <3>1. at' = Set(at, p, Removing(p)) /\ UNCHANGED <<job, fault, a, pc, ret, status>>
      BY <1>1, <2>3 DEF Remove
    <3>2. Typed'
      BY <2>1, <2>2, <3>1 DEF IInv, Typed, Status, Set
    <3>3. OnTheWay(p)'
      BY <1>1, <2>1, <2>3, <3>1 DEF IInv, Typed, Status, Set, OnTheWay, Remove, Rmdir, Working,
        Operand, Upward
    <3> QED BY <3>1, <3>2, <3>3, OthersStay DEF Set, IInv, Typed, Status
  <2>4. CASE ~(Upward(p) /\ Dirname[Removing(p)] # Top)
    BY <1>1, <2>2, <2>4, NextOperandInv DEF Remove, IInv, Typed
  <2> QED BY <2>3, <2>4
<1>2. CASE RemoveFails(p)
  BY <1>2, ExitInv DEF RemoveFails, Blame, IInv, Typed, Status
<1> QED BY <1>1, <1>2 DEF RmdirStep

LEMMA LinksTyped ==
  ASSUME IInv, NEW p \in Proc
  PROVE  /\ job[p].prog = "link" => job[p].args[1] \in Path /\ job[p].args[2] \in Path
         /\ job[p].prog = "unlink" => job[p].args[1] \in Path
<1>1. job[p] \in Job
  BY JobTyped DEF IInv
<1> QED BY <1>1, TreeAssumption

LEMMA InvLinks == ASSUME IInv, NEW p \in Proc, LinksStep(p) PROVE IInv'
<1>1. CASE Link(p)
  <2>1. tree' \in [Path -> Kind]
    BY <1>1, LinksTyped DEF Link, Set, IInv, Typed
  <2> QED BY <1>1, <2>1, ExitInv DEF Link, Status, IInv, Typed
<1>2. CASE Unlink(p)
  <2>1. tree' \in [Path -> Kind]
    BY <1>2, LinksTyped DEF Unlink, Set, Kind, IInv, Typed
  <2> QED BY <1>2, <2>1, ExitInv DEF Unlink, Status, IInv, Typed
<1>3. CASE LinkFails(p) \/ UnlinkFails(p)
  BY <1>3, ExitInv DEF LinkFails, UnlinkFails, Blame, IInv, Typed, Status
<1> QED BY <1>1, <1>2, <1>3 DEF LinksStep

LEMMA InvNext == IInv /\ [Next]_dirsVars => IInv'
<1> SUFFICES ASSUME IInv, [Next]_dirsVars PROVE IInv'
  OBVIOUS
<1>1. ASSUME NEW p \in Proc, Step(p) PROVE IInv'
  <2>1. CASE Options(p)
    <3>1. pc' = Set(pc, p, "work") /\ UNCHANGED <<tree, job, fault, a, at, ret, status>>
      BY <2>1 DEF Options
    <3>2. Typed'
      BY <3>1 DEF IInv, Typed, Status, Set
    <3>3. OnTheWay(p)'
      BY <3>1 DEF IInv, Typed, Status, Set, OnTheWay, Operand
    <3> QED BY <3>1, <3>2, <3>3, OthersStay DEF Set, IInv, Typed, Status
  <2>2. CASE BadOptions(p) \/ Finish(p)
    BY <2>2, ExitInv DEF BadOptions, Finish, IInv, Typed, Status
  <2> QED BY <1>1, <2>1, <2>2, InvMkdir, InvRmdir, InvLinks DEF Step
<1>2. CASE UNCHANGED dirsVars
  BY <1>2 DEF dirsVars, vars, proc, IInv, Typed, OnTheWay, Operand
<1> QED BY <1>1, <1>2 DEF Next
-----------------------------------------------------------------------------
\* What a step that changes x is, and that it was asked for.
AskedFor(x) ==
  \E p \in Proc :
    /\ pc[p] = "work" /\ x \in Named(p)
    /\ job[p].prog = (IF tree'[x] = "dir" THEN "mkdir"
                      ELSE IF tree'[x] # "none" THEN "link"
                      ELSE IF tree[x] = "dir" THEN "rmdir"
                      ELSE "unlink")

LEMMA StepAsked ==
  ASSUME IInv, NEW p \in Proc, Step(p), NEW x \in Path, tree'[x] # tree[x]
  PROVE  AskedFor(x)
<1>0. tree \in [Path -> Kind]
  BY DEF IInv, Typed
<1>1. CASE Make(p)
  <2>1. Making(p) \in Named(p) /\ Mkdir(p) /\ Working(p)
    BY <1>1, MakingOnTheWay DEF Make
  <2>2. x = Making(p) /\ tree'[x] = "dir"
    BY <1>0, <1>1 DEF Make, Set
  <2> QED BY <2>1, <2>2 DEF AskedFor, Mkdir, Working
<1>2. CASE Remove(p)
  <2>1. Removing(p) \in Named(p) /\ Rmdir(p) /\ Working(p)
    BY <1>2, RemovingOnTheWay DEF Remove
  <2>2. x = Removing(p) /\ tree'[x] = "none" /\ tree[x] = "dir"
    BY <1>0, <1>2 DEF Remove, Set, CanRemove
  <2> QED BY <2>1, <2>2 DEF AskedFor, Rmdir, Working
<1>3. CASE Link(p)
  <2>1. x = job[p].args[2] /\ tree'[x] \in {"file", "link"}
    BY <1>0, <1>3 DEF Link, CanLink, Set
  <2> QED BY <1>3, <2>1 DEF AskedFor, Link, Named
<1>4. CASE Unlink(p)
  <2>1. x = job[p].args[1] /\ tree'[x] = "none" /\ tree[x] \in {"file", "link"}
    BY <1>0, <1>4 DEF Unlink, CanUnlink, Set
  <2>2. x \in Named(p)
    <3>1. job[p] \in Job /\ job[p].prog = "unlink"
      BY <1>4, JobTyped DEF IInv, Unlink
    <3>2. job[p].args \in Seq(Path) /\ Len(job[p].args) = 1
      BY <3>1, TreeAssumption
    <3>3. x \in Args(p)
      BY <2>1, <3>2 DEF Args
    <3>4. x \in Way[x]
      BY TreeAssumption
    <3> QED BY <3>1, <3>3, <3>4 DEF Named
  <2> QED BY <1>4, <2>1, <2>2 DEF AskedFor, Unlink
<1> QED
  BY <1>1, <1>2, <1>3, <1>4 DEF Step, Options, BadOptions, MkdirStep, RmdirStep, LinksStep,
    Finish, WayExists, Exists, MakeFails, StatDir, StatRejects, RemoveFails, LinkFails,
    UnlinkFails

\* Any number of processes of these programs change only what one of them is at
\* work on and names (mkdir.c:45-46, rmdir.c:37-46).
THEOREM OnlyNamedChange == Spec => OnlyNamed
<1>1. DirsInit => IInv
  BY InvInit
<1>2. IInv /\ [Next]_dirsVars => IInv'
  BY InvNext
<1>3. IInv /\ [Next]_dirsVars =>
        [\A x \in Path : tree'[x] # tree[x] =>
           \E p \in Proc :
             /\ pc[p] = "work" /\ x \in Named(p)
             /\ job[p].prog = (IF tree'[x] = "dir" THEN "mkdir"
                               ELSE IF tree'[x] # "none" THEN "link"
                               ELSE IF tree[x] = "dir" THEN "rmdir"
                               ELSE "unlink")]_dirsVars
  BY StepAsked DEF Next, AskedFor
<1> QED BY <1>1, <1>2, <1>3, PTL DEF Spec, OnlyNamed
-----------------------------------------------------------------------------
(***************************************************************************)
(* Processes that are all mkdir -p, where there are only directories.      *)
(***************************************************************************)
AllMkdirs == \A p \in Proc : job[p].prog = "mkdir" /\ job[p].p
OnlyDirs == \A x \in Path : tree[x] \in {"none", "dir"}

\* What p has come by and has found to exist stays a directory, so that a call
\* which fails is one the tree allowed.
Undisturbed(p) ==
  /\ ret[p] = 1 \/ status[p] = "one" => p \in fault
  /\ pc[p] = "stat" => tree[Operand(p)] = "dir"
  /\ at[p] # Top => tree[at[p]] = "dir"

Tolerance == AllMkdirs /\ OnlyDirs => \A p \in Proc : Undisturbed(p)

\* The directories that are there stay while only mkdir -p runs.
LEMMA MkdirsOnlyMake ==
  ASSUME IInv, AllMkdirs, NEW p \in Proc, Step(p)
  PROVE  /\ job' = job /\ fault \subseteq fault'
         /\ \A x \in Path : tree'[x] = tree[x] \/ (tree[x] = "none" /\ tree'[x] = "dir")
<1>0. tree \in [Path -> Kind] /\ job[p].prog = "mkdir"
  BY DEF IInv, Typed, AllMkdirs
<1>1. MkdirStep(p) \/ Options(p) \/ BadOptions(p) \/ Finish(p)
  BY <1>0 DEF Step, RmdirStep, Remove, RemoveFails, Rmdir, LinksStep, Link, LinkFails, Unlink,
    UnlinkFails
<1>2. CASE Make(p)
  <2>1. Making(p) \in Path
    BY <1>2, MakingOnTheWay DEF Make
  <2> QED BY <1>0, <1>2, <2>1 DEF Make, CanMake, Set
<1>3. CASE ~Make(p)
  BY <1>1, <1>3 DEF MkdirStep, Options, BadOptions, Finish, WayExists, Exists, MakeFails,
    StatDir, StatRejects, Blame
<1> QED BY <1>2, <1>3

\* A process that does not move is not disturbed by one that does.
LEMMA OthersUndisturbed ==
  ASSUME IInv, AllMkdirs, NEW p \in Proc, Step(p), NEW q \in Proc, q # p, Undisturbed(q)
  PROVE  Undisturbed(q)'
<1>1. ret'[q] = ret[q] /\ status'[q] = status[q] /\ pc'[q] = pc[q] /\ a'[q] = a[q] /\ at'[q] = at[q]
  <2>1. MkdirStep(p) \/ Options(p) \/ BadOptions(p) \/ Finish(p)
    BY DEF AllMkdirs, Step, RmdirStep, Remove, RemoveFails, Rmdir, LinksStep, Link, LinkFails,
      Unlink, UnlinkFails
  <2> QED
    BY <2>1 DEF IInv, Typed, MkdirStep, Options, BadOptions, Finish, Make, WayExists, Exists,
      MakeFails, StatDir, StatRejects, Rejected, NextOperand, Exit, Set
<1>2. job' = job /\ fault \subseteq fault'
  BY MkdirsOnlyMake
<1>3. \A x \in Path : tree[x] = "dir" => tree'[x] = "dir"
  BY MkdirsOnlyMake
<1>4. pc[q] = "stat" => Operand(q) \in Path
  BY JobTyped DEF IInv, OnTheWay
<1>5. at[q] \in Path \union {Top}
  BY DEF IInv, Typed
<1> QED BY <1>1, <1>2, <1>3, <1>4, <1>5 DEF Undisturbed, Operand

\* mkdir -p at work makes its next path in a directory.
LEMMA WayIsDirs ==
  ASSUME IInv, AllMkdirs, OnlyDirs, NEW p \in Proc, Working(p), Undisturbed(p)
  PROVE  /\ Making(p) \in Path
         /\ CanMake(Making(p)) \/ (EEXIST(Making(p)) /\ tree[Making(p)] = "dir")
<1>1. Mkdir(p) /\ job[p].p
  BY DEF AllMkdirs, Mkdir
<1>2. Making(p) \in Path /\ Dirname[Making(p)] = at[p]
  BY <1>1, MakingOnTheWay
<1>3. at[p] \in Path \union {Top}
  BY DEF IInv, Typed
<1>4. IsDir(Dirname[Making(p)])
  BY <1>2, <1>3 DEF IsDir, Undisturbed
<1> QED BY <1>2, <1>4 DEF OnlyDirs, CanMake, EEXIST

LEMMA SelfUndisturbed ==
  ASSUME IInv, AllMkdirs, OnlyDirs, NEW p \in Proc, Step(p), Undisturbed(p)
  PROVE  Undisturbed(p)'
<1>0. /\ p \in DOMAIN ret /\ p \in DOMAIN status /\ p \in DOMAIN pc /\ p \in DOMAIN at
      /\ tree \in [Path -> Kind] /\ ret[p] \in {0, 1}
  BY DEF IInv, Typed
<1>1. MkdirStep(p) \/ Options(p) \/ BadOptions(p) \/ Finish(p)
  BY DEF AllMkdirs, Step, RmdirStep, Remove, RemoveFails, Rmdir, LinksStep, Link, LinkFails,
    Unlink, UnlinkFails
<1>2. CASE Make(p)
  <2>1. Making(p) \in Path
    BY <1>2, WayIsDirs DEF Make
  <2>2. tree'[Making(p)] = "dir"
    BY <1>0, <1>2, <2>1 DEF Make, Set
  <2>3. CASE Making(p) = Operand(p)
    BY <1>0, <1>2, <2>3 DEF Make, Undisturbed, NextOperand, Set
  <2>4. CASE Making(p) # Operand(p)
    <3>1. at'[p] = Making(p) /\ pc'[p] = "work"
      BY <1>0, <1>2, <2>4 DEF Make, Set, Working
    <3> QED BY <1>2, <2>2, <3>1 DEF Make, Undisturbed
  <2> QED BY <2>3, <2>4
<1>3. CASE WayExists(p) \/ Exists(p)
  <2>1. Working(p) /\ UNCHANGED <<tree, job, fault, a, ret, status>>
    BY <1>3 DEF WayExists, Exists
  <2>2. tree[Making(p)] = "dir"
    BY <1>3, <2>1, WayIsDirs DEF WayExists, Exists, CanMake, EEXIST
  <2> QED BY <1>0, <1>3, <2>1, <2>2 DEF WayExists, Exists, Undisturbed, Set, Operand, Working
<1>4. CASE MakeFails(p)
  <2>1. p \in fault'
    BY <1>4, WayIsDirs DEF MakeFails, Blame
  <2> QED BY <1>0, <1>4, <2>1 DEF MakeFails, Undisturbed, NextOperand, Set
<1>5. CASE StatDir(p)
  BY <1>0, <1>5 DEF StatDir, Undisturbed, NextOperand, Set
<1>6. CASE StatRejects(p)
  <2>1. stat(tree, Operand(p)) = "dir"
    BY <1>6 DEF StatRejects, Undisturbed, stat
  <2>2. p \in fault'
    BY <1>6, <2>1 DEF StatRejects, Blame
  <2> QED BY <1>0, <1>6, <2>2 DEF StatRejects, Undisturbed, NextOperand, Set
<1>7. CASE Options(p) \/ BadOptions(p) \/ Finish(p)
  BY <1>0, <1>7 DEF Options, BadOptions, Finish, Exit, Set, Undisturbed, Operand
<1> QED BY <1>1, <1>2, <1>3, <1>4, <1>5, <1>6, <1>7 DEF MkdirStep

LEMMA ToleranceNext == IInv /\ Tolerance /\ [Next]_dirsVars => Tolerance'
<1> SUFFICES ASSUME IInv, Tolerance, [Next]_dirsVars, AllMkdirs', OnlyDirs'
             PROVE  \A q \in Proc : Undisturbed(q)'
  BY DEF Tolerance
<1>1. ASSUME NEW p \in Proc, Step(p), NEW q \in Proc PROVE Undisturbed(q)'
  <2>0. job' = job
    BY <1>1 DEF Step, MkdirStep, RmdirStep, LinksStep, Options, BadOptions, Finish, Make,
      WayExists, Exists, MakeFails, StatDir, StatRejects, Remove, RemoveFails, Link, LinkFails,
      Unlink, UnlinkFails
  <2>1. AllMkdirs
    BY <2>0 DEF AllMkdirs
  <2>2. OnlyDirs
    BY <1>1, <2>1, MkdirsOnlyMake DEF OnlyDirs
  <2>3. \A r \in Proc : Undisturbed(r)
    BY <2>1, <2>2 DEF Tolerance
  <2> QED BY <1>1, <2>1, <2>2, <2>3, OthersUndisturbed, SelfUndisturbed
<1>2. CASE UNCHANGED dirsVars
  BY <1>2 DEF dirsVars, vars, proc, Tolerance, AllMkdirs, OnlyDirs, Undisturbed, Operand
<1> QED BY <1>1, <1>2 DEF Next

\* However many mkdir -p make the same paths at a time, on any tree of
\* directories, none takes another's directory for a failure (mkdir.c:45-57).
THEOREM MkdirsTolerate == Spec => []MkdirsTolerateMkdirs
<1>1. DirsInit => IInv /\ Tolerance
  BY InvInit DEF DirsInit, Init, Tolerance, Undisturbed
<1>2. IInv /\ Tolerance /\ [Next]_dirsVars => (IInv /\ Tolerance)'
  BY InvNext, ToleranceNext
<1>3. Tolerance => MkdirsTolerateMkdirs
  BY DEF Tolerance, MkdirsTolerateMkdirs, AllMkdirs, OnlyDirs, Undisturbed
<1> QED BY <1>1, <1>2, <1>3, PTL DEF Spec
-----------------------------------------------------------------------------
(***************************************************************************)
(* What a process has come by when it exits with zero.                     *)
(***************************************************************************)
\* Seen of an operand as it is asked for.
Aim(p, x) ==
  IF job[p].prog = "mkdir" THEN <<x, "dir">> \in seen[p]
  ELSE \A y \in (IF job[p].p THEN Way[x] ELSE {x}) : <<y, "none">> \in seen[p]

\* The operands dealt with, as long as nothing has failed.
Reached(p) ==
  pc[p] # "exited" /\ ret[p] = 0 /\ job[p].prog \in {"mkdir", "rmdir"} =>
    \A k \in 1..Len(job[p].args) : k < a[p] => Aim(p, job[p].args[k])

\* The directories rmdir -p has removed: from the operand up to at[p].
Climbed(p) ==
  Rmdir(p) /\ at[p] # Top =>
    \E V \in SUBSET Way[Operand(p)] :
      /\ Operand(p) \in V /\ at[p] \in V
      /\ \A y \in V \ {at[p]} : Dirname[y] \in V
      /\ \A y \in V : <<y, "none">> \in seen[p]

Accomplished(p) ==
  CASE job[p].prog = "mkdir" -> \A x \in Args(p) : <<x, "dir">> \in seen[p]
    [] job[p].prog = "link" ->
         \A x \in Named(p) : \E k \in Kind \ {"none"} : <<x, k>> \in seen[p]
    [] OTHER -> \A x \in Named(p) : <<x, "none">> \in seen[p]

Ended(p) ==
  /\ status[p] = "zero" => Accomplished(p)
  /\ pc[p] # "exited" => status[p] = "running"

Told(p) == Reached(p) /\ Climbed(p) /\ Ended(p)

\* What has been seen stays seen, whoever moves.
LEMMA SeenStays ==
  ASSUME NEW p \in Proc, Told(p), seen[p] \subseteq seen'[p], job' = job,
         UNCHANGED <<a[p], at[p], ret[p], pc[p], status[p]>>
  PROVE  Told(p)'
<1>1. \A x : Aim(p, x) => Aim(p, x)'
  BY DEF Aim
<1>2. Reached(p)'
  BY <1>1 DEF Told, Reached
<1>3. Climbed(p)'
  BY DEF Told, Climbed, Rmdir, Operand
<1>4. Accomplished(p) => Accomplished(p)'
  <2>1. Args(p)' = Args(p) /\ Named(p)' = Named(p)
    BY DEF Args, Named
  <2> QED BY <2>1 DEF Accomplished
<1>5. Ended(p)'
  BY <1>4 DEF Told, Ended
<1> QED BY <1>2, <1>3, <1>5 DEF Told

LEMMA NextOperandTold ==
  ASSUME IInv, NEW p \in Proc, Told(p), pc[p] # "exited", seen[p] \subseteq seen'[p],
         job' = job, NextOperand(p), status' = status,
         ret'[p] = 0 => ret[p] = 0,
         NEW x, x = Operand(p),
         ret'[p] = 0 /\ job[p].prog \in {"mkdir", "rmdir"} => Aim(p, x)'
  PROVE  Told(p)'
<1>1. a'[p] = a[p] + 1 /\ at'[p] = Top /\ pc'[p] = "work" /\ a[p] \in Nat
  BY DEF NextOperand, Set, IInv, Typed
<1>2. \A y : Aim(p, y) => Aim(p, y)'
  BY DEF Aim
<1>3. Reached(p)'
  <2> SUFFICES ASSUME ret'[p] = 0, job[p].prog \in {"mkdir", "rmdir"},
                      NEW k \in 1..Len(job[p].args), k < a'[p]
               PROVE  Aim(p, job[p].args[k])'
    BY DEF Reached
  <2>1. CASE k < a[p]
    BY <1>2, <2>1 DEF Told, Reached
  <2>2. CASE ~(k < a[p])
    <3>1. k = a[p]
      BY <1>1, <2>2
    <3>2. x = job[p].args[k]
      BY <3>1 DEF Operand
    <3> QED BY <3>2
  <2> QED BY <2>1, <2>2
<1>4. Climbed(p)' /\ Ended(p)'
  BY <1>1 DEF Climbed, Ended, Told
<1> QED BY <1>3, <1>4 DEF Told

LEMMA ExitTold ==
  ASSUME IInv, NEW p \in Proc, Told(p), pc[p] # "exited", seen[p] \subseteq seen'[p],
         NEW s, Exit(p, s), UNCHANGED <<job, a, at, ret>>, s = "zero" => Accomplished(p)'
  PROVE  Told(p)'
<1>1. pc'[p] = "exited" /\ status'[p] = s
  BY DEF Exit, Set, IInv, Typed
<1>2. Reached(p)' /\ Ended(p)'
  BY <1>1 DEF Reached, Ended
<1>3. Climbed(p)'
  BY DEF Told, Climbed, Rmdir, Operand
<1> QED BY <1>2, <1>3 DEF Told

\* What a step at work looks at and makes is seen.
LEMMA LookSeen ==
  ASSUME Next, NEW p \in Proc, pc[p] \in {"work", "stat"}, NEW x \in Named(p)
  PROVE  /\ <<x, stat(tree, x)>> \in seen'[p] /\ <<x, tree'[x]>> \in seen'[p]
BY DEF Next, Look

LEMMA SeenGrows ==
  ASSUME [Next]_dirsVars, NEW p \in Proc
  PROVE  seen[p] \subseteq seen'[p]
BY DEF Next, dirsVars

LEMMA OperandNamed ==
  ASSUME IInv, NEW p \in Proc, a[p] <= Len(job[p].args), job[p].prog # "link"
  PROVE  Operand(p) \in Path /\ Operand(p) \in Args(p) /\ Operand(p) \in Named(p)
<1>1. job[p].args \in Seq(Path) /\ a[p] \in Nat \ {0} /\ Operand(p) \in Path
  BY JobTyped DEF IInv
<1>2. Operand(p) \in Args(p)
  BY <1>1 DEF Args, Operand
<1> QED BY <1>1, <1>2, TreeAssumption DEF Named

LEMMA MkdirTold ==
  ASSUME IInv, Next, NEW p \in Proc, MkdirStep(p), Told(p)
  PROVE  Told(p)'
<1>0. /\ seen[p] \subseteq seen'[p] /\ tree \in [Path -> Kind]
      /\ p \in DOMAIN ret /\ p \in DOMAIN pc /\ p \in DOMAIN at
  BY SeenGrows DEF IInv, Typed
<1>1. Mkdir(p) /\ pc[p] \in {"work", "stat"} /\ a[p] <= Len(job[p].args)
  BY DEF MkdirStep, Make, WayExists, Exists, MakeFails, StatDir, StatRejects, Working, IInv, OnTheWay
<1>2. Operand(p) \in Path /\ Operand(p) \in Named(p)
  BY <1>1, OperandNamed DEF Mkdir
<1>3. CASE Make(p) /\ Making(p) = Operand(p)
  <2>0. PICK x : x = Operand(p)
    OBVIOUS
  <2>1. tree'[Making(p)] = "dir" /\ Making(p) = x /\ job' = job
    BY <1>0, <1>2, <1>3, <2>0 DEF Make, Set
  <2>2. <<x, "dir">> \in seen'[p]
    BY <1>1, <1>2, <2>0, <2>1, LookSeen
  <2>3. Aim(p, x)'
    BY <1>1, <2>1, <2>2 DEF Aim, Mkdir
  <2> QED BY <1>0, <1>1, <1>3, <2>0, <2>3, NextOperandTold DEF Make
<1>4. CASE (Make(p) /\ Making(p) # Operand(p)) \/ WayExists(p)
  <2>1. UNCHANGED <<job, a, pc, ret, status>> /\ at' = Set(at, p, Making(p))
    BY <1>4 DEF Make, WayExists
  <2>2. \A x : Aim(p, x) => Aim(p, x)'
    BY <1>0, <2>1 DEF Aim
  <2> QED BY <1>1, <2>1, <2>2 DEF Told, Reached, Climbed, Ended, Mkdir, Rmdir, Accomplished
<1>5. CASE Exists(p)
  <2>1. UNCHANGED <<job, a, at, ret, status>> /\ pc[p] = "work" /\ pc'[p] = "stat"
    BY <1>0, <1>5 DEF Exists, Set, Working
  <2>2. \A x : Aim(p, x) => Aim(p, x)'
    BY <1>0, <2>1 DEF Aim
  <2> QED BY <1>1, <2>1, <2>2 DEF Told, Reached, Climbed, Ended, Mkdir, Rmdir
<1>6. CASE MakeFails(p) \/ StatRejects(p)
  <2>1. ret'[p] = 1 /\ NextOperand(p) /\ UNCHANGED <<job, status>>
    BY <1>0, <1>6 DEF MakeFails, StatRejects, Rejected, Set
  <2> QED BY <1>0, <1>1, <2>1, NextOperandTold
<1>7. CASE StatDir(p)
  <2>0. PICK x : x = Operand(p)
    OBVIOUS
  <2>1. <<x, "dir">> \in seen'[p] /\ job' = job
    BY <1>1, <1>2, <1>7, <2>0, LookSeen DEF StatDir
  <2>2. Aim(p, x)'
    BY <1>1, <2>1 DEF Aim, Mkdir
  <2> QED BY <1>0, <1>1, <1>7, <2>0, <2>2, NextOperandTold DEF StatDir
<1> QED BY <1>3, <1>4, <1>5, <1>6, <1>7 DEF MkdirStep

\* The directories rmdir has removed for its operand, the present one with them.
LEMMA ClimbOn ==
  ASSUME IInv, Next, NEW p \in Proc, Remove(p), Told(p)
  PROVE  \E V \in SUBSET Way[Operand(p)] :
           /\ Operand(p) \in V /\ Removing(p) \in V
           /\ \A y \in V \ {Removing(p)} : Dirname[y] \in V
           /\ \A y \in V : <<y, "none">> \in seen'[p]
<1>1. /\ Rmdir(p) /\ Working(p) /\ seen[p] \subseteq seen'[p] /\ tree \in [Path -> Kind]
      /\ Removing(p) \in Path /\ Removing(p) \in Named(p)
  BY RemovingOnTheWay, SeenGrows DEF Remove, IInv, Typed
<1>2. tree'[Removing(p)] = "none"
  BY <1>1 DEF Remove, Set
<1>3. <<Removing(p), "none">> \in seen'[p]
  BY <1>1, <1>2, LookSeen DEF Working
<1>4. Operand(p) \in Way[Operand(p)]
  BY <1>1, OperandNamed, TreeAssumption DEF Rmdir, Working
<1>5. CASE at[p] = Top
  <2>1. Removing(p) = Operand(p)
    BY <1>5 DEF Removing
  <2>2. {Operand(p)} \in SUBSET Way[Operand(p)]
    BY <1>4
  <2> QED BY <1>3, <2>1, <2>2
<1>6. CASE at[p] # Top
  <2>1. PICK V \in SUBSET Way[Operand(p)] :
          /\ Operand(p) \in V /\ at[p] \in V
          /\ \A y \in V \ {at[p]} : Dirname[y] \in V
          /\ \A y \in V : <<y, "none">> \in seen[p]
    BY <1>1, <1>6 DEF Told, Climbed
  <2>2. Removing(p) = Dirname[at[p]] /\ job[p].p
    BY <1>1, <1>6 DEF Removing, IInv, OnTheWay
  <2>3. Removing(p) \in Way[Operand(p)]
    BY <1>1, <2>2, RemovingOnTheWay
  <2> DEFINE W == V \union {Removing(p)}
  <2>4. W \in SUBSET Way[Operand(p)] /\ Operand(p) \in W /\ Removing(p) \in W
    BY <2>1, <2>3
  <2>5. \A y \in W \ {Removing(p)} : Dirname[y] \in W
    BY <2>1, <2>2
  <2>6. \A y \in W : <<y, "none">> \in seen'[p]
    BY <1>1, <1>3, <2>1
  <2> HIDE DEF W
  <2> QED BY <2>4, <2>5, <2>6
<1> QED BY <1>5, <1>6

LEMMA RmdirTold ==
  ASSUME IInv, Next, NEW p \in Proc, RmdirStep(p), Told(p)
  PROVE  Told(p)'
<1>1. seen[p] \subseteq seen'[p] /\ p \in DOMAIN at
  BY SeenGrows DEF IInv, Typed
<1>2. CASE Remove(p)
  <2>1. Rmdir(p) /\ pc[p] = "work" /\ a[p] <= Len(job[p].args) /\ UNCHANGED <<job, ret, status>>
    BY <1>2 DEF Remove, Working
  <2>2. PICK V \in SUBSET Way[Operand(p)] :
          /\ Operand(p) \in V /\ Removing(p) \in V
          /\ \A y \in V \ {Removing(p)} : Dirname[y] \in V
          /\ \A y \in V : <<y, "none">> \in seen'[p]
    BY <1>2, ClimbOn
  <2>3. CASE job[p].p /\ Dirname[Removing(p)] # Top
    <3>1. at'[p] = Removing(p) /\ a' = a /\ pc' = pc
      BY <1>1, <1>2, <2>3 DEF Remove, Upward, Set
    <3>2. Operand(p)' = Operand(p)
      BY <2>1, <3>1 DEF Operand
    <3>3. Climbed(p)'
      BY <2>2, <3>1, <3>2 DEF Climbed
    <3>4. \A x : Aim(p, x) => Aim(p, x)'
      BY <1>1, <2>1 DEF Aim
    <3>5. Reached(p)' /\ Ended(p)'
      BY <2>1, <3>1, <3>4 DEF Told, Reached, Ended, Accomplished
    <3> QED BY <3>3, <3>5 DEF Told
  <2>4. CASE ~(job[p].p /\ Dirname[Removing(p)] # Top)
    <3>0. PICK x : x = Operand(p)
      OBVIOUS
    <3>1. x \in Path
      BY <2>1, <3>0, OperandNamed DEF Rmdir
    <3>2. ASSUME job[p].p PROVE Aim(p, x)'
      <4>1. \A y \in V : Dirname[y] \in V \union {Top}
        BY <2>2, <2>4, <3>2
      <4>2. V = Way[x]
        BY <2>2, <3>0, <3>1, <4>1, TreeAssumption
      <4> QED BY <2>1, <2>2, <3>2, <4>2 DEF Aim, Rmdir
    <3>3. ASSUME ~job[p].p PROVE Aim(p, x)'
      BY <2>1, <2>2, <3>0, <3>3 DEF Aim, Rmdir
    <3> QED BY <1>1, <1>2, <2>1, <2>4, <3>0, <3>2, <3>3, NextOperandTold DEF Remove, Upward
  <2> QED BY <2>3, <2>4
<1>3. CASE RemoveFails(p)
  BY <1>1, <1>3, ExitTold DEF RemoveFails, Working
<1> QED BY <1>2, <1>3 DEF RmdirStep

LEMMA LinksTold ==
  ASSUME IInv, Next, NEW p \in Proc, LinksStep(p), Told(p)
  PROVE  Told(p)'
<1>1. seen[p] \subseteq seen'[p] /\ tree \in [Path -> Kind] /\ job[p] \in Job
  BY SeenGrows DEF IInv, Typed
<1>2. CASE Link(p)
  <2>0. PICK y : y = job[p].args[2]
    OBVIOUS
  <2>1. /\ y \in Path /\ Named(p) = {y} /\ pc[p] = "work" /\ job' = job
        /\ job[p].prog = "link"
    BY <1>2, <2>0, LinksTyped DEF Link, Named
  <2>2. tree'[y] \in Kind \ {"none"}
    BY <1>1, <1>2, <2>0, <2>1 DEF Link, CanLink, Set, Kind
  <2>3. <<y, tree'[y]>> \in seen'[p]
    BY <2>1, LookSeen
  <2>4. Named(p)' = {y}
    BY <2>1 DEF Named, Args
  <2>5. Accomplished(p)'
    BY <2>1, <2>2, <2>3, <2>4 DEF Accomplished, Kind
  <2> QED BY <1>1, <1>2, <2>1, <2>5, ExitTold DEF Link
<1>3. CASE Unlink(p)
  <2>0. PICK y : y = job[p].args[1]
    OBVIOUS
  <2>1. /\ job[p].prog = "unlink" /\ ~job[p].p /\ job[p].args \in Seq(Path)
        /\ Len(job[p].args) = 1 /\ pc[p] = "work" /\ job' = job
    BY <1>1, <1>3, TreeAssumption DEF Unlink
  <2>2. Named(p) = {y} /\ y \in Path
    BY <2>0, <2>1 DEF Named, Args
  <2>3. tree'[y] = "none"
    BY <1>1, <1>3, <2>0, <2>2 DEF Unlink, Set
  <2>4. <<y, "none">> \in seen'[p]
    BY <2>1, <2>2, <2>3, LookSeen
  <2>5. Named(p)' = {y}
    BY <2>1, <2>2 DEF Named, Args
  <2>6. Accomplished(p)'
    BY <2>1, <2>4, <2>5 DEF Accomplished
  <2> QED BY <1>1, <1>3, <2>1, <2>6, ExitTold DEF Unlink
<1>4. CASE LinkFails(p) \/ UnlinkFails(p)
  BY <1>1, <1>4, ExitTold DEF LinkFails, UnlinkFails
<1> QED BY <1>2, <1>3, <1>4 DEF LinksStep

\* The end of main() with no failure: every operand has been dealt with.
LEMMA FinishTold ==
  ASSUME IInv, Next, NEW p \in Proc, job[p].prog \in {"mkdir", "rmdir"}, Finish(p), Told(p)
  PROVE  Told(p)'
<1>1. /\ seen[p] \subseteq seen'[p] /\ pc[p] = "work" /\ a[p] > Len(job[p].args)
      /\ UNCHANGED <<job, a, at, ret>> /\ a[p] \in Nat
      /\ job[p].args \in Seq(Path)
  BY SeenGrows, JobTyped DEF Finish, IInv, Typed
<1>2. ASSUME ret[p] = 0 PROVE Accomplished(p)'
  <2>1. \A k \in 1..Len(job[p].args) : Aim(p, job[p].args[k])
    BY <1>1, <1>2 DEF Told, Reached
  <2>2. \A x \in Args(p) : Aim(p, x)
    BY <2>1 DEF Args
  <2>3. Args(p)' = Args(p) /\ Named(p)' = Named(p)
    BY <1>1 DEF Args, Named
  <2>4. CASE job[p].prog = "mkdir"
    BY <1>1, <2>2, <2>3, <2>4 DEF Accomplished, Aim
  <2>5. CASE job[p].prog = "rmdir"
    <3>1. \A x \in Named(p) : <<x, "none">> \in seen[p]
      BY <2>2, <2>5 DEF Named, Aim
    <3> QED BY <1>1, <2>3, <2>5, <3>1 DEF Accomplished
  <2> QED BY <2>4, <2>5
<1> QED BY <1>1, <1>2, ExitTold DEF Finish

\* No step of p moves another process.
LEMMA OthersUnmoved ==
  ASSUME IInv, NEW p \in Proc, Step(p), NEW q \in Proc, q # p
  PROVE  job' = job /\ UNCHANGED <<a[q], at[q], ret[q], pc[q], status[q]>>
<1>0. /\ a \in [Proc -> Nat \ {0}] /\ at \in [Proc -> Path \union {Top}]
      /\ ret \in [Proc -> {0, 1}]
      /\ pc \in [Proc -> {"options", "work", "stat", "exited"}] /\ status \in [Proc -> Status]
  BY DEF IInv, Typed
<1>1. CASE MkdirStep(p)
  BY <1>0, <1>1 DEF MkdirStep, Make, WayExists, Exists, MakeFails, StatDir, StatRejects,
    Rejected, NextOperand, Set
<1>2. CASE RmdirStep(p)
  BY <1>0, <1>2 DEF RmdirStep, Remove, RemoveFails, NextOperand, Exit, Set
<1>3. CASE LinksStep(p)
  BY <1>0, <1>3 DEF LinksStep, Link, LinkFails, Unlink, UnlinkFails, Exit, Set
<1>4. CASE Options(p) \/ BadOptions(p) \/ Finish(p)
  BY <1>0, <1>4 DEF Options, BadOptions, Finish, Exit, Set
<1> QED BY <1>1, <1>2, <1>3, <1>4 DEF Step

LEMMA ToldNext ==
  IInv /\ (\A q \in Proc : Told(q)) /\ [Next]_dirsVars => (\A q \in Proc : Told(q))'
<1> SUFFICES ASSUME IInv, \A q \in Proc : Told(q), [Next]_dirsVars, NEW q \in Proc
             PROVE  Told(q)'
  OBVIOUS
<1>1. CASE Next
  <2>1. PICK p \in Proc : Step(p)
    BY <1>1 DEF Next
  <2>2. CASE q # p
    BY <2>1, <2>2, OthersUnmoved, SeenGrows, SeenStays
  <2>3. CASE q = p
    <3>1. CASE Options(q)
      <4>1. UNCHANGED <<job, a, at, ret, status>> /\ pc[q] = "options" /\ pc'[q] = "work"
        BY <3>1 DEF Options, Set, IInv, Typed
      <4>2. \A x : Aim(q, x) => Aim(q, x)'
        BY <4>1, SeenGrows DEF Aim
      <4>3. Reached(q)' /\ Ended(q)'
        BY <4>1, <4>2 DEF Told, Reached, Ended, Accomplished
      <4>4. Climbed(q)'
        BY <4>1, SeenGrows DEF Told, Climbed, Rmdir, Operand
      <4> QED BY <4>3, <4>4 DEF Told
    <3>2. CASE BadOptions(q)
      BY <3>2, SeenGrows, ExitTold DEF BadOptions
    <3> QED BY <1>1, <2>1, <2>3, <3>1, <3>2, MkdirTold, RmdirTold, LinksTold, FinishTold DEF Step
  <2> QED BY <2>2, <2>3
<1>2. CASE UNCHANGED dirsVars
  <2>1. UNCHANGED <<job, a, at, ret, pc, status, seen>>
    BY <1>2 DEF dirsVars, vars, proc
  <2> QED BY <2>1, SeenStays
<1> QED BY <1>1, <1>2

\* mkdir, rmdir, link and unlink exit with 0 only if, at some time of their run,
\* what they were asked for was so: -p and all the directories on the way
\* included, whatever others make and remove in between (mkdir.c:45-57,
\* rmdir.c:37-46, link.c:29, unlink.c:29).
THEOREM DoneWhenZero == Spec => []ZeroMeansDone
<1>1. DirsInit => IInv /\ \A p \in Proc : Told(p)
  BY InvInit DEF DirsInit, Init, Told, Reached, Climbed, Ended, Typed, IInv
<1>2. IInv /\ (\A p \in Proc : Told(p)) /\ [Next]_dirsVars
        => (IInv /\ \A p \in Proc : Told(p))'
  BY InvNext, ToldNext
<1>3. (\A p \in Proc : Told(p)) => ZeroMeansDone
  BY DEF Told, Ended, Accomplished, ZeroMeansDone
<1> QED BY <1>1, <1>2, <1>3, PTL DEF Spec
=============================================================================
