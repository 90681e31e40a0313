-------------------------------- MODULE Tree --------------------------------
(***************************************************************************)
(* What mkdir, rmdir, link and unlink share when several of them run at a  *)
(* time: the directory tree, and the state each process has.  The system   *)
(* calls are external; each is one step, and between two calls of a        *)
(* process the others run.                                                 *)
(***************************************************************************)
EXTENDS Naturals, Sequences, FiniteSets

CONSTANTS
  Proc,      \* the processes
  Job,       \* command lines: program, -p, operands
  Path, Top, \* the paths operands name, and the directory they begin in
  Dirname,   \* per path, the directory it is in
  Way,       \* per path, itself and the directories on the way to it from Top
  Target,    \* where symbolic links lead
  Start      \* the trees found at the start

Kind == {"none", "dir", "file", "link"}

\* Every path that is there is in a directory.
Rooted(t) ==
  \A x \in Path : t[x] # "none" /\ Dirname[x] # Top => t[Dirname[x]] = "dir"

ASSUME TreeAssumption ==
  /\ Top \notin Path /\ Target \in Path
  /\ Dirname \in [Path -> Path \union {Top}]
  /\ Way \in [Path -> SUBSET Path]
  /\ \A x \in Path :
       /\ x \in Way[x] /\ \A y \in Way[x] : Dirname[y] \in Way[x] \union {Top}
       /\ \A S \in SUBSET Way[x] :
            x \in S /\ (\A y \in S : Dirname[y] \in S \union {Top}) => S = Way[x]
       /\ \A y \in {Top} \union (Way[x] \ {x}) : \E z \in Way[x] : Dirname[z] = y
  /\ \A j \in Job : /\ j.prog \in {"mkdir", "rmdir", "link", "unlink"}
                    /\ j.p \in BOOLEAN /\ j.args \in Seq(Path)
                    /\ j.p => j.prog \in {"mkdir", "rmdir"}
                    /\ j.prog = "link" => Len(j.args) = 2
                    /\ j.prog = "unlink" => Len(j.args) = 1
  /\ \A t \in Start : t \in [Path -> Kind] /\ Rooted(t) /\ t[Target] # "link"

VARIABLES
  tree,     \* what each path is
  job,      \* per process, its command line
  a,        \* the operand it is at
  at,       \* the path its last call for this operand was made on, or Top
  fault,    \* the processes for which a call failed that the tree allows
  ret, pc, status

proc == <<a, at, ret, pc, status>>

vars == <<tree, job, fault, proc>>

Init ==
  /\ tree \in Start /\ job \in [Proc -> Job] /\ fault = {}
  /\ a = [p \in Proc |-> 1] /\ at = [p \in Proc |-> Top]
  /\ ret = [p \in Proc |-> 0]
  /\ pc = [p \in Proc |-> "options"] /\ status = [p \in Proc |-> "running"]

Set(f, p, v) == [f EXCEPT ![p] = v]

Exit(p, s) == pc' = Set(pc, p, "exited") /\ status' = Set(status, p, s)

Operand(p) == job[p].args[a[p]]
Working(p) == pc[p] = "work" /\ a[p] <= Len(job[p].args)

NextOperand(p) ==
  /\ a' = Set(a, p, a[p] + 1) /\ at' = Set(at, p, Top)
  /\ pc' = Set(pc, p, "work")

\* A call failed; blame tells whether the tree did not require it to.
Blame(p, unprovoked) == fault' = IF unprovoked THEN fault \union {p} ELSE fault
-----------------------------------------------------------------------------
(***************************************************************************)
(* The system calls: what they require of the tree and do to it.           *)
(***************************************************************************)
IsDir(x) == x \in {Top} \union {y \in Path : tree[y] = "dir"}

\* mkdir(2): in EEXIST, the path is there, whatever it is.
CanMake(x) == IsDir(Dirname[x]) /\ tree[x] = "none"
EEXIST(x) == IsDir(Dirname[x]) /\ tree[x] # "none"

Empty(x) == \A y \in Path : Dirname[y] = x => tree[y] = "none"
CanRemove(x) == tree[x] = "dir" /\ Empty(x)

CanUnlink(x) == tree[x] \in {"file", "link"}
CanLink(x, y) == tree[x] \in {"file", "link"} /\ CanMake(y)

\* stat(2), which follows symbolic links.
stat(t, x) == IF t[x] = "link" THEN t[Target] ELSE t[x]
-----------------------------------------------------------------------------
(***************************************************************************)
(* The options, and the end of main().                                     *)
(***************************************************************************)
Options(p) ==
  /\ pc[p] = "options"
  /\ pc' = Set(pc, p, "work")
  /\ UNCHANGED <<tree, job, fault, a, at, ret, status>>

\* usage(), and the mode parsemode() does not understand.
BadOptions(p) ==
  /\ pc[p] = "options"
  /\ Exit(p, "error")
  /\ UNCHANGED <<tree, job, fault, a, at, ret>>

Finish(p) ==
  /\ pc[p] = "work" /\ a[p] > Len(job[p].args)
  /\ Exit(p, IF ret[p] = 0 THEN "zero" ELSE "one")
  /\ UNCHANGED <<tree, job, fault, a, at, ret>>
=============================================================================
