-------------------------------- MODULE Dirs --------------------------------
(***************************************************************************)
(* mkdir, rmdir, link and unlink run concurrently on one directory tree.   *)
(***************************************************************************)
EXTENDS Mkdir, Rmdir, Links

VARIABLE
  seen       \* per process, what each path it is to make or remove has been,
             \* and what stat() would find of it, at any time of its run

dirsVars == <<vars, seen>>

Args(p) == {job[p].args[k] : k \in 1..Len(job[p].args)}

\* The paths p is to make or remove.
Named(p) ==
  IF job[p].prog = "link" THEN {job[p].args[2]}
  ELSE IF job[p].p THEN UNION {Way[x] : x \in Args(p)} ELSE Args(p)

Look(p, t) == UNION {{<<x, t[x]>>, <<x, stat(t, x)>>} : x \in Named(p)}

DirsInit == Init /\ seen = [p \in Proc |-> {}]

Step(p) ==
  \/ Options(p) \/ BadOptions(p) \/ MkdirStep(p) \/ RmdirStep(p)
  \/ LinksStep(p) \/ (job[p].prog \in {"mkdir", "rmdir"} /\ Finish(p))

Next ==
  /\ \E p \in Proc : Step(p)
  /\ seen' = [p \in Proc |-> IF pc[p] \in {"work", "stat"}
                             THEN seen[p] \union Look(p, tree) \union Look(p, tree')
                             ELSE seen[p]]

Spec == DirsInit /\ [][Next]_dirsVars
-----------------------------------------------------------------------------
(***************************************************************************)
(* What is true of them together.                                          *)
(***************************************************************************)
\* A program that exits with 0 has found or made so, at some time of its run,
\* what it was asked for, whatever the others did in between: mkdir that each
\* operand is a directory (mkdir.c:46-56, where the path may have become
\* something else between mkdir() and stat()), rmdir and unlink that the path
\* is not there (rmdir.c:39-45, unlink.c:29), link that it is (link.c:29).
ZeroMeansDone ==
  \A p \in Proc : status[p] = "zero" =>
    CASE job[p].prog = "mkdir" -> \A x \in Args(p) : <<x, "dir">> \in seen[p]
      [] job[p].prog = "link" ->
           \A x \in Named(p) : \E k \in Kind \ {"none"} : <<x, k>> \in seen[p]
      [] OTHER -> \A x \in Named(p) : <<x, "none">> \in seen[p]

\* Each change of the tree is asked for by a process that is at work: a
\* directory appears for a mkdir and goes for an rmdir that names it, itself
\* or, with -p only, a path below it (mkdir.c:46, rmdir.c:38-45).
OnlyNamed ==
  [][\A x \in Path : tree'[x] # tree[x] =>
       \E p \in Proc :
         /\ pc[p] = "work" /\ x \in Named(p)
         /\ job[p].prog = (IF tree'[x] = "dir" THEN "mkdir"
                           ELSE IF tree'[x] # "none" THEN "link"
                           ELSE IF tree[x] = "dir" THEN "rmdir"
                           ELSE "unlink")]_dirsVars

\* Any number of mkdir -p over the same paths leave one another in peace:
\* where nothing but directories is found and nobody removes any, mkdir -p
\* fails only by a failure of the system (mkdir.c:47: EEXIST of a path another
\* process has just made is no error).
MkdirsTolerateMkdirs ==
  (\A p \in Proc : job[p].prog = "mkdir" /\ job[p].p)
    /\ (\A x \in Path : tree[x] \in {"none", "dir"})
      => \A p \in Proc : status[p] = "one" => p \in fault
=============================================================================
