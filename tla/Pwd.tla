-------------------------------- MODULE Pwd --------------------------------
(***************************************************************************)
(* pwd.c: write the path of the working directory, found by getcwd(), or   *)
(* what $PWD leads to when that is the same directory.  Between the calls  *)
(* another process may rename and create directories and change a link.    *)
(***************************************************************************)
EXTENDS Naturals

CONSTANTS
  Path, Dir,    \* absolute paths without links, and directories
  Here,         \* the directory pwd runs in
  Link,         \* the path of a symbolic link
  None,         \* no directory, or a PWD that is unset or relative
  MaxMoves

PwdAssumption ==
  /\ Here \in Dir /\ None \notin Dir \union Path /\ Link \notin Path \union {None}
  /\ MaxMoves \in Nat

VARIABLES
  prog,
  PWD,           \* in the environment
  where, target, \* per path, the directory there; the path Link leads to
  cwd, cst,      \* the path getcwd() returned, the directory stat() found there
  moves, raced,  \* by the other process; one fell between stat() and realpath()
  named,         \* the paths that have led to Here so far
  out, pc, status

world == <<where, target, moves, raced, named>>
vars == <<prog, PWD, world, cwd, cst, out, pc, status>>

At(w, d) == {p \in Path : w[p] = d}

Init ==
  /\ prog = "pwd"
  /\ PWD \in Path \union {Link, None} /\ target \in Path
  /\ where \in {w \in [Path -> Dir \union {None}] :
                  \A p, q \in Path : w[p] = w[q] /\ w[p] # None => p = q}
  /\ cwd = None /\ cst = None /\ moves = 0 /\ raced = FALSE
  /\ named = At(where, Here)
  /\ out = None /\ pc = "start" /\ status = "running"

Real(path) == IF path = Link THEN target ELSE path
stat(path) == where[Real(path)]

Exit(s) ==
  /\ pc' = "exited" /\ status' = s
  /\ UNCHANGED <<prog, PWD, world, cwd, cst, out>>

Usage == pc = "start" /\ Exit("usage")

\* The last of -L and -P, -L without one.
Getcwd ==
  /\ pc = "start" /\ \E p \in At(where, Here) : cwd' = p /\ out' = p
  /\ pc' \in {"write", IF PWD = None THEN "write" ELSE "stat"}
  /\ UNCHANGED <<prog, PWD, world, cst, status>>

GetcwdFails == pc = "start" /\ Exit("error")

StatCwd ==
  /\ pc = "stat"
  /\ cst' = where[cwd]
  /\ pc' = IF cst' = None THEN "write" ELSE "compare"
  /\ UNCHANGED <<prog, PWD, world, cwd, out, status>>

Same_NotCompared == stat(PWD) # None
Same == stat(PWD) = cst

StatPWD ==
  /\ pc = "compare"
  /\ pc' = IF Same THEN "realpath" ELSE "write"
  /\ UNCHANGED <<prog, PWD, world, cwd, cst, out, status>>

Realpath ==
  /\ pc = "realpath"
  /\ out' = IF stat(PWD) = None THEN out ELSE Real(PWD)
  /\ pc' = "write"
  /\ UNCHANGED <<prog, PWD, world, cwd, cst, status>>

Write == pc = "write" /\ Exit("zero")
WriteFails == pc = "write" /\ Exit("error")

\* A rename of a directory, a new one, and a new link.
Other ==
  /\ moves < MaxMoves /\ pc # "exited"
  /\ \/ /\ \E p, q \in Path :
             /\ where[p] # None /\ where[q] = None
             /\ where' = [where EXCEPT ![q] = where[p], ![p] = None]
        /\ UNCHANGED target
     \/ /\ \E p \in Path, d \in Dir :
             /\ where[p] = None /\ At(where, d) = {} /\ d # Here
             /\ where' = [where EXCEPT ![p] = d]
        /\ UNCHANGED target
     \/ target' \in Path \ {target} /\ UNCHANGED where
  /\ moves' = moves + 1
  /\ raced' = (raced \/ pc \in {"compare", "realpath"})
  /\ named' = named \union At(where', Here)
  /\ UNCHANGED <<prog, PWD, cwd, cst, out, pc, status>>

Next ==
  \/ Usage \/ Getcwd \/ GetcwdFails \/ StatCwd \/ StatPWD \/ Realpath
  \/ Write \/ WriteFails \/ Other

Spec == Init /\ [][Next]_vars
-----------------------------------------------------------------------------
\* However directories are renamed while pwd runs, what it writes has led to
\* the working directory, if only none moves between the two calls of stat()
\* and realpath(): an inode found twice is that of one path only (pwd.c:48-58).
PwdNamesCwd == prog = "pwd" /\ status = "zero" /\ ~raced => out \in named
=============================================================================
