-------------------------------- MODULE Nftw --------------------------------
(***************************************************************************)
(* The file tree that chown, chgrp, chmod and du walk, and nftw(),         *)
(* external: it calls a function for every file, a directory before its    *)
(* content; without FTW_PHYS it goes through symbolic links and then       *)
(* reports no directory twice.  A directory it cannot open it reports, as  *)
(* FTW_DNR, and goes on: that is no error to it.                           *)
(***************************************************************************)
EXTENDS FiniteSets

CONSTANTS
  Node,         \* the files
  Children,     \* per directory, the files in it
  Target,       \* per symbolic link, the file it leads to, or Nothing
  Nothing,
  Below,        \* per phys and file, the files a walk from it can reach
  Faults        \* what may be wrong: files that may not be changed, denied, and
                \* directories that cannot be opened, shut

Dir == DOMAIN Children
Link == DOMAIN Target

Resolved(n) == IF n \in Link THEN Target[n] ELSE n

\* The file that n is to a walk.
File(n, phys) == IF phys THEN n ELSE Resolved(n)

\* A walk enters directories, and those that links lead to unless phys.
Inside(n, phys) == IF File(n, phys) \in Dir THEN Children[File(n, phys)] ELSE {}

Closed(S, phys) == \A n \in S : Inside(n, phys) \subseteq S

NftwAssumption ==
  /\ Dir \subseteq Node /\ Link \subseteq Node
  /\ Dir \intersect Link = {} /\ Nothing \notin Node
  /\ \A d \in Dir : Children[d] \subseteq Node
  /\ \A l \in Link : Target[l] \in (Node \ Link) \union {Nothing}
  /\ Below \in [BOOLEAN -> [Node -> SUBSET Node]]
  /\ \A phys \in BOOLEAN, n \in Node :
       /\ n \in Below[phys][n] /\ Closed(Below[phys][n], phys)
       /\ \A S \in SUBSET Below[phys][n] :
            n \in S /\ Closed(S, phys) => S = Below[phys][n]
  /\ Faults \subseteq [denied : SUBSET Node, shut : SUBSET Dir]

\* A file is a name in a directory: it is in one, and no directory is below
\* itself.
Forest ==
  /\ IsFiniteSet(Node)
  /\ \A d, e \in Dir : Children[d] \intersect Children[e] # {} => d = e
  /\ \A d \in Dir : \A n \in Children[d] : d \notin Below[TRUE][n]

VARIABLES
  shut,        \* the directories that cannot be opened
  todo,        \* the files the walk has still to visit
  entered      \* the directories the walk has come to

walk == <<todo, entered>>

\* What a walk from r reaches: what is in the directories it comes to and can
\* open, but for the files in off.
Holds(S, r, phys, off) ==
  /\ r \in S
  /\ \A n \in S : File(n, phys) \notin shut => Inside(n, phys) \ off \subseteq S

Reached(r, phys, off) ==
  {n \in Below[phys][r] :
     \A S \in SUBSET Below[phys][r] : Holds(S, r, phys, off) => n \in S}

Reported(n, phys) == phys \/ File(n, phys) \notin entered

\* The walk begins at n.
Begin(n) == todo' = {n} /\ entered' = {}

\* It passes n, and goes into it when it is a directory it can open.
Pass(n, phys) ==
  LET into == {File(n, phys)} \intersect (Dir \ entered) IN
    /\ n \in todo
    /\ todo' = (todo \ {n}) \union UNION {Children[d] : d \in into \ shut}
    /\ entered' = entered \union into
=============================================================================
