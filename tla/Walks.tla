-------------------------------- MODULE Walks --------------------------------
(***************************************************************************)
(* The programs that walk a tree with nftw(): chown, chgrp and chmod, which *)
(* Ch models, and du.  A behaviour runs one of them, prog; variables the   *)
(* others alone have are Idle.                                             *)
(***************************************************************************)
EXTENDS Naturals, Sequences, FiniteSets

CONSTANTS
  Progs, Node, Children, Target, Nothing, Below, Faults, MaxArgs, MaxOptions,
  Operand,                                            \* chown, chgrp, chmod
  DuOperand, MaxDuArgs, Cwds, Name, Mounted, Blocks,             \* du
  Idle

VARIABLES
  prog, options, args, o, a, flags, call, shut, todo, entered, ret, pc, status,
  denied, changed, failed,                            \* chown, chgrp, chmod
  cwd, names, root, blocks, total, rows               \* du

chVars == <<denied, changed, failed>>
duVars == <<cwd, names, root, blocks, total, rows>>
vars == <<prog, options, args, o, a, flags, call, shut, todo, entered, ret, pc,
          status, chVars, duVars>>

Ch == INSTANCE Ch
Du == INSTANCE Du WITH MaxArgs <- MaxDuArgs

ASSUME WalksAssumption ==
  /\ Progs \subseteq {"chown", "chgrp", "chmod", "du"}
  /\ Ch!ChAssumption /\ Du!DuAssumption

ChIdle == denied = Idle /\ changed = Idle /\ failed = Idle
DuIdle ==
  /\ cwd = Idle /\ names = Idle /\ root = Idle
  /\ blocks = Idle /\ total = Idle /\ rows = Idle

Init ==
  \/ Ch!Init /\ DuIdle
  \/ prog \in Progs /\ Du!Init /\ ChIdle

ChStep == prog # "du" /\ Ch!Next /\ UNCHANGED duVars
DuStep == prog = "du" /\ Du!Next /\ UNCHANGED chVars

Next == ChStep \/ DuStep

Spec == Init /\ [][Next]_vars

\* One thread, and every call it makes returns.
FairSpec == Spec /\ WF_vars(Next)
-----------------------------------------------------------------------------
(***************************************************************************)
(* What is true of the program that is run.                                *)
(***************************************************************************)
\* Every variable has a value of its type.
TypeOK ==
  /\ prog # "du" => Ch!TypeOK
  /\ prog = "du" => Du!TypeOK

\* At no time is a file changed that the options do not select (ch.h:18-22,
\* chown.c:80-95).
ChangesOnlySelected == prog # "du" => Ch!ChangesOnlySelected

\* All of them that can be reached are changed when nothing failed.
ChangesAllSelected == prog # "du" => Ch!ChangesAllSelected

\* chgrp and chmod that exit with zero have changed them
\* (chgrp.c:19-24, chmod.c:18-23).
ZeroMeansAllChanged == prog # "du" => Ch!ZeroMeansAllChanged

\* A du that exits with zero has listed the trees it was asked for and nothing
\* else, and with -a summed them up (du.c:26-48, 117-153).
DuListsTree == prog = "du" => Du!ListsTree

\* Walks end, also when a link leads to a directory above it, and du reads
\* every directory to its end.
Terminates == <>(pc = "exited")

\* chgrp.c:10 gives -h and -R as alternatives: with both, chgrp does not call
\* the stat function that the row of -h does not have.
ChgrpNeverCallsNull == prog # "du" => Ch!ChgrpNeverCallsNull

\* du.c:10: du "should not follow symbolic links by default".
DuDefaultKeepsLinks == prog = "du" => Du!DefaultKeepsLinks
=============================================================================
