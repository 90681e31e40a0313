-------------------------------- MODULE Mkdir --------------------------------
(***************************************************************************)
(* mkdir.c: make the operands, with -p and the directories on the way.  A  *)
(* path that is there already is looked at again, with stat(), before it   *)
(* counts as made.                                                         *)
(***************************************************************************)
EXTENDS Tree

Mkdir(p) == job[p].prog = "mkdir"

\* mkdir(2) is called on the operand; mkparentdir(), external, calls it on
\* each directory on the way first, from the top, and goes on when one is
\* there.
Making(p) ==
  IF job[p].p THEN CHOOSE x \in Way[Operand(p)] : Dirname[x] = at[p]
  ELSE Operand(p)

Make(p) ==
  /\ Mkdir(p) /\ Working(p) /\ CanMake(Making(p))
  /\ tree' = Set(tree, Making(p), "dir")
  /\ IF Making(p) = Operand(p) THEN NextOperand(p)
     ELSE at' = Set(at, p, Making(p)) /\ UNCHANGED <<a, pc>>
  /\ UNCHANGED <<job, fault, ret, status>>

WayExists(p) ==
  /\ Mkdir(p) /\ Working(p) /\ EEXIST(Making(p)) /\ Making(p) # Operand(p)
  /\ at' = Set(at, p, Making(p))
  /\ UNCHANGED <<tree, job, fault, a, ret, pc, status>>

\* errno is EEXIST.
Exists_Failure(p) ==
  /\ Mkdir(p) /\ Working(p) /\ EEXIST(Making(p)) /\ Making(p) = Operand(p)
  /\ ret' = Set(ret, p, 1)
  /\ NextOperand(p)
  /\ UNCHANGED <<tree, job, fault, status>>

Exists(p) ==
  /\ Mkdir(p) /\ Working(p) /\ EEXIST(Making(p)) /\ Making(p) = Operand(p)
  /\ pc' = Set(pc, p, "stat")
  /\ UNCHANGED <<tree, job, fault, a, at, ret, status>>

\* Any other errno.
MakeFails(p) ==
  /\ Mkdir(p) /\ Working(p)
  /\ Blame(p, CanMake(Making(p)) \/ EEXIST(Making(p)))
  /\ ret' = Set(ret, p, 1)
  /\ NextOperand(p)
  /\ UNCHANGED <<tree, job, status>>

StatDir(p) ==
  /\ Mkdir(p) /\ pc[p] = "stat" /\ stat(tree, Operand(p)) = "dir"
  /\ NextOperand(p)
  /\ UNCHANGED <<tree, job, fault, ret, status>>

Rejected_Unseen(p) == ret
Rejected(p) == Set(ret, p, 1)

\* stat() fails, or what it finds is not a directory.
StatRejects(p) ==
  /\ Mkdir(p) /\ pc[p] = "stat"
  /\ Blame(p, stat(tree, Operand(p)) = "dir")
  /\ ret' = Rejected(p)
  /\ NextOperand(p)
  /\ UNCHANGED <<tree, job, status>>

MkdirStep(p) ==
  \/ Make(p) \/ WayExists(p) \/ Exists(p) \/ MakeFails(p)
  \/ StatDir(p) \/ StatRejects(p)
=============================================================================
