-------------------------------- MODULE Rmdir --------------------------------
(***************************************************************************)
(* rmdir.c: remove the operands, with -p and the directories on the way to *)
(* them, which dirname() gives one by one.                                 *)
(***************************************************************************)
EXTENDS Tree

Rmdir(p) == job[p].prog = "rmdir"

Removing(p) == IF at[p] = Top THEN Operand(p) ELSE Dirname[at[p]]

Upward_Always(p) == TRUE
Upward(p) == job[p].p

Remove(p) ==
  /\ Rmdir(p) /\ Working(p) /\ CanRemove(Removing(p))
  /\ tree' = Set(tree, Removing(p), "none")
  /\ IF Upward(p) /\ Dirname[Removing(p)] # Top
     THEN at' = Set(at, p, Removing(p)) /\ UNCHANGED <<a, pc>>
     ELSE NextOperand(p)
  /\ UNCHANGED <<job, fault, ret, status>>

\* file_error_exit() does not return: the operands that follow are not looked
\* at, and ret is not what the program ends with.
RemoveFails(p) ==
  /\ Rmdir(p) /\ Working(p)
  /\ Blame(p, CanRemove(Removing(p)))
  /\ Exit(p, "error")
  /\ UNCHANGED <<tree, job, a, at, ret>>

RmdirStep(p) == Remove(p) \/ RemoveFails(p)
=============================================================================
