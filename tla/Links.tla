-------------------------------- MODULE Links --------------------------------
(***************************************************************************)
(* link.c and unlink.c: one system call, and an error that ends them.      *)
(***************************************************************************)
EXTENDS Tree

Link(p) ==
  /\ job[p].prog = "link" /\ pc[p] = "work"
  /\ CanLink(job[p].args[1], job[p].args[2])
  /\ tree' = Set(tree, job[p].args[2], tree[job[p].args[1]])
  /\ Exit(p, "zero")
  /\ UNCHANGED <<job, fault, a, at, ret>>

LinkFails(p) ==
  /\ job[p].prog = "link" /\ pc[p] = "work"
  /\ Blame(p, CanLink(job[p].args[1], job[p].args[2]))
  /\ Exit(p, "error")
  /\ UNCHANGED <<tree, job, a, at, ret>>

Unlink(p) ==
  /\ job[p].prog = "unlink" /\ pc[p] = "work"
  /\ CanUnlink(job[p].args[1])
  /\ tree' = Set(tree, job[p].args[1], "none")
  /\ Exit(p, "zero")
  /\ UNCHANGED <<job, fault, a, at, ret>>

UnlinkFails(p) ==
  /\ job[p].prog = "unlink" /\ pc[p] = "work"
  /\ Blame(p, CanUnlink(job[p].args[1]))
  /\ Exit(p, "error")
  /\ UNCHANGED <<tree, job, a, at, ret>>

LinksStep(p) == Link(p) \/ LinkFails(p) \/ Unlink(p) \/ UnlinkFails(p)
=============================================================================
