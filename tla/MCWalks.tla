------------------------------- MODULE MCWalks -------------------------------
(***************************************************************************)
(* Instance of Walks for TLC: a directory d with a file f, a directory e   *)
(* and a link out to a directory x outside of d; in e a link up to d.  x   *)
(* holds no links but a directory z, of the same name as f, with a file w. *)
(* ld is a link to d, and no leads nowhere.  du runs in d or in x; e and z *)
(* are on another file system.                                             *)
(***************************************************************************)
EXTENDS Walks, TLC

MCNode == {"d", "e", "f", "out", "up", "x", "z", "w", "ld", "no"}
MCChildren ==
  "d" :> {"e", "f", "out"} @@ "e" :> {"up"} @@ "x" :> {"z"} @@ "z" :> {"w"}
MCTarget == "out" :> "x" @@ "up" :> "d" @@ "ld" :> "d" @@ "no" :> "nothing"

\* Through links, a walk from d or e gets to all of d, and to z and w.
MCBelow ==
  LET links == {"e", "f", "out", "up", "z", "w"} IN
  [phys \in BOOLEAN |-> [n \in MCNode |->
     CASE n \in {"f", "w", "no"} -> {n}
       [] n = "x" -> {"x", "z", "w"}
       [] n = "z" -> {"z", "w"}
       [] phys /\ n = "d" -> {"d", "e", "f", "out", "up"}
       [] phys /\ n = "e" -> {"e", "up"}
       [] ~phys /\ n = "out" -> {"out", "z", "w"}
       [] ~phys /\ n \in {"d", "e", "up", "ld"} -> {n} \union links
       [] OTHER -> {n}]]

\* Nothing, one file that may not be changed, one directory that is shut.
MCFaults ==
  {[denied |-> {}, shut |-> {}]}
    \union {[denied |-> {n}, shut |-> {}] : n \in {"d", "e", "f", "up", "w"}}
    \union {[denied |-> {}, shut |-> {n}] : n \in DOMAIN MCChildren}

MCOperand == {"d", "f", "ld", "no"}

MCDuOperand == {"d", "x", "no"}
MCName == [n \in MCNode |-> IF n = "z" THEN "f" ELSE n]
MCBlocks == [n \in MCNode |-> CASE n = "no" -> 0 [] n = "e" -> 1 [] n = "f" -> 2
                                [] n = "d" -> 4 [] n = "x" -> 8 [] n = "w" -> 32
                                [] OTHER -> 16]
=============================================================================
