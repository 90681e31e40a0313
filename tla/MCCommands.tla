----------------------------- MODULE MCCommands -----------------------------
(***************************************************************************)
(* Instance of Commands for TLC: signals 0, HUP, INT, KILL and TERM; three *)
(* paths, two directories; two users and a stranger; names of up to three  *)
(* characters; the pairs on either side of every boundary of date; a byte  *)
(* on either side of every boundary of stty.                               *)
(***************************************************************************)
EXTENDS Commands

MCSigs == <<0, 1, 2, 9, 15>>

X(kind, n) == [kind |-> kind, n |-> n]

MCArgument ==
  {X("-s", 0), X("-l", 0), X("--", 0), X("-name", 2), X("-number", 1),
   X("name", 9), X("number", 0), X("number", 15), X("number", 100)}

MCPrimary == [u \in {"ann", "bob"} |-> IF u = "ann" THEN 10 ELSE 20]

Group(gid, users) == [gid |-> gid, mem |-> users]

MCDatabases ==
  {<<>>,
   <<Group(10, {}), Group(20, {"ann"}), Group(30, {"bob"}), Group(40, {"ann", "bob"})>>,
   <<Group(30, {"ann"}), Group(20, {"bob"}), Group(10, {"ann"}), Group(30, {"ann"})>>}

MCBefore ==
  {<<"b", "a", "b", "Nul">>, <<"a", "b", "/", "Nul">>, <<"Nul", "a", "/", "a", "Nul">>}

MCModes == <<"parenb", "ixon", "echo">>
MCDelays == << {0, 1} >>
MCControls == <<"eof">>
=============================================================================
