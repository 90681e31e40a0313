------------------------------- MODULE MCDirs -------------------------------
(***************************************************************************)
(* Instance of Dirs for TLC: directories a and a/b in it, a file f, and a  *)
(* path l that may be a symbolic link to a.                                *)
(***************************************************************************)
EXTENDS Dirs, TLC

MCPath == {"a", "a/b", "f", "l"}
MCDirname == "a" :> "." @@ "a/b" :> "a" @@ "f" :> "." @@ "l" :> "."
MCWay == [x \in MCPath |-> IF x = "a/b" THEN {"a", "a/b"} ELSE {x}]

Found(a1, b, l) == "a" :> a1 @@ "a/b" :> b @@ "f" :> "file" @@ "l" :> l

MCStart ==
  {Found("none", "none", "none"), Found("dir", "dir", "none"),
   Found("dir", "file", "link"), Found("none", "none", "link")}
   \union {[x \in MCPath |-> "none"]}

Line(prog, p, args) == [prog |-> prog, p |-> p, args |-> args]

MCJob ==
  {Line("mkdir", FALSE, <<"a", "a/b">>), Line("mkdir", FALSE, <<"l">>),
   Line("mkdir", TRUE, <<"a/b">>), Line("mkdir", TRUE, <<"a/b", "a">>),
   Line("rmdir", TRUE, <<"a/b">>), Line("rmdir", FALSE, <<"a/b", "l">>),
   Line("link", FALSE, <<"f", "a/b">>), Line("unlink", FALSE, <<"a/b">>),
   Line("unlink", FALSE, <<"l">>)}

\* No definition tells one process from another.
Processes == Permutations(Proc)
=============================================================================
