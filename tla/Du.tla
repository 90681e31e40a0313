--------------------------------- MODULE Du ---------------------------------
(***************************************************************************)
(* du.c: list the blocks of the directories below each operand, or with -a *)
(* of all files, and behind them a total.                                  *)
(***************************************************************************)
EXTENDS Integers, Sequences, Nftw

CONSTANTS
  DuOperand, MaxArgs, MaxOptions,
  Cwds,         \* the directories du may run in
  Name,         \* per file, its name in the directory it is in
  Mounted,      \* the files on another file system
  Blocks        \* per file, its st_blocks

DuAssumption ==
  /\ NftwAssumption /\ Forest
  /\ DuOperand \subseteq Node /\ Cwds \subseteq Dir /\ Mounted \subseteq Node
  /\ DOMAIN Name = Node
  /\ \A d \in Dir : \A m, n \in Children[d] : Name[m] = Name[n] => m = n
  /\ Blocks \in [Node -> Nat]
  /\ MaxArgs \in Nat /\ MaxOptions \in Nat

Option == {"a", "H", "k", "L", "s", "x"}

VARIABLES
  prog, options, args,
  o, a,        \* the options and operands dealt with
  flags,
  call,        \* call.flags: FTW_PHYS, FTW_CHDIR and FTW_MOUNT
  cwd,         \* the directory it runs in
  names,       \* what readdir() has still to return
  root,        \* the file the walk began at
  blocks,      \* st.st_blocks of the operand
  total,
  rows,        \* what is written: << n, its blocks >>, or for the total of an
               \* operand << Nothing, total >>
  ret, pc, status

given == <<prog, options, args, shut, cwd>>
chosen == <<o, flags, call>>
operand == <<a, names, blocks>>
result == <<total, rows>>
vars == <<given, chosen, operand, walk, root, result, ret, pc, status>>

Init ==
  /\ prog = "du"
  /\ options \in UNION {[1..n -> Option] : n \in 0..MaxOptions}
  /\ args \in UNION {[1..n -> DuOperand] : n \in 0..MaxArgs}
  /\ cwd \in Cwds /\ \E f \in Faults : shut = f.shut
  /\ o = 0 /\ a = 1 /\ flags = {} /\ call = {}
  /\ todo = {} /\ entered = {} /\ names = {} /\ root = Nothing
  /\ blocks = 0 /\ total = 0 /\ rows = <<>>
  /\ ret = 0 /\ pc = "options" /\ status = "running"

Exit(s) ==
  /\ pc' = "exited" /\ status' = s
  /\ UNCHANGED <<given, chosen, operand, walk, root, result, ret>>
-----------------------------------------------------------------------------
\* -H and -L replace the whole of call, also the FTW_MOUNT of an -x before
\* them; the FTW_DEPTH of -a is taken back behind the options.
CallAfter(opt) ==
  CASE opt = "H" -> {"CHDIR", "PHYS"}
    [] opt = "L" -> {"CHDIR"}
    [] opt = "x" -> call \union {"MOUNT"}
    [] OTHER -> call

NextOption ==
  /\ pc = "options" /\ o < Len(options)
  /\ flags' = flags \union {options[o+1]}
  /\ call' = CallAfter(options[o+1])
  /\ o' = o + 1
  /\ UNCHANGED <<given, operand, walk, root, result, ret, pc, status>>

Conflict == {"a", "s"} \subseteq flags \/ {"H", "L"} \subseteq flags

OptionsEnd == pc = "options" /\ o = Len(options)

Usage == OptionsEnd /\ Conflict /\ Exit("one")

\* BLOCKSIZE, looked at without -k, is no number above zero.
BadBlocksize == OptionsEnd /\ ~Conflict /\ "k" \notin flags /\ Exit("error")

\* nftw() is called on n.
Walk(n) == Begin(n) /\ root' = n /\ pc' = "walk"

Start ==
  /\ OptionsEnd /\ ~Conflict
  /\ IF args = <<>> THEN Walk(cwd) ELSE pc' = "operand" /\ UNCHANGED <<walk, root>>
  /\ UNCHANGED <<given, chosen, operand, result, ret, status>>
-----------------------------------------------------------------------------
phys == "PHYS" \in call

\* With FTW_MOUNT a walk passes over what is not on the file system of its
\* beginning.
OtherSystem(n) ==
  "MOUNT" \in call /\ (File(n, phys) \in Mounted) # (File(root, phys) \in Mounted)

\* info & FTW_D: of what nftw() reports for directories, FTW_D, and not FTW_DNR
\* of one that cannot be opened.
Listed(n) == "a" \in flags \/ File(n, phys) \in Dir \ shut

\* A row is about the directory that a link to it leads to, and else about the
\* link, but st_blocks are those of the file that it leads to.
Entry(n) == IF File(n, phys) \in Dir THEN File(n, phys) ELSE n

StBlocks(n) == Blocks[IF File(n, phys) = Nothing THEN n ELSE File(n, phys)]

\* wdu() calls statvfs() on a path that begins where the walk began; under
\* FTW_CHDIR that is not the working directory below the first files.
CanStat(n) ==
  "CHDIR" \in call => n = root \/ (root = cwd /\ n \in Children[cwd])

\* nftw() comes to n and calls wdu(), in which statvfs() may fail.
StatvfsFailed_Ignored == ret
StatvfsFailed == 1

Visit(n, found) ==
  /\ pc = "walk" /\ n \in todo
  /\ IF OtherSystem(n)
     THEN todo' = todo \ {n} /\ UNCHANGED entered
     ELSE Pass(n, phys)
  /\ IF OtherSystem(n) \/ ~Reported(n, phys) \/ ~Listed(n) THEN UNCHANGED <<result, ret>>
     ELSE IF found
     THEN /\ CanStat(n)
          /\ total' = total + StBlocks(n)
          /\ rows' = Append(rows, <<Entry(n), StBlocks(n)>>)
          /\ UNCHANGED ret
     ELSE ret' = StatvfsFailed /\ UNCHANGED result
  /\ UNCHANGED <<given, chosen, operand, root, pc, status>>

\* nftw() cannot stat n, which it has read in a directory.  FTW_NS passes info &
\* FTW_D, and statvfs(), external, fails on n as stat() did.
VisitUnstated(n) ==
  /\ pc = "walk" /\ n \in todo \ {root}
  /\ todo' = todo \ {n} /\ ret' = StatvfsFailed
  /\ UNCHANGED <<given, chosen, operand, entered, root, result, pc, status>>

AfterWalk ==
  /\ pc' = IF args = <<>> THEN "exit" ELSE "readdir"
  /\ UNCHANGED <<given, chosen, operand, root, result, status>>

WalkEnd == pc = "walk" /\ todo = {} /\ AfterWalk /\ UNCHANGED <<walk, ret>>

\* nftw() returns -1.
WalkFails ==
  /\ pc = "walk" /\ todo # {}
  /\ todo' = {} /\ ret' = 1
  /\ AfterWalk /\ UNCHANGED entered
-----------------------------------------------------------------------------
\* lstat() and opendir() on the operand.
Open ==
  /\ pc = "operand" /\ a <= Len(args)
  /\ blocks' = Blocks[args[a]]
  /\ names' = IF args[a] \in Dir \ shut THEN Children[args[a]] ELSE {}
  /\ ret' = IF args[a] \in shut THEN 1 ELSE ret
  /\ pc' = "readdir"
  /\ UNCHANGED <<given, chosen, a, walk, root, result, status>>

\* When lstat() fails, du goes on with an empty struct stat.
LstatFails ==
  /\ pc = "operand" /\ a <= Len(args)
  /\ blocks' = 0 /\ names' = {} /\ ret' = 1
  /\ pc' = "readdir"
  /\ UNCHANGED <<given, chosen, a, walk, root, result, status>>

\* nftw() is given the bare name of an entry, which is looked up in the
\* working directory; it fails when there is none of that name.
LookedUp(d) == {n \in Children[cwd] : Name[n] = Name[d]}

ReaddirFinds(d, n) ==
  /\ pc = "readdir" /\ d \in names /\ n \in LookedUp(d)
  /\ names' = names \ {d} /\ Walk(n)
  /\ UNCHANGED <<given, chosen, a, blocks, result, ret, status>>

ReaddirMisses(d) ==
  /\ pc = "readdir" /\ d \in names /\ LookedUp(d) = {}
  /\ names' = names \ {d} /\ ret' = 1
  /\ UNCHANGED <<given, chosen, a, blocks, walk, root, result, pc, status>>

\* total is that of all operands so far; when it is 0, nothing is written.
Total ==
  /\ pc = "readdir" /\ names = {}
  /\ total' = total + blocks
  /\ rows' = IF total' = 0 THEN rows ELSE Append(rows, <<Nothing, total'>>)
  /\ a' = a + 1 /\ pc' = "operand"
  /\ UNCHANGED <<given, chosen, names, blocks, walk, root, ret, status>>

Finish ==
  /\ pc = "exit" \/ (pc = "operand" /\ a > Len(args))
  /\ Exit(IF ret = 0 THEN "zero" ELSE "one")

Next ==
  \/ NextOption \/ Usage \/ BadBlocksize \/ Start
  \/ \E n \in Node : VisitUnstated(n) \/ \E found \in BOOLEAN : Visit(n, found)
  \/ WalkEnd \/ WalkFails
  \/ Open \/ LstatFails
  \/ \E d \in Node : ReaddirMisses(d) \/ \E n \in Node : ReaddirFinds(d, n)
  \/ Total \/ Finish

Spec == Init /\ [][Next]_vars
-----------------------------------------------------------------------------
TypeOK ==
  /\ o \in 0..MaxOptions /\ a \in 1..(MaxArgs+1) /\ flags \subseteq Option
  /\ call \subseteq {"PHYS", "CHDIR", "MOUNT"}
  /\ todo \subseteq Node /\ entered \subseteq Dir /\ names \subseteq Node
  /\ root \in Node \union {Nothing} /\ blocks \in Nat /\ total \in Nat
  /\ rows \in Seq((Node \union {Nothing}) \X Nat) /\ ret \in {0, 1}
  /\ pc \in {"options", "operand", "readdir", "walk", "exit", "exited"}
  /\ status \in {"running", "zero", "one", "error"}

Given(opt) == \E j \in 1..Len(options) : options[j] = opt

\* The files whose trees are asked for: the directory du runs in, or what is in
\* the operand.
Roots ==
  IF args = <<>> THEN {cwd}
  ELSE IF args[1] \in Dir THEN Children[args[1]] ELSE {}

\* What the options ask for, of the tree at r (du.c:14): links are followed with
\* -L only, -x leaves out what is on another file system than r, and the rows
\* are those of the directories that can be read, or with -a of all files.
Keep == ~Given("L")

Off(r) ==
  IF Given("x")
  THEN {m \in Node : ~((File(m, Keep) \in Mounted) <=> (File(r, Keep) \in Mounted))}
  ELSE {}

Tree(r) ==
  {IF File(n, Keep) \in Dir THEN File(n, Keep) ELSE n :
     n \in {m \in Reached(r, Keep, Off(r)) : Given("a") \/ File(m, Keep) \in Dir \ shut}}

\* The command lines ListsTree is about: at most one operand, and no -s, which
\* is not looked at.  Not those with which du does something else than asked: an
\* operand that is another directory than the one du runs in (du.c:144), or with
\* -H or -L a link (du.c:130); neither of them and a link in the tree
\* (du.c:119); and -x before them, which undo it (du.c:79, 86).
Covered ==
  /\ Len(args) <= 1 /\ ~Given("s")
  /\ args # <<>> => /\ args[1] \in Dir => args[1] = cwd
                    /\ args[1] \in Link => ~Given("H") /\ ~Given("L")
  /\ ~Given("H") /\ ~Given("L") => \A r \in Roots : Below[FALSE][r] \intersect Link = {}
  /\ Given("x") => \E j \in 1..Len(options) :
       options[j] = "x" /\ \A k \in (j+1)..Len(options) : options[k] \notin {"H", "L"}

RowsOf(n) == {j \in 1..Len(rows) : rows[j][1] = n}

Sum ==
  LET sum[j \in 0..Len(rows)] ==
        IF j = 0 THEN 0 ELSE sum[j-1] + (IF rows[j][1] = Nothing THEN 0 ELSE rows[j][2])
  IN sum[Len(rows)]

\* A du that exits with zero has listed the trees it was asked for and nothing
\* else, every file once unless links are followed, with -L; and behind a single
\* operand the total is the sum of all files and its own blocks: with -a, for
\* without it the files of a directory are missing in it, and without -k, which
\* changes no number (du.c:26-48, 151-153).  Of a total of 0 nothing is said: it
\* is not written.
ListsTree ==
  status = "zero" /\ Covered =>
    LET whole == Sum + Blocks[args[1]] IN
    /\ \A n \in Node : RowsOf(n) # {} <=> \E r \in Roots : n \in Tree(r)
    /\ Keep => \A n \in Node : Cardinality(RowsOf(n)) <= 1
    /\ args # <<>> /\ Given("a") /\ ~Given("k") /\ Keep /\ whole # 0 =>
         rows # <<>> /\ rows[Len(rows)] = <<Nothing, whole>>

\* du.c:10: du "should not follow symbolic links by default".
DefaultKeepsLinks ==
  flags \intersect {"H", "L"} = {} /\ (args = <<>> \/ args = <<cwd>>) =>
    \A j \in 1..Len(rows) : rows[j][1] # Nothing =>
      \E r \in Roots : rows[j][1] \in Below[TRUE][r]
=============================================================================
