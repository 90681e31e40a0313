--------------------------------- MODULE Id ---------------------------------
(***************************************************************************)
(* id.c: write the user and the groups of a user, or the process, scanning *)
(* the group database.  pwd points at a struct passwd of the library's,     *)
(* which a later lookup may overwrite.                                     *)
(***************************************************************************)
EXTENDS Naturals, Sequences

CONSTANTS
  Primary,    \* per user of the passwd database, the group in the entry
  Stranger,   \* a user that is not there
  Databases   \* group databases: sequences of [gid, mem], mem a set of users

IdAssumption ==
  /\ Stranger \notin DOMAIN Primary /\ Primary \in [DOMAIN Primary -> Nat]
  /\ \A db \in Databases : db \in Seq([gid : Nat, mem : SUBSET DOMAIN Primary])

User == DOMAIN Primary
Flag == {"G", "g", "n", "u"}    \* -r is ignored

VARIABLES
  prog,
  given,    \* flags; named: an operand was given; uid: the user asked for, that
            \* of the operand or the real one; euid, db; shared:
            \* getpwnam() and getpwuid() return one struct, as POSIX allows
  mem,      \* pwd: the user of the struct passwd; pos: where getgrent() is
  out,      \* << what, user or group >>
  pc, status

vars == <<prog, given, mem, out, pc, status>>

Init ==
  /\ prog = "id"
  /\ given \in [flags : SUBSET Flag, named : BOOLEAN, uid : User \union {Stranger},
                euid : User \union {Stranger}, shared : BOOLEAN, db : Databases]
  /\ mem = [pwd |-> Stranger, pos |-> 0] /\ out = <<>>
  /\ pc = "start" /\ status = "running"

flags == given.flags
db == given.db
pwd == mem.pwd
pos == mem.pos

Exit(s) == pc' = "exited" /\ status' = s /\ UNCHANGED <<prog, given, mem, out>>

Writes(items, next) ==
  out' = out \o items /\ pc' = next /\ UNCHANGED <<prog, given, status>>

Conflict == \E f, g \in flags \ {"n"} : f # g

\* For this, or an option id does not have, or too many operands.
Usage == pc = "start" /\ Exit("usage")

GetEntry ==
  /\ pc = "start" /\ ~Conflict /\ given.uid # Stranger
  /\ mem' = [mem EXCEPT !.pwd = given.uid] /\ Writes(<<>>, "print")

NoEntry == pc = "start" /\ ~Conflict /\ Exit("error")

\* xgetgrgid() of the entry's group.
HasGroup == \E k \in 1..Len(db) : db[k].gid = Primary[pwd]

NoGroup ==
  /\ pc = "print" /\ (flags \subseteq {"g", "n"} \/ flags = {"G", "n"})
  /\ Exit("error")

\* write_strings() of a name with no NULL behind it reads on.
Undefined ==
  /\ "n" \in flags
  /\ \/ pc = "print" /\ flags \intersect {"g", "u"} # {}
     \/ pc = "scan" /\ "G" \in flags /\ pos < Len(db) /\ pwd \in db[pos+1].mem
  /\ Exit("undefined")

PrintUser ==
  /\ pc = "print" /\ "u" \in flags
  /\ Writes(<< <<"user", pwd>> >>, "write") /\ UNCHANGED mem

PrintGroup ==
  /\ pc = "print" /\ "g" \in flags /\ HasGroup
  /\ Writes(<< <<"group", Primary[pwd]>> >>, "write") /\ UNCHANGED mem

PrintGroups ==
  /\ pc = "print" /\ "G" \in flags /\ ("n" \in flags => HasGroup)
  /\ Writes(<< <<"group", Primary[pwd]>> >>, "scan") /\ UNCHANGED mem

\* The struct pwd points at when the effective user was looked up as well:
\* getpwuid() overwrites its own, and that of getpwnam() where they share it;
\* a lookup that finds nothing leaves an entry it has read there.
Left ==
  IF pwd = given.euid \/ (given.named /\ ~given.shared) THEN {pwd}
  ELSE IF given.euid = Stranger THEN User ELSE {given.euid}

\* Without a letter.
DefaultPrint ==
  /\ pc = "print" /\ flags \subseteq {"n"} /\ HasGroup
  /\ Writes(<< <<"user", pwd>>, <<"gid", Primary[pwd]>> >>
            \o (IF given.euid \in {pwd, Stranger} THEN <<>> ELSE << <<"euid", given.euid>> >>)
            \o << <<"group", Primary[pwd]>> >>, "scan")
  /\ \E user \in Left : mem' = [mem EXCEPT !.pwd = user]

\* getnextsupplementary(): groups of others are passed over.
Passed_Ends == pwd \notin db[pos+1].mem /\ pc' = "write"
Passed == pwd \notin db[pos+1].mem /\ UNCHANGED pc

Scan ==
  /\ pc = "scan" /\ pos < Len(db) /\ mem' = [mem EXCEPT !.pos = pos + 1]
  /\ \/ Passed /\ UNCHANGED <<prog, given, out, status>>
     \/ pwd \in db[pos+1].mem /\ Writes(<< <<"group", db[pos+1].gid>> >>, "scan")

ScanEnd ==
  /\ pc = "scan" /\ pos = Len(db)
  /\ Writes(<<>>, "write") /\ UNCHANGED mem

GetgrentFails == pc = "scan" /\ Exit("error")

Write == pc = "write" /\ Exit("zero")

Next ==
  \/ Usage \/ GetEntry \/ NoEntry \/ NoGroup \/ Undefined \/ PrintUser \/ PrintGroup
  \/ PrintGroups \/ DefaultPrint \/ Scan \/ ScanEnd \/ GetgrentFails \/ Write

Spec == Init /\ [][Next]_vars
-----------------------------------------------------------------------------
\* The entries that name the user asked for, and the groups to be listed.
Naming == {k \in 1..Len(db) : given.uid \in db[k].mem}
Groups == {Primary[given.uid]} \union {db[k].gid : k \in Naming}

GroupsIn(s) == {s[k][2] : k \in {j \in 1..Len(s) : s[j][1] = "group"}}

Repeats(s, g) ==
  \E j, k \in 1..Len(s) : j # k /\ s[j] = <<"group", g>> /\ s[k] = <<"group", g>>

\* The databases give the user the group in two places.
GivenTwice(g) ==
  \/ g = Primary[given.uid] /\ \E k \in Naming : db[k].gid = g
  \/ \E j, k \in Naming : j # k /\ db[j].gid = g /\ db[k].gid = g

\* An id that exits with zero has listed the group of the passwd entry and those
\* that name the user, no others, and each once but for those the databases
\* give twice.  Left out is an id without options that looks up another
\* effective user in the struct pwd points at: then the groups may be those of
\* that user (id.c:116, 122).
IdListsGroups ==
  prog = "id" /\ status = "zero" /\ flags \intersect {"g", "u"} = {}
      /\ ("G" \in flags \/ given.euid = given.uid \/ (given.named /\ ~given.shared)) =>
    /\ GroupsIn(out) = Groups
    /\ \A g \in Groups : Repeats(out, g) => GivenTwice(g)
=============================================================================
