--------------------------------- MODULE Env ---------------------------------
(***************************************************************************)
(* env.c: execute a utility in a modified environment, or print it.        *)
(***************************************************************************)
EXTENDS Naturals, Sequences

CONSTANTS
  Name, Value,    \* the environment's variables and what they may hold
  MaxArgs,        \* most assignments given
  Result          \* how the utility ends

Entry == Name \X Value

VARIABLES
  before,     \* the environment env was started in
  environ,    \* the array of strings name=value
  iflag,      \* -i was given
  args,       \* the assignments given
  done,       \* how many of them have been made
  printed,    \* the entries written to standard output
  util,       \* "none" when no utility is given
  pc, status

vars == <<before, environ, iflag, args, done, printed, util, pc, status>>

given == <<before, iflag, args, util>>

NamesOnce(s) == \A j, k \in 1..Len(s) : s[j][1] = s[k][1] => j = k

Init ==
  /\ before \in {s \in UNION {[1..l -> Entry] : l \in 0..2} : NamesOnce(s)}
  /\ environ = before
  /\ iflag \in BOOLEAN
  /\ args \in UNION {[1..l -> Entry] : l \in 0..MaxArgs}
  /\ done = 0 /\ printed = <<>>
  /\ util \in {"none", "missing", "noexec"} \union Result
  /\ pc = "options" /\ status = "none"

Exit(s) == pc' = "exited" /\ status' = s
-----------------------------------------------------------------------------
\* usage().
BadOptions ==
  /\ pc = "options"
  /\ Exit("error")
  /\ UNCHANGED <<given, environ, done, printed>>

\* -i: *environ = NULL.
Options ==
  /\ pc = "options"
  /\ environ' = IF iflag THEN <<>> ELSE environ
  /\ pc' = "assign"
  /\ UNCHANGED <<given, done, printed, status>>

\* putenv(), external: the entry of that name is replaced, or one is added.
Put_Appended(s, e) == Append(s, e)
Put(s, e) ==
  IF \E j \in 1..Len(s) : s[j][1] = e[1]
  THEN [j \in 1..Len(s) |-> IF s[j][1] = e[1] THEN e ELSE s[j]]
  ELSE Append(s, e)

Assign ==
  /\ pc = "assign" /\ done < Len(args)
  /\ environ' = Put(environ, args[done+1])
  /\ done' = done + 1
  /\ UNCHANGED <<given, printed, pc, status>>

AssignFails ==
  /\ pc = "assign" /\ done < Len(args)
  /\ Exit("error")
  /\ UNCHANGED <<given, environ, done, printed>>

Failure_ErrnoLost(u) == "126"
Failure(u) == IF u = "missing" THEN "127" ELSE "126"

Exec ==
  /\ pc = "assign" /\ done = Len(args) /\ util # "none"
  /\ IF util \in Result THEN pc' = "running" /\ UNCHANGED status
     ELSE Exit(Failure(util))
  /\ UNCHANGED <<given, environ, done, printed>>

UtilityEnds ==
  /\ pc = "running"
  /\ Exit(util)
  /\ UNCHANGED <<given, environ, done, printed>>

\* Without a utility the entries are printed; environ itself is the cursor.
StartPrint ==
  /\ pc = "assign" /\ done = Len(args) /\ util = "none"
  /\ pc' = "print"
  /\ UNCHANGED <<given, environ, done, printed, status>>

PrintEntry ==
  /\ pc = "print" /\ environ # <<>>
  /\ printed' = Append(printed, Head(environ))
  /\ environ' = Tail(environ)
  /\ UNCHANGED <<given, done, pc, status>>

\* The library ends the program when a write fails.
PrintFails ==
  /\ pc = "print"
  /\ Exit("error")
  /\ UNCHANGED <<given, environ, done, printed>>

PrintEnd ==
  /\ pc = "print" /\ environ = <<>>
  /\ Exit("exit0")
  /\ UNCHANGED <<given, environ, done, printed>>

Next ==
  \/ BadOptions \/ Options \/ Assign \/ AssignFails \/ Exec \/ UtilityEnds
  \/ StartPrint \/ PrintEntry \/ PrintFails \/ PrintEnd

Spec == Init /\ [][Next]_vars
-----------------------------------------------------------------------------
Last(s, v) == \E j \in 1..Len(s) : /\ s[j] = v
                                   /\ \A k \in (j+1)..Len(s) : s[k][1] # v[1]

\* The entries the utility, or the reader of the list, is to see: the last
\* assignment of each name and, unless -i was given, the old environment.
Wanted ==
  {e \in Entry :
     \/ Last(args, e)
     \/ /\ ~iflag /\ Last(before, e)
        /\ \A j \in 1..Len(args) : args[j][1] # e[1]}

Entries(s) == {s[j] : j \in 1..Len(s)}

\* Assignments given to env override the inherited environment and each
\* other, each name is there once, and -i leaves nothing but assignments
\* (env.c:27, 33-35).
SeesEnvironment ==
  /\ pc = "running" => Entries(environ) = Wanted /\ NamesOnce(environ)
  /\ pc = "exited" /\ util = "none" /\ status = "exit0" =>
       Entries(printed) = Wanted /\ NamesOnce(printed)
-----------------------------------------------------------------------------
(***************************************************************************)
(* What its caller sees of it, in the terms of Invocation: printing is     *)
(* what it does as its own utility.                                        *)
(***************************************************************************)
phase == IF pc \in {"running", "print"} THEN "running"
         ELSE IF pc = "exited" THEN "done" ELSE "setup"

utility == IF util = "none" THEN "exit0" ELSE util
=============================================================================
