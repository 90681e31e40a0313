-------------------------------- MODULE Kill --------------------------------
(***************************************************************************)
(* kill.c: send a signal to processes, or list signal names.  The command  *)
(* line is looked at three times: by getopt() for -s and -l, by long_opts()*)
(* for one -signal behind these, and for the process IDs.                  *)
(*                                                                         *)
(* An argument is a kind and a number: "-s", "-l" and "--" without one, or *)
(* the name of signal n or n in digits, with or without a dash before it.  *)
(***************************************************************************)
EXTENDS Integers, Sequences

CONSTANTS
  Sigs,       \* sigs[], as the sequence of the signals' numbers
  TERM,       \* SIGTERM
  Argument,   \* what the arguments may be
  MaxArgs,
  IovSize     \* ARRSIZ(iov) in dump_sigs, 16 in the program

Kind == {"-s", "-l", "--", "-name", "-number", "name", "number"}

KillAssumption ==
  /\ Sigs \in Seq(Nat) /\ \E k \in 1..Len(Sigs) : Sigs[k] = TERM
  /\ Argument \subseteq [kind : Kind, n : Nat]
  /\ MaxArgs \in Nat
  /\ IovSize \in Nat \ {0} /\ IovSize % 2 = 0

VARIABLES
  prog, args,
  optind,     \* the argument looked at next
  sigsend,    \* the signal to send
  lopt,       \* the argument of -l, << >> without one
  flags,      \* how often each of -l, -s and -signal was seen, 0 or 1
  listed,     \* the signals whose names were written
  sent,       \* the calls of kill(): << pid, signal >>
  ret, pc, status

given == <<prog, args>>
effects == <<listed, sent>>
opts == <<optind, sigsend, lopt, flags>>
vars == <<given, opts, effects, ret, pc, status>>

Init ==
  /\ prog = "kill"
  /\ args \in UNION {[1..k -> Argument] : k \in 0..MaxArgs}
  /\ optind = 1 /\ sigsend = TERM /\ lopt = <<>>
  /\ flags = [f \in {"l", "s", "longs"} |-> 0]
  /\ listed = <<>> /\ sent = <<>>
  /\ ret = 0 /\ pc = "options" /\ status = "running"

Goto(p) == pc' = p /\ UNCHANGED status
Exit(s) == pc' = "exited" /\ status' = s /\ UNCHANGED <<given, opts, ret>>

More == optind <= Len(args)
Arg == args[optind]
Known(n) == \E k \in 1..Len(Sigs) : Sigs[k] = n
-----------------------------------------------------------------------------
(***************************************************************************)
(* getopt() with ":l:s:", external; the loop over what it returns.         *)
(***************************************************************************)
Option(kinds) == pc = "options" /\ More /\ Arg.kind \in kinds
HasOptarg == optind < Len(args)
Optarg == args[optind+1]

\* sig_match by name; the name of signal 0 is "0".
NameMatches(x) == Known(x.n) /\ (x.kind = "name" \/ x = [kind |-> "number", n |-> 0])

\* The argument and n - 1 behind it are done.
Sees(f, n) ==
  /\ flags' = [flags EXCEPT ![f] = 1] /\ optind' = optind + n
  /\ UNCHANGED <<given, effects, ret>>

OptionS ==
  /\ Option({"-s"}) /\ HasOptarg /\ NameMatches(Optarg)
  /\ sigsend' = Optarg.n
  /\ Sees("s", 2) /\ UNCHANGED <<lopt, pc, status>>

OptionSFails ==
  /\ Option({"-s"}) /\ HasOptarg /\ ~NameMatches(Optarg)
  /\ Exit("error") /\ UNCHANGED effects

OptionL ==
  /\ Option({"-l"}) /\ HasOptarg
  /\ lopt' = <<Optarg>>
  /\ Sees("l", 2) /\ UNCHANGED <<sigsend, pc, status>>

\* The last argument is -l: ':' is returned.
MissingOptarg ==
  /\ Option({"-l"}) /\ ~HasOptarg
  /\ Sees("l", 1) /\ UNCHANGED <<sigsend, lopt, pc, status>>

\* It is -s, which is then ignored.
MissingSignal ==
  /\ Option({"-s"}) /\ ~HasOptarg
  /\ optind' = optind + 1
  /\ UNCHANGED <<given, sigsend, lopt, flags, effects, ret, pc, status>>

\* Any other option.
Usage == Option({"-name", "-number"}) /\ Exit("usage") /\ UNCHANGED effects

OptionsEnd ==
  /\ pc = "options" /\ ~Option({"-s", "-l", "-name", "-number"})
  /\ optind' = IF More /\ Arg.kind = "--" THEN optind + 1 ELSE optind
  /\ Goto("long") /\ UNCHANGED <<given, sigsend, lopt, flags, effects, ret>>
-----------------------------------------------------------------------------
IsLong == More /\ Arg.kind \in {"-name", "-number"} /\ Known(Arg.n)

LongSignal_Kept(n) == sigsend
LongSignal(n) == n

LongOption ==
  /\ pc = "long" /\ IsLong
  /\ sigsend' = LongSignal(Arg.n)
  /\ Sees("longs", 1) /\ Goto("check") /\ UNCHANGED lopt

NoLongOption ==
  /\ pc = "long" /\ ~IsLong
  /\ Goto("check") /\ UNCHANGED <<given, opts, effects, ret>>

Exclusive_Pairs == flags["l"] + flags["s"] > 1
Exclusive == flags["l"] + flags["longs"] + flags["s"] > 1

Conflict == pc = "check" /\ Exclusive /\ Exit("usage") /\ UNCHANGED effects

CheckEnd ==
  /\ pc = "check" /\ ~Exclusive
  /\ Goto(IF flags["l"] = 0 THEN "signal" ELSE IF lopt = <<>> THEN "dump" ELSE "name")
  /\ UNCHANGED <<given, opts, effects, ret>>
-----------------------------------------------------------------------------
(***************************************************************************)
(* -l.                                                                     *)
(***************************************************************************)
Lists(signals) == listed' = listed \o signals /\ UNCHANGED <<given, opts, sent, ret>>

\* write_sig: the argument is the number of a signal; otherwise a message,
\* and ret is kept.
WriteSig ==
  /\ pc = "name"
  /\ LET x == lopt[1] IN
       Lists(IF x.kind = "number" /\ Known(x.n) THEN <<x.n>> ELSE <<>>)
  /\ Goto("signal")

Batch == IovSize \div 2

\* The first and the last of a batch that begins behind k names.
BatchFrom_Again(k) == IF k = 0 THEN 1 ELSE k
BatchFrom(k) == k + 1
BatchEnd(k) == IF k + Batch > Len(Sigs) THEN Len(Sigs) ELSE k + Batch

\* dump_sigs: as many names as iov holds with their newlines.
DumpSigs ==
  /\ pc = "dump" /\ Len(listed) < Len(Sigs)
  /\ Lists(SubSeq(Sigs, BatchFrom(Len(listed)), BatchEnd(Len(listed))))
  /\ UNCHANGED <<pc, status>>

DumpEnd ==
  /\ pc = "dump" /\ Len(listed) >= Len(Sigs)
  /\ Goto("signal") /\ UNCHANGED <<given, opts, effects, ret>>

WriteFails == pc \in {"dump", "name"} /\ Exit("error") /\ UNCHANGED effects
-----------------------------------------------------------------------------
(***************************************************************************)
(* The process IDs.                                                        *)
(***************************************************************************)

\* strtol(): what is no number is 0.
Pid == IF Arg.kind = "number" THEN Arg.n
       ELSE IF Arg.kind = "-number" THEN -Arg.n ELSE 0

NextPid == optind' = optind + 1 /\ UNCHANGED <<given, sigsend, lopt, flags, listed, pc, status>>

BadPid == pc = "signal" /\ More /\ Pid = -1 /\ ret' = 1 /\ NextPid /\ UNCHANGED sent

\* kill(), which returns r = 0, or fails (r = 1).
Send(r) ==
  /\ pc = "signal" /\ More /\ Pid # -1
  /\ sent' = Append(sent, <<Pid, sigsend>>)
  /\ ret' = IF r = 1 THEN 1 ELSE ret
  /\ NextPid

\* Process 0 is the group of kill itself.
SendToSelf ==
  /\ pc = "signal" /\ More /\ Pid = 0 /\ sigsend # 0
  /\ sent' = Append(sent, <<0, sigsend>>)
  /\ Exit("killed") /\ UNCHANGED listed

Finish ==
  /\ pc = "signal" /\ ~More
  /\ Exit(IF ret = 0 THEN "zero" ELSE "one") /\ UNCHANGED effects

Next ==
  \/ OptionS \/ OptionSFails \/ OptionL \/ MissingOptarg \/ MissingSignal \/ Usage
  \/ OptionsEnd \/ LongOption \/ NoLongOption \/ Conflict \/ CheckEnd
  \/ WriteSig \/ DumpSigs \/ DumpEnd \/ WriteFails
  \/ BadPid \/ \E r \in {0, 1} : Send(r)
  \/ SendToSelf \/ Finish

Spec == Init /\ [][Next]_vars
-----------------------------------------------------------------------------
(***************************************************************************)
(* What is true of it.                                                     *)
(***************************************************************************)
Numbers(s) == \A j \in 1..Len(s) : s[j].kind = "number"

From(k) == SubSeq(args, k, Len(args))

IsDash(k) == Len(args) >= k /\ args[k].kind \in {"-name", "-number"} /\ Known(args[k].n)

\* Commands whose meaning the usage message leaves no doubt about: where the
\* process IDs begin, and the signal; 0 for the others.
PidsFrom ==
  IF Len(args) >= 2 /\ args[1].kind = "-s" /\ args[2].kind = "name" /\ Numbers(From(3))
  THEN 3
  ELSE IF IsDash(1) /\ Numbers(From(2)) THEN 2
  ELSE IF IsDash(2) /\ args[1].kind = "--" /\ Numbers(From(3)) THEN 3
  ELSE IF Numbers(args) THEN 1 ELSE 0

AskedSignal == IF PidsFrom = 1 THEN TERM ELSE args[PidsFrom - 1].n

\* Processes get the signal that was asked for, whichever of its three forms
\* was used, and no other; each process of the command gets it once, in order,
\* also when an earlier one could not be signalled (kill.c:146-175).
SignalsAsAsked ==
  prog = "kill" /\ PidsFrom # 0 =>
    /\ \A j \in 1..Len(sent) :
         /\ PidsFrom + j - 1 <= Len(args)
         /\ sent[j] = <<args[PidsFrom + j - 1].n, AskedSignal>>
    /\ status \in {"zero", "one"} => Len(sent) = Len(args) - PidsFrom + 1

\* Two of -l, -s and -signal on one command line have no effect at all: neither
\* is a process signalled nor a name listed (kill.c:152).
ConflictSendsNothing ==
  prog = "kill" /\ (\E f, g \in DOMAIN flags : f # g /\ flags[f] = 1 /\ flags[g] = 1) =>
    sent = <<>> /\ listed = <<>>

\* -l alone lists every signal once, in the table's order, however the table's
\* length and that of iov go together (kill.c:79-88).
ListsAll ==
  prog = "kill" /\ args = <<[kind |-> "-l", n |-> 0]>> /\ status = "zero" => listed = Sigs

\* kill.c:10: the signal may be given as -signal_name or -signal_number, before
\* one or more process IDs.
DashSignalAccepted ==
  prog = "kill" /\ IsDash(1) /\ Len(args) >= 2 /\ Numbers(From(2)) => status # "usage"
=============================================================================
