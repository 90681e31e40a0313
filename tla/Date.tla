-------------------------------- MODULE Date --------------------------------
(***************************************************************************)
(* date.c: write the time, or set the clock.  usage() returns: after an    *)
(* unknown option and with too many operands date goes on, with the first. *)
(* sleep.c: suspend execution, as long as sleep() returns early.           *)
(***************************************************************************)
EXTENDS Integers, Sequences, SequencesExt

CONSTANTS
  Pair,        \* the values of two digits an operand may have
  Bad,         \* two characters that are not two digits
  ThisYear,    \* the current tm_year
  Seconds,     \* what strtoul() may return for sleep's operand
  UMod         \* 2^32: strtoul's result is cut to an unsigned

DateAssumption ==
  /\ Pair \subseteq 0..99 /\ Bad \notin Pair /\ ThisYear \in Nat
  /\ Seconds \subseteq Nat /\ UMod \in Nat \ {0}

VARIABLES
  prog,
  given,
  mem,        \* date: what the clock was set to; sleep: seconds, and those slept
  out, pc, status

vars == <<prog, given, mem, out, pc, status>>

\* mmddHHMM with one month, day, hour and minute, then a year; or too short, too
\* long, no digits.
Dates ==
  {<<1, 1, 1, 1>> \o y : y \in {<<>>} \union {<<p>> : p \in Pair \union {Bad}}
                              \union (Pair \X (Pair \union {Bad}))}
    \union {<<1, 1, 1>>, <<1, 1, 1, 1, 20, 20, 1>>, <<1, Bad, 1, 1>>}

Init ==
  /\ \/ /\ prog = "date" /\ mem = <<>>
        /\ given \in [wrong : BOOLEAN,
                      operand : {<<>>, << <<"+">> >>} \union {<<d>> : d \in Dates}]
     \/ prog = "sleep" /\ given \in Seconds /\ mem = [left |-> given % UMod, slept |-> 0]
  /\ out = <<>> /\ pc = "start" /\ status = "running"

Exit(s) == pc' = "exited" /\ status' = s /\ UNCHANGED <<prog, given, mem, out>>

\* time(), putenv() and localtime().
DateFails == prog = "date" /\ pc = "start" /\ Exit("error")

\* usage(), which returns.
DateUsage ==
  /\ prog = "date" /\ pc = "start" /\ given.wrong
  /\ out' = <<"usage">> /\ pc' = "run" /\ UNCHANGED <<prog, given, mem, status>>

Running == prog = "date" /\ pc = IF given.wrong THEN "run" ELSE "start"
Sets == given.operand \notin {<<>>, << <<"+">> >>}
Operand == given.operand[1]

WriteTime ==
  /\ Running /\ ~Sets
  /\ out' = Append(out, "time") /\ pc' = "exited"
  /\ status' \in {"zero", "error"}
  /\ UNCHANGED <<prog, given, mem>>
-----------------------------------------------------------------------------
(***************************************************************************)
(* setdate().                                                              *)
(***************************************************************************)
WellFormed(f) == Len(f) \in {4, 5, 6} /\ Bad \notin Range(f)

\* tm_year, years since 1900.
ShortYear_Pivot(yy) == IF yy <= 69 THEN yy + 100 ELSE yy
ShortYear(yy) == IF yy < 69 THEN yy + 100 ELSE yy

Year(f) ==
  CASE Len(f) = 4 -> ThisYear
    [] Len(f) = 5 -> ShortYear(f[5])
    [] Len(f) = 6 -> (f[5] - 19) * 100 + f[6]

InvalidDate == Running /\ Sets /\ ~WellFormed(Operand) /\ Exit("error")

SetDate ==
  /\ Running /\ Sets /\ WellFormed(Operand)
  /\ mem' = << [mon |-> Operand[1] - 1, mday |-> Operand[2], hour |-> Operand[3],
                min |-> Operand[4], year |-> Year(Operand)] >>
  /\ pc' = "exited" /\ status' = "zero" /\ UNCHANGED <<prog, given, out>>

\* mktime() returns -1, or clock_settime() fails.
SetDateFails == Running /\ Sets /\ WellFormed(Operand) /\ Exit("error")
-----------------------------------------------------------------------------
(***************************************************************************)
(* sleep.                                                                  *)
(***************************************************************************)
SleepUsage == prog = "sleep" /\ pc = "start" /\ Exit("usage")

Awake == prog = "sleep" /\ pc \in {"start", "awake"}

\* sleep(), external, returns the seconds it did not sleep.
Sleep ==
  /\ Awake /\ mem.left > 0
  /\ \E r \in 0..mem.left :
       mem' = [left |-> r, slept |-> mem.slept + mem.left - r]
  /\ pc' = "awake" /\ UNCHANGED <<prog, given, out, status>>

SleepEnd == Awake /\ mem.left = 0 /\ Exit("zero")

Next ==
  \/ DateFails \/ DateUsage \/ WriteTime \/ InvalidDate \/ SetDate \/ SetDateFails
  \/ SleepUsage \/ Sleep \/ SleepEnd

Spec == Init /\ [][Next]_vars
-----------------------------------------------------------------------------
\* The year a date names: [69,99] in the 1900s, [0,68] in the 2000s.
NamedYear(f) ==
  LET y == SubSeq(f, 5, Len(f)) IN
  CASE Len(y) = 0 -> 1900 + ThisYear
    [] Len(y) = 2 -> 100 * y[1] + y[2]
    [] Len(y) = 1 -> IF y[1] \in 69..99 THEN 1900 + y[1] ELSE 2000 + y[1]

\* The clock is set if and only if date exits with zero for an operand that is a
\* date, to the year its pairs name (date.c:44-58); a wrong use that lets date go
\* on changes nothing else.
DateIsAsked ==
  prog = "date" =>
    /\ mem # <<>> <=> status = "zero" /\ Sets
    /\ mem # <<>> => 1900 + mem[1].year = NamedYear(Operand)

\* A sleep that ends has slept as long as was asked in all, however often it
\* was woken; only what an unsigned cannot hold is lost (sleep.c:32-34).
SleepsWhole == prog = "sleep" /\ status = "zero" => mem.slept = given % UMod
=============================================================================
