-------------------------------- MODULE Stty --------------------------------
(***************************************************************************)
(* stty.c: write the settings of the terminal that is standard input.      *)
(* Setting them is not implemented: with operands nothing is done.         *)
(***************************************************************************)
EXTENDS Naturals, Sequences, SequencesExt

CONSTANTS
  Modes,      \* cmode, imode, omode and lmode of stty.h, one sequence
  Delays,     \* per field of dump_delays, its values; those not named are 0
  Controls,   \* controlc
  Speeds,     \* baud
  Speed,      \* the speeds a terminal may have
  CharVal     \* the values of a control character, in 0..255

SttyAssumption ==
  /\ Modes \in Seq(STRING) /\ Controls \in Seq(STRING) /\ Delays \in Seq(SUBSET Nat)
  /\ CharVal \subseteq 0..255
  /\ Range(Modes) \intersect {"rows", "columns", "speed", "ispeed", "ospeed"} = {}
  /\ "-" \notin Range(Controls)

VARIABLES prog, given, mem, out, pc, status

vars == <<prog, given, mem, out, pc, status>>

Settings ==
  [ispeed : Speed, ospeed : Speed, on : SUBSET Range(Modes),
   delay : [1..Len(Delays) -> 0..2], cc : [1..Len(Controls) -> CharVal]]

Init ==
  /\ prog = "stty" /\ mem = <<>>
  /\ given \in [asked : {"-a", "operands", "speed"}, t : Settings,
                size : SUBSET {"rows", "columns"}]
  /\ out = <<>> /\ pc = "start" /\ status = "running"

Exit(s) == pc' = "exited" /\ status' = s /\ UNCHANGED <<prog, given, mem>>

t == given.t

\* A speed that is not in baud[] has no name.
Name(speed) == IF speed \in Speeds THEN <<speed>> ELSE <<>>

\* What TIOCGWINSZ on standard output, or else $ROWS and $COLUMNS, give.
dump_dimen ==
  (IF "rows" \in given.size THEN << <<"rows">> >> ELSE <<>>)
  \o (IF "columns" \in given.size THEN << <<"columns">> >> ELSE <<>>)

dump_speed ==
  (IF t.ispeed = t.ospeed THEN << <<"speed">> \o Name(t.ispeed) >>
   ELSE << <<"ispeed">> \o Name(t.ispeed), <<"ospeed">> \o Name(t.ospeed) >>)
  \o dump_dimen

dump_modes ==
  [k \in 1..Len(Modes) |-> IF Modes[k] \in t.on THEN <<Modes[k]>> ELSE <<"-", Modes[k]>>]

\* Per field its delay, or nothing.
dump_delays ==
  [k \in 1..Len(Delays) |->
     IF t.delay[k] \in Delays[k] THEN <<"delay", k, t.delay[k]>> ELSE <<>>]

\* Nothing ("undef") or a byte: 255 is 63, a '?', like 127; 192 is the Nul that ends the string.
Shown_SevenBits(c) ==
  IF c = 0 THEN <<>> ELSE << IF c = 127 THEN 63 ELSE (c + 64) % 128 >>
Shown(c) ==
  IF c = 0 THEN <<>> ELSE << IF c = 127 THEN 63 ELSE (c + 64) % 256 >>

dump_controls == [k \in 1..Len(Controls) |-> <<Controls[k], "=">> \o Shown(t.cc[k])]
-----------------------------------------------------------------------------
\* -a is acted upon at once: what follows it is not looked at.
DumpSettings ==
  /\ pc = "start" /\ given.asked = "-a"
  /\ out' = dump_speed \o dump_modes \o dump_delays \o dump_controls
  /\ Exit("zero")

\* No option, or -g, and no operand.
DumpSpeed ==
  /\ pc = "start" /\ given.asked = "speed"
  /\ out' = dump_speed
  /\ Exit("zero")

Operands == pc = "start" /\ given.asked = "operands" /\ Exit("zero") /\ UNCHANGED out

\* Another option.
Usage == pc = "start" /\ given.asked # "-a" /\ Exit("usage") /\ UNCHANGED out

\* tcgetattr().
Fails == pc = "start" /\ given.asked # "operands" /\ Exit("error") /\ UNCHANGED out

Next == DumpSettings \/ DumpSpeed \/ Operands \/ Usage \/ Fails

Spec == Init /\ [][Next]_vars
-----------------------------------------------------------------------------
Tells(c) == CASE c = <<>> -> 0 [] c = <<63>> -> 127 [] OTHER -> (c[1] + 192) % 256

\* What -a writes tells the settings: each mode is there as on or as off, the
\* speeds are if baud[] has them, and each control character can be told from
\* what is written, but 255, which is written like 127 (stty.c:69-118, 233-236).
SttyTellsSettings ==
  prog = "stty" /\ status = "zero" /\ given.asked = "-a" =>
    /\ t.on = {m \in Range(Modes) : <<m>> \in Range(out)}
    /\ Range(Modes) \ t.on = {m \in Range(Modes) : <<"-", m>> \in Range(out)}
    /\ t.ispeed \in Speeds => \E w \in {"speed", "ispeed"} : <<w, t.ispeed>> \in Range(out)
    /\ t.ospeed \in Speeds => \E w \in {"speed", "ospeed"} : <<w, t.ospeed>> \in Range(out)
    /\ \A k \in 1..Len(Controls) :
         \E line \in Range(out) :
           /\ Len(line) >= 2 /\ SubSeq(line, 1, 2) = <<Controls[k], "=">>
           /\ t.cc[k] = 255 \/ Tells(SubSeq(line, 3, Len(line))) = t.cc[k]
=============================================================================
