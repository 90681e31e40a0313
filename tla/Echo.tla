-------------------------------- MODULE Echo --------------------------------
(***************************************************************************)
(* echo.c: write the operands with their escapes replaced.  They are one   *)
(* sequence of tokens:                                                     *)
(*   "sep" one operand ends and another begins                             *)
(*   "x"   text without a backslash    "n"  \n and the other letters       *)
(*   "c"   \c                          "q"  \ and another character        *)
(*   "end" a backslash at an operand's end                                 *)
(*   "0"   \0 and octal digits         "00" the same, its value zero       *)
(***************************************************************************)
EXTENDS Naturals, Sequences, SequencesExt

CONSTANT MaxTokens

EchoAssumption == MaxTokens \in Nat

Token == {"sep", "x", "n", "c", "q", "end", "0", "00"}

VARIABLES
  prog,
  given,      \* the tokens
  mem,        \* the number done and slashchar()'s static oth[], before its last Nul
  out, pc, status

vars == <<prog, given, mem, out, pc, status>>

Init ==
  /\ prog = "echo"
  /\ given \in {s \in UNION {[1..n -> Token] : n \in 0..MaxTokens} :
                 \A k \in 1..(Len(s) - 1) : s[k] = "end" => s[k+1] = "sep"}
  /\ mem = [done |-> 0, oth |-> <<"\\", "Nul">>]
  /\ out = <<>> /\ pc = "run" /\ status = "running"

More == pc = "run" /\ mem.done < Len(given)
Next1 == given[mem.done + 1]

\* oth[] as it is written: to its first Nul.
Str(oth) == IF oth[1] = "Nul" THEN <<>>
            ELSE IF oth[2] = "Nul" THEN <<oth[1]>> ELSE oth

Puts(items, oth) ==
  /\ out' = out \o items
  /\ mem' = [done |-> mem.done + 1, oth |-> oth]
  /\ UNCHANGED <<prog, given, pc, status>>

Exit(s) == pc' = "exited" /\ status' = s /\ UNCHANGED <<prog, given, mem>>

\* main() goes on to the next operand and writes nothing in between.
Separator == More /\ Next1 = "sep" /\ Puts(<<>>, mem.oth)

Text == More /\ Next1 = "x" /\ Puts(<<"x">>, mem.oth)

Letter == More /\ Next1 = "n" /\ Puts(<<"\n">>, mem.oth)

\* octstr_to_bin(), external, stores a byte at oth, or also a Nul behind it. A
\* byte that is zero ends the C string that is written.
Octal ==
  /\ More /\ Next1 \in {"0", "00"}
  /\ LET byte == IF Next1 = "0" THEN "byte" ELSE "Nul" IN
     \E second \in {"Nul", mem.oth[2]} : Puts(Str(<<byte, second>>), <<byte, second>>)

OtherChar_Dropped(t) == "Nul"
OtherChar(t) == IF t = "q" THEN "q" ELSE "Nul"

Other ==
  /\ More /\ Next1 \in {"q", "end"}
  /\ LET oth == <<mem.oth[1], OtherChar(Next1)>> IN Puts(Str(oth), oth)

Stop == More /\ Next1 = "c" /\ Exit("zero") /\ UNCHANGED out

\* At any backslash *tmp is written through an uninitialized pointer.
Undefined == More /\ Next1 \notin {"sep", "x"} /\ Exit("killed") /\ UNCHANGED out

Newline ==
  /\ pc = "run" /\ mem.done = Len(given)
  /\ out' = Append(out, "\n") /\ Exit("zero")

WriteFails == pc = "run" /\ Exit("error") /\ UNCHANGED out

Next ==
  \/ Separator \/ Text \/ Letter \/ Octal \/ Other \/ Stop \/ Undefined \/ Newline
  \/ WriteFails

Spec == Init /\ [][Next]_vars
-----------------------------------------------------------------------------
Spelt(t, blank) ==
  CASE t = "sep" -> blank [] t = "x" -> <<"x">> [] t = "n" -> <<"\n">>
    [] t = "q" -> <<"\\", "q">> [] t = "end" -> <<"\\">> [] t = "0" -> <<"byte">>

\* The first k tokens hold no \c, no octal zero, and not both an octal and an
\* unknown escape, which get into each other's way in oth[].
Sure(k) ==
  LET seen == {given[j] : j \in 1..k} IN
    /\ {"c", "00"} \intersect seen = {}
    /\ "0" \in seen => {"q", "end"} \intersect seen = {}

\* What echo writes begins with what its operands spell, across operands, up to
\* where an octal zero comes, or an octal escape meets an unknown one; a newline
\* ends it if they never do, and \c drops the newline and all that follows.
\* Whether a blank is written between operands is left open
\* (echo.c:10, 17, 26, 32, 48-59, 69-72).
EchoSpells ==
  prog = "echo" /\ status = "zero" =>
    \E blank \in {<<>>, <<" ">>} : \A k \in 0..Len(given) :
      LET spelt == FlattenSeq([j \in 1..k |-> Spelt(given[j], blank)]) IN
      Sure(k) =>
        /\ IsPrefix(spelt, out)
        /\ k = Len(given) => out = Append(spelt, "\n")
        /\ k < Len(given) /\ given[k+1] = "c" => out = spelt
=============================================================================
