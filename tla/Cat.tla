-------------------------------- MODULE Cat --------------------------------
(***************************************************************************)
(* cat.c: copy each operand to standard output, through a buffer that is   *)
(* written when it is full and at the end, or with -u at once.  The two    *)
(* functions that copy a descriptor are in lib/io.c, external.  Symbols    *)
(* << k, p >> are those of Head, the byte of operand k at position p.      *)
(***************************************************************************)
EXTENDS Integers, Sequences

CONSTANTS Content, Dash, MaxArgs, BufSize    \* as in Head

VARIABLES
  args, stdin,
  uflag,      \* rdwrptr is rdfd_wrout
  cur, fd, offset,
  pend,       \* what is in the buffer of rdfd_wrout_buf
  ret, out,
  start,      \* per operand, the offset it was first read at, -1 before
  cut,        \* the operands a failure has cost bytes of
  pc, status

given == <<args, stdin, uflag>>
place == <<cur, fd, start>>
vars == <<given, place, offset, pend, ret, out, cut, pc, status>>

Init ==
  /\ args \in UNION {[1..a -> Content \union {Dash}] : a \in 0..MaxArgs}
  /\ stdin \in Content /\ uflag \in BOOLEAN
  /\ cur = 1 /\ fd = 0 /\ offset = [f \in {0, 3} |-> 0]
  /\ pend = <<>> /\ ret = 0 /\ out = <<>>
  /\ start = [k \in 1..(MaxArgs+1) |-> -1] /\ cut = {}
  /\ pc = "options" /\ status = "running"

IsNamed(k) == k <= Len(args) /\ args[k] # Dash
StreamOf(k) == IF IsNamed(k) THEN args[k] ELSE stdin
Left == Len(StreamOf(cur)) - offset[fd]

\* usage(), or the last of the buffer cannot be written: rdwrout_flush() has
\* no result, so it ends the program itself.
ErrorExit ==
  /\ pc = "options" \/ (pc = "flush" /\ pend # <<>>)
  /\ pc' = "exited" /\ status' = "error"
  /\ UNCHANGED <<given, place, offset, pend, ret, out, cut>>

Options ==
  /\ pc = "options"
  /\ pc' = "open"
  /\ UNCHANGED <<given, place, offset, pend, ret, out, cut, status>>

Open ==
  /\ pc = "open"
  /\ fd' = IF IsNamed(cur) THEN 3 ELSE 0
  /\ offset' = IF IsNamed(cur) THEN [offset EXCEPT ![3] = 0] ELSE offset
  /\ start' = [start EXCEPT ![cur] = offset'[fd']]
  /\ pc' = "copy"
  /\ UNCHANGED <<given, cur, pend, ret, out, cut, status>>

OpenFails ==
  /\ pc = "open" /\ IsNamed(cur)
  /\ ret' = 1 /\ pc' = "next"
  /\ UNCHANGED <<given, place, offset, pend, out, cut, status>>

\* One read of rdfd_wrout() or rdfd_wrout_buf().
Copy(m) ==
  /\ pc = "copy" /\ m \in 1..BufSize /\ m <= Left
  /\ LET behind == pend \o [j \in 1..m |-> <<cur, offset[fd] + j>>] IN
       IF uflag \/ Len(behind) >= BufSize
       THEN out' = out \o behind /\ pend' = <<>>
       ELSE pend' = behind /\ UNCHANGED out
  /\ offset' = [offset EXCEPT ![fd] = @ + m]
  /\ UNCHANGED <<given, place, ret, cut, pc, status>>

CopyEnd ==
  /\ pc = "copy" /\ Left = 0
  /\ pc' = "next"
  /\ UNCHANGED <<given, place, offset, pend, ret, out, cut, status>>

\* They return -1: reading fails, or writing, and what was in the buffer is
\* lost.  Standard input then counts as the named operands do.
Failure_OfNamed == IF fd = 0 THEN ret ELSE 1
Failure == 1

CopyFails ==
  /\ pc = "copy"
  /\ ret' = Failure
  /\ pend' \in {pend, <<>>}
  /\ cut' = cut \union {cur} \union
       (IF pend' = pend THEN {} ELSE {pend[j][1] : j \in 1..Len(pend)})
  /\ pc' = "next"
  /\ UNCHANGED <<given, place, offset, out, status>>

NextOperand ==
  /\ pc = "next"
  /\ IF cur < Len(args) THEN cur' = cur + 1 /\ pc' = "open"
                        ELSE pc' = "flush" /\ UNCHANGED cur
  /\ UNCHANGED <<given, fd, start, offset, pend, ret, out, cut, status>>

\* The buffer is written once, behind the last operand.
Flush ==
  /\ pc = "flush"
  /\ out' = out \o pend /\ pend' = <<>>
  /\ pc' = "exited" /\ status' = IF ret = 0 THEN "zero" ELSE "one"
  /\ UNCHANGED <<given, place, offset, ret, cut>>

Next ==
  \/ ErrorExit \/ Options \/ Open \/ OpenFails
  \/ \E m \in 1..BufSize : Copy(m)
  \/ CopyEnd \/ CopyFails \/ NextOperand \/ Flush

Spec == Init /\ [][Next]_vars
-----------------------------------------------------------------------------
\* What operand k contributes: its bytes after the offset it was opened at.
Bytes(k) ==
  IF start[k] = -1 THEN {}
  ELSE {<<k, p>> : p \in (start[k]+1)..Len(StreamOf(k))}

Of(k) == {x \in {out[j] : j \in 1..Len(out)} : x[1] = k}

\* Every operand that could be opened and read is copied whole, once and in
\* its place, also standard input named twice, whatever became of the others
\* and wherever buffers were filled and cut; a status of zero says that there
\* was nothing else (cat.c:33-54).
CatCopies ==
  status \in {"zero", "one"} =>
    /\ \A k \in 1..(MaxArgs+1) \ cut : Of(k) = Bytes(k)
    /\ \A i, j \in 1..Len(out) : i < j =>
         \/ out[i][1] < out[j][1]
         \/ out[i][1] = out[j][1] /\ out[i][2] < out[j][2]
    /\ status = "zero" =>
         cut = {} /\ \A k \in 1..Len(args) : start[k] # -1
=============================================================================
