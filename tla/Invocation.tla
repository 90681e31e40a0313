----------------------------- MODULE Invocation -----------------------------
(***************************************************************************)
(* What a utility that starts another one (env, nice, nohup, time) owes    *)
(* its caller: either it fails before the other is started, or its exit    *)
(* status tells what became of the other.                                  *)
(***************************************************************************)
CONSTANTS
  Result     \* how a started utility ends, as its caller is to see it

VARIABLES
  util,      \* "missing", "noexec", or the Result of the utility
  phase,     \* "setup", "running", "done"
  status     \* "none" before the end; "error", "hangup", "crash", "126",
             \* "127" or a Result

vars == <<util, phase, status>>

Util == {"missing", "noexec"} \union Result

Init == util \in Util /\ phase = "setup" /\ status = "none"

End(s) == phase' = "done" /\ status' = s /\ UNCHANGED util

\* Something failed, before the utility was started or after it ended.
GiveUp == phase # "done" /\ End("error")

\* A signal; a hangup does not reach a utility that was started.
Interrupted == phase = "setup" /\ (End("hangup") \/ End("crash"))

NotFound == phase = "setup" /\ util = "missing" /\ End("127")

NotExecutable == phase = "setup" /\ util = "noexec" /\ End("126")

Start ==
  /\ phase = "setup" /\ util \in Result
  /\ phase' = "running"
  /\ UNCHANGED <<util, status>>

Ended == phase = "running" /\ End(util)

Next == GiveUp \/ Interrupted \/ NotFound \/ NotExecutable \/ Start \/ Ended

Spec == Init /\ [][Next]_vars
=============================================================================
