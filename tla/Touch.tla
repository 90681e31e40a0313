------------------------------- MODULE Touch -------------------------------
(***************************************************************************)
(* touch.c: set the times of files and create those that do not exist,     *)
(* while another process creates and removes files of the same names.      *)
(*                                                                         *)
(* A file is an inode that a name leads to; a descriptor keeps leading to  *)
(* it when the name is gone.                                               *)
(***************************************************************************)
EXTENDS Integers, Sequences, FiniteSets

CONSTANTS
  Name,         \* names of files
  MaxArgs,      \* most operands given
  MaxOptions,   \* most options given
  MaxInode,     \* inodes the file system has
  MaxOther,     \* steps the other process takes
  NsecPerSec,   \* 10^9: utimensat() refuses nanoseconds from here up
  Now,          \* the clock
  Readings,     \* what the date and time in the operand of -d or -t may mean
  Year1900,     \* a time of this year read as one of 1900
  RefTimes      \* the possible << access, modification >> times of ref_file

ASSUME TouchAssumption ==
  /\ MaxArgs \in Nat \ {0} /\ MaxOptions \in Nat /\ MaxOther \in Nat
  /\ MaxInode \in Nat \ {0}
  /\ NsecPerSec \in Nat \ {0}
  /\ Now \in Nat \ {0} /\ Year1900 \in Int /\ Year1900 < 0
  \* in the zone of TZ, in the standard time of that zone, in the zone of a
  \* process without TZ, and as UTC
  /\ Readings \subseteq [{"local", "standard", "system", "utc"} -> Nat \ {0}]
  /\ RefTimes \subseteq Nat \X Nat

\* "t" -t CCYYMMDDhhmm, "t8" -t MMDDhhmm, "t8s" -t MMDDhhmm.SS; "d" -d with
\* whole seconds, "dz" with a Z behind them, "df" with a fraction.
Option == {"a", "c", "m", "r", "t", "t8", "t8s", "d", "dz", "df"}

Inode == 1..MaxInode
None == 0
OMIT == -1        \* UTIME_OMIT, in the nanoseconds of a time

VARIABLES
  options,    \* the options given
  args,       \* the operands
  ref,        \* the times of ref_file
  reading,    \* what the date and time given mean
  tz,         \* TZ is in the environment
  o, a,       \* the options and operands dealt with
  flags,      \* the set of flags[] that are 1
  times,      \* << times[0], times[1] >>, each a record of sec and nsec
  dir,        \* the inode a name leads to, None without a file
  inode,      \* per inode, its content and times; "free" before it is used
  fd,         \* the inode of the descriptor creat() returned
  other,      \* steps the other process has taken
  raced,      \* the other process created a file touch had found missing
  ret, pc, status

vars == <<options, args, ref, reading, tz, o, a, flags, times, dir, inode, fd,
          other, raced, ret, pc, status>>

given == <<options, args, ref, reading>>
files == <<dir, inode>>
told == <<given, tz, o, flags, times>>

Time(s, n) == [sec |-> s, nsec |-> n]
File(d, at, mt) == [data |-> d, atime |-> at, mtime |-> mt]
Free == File("free", 0, 0)

Init ==
  /\ options \in UNION {[1..n -> Option] : n \in 0..MaxOptions}
  /\ args \in UNION {[1..n -> Name] : n \in 1..MaxArgs}
  /\ ref \in RefTimes /\ reading \in Readings /\ tz = TRUE
  /\ o = 0 /\ a = 1 /\ flags = {} /\ times = <<Time(0, 0), Time(0, 0)>>
  /\ \E old \in SUBSET Name :
       /\ Cardinality(old) <= 1
       /\ dir = [n \in Name |-> IF n \in old THEN 1 ELSE None]
       /\ inode = [j \in Inode |->
                     IF j = 1 /\ old # {} THEN File("text", 1, 1) ELSE Free]
  /\ fd = None /\ other = 0 /\ raced = FALSE
  /\ ret = 0 /\ pc = "options" /\ status = "running"

Exit(s) == pc' = "exited" /\ status' = s
-----------------------------------------------------------------------------
(***************************************************************************)
(* The options.                                                            *)
(***************************************************************************)
FlagOf(opt) == IF opt \in {"t", "t8", "t8s"} THEN "t"
               ELSE IF opt \in {"d", "dz", "df"} THEN "d" ELSE opt

\* parsetime() knows MMDDhhmm.SS by a length of 9 and so rejects it.
Rejected(opt) == opt = "t8s"

\* -r puts the seconds of ref_file where nanoseconds belong, and any fraction
\* of a second -d is given is multiplied by 10^9. mktime() reads -t in standard
\* time, parsetime() having left tm_isdst zero, and -d in the zone there is:
\* the Z that says UTC keeps TZ, its absence unsets it.
TimesAfter(opt) ==
  CASE opt = "r"  -> <<[times[1] EXCEPT !.nsec = ref[1]],
                       [times[2] EXCEPT !.nsec = ref[2]]>>
    [] opt = "t"  -> <<[times[1] EXCEPT !.sec = reading["standard"]], times[2]>>
    [] opt = "t8" -> <<[times[1] EXCEPT !.sec = Year1900], times[2]>>
    [] opt = "d"  -> <<Time(reading["system"], 0), times[2]>>
    [] opt = "dz" -> <<Time(reading[IF tz THEN "local" ELSE "system"], 0), times[2]>>
    [] opt = "df" -> <<Time(reading["system"], NsecPerSec), times[2]>>
    [] OTHER      -> times

NextOption ==
  /\ pc = "options" /\ o < Len(options)
  /\ LET opt == options[o+1] IN
       /\ ~Rejected(opt)
       /\ flags' = flags \union {FlagOf(opt)}
       /\ times' = TimesAfter(opt)
       /\ tz' = (tz /\ opt \notin {"d", "df"})
  /\ o' = o + 1
  /\ UNCHANGED <<given, a, files, fd, other, raced, ret, pc, status>>

\* stat() of ref_file fails, or a bad time: of a fraction %e, the day of the
\* month, takes no more than two digits up to 31.
OptionFails ==
  /\ pc = "options" /\ o < Len(options)
  /\ options[o+1] \in {"r", "df"} \/ Rejected(options[o+1])
  /\ Exit("error")
  /\ UNCHANGED <<told, a, files, fd, other, raced, ret>>

ExclusiveFlags == Cardinality({"d", "r", "t"} \intersect flags) > 1

Usage ==
  /\ pc = "options" /\ o = Len(options) /\ ExclusiveFlags
  /\ Exit("error")
  /\ UNCHANGED <<told, a, files, fd, other, raced, ret>>

\* times[1] is a copy of times[0], but with -r.
Copied_Not == times[2]
Copied == IF "r" \in flags THEN times[2] ELSE times[1]

Omit_Never(t) == t
Omit(t) == [t EXCEPT !.nsec = OMIT]

\* Without -a and -m, both; the time not asked for is omitted.
SetTimes ==
  /\ pc = "options" /\ o = Len(options) /\ ~ExclusiveFlags
  /\ flags' = IF {"a", "m"} \intersect flags = {} THEN flags \union {"a", "m"}
              ELSE flags
  /\ times' = <<IF "a" \in flags' THEN times[1] ELSE Omit(times[1]),
                IF "m" \in flags' THEN Copied ELSE Omit(Copied)>>
  /\ pc' = "utimensat"
  /\ UNCHANGED <<given, tz, o, a, files, fd, other, raced, ret, status>>
-----------------------------------------------------------------------------
(***************************************************************************)
(* touch(): one system call per step.                                      *)
(***************************************************************************)
ValidTimes == \A k \in {1, 2} : times[k].nsec < NsecPerSec

\* What utimensat() and futimens() make of a file, external.
Stamped(f) ==
  [f EXCEPT !.atime = IF times[1].nsec = OMIT THEN @ ELSE times[1].sec,
            !.mtime = IF times[2].nsec = OMIT THEN @ ELSE times[2].sec]

\* touch() returns r and main() goes on to the next operand.
Done(r) ==
  /\ ret' = IF r = 1 THEN 1 ELSE ret
  /\ IF a < Len(args)
     THEN a' = a + 1 /\ pc' = "utimensat" /\ UNCHANGED status
     ELSE Exit(IF ret' = 0 THEN "zero" ELSE "one") /\ UNCHANGED a

Utimensat ==
  /\ pc = "utimensat" /\ dir[args[a]] # None /\ ValidTimes
  /\ inode' = [inode EXCEPT ![dir[args[a]]] = Stamped(@)]
  /\ Done(0)
  /\ UNCHANGED <<told, dir, fd, other, raced>>

UtimensatFails_Creates ==
  /\ pc = "utimensat"
  /\ pc' = "creat"
  /\ UNCHANGED <<told, a, files, fd, other, raced, ret, status>>

\* Times the system refuses, or another error than ENOENT.
UtimensatFails ==
  /\ pc = "utimensat"
  /\ Done(1)
  /\ UNCHANGED <<told, files, fd, other, raced>>

Missing ==
  /\ pc = "utimensat" /\ dir[args[a]] = None /\ ValidTimes
  /\ IF "c" \in flags THEN Done(0) ELSE pc' = "creat" /\ UNCHANGED <<a, ret, status>>
  /\ raced' = FALSE
  /\ UNCHANGED <<told, files, fd, other>>

Unused == CHOOSE j \in Inode : inode[j] = Free
HasUnused == \E j \in Inode : inode[j] = Free

\* creat() empties a file that is there by now.
Creat ==
  /\ pc = "creat"
  /\ IF dir[args[a]] # None
     THEN /\ inode' = [inode EXCEPT ![dir[args[a]]] = File("empty", @.atime, Now)]
          /\ fd' = dir[args[a]] /\ UNCHANGED dir
     ELSE /\ HasUnused
          /\ inode' = [inode EXCEPT ![Unused] = File("empty", Now, Now)]
          /\ dir' = [dir EXCEPT ![args[a]] = Unused]
          /\ fd' = Unused
  /\ pc' = "futimens"
  /\ UNCHANGED <<told, a, other, raced, ret, status>>

CreatFails ==
  /\ pc = "creat"
  /\ Done(1)
  /\ UNCHANGED <<told, files, fd, other, raced>>

Futimens ==
  /\ pc = "futimens"
  /\ inode' = [inode EXCEPT ![fd] = Stamped(@)]
  /\ fd' = None
  /\ Done(0)
  /\ UNCHANGED <<told, dir, other, raced>>

\* The file stays, with the times creat() gave it.
FutimensFails ==
  /\ pc = "futimens"
  /\ fd' = None
  /\ Done(1)
  /\ UNCHANGED <<told, files, other, raced>>
-----------------------------------------------------------------------------
(***************************************************************************)
(* The other process, external.                                            *)
(***************************************************************************)
OtherCreates(n) ==
  /\ other < MaxOther /\ dir[n] = None /\ HasUnused
  /\ inode' = [inode EXCEPT ![Unused] = File("text", Now, Now)]
  /\ dir' = [dir EXCEPT ![n] = Unused]
  /\ raced' = (raced \/ (pc = "creat" /\ args[a] = n))
  /\ other' = other + 1
  /\ UNCHANGED <<told, a, fd, ret, pc, status>>

OtherRemoves(n) ==
  /\ other < MaxOther /\ dir[n] # None
  /\ dir' = [dir EXCEPT ![n] = None]
  /\ other' = other + 1
  /\ UNCHANGED <<told, a, inode, fd, raced, ret, pc, status>>

OwnStep ==
  \/ NextOption \/ OptionFails \/ Usage \/ SetTimes
  \/ Utimensat \/ UtimensatFails \/ Missing
  \/ Creat \/ CreatFails \/ Futimens \/ FutimensFails

OtherStep == \E n \in Name : OtherCreates(n) \/ OtherRemoves(n)

Next == (OwnStep /\ status = "running") \/ (OtherStep /\ status = "running")

Spec == Init /\ [][Next]_vars
-----------------------------------------------------------------------------
(***************************************************************************)
(* What is true of it.                                                     *)
(***************************************************************************)
Has(opt) == \E j \in 1..Len(options) : options[j] = opt

\* The last option that says a time, if any does; -d stands for local time and
\* for UTC with a Z behind it, -t for local time.
Saying == {j \in 1..Len(options) : FlagOf(options[j]) \in {"d", "t"}}
LastSaid == options[CHOOSE j \in Saying : \A k \in Saying : k <= j]

Wanted(opt) == reading[IF opt = "dz" THEN "utc" ELSE "local"]

\* Where touch reads the operand in a zone that makes no difference. MMDDhhmm,
\* read as a time of 1900, and fractions are none of these.
ZoneIsNoMatter(opt) ==
  CASE opt = "t"  -> reading["standard"] = reading["local"]
    [] opt = "d"  -> reading["system"] = reading["local"]
    [] opt = "dz" -> {reading["local"], reading["system"]} = {reading["utc"]}
    [] OTHER      -> FALSE

Understood == Saying # {} /\ ZoneIsNoMatter(LastSaid)

\* When touch exits with 0 and nobody interfered, every operand is there or
\* -c was given; and if the last -d or -t gave a year and the zone makes no
\* difference, each operand that is there has that time, each of the two times
\* only if it was asked for (touch.c:21-46, 91, 133, 176-193).
ZeroMeansTouched ==
  status = "zero" /\ other = 0 /\ ~Has("r") =>
    \A j \in 1..Len(args) :
      LET n == args[j] IN
        IF dir[n] = None THEN Has("c")
        ELSE Understood =>
               /\ Has("a") \/ ~Has("m") => inode[dir[n]].atime = Wanted(LastSaid)
               /\ Has("m") \/ ~Has("a") => inode[dir[n]].mtime = Wanted(LastSaid)

\* touch empties a file only when the other process created it after touch
\* had found it missing (touch.c:21, 32: two calls, no O_EXCL).
EmptiesOnlyInRace ==
  [][\A j \in Inode :
       inode[j].data = "text" /\ inode'[j].data = "empty" => raced]_vars

\* -a leaves the modification time of a file that is there alone, and -m the
\* access time; with the other process at work as well, but for the race.
LeavesOtherTime ==
  [][\A j \in Inode : inode[j] # Free /\ ~raced =>
       /\ Has("a") /\ ~Has("m") => inode'[j].mtime = inode[j].mtime
       /\ Has("m") /\ ~Has("a") => inode'[j].atime = inode[j].atime]_vars

\* POSIX, which readme.txt says the tools conform to: without -d, -r and -t
\* the time is the current time.
PlainTouchIsNow ==
  status = "zero" /\ other = 0 /\ options = <<>> =>
    \A j \in 1..Len(args) : inode[dir[args[j]]].mtime = Now
=============================================================================
