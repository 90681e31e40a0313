---------------------------- MODULE TouchProofs ----------------------------
(***************************************************************************)
(* Proofs about touch, for every number of operands, options, inodes and   *)
(* steps of the other process: it empties a file only in the race between  *)
(* utimensat() and creat(), and leaves the time it was not asked for.      *)
(***************************************************************************)
EXTENDS Touch, TLAPS

Files == [data : {"free", "text", "empty"}, atime : Int, mtime : Int]
Times == [sec : Int, nsec : Int]

Typed ==
  /\ options \in Seq(Option) /\ args \in Seq(Name) /\ ref \in RefTimes
  /\ reading \in Readings
  /\ o \in 0..Len(options) /\ a \in 1..Len(args)
  /\ times \in Times \X Times
  /\ dir \in [Name -> Inode \union {None}] /\ inode \in [Inode -> Files]
  /\ pc \in {"options", "utimensat", "creat", "futimens", "exited"}
  /\ pc = "futimens" => fd \in Inode
  /\ status = "running" <=> pc # "exited"

\* Whoever is about to call creat() and has a file there by now was raced.
Race == pc = "creat" /\ dir[args[a]] # None => raced

\* While options are read, flags are those of the options so far; behind them,
\* the time that was not asked for is omitted.
Sorted ==
  /\ pc = "options" => flags = {FlagOf(options[k]) : k \in 1..o}
  /\ pc \in {"utimensat", "creat", "futimens"} =>
       /\ Has("a") /\ ~Has("m") => times[2].nsec = OMIT
       /\ Has("m") /\ ~Has("a") => times[1].nsec = OMIT

IInv == Typed /\ Race /\ Sorted
-----------------------------------------------------------------------------
(***************************************************************************)
(* Types.                                                                  *)
(***************************************************************************)
LEMMA Numbers ==
  /\ Inode \subseteq Nat \ {0} /\ 0 \notin Inode
  /\ Now \in Int /\ Year1900 \in Int /\ NsecPerSec \in Int
  /\ \A r \in Readings : /\ r["local"] \in Int /\ r["standard"] \in Int
                         /\ r["system"] \in Int /\ r["utc"] \in Int
  /\ \A r \in RefTimes : r[1] \in Int /\ r[2] \in Int
<1>1. \A r \in Nat \X Nat : r[1] \in Int /\ r[2] \in Int
  OBVIOUS
<1>2. \A r \in RefTimes : r[1] \in Int /\ r[2] \in Int
  BY <1>1, TouchAssumption DEF TouchAssumption
<1>3. \A r \in Readings : \A z \in {"local", "standard", "system", "utc"} : r[z] \in Int
  BY TouchAssumption DEF TouchAssumption
<1> QED BY <1>2, <1>3, TouchAssumption DEF TouchAssumption, Inode

LEMMA InitTyped == Init => Typed /\ Race /\ Sorted
<1> SUFFICES ASSUME Init PROVE Typed /\ Race /\ Sorted
  OBVIOUS
<1>1. options \in Seq(Option) /\ args \in Seq(Name) /\ Len(args) \in Nat \ {0}
  BY TouchAssumption DEF Init, TouchAssumption
<1>2. PICK old \in SUBSET Name :
        /\ dir = [n \in Name |-> IF n \in old THEN 1 ELSE None]
        /\ inode = [j \in Inode |-> IF j = 1 /\ old # {} THEN File("text", 1, 1) ELSE Free]
  BY DEF Init
<1>3. dir \in [Name -> Inode \union {None}]
  BY <1>2, TouchAssumption DEF TouchAssumption, Inode
<1>4. inode \in [Inode -> Files]
  BY <1>2 DEF Files, File, Free
<1>5. times \in Times \X Times
  BY DEF Init, Times, Time
<1>6. flags = {FlagOf(options[k]) : k \in 1..o}
  <2>1. o = 0 /\ flags = {}
    BY DEF Init
  <2>2. 1..0 = {}
    OBVIOUS
  <2> QED BY <2>1, <2>2
<1> QED BY <1>1, <1>3, <1>4, <1>5, <1>6 DEF Init, Typed, Race, Sorted

\* What utimensat() makes of a file keeps its content, and a time omitted.
LEMMA StampedFile ==
  ASSUME times \in Times \X Times, NEW f \in Files
  PROVE  /\ Stamped(f) \in Files /\ Stamped(f).data = f.data
         /\ times[1].nsec = OMIT => Stamped(f).atime = f.atime
         /\ times[2].nsec = OMIT => Stamped(f).mtime = f.mtime
BY DEF Stamped, Files, Times

LEMMA UnusedFree == HasUnused => Unused \in Inode /\ inode[Unused] = Free
BY DEF HasUnused, Unused
-----------------------------------------------------------------------------
(***************************************************************************)
(* The steps.                                                              *)
(***************************************************************************)
LEMMA OptionRead ==
  ASSUME IInv, NextOption, status = "running"
  PROVE  IInv'
<1>1. /\ pc = "options" /\ o + 1 \in 1..Len(options) /\ o' = o + 1
      /\ flags' = flags \union {FlagOf(options[o+1])} /\ times' = TimesAfter(options[o+1])
      /\ UNCHANGED <<options, args, ref, reading, a, dir, inode, fd, raced, pc, status>>
  BY DEF NextOption, IInv, Typed, given, files
<1>2. times' \in Times \X Times
  <2>1. options[o+1] \in Option /\ ref[1] \in Int /\ ref[2] \in Int
    BY <1>1, Numbers DEF IInv, Typed
  <2>2. times[1] \in Times /\ times[2] \in Times
    BY DEF IInv, Typed
  <2>3. ASSUME NEW t \in Times, NEW n \in Int
        PROVE  [t EXCEPT !.nsec = n] \in Times /\ [t EXCEPT !.sec = n] \in Times
    BY <2>3 DEF Times
  <2>4. /\ reading["local"] \in Int /\ reading["standard"] \in Int /\ reading["system"] \in Int
        /\ \A n \in Int : Time(n, 0) \in Times /\ Time(n, NsecPerSec) \in Times
    BY Numbers DEF Time, Times, IInv, Typed
  <2>5. times' = times \/ \E t \in Times, u \in Times : times' = <<t, u>>
    <3>1. CASE options[o+1] = "r"
      BY <1>1, <2>1, <2>2, <2>3, <3>1 DEF TimesAfter
    <3>2. CASE options[o+1] \in {"t", "t8"}
      BY <1>1, <2>2, <2>3, <2>4, <3>2, Numbers DEF TimesAfter
    <3>3. CASE options[o+1] \in {"d", "dz", "df"}
      BY <1>1, <2>2, <2>4, <3>3 DEF TimesAfter
    <3>4. CASE options[o+1] \notin {"r", "t", "t8", "d", "dz", "df"}
      BY <1>1, <3>4 DEF TimesAfter
    <3> QED BY <3>1, <3>2, <3>3, <3>4
  <2> QED BY <2>5 DEF IInv, Typed
<1>3. Typed'
  BY <1>1, <1>2 DEF IInv, Typed
<1>4. Race'
  BY <1>1 DEF Race
<1>5. Sorted'
  <2>1. 1..o+1 = (1..o) \union {o+1}
    BY DEF IInv, Typed
  <2>2. flags' = {FlagOf(options[k]) : k \in 1..o'}
    BY <1>1, <2>1 DEF IInv, Sorted
  <2> QED BY <1>1, <2>2 DEF Sorted
<1> QED BY <1>3, <1>4, <1>5 DEF IInv

\* Only the options given are in flags, and all of them when all are read.
LEMMA FlagsGiven ==
  ASSUME Typed, Sorted, pc = "options", o = Len(options)
  PROVE  ("a" \in flags <=> Has("a")) /\ ("m" \in flags <=> Has("m"))
<1>1. \A k \in 1..Len(options) :
        /\ FlagOf(options[k]) = "a" <=> options[k] = "a"
        /\ FlagOf(options[k]) = "m" <=> options[k] = "m"
  BY DEF Typed, Option, FlagOf
<1> QED BY <1>1 DEF Has, Sorted

LEMMA TimesSet ==
  ASSUME IInv, SetTimes, status = "running"
  PROVE  IInv'
<1>1. /\ pc = "options" /\ o = Len(options) /\ pc' = "utimensat"
      /\ flags' = IF {"a", "m"} \intersect flags = {} THEN flags \union {"a", "m"} ELSE flags
      /\ times' = <<IF "a" \in flags' THEN times[1] ELSE Omit(times[1]),
                    IF "m" \in flags' THEN Copied ELSE Omit(Copied)>>
      /\ UNCHANGED <<options, args, ref, reading, o, a, dir, inode, fd, raced, status>>
  BY DEF SetTimes, given, files
<1>2. times[1] \in Times /\ Copied \in Times
  BY DEF IInv, Typed, Copied
<1>3. ASSUME NEW t \in Times PROVE Omit(t) \in Times /\ Omit(t).nsec = OMIT
  BY <1>3 DEF Omit, Times, OMIT
<1>4. times' \in Times \X Times
  BY <1>1, <1>2, <1>3
<1>5. Typed'
  BY <1>1, <1>4 DEF IInv, Typed
<1>6. /\ Has("a") /\ ~Has("m") => "m" \notin flags'
      /\ Has("m") /\ ~Has("a") => "a" \notin flags'
  BY <1>1, FlagsGiven DEF IInv
<1>7. Sorted'
  <2>1. Has("a")' = Has("a") /\ Has("m")' = Has("m")
    BY <1>1 DEF Has
  <2>2. "m" \notin flags' => times'[2].nsec = OMIT
    BY <1>1, <1>2, <1>3
  <2>3. "a" \notin flags' => times'[1].nsec = OMIT
    BY <1>1, <1>2, <1>3
  <2> QED BY <1>1, <1>6, <2>1, <2>2, <2>3 DEF Sorted
<1>8. Race'
  BY <1>1 DEF Race
<1> QED BY <1>5, <1>7, <1>8 DEF IInv

\* Between two operands, and at the end.
LEMMA OperandDone ==
  ASSUME NEW r, IInv, Done(r), UNCHANGED <<options, args, ref, reading, o, flags, times, dir>>,
         inode' \in [Inode -> Files], pc \in {"utimensat", "creat", "futimens"},
         status = "running"
  PROVE  IInv'
<1>1. a' \in 1..Len(args) /\ pc' \in {"utimensat", "exited"}
      /\ (status' = "running" <=> pc' # "exited")
  <2>1. CASE a < Len(args)
    BY <2>1 DEF Done, IInv, Typed
  <2>2. CASE ~(a < Len(args))
    BY <2>2 DEF Done, Exit, IInv, Typed
  <2> QED BY <2>1, <2>2
<1>2. Typed'
  BY <1>1 DEF IInv, Typed
<1>3. Race'
  BY <1>1 DEF Race
<1>4. Sorted'
  <2>1. Has("a")' = Has("a") /\ Has("m")' = Has("m")
    BY DEF Has
  <2> QED BY <1>1, <2>1 DEF IInv, Sorted
<1> QED BY <1>2, <1>3, <1>4 DEF IInv

\* touch's own steps, once the options are read.
LEMMA FileSteps ==
  ASSUME IInv, status = "running",
         Utimensat \/ UtimensatFails \/ Missing \/ Creat \/ CreatFails \/ Futimens \/ FutimensFails
  PROVE  IInv'
<1>1. args[a] \in Name /\ dir[args[a]] \in Inode \union {None} /\ times \in Times \X Times
      /\ inode \in [Inode -> Files]
  BY DEF IInv, Typed
<1>2. CASE Utimensat
  <2>1. inode' \in [Inode -> Files]
    BY <1>1, <1>2, StampedFile DEF Utimensat
  <2>2. Done(0) /\ pc = "utimensat" /\ UNCHANGED <<options, args, ref, reading, o, flags, times, dir>>
    BY <1>2 DEF Utimensat, told, given
  <2> QED BY <2>1, <2>2, OperandDone
<1>3. CASE UtimensatFails \/ CreatFails \/ FutimensFails
  <2>1. Done(1) /\ pc \in {"utimensat", "creat", "futimens"}
        /\ UNCHANGED <<options, args, ref, reading, o, flags, times, dir, inode>>
    BY <1>3 DEF UtimensatFails, CreatFails, FutimensFails, told, given, files
  <2> QED BY <1>1, <2>1, OperandDone
<1>4. CASE Missing
  <2>1. /\ pc = "utimensat" /\ dir[args[a]] = None
        /\ UNCHANGED <<options, args, ref, reading, o, flags, times, dir, inode>>
    BY <1>4 DEF Missing, told, given, files
  <2>2. CASE Done(0)
    BY <1>1, <2>1, <2>2, OperandDone
  <2>3. CASE pc' = "creat" /\ UNCHANGED <<a, ret, status>>
    <3>1. Typed' /\ Race'
      BY <2>1, <2>3 DEF IInv, Typed, Race
    <3>2. Sorted'
      BY <2>1, <2>3 DEF IInv, Sorted, Has
    <3> QED BY <3>1, <3>2 DEF IInv
  <2> QED BY <1>4, <2>2, <2>3 DEF Missing
<1>5. CASE Creat
  <2>1. /\ pc = "creat" /\ pc' = "futimens"
        /\ UNCHANGED <<options, args, ref, reading, o, flags, times, a, raced, status>>
    BY <1>5 DEF Creat, told, given
  <2>2. ASSUME NEW at \in Int, NEW mt \in Int PROVE File("empty", at, mt) \in Files
    BY <2>2 DEF File, Files
  <2>3. dir' \in [Name -> Inode \union {None}] /\ inode' \in [Inode -> Files] /\ fd' \in Inode
    <3>1. CASE dir[args[a]] # None
      <4>1. inode[dir[args[a]]].atime \in Int /\ dir[args[a]] \in Inode
        BY <1>1, <3>1 DEF Files
      <4>2. File("empty", inode[dir[args[a]]].atime, Now) \in Files
        BY <2>2, <4>1, Numbers
      <4>3. /\ inode' = [inode EXCEPT ![dir[args[a]]] = File("empty", inode[dir[args[a]]].atime, Now)]
            /\ fd' = dir[args[a]] /\ dir' = dir
        BY <1>5, <3>1 DEF Creat
      <4> QED BY <1>1, <4>1, <4>2, <4>3 DEF IInv, Typed
    <3>2. CASE dir[args[a]] = None
      <4>1. Unused \in Inode /\ File("empty", Now, Now) \in Files
        BY <1>5, <2>2, <3>2, UnusedFree, Numbers DEF Creat
      <4>2. /\ inode' = [inode EXCEPT ![Unused] = File("empty", Now, Now)]
            /\ dir' = [dir EXCEPT ![args[a]] = Unused] /\ fd' = Unused
        BY <1>5, <3>2 DEF Creat
      <4>3. dir \in [Name -> Inode \union {None}] /\ inode \in [Inode -> Files]
        BY DEF IInv, Typed
      <4> QED BY <4>1, <4>2, <4>3
    <3> QED BY <3>1, <3>2
  <2>4. Typed' /\ Race'
    BY <2>1, <2>3 DEF IInv, Typed, Race
  <2>5. Sorted'
    BY <2>1 DEF IInv, Sorted, Has
  <2> QED BY <2>4, <2>5 DEF IInv
<1>6. CASE Futimens
  <2>1. pc = "futimens" /\ fd \in Inode
    BY <1>6 DEF Futimens, IInv, Typed
  <2>2. inode' \in [Inode -> Files]
    BY <1>1, <1>6, <2>1, StampedFile DEF Futimens
  <2>3. Done(0) /\ UNCHANGED <<options, args, ref, reading, o, flags, times, dir>>
    BY <1>6 DEF Futimens, told, given
  <2> QED BY <2>1, <2>2, <2>3, OperandDone
<1> QED BY <1>2, <1>3, <1>4, <1>5, <1>6

\* The other process: what it creates where touch is about to is the race.
LEMMA OtherSteps ==
  ASSUME IInv, OtherStep
  PROVE  IInv'
<1>1. PICK n \in Name : OtherCreates(n) \/ OtherRemoves(n)
  BY DEF OtherStep
<1>2. UNCHANGED <<options, args, ref, reading, o, flags, times, a, fd, pc, status>>
  BY <1>1 DEF OtherCreates, OtherRemoves, told, given
<1>3. File("text", Now, Now) \in Files
  BY Numbers DEF File, Files
<1>4. /\ dir' \in [Name -> Inode \union {None}] /\ inode' \in [Inode -> Files]
      /\ raced => raced'
      /\ pc = "creat" /\ dir[args[a]] = None /\ dir'[args[a]] # None => raced'
  <2>1. /\ dir \in [Name -> Inode \union {None}] /\ inode \in [Inode -> Files]
        /\ args[a] \in Name
    BY DEF IInv, Typed
  <2>2. CASE OtherCreates(n)
    <3>1. /\ dir' = [dir EXCEPT ![n] = Unused] /\ Unused \in Inode
          /\ inode' = [inode EXCEPT ![Unused] = File("text", Now, Now)]
          /\ raced' = (raced \/ (pc = "creat" /\ args[a] = n))
      BY <2>2, UnusedFree DEF OtherCreates
    <3> QED BY <1>3, <2>1, <3>1
  <2>3. CASE OtherRemoves(n)
    <3>1. dir' = [dir EXCEPT ![n] = None] /\ inode' = inode /\ raced' = raced
      BY <2>3 DEF OtherRemoves
    <3> QED BY <2>1, <3>1
  <2> QED BY <1>1, <2>2, <2>3
<1>5. Typed'
  BY <1>2, <1>4 DEF IInv, Typed
<1>6. Race'
  BY <1>2, <1>4 DEF IInv, Race
<1>7. Sorted'
  BY <1>2 DEF IInv, Sorted, Has
<1> QED BY <1>5, <1>6, <1>7 DEF IInv

LEMMA Stepwise == IInv /\ [Next]_vars => IInv'
<1> SUFFICES ASSUME IInv, [Next]_vars PROVE IInv'
  OBVIOUS
<1>1. CASE OwnStep /\ status = "running"
  <2>1. CASE OptionFails \/ Usage
    <3>1. /\ pc' = "exited" /\ status' = "error"
          /\ UNCHANGED <<options, args, ref, reading, o, flags, times, a, dir, inode>>
      BY <2>1 DEF OptionFails, Usage, Exit, told, given, files
    <3> QED BY <3>1 DEF IInv, Typed, Race, Sorted
  <2> QED BY <1>1, <2>1, OptionRead, TimesSet, FileSteps DEF OwnStep
<1>2. CASE OtherStep
  BY <1>2, OtherSteps
<1>3. CASE UNCHANGED vars
  <2>1. UNCHANGED <<options, args, ref, reading, o, a, flags, times, dir, inode, fd, raced, pc, status>>
    BY <1>3 DEF vars
  <2> QED BY <2>1 DEF IInv, Typed, Race, Sorted, Has
<1> QED BY <1>1, <1>2, <1>3 DEF Next
-----------------------------------------------------------------------------
(***************************************************************************)
(* The theorems.                                                           *)
(***************************************************************************)
\* A step of touch other than creat() and futimens() leaves inodes alone or
\* stamps one; the other process and a creat() that creates take a free one;
\* a creat() that empties was raced.
LEMMA InodeSteps ==
  ASSUME IInv, Next, NEW j \in Inode
  PROVE  \/ inode'[j] = inode[j] \/ inode[j] = Free \/ raced
         \/ inode'[j] = Stamped(inode[j]) /\ pc \in {"utimensat", "futimens"}
<1>0. args[a] \in Name /\ dir[args[a]] \in Inode \union {None} /\ inode \in [Inode -> Files]
  BY DEF IInv, Typed
<1>1. CASE Utimensat
  BY <1>0, <1>1 DEF Utimensat
<1>2. CASE Creat
  <2>1. CASE dir[args[a]] # None
    BY <1>2, <2>1 DEF Creat, IInv, Race
  <2>2. CASE dir[args[a]] = None
    BY <1>0, <1>2, <2>2, UnusedFree DEF Creat
  <2> QED BY <2>1, <2>2
<1>3. CASE Futimens
  BY <1>0, <1>3 DEF Futimens, IInv, Typed
<1>4. CASE OtherStep
  <2>1. PICK n \in Name : OtherCreates(n) \/ OtherRemoves(n)
    BY <1>4 DEF OtherStep
  <2> QED BY <1>0, <2>1, UnusedFree DEF OtherCreates, OtherRemoves
<1>5. CASE OwnStep /\ ~(Utimensat \/ Creat \/ Futimens)
  BY <1>5 DEF OwnStep, NextOption, OptionFails, Usage, SetTimes, UtimensatFails, Missing,
    CreatFails, FutimensFails, files
<1> QED BY <1>1, <1>2, <1>3, <1>4, <1>5 DEF Next

\* touch empties a file only when another process created it after touch had
\* found it missing (touch.c:21-36): for every number of operands and of steps
\* of the other process, a file that stays is not emptied.
THEOREM EmptiesOnlyRaced == Spec => EmptiesOnlyInRace
<1>1. IInv /\ [Next]_vars =>
        [\A j \in Inode : inode[j].data = "text" /\ inode'[j].data = "empty" => raced]_vars
  <2> SUFFICES ASSUME IInv, Next, NEW j \in Inode,
                      inode[j].data = "text", inode'[j].data = "empty"
               PROVE  raced
    OBVIOUS
  <2>1. inode[j] \in Files /\ times \in Times \X Times
    BY DEF IInv, Typed
  <2>2. inode[j] # Free
    BY DEF Free, File
  <2> QED BY <2>1, <2>2, InodeSteps, StampedFile
<1> QED BY <1>1, InitTyped, Stepwise, PTL DEF Spec, IInv, EmptiesOnlyInRace

\* Under -a alone the modification time, and under -m alone the access time,
\* of a file that is there stays, whatever the other options make of times[]
\* and in whatever order they come (touch.c:176-193).
THEOREM OtherTimeLeft == Spec => LeavesOtherTime
<1> DEFINE A == \A j \in Inode : inode[j] # Free /\ ~raced =>
                  /\ Has("a") /\ ~Has("m") => inode'[j].mtime = inode[j].mtime
                  /\ Has("m") /\ ~Has("a") => inode'[j].atime = inode[j].atime
<1>1. IInv /\ [Next]_vars => [A]_vars
  <2> SUFFICES ASSUME IInv, Next, NEW j \in Inode, inode[j] # Free, ~raced
               PROVE  /\ Has("a") /\ ~Has("m") => inode'[j].mtime = inode[j].mtime
                      /\ Has("m") /\ ~Has("a") => inode'[j].atime = inode[j].atime
    OBVIOUS
  <2>1. inode[j] \in Files /\ times \in Times \X Times
    BY DEF IInv, Typed
  <2>2. \/ inode'[j] = inode[j]
        \/ pc \in {"utimensat", "futimens"} /\ inode'[j] = Stamped(inode[j])
    BY InodeSteps
  <2> QED BY <2>1, <2>2, StampedFile DEF IInv, Sorted
<1> QED BY <1>1, InitTyped, Stepwise, PTL DEF Spec, IInv, LeavesOtherTime
-----------------------------------------------------------------------------
(***************************************************************************)
(* What touch has made of the operands when nobody interferes.             *)
(***************************************************************************)
\* The last of the first k options that says a time.
SayingBy(k) == {j \in 1..k : FlagOf(options[j]) \in {"d", "t"}}
LastBy(k) == options[CHOOSE j \in SayingBy(k) : \A i \in SayingBy(k) : i <= j]
UnderstoodBy(k) == SayingBy(k) # {} /\ ZoneIsNoMatter(LastBy(k))

Good(f) ==
  Understood =>
    /\ Has("a") \/ ~Has("m") => f.atime = Wanted(LastSaid)
    /\ Has("m") \/ ~Has("a") => f.mtime = Wanted(LastSaid)

Settled(n) == IF dir[n] = None THEN Has("c") ELSE Good(inode[dir[n]])

Working == pc \in {"utimensat", "creat", "futimens"}

\* times[] is on its way to the time wanted, and then is it.
Aimed ==
  /\ pc = "options" =>
       /\ times[1].nsec # OMIT
       /\ UnderstoodBy(o) => times[1].sec = Wanted(LastBy(o))
  /\ Working /\ Understood =>
       /\ Has("a") \/ ~Has("m") => times[1].sec = Wanted(LastSaid) /\ times[1].nsec # OMIT
       /\ Has("m") \/ ~Has("a") => times[2].sec = Wanted(LastSaid) /\ times[2].nsec # OMIT

\* A name leads to an inode in use; only the other process can race.
Used ==
  /\ other \in Nat /\ ret \in {0, 1} /\ (raced => other > 0)
  /\ \A n \in Name : dir[n] # None => inode[dir[n]].data # "free"
  /\ pc = "options" => a = 1
  /\ Working => ("c" \in flags <=> Has("c"))

\* The operands dealt with.
Behind ==
  /\ pc \in {"creat", "futimens"} => ~Has("c")
  /\ pc = "futimens" => dir[args[a]] = fd
  /\ Working /\ ret = 0 => \A k \in 1..Len(args) : k < a => Settled(args[k])
  /\ status = "zero" => \A k \in 1..Len(args) : Settled(args[k])

Alone == Used /\ (~Has("r") => Aimed) /\ (~Has("r") /\ other = 0 => Behind)

\* One option more: the last of -d and -t is what counts.
LEMMA OneMore ==
  ASSUME NEW k \in Nat
  PROVE  /\ FlagOf(options[k+1]) \in {"d", "t"} =>
              SayingBy(k + 1) # {} /\ LastBy(k + 1) = options[k+1]
         /\ FlagOf(options[k+1]) \notin {"d", "t"} =>
              SayingBy(k + 1) = SayingBy(k) /\ LastBy(k + 1) = LastBy(k)
<1> DEFINE last(n) == CHOOSE j \in SayingBy(n) : \A i \in SayingBy(n) : i <= j
<1>1. CASE FlagOf(options[k+1]) \in {"d", "t"}
  <2>1. k + 1 \in SayingBy(k + 1) /\ \A i \in SayingBy(k + 1) : i \in Nat /\ i <= k + 1
    BY <1>1 DEF SayingBy
  <2>2. last(k + 1) \in SayingBy(k + 1) /\ \A i \in SayingBy(k + 1) : i <= last(k + 1)
    BY <2>1
  <2>3. last(k + 1) = k + 1
    BY <2>1, <2>2
  <2> HIDE DEF last
  <2> QED BY <1>1, <2>1, <2>3 DEF LastBy, last
<1>2. CASE FlagOf(options[k+1]) \notin {"d", "t"}
  <2>1. SayingBy(k + 1) = SayingBy(k)
    BY <1>2 DEF SayingBy
  <2> QED BY <1>2, <2>1 DEF LastBy
<1> QED BY <1>1, <1>2

LEMMA AllRead ==
  /\ Saying = SayingBy(Len(options)) /\ LastSaid = LastBy(Len(options))
  /\ Understood = UnderstoodBy(Len(options))
<1>1. Saying = SayingBy(Len(options))
  BY DEF Saying, SayingBy
<1>2. LastSaid = LastBy(Len(options))
  BY <1>1 DEF LastSaid, LastBy
<1> QED BY <1>1, <1>2 DEF Understood, UnderstoodBy

\* The options stay, and with them what they ask for.
LEMMA SameAsked ==
  ASSUME options' = options, reading' = reading
  PROVE  /\ Understood' = Understood /\ LastSaid' = LastSaid
         /\ \A opt : Has(opt)' = Has(opt) /\ Wanted(opt)' = Wanted(opt)
         /\ \A k : UnderstoodBy(k)' = UnderstoodBy(k) /\ LastBy(k)' = LastBy(k)
         /\ \A f : Good(f)' = Good(f)
<1>1. Saying' = Saying
  BY DEF Saying
<1>2. \A opt : Has(opt)' = Has(opt) /\ Wanted(opt)' = Wanted(opt)
                /\ ZoneIsNoMatter(opt)' = ZoneIsNoMatter(opt)
  BY DEF Has, Wanted, ZoneIsNoMatter
<1>3. LastSaid' = LastSaid
  BY <1>1 DEF LastSaid
<1>4. Understood' = Understood
  BY <1>1, <1>3 DEF Understood, ZoneIsNoMatter
<1>5. \A k : SayingBy(k)' = SayingBy(k)
  BY DEF SayingBy
<1>6. \A k : LastBy(k)' = LastBy(k)
  BY <1>5 DEF LastBy
<1>7. \A k : UnderstoodBy(k)' = UnderstoodBy(k)
  BY <1>5, <1>6 DEF UnderstoodBy, ZoneIsNoMatter
<1>8. \A f : Good(f)' = Good(f)
  BY <1>2, <1>3, <1>4 DEF Good, Wanted
<1> QED BY <1>2, <1>3, <1>4, <1>6, <1>7, <1>8

\* The times touch sets are good for any file.
LEMMA StampedGood ==
  ASSUME ~Has("r"), Aimed, Working, NEW f \in Files
  PROVE  Good(Stamped(f))
BY DEF Aimed, Good, Stamped, Files

LEMMA InitAlone == Init => Alone
<1> SUFFICES ASSUME Init PROVE Alone
  OBVIOUS
<1>1. PICK old \in SUBSET Name :
        /\ dir = [n \in Name |-> IF n \in old THEN 1 ELSE None]
        /\ inode = [j \in Inode |-> IF j = 1 /\ old # {} THEN File("text", 1, 1) ELSE Free]
  BY DEF Init
<1>2. \A n \in Name : dir[n] # None => inode[dir[n]].data # "free"
  BY <1>1, TouchAssumption DEF Inode, File
<1>3. SayingBy(0) = {}
  <2>1. \A j \in 1..0 : FALSE
    OBVIOUS
  <2> QED BY <2>1 DEF SayingBy
<1> QED BY <1>2, <1>3 DEF Init, Alone, Used, Aimed, Behind, Working, Time, OMIT, UnderstoodBy

LEMMA OptionReadAlone ==
  ASSUME IInv, Alone, NextOption
  PROVE  Alone'
<1>1. /\ pc = "options" /\ o \in Nat /\ o + 1 \in 1..Len(options) /\ o' = o + 1
      /\ times' = TimesAfter(options[o+1]) /\ options[o+1] \in Option /\ options[o+1] # "t8s"
      /\ UNCHANGED <<options, args, ref, reading, a, dir, inode, fd, other, raced, ret, pc, status>>
  BY DEF NextOption, Rejected, IInv, Typed, given, files
<1>2. times[1] \in Times /\ NsecPerSec \in Nat
  BY TouchAssumption DEF IInv, Typed
<1>3. ASSUME ~Has("r") PROVE Aimed'
  <2>1. /\ times[1].nsec # OMIT /\ options[o+1] # "r"
        /\ UnderstoodBy(o) => times[1].sec = Wanted(LastBy(o))
    BY <1>1, <1>3 DEF Alone, Aimed, Has
  <2>2. times'[1].nsec # OMIT
    BY <1>1, <1>2, <2>1 DEF TimesAfter, Time, Times, OMIT, Option
  <2>3. ASSUME UnderstoodBy(o + 1) PROVE times'[1].sec = Wanted(LastBy(o + 1))
    <3>1. CASE FlagOf(options[o+1]) \in {"d", "t"}
      <4>1. LastBy(o + 1) = options[o+1] /\ ZoneIsNoMatter(options[o+1])
        BY <1>1, <2>3, <3>1, OneMore DEF UnderstoodBy
      <4>2. options[o+1] \in {"t", "d", "dz"}
        BY <1>1, <3>1, <4>1 DEF ZoneIsNoMatter, FlagOf, Option
      <4>3. PICK opt \in {"t", "d", "dz"} : opt = options[o+1]
        BY <4>2
      <4>4. times' = TimesAfter(opt) /\ ZoneIsNoMatter(opt) /\ LastBy(o + 1) = opt
        BY <1>1, <4>1, <4>3
      <4> QED BY <1>2, <4>4 DEF TimesAfter, ZoneIsNoMatter, Wanted, Time, Times
    <3>2. CASE FlagOf(options[o+1]) \notin {"d", "t"}
      <4>1. UnderstoodBy(o) /\ LastBy(o + 1) = LastBy(o)
        BY <1>1, <2>3, <3>2, OneMore DEF UnderstoodBy
      <4>2. times' = times
        BY <1>1, <2>1, <3>2 DEF TimesAfter, FlagOf
      <4> QED BY <2>1, <4>1, <4>2
    <3> QED BY <3>1, <3>2
  <2>4. /\ UnderstoodBy(o)' = UnderstoodBy(o + 1)
        /\ Wanted(LastBy(o))' = Wanted(LastBy(o + 1))
    <3>1. SayingBy(o)' = SayingBy(o + 1)
      BY <1>1 DEF SayingBy
    <3>2. LastBy(o)' = LastBy(o + 1)
      BY <1>1, <3>1 DEF LastBy
    <3> QED BY <1>1, <3>1, <3>2 DEF UnderstoodBy, ZoneIsNoMatter, Wanted
  <2> QED BY <1>1, <2>2, <2>3, <2>4 DEF Aimed, Working
<1>4. Has("r")' = Has("r") /\ Used' /\ Behind'
  BY <1>1, SameAsked DEF Alone, Used, Behind, Working, IInv, Typed
<1> QED BY <1>3, <1>4 DEF Alone

LEMMA TimesSetAlone ==
  ASSUME IInv, Alone, SetTimes
  PROVE  Alone'
<1>1. /\ pc = "options" /\ o = Len(options) /\ pc' = "utimensat"
      /\ flags' = IF {"a", "m"} \intersect flags = {} THEN flags \union {"a", "m"} ELSE flags
      /\ times' = <<IF "a" \in flags' THEN times[1] ELSE Omit(times[1]),
                    IF "m" \in flags' THEN Copied ELSE Omit(Copied)>>
      /\ UNCHANGED <<options, args, ref, reading, o, a, dir, inode, fd, other, raced, ret, status>>
  BY DEF SetTimes, given, files
<1>2. \A k \in 1..Len(options) : \A x \in {"a", "c", "m", "r"} :
        FlagOf(options[k]) = x <=> options[k] = x
  BY DEF IInv, Typed, Option, FlagOf
<1>3. \A x \in {"a", "c", "m", "r"} : x \in flags <=> Has(x)
  BY <1>1, <1>2 DEF Has, IInv, Sorted
<1>4. ASSUME ~Has("r") PROVE Aimed'
  <2>1. /\ Copied = times[1] /\ times[1].nsec # OMIT
        /\ Understood => times[1].sec = Wanted(LastSaid)
    BY <1>1, <1>3, <1>4, AllRead DEF Alone, Aimed, Copied
  <2>2. /\ Has("a") \/ ~Has("m") => "a" \in flags'
        /\ Has("m") \/ ~Has("a") => "m" \in flags'
    BY <1>1, <1>3
  <2>3. Understood =>
          /\ Has("a") \/ ~Has("m") => times'[1].sec = Wanted(LastSaid) /\ times'[1].nsec # OMIT
          /\ Has("m") \/ ~Has("a") => times'[2].sec = Wanted(LastSaid) /\ times'[2].nsec # OMIT
    BY <1>1, <2>1, <2>2
  <2> QED BY <1>1, <2>3, SameAsked DEF Aimed
<1>5. "c" \in flags' <=> Has("c")
  BY <1>1, <1>3
<1>6. Used'
  BY <1>1, <1>5, SameAsked DEF Alone, Used
<1>7. Behind'
  BY <1>1 DEF Behind, IInv, Typed, Alone, Used
<1> QED BY <1>1, <1>4, <1>6, <1>7, SameAsked DEF Alone

\* main() goes on to the next operand or ends; the others are as they were, or
\* stamped.
LEMMA DoneAlone ==
  ASSUME IInv, Alone, Working, status = "running", NEW r \in {0, 1}, Done(r), other' = other,
         raced' => raced, UNCHANGED <<options, args, ref, reading, o, flags, times, dir>>,
         \A j \in Inode : inode'[j] = inode[j] \/ inode'[j] = Stamped(inode[j]),
         NEW n \in Name, n = args[a], ~Has("r") /\ other = 0 /\ r = 0 => Settled(n)'
  PROVE  Alone'
<1>1. /\ times \in Times \X Times /\ inode \in [Inode -> Files]
      /\ dir \in [Name -> Inode \union {None}] /\ a \in 1..Len(args) /\ ret \in {0, 1}
      /\ args \in Seq(Name)
  BY DEF IInv, Typed, Alone, Used
<1>2. /\ ret' = IF r = 1 THEN 1 ELSE ret
      /\ \/ a < Len(args) /\ a' = a + 1 /\ pc' = "utimensat" /\ status' = status
         \/ a = Len(args) /\ a' = a /\ pc' = "exited"
              /\ status' = IF ret' = 0 THEN "zero" ELSE "one"
  BY <1>1 DEF Done, Exit
<1>3. Used'
  <2>1. \A j \in Inode : inode'[j].data = inode[j].data
    BY <1>1, StampedFile
  <2>2. \A x \in Name : dir'[x] # None => inode'[dir'[x]].data # "free"
    BY <1>1, <2>1 DEF Alone, Used
  <2> QED BY <1>2, <2>2, SameAsked DEF Alone, Used, Working
<1>4. ASSUME ~Has("r") PROVE Aimed'
  BY <1>2, <1>4, SameAsked DEF Alone, Aimed, Working
<1>5. ASSUME ~Has("r"), other = 0 PROVE Behind'
  <2>1. \A x \in Name : Settled(x) => Settled(x)'
    BY <1>1, <1>5, StampedGood, SameAsked DEF Alone, Settled
  <2>2. ASSUME ret' = 0, NEW k \in 1..Len(args), k <= a PROVE Settled(args[k])'
    <3>1. ret = 0 /\ r = 0 /\ args[k] \in Name /\ args' = args
      BY <1>1, <1>2, <2>2
    <3>2. PICK x \in Name : x = args[k]
      BY <3>1
    <3>3. CASE k < a
      <4>1. Settled(x)
        BY <1>5, <3>1, <3>2, <3>3 DEF Alone, Behind, Settled
      <4> QED BY <2>1, <3>1, <3>2, <4>1 DEF Settled
    <3>4. CASE k = a
      BY <1>5, <3>1, <3>2, <3>4 DEF Settled
    <3> QED BY <1>1, <2>2, <3>3, <3>4
  <2>3. pc' \notin {"creat", "futimens"}
    BY <1>2
  <2>4. Working' /\ ret' = 0 => \A k \in 1..Len(args) : k < a' => Settled(args[k])'
    BY <1>1, <1>2, <2>2 DEF Working
  <2>5. status' = "zero" => \A k \in 1..Len(args) : Settled(args[k])'
    BY <1>1, <1>2, <2>2
  <2>6. args' = args
    OBVIOUS
  <2> QED BY <2>3, <2>4, <2>5, <2>6 DEF Behind, Settled
<1> QED BY <1>3, <1>4, <1>5, SameAsked DEF Alone

LEMMA CreatAlone ==
  ASSUME IInv, Alone, Creat
  PROVE  Alone'
<1>1. /\ pc = "creat" /\ pc' = "futimens" /\ args[a] \in Name /\ args \in Seq(Name)
      /\ a \in 1..Len(args)
      /\ dir \in [Name -> Inode \union {None}] /\ inode \in [Inode -> Files]
      /\ UNCHANGED <<options, args, ref, reading, o, flags, times, a, other, raced, ret, status>>
  BY DEF Creat, told, given, IInv, Typed
<1>2. CASE dir[args[a]] # None
  <2>1. raced /\ dir' = dir /\ dir[args[a]] \in Inode
    BY <1>1, <1>2 DEF IInv, Race, Creat
  <2>2. other # 0
    BY <2>1 DEF Alone, Used
  <2>3. \A j \in Inode : inode'[j] = inode[j] \/ inode'[j].data = "empty"
    BY <1>1, <1>2 DEF Creat, File
  <2>4. Used'
    BY <1>1, <2>1, <2>3, SameAsked DEF Alone, Used, Working
  <2>5. ~Has("r") => Aimed'
    BY <1>1, SameAsked DEF Alone, Aimed, Working
  <2> QED BY <1>1, <2>2, <2>4, <2>5, SameAsked DEF Alone
<1>3. CASE dir[args[a]] = None
  <2>1. Unused \in Inode /\ inode[Unused] = Free
    BY <1>3, UnusedFree DEF Creat
  <2>2. PICK u \in Inode : u = Unused
    BY <2>1
  <2>3. /\ inode' = [inode EXCEPT ![u] = File("empty", Now, Now)]
        /\ dir' = [dir EXCEPT ![args[a]] = u] /\ fd' = u
    BY <1>3, <2>2 DEF Creat
  <2>4. inode[u].data = "free" /\ inode'[u].data = "empty"
    BY <1>1, <2>1, <2>2, <2>3 DEF Free, File
  <2>5. Used'
    BY <1>1, <2>3, <2>4, SameAsked DEF Alone, Used, Working
  <2>6. ~Has("r") => Aimed'
    BY <1>1, SameAsked DEF Alone, Aimed, Working
  <2>7. ASSUME ~Has("r"), other = 0 PROVE Behind'
    <3>1. ~Has("c")
      BY <1>1, <2>7 DEF Alone, Behind
    <3>2. dir'[args[a]] = fd'
      BY <1>1, <2>3
    <3>3. ASSUME ret = 0, NEW k \in 1..Len(args), k < a PROVE Settled(args[k])'
      <4>1. Settled(args[k]) /\ args[k] \in Name
        BY <1>1, <2>7, <3>3 DEF Alone, Behind, Working
      <4>2. args[k] # args[a] /\ dir[args[k]] # None
        BY <1>3, <3>1, <4>1 DEF Settled
      <4>3. dir[args[k]] # u
        BY <2>4, <4>1, <4>2 DEF Alone, Used
      <4>4. dir'[args[k]] = dir[args[k]] /\ inode'[dir[args[k]]] = inode[dir[args[k]]]
        BY <1>1, <2>3, <4>1, <4>2, <4>3
      <4> QED BY <1>1, <4>1, <4>2, <4>4, SameAsked DEF Settled
    <3> QED BY <1>1, <3>1, <3>2, <3>3, SameAsked DEF Behind, Settled, IInv, Typed
  <2> QED BY <1>1, <2>5, <2>6, <2>7, SameAsked DEF Alone
<1> QED BY <1>2, <1>3

LEMMA FilesAlone ==
  ASSUME IInv, Alone, status = "running",
         Utimensat \/ UtimensatFails \/ Missing \/ CreatFails \/ Futimens \/ FutimensFails
  PROVE  Alone'
<1>1. args[a] \in Name /\ dir[args[a]] \in Inode \union {None} /\ times \in Times \X Times
      /\ inode \in [Inode -> Files]
  BY DEF IInv, Typed
<1>2. CASE Utimensat
  <2>1. /\ Working /\ Done(0) /\ UNCHANGED <<options, args, ref, reading, o, flags, times, dir, other, raced>>
        /\ dir[args[a]] \in Inode /\ inode' = [inode EXCEPT ![dir[args[a]]] = Stamped(@)]
    BY <1>1, <1>2 DEF Utimensat, told, given, Working
  <2>2. ASSUME ~Has("r") PROVE Good(inode'[dir[args[a]]])
    BY <1>1, <2>1, <2>2, StampedGood DEF Alone
  <2>3. PICK n \in Name : n = args[a]
    BY <1>1
  <2>4. ~Has("r") => Settled(n)'
    BY <2>1, <2>2, <2>3, SameAsked DEF Settled, None, Inode
  <2>5. \A j \in Inode : inode'[j] = inode[j] \/ inode'[j] = Stamped(inode[j])
    BY <1>1, <2>1
  <2> QED BY <1>1, <2>1, <2>3, <2>4, <2>5, DoneAlone
<1>3. CASE UtimensatFails \/ CreatFails \/ FutimensFails
  <2>1. Done(1) /\ Working
        /\ UNCHANGED <<options, args, ref, reading, o, flags, times, dir, inode, other, raced>>
    BY <1>3 DEF UtimensatFails, CreatFails, FutimensFails, told, given, files, Working
  <2>2. PICK n \in Name : n = args[a]
    BY <1>1
  <2> QED BY <2>1, <2>2, DoneAlone
<1>4. CASE Missing
  <2>1. /\ pc = "utimensat" /\ Working /\ dir[args[a]] = None /\ raced' = FALSE
        /\ UNCHANGED <<options, args, ref, reading, o, flags, times, dir, inode, fd, other>>
    BY <1>4 DEF Missing, told, given, files, Working
  <2>2. CASE "c" \in flags
    <3>1. Done(0) /\ Has("c")
      BY <1>4, <2>1, <2>2 DEF Missing, Alone, Used
    <3>2. PICK n \in Name : n = args[a]
      BY <1>1
    <3>3. Settled(n)'
      BY <2>1, <3>1, <3>2, SameAsked DEF Settled
    <3> QED BY <1>1, <2>1, <3>1, <3>2, <3>3, DoneAlone
  <2>3. CASE "c" \notin flags
    <3>1. pc' = "creat" /\ UNCHANGED <<a, ret, status>> /\ ~Has("c")
      BY <1>4, <2>1, <2>3 DEF Missing, Alone, Used
    <3>2. Used'
      BY <2>1, <3>1, SameAsked DEF Alone, Used, Working
    <3>3. ~Has("r") => Aimed'
      BY <2>1, <3>1, SameAsked DEF Alone, Aimed, Working
    <3>4. ~Has("r") /\ other = 0 => Behind'
      BY <2>1, <3>1, SameAsked DEF Alone, Behind, Working, Settled
    <3> QED BY <2>1, <3>2, <3>3, <3>4, SameAsked DEF Alone
  <2> QED BY <2>2, <2>3
<1>5. CASE Futimens
  <2>1. /\ pc = "futimens" /\ Working /\ fd \in Inode /\ Done(0)
        /\ UNCHANGED <<options, args, ref, reading, o, flags, times, dir, other, raced>>
        /\ inode' = [inode EXCEPT ![fd] = Stamped(@)]
    BY <1>5 DEF Futimens, told, given, Working, IInv, Typed
  <2>2. ASSUME ~Has("r") PROVE Good(inode'[fd])
    BY <1>1, <2>1, <2>2, StampedGood DEF Alone
  <2>3. PICK n \in Name : n = args[a]
    BY <1>1
  <2>4. ~Has("r") /\ other = 0 => dir[n] = fd
    BY <2>1, <2>3 DEF Alone, Behind
  <2>5. ~Has("r") /\ other = 0 => Settled(n)'
    BY <2>1, <2>2, <2>4, SameAsked DEF Settled, None, Inode
  <2>6. \A j \in Inode : inode'[j] = inode[j] \/ inode'[j] = Stamped(inode[j])
    BY <1>1, <2>1
  <2> QED BY <1>1, <2>1, <2>3, <2>5, <2>6, DoneAlone
<1> QED BY <1>2, <1>3, <1>4, <1>5

LEMMA StepwiseAlone == IInv /\ Alone /\ [Next]_vars => Alone'
<1> SUFFICES ASSUME IInv, Alone, [Next]_vars PROVE Alone'
  OBVIOUS
<1>1. CASE OwnStep /\ status = "running"
  <2>1. CASE OptionFails \/ Usage
    <3>1. /\ pc' = "exited" /\ status' = "error"
          /\ UNCHANGED <<options, args, ref, reading, o, flags, times, a, dir, inode, other, raced, ret>>
      BY <2>1 DEF OptionFails, Usage, Exit, told, given, files
    <3> QED BY <3>1, SameAsked DEF Alone, Used, Aimed, Behind, Working
  <2> QED BY <1>1, <2>1, OptionReadAlone, TimesSetAlone, FilesAlone, CreatAlone DEF OwnStep
<1>2. CASE OtherStep /\ status = "running"
  <2>1. PICK n \in Name : OtherCreates(n) \/ OtherRemoves(n)
    BY <1>2 DEF OtherStep
  <2>2. /\ UNCHANGED <<options, args, ref, reading, o, flags, times, a, fd, ret, pc, status>>
        /\ other' = other + 1
    BY <2>1 DEF OtherCreates, OtherRemoves, told, given
  <2>3. other' \in Nat /\ other' > 0
    BY <2>2 DEF Alone, Used
  <2>4. \A x \in Name : dir'[x] # None => inode'[dir'[x]].data # "free"
    <3>1. dir \in [Name -> Inode \union {None}] /\ inode \in [Inode -> Files]
      BY DEF IInv, Typed
    <3>2. CASE OtherCreates(n)
      BY <3>1, <3>2, UnusedFree DEF OtherCreates, File, Alone, Used
    <3>3. CASE OtherRemoves(n)
      BY <3>1, <3>3 DEF OtherRemoves, Alone, Used
    <3> QED BY <2>1, <3>2, <3>3
  <2>5. Used'
    BY <2>2, <2>3, <2>4, SameAsked DEF Alone, Used, Working
  <2>6. ~Has("r") => Aimed'
    BY <2>2, SameAsked DEF Alone, Aimed, Working
  <2> QED BY <2>2, <2>3, <2>5, <2>6, SameAsked DEF Alone
<1>3. CASE UNCHANGED vars
  <2>1. /\ options' = options /\ reading' = reading
        /\ UNCHANGED <<args, o, a, flags, times, dir, inode, fd, other, raced, ret, pc, status>>
    BY <1>3 DEF vars
  <2> QED BY <2>1, SameAsked DEF Alone, Used, Aimed, Behind, Working, Settled
<1> QED BY <1>1, <1>2, <1>3 DEF Next

\* When touch without -r exits with 0 and was left alone, every operand is
\* there or -c was given; and if the last -d or -t gave a year and is read in a
\* zone that makes no difference, each operand there has that time, each of the
\* two times only if it was asked for (touch.c:21-46, 91, 133, 176-193): for
\* every sequence of options and operands, repeated ones too.
THEOREM TouchedWhenZero == Spec => []ZeroMeansTouched
<1>1. IInv /\ Alone => ZeroMeansTouched
  BY DEF Alone, Behind, Settled, Good, ZeroMeansTouched
<1> QED BY <1>1, InitTyped, Stepwise, InitAlone, StepwiseAlone, PTL DEF Spec, IInv
=============================================================================
