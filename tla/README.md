# Verification of the base utilities

The repository is a set of small POSIX base utilities in C: one program per
source file, each a single thread that reads its command line, makes system
calls in a definite order and exits with a status. No two of them share
memory. What makes them hard to get right is

- **buffering by hand**: no stdio, so each program cuts its input at whatever
  a `read()` returns and keeps indices into fixed buffers (`cmp`, `head`, `wc`);
- **order of system calls**: descriptors, signals, `errno`, a table of function
  pointers rewritten by each option (`nohup`, `time`, `nice`, `chown`);
- **other processes** between two system calls (`touch`, `mkdir`, `rmdir`,
  `link`, `unlink`, and the child of `time`);
- **paths out of the program**: a failure in the middle of the operands must
  still show in the exit status and must not stop the others.

This directory holds TLA+ models of the programs in which those things happen,
the TLC runs that check them, and proofs, checked by TLAPS, of every property that
is not a liveness property.
`PROJECT.json` maps every definition to the lines it models.

Contents: [inventory](#inventory), [modules and code](#modules-and-code),
[runs and bounds](#runs-and-bounds), [fairness](#fairness),
[proofs](#proofs), [where the code departs from what one expects](#departures),
[not modelled](#not-modelled), [plan](#plan).

## Inventory

| component | state it keeps | operations | what is hard | what makes it correct |
|---|---|---|---|---|
| `cmp` | two input buffers with an index and a length each, `byte`, `line`, an output buffer and its length, `ret` | open, refill, compare one byte, list, flush, say EOF, close | two streams refilled independently by short reads; flushing before the buffer is full; four ways to end | positions compared are the same in both streams; every difference listed once; the first one reported with its line; a status of one when a position differs, zero for equal files |
| `head` | a queue of 16 strings, a data buffer, lines left, the offset of descriptor 0 | open, queue a header, read and write a chunk, next operand | the queue filling up with headers of empty files; lines cut by reads; `-` twice; what is left on descriptor 0 | output is the headers and heads in order; nothing withheld from a terminal; the queue has room; the next program goes on where it stopped |
| `cat` | the output buffer of the library, `ret` | open, copy, flush, close | failures in the middle of the operands; bytes buffered behind them | every operand readable is copied once, whole and in its place; truthful status |
| `wc` | a buffer with undecoded bytes at its front, counters, totals, `word` | open, read, scan, keep the rest, scan the tail, report | a multibyte character cut by a read; a second loop for the tail | counts are those of the whole stream however it was cut; totals are sums |
| `nohup` | descriptors 0-2, the disposition of SIGHUP, the umask | ignore, open `nohup.out`, close and dup, exec | `open`/`dup` take the lowest free descriptor; a hangup at any time | with the three open, terminals and only terminals are replaced; status 126/127 |
| `nice`, `env` | nice value; environment array | option, assignments, exec, print | -1 is a value and an error; saved `errno`; `putenv` over an emptied `environ` | what the utility inherits; status 126/127 |
| `time` | two clock readings, `stat_loc` | `times`, `fork`, `exec` in the child, `waitpid`, report | parent, child and clock interleave; the child may end first or be reaped by the system | the reported time covers the child's run; its status is passed on; it ends |
| `touch` | `flags[]`, `times[2]` | options, `utimensat`, `creat`, `futimens` per operand | another process between ENOENT and `creat`; the zone a date is read in | the date given, where its zone makes no difference, becomes the times asked for, and no others change; nobody's data is lost outside a race; truthful status |
| `chown`, `chgrp`, `chmod` | the table entry in use, `ret` | options, change an operand, stat, walk | order of options, links, failures inside the walk's callback, directories that cannot be opened | the files the options select are changed, all that can be reached and no others; truthful status about these; the walk ends |
| `du` | the table entry in use, `total`, `ret` | options, walk the entries of each operand, total | links; paths relative to where the walk is; failures inside the callback | the directories, or all files, of the trees asked for are listed, once unless links are followed; the total is the sum; zero only then |
| `kill` | `sigsend`, `flags`, `ret` | three passes over the arguments, list, send | the passes disagree on what an argument is | the signal asked for goes to the processes named, or a listing, never both by accident |
| `pwd` | the path found, two `stat` buffers | getcwd, stat twice, realpath, write | renames between the calls | what is written has led to the working directory |
| `id` | a passwd entry and the scan of the group database, both static in libc | look up, scan, print | entries overwritten by later look-ups; members advanced in place | the user's groups, all of them and no others, each once unless the databases give it twice |
| `basename`, `dirname`, `tty`, `logname`, `uname` | one line | form it, write it | a suffix longer than the name, memory before and behind the operands | a suffix that is not the whole name is removed where the name ends with it, nothing else is looked at |
| `echo` | a static two-byte string | write up to an escape, write what it stands for | the string is shared by all escapes and a zero in it ends it; `\c` | operands are written as they spell, up to where escapes get into each other's way |
| `date`, `sleep` | a `struct tm`; seconds left | parse pairs of digits, set the clock; sleep again | years of two, four or no digits; signals that cut a sleep short | the clock is set to the date named or not at all; a sleep is as long as asked |
| `stty` | the `termios` read | write its settings | characters shown by adding 64 in a byte | what is written tells the settings |
| `mkdir`, `rmdir`, `link`, `unlink` | `ret` | one call per directory | other processes on the same paths | 0 means done; only named paths change; concurrent `mkdir -p` succeed |
| `true`, `false`, `who`, `cp`, `rm`, unfinished programs, older versions, experiments, headers | see [not modelled](#not-modelled) | | | |

Interactions: the programs call the library declared in `io.h`, `err.h`,
`convert.h`, `mode.h`, `path.h`, `util.h`, whose bodies (`lib/*.c`) are not in
the repository; the models take from the callers what they rely on: `writevn`
writes everything or fails, `*_error_exit` ends the program, `mkparentdir`
makes each directory on the way and goes on over `EEXIST`, `rdwrout_flush` writes
what is left or ends the program. The other
interaction is through the operating system: shared descriptors (`head` and then
`cat` on one standard input), the parent and child of `time`, the utility that is
executed, and the file tree.

## Modules and code

| module | models | state and actions |
|---|---|---|
| `StreamCompare` | nothing in the source: what `cmp` promises | positions compared in lock step, with no buffers |
| `Cmp` | `cmp.c` | `off`, `r`, `i` are descriptor offsets, `r1/r2` and `i1/i2`; `Refill(k, m)` is one `read` returning any `m` it may, `Match`, `Mismatch`, `List` one turn of the inner loop, `SayEof`, `Flush`, `Exit` the code behind it; each call has its failing twin |
| `CmpProofs` | | proofs about `Cmp`, among them that it implements `StreamCompare` |
| `Head` | `head.c` | `iov` is the queue; `QueuePart` queues one of a header's four strings or writes the queue first, `ReadChunk(m)` reads, counts and writes; `offset` keeps descriptor 0 over a second `-` |
| `Cat` | `cat.c` | `Copy(m)` is what the external reader-writers do with a piece of a descriptor, buffered or not; `Flush` is `rdwrout_flush` at the end |
| `Wc` | `wc.c` | `got` bytes read, the last `r` not looked at; `Scan`, `Keep`, `ScanTail` are the first loop, the move to the front and the second loop; characters are those of UTF-8 of one and two bytes |
| `Filters` | | `head`, `cat` and `wc`, one of them running; `head` without operands may be followed by `cat` on the same descriptor 0 |
| `Invocation` | nothing in the source: what a launcher owes its caller | setup, running, done, with the status |
| `Nohup`, `Nice`, `Env`, `Time` | `nohup.c`, `nice.c`, `env.c`, `time.c` | one action per call; `HomeOverruns` is the `strcpy` behind a HOME that just fits; `Time` has actions of the parent, the child and the clock |
| `Launchers` | | the four, one of them running; refines `Invocation` |
| `Touch` | `touch.c` | names lead to inodes; `reading` is what the date given means in each zone, `tz` whether TZ is still set; `NextOption`, `SetTimes`, then `Utimensat`, `Creat`, `Futimens` as separate steps, with `OtherCreates` and `OtherRemoves` between them |
| `Nftw` | the tree and `nftw()`, external | a walk is the set `todo` of files it has still to report and the directories it has `entered`; `Pass(n)` takes any file whose directory was reported, and goes into a directory unless it is one of those that cannot be opened (`shut`), which is no failure |
| `Ch` | `chown.c`, `chgrp.c`, `chmod.c`, `ch.h` | `funcs` is the table; `NextOption` replaces the entry, `Change`, `Stat`, `StatNull` (the call of a NULL pointer) act on an operand, `Visit(n)` is one call of the walk's function |
| `Du` | `du.c` | `Start`, `Open`, `ReaddirFinds` choose what is walked (`ReaddirMisses`: no such name where `du` runs), `Visit(n)` is one call of `wdu`, `VisitUnstated(n)` one with FTW_NS, `Total` the line behind an operand |
| `Walks` | | the four programs over one tree, one of them running |
| `Kill` | `kill.c` | `OptionS`, `OptionL`, `LongOption` are the passes over the arguments, `DumpSigs` a batch of the listing, `Send`, `BadPid` an operand |
| `Pwd` | `pwd.c` | one action per call; `Other` renames or creates a directory or changes the link |
| `Id` | `id.c` | `GetEntry`, `PrintGroups` and their like queue output, `Scan` advances in the database; `Left` is whose entry `pwd` points at after the look-up of the effective user, with storage shared or not |
| `Line` | `basename.c`, `dirname.c`, `tty.c`, `logname.c`, `uname.c` | `Basename`, `Dirname` and so on form the line, `Write` ends the program; `Memory` is the operand with the bytes before it; without an operand `string` and `suffix` stand for what lies behind `argv` |
| `Echo` | `echo.c` | the operands are one sequence of tokens, `sep` between two of them; each action is one turn of a loop, `oth` the static string, `Str` what of it is written |
| `Date` | `date.c`, `sleep.c` | a date is its pairs of digits; `SetDate` is `setdate`, `Sleep` one call of `sleep(3)` |
| `Stty` | `stty.c`, `stty.h` | `dump_modes`, `dump_controls` and so on are the lines written for a `termios` |
| `Commands` | | these twelve programs, one of them running |
| `Tree` | the system calls and the state `mkdir`, `rmdir`, `link`, `unlink` share | a map from paths to kinds, and per process its operand, its place in it and its status |
| `Mkdir`, `Rmdir`, `Links` | `mkdir.c`, `rmdir.c`, `link.c`, `unlink.c` | one action per system call and outcome; failures the tree gives no reason for are remembered in `fault` |
| `Dirs` | | their processes, concurrently on one tree; `seen` is a history variable that records what was where while a process ran |
| `FiltersProofs`, `LaunchersProofs`, `TouchProofs`, `WalksProofs`, `CommandsProofs`, `DirsProofs` | | proofs about the modules they extend |
| `Recursion` | | induction and recursive functions over numbers, counting in an interval: what the proofs about streams and listings rest on |

`MC*` modules give the constants for TLC. Operators named `<Definition>_<What>`
(for example `Refill_IndexKept`) are deliberately wrong variants of the
definition that follows them; no specification uses them. They document, for
each property, a mistake it detects.

Programs that have the same shape or share the system around them are composed
into one module whose behaviours run one of them (`Filters`, `Launchers`, `Walks`,
`Commands`); there the variables that only the others have are `Idle`. `Dirs` and
`Launchers` compose processes that do run together.

Data are abstracted to what the properties can tell apart: a line of a listing
is its position and length, an error message is the fact that the program ended
or went on, a date is its pairs of digits, an environment string is a name and a
value, a mode or an owner is "the new one".

## Runs and bounds

| run | question | bounds, and why they reach the interesting cases | states |
|---|---|---|---|
| `cmp` | does it behave as the position by position comparison, list, report and exit as a difference asks, and end? | all pairs of streams of up to 3 bytes over newline and a letter, and uniform ones of 4; buffers of 2 bytes, so that each stream takes several reads cut at different places; room for two lines in `bufout`, so that it is flushed in the middle | 130,188 |
| `filters` | do `head` and `cat` write, and `wc` count, what the streams hold wherever reads cut them; does the queue never overrun; does `cat` go on where `head` stopped? | `head`, `cat`: up to 3 operands of 4 contents and `-`; a queue of 5, which the first string of a second header fills; reads of 3 bytes against a content of 5; `unsigned` of two bits, and a count of 5 that it truncates. `wc`: all streams of up to 4 bytes over newline, letter, NUL and the two bytes of a character, which may also stand alone or be cut; a buffer of 3 with `MB_CUR_MAX` 2; pairs of operands for the totals | 1,669,908 |
| `launchers` | is the utility started in the right descriptors, environment and nice value, and its end passed on? | every combination of terminal, file and closed for 0, 1, 2; HOME unset, set, too long for the buffer and too long with the name behind it; every environment of up to two entries and up to two assignments, a name twice among them; nice values -3..2, -1 among them, with increments inside and outside; three ticks of the clock in every interleaving with parent and child | 68,821 |
| `touch` | are the right times set, no data lost, while another process creates and removes the names? | two names and two operands, up to two options of ten, a date read in three relations of local, standard, system and universal time (winter and a foreign TZ, all alike, summer), two steps of the other process: enough to create and remove, or to create both | 831,180 |
| `walks` | are the selected files changed, all that can be reached and no others, failures reported, and does the walk end; does `du` list and sum the trees it is asked for? | ten files with a link out of the tree, a link up in it, a link to a directory and a dangling one, one directory on another file system and two files of one name; every sequence of up to two options and two operands; at most one file that may not be changed or directory that cannot be read | 723,082 |
| `dirs` | are zero statuses truthful and are only named paths touched while others work? | any three of nine command lines in every interleaving over five trees; the processes are interchangeable, which the symmetry uses (the run checks safety only) | 890,548 |
| `commands` | do the single-shot programs do what their operands ask, in every surrounding? | `kill`: every command line of up to four arguments of nine kinds, two names per listed batch, five signals. `pwd`: three paths, two directories, three moves beside it, so that a path is renamed and taken by another. `id`: two users and a stranger in three databases, one of which gives a user the same group twice and the primary group again, with look-ups that share storage and that do not. `basename`: every name and suffix of up to three characters after three different memories, and no operand. `echo`: up to four tokens of eight, so that `\c`, octals, octal zeros and unknown escapes meet in both orders, in one operand and across two. `date`: the pairs on both sides of every boundary. `sleep`: seconds up to and above the width of `unsigned`, woken after any of them. `stty`: a byte on both sides of every boundary of the display | 265,955 |

Five runs are expected to be **violated**; each checks one thing the
repository's documents, comments or usage texts say which the code does not do:

| run | says | does |
|---|---|---|
| `nice_127` | POSIX conformity (`readme.txt:5`): 127 for a utility not found | `errno` is saved before `execvp` (`nice.c:44`): 126 |
| `touch_now` | POSIX conformity: `touch file` sets the current time | `times[]` stays zero (`touch.c:16`): 1970 |
| `chgrp_null` | the usage text makes `-h` and `-R` exclusive (`chgrp.c:10`) | the check can never hold (`chgrp.c:67`), a NULL function pointer is called |
| `du_links` | "should not follow symbolic links by default" (`du.c:10`) | without `-H` and `-L` the flags of `nftw` are 0, which follows them (`du.c:119`) |
| `kill_dash` | the usage text offers `-signal_number` (`kill.c:10`) | `getopt` rejects it first (`kill.c:126`), as in `kill -INT 0` |

The runs turn the deadlock check off because every program stops when it has
exited. A larger instance would add longer streams and more processes but no
new kind of step: in each run all buffers fill, wrap and empty, all flushes
happen with something in front and behind them, and every action is taken. For
all properties but `Terminates` and `Ends` the proofs below remove the bounds
altogether.

The counters are bounded by the inputs (streams, arguments, options), except
the clock of `Time` (`MaxClock`) and the other processes of `Touch` (`MaxOther`,
`MaxInode`) and `Pwd` (`MaxMoves`), which stop at their bound.

## Fairness

`Terminates` (`cmp`, `walks`) and `Ends` (`launchers`) need only that the program
goes on: `WF_vars(Next)` for a program of one thread whose calls return, which
the absence of any wait but for regular input justifies. `time` waits for its
child, so weak fairness is assumed of the parent's steps and of the child's
steps separately, which is what a scheduler gives two processes; the clock is
not assumed to go on. The walks of `chown` and `du` end because directories are
entered once, not because of fairness. No liveness is claimed where a program may
wait for a terminal or another process for ever (`head`, `cat`, `wc`, `nohup`'s
utility outside `Ends`), for `sleep`, which signals may wake again and again
before any time has passed, nor for `dirs`, where nothing waits.

## Proofs

Theorems hold for **every** value of the constants that the assumptions named
below allow: every length of streams and command lines, every buffer size, any
tree, any number of processes and of steps of others. Every invariant and action
property a run checks and the refinements of `StreamCompare` and `Invocation` are
theorems.

Each argument has the same shape: the property is seldom inductive, so a
strengthening is (its name is given below), which says of every point of the
program what holds there; it is proved for the initial states and, one step per
action, for each step, and implies the property. Where programs are composed, a
first lemma says that while one runs its own steps are the only ones.

### Induction (`Recursion`)

The provers cannot instantiate an induction rule stated for a predicate. Stated
for sets it is usable: `SetInduction`, a set of natural numbers with 0 that has
`n + 1` with `n` is `Nat`, follows from the well-foundedness of strict inclusion
among finite sets. From it come `UpToInduction`, the greatest and the least number
of a bounded set, `RecursionExists` (a function that begins with a value and goes
on by given steps exists) and `FollowsAlike` (it is the only one), and the `Tally`
lemmas, which count the numbers of an interval that are in a set. With these, what
a recursive function of a property computes is proved for every input: words and
newlines of a stream, the text operands spell, the groups of a database, the sum
of a listing.

### cmp (`CmpProofs`)

    CmpAssumption: Byte \subseteq 0..255, Inputs \subseteq Seq(Byte),
                   HalfBuf >= 1, OutCap >= FMTSIZ

that is, `BUFSIZ/2 >= 1` and one line fits into `bufout`.

| theorem | says |
|---|---|
| `TypeCorrect` | no index leaves its buffer, no read passes the end of the stream |
| `BufferBoundHolds` | with bytes below 128, `bufout` is never filled to its end |
| `FirstDifferenceReported` | byte and line reported are those of the first difference |
| `ShorterNamed` | "EOF on" names the shorter stream, which is the beginning of the other unless `-l` |
| `StatusIsVerdict` | without an error, status 1 when a position both streams have differs and 0 when they are equal; nothing when one is the beginning of the other |
| `EveryDifferenceListed` | `-l` writes each difference once, in order |
| `Refines` | `Cmp` implements `StreamCompare` |

The argument. `TypeOK` alone is not inductive: that `At(k)` is a byte needs
`i[k] <= r[k] <= off[k]` (`Window`). What the program is about is `Sync`,
`off[k] - r[k] + i[k] = byte - 1` for both streams: whatever each buffer
holds, both indices point at byte number `byte`. It survives a refill because
one is made only when `i[k] = r[k]`. `Fresh` says what an empty buffer means at
each statement: a buffer just filled and empty is that of an ended stream. From
these (`Placed`), `ComparesByte`: the two bytes compared are number `byte` of
each stream. On top of `Placed` stand `Matched` (the bytes before agree and
`line` counts their newlines), `Judged` (`ret` tells whether a difference lies
before `byte`, and no difference is left behind it when the loop ends) and
`Listed` (what is written and what is in `bufout`, together and in this order,
are the differences before `byte`). Each is proved inductive, one step per
action. The refinement maps `byte - 1` to the positions compared and
`out \o pend` to the log; `Match`, `List`, `Mismatch`, `SayEof` and the failures
map to the abstract steps, everything else to stuttering.

### head, cat and wc (`FiltersProofs`)

`HeadAssumption` asks for one entry in the queue and one byte in the buffer,
`WcAssumption` that the buffer holds a character (`BUFSIZ >= MB_CUR_MAX`);
`FiltersAssumption` adds that `Idle` is no count of `-n`, which tells `cat` after
`head` from `cat` alone.

| theorem | says, and from which invariant |
|---|---|
| `QueueNeverOverruns` | every entry stored in `iov` is within the array: `Queued`, the inductive form, adds that the queue is a sequence of header parts; after a header string the queue is written as soon as it is full, so one entry is always free for the data |
| `TerminalSeesHeader` | nothing is queued while standard input is waited for; inductive as it stands |
| `HeadsWritten` | `head` writes the headers and first lines of what it could open, in order: `HeadWrites` says that what is written and queued together (`out \o iov`) is the heads of the operands done, then as much of the header as is `part`, then of the stream from where it was taken up to `t`, and that `lines` is the count less the newlines in between; `HeadPlaced` has the offsets and which operand is open |
| `StdinHandedOver` | `head` and then `cat` on the same descriptor write the lines asked for and the rest, less what `head` had read and not printed: `HandedOver` carries the end `t` of what was printed and the place `b` where `cat` began, less than a buffer apart |
| `OperandsCopied` | `cat` writes each operand it read to the end whole, once and in its place: `CatCopied`, what is written and buffered is ordered by operand and position, and the part of each operand is a beginning of it, up to the offset for the one being read |
| `StreamsCounted` | rows and totals of `wc` are those of the whole streams: `WcAtByte`, the counts are those of the `got - r` bytes looked at, which do not end within a character (`CountedTo`); `WcRows`, the rows are right and the totals their sums |

The lemmas below these relate two ways to count: a loop over bytes that reads cut,
and the property's count in the stream. Newlines and characters are a `Tally`;
words are the ends of runs of marks, and `Looks` describes the one or two bytes that
one turn of a loop takes. That `cat` copies is stated by the set of what it has
written and its order, which says the same as a concatenation over the operands
and can be carried by an invariant.

### The launchers (`LaunchersProofs`)

`LaunchersAssumption`: nice values are a range of integers around 0, the results
of a utility are none of the model's other words.

| theorem | says, and from which invariant |
|---|---|
| `NiceValueHolds` | `nice` runs its utility at the value asked for: `Adjusted`, the value is the inherited one until the call and as near as the range allows behind it |
| `TimesCoverRun` | the times reported cover the run of a child that has ended: `Timed` relates both clock readings, the child's beginning and its end, in whatever order parent, child and clock step |
| `UtilityGetsDescriptors` | with all three descriptors open at the start, `nohup` replaces what is on a terminal and nothing else, and leaves the umask unless output goes to HOME: `Prepared` states, for each point of the program, which of output, errors and input are done and that the descriptors below the next free one are open |
| `EnvironmentSeen` | the utility of `env` gets, or the list shows, the last assignment of each name and, without `-i`, the entries no assignment names, each name once: `Assigned`, the array is what the `done` assignments so far ask for; while it is listed, the part printed and the part still there together are |
| `LaunchersServe` | `nohup`, `env` and `time` implement `Invocation`, the safety part that `StartsUtility` is: `Serves` has one inductive part for each program, and each step is shown to be an abstract step or a stutter |

### touch (`TouchProofs`)

`TouchAssumption`: times are numbers, no reading of a date is 0, the year 1900 lies before 1970, and there is an inode.

| theorem | says, and from which invariant |
|---|---|
| `EmptiesOnlyRaced` | a file with content is emptied only when the other process created it after `touch` found it missing: `Race`, whoever is about to call `creat()` and has a file there by now was raced |
| `OtherTimeLeft` | `-a` leaves the modification time, `-m` the access time: `Sorted`, the flags are those of the options read so far, and behind them the time not asked for is `UTIME_OMIT` |
| `TouchedWhenZero` | with a status of zero, and left alone, each operand is there or `-c` was given; and when the last `-d` or `-t` gives a full date in a zone that makes no difference to the code, the times asked for are that date. Nothing is said of the time of a plain `touch`, of which `touch_now` shows that it is the epoch. `Alone`, of which `Aimed` follows `times[]` through the options and `Behind` says that every operand dealt with is settled, which a later one of the same name does not undo |

The first two rest on `InodeSteps`: in every step each inode stays, is stamped, was
free, or the race is on.

### chown, chgrp, chmod and du (`WalksProofs`)

`WalksAssumption`: `Below[phys][n]`, the files a walk from `n` gets to, is closed
under the directories' content and the least such set; that the walk comes
to all of it when every directory can be opened, and to `Reached` when not, is what
the proofs show. For `du` the files also form a `Forest`: they
are finitely many names, each in one directory and no directory below itself.
Links may lead anywhere.

| theorem | says, and from which invariant |
|---|---|
| `OnlySelectedChange` | at no time is a file changed that the options, as the usage texts have them, do not select: `Chosen` says which row of the table is in use after any sequence of options, `WalkAsAsked` that on the command lines of `Covered` this row does what `-h`, `-H`, `-L` or `-P` ask, `ChangesSelected` that whatever is still to be visited is below the operand |
| `AllSelectedChange` | all of them that can be reached past directories that cannot be opened are changed when nothing failed: `WalkCovers`, every file a walk knows of has been changed or is still to be visited, so that when none is left the files changed hold the content of every directory that could be opened, and the least such set is among them |
| `FailuresTold` | `chgrp` and `chmod` exit with zero only then: `Told`, a failure at any depth of the walk has set `ret`, and `AllSelectedChange` does the rest |
| `TreeListed` | a `du` that exits with zero has listed the readable directories, or with `-a` all files, of the trees it was asked for and nothing else, once unless `-L` was given, and with `-a` the total is the sum of that and the operand's own blocks: `Listing`, `Summed` and, for what the options ask, `DuChosen` |

`Listing` counts: each file has as many rows as walks dealt with list it, and one
more when the walk under way has shown it (`Balanced`). The walk under way has
passed a set `V` (`Walking`): what is in the directories it could read it has passed
or has still to visit, and nothing in `V` comes again but what leads into a
directory already entered. The last is where it takes a forest, or, through links,
that `nftw` reports no directory twice: so no row is written a second time
(`ShownOnce`). At the end `V` holds the content of every directory
that could be read, and the least such set is what the walk had to list. `Summed`
adds up the rows. `DuChosen` relates `call.flags`, on the command lines of
`Covered`, to the options: what the program's own flags make it list is what the
property computes from the options and the tree alone.

### mkdir, rmdir, link, unlink (`DirsProofs`)

`TreeAssumption`: paths have parents, and `Way[x]`, the paths on the way to `x`, is the
least set with `x` and the parents of what is in it, and each of them but `x` is the
parent of another; operands are paths, `-p` is an option of `mkdir` and `rmdir` only,
and `link` has two operands and `unlink` one.

| theorem | says, and from which invariant |
|---|---|
| `OnlyNamedChange` | a step makes or removes a path only for a process that names it, or has it on the way under `-p`, and with the program for it: `OnTheWay` keeps each process on the way to its operand |
| `MkdirsTolerate` | any number of `mkdir -p` leave one another in peace: `Tolerance`, what a process has come by stays a directory, as none of them removes any |
| `DoneWhenZero` | a status of zero means that each operand was, at some time of the run, as it was asked to be: `Told`, one part for the operands dealt with (`Reached`), one for the directories `rmdir -p` has climbed from the operand to where it is (`Climbed`), one for the end; what has been seen stays seen, so the others need not be looked at |

### The single-shot programs (`CommandsProofs`)

`LineAssumption`: the NUL is no character of a name, and what is in memory before an
operand ends with one. `IdAssumption`: the members of groups are users.
`SttyAssumption`: no mode is called like a size or a speed, and "-" is no control
character's name. That is so in the tables of `stty.h`, and two lines of the
listing could not be told apart otherwise.

| theorem | says, and from which invariant |
|---|---|
| `PwdTruthful` | what `pwd` writes has led to the working directory: `OnePath`, a directory has one path at most, and `Found`, what each call found holds as long as nothing moved |
| `ConflictsHarmless` | conflicting requests have no effect (`Once`) |
| `WholeTableListed` | `kill -l` writes the whole table whatever the size of a batch: `Listing`, what is written is its beginning |
| `AskedSignalsSent` | the signal asked for is sent to each process in order: `Delivering` follows `optind` and `sigsend` through the three passes for each of the four forms a command may have, `Delivered` relates what is sent to the operands |
| `TimesAsked` | the clock is set to the year named or not at all (`Unset`, `YearSpelt`); what is left to sleep and what was slept add up (`Slept`) |
| `SuffixesStripped` | `basename` removes a suffix where the name ends with it and nothing else: `Named`; the work is `BasenameWrites`, that the comparison with memory finds a match exactly when the suffix does, since a NUL stops it before the name. A suffix equal to the whole name, and no operand, are left out |
| `OperandsSpelt` | what `echo` writes begins with what its operands spell, up to the first `\c`, octal zero, or octal and unknown escape together, and is that and a newline when there is none: `Echoed`, for each number of tokens that are clear of these what they spell is a prefix of what is written, and the whole of it while all tokens done are clear; the static string differs from what it was at the start only where an octal or an unknown escape was met |
| `GroupsListed` | `id` lists its user's groups and no others, each once but for those the databases give twice: `IdListing`, the groups listed are those due at the place of the scan, a repeated one was due twice, and what `pwd` points at is still the user; left out is an `id` without options whose entry the look-up of another effective user may overwrite |
| `SettingsTold` | the settings can be told from what `stty -a` writes: `Settled`; `SttyTellsSettings` goes through the listing part by part, each of whose lines cannot be taken for one of another |

In `Echo`, `Id` and `Stty` the listings are written with recursive functions and sets
of positions, not with `SelectSeq` or a fold over an operator: the provers cannot
use an operator that takes one as a parameter.

### Only model-checked

The liveness properties (`Terminates`, `Ends`): fairness and ENABLED are beyond the
prover. The `TypeOK` of the modules other than `Cmp` are checked by no run and no
theorem of their own; the inductive invariants contain the types they need.
The five runs that are violated show what does not hold, so there is nothing to
prove about them.

## Departures

Where the code does something a reader may not expect, the models do the same.
Besides the five violated runs, the rows below name what differs from the usage
texts or from POSIX, to which `readme.txt:5` claims to conform. Where such a
difference stands in the way of a property, the property keeps what the documents
ask and says nothing of the case:

| code | what it does | in the model |
|---|---|---|
| `cmp.c:93-109` | exits 0 when one file is the beginning of the other, where POSIX asks for a status above 0 | `Exit`; `StatusTellsCommonPart` says nothing of that status |
| `cmp.c:85` | a byte above 127 prints as eleven octal digits, three are reserved | `OctDigits`; `BufferBound` is conditional |
| `head.c:111` | exits 0 though an operand could not be opened | `Exit` |
| `head.c:85` | a count is truncated to `unsigned` | `Start`, modulo `UMod` |
| `head.c:86` | reads more of standard input than it prints, so that the next program misses it | `HandsOver`, fewer bytes than a buffer |
| `cat.c:53` | `rdwrout_flush` has no result, so nothing is left to `cat` when the last buffer cannot be written | `ErrorExit`: it is taken to end the program itself, as the library's other functions without a result do |
| `wc.c:157` | the last word is not counted when no blank follows | `Report`; `CountsWholeStream` asks for words that a blank ends |
| `wc.c:194` | without operands nothing is read | the empty list of operands |
| `nohup.c:35` | with descriptor 0 closed at the start, `nohup.out` becomes 0, and with 1 closed `dup(1)` fails | `Opened`, `Stderr`; `DescriptorsReplaced` is about all three open |
| `nohup.c:42-43` | no `/` between HOME and the name; the mode is combined with the old umask, which is left at 0 | `OpenHome`; `DescriptorsReplaced` exempts this umask |
| `nohup.c:39-42` | a HOME that just fits into `buf` leaves no room for the name, which is copied behind its end | `HomeOverruns`: an error, or the end of the program |
| `time.c:72,79` | with SIGCHLD ignored by its parent the status is read uninitialised | `ReturnValue`, any result |
| `nice.c:41` | a new nice value of -1 is taken for a failure | `Failed`; `NiceIsAsked` allows it |
| `touch.c:162-163` | `-r` puts seconds into the nanoseconds | `TimesAfter`; `ZeroMeansTouched` leaves `-r` out |
| `touch.c:127-133` | `-d` without a Z unsets TZ and so reads the date in the zone of the system, with a Z it reads it in the zone of TZ: the wrong way round | `TimesAfter`; `ZeroMeansTouched` speaks of dates whose zone makes no difference |
| `touch.c:63,103` | `parsetime()` leaves `tm_isdst` zero, so that `-t` is read in standard time | `TimesAfter`, `reading["standard"]` |
| `touch.c:114-123` | a fraction of a second is read as a day of the month, up to two digits, and multiplied by 10^9, which the system refuses | `OptionFails`, `TimesAfter` |
| `touch.c:66-69` | `-t MMDDhhmm.SS` is refused, `MMDDhhmm` means 1900 | `Rejected`, `TimesAfter`; `ZeroMeansTouched` asks for the date when a year is given |
| `chown.c:20` | a failure in the walk does not reach the status | `WalkFailureCounts`; `ZeroMeansAllChanged` is about `chgrp` and `chmod` |
| `chown.c:64` (`chgrp.c:61`) | `-R` replaces the entry by that of `-L`, so that behind `-H` or `-P` it undoes them; without any of the three it is `-L` | `NextOption`; `Covered` leaves `-R` behind `-H` or `-P` out |
| `chown.c:95` (`chgrp.c:89`, `chmod.c:70`) | under `-H`, and by `chmod`, an operand that is a link is changed but the walk does not follow it | `Begin`, `Pass`; `Covered` leaves it out |
| `chown.c:19`, `chgrp.c:19`, `chmod.c:18` | `info` is not looked at, so that a directory that cannot be opened (FTW_DNR) is changed, its content is not, and nothing is said of it, also by the status | `Pass`, `shut`; `ChangesAllSelected` and `ZeroMeansAllChanged` speak of the files that can be reached |
| `du.c:31` | under `FTW_CHDIR` the path given to `statvfs` is not relative to where the walk is, so that it fails below the first files and the status is one | `CanStat` |
| `du.c:26` | of a directory that cannot be opened, without `-a`, there is neither a row nor a message; a file that cannot be stat'ed (FTW_NS) passes `info & FTW_D` and is a failure | `Listed`, `VisitUnstated`; `ListsTree` asks for the readable ones |
| `du.c:119` | without `-H` and `-L` links are followed (the run `du_links`) | `phys`; `Covered` asks for a tree without links then |
| `du.c:79,86` | `-H` and `-L` undo an `-x` before them | `CallAfter`; `Covered` leaves that order out |
| `du.c:16,99` | `-s` is read, and refused with `-a`, but nothing else is done with it; `-k` changes no number | `NextOption`, `Conflict`; `Covered` leaves `-s` out, and no total is asked for with `-k` |
| `du.c:26-48` | without `-a` a file that is no directory is not counted either, so that the total leaves it out | `Visit`; `ListsTree` asks for the total with `-a` |
| `du.c:130,144` | the names read from an operand are looked up where `du` runs, not in the operand; an operand that is a link is not followed with `-H` or `-L` | `LookedUp`, `Open`; `Covered` leaves both out |
| `du.c:47` | a row about a link that is followed to a file has the blocks of that file | `StBlocks` |
| `du.c:151-153` | the total is never reset, an operand's own blocks are added again, and a total of 0 is not written | `Total`; `ListsTree` is about one operand |
| `kill.c:126` | a signal given as `-name` or `-number` ends with the usage message (the run `kill_dash`); behind `--` it is accepted | `OptionsEnd`, `LongOption` |
| `kill.c:62,163,164` | `-l exit_status` is unknown; after `-l` the operands are still signalled; an operand that is no number is signalled as 0, that is, kill's own process group | `DumpSigs`, `DumpEnd`, `Pid`, `SendToSelf` |
| `pwd.c:57` | with `-L` it writes `realpath()` of PWD, which holds no links, and not PWD itself | `Realpath`; `PwdNamesCwd` is about such paths: a `pwd -L` that wrote a link of PWD would need it to count links as names |
| `id.c:68,77` | `-n` gives `write_strings` no final NULL: what is read is undefined | `Undefined`, any end |
| `id.c:116` | the look-up of the effective user overwrites the entry of the caller, and that of a named user where `getpwnam` and `getpwuid` share storage, as POSIX lets them: the groups listed are then those of the effective user | `Left`; `IdListsGroups` leaves both out |
| `id.c:122` | a group is written as often as the databases name the user in it, the primary group also in front | `Scan`; `IdListsGroups` allows the repetition |
| `basename.c:38-40` | a longer suffix is compared with what lies before the name; a match there writes into it | `Memory`, `Killed` |
| `basename.c:39` | a suffix equal to the name leaves an empty line, where POSIX keeps the name | `Basename`; `BasenameStrips` leaves it out |
| `basename.c:33,37` | no operand is no error: `basename(NULL)` is called, and what is behind the end of `argv` is taken for a suffix | `given.operand`, `Killed` |
| `echo.c:10,26,56` | an octal escape replaces the backslash of later unknown escapes; one of value zero writes nothing, as its byte ends the string | `Octal`, `Str`; `EchoSpells` ends there |
| `echo.c:69-70` | nothing is written between operands, where POSIX asks for a blank | `Separator`; `EchoSpells` allows both |
| `echo.c:45` | the pointer `slashchar` stores through has no value | `Undefined` |
| `date.c:14,38-66` | after `usage()` the program goes on; months, days and hours are not checked; a date before 1970 by one second is an error | `DateUsage`, `SetDate`, `SetDateFails` |
| `stty.c:236,282-291` | 255 is shown like 127; operands are accepted and ignored | `Shown`, `Operands` |
| `mkdir.c:47-56` | without `-p` too, a directory that is there counts as made | `Exists`, `StatDir` |
| `rmdir.c:40` | the first failure ends the program | `RemoveFails` |

## Not modelled

- `cp`, `rm`, `cal`, `strings`, `expand`, `od`, `df`, `test`, `logger`: unfinished
  in the repository (`todo.txt`, or bodies that parse options and do nothing);
  there is no behaviour to hold them to. `who.c` does not compile.
- `true`, `false`: one call each.
- `tmpchown.c`, `tmpchgrp.c`, `tmpmkdir.c`, `fstest.c`, `testloop.c`: not built.
- The library (`lib/*.c`) is not in the repository; it is external.
- Inside the modelled programs: `cmp - -` (one descriptor read through two
  buffers), the columns of `wc`'s report, the format of `time`'s and of `date`'s,
  the parsing of modes and names, what `du` does with its block size (nothing), a
  `read` interrupted by a signal, the reordering of arguments by some `getopt`s,
  the modes `mkdir` gives, and what `basename` and `pwd` do when the system has no
  memory.

## Plan

Done: every program the Makefile builds that keeps a state, composed by the
resource they share; abstract specifications of `cmp` and of what a launcher owes;
proofs of every safety property, action property and refinement the runs check.

Next, in this order:

1. `cmp - -` as a second instance of `Cmp` in which the offsets are one, and which
   of its theorems are left.
2. The type invariants of the composed modules, as parts of the inductive
   invariants that are there.
3. A specification of the filters of the kind of `StreamCompare`, a stream copied
   position by position, which `cat` and `head` implement.
