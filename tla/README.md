# crashinfo: specification, model checking and proofs

crashinfo is run by the kernel (`/proc/sys/kernel/core_pattern`) when a process
crashes. It reads the core from descriptor 0, writes it to the *core* output and,
from the same data and `/proc/<PID>`, writes a YAML *info* output. Both outputs can
be files, named by a pattern and numbered, and can go through a chain of filter
processes. This directory holds TLA+ models of that program, the TLC runs that
check them and the TLAPS proofs about them. All line numbers are those
of the source files.

## The system

| part | state | operations | interacts with |
|---|---|---|---|
| tee: `main` (main.c:518-720) | `buf`, `buf_read`, `buf_write`, `info_pipe`, `tid`, `run.pid`, `exitcode` | open the core, feed the unwinder, read /proc, open the outputs, copy, join, close | the dumper thread by `info_pipe`, `run.pid`, `dump_lock`, `pthread_join` |
| dumper thread (main.c:234-251), unwinder (unw.c), info writer (info.c) | `core.ok`, the position in the pipe, `run.info.output` | `unw_prepare`, wait for `dump_lock`, `info_dump`/`unw_dump` | `main`, as above; the log, which may go to the info output |
| output naming: `open_output`, `make_path` (main.c:93-111, 254-382) | `counter`, `mkdir`, `output_filename`, the file system | expand, open, next number, make the leading path | other runs of crashinfo, by the file system |
| filters: `open_output` from `opened:`, `spawn_proc`, `close_output` (main.c:128-228, 384-463) | `r->filter`, `output_fd`, who holds which pipe end, the children | pipe, fork, exec, kill, wait, notify | child processes, by pipes, signals and `waitpid` |
| arguments of children: `spawn_proc` (main.c:137-165) | `argv` | replace `@1` and `@2` | filters and notify commands |
| /proc: proc.c | `conf.proc.*`, `pidmap`, `run.proc_fd` | `read_proc_info`, `proc_pid_map`, `open_proc` | main fills it, the thread reads it |
| log: log.c | `exitcode`, stderr, syslog, the info output | `logmsg` | every part, from both threads |
| configuration: conf.c, the option loop (main.c:539-568) | `conf`, `run.pid` | `parse_file`, `parse_line`, one parser per kind of option | `read_proc_info` (proc_maps) |
| utilities: util.c | the descriptor of /dev/null | `open_devnull`, string helpers | |

What is hard in it:

* **Two threads and a pipe.** main feeds the first buffer to a non-blocking pipe
  while it waits for the PID, then sends the rest and all that follows to the same
  pipe, blocking, while the thread may stop reading at any time. `run.pid` is
  shared without a lock; the outputs are shared under `dump_lock` and the join.
* **Data handed on in pieces by three places** (main.c:604, 679, 691) that have to
  continue one another, and a first buffer that is written to the core output much
  later than it is read.
* **Several runs at once** that expand their output to the same name, and may be
  killed anywhere.
* **Child processes with copies of descriptors**, that stop early, fail or cannot be
  executed, and a setup that may fail when some of them already run.
* **Results nobody looks at**: reads and writes of the core, `blockfd`, `open_output`.
* **Shared without a lock**: `exitcode`, `run.info.output`, the table of descriptor
  numbers, and a stdio buffer of which every forked child has a copy.
* **State left half built by an early return**: `conf` and `pidmap` when a part of
  /proc cannot be read, the filters of an output.
* **An expansion in place**, where what is written follows what is still to be read.

`PROJECT.json` lists these hazards at their lines, with the properties that cover
them, or why none does yet.

## The modules

| module | models | properties |
|---|---|---|
| `CoreTee` | one run: `main` from opening the core to its return, and the dumper thread | safety, termination, refinement of `Tee` |
| `Tee` | abstract: what a run promises about the core | |
| `CoreTeeProofs`, `TeeProofs` | theorems about `CoreTee`; that it implements `Tee` | |
| `OpenOutputProofs`, `FilterChainProofs`, `ProcInfoProofs` (with `Options`), `InfoLogProofs`, `ExpandProofs`, `DescriptorsProofs` | theorems about these modules | |
| `OpenOutput` | `open_output`/`make_path` in several runs sharing a file system, and their writing | who writes where, numbering, termination, refinement of `Numbering` |
| `Numbering` | abstract: each run takes the first free number in one step | |
| `FilterChain` | the filters of one output from `pipe2` to `waitpid` | the data, reports, reaping, termination |
| `SpawnArgs` | the loop that builds `argv` | replaced words |
| `Options` | the options of the command line and of files, into `conf` | what `conf` means, reports |
| `ProcInfo` | `Options`, then `read_proc_info` and `proc_pid_map` | where values come from, reports, the map of PIDs |
| `InfoLog` | `logmsg` in both threads and in forked children, and the info stream | the exit code, use of the stream, its lines and messages |
| `Expand` | the wild cards of an output name | against a reading from the left |
| `Descriptors` | the numbers of all descriptors of both threads | what a number is when it is used |
| `MC*` | values of the constants for TLC | |

`ProcInfo` extends `Options`: its steps begin where the options end, on the same
`conf`, `run.pid` and exit code. The others meet at the abstractions each makes of the
rest: `CoreTee` takes the outcome of /proc from `ProcInfo`, `OpenOutput` the expanded
name from `Expand`, and `InfoLog` and `Descriptors` look at the threads of `CoreTee`
through the steps that touch the log, the stream or a number.

### CoreTee

A block stands for `PIPE_BUF` bytes, which a pipe takes atomically; the core is the
sequence of blocks 1, 2, .. `size`, so that order, loss and repetition show. `mpc`
and `tpc` are where main and the thread are, `pipe` what is in the info pipe,
`fed` (history) what the unwinder has taken from it, `coreOut` (history) what the
core output got, `seen` (history) the values of `run.pid` main has used, `cut` that the
last read failed or found nothing although the core goes on, `logged`
the levels of the messages, which is what `exitcode` holds. `held` is `dump_lock` as
main holds it; the thread locks and unlocks it at once, so it needs no more.

| action | code |
|---|---|
| `CreatePipe`, `StartThread` | main.c:583-591, with `pipe2`, `fcntl` or `pthread_create` failing |
| `ReadFirst` | main.c:592-596 |
| `FeedWrite`, `FeedStops`, `FeedCheck` | one `write()` of the feed; its end; the rest of the iteration, main.c:597-626 |
| `ReadProc`, `OpenInfo`, `OpenCore`, `Unlock` | main.c:630-672 |
| `FirstCopy`, `Send`, `Sent`, `ReadNext`, `CopyNext` | main.c:674-696, in both builds |
| `Join`, `CloseCore`, `CloseInfo` | main.c:698-704 |
| `PrepareRead`, `PrepareDone`, `PrepareFails`, `UnwindFails` | `unw_prepare` and main.c:239-242 |
| `PassLock`, `DumpRead`, `DumpEnd`, `DumpCrash` | main.c:244-248, `info_dump`, `unw_dump` |

With the fault `"read"`, `safe_read` may return less than a buffer, and nothing at all,
while the core goes on: a later call may then succeed, which is why the loop of
main.c:686 still copies what follows a failed first read.

libunwind is outside the program: it reads the pipe in order, wants `need` blocks
for the PID and up to `want` in all, and may fail at any time when `"unwind"` is a
fault. A NULL `conf.proc.exe` (no /proc, no `proc_exe`) is modelled as the crash it
is, a run that ends as "killed" (the handler of main.c:54 exits with 0x20). When
`core_path` cannot be opened the model keeps the fact that number 0 is given to the
info pipe.

### OpenOutput

Each of `Runs` is between `restart`/`reopen` ("open"), `make_path` ("mkdir"),
writing, and an end. A name is a number, the value of `counter`, mapped to a file
(`FileOf`) and its innermost directory (`SubOf`), depending on where `@Q` is. `open`
and `mkdir` are the atomic calls of the kernel, so every interleaving of the runs
is there. `Killed`, `OpenError` and `MakeDirError` are the failures.

### FilterChain

`parent` and `ends` are the pipe ends held by main and by each child, which is what
the end of a stream depends on: `Spawn` gives the child copies of all of main's,
`Exec` (with `O_CLOEXEC`) leaves it two, `CloseEnds` is main.c:433-434. The filters
copy, stop after `HeadLen` blocks (`head`), may go bad at any time, or are missing.
A filter is a process that reads a block, writes it, and dies of SIGPIPE when its
output has no reader. `KillNext`/`AllKilled` are the err1 path. Without filters main
writes to the file itself, and with the fault `"write"` any of these writes may fail
(`WriteFails`): `safe_write` gives up, nobody looks at the result (main.c:689), and later
blocks are written behind the gap. `refused` (history) is the blocks lost in this way.

### SpawnArgs

One action per turn of the loop of main.c:150-160, with words that are `@1`, `@2` or
something else.

### Options and ProcInfo

A line is a keyword, the kind of its value to the parser (`"none"`, `"clear"` for `~`,
`"good"`, `"tail"` with another word after it, `"bad"`, `"nomem"` when it cannot be
stored) and the value, an integer. One keyword stands for each parser, and the ones
/proc can supply (`proc_ignore`, `proc_path`, `proc_exe`, `proc_maps`) for themselves.
`ParseString` .. `ParseEnum` are the new value of an option also when the line is then
refused. A number is cut to an `int` of 2 * `IntHalf` values. `taken` (history) is the
lines accepted so far. `status` is the bits of the exit code; that of a warning of
`disable_core_generation`, which main calls first, is told apart as `Early`.

| action | code |
|---|---|
| `DirectLine`, `OpenFile`, `FileLine`, `FileEnd`, `LineTooLong`, `FileUnreadable` | main.c:541-550, conf.c:341-411 |
| `PidGiven`, `PidInvalid`, `Usage`, `UnknownOption`, `EndOfOptions` | main.c:551-571 |
| `TeeFails` | the failures on the way to /proc after which main goes on, main.c:578, 585, 588, 596 |
| `PidGuessed`, `UnwinderFails` | the dumper thread, main.c:239-242, unw.c:57-68 |
| `ProcIgnored`, `NoProcPath`, `ProcNotOpened`, `ProcOpened` | main.c:631-652 |
| `ReadExe`, `OpenMaps`, `ReadMapsLine`, `CloseMaps` and their failures | proc.c:74-117 |
| `OpenTask`, `StoreTask`, `SkipTask`, `TaskGone`, `TaskMalformed`, `LastTask` | proc.c:119-195 |
| `MapPid` | `proc_pid_map`, proc.c:198-209 |

An entry of `pidmap` that was never written holds `Junk`, and `MapPid` lets it match
any PID: memory from `realloc` is not initialised.

### InfoLog

`call[t]` is where thread t is in `logmsg`: the read of `exitcode`, its write, the
look at `run.info.output` and the use of it are steps of their own. The stream is a
`buffer` of `BufCap` pieces before a `file`; a piece is a comment, or the beginning or
the rest of a YAML line of `proc_dump` (info.c:122 and 128-138, separate calls). A
comment is put in at once, under `flockfile`. `Forks` gives a child a copy of the
buffer, which `execvp` drops and which `exit` (main.c:167) writes out. `found` and
`counted` are histories: the messages that found `run.info.output` set (log.c:81), and the
levels whose bit was written. main's own steps are those at which it opens, joins or closes.

### Expand

`path`, `i` and `j` are those of the code: the buffer with the name at its front, the
character to read next and the place to write next, both moving to the left. An
action is one turn of the loop of main.c:282-336, one for each case of its switch;
`PutText` and `PutName` are the two ways room is checked. `Escaped` is `is_escape`.
`conf.proc.exe` and the PID are texts, so that `@e`, `@E`, `@p` have lengths and
slashes. Bytes that were not written are `Blank`. Limits and numbers are ints, and
`IntLen` is the division by ten of `intlen` without its recursion: `MCExpand` has the
recursive function and assumes, for TLC to check, that both agree on the numbers around
the powers of ten.

### Descriptors

`table` says what each number is, `num` the number each variable holds, also after it
was closed. `open` gives the lowest free number, as the kernel does. main's steps and
those of the dumper thread (which opens, reads and closes proc files) interleave; a
use of a number that is something else by then is recorded in `wrong` with what was
found there. The feed before the outputs, `read_proc_info` and the children use only
numbers they opened themselves and close again, and are left out.

## The runs

Passing:

* **tee**: the build with libunwind, a core on descriptor 0. Shows that the unwinder
  is given a prefix of the core (`UnwinderSeesPrefix`), all it asks for
  (`UnwinderServed`), that the core is copied (`CoreCopied`), that the info stream is
  written between the opening and the closing of the outputs (`DumpOwnsOutputs`),
  that main uses one PID (`PidSettled`), that a run ends (`Returns`) and that all
  this implements `Tee`. Cores of 0, 1, 3 and 5 blocks with a buffer of 2 and a pipe
  of 1: empty, below, above and twice above the buffer with a short last read; the
  feed has to stop in the middle of a buffer, and both threads block on the pipe. An
  unwinder needs 1, 2 or 4 blocks (less than, exactly and more than a buffer) and
  wants none, some or all. Two attempts instead of 50: the loop counts, resets and
  gives up. Read and write errors and the failures after which main blocks for ever
  (`fcntl`, `pthread_create`) belong to the next run.
* **tee_faults**: both builds, an unreadable core and every fault, safety only.
  Checks the inductive invariant `IndInv` that the proofs use, and `CoreInOrder`: with
  failing writes the core output has gaps, but nothing twice or out of order; with
  failing reads it ends early.
  Deadlock is not checked: without a thread, main may block for ever on a full pipe
  nobody reads.
* **out**: three runs, at most one file from before, all modes, `@Q` absent, in the
  file or in the directory, limits 0 (none) and 2, so that three runs meet the limit,
  and two blocks of data, so that writes interleave. `OneWriter`, `DataKept`: nobody
  writes to another run's file except by appending, and nothing in a file is lost.
  `Gapless`, `GivesUpHonestly`: numbers are used in order, and a run gives up for
  the limit only when all are taken, and for a missing directory only without
  `mkdir` or in the one case where the code makes no second leading path. `Opens`: every run ends. `ImplementsNumbering`:
  in sequence mode the runs behave as if each took the first free number in one step.
  `MaxCounter` is above what three runs can reach and only caps an endless sequence.
* **chain**: up to three filters of every kind and streams of 0 or 3 blocks through
  pipes of one block: with three there is a middle filter, with a neighbour on each
  side to block or break it; with none, the file may refuse any of three blocks, so that
  a gap is followed by a block that is written. `FilePrefix`: the file always has, in order
  and once, a beginning of what a shell pipe would write, less exactly what the file itself
  refused. `LossReported`: if filters or the setup lose a part of it, or notify commands
  are started for an output that was not opened, the return value says so. Blocks the
  file refused are excepted: nothing reports these (doc_zero_exit).
  `AllReaped`: no filter is left when the notify commands start, on err1 either.
  `Closes`: `close_output` returns.
* **settings** (`ProcInfo`): up to three lines in all, over the command line and any
  number of files, each of every kind: enough to set, reset and set again a multi
  value option, or to set two options /proc would supply. `IntHalf` 4 stands for
  2^31, with one number inside and one outside the range. Three threads in a table
  that starts with one entry instead of 32, so that it grows twice and ends larger
  than what is in it (4 for 3); three lines of maps of which one is not executable.
  `ConfMeansLines`: `conf` is what crashinfo.1:81-87 says of the lines taken
  together, after each of them. `RefusalReported`: a line, file, PID or option that is
  refused has ended the program with a bit in the exit code, beyond that of the early
  warnings, and until the options are through nothing that is accepted sets one. Later
  messages (`TeeFails`, `UnwinderFails`) do not end the program and are outside of it.
  `OneSource`: the options and /proc are never mixed.
  `GapsReported`: what is missing in the end has been reported. `Translates`: all
  threads read are found, and, unless `read_proc_info` failed, none is taken for
  another.
* **log**: two messages of each thread besides those for errors it meets, of the two
  levels that main and the thread share and one without a bit; a buffer of two
  pieces, so that it overflows between the two parts of a line; one proc file; a
  filter and a notify command that may not be executable. Two messages per thread
  are what it takes to lose a bit and to log after the loss. `BitsHonest`: the exit
  code never has a bit too many and is 0 only if nobody logged anything that
  counts, although single bits get lost (doc_every_bit). `BitsStay`: after the join
  none is lost any more. `UsedWhileOpen`: neither thread uses the stream after it was
  closed, except after main has given up at main.c:669. `LinesUnbroken`: a message
  of main is never in the middle of a line of the dump. `MessagesKept`: a message
  that found `run.info.output` set is in the output once main has closed that, though
  main might close it between the look and the use; and it is there once and in the
  order of its thread, unless a child wrote a copy of the buffer. Both are about runs
  in which main does not give up at main.c:669: on that path it does not wait for the
  thread, whose messages may then be lost.
* **expand**: every name of a slash and up to four characters from `@`, the four wild
  cards and an ordinary one, so two wild cards side by side and runs of escapes up to
  four; four executables, with and without directories and ending in a slash; a PID
  of three digits; sequences without limit, and with limits on both sides of the steps
  from one digit to two and from two to three, as in t/stream_seq.t:32; buffers that are
  too small, just fit and are ample. `Expands`: the result is that of reading the name
  from the left, with `@Q` as wide as the last number below the limit, which is the rule
  of the test and not that of crashinfo.1:119-122 (see below). `SourceKept`: what
  is written never catches up with what is to be read. `RefusedForSize`: a name is
  refused only if it is too long for the buffer, up to three bytes.
* **fds**: both builds, the core on descriptor 0 or opened, both outputs as /dev/null,
  a file or a filter, and the failures that leave a stale or free number. Two
  blocks and two proc files make each side use a number the other gave up. Twelve
  numbers are more than are ever open. `OwnDescriptors`: in the build with libunwind
  and without those failures, every read, write and close reaches what it is meant
  for. `StraysHarmless`: in the other cases nothing is written to a wrong file but
  those the thread opened for reading (the write fails), and no output is closed by
  mistake.

Expected violations, each a statement of the documentation or a comment that the
code does not keep (details and quotations in `PROJECT.json`, "findings"):

| run | what the code does | where |
|---|---|---|
| doc_zero_exit | failed writes of the core, and failed reads but an empty first one, leave the return value 0 | main.c:677, 687, 689 |
| doc_core_path | an unreadable `core` option hangs the program | main.c:576 |
| doc_notify_args | all words but `@1` are replaced, then NULL is compared | main.c:155 |
| doc_every_bit | the bit of a message is lost when the other thread logs too | log.c:38 |

Other places where the code and its documentation differ, seen while modelling and
kept in the models as the code has them:

* Feeding does not stop when the buffer has run out, although the comment lists that
  as an end of the loop (main.c:598-601): writing nothing returns 0, which is neither
  progress nor an attempt, so main spins while the unwinder waits (main.c:614).
* Without libunwind the first buffer is not written to the core output (main.c:682),
  which should have the same data as was read (crashinfo.1:25-26).
* With `@Q` in a directory, only one leading path is made in a run (main.c:372 against
  crashinfo.1:153).
* A sequence ends one number before the documented maximum: with 2 the numbers are 0
  and 1 (main.c:367 against crashinfo.1:119-122 and 260; the test
  t/stream_seq.t and crashinfo.1:129 agree with the code).
* For the same reason `@Q` has one digit less than documented when the limit is a power of
  ten: with 100 the names are 00 to 99 (main.c:280, and t/stream_seq.t:32), where
  crashinfo.1:119-122 has 000 to 100.
* When the core output cannot be opened, main closes the info stream without waiting for
  the thread (main.c:669, 718), which may still log to it (log.c:81) or dump.
* A command that cannot be executed ends with `exit` (main.c:167), which writes out the
  child's copy of the info stream's buffer, so that its text is in the output twice.
* Notify commands run for outputs that failed to open (main.c:382, 706 against
  crashinfo.1:175-177).
* A message of the dumper thread itself is put in the middle of the line it is about
  (info.c:127).
* The PID is `@p` in the code (main.c:291) and its tests, `@P` in crashinfo.1:98.
* `proc_maps = ~` is refused (conf.c:269), although `~` is said to remove the values
  of a multi value option (crashinfo.1:86-87), and numbers are cut to an int without
  a message (conf.c:253).

### Fairness

* `CoreTee`: weak fairness of main's steps and of the thread's. Both are threads of one
  process with ordinary scheduling, and each call they block in returns when it can.
  Not assumed: that the unwinder fails (`UnwindFails` is not in `Thread`), so an
  unwinder that waits for data it will not be given makes main spin. `Returns`
  excludes that case (`Starved`). The producer of the
  core is the kernel or a file, and a read of it is assumed to return. That the
  unwinder goes on reading what it asked for, and then returns, is an assumption about
  libunwind.
* `OpenOutput`: each run's own steps; being killed and the errors are not forced.
* `FilterChain`: main and each filter; `GoesBad` is not forced. That a filter goes on
  reading and writing is an assumption about commands outside the program, a filter
  that hangs hangs `close_output`.

No strong fairness is used. `ProcInfo`, `InfoLog`, `Expand` and `Descriptors` are
checked for safety only; what may block in them is `CoreTee`'s.

## What is proved

TLC checks small instances; these theorems hold for every value of the constants,
under the named assumptions about them only (sizes are naturals, sets have members of
the right kind, and so on; TLC evaluates the assumptions in every run). Every
property the passing runs check is stated by one of them, except those named
under "Only model-checked".

| theorem | says |
|---|---|
| `CoreTeeProofs`, under `ConstantsAssumption` | |
| `Invariance` | `Spec => []IndInv` |
| `TypeCorrect` | `Spec => []TypeOK` |
| `PrefixSafe` | `Spec => []UnwinderSeesPrefix` |
| `Served` | `Spec => []UnwinderServed` |
| `Copied` | `Spec => []CoreCopied` |
| `OwnsOutputs` | `Spec => []DumpOwnsOutputs` |
| `PidFixed` | `Spec => []PidSettled` |
| `TeeProofs`, under the same | |
| `Implements` | `Spec /\ []Sound => ImplementsTee` |
| `Kept` | `Spec => ImplementsTee` in the build with libunwind when `"read"` and `"write"` are not among `Faults` |
| `KeepsOrder` | `Spec => []CoreInOrder` |
| `OpenOutputProofs`, under `RunsAssumption` | |
| `Invariance` | `Spec => []IndInv` |
| `TypeCorrect` | `Spec => []TypeOK` |
| `Alone` | `Spec => []OneWriter` |
| `NothingLost` | `Spec => DataKept` |
| `NoGap` | `Spec => []Gapless` |
| `NoFalseRefusal` | `Spec => []GivesUpHonestly` |
| `TakesFirstFree` | `Spec => ImplementsNumbering` |
| `FilterChainProofs`, under `ChainAssumption` | |
| `Invariance` | `Spec => []IndInv` |
| `TypeCorrect` | `Spec => []TypeOK` |
| `NothingStrange` | `Spec => []FilePrefix` |
| `NoSilentLoss` | `Spec => []LossReported` |
| `NoneLeft` | `Spec => []AllReaped` |
| `ProcInfoProofs`, under `OptionsAssumption` and `ProcAssumption` | |
| `Invariance` | `ProcSpec => []IndInv` |
| `TypeCorrect` | `ProcSpec => []TypeOK` |
| `RefusalsShow` | `ProcSpec => []RefusalReported` |
| `LinesMeanConf` | `ProcSpec => []ConfMeansLines` |
| `SourcesKeptApart` | `ProcSpec => []OneSource` |
| `GapsShow` | `ProcSpec => []GapsReported` |
| `MapIsRight` | `ProcSpec => []Translates` |
| `InfoLogProofs`, under `LogAssumption` | |
| `Invariance` | `Spec => []IndInv` |
| `StreamInvariance` | `Spec => [](StoreTypes /\ TextInv /\ ClosedInv /\ FoundInv)` |
| `TypeCorrect` | `Spec => []TypeOK` |
| `HonestCode` | `Spec => []BitsHonest` |
| `StreamUsedWhileOpen` | `Spec => []UsedWhileOpen` |
| `NoBitLostLate` | `Spec => BitsStay` |
| `LinesWhole` | `Spec => []LinesUnbroken` |
| `MessagesArrive` | `Spec => []MessagesKept` |
| `ExpandProofs`, under `ExpandAssumption` | |
| `Invariance` | `Spec => []IndInv` |
| `TypeCorrect` | `Spec => []TypeOK` |
| `NeverCatchesUp` | `Spec => []SourceKept` |
| `ExpandsRight` | `Spec => []Expands` |
| `RefusedOnlyForSize` | `Spec => []RefusedForSize` |
| `DescriptorsProofs`, under `DescriptorsAssumption` | |
| `Invariance` | `Spec => []IndInv` |
| `AllOwn` | `Spec => []OwnDescriptors` |
| `NoHarm` | `Spec => []StraysHarmless` |

### The tee

None of the last five properties of `CoreTeeProofs` is inductive. `IndInv` adds:

* `LockInv`: `held` and `outs` follow from where main is, and a thread past the lock
  means that main has passed it on; without it `PassLock` could happen early and
  `Join` could find a thread still at work (`DumpOwnsOutputs`).
* `PidInv`: once main has used a PID that is not -1, `run.pid` is still that one;
  `Answer` changes it only when it is -1.
* `BufInv`: `buf` is the blocks up to `rd`, so what is appended to a pipe or the output
  can be told by number.
* `PipeInv`: while both ends are open the blocks that went into the pipe end at offset
  `off` of `buf` (`CountInv`), which is why the next write continues them; `EndsInv`
  says in which phases the ends are open. When the write end is closed after the last
  read, all that was read went in (`Over`), hence `UnwinderServed`, with failing reads
  as well.
* `CoreInv`: the core output is what has been read, less a buffer still to be written.

The step is split by conjunct into `ControlStep`, `PidStep`, `BufferStep`, `EndsStep`,
`PrefixStep`, `CountStep` and `CoreStep`, each with one case per action that can
disturb it. They rest on lemmas about sequences of consecutive blocks (`BlocksAre`,
`BlocksExtend`, `BlocksConcat`, `MoveHead`, ..) and, from these, on what `ReadBlock`,
`WritePipe`, `TakeBlock` and `WriteCore` do (`ReadStep`, `WriteStep`, `TakeStep`,
`CopyStep`).

`TeeProofs` shows that every step of `CoreTee` is one of `Tee` or a stutter: a write
to the core output is `Write`, with a prefix as long as what has been read (`WritesOn`),
a read of the unwinder is `Feed` (`NextBlock`), and the two closings and the crash end
the run. `Tee` makes its promise for a run with libunwind in which no read and no write of
the core fails, which is `Sound`. Without libunwind the first buffer is not copied
(main.c:682) and with failing calls the output is short, so `Implements` has `[]Sound` as
a hypothesis on the run; `Kept` derives it where those two faults are excluded, and with all
the others (pipe, thread, /proc, outputs, unwinder) allowed. The run tee is such an
instance.

`KeepsOrder` needs no such hypothesis. `OrderInv` says that the core output is increasing
(`Rising`) and not beyond what has been read, less a buffer still to be written, which
makes whatever is appended next greater than all of it.

### The names of outputs

For any number of runs, any limit and any files from before. The inductive invariant
of `OpenOutputProofs` is:

* `WriterInv`: in the modes with `O_EXCL`, a run that writes has a file of its own, and
  its offset is the end of it. That no other run is in the file is not enough for
  `DataKept`: a `write()` at an offset appends only at the end. In append mode the
  end comes from `O_APPEND` (`PutAtEnd` is both cases).
* `NumberInv`: a run at number `counter` has found all before it taken, and the files
  are an interval from 0. The first number that is free is then the end of the interval,
  so that opening it keeps the interval (`NumberStep`), and a run that gives up at the
  limit has seen all numbers.
* `PathInv`: a run whose `mkdir` is used up has made the leading path of this or an
  earlier number. If the directory is then missing it was an earlier one, which only
  `@Q` in the directory can cause.

`Grows` (the settings stay, files, directories and counters only grow) is what makes
each of these stable under the steps of the other runs.

`TakesFirstFree` rests on them: the number `FirstFree` of `Numbering` is the size of the
interval, which is the number a run opens when `open` succeeds, so `OpenNew` is `Claim` and
all the tries before it are stutters; `LimitReached` is `Refuse`, as the run has seen all
numbers taken; a `Write` is `Put` because it is at the end of the run's own file.
`Bounds`, an invariant of its own, adds what `TypeOK` says beyond it: a file has the
directories it is in, and what is written and left to write adds up to the data.

### The filters

For any number of filters of any kind, pipes of any capacity, any stream, `pipe2` or
`fork` failing at any turn, and a file that refuses any of main's blocks. The inductive invariant of `FilterChainProofs` is:

* `SetupInv`: which filters exist follows from where main is and `cur`; main holds the
  ends it needs next; when main goes on with an output that failed to open, something severe has
  been logged and no filter is left.
* `ListInv`: `r->filter` has exactly the filters that may still have to be waited for.
  With `mpc = "end" => list = <<>>` this is `NoneLeft`: on the error path all that were
  started are killed and reaped, else `close_output` waits for all.
* `ChildInv`: a running filter holds its two ends and no other, and a filter that died
  of SIGPIPE has its successor gone before it. The first to go wrong is therefore not a
  victim, and leaves a bit when it is waited for.
* `FlowInv`: what a filter has passed on, holds and still finds in its pipe is, in this
  order and without a gap, what its predecessor has written. This gives that the
  file has the blocks from 1 on (`NothingStrange`), and none beyond what a `head` lets
  through.
* `GapInv`: without filters the file has, in order, what it did not refuse of the blocks
  main has written; with filters main never writes to the file.
* `OkInv`: a filter that ended well has passed on all the stream would give it (`Upto`),
  unless one before it went wrong. Applied to the last filter, this is `NoSilentLoss`.

### The options and /proc

For any set of options and kinds of lines, any number of lines and files, any threads,
mappings and initial size of the table. `ProcInfo` extends `Options`, so that one
invariant covers both:

* `SourceInv`: until /proc is read, `conf` is what the options gave (`asked`); afterwards
  an option of the two that /proc can supply is the one or the other. The mappings are, in
  order, those of the executable lines among the first `line` (`ExecAmong`).
* `BitsInv`: an early return of `read_proc_info` has left a bit. Its converse part, that
  nothing is missing when no bit is set, is what is inductive; `RefusalReported` is
  inductive as it stands: it ends where the options do, since the messages of the tee and
  of the unwinder set bits without ending the program.
* `TableInv`: the first `c` entries of `pidmap` are different tasks that were read, those
  behind them were not written, except for the namespace PID that `strtol` stored before
  the line turned out malformed; at the end `count` is `c` unless reading failed.
  The search of `proc_pid_map` then cannot stop early at a false entry, as
  PIDs in the namespace are unique (`ProcAssumption`).
* `MeansInv` is `ConfMeansLines`, which is inductive over the accepted lines: `LinesMore`
  and `InOrderMore` say what one more line does to the set of lines that count,
  `MeansMore` that each parser does the same to `conf`. What the manual means by a number
  too large is the only int congruent to it (`CutsOnce`), which `Cut` computes.

### The log

`InfoLogProofs` proves for any number of messages and any buffer: `BitInv` adds to
`BitsHonest` that a value of `exitcode` a thread has read but not yet written back has
only bits that were logged, and that the bit it will set is not nothing; so a lost
update loses a bit but never makes the code 0. `StreamInv` and `UseInv` tie the stream
to where main is: main logs only between the things it does, and the thread dumps only
while main copies or has given up. `RegInv` says that after the join nothing comes
between the read and the write of `exitcode`.

`TextInv` and `FoundInv` are about the text, that is the file with the buffer behind it:
flushing does not change it, so the capacity of the buffer does not matter. While a line
of the dump is open, the thread that dumps is about to write its end or a message of its
own, which is why no message of main gets in between; the messages of each thread are in
increasing order and below the last it can have put. A child that fails to execute its
command and writes out its copy is excluded, as in the properties.

`FoundInv` is what makes messages arrive: one that found `run.info.output` set is in the
text or about to be put there by its thread (`Putting`). No step takes a piece out of the
text (`Grows`); putting finds an open stream by `UseInv`, which rests on the join; and main
closes the stream only when no thread is about to put, after which the buffer is empty
(`ClosedInv`) and the text is the file.

### The expansion

`ExpandProofs` proves for every name, buffer, executable and PID that `j` stays at or
behind `i`, so what is still to be read is not written over. `GivenInv` and `PlaceInv`
say that both places are in the buffer, and `EscapedIsInside` that a wild card has its
`@` in front of it and the slash the name begins with in front of that. `SlashIsPlace` derives from well-foundedness
that the last slash of the executable exists; the check for room before a text is
copied, and that `@e` is looked at with one character more than it writes, do the rest
(`TextLengths`, `WriteBehind`).

`IntLenIs` says of all numbers of an int that `intlen` gives the least number of digits
with room for the number. As a number that has room for the last one below the limit has
room for each before it (`NumberFits`), the width of the code is that of the property
(`WidthIs`), for every limit.

That the result is right, `ExpandsRight`, compares the code, which goes from the right,
with `From`, a function that reads from the left. `WrittenInv` says that what has been
written is what `From` gives for the rest of the name, and `PairInv` that the
place reached does not part an escape from the character it belongs to. To decide
that, the code counts the escapes to the left, `From` pairs them from the left:
`RunsPair` says that both agree, because in a run of escapes those at odd places
open a pair. `From` is defined by recursion over the name; that such a function exists is
derived from its least counterexample (`FromExists`, `FromAt`), with the well-foundedness
of `<`, as the induction theorems of the library cannot be used here.

### The descriptors

For any number of blocks, proc files and numbers, as long as a table has room for all
that is ever open at once: `MaxFd >= 12` in `DescriptorsAssumption`, far below the
limit a process starts with. `OrderInv` says that the thread dumps only after main has
opened everything and is done before main closes, and that the numbers above what
main has opened are free, so that the lowest free number always exists
(`LowestIsFree`). `NumberInv` says that the number in a variable is that of its
descriptor, or is stale, and then is free or a file of the thread: the outputs are never
in reach of a stale number. `LiveInv` says for the build with libunwind that what is
still to be used is open.

### Only model-checked

* Liveness (`Returns`, `Opens`, `Closes`) and what depends on `ENABLED`, which the
  prover does not do.
* `SpawnArgs`, whose only statement is one the code violates, and the other expected
  violations.

For these the bounds of the runs matter; for everything else the run shows on an
instance what the theorem says of all.

## What is not modelled

* libunwind, the kernel, /proc and the filter commands, except as the environment
  above.
* The text of the info stream (info.c, the walk over threads and frames in unw.c, the
  quoting of YAML in util.c) and of log messages; stderr, syslog and the thresholds
  of log.c. They are written in the order of the code and nothing reads them back.
* The splitting of a line of the options into words, the conversion of numbers, and
  the lists of words of the enum options: a line has the kind of its value.
* `strftime` of the output name (main.c:279), whose result is not looked at; its
  output is what `Expand` begins with.
* The handler of fatal signals (main.c:53-57), except as the end of the run in
  `CoreTee`.
* The two outputs of one run together, with the processes of their filters:
  `FilterChain` has one output, `Descriptors` both, but not what the filters do.
* The test program t.c, the build files and the tests: no part of the program.

## Plan

Done: 1. `CoreTee` with `Tee` and its proofs. 2. `OpenOutput` with `Numbering`.
3. `FilterChain`. 4. `SpawnArgs`. 5. `Options` and `ProcInfo`. 6. `InfoLog`.
7. `Expand`. 8. `Descriptors`. 9. Proofs about all of them but `SpawnArgs`, with the
refinements of `Tee` and `Numbering`.

Next, in this order:

10. An abstract specification of one output (a beginning of the filtered stream, complete
    or reported, unless the file refuses blocks), and that `FilterChain` implements it.
11. `FilterChain` with two outputs, for the ends that one leaves open in the other's
    children (main.c:446-457).
12. The words `SpawnArgs` does replace, as an invariant for every command.
