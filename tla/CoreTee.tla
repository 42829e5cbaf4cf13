------------------------------ MODULE CoreTee ------------------------------
(***************************************************************************)
(* One run of crashinfo: main() of main.c copies the core it reads from    *)
(* descriptor 0 to the core output and feeds the same data, through the    *)
(* info pipe, to info_dump_thread(), which first asks the unwinder for the *)
(* PID (unw_prepare) and, once the outputs are open, writes the info       *)
(* stream (info_dump).  The core is a sequence of blocks 1, 2, .., size; a *)
(* block is the PIPE_BUF bytes a pipe takes atomically.  open_output(),    *)
(* read_proc_info() and the unwinder are reduced to their outcomes.        *)
(***************************************************************************)
EXTENDS Integers, Sequences, FiniteSets

CONSTANTS
  Sizes,      \* the possible lengths of the core, in blocks
  Needs,      \* the blocks unw_prepare may have to read before it knows the PID
  Wants,      \* the blocks the unwinder may read by the end of unw_dump
  BufSize,    \* sizeof buf (main.c:520), in blocks
  PipeCap,    \* capacity of the info pipe, in blocks
  MaxTries,   \* the 50 attempts of main.c:597
  Unwinds,    \* the builds: TRUE with CRASHINFO_WITH_LIBUNWIND, FALSE without
  Pids,       \* initial values of run.pid: NoPid, or OptPid when -P is given
  Stdins,     \* "core": descriptor 0 can be read; "none": core_path can't be opened
  Confs,      \* the /proc settings: what of proc_ignore, proc_path, proc_exe is set
  Faults      \* what may go wrong around the program in this run

NoPid  == -1      \* initial value of run.pid
BadPid == -2      \* the dumper thread could not find the PID
CorePid == 1      \* the PID stored in the core
OptPid == 2       \* the PID given by -P

FaultKinds == {"pipe", "fcntl", "thread", "unwind", "proc", "output", "write", "info", "read"}

ASSUME ConstantsAssumption ==
  /\ Sizes \subseteq Nat /\ Needs \subseteq Nat \ {0} /\ Wants \subseteq Nat
  /\ BufSize \in Nat \ {0} /\ PipeCap \in Nat \ {0} /\ MaxTries \in Nat \ {0}
  /\ Unwinds \subseteq BOOLEAN
  /\ Pids \subseteq {NoPid, OptPid}
  /\ Stdins \subseteq {"core", "none"}
  /\ Confs \subseteq [ignore : BOOLEAN, path : BOOLEAN, exe : BOOLEAN]
  /\ Faults \subseteq FaultKinds

VARIABLES
  unwind, stdin, size, need, want, conf,   \* the build and the inputs of the run
  mpc, tpc,                          \* where main and the dumper thread are
  tid,                               \* pthread_create: "unset", "failed", "running"
  held,                              \* main holds dump_lock
  pid,                               \* run.pid
  exe,                               \* conf.proc.exe is not NULL
  buf, rd, cut,                      \* main's buffer; the blocks read so far; the last read failed
  off, moved, tries,                 \* the feed: offset in buf, this write moved data
  pipe, writeEnd, readEnd,           \* the info pipe and whether its ends are open
  fed,                               \* the blocks the unwinder has taken from the pipe
  unwOk,                             \* core.ok of unw.c
  coreOut, lost,                     \* what the core output got; a write to it failed
  outs,                              \* the outputs that are open
  seen,                              \* the values of run.pid main has used
  logged                             \* the levels logmsg was called with

inputs   == <<unwind, stdin, size, need, want, conf>>
feedVars == <<buf, rd, cut, off, moved, tries>>
pipeVars == <<pipe, writeEnd, readEnd>>
thrVars  == <<tpc, fed, unwOk>>
outVars  == <<coreOut, lost, outs>>
vars == <<inputs, mpc, tid, held, pid, exe, feedVars, pipeVars, thrVars, outVars,
          seen, logged>>

Ended == {"exit", "failed", "killed"}    \* main returned, at the end or early; a signal
Alive == mpc \notin Ended

-----------------------------------------------------------------------------
Blocks(a, n) == [k \in 1..n |-> a + k]      \* n blocks of the core, after the first a
Lesser(a, b) == IF a <= b THEN a ELSE b
Room == PipeCap - Len(pipe)

(* safe_read(0, buf, sizeof buf): it fills the buffer unless the core ends or a   *)
(* read fails, which the callers can tell from an end when nothing was read, and  *)
(* do not: rtn is -1, and the next call may succeed.  When core_path could        *)
(* not be opened, pipe2 has given number 0 to the read end of the info pipe: read *)
(* blocks while this process itself keeps the write end open.                     *)
CanRead   == stdin = "core" \/ ~writeEnd
Available == Lesser(BufSize, size - rd)
ReadBlock ==
  /\ CanRead
  /\ \E n \in {Available} \union (IF "read" \in Faults THEN 0..Available ELSE {}) :
       /\ buf' = Blocks(rd, n)
       /\ rd' = rd + n
       /\ cut' = (n = 0 /\ rd < size)

(* safe_write(run.core.output_fd, buf, ..): every block, or only the first k      *)
(* because of an error, which nobody looks at.                                    *)
WriteCore ==
  \/ coreOut' = coreOut \o buf /\ lost' = lost
  \/ /\ "write" \in Faults
     /\ \E k \in 0..(Len(buf) - 1) : coreOut' = coreOut \o SubSeq(buf, 1, k)
     /\ lost' = TRUE

(* A write that starts again at the beginning of buf. *)
WritePipeBug ==
  LET n == Lesser(Len(buf) - off, Room) IN
    /\ pipe' = pipe \o SubSeq(buf, 1, n)
    /\ off' = off + n

(* One write() of the rest of buf to the info pipe: as much as there is room for. *)
WritePipe ==
  LET n == Lesser(Len(buf) - off, Room) IN
    /\ pipe' = pipe \o SubSeq(buf, off + 1, off + n)
    /\ off' = off + n

Init ==
  /\ unwind \in Unwinds
  /\ stdin \in Stdins /\ size \in Sizes /\ need \in Needs /\ want \in Wants
  /\ conf \in Confs
  /\ stdin = "none" => size = 0
  /\ mpc = "pipe" /\ tpc = "none" /\ tid = "unset"
  /\ held = TRUE
  /\ pid \in Pids
  /\ exe = conf.exe
  /\ buf = <<>> /\ rd = 0 /\ cut = FALSE /\ off = 0 /\ moved = FALSE /\ tries = 0
  /\ pipe = <<>> /\ writeEnd = FALSE /\ readEnd = FALSE
  /\ fed = <<>> /\ unwOk = FALSE
  /\ coreOut = <<>> /\ lost = FALSE /\ outs = {} /\ seen = {}
  /\ logged = IF stdin = "none" THEN {"crit"} ELSE {}

-----------------------------------------------------------------------------
(* main: the info pipe and the dumper thread, lines 582 to 628.               *)

(* pipe2(info_pipe) and unblockfd(info_pipe[1]); without them there is no     *)
(* thread and tid is never assigned.                                          *)
CreatePipe ==
  /\ mpc = "pipe"
  /\ \/ mpc' = "create" /\ writeEnd' = TRUE /\ readEnd' = TRUE /\ UNCHANGED logged
     \/ /\ "pipe" \in Faults
        /\ mpc' = "proc" /\ logged' = logged \union {"crit"}
        /\ UNCHANGED <<writeEnd, readEnd>>
     \/ /\ "fcntl" \in Faults
        /\ mpc' = "proc" /\ logged' = logged \union {"crit"}
        /\ writeEnd' = TRUE /\ readEnd' = TRUE
  /\ UNCHANGED <<inputs, tid, held, pid, exe, feedVars, pipe, thrVars, outVars, seen>>

StartThread ==
  /\ mpc = "create"
  /\ \/ mpc' = "read" /\ tid' = "running" /\ tpc' = "prepare" /\ UNCHANGED logged
     \/ /\ "thread" \in Faults
        /\ mpc' = "proc" /\ tid' = "failed" /\ logged' = logged \union {"crit"}
        /\ UNCHANGED tpc
  /\ UNCHANGED <<inputs, held, pid, exe, feedVars, pipeVars, fed, unwOk, outVars, seen>>

ReadFirst ==
  /\ mpc = "read"
  /\ ReadBlock
  /\ IF buf' = <<>>
       THEN mpc' = "proc" /\ logged' = logged \union {"crit"}
       ELSE mpc' = "feed" /\ UNCHANGED logged
  /\ UNCHANGED <<inputs, tid, held, pid, exe, off, moved, tries, pipeVars, thrVars,
                 outVars, seen>>

(* safe_write to the non-blocking pipe: write() until all is sent or EAGAIN.  *)
FeedWrite ==
  /\ mpc = "feed"
  /\ off < Len(buf) /\ Room > 0
  /\ WritePipe
  /\ moved' = TRUE
  /\ mpc' = IF off' = Len(buf) THEN "check" ELSE "feed"
  /\ UNCHANGED <<inputs, tid, held, pid, exe, buf, rd, cut, tries, writeEnd, readEnd, thrVars,
                 outVars, seen, logged>>

FeedStops ==
  /\ mpc = "feed"
  /\ off = Len(buf) \/ Room = 0
  /\ mpc' = "check"
  /\ UNCHANGED <<inputs, tid, held, pid, exe, feedVars, pipeVars, thrVars, outVars,
                 seen, logged>>

(* The attempts are used up; one more of them. *)
GivesUpBug(t) == t >= MaxTries + 1
GivesUp(t) == t >= MaxTries

(* The rest of the iteration: rtn > 0 iff the write moved data, rtn < 0 iff   *)
(* it met EAGAIN at once; a write of zero bytes returns 0.                    *)
FeedCheck ==
  /\ mpc = "check"
  /\ moved' = FALSE
  /\ LET t == IF moved THEN 0 ELSE tries
         again == ~moved /\ off < Len(buf) IN
     \/ /\ pid # NoPid
        /\ mpc' = "proc" /\ tries' = t
     \/ /\ pid = NoPid /\ again
        /\ tries' = t + 1
        /\ mpc' = IF GivesUp(t + 1) THEN "proc" ELSE "feed"
     \/ /\ pid = NoPid /\ ~again
        /\ tries' = t /\ mpc' = "feed"
  /\ UNCHANGED <<inputs, tid, held, pid, exe, buf, rd, cut, off, pipeVars, thrVars, outVars,
                 seen, logged>>

-----------------------------------------------------------------------------
(* main: /proc and the outputs, lines 630 to 672.                             *)

(* read_proc_info; "proc" stands for any of its failures, some of which come  *)
(* after proc_exe has been read.                                              *)
ReadProc ==
  /\ mpc = "proc"
  /\ mpc' = "openInfo"
  /\ seen' = seen \union {pid}
  /\ \/ conf.ignore /\ UNCHANGED <<exe, logged>>
     \/ ~conf.ignore /\ (conf.path \/ pid > 0) /\ exe' = TRUE /\ UNCHANGED logged
     \/ /\ ~conf.ignore /\ (conf.path \/ pid > 0) /\ "proc" \in Faults
        /\ exe' \in {exe, TRUE} /\ logged' = logged \union {"err"}
     \/ /\ ~conf.ignore /\ ~conf.path /\ ~(pid > 0)
        /\ logged' = logged \union {"err"} /\ UNCHANGED exe
  /\ UNCHANGED <<inputs, tid, held, pid, feedVars, pipeVars, thrVars, outVars>>

(* open_output for o and, for the info stream, fdopen.  A failure that leaves *)
(* no descriptor ends main early; main returns whatever the thread is doing.  *)
(* Expanding @e or @E in the name without an executable name is a crash.      *)
Open(o, at, next) ==
  /\ mpc = at
  /\ seen' = seen \union {pid}
  /\ \/ mpc' = next /\ outs' = outs \union {o} /\ UNCHANGED logged
     \/ /\ "output" \in Faults
        /\ mpc' = "failed" /\ outs' = {} /\ logged' = logged \union {"crit"}
     \/ ~exe /\ mpc' = "killed" /\ UNCHANGED <<outs, logged>>
  /\ UNCHANGED <<inputs, tid, held, pid, exe, feedVars, pipeVars, thrVars, coreOut, lost>>

OpenInfo == Open("info", "openInfo", "openCore")
OpenCore == Open("core", "openCore", "unlock")

Unlock ==
  /\ mpc = "unlock"
  /\ held' = FALSE /\ mpc' = "first"
  /\ UNCHANGED <<inputs, tid, pid, exe, feedVars, pipeVars, thrVars, outVars, seen, logged>>

-----------------------------------------------------------------------------
(* main: copying, lines 674 to 716.                                           *)

(* A main that copies only what it reads after the outputs are open; one that *)
(* goes on to write the block again.                                          *)
FirstCopySkips ==
  /\ mpc = "first" /\ mpc' = "send"
  /\ UNCHANGED <<inputs, tid, held, pid, exe, feedVars, pipeVars, thrVars, outVars, seen,
                 logged>>

FirstCopyTwice ==
  /\ mpc = "first" /\ mpc' = IF writeEnd THEN "copy" ELSE "loop"
  /\ WriteCore
  /\ UNCHANGED <<inputs, tid, held, pid, exe, feedVars, pipeVars, thrVars, outs, seen,
                 logged>>

(* The block read before the outputs were open.  Without libunwind the pipe   *)
(* is closed and the block is not written anywhere.                           *)
FirstCopy ==
  /\ mpc = "first"
  /\ \/ /\ writeEnd /\ unwind
        /\ WriteCore /\ mpc' = "send" /\ UNCHANGED writeEnd
     \/ /\ writeEnd /\ ~unwind
        /\ writeEnd' = FALSE /\ mpc' = "loop" /\ UNCHANGED <<coreOut, lost>>
     \/ /\ ~writeEnd
        /\ mpc' = "loop" /\ UNCHANGED <<coreOut, lost, writeEnd>>
  /\ UNCHANGED <<inputs, tid, held, pid, exe, feedVars, pipe, readEnd, thrVars, outs, seen,
                 logged>>

(* A write that ignores EPIPE; one to a pipe that is still non-blocking. *)
SendEndsBug == off = Len(buf) \/ ~writeEnd
SendEndsFull == off = Len(buf) \/ ~readEnd \/ ~writeEnd \/ Room = 0
SendEnds == off = Len(buf) \/ ~readEnd \/ ~writeEnd

(* safe_write to the now blocking pipe; it ends early with EPIPE when the     *)
(* thread has closed its end.                                                 *)
Send ==
  /\ mpc = "send"
  /\ ~SendEnds /\ Room > 0
  /\ WritePipe
  /\ UNCHANGED <<inputs, mpc, tid, held, pid, exe, buf, rd, cut, moved, tries, writeEnd,
                 readEnd, thrVars, outVars, seen, logged>>

Sent ==
  /\ mpc = "send"
  /\ SendEnds
  /\ mpc' = "loop"
  /\ UNCHANGED <<inputs, tid, held, pid, exe, feedVars, pipeVars, thrVars, outVars, seen,
                 logged>>

ReadNext ==
  /\ mpc = "loop"
  /\ ReadBlock
  /\ IF buf' # <<>>
       THEN mpc' = "copy" /\ off' = 0 /\ UNCHANGED writeEnd
       ELSE mpc' = "join" /\ writeEnd' = FALSE /\ UNCHANGED off
  /\ UNCHANGED <<inputs, tid, held, pid, exe, moved, tries, pipe, readEnd, thrVars,
                 outVars, seen, logged>>

CopyNext ==
  /\ mpc = "copy"
  /\ WriteCore
  /\ mpc' = "send"
  /\ UNCHANGED <<inputs, tid, held, pid, exe, feedVars, pipeVars, thrVars, outs, seen,
                 logged>>

(* A main that does not wait for the thread. *)
JoinBug ==
  /\ mpc = "join" /\ mpc' = "close"
  /\ UNCHANGED <<inputs, tid, held, pid, exe, feedVars, pipeVars, thrVars, outVars, seen,
                 logged>>

(* pthread_join.  -1 is no thread: the call faults.  An unset tid is whatever *)
(* was on the stack: the call faults or returns an error.                     *)
Join ==
  /\ mpc = "join"
  /\ \/ tid = "running" /\ tpc = "done" /\ mpc' = "close" /\ UNCHANGED logged
     \/ tid \in {"failed", "unset"} /\ mpc' = "killed" /\ UNCHANGED logged
     \/ tid = "unset" /\ mpc' = "close" /\ logged' = logged \union {"err"}
  /\ UNCHANGED <<inputs, tid, held, pid, exe, feedVars, pipeVars, thrVars, outVars, seen>>

(* close_output for both streams, the core first; the notify commands are     *)
(* started on the way out and are not waited for.                             *)
Close(o, at, next) ==
  /\ mpc = at /\ mpc' = next
  /\ outs' = outs \ {o}
  /\ UNCHANGED <<inputs, tid, held, pid, exe, feedVars, pipeVars, thrVars, coreOut, lost,
                 seen, logged>>

CloseCore == Close("core", "close", "closeInfo")
CloseInfo == Close("info", "closeInfo", "exit")

-----------------------------------------------------------------------------
(* info_dump_thread.                                                          *)

(* unw_prepare reads the pipe until it has the notes of the core.             *)
TakeBlock ==
  /\ pipe # <<>>
  /\ fed' = Append(fed, Head(pipe)) /\ pipe' = Tail(pipe)

AtEof == pipe = <<>> /\ ~writeEnd

PrepareRead ==
  /\ tpc = "prepare" /\ unwind /\ Len(fed) < need
  /\ TakeBlock
  /\ UNCHANGED <<inputs, mpc, tid, held, pid, exe, feedVars, writeEnd, readEnd, tpc, unwOk,
                 outVars, seen, logged>>

(* A thread that overrides -P. *)
SettledBug(ok) == IF ok THEN CorePid ELSE BadPid
Settled(ok) == IF pid # NoPid THEN pid ELSE IF ok THEN CorePid ELSE BadPid

(* unw_prepare returns: run.pid is set unless -P gave it.                     *)
Answer(ok, levels) ==
  /\ tpc = "prepare" /\ tpc' = "lock"
  /\ unwOk' = ok
  /\ pid' = Settled(ok)
  /\ logged' = logged \union levels
  /\ UNCHANGED <<inputs, mpc, tid, held, exe, feedVars, pipeVars, fed, outVars, seen>>

PrepareDone  == unwind /\ Len(fed) >= need /\ Answer(TRUE, {})
PrepareFails ==
  \/ ~unwind /\ Answer(FALSE, {})
  \/ unwind /\ Len(fed) < need /\ AtEof /\ Answer(FALSE, {"err"})

(* The core is not one that the unwinder understands.                         *)
UnwindFails == unwind /\ "unwind" \in Faults /\ Answer(FALSE, {"err"})

PassLock ==
  /\ tpc = "lock" /\ ~held
  /\ tpc' = "dump"
  /\ UNCHANGED <<inputs, mpc, tid, held, pid, exe, feedVars, pipeVars, fed, unwOk, outVars,
                 seen, logged>>

(* info_dump: fputy(conf.proc.exe) faults when there is no executable name.   *)
DumpCrash ==
  /\ tpc = "dump" /\ ~exe
  /\ mpc' = "killed"
  /\ UNCHANGED <<inputs, tid, held, pid, exe, feedVars, pipeVars, thrVars, outVars, seen,
                 logged>>

DumpRead ==
  /\ tpc = "dump" /\ exe /\ unwOk /\ Len(fed) < want
  /\ TakeBlock
  /\ UNCHANGED <<inputs, mpc, tid, held, pid, exe, feedVars, writeEnd, readEnd, tpc, unwOk,
                 outVars, seen, logged>>

(* info_dump returns, having perhaps logged, and the thread closes its end.   *)
DumpEnd ==
  /\ tpc = "dump" /\ exe
  /\ ~unwOk \/ Len(fed) >= want \/ AtEof
  /\ tpc' = "done" /\ readEnd' = FALSE /\ pipe' = <<>>
  /\ \/ UNCHANGED logged
     \/ "info" \in Faults /\ \E l \in {"err", "warn"} : logged' = logged \union {l}
  /\ UNCHANGED <<inputs, mpc, tid, held, pid, exe, feedVars, writeEnd, fed, unwOk, outVars,
                 seen>>

-----------------------------------------------------------------------------
Main ==
  \/ CreatePipe \/ StartThread \/ ReadFirst
  \/ FeedWrite \/ FeedStops \/ FeedCheck
  \/ ReadProc \/ OpenInfo \/ OpenCore \/ Unlock
  \/ FirstCopy \/ Send \/ Sent \/ ReadNext \/ CopyNext
  \/ Join \/ CloseCore \/ CloseInfo

Thread ==
  /\ Alive
  /\ \/ PrepareRead \/ PrepareDone \/ PrepareFails
     \/ PassLock \/ DumpCrash \/ DumpRead \/ DumpEnd

Terminated == ~Alive /\ UNCHANGED vars

Next == Main \/ Thread \/ (Alive /\ UnwindFails) \/ Terminated

Spec == Init /\ [][Next]_vars

(* Both threads are scheduled.  Nothing makes the unwinder fail while it      *)
(* waits for data, so UnwindFails is not among the steps that must come.      *)
FairSpec == Spec /\ WF_vars(Main) /\ WF_vars(Thread)
-----------------------------------------------------------------------------
(* Properties.                                                                *)

MainStates == {"pipe", "create", "read", "feed", "check", "proc", "openInfo", "openCore",
               "unlock", "first", "send", "loop", "copy", "join", "close", "closeInfo",
               "exit", "failed", "killed"}

ControlOK ==
  /\ mpc \in MainStates /\ tpc \in {"none", "prepare", "lock", "dump", "done"}
  /\ tid \in {"unset", "failed", "running"} /\ held \in BOOLEAN
  /\ outs \subseteq {"info", "core"}
  /\ logged \subseteq {"crit", "err", "warn"}

PidOK ==
  /\ conf \in [ignore : BOOLEAN, path : BOOLEAN, exe : BOOLEAN] /\ exe \in BOOLEAN
  /\ pid \in {NoPid, BadPid, CorePid, OptPid}
  /\ seen \subseteq {NoPid, BadPid, CorePid, OptPid}

BufferOK ==
  /\ stdin \in {"core", "none"} /\ size \in Nat
  /\ buf \in Seq(Nat) /\ Len(buf) <= BufSize
  /\ rd \in 0..size /\ cut \in BOOLEAN /\ off \in 0..BufSize
  /\ moved \in BOOLEAN /\ tries \in 0..MaxTries

PipeOK ==
  /\ need \in Nat /\ want \in Nat /\ unwind \in BOOLEAN
  /\ pipe \in Seq(Nat) /\ Len(pipe) <= PipeCap
  /\ writeEnd \in BOOLEAN /\ readEnd \in BOOLEAN
  /\ fed \in Seq(Nat) /\ unwOk \in BOOLEAN

CoreOK == coreOut \in Seq(Nat) /\ lost \in BOOLEAN

(* Every variable holds what the code can put there; the pipe, in particular, *)
(* never holds more than its capacity (a write only sends what fits).         *)
TypeOK == ControlOK /\ PidOK /\ BufferOK /\ PipeOK /\ CoreOK

(* What the unwinder has read, followed by what is still in the pipe, is the  *)
(* core from its beginning, with nothing left out or sent twice: the partial  *)
(* writes of the feed (buf_write) and the two later writes to the info pipe   *)
(* continue one another.                                                      *)
UnwinderSeesPrefix == fed \o pipe = Blocks(0, Len(fed) + Len(pipe))

(* An unwinder that runs to its end has been given every block it asked for   *)
(* that the core has, or that main could read of it, whatever the capacity of *)
(* the pipe and the moments at which main and the thread took their turns.    *)
UnwinderServed ==
  mpc = "exit" /\ tpc = "done" /\ unwOk
    => Len(fed) >= Lesser(want, IF cut THEN rd ELSE size)

(* With libunwind, and no failing write, the core output holds exactly the    *)
(* blocks of the input when main starts to wait for the thread; after a read  *)
(* that failed, exactly those that were read, a failed first one included.    *)
CoreCopied ==
  mpc \in {"join", "close", "closeInfo", "exit"} /\ unwind /\ ~lost
    => coreOut = Blocks(0, rd) /\ (rd = size \/ cut)

(* Whatever is lost to write errors, what the core output does hold is in the *)
(* order of the input and nothing is in it twice.                             *)
CoreInOrder == \A i, j \in 1..Len(coreOut) : i < j => coreOut[i] < coreOut[j]

(* The thread writes the info stream only while both outputs are open:        *)
(* dump_lock keeps it from starting early, pthread_join main from closing.    *)
DumpOwnsOutputs == tpc = "dump" /\ Alive => outs = {"info", "core"}

(* /proc, the name of the info output and the name of the core output all see *)
(* the same PID unless main stopped waiting for it: the thread does not       *)
(* change run.pid under main's feet.                                          *)
PidSettled == NoPid \notin seen => Cardinality(seen) <= 1

(* The strengthening that makes the properties above inductive.  held, the    *)
(* outputs and the ends of the pipe follow from where main is; the thread     *)
(* gets past the lock only when main has passed it on.                        *)
Feeding == {"create", "read", "feed", "check"}
Opening == Feeding \union {"pipe", "proc", "openInfo", "openCore", "unlock"}
Copying == {"first", "send", "loop", "copy"}
Closing == {"join", "close", "closeInfo", "exit"}

LockInv ==
  /\ mpc \in Opening => held
  /\ mpc \in Copying \union Closing => ~held
  /\ tpc \in {"dump", "done"} => ~held
  /\ mpc \in {"pipe", "create"} => tpc = "none"
  /\ tid = "running" <=> tpc # "none"
  /\ mpc \in {"close", "closeInfo", "exit"} => tpc \in {"none", "done"}
  /\ mpc \in {"unlock", "join"} \union Copying => outs = {"info", "core"}
  /\ mpc = "openCore" => outs = {"info"}
  /\ mpc \in {"pipe", "openInfo", "proc"} \union Feeding => outs = {}

PidInv == NoPid \notin seen => seen \subseteq {pid}

(* buf holds the blocks up to rd; what is in the pipe or has been read from   *)
(* it ends at offset off of buf, as long as both ends are open.               *)
BufInv ==
  /\ Len(buf) <= rd
  /\ buf = Blocks(rd - Len(buf), Len(buf))
  /\ mpc \in Opening \union Copying => off <= Len(buf)
  /\ mpc = "copy" => off = 0
  /\ mpc \in Closing => buf = <<>> /\ (rd = size \/ cut)
  /\ mpc \in Feeding \union {"pipe"} => tries < MaxTries

Over == mpc \in Closing \union Ended /\ (rd = size \/ cut)

CountInv ==
  /\ mpc = "pipe" => fed = <<>> /\ pipe = <<>>
  /\ writeEnd /\ readEnd =>
       /\ Len(fed) + Len(pipe) = rd - Len(buf) + off
       /\ mpc = "loop" => off = Len(buf)
  /\ unwind /\ readEnd /\ ~writeEnd => Over /\ Len(fed) + Len(pipe) = rd
  /\ tpc = "done" /\ unwOk => Len(fed) >= want \/ (Over /\ Len(fed) >= rd)

EndsInv ==
  /\ mpc = "pipe" => ~writeEnd /\ ~readEnd
  /\ mpc \in Feeding => writeEnd /\ readEnd
  /\ mpc \in Closing => ~writeEnd
  /\ mpc \in {"pipe", "create", "read"} => buf = <<>> /\ rd = 0 /\ off = 0
  /\ mpc \in {"proc", "openInfo", "openCore", "unlock", "first"} /\ ~writeEnd => buf = <<>>
  /\ ~readEnd => pipe = <<>>
  /\ tpc \in {"prepare", "lock", "dump"} => readEnd
  /\ unwOk => unwind

PipeInv == UnwinderSeesPrefix /\ CountInv /\ EndsInv

(* The core output is what has been read, up to the buffer not yet written.   *)
CoreInv ==
  unwind /\ ~lost =>
    /\ mpc \in {"send", "loop"} \union Closing => coreOut = Blocks(0, rd)
    /\ mpc \in {"copy"} => coreOut = Blocks(0, rd - Len(buf))
    /\ mpc \in Opening \union {"first"} => coreOut = <<>> /\ rd = Len(buf)

IndInv == TypeOK /\ LockInv /\ PidInv /\ BufInv /\ PipeInv /\ CoreInv

(* The unwinder can ask for more blocks than main's first buffer has.         *)
Starved == pid = NoPid /\ size > 0 /\ need > Lesser(size, BufSize)

(* Both of main and the thread being scheduled, crashinfo ends, also when the *)
(* thread stops reading while main is blocked on a full pipe.                 *)
Returns == (mpc = "pipe" /\ ~Starved) ~> ~Alive

(* The run as the promise of Tee sees it: it implements that promise when     *)
(* built with libunwind and as long as no write to the core output fails.     *)
Status ==
  CASE mpc = "exit" -> "done" [] mpc \in {"failed", "killed"} -> "failed" [] OTHER -> "running"

Promise == INSTANCE Tee WITH Ahead <- BufSize, core <- coreOut, status <- Status

ImplementsTee == Promise!Spec

(* What the documentation says; see the runs that expect a violation.         *)

(* crashinfo.1:232: the return value is 0 (nothing was logged) on success.    *)
ZeroMeansSuccess == mpc = "exit" /\ logged = {} => ~lost /\ ~cut

(* crashinfo.1:232-235: an error ends in a return value that says so.         *)
AlwaysReturns == <>~Alive
=============================================================================
