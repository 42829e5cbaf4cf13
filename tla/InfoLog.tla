------------------------------ MODULE InfoLog ------------------------------
(***************************************************************************)
(* logmsg() of log.c, called by main and by the dumper thread, and the info *)
(* stream that it shares with info_dump() of info.c.  A message leaves a    *)
(* bit in exitcode, which is read and written without a lock, and a comment *)
(* in the stream while that is open.  The stream is a stdio buffer in front *)
(* of a file: a child forked meanwhile has a copy of the buffer, and exit() *)
(* in a child that could not be executed writes the copy out.               *)
(*                                                                          *)
(* What is written is a sequence of pieces: a comment, a line of YAML, or   *)
(* the beginning and the end of a line that are written by separate calls.  *)
(***************************************************************************)
EXTENDS Integers, Sequences, FiniteSets, SequencesExt

CONSTANTS
  MaxLogs,      \* messages of main, messages of the thread besides its own errors
  MaxItems,     \* proc files in proc_dump
  BufCap,       \* pieces in the buffer (OUT_BUFSIZE)
  WithBit,      \* the levels that have a bit in the exit code: warning and above
  Unreadable,   \* TRUE: a proc file may fail to open
  Faults        \* subset of {"thread", "info", "core", "exec"}

ASSUME LogAssumption ==
  /\ MaxLogs \in Nat /\ MaxItems \in Nat /\ BufCap \in Nat \ {0}
  /\ {"crit", "err"} \subseteq WithBit /\ "notice" \notin WithBit
  /\ Unreadable \in BOOLEAN
  /\ Faults \subseteq {"thread", "info", "core", "exec"}

Threads  == {"main", "dumper"}
Children == {"filter", "notify"}      \* a core filter, a core notify command
Levels   == WithBit \union {"notice"}

VARIABLES
  exitcode,     \* the levels whose bit is set
  call,         \* logmsg in each thread
  sent,         \* messages each has logged
  mpc, dpc,     \* where main and the thread are
  output,       \* run.info.output is not NULL
  stream,       \* the FILE behind it
  buffer, file, \* the pieces in the buffer and in the output
  items,        \* the proc files dumped
  child,        \* each child: its state and its copy of the buffer
  counted,      \* the levels whose bit has been written
  found         \* the messages that found the stream there

streamVars == <<output, stream, buffer, file>>
places     == <<mpc, dpc, items, child>>
history    == <<counted, found>>
vars == <<exitcode, call, sent, places, streamVars, history>>

Idle == [at |-> "idle", level |-> "notice", reg |-> {}]
NoChild == [at |-> "none", copy |-> <<>>]

Piece(kind, who, n) == <<kind, who, n>>
IsComment(p) == p[1] = "comment"
IsBegin(p)   == p[1] = "begin"

Init ==
  /\ exitcode = {} /\ call = [t \in Threads |-> Idle] /\ sent = [t \in Threads |-> 0]
  /\ mpc = "early"
  /\ dpc \in {"prepare"} \union (IF "thread" \in Faults THEN {"none"} ELSE {})
  /\ output = FALSE /\ stream = "none" /\ buffer = <<>> /\ file = <<>>
  /\ items = 0 /\ child = [x \in Children |-> NoChild]
  /\ counted = {} /\ found = {}

(* stdio: a piece that does not fit has the buffer written out.               *)
Put(p) ==
  IF Len(buffer) < BufCap THEN buffer' = Append(buffer, p) /\ UNCHANGED file
                          ELSE buffer' = <<p>> /\ file' = file \o buffer

-----------------------------------------------------------------------------

(* logmsg.  The bit is set by a read and a write of exitcode.                 *)
HasBit(level) == level \in WithBit

LogCall(t, level) ==
  /\ call[t].at = "idle"
  /\ call' = [call EXCEPT ![t] = [at |-> IF HasBit(level) THEN "read" ELSE "check",
                                  level |-> level, reg |-> {}]]
  /\ sent' = [sent EXCEPT ![t] = @ + 1]

ReadBits(t) ==
  /\ call[t].at = "read"
  /\ call' = [call EXCEPT ![t].at = "write", ![t].reg = exitcode]
  /\ UNCHANGED <<exitcode, sent, places, streamVars, history>>

(* A level that sets the bit of the next. *)
WriteBitsBug(t) ==
  /\ call[t].at = "write"
  /\ exitcode' = call[t].reg \union (IF call[t].level = "err" THEN {"crit"} ELSE {call[t].level})
  /\ counted' = counted \union {call[t].level}
  /\ call' = [call EXCEPT ![t].at = "check"]
  /\ UNCHANGED <<sent, places, streamVars, found>>

WriteBits(t) ==
  /\ call[t].at = "write"
  /\ exitcode' = call[t].reg \union ({call[t].level} \intersect WithBit)
  /\ counted' = counted \union ({call[t].level} \intersect WithBit)
  /\ call' = [call EXCEPT ![t].at = "check"]
  /\ UNCHANGED <<sent, places, streamVars, found>>

(* log.c:81: the stream is looked for, and used when it was there.            *)
Comment(t) == Piece("comment", t, sent[t])

CheckOutput(t) ==
  /\ call[t].at = "check"
  /\ call' = [call EXCEPT ![t].at = IF output THEN "put" ELSE "idle"]
  /\ found' = IF output THEN found \union {Comment(t)} ELSE found
  /\ UNCHANGED <<exitcode, sent, places, streamVars, counted>>

(* The comment is put in whole, between flockfile and funlockfile.  What      *)
(* happens to a stream that has been closed is not known.                     *)
PutComment(t) ==
  /\ call[t].at = "put"
  /\ call' = [call EXCEPT ![t].at = "idle"]
  /\ IF stream = "open" THEN Put(Comment(t)) ELSE UNCHANGED <<buffer, file>>
  /\ UNCHANGED <<exitcode, sent, places, output, stream, history>>

Logmsg(t) == ReadBits(t) \/ WriteBits(t) \/ CheckOutput(t) \/ PutComment(t)

-----------------------------------------------------------------------------
(* main.  It may log wherever it opens or closes something.                   *)
MainAt(label) == mpc = label /\ call["main"].at = "idle"

MainLogs ==
  /\ mpc \in {"early", "opened", "joined", "late"} /\ sent["main"] < MaxLogs
  /\ \E level \in Levels : LogCall("main", level)
  /\ UNCHANGED <<exitcode, places, streamVars, history>>

OpenInfo ==
  /\ MainAt("early")
  /\ mpc' = "opened" /\ output' = TRUE /\ stream' = "open"
  /\ UNCHANGED <<exitcode, call, sent, dpc, items, child, buffer, file, history>>

(* Not even /dev/null could be opened, or fdopen failed.                      *)
OpenInfoFails ==
  /\ MainAt("early") /\ "info" \in Faults
  /\ mpc' = "end"
  /\ UNCHANGED <<exitcode, call, sent, dpc, items, child, streamVars, history>>

Forks(x) == child' = [child EXCEPT ![x] = [at |-> "forked", copy |-> buffer]]

(* open_output for the core starts a filter.                                  *)
ForkFilter ==
  /\ MainAt("opened") /\ child["filter"].at = "none"
  /\ Forks("filter")
  /\ UNCHANGED <<exitcode, call, sent, mpc, dpc, items, streamVars, history>>

OpenCore ==
  /\ MainAt("opened")
  /\ mpc' = "copy"
  /\ UNCHANGED <<exitcode, call, sent, dpc, items, child, streamVars, history>>

OpenCoreFails ==
  /\ MainAt("opened") /\ "core" \in Faults
  /\ mpc' = "err1"
  /\ UNCHANGED <<exitcode, call, sent, dpc, items, child, streamVars, history>>

(* A main that closes the streams without waiting for the thread. *)
JoinBug ==
  /\ MainAt("copy")
  /\ mpc' = "joined"
  /\ UNCHANGED <<exitcode, call, sent, dpc, items, child, streamVars, history>>

(* pthread_join; the copying before it logs nothing.                          *)
Join ==
  /\ MainAt("copy") /\ dpc \in {"none", "done"}
  /\ mpc' = "joined"
  /\ UNCHANGED <<exitcode, call, sent, dpc, items, child, streamVars, history>>

(* close_output for the core: the filter is waited for, a failed one logged,  *)
(* and a notify command is started.                                           *)
WaitFilter ==
  /\ MainAt("joined") /\ child["filter"].at \in {"ok", "failed"}
  /\ child' = [child EXCEPT !["filter"].at = "none"]
  /\ IF child["filter"].at = "failed"
       THEN LogCall("main", "err")
       ELSE UNCHANGED <<call, sent>>
  /\ UNCHANGED <<exitcode, mpc, dpc, items, streamVars, history>>

ForkNotify ==
  /\ MainAt("joined") /\ child["filter"].at = "none" /\ child["notify"].at = "none"
  /\ Forks("notify")
  /\ UNCHANGED <<exitcode, call, sent, mpc, dpc, items, streamVars, history>>

CoreClosed ==
  /\ MainAt("joined") /\ child["filter"].at = "none"
  /\ mpc' = "close"
  /\ UNCHANGED <<exitcode, call, sent, dpc, items, child, streamVars, history>>

(* close_output for the info stream: fflush, fclose, and then NULL.           *)
CloseStream ==
  /\ MainAt("close") \/ MainAt("err1")
  /\ file' = file \o buffer /\ buffer' = <<>>
  /\ stream' = "closed"
  /\ mpc' = IF mpc = "close" THEN "closed" ELSE "err1closed"
  /\ UNCHANGED <<exitcode, call, sent, dpc, items, child, output, history>>

SetNull ==
  /\ MainAt("closed") \/ MainAt("err1closed")
  /\ output' = FALSE
  /\ mpc' = IF mpc = "closed" THEN "late" ELSE "end"
  /\ UNCHANGED <<exitcode, call, sent, dpc, items, child, stream, buffer, file, history>>

Return ==
  /\ MainAt("late")
  /\ mpc' = "end"
  /\ UNCHANGED <<exitcode, call, sent, dpc, items, child, streamVars, history>>

-----------------------------------------------------------------------------
(* The dumper thread: unw_prepare, dump_lock, and info_dump.                  *)
DumperAt(label) == dpc = label /\ call["dumper"].at = "idle"

DumperLogs ==
  /\ dpc \in {"prepare", "dump", "flush"} /\ sent["dumper"] < MaxLogs
  /\ \E level \in Levels : LogCall("dumper", level)
  /\ UNCHANGED <<exitcode, places, streamVars, history>>

(* A lock that is given up before the core output is opened. *)
PassLockBug ==
  /\ DumperAt("prepare") /\ stream = "open"
  /\ dpc' = "dump"
  /\ UNCHANGED <<exitcode, call, sent, mpc, items, child, streamVars, history>>

PassLock ==
  /\ DumperAt("prepare") /\ mpc \in {"copy", "joined", "close", "closed", "late"}
  /\ dpc' = "dump"
  /\ UNCHANGED <<exitcode, call, sent, mpc, items, child, streamVars, history>>

(* proc_dump: the name of a file, and its value in another call.              *)
Writes(p) == IF stream = "open" THEN Put(p) ELSE UNCHANGED <<buffer, file>>

(* A list of proc files that is read one entry past its end. *)
ItemNameBug ==
  /\ DumperAt("dump") /\ items <= MaxItems
  /\ items' = items + 1
  /\ Writes(Piece("begin", "dumper", items + 1))
  /\ dpc' = "named"
  /\ UNCHANGED <<exitcode, call, sent, mpc, child, output, stream, history>>

ItemName ==
  /\ DumperAt("dump") /\ items < MaxItems
  /\ items' = items + 1
  /\ Writes(Piece("begin", "dumper", items + 1))
  /\ dpc' = "named"
  /\ UNCHANGED <<exitcode, call, sent, mpc, child, output, stream, history>>

ItemUnreadable ==
  /\ DumperAt("named") /\ Unreadable
  /\ LogCall("dumper", "err")
  /\ dpc' = "failed"
  /\ UNCHANGED <<exitcode, mpc, items, child, streamVars, history>>

ItemValue ==
  /\ DumperAt("named") \/ DumperAt("failed")
  /\ Writes(Piece("rest", "dumper", items))
  /\ dpc' = "dump"
  /\ UNCHANGED <<exitcode, call, sent, mpc, items, child, output, stream, history>>

Flush ==
  /\ DumperAt("dump") /\ items = MaxItems
  /\ IF stream = "open" THEN file' = file \o buffer /\ buffer' = <<>> ELSE UNCHANGED <<buffer, file>>
  /\ dpc' = "flush"
  /\ UNCHANGED <<exitcode, call, sent, mpc, items, child, output, stream, history>>

DumpEnds ==
  /\ DumperAt("flush")
  /\ dpc' = "done"
  /\ UNCHANGED <<exitcode, call, sent, mpc, items, child, streamVars, history>>

-----------------------------------------------------------------------------
(* A child: execvp gives up its memory; when it fails, the message goes to    *)
(* the child's copy of the stream, and exit(1) writes that out.               *)
Exec(x) ==
  /\ child[x].at = "forked"
  /\ child' = [child EXCEPT ![x] = [at |-> "ok", copy |-> <<>>]]
  /\ UNCHANGED <<exitcode, call, sent, mpc, dpc, items, streamVars, history>>

ExecFails(x) ==
  /\ child[x].at = "forked" /\ "exec" \in Faults
  /\ file' = file \o child[x].copy \o <<Piece("comment", x, 1)>>
  /\ child' = [child EXCEPT ![x].at = "failed"]
  /\ UNCHANGED <<exitcode, call, sent, mpc, dpc, items, output, stream, buffer, history>>

Running == mpc # "end"

Main ==
  \/ Logmsg("main") \/ MainLogs
  \/ OpenInfo \/ OpenInfoFails \/ ForkFilter \/ OpenCore \/ OpenCoreFails \/ Join
  \/ WaitFilter \/ ForkNotify \/ CoreClosed \/ CloseStream \/ SetNull \/ Return

Dumper ==
  \/ Logmsg("dumper") \/ DumperLogs \/ PassLock
  \/ ItemName \/ ItemUnreadable \/ ItemValue \/ Flush \/ DumpEnds

Next ==
  \/ Running /\ Main
  \/ Running /\ Dumper
  \/ \E x \in Children : Exec(x) \/ ExecFails(x)
  \/ ~Running /\ UNCHANGED vars

Spec == Init /\ [][Next]_vars
-----------------------------------------------------------------------------
MainLabels == {"early", "opened", "copy", "joined", "close", "closed", "late", "err1", "err1closed", "end"}
DumperLabels == {"none", "prepare", "dump", "named", "failed", "flush", "done"}
Pieces == {"comment", "begin", "rest"} \X (Threads \union Children) \X Nat

(* Every variable has its type, and the buffer its size.                      *)
TypeOK ==
  /\ exitcode \subseteq WithBit /\ counted \subseteq WithBit
  /\ call \in [Threads -> [at : {"idle", "read", "write", "check", "put"},
                            level : Levels, reg : SUBSET WithBit]]
  /\ sent \in [Threads -> Nat]
  /\ mpc \in MainLabels /\ dpc \in DumperLabels
  /\ output \in BOOLEAN /\ stream \in {"none", "open", "closed"}
  /\ buffer \in Seq(Pieces) /\ Len(buffer) <= BufCap /\ file \in Seq(Pieces)
  /\ items \in 0..MaxItems
  /\ child \in [Children -> [at : {"none", "forked", "ok", "failed"}, copy : Seq(Pieces)]]
  /\ found \subseteq Pieces

(* crashinfo.1:232: the exit code has no bit for a level that nobody logged,  *)
(* and it is 0 only when nothing from warning up was logged by either thread, *)
(* although the update of one can undo the other's.                           *)
BitsHonest == exitcode \subseteq counted /\ (exitcode = {} => counted = {})

(* crashinfo.1:232-235: the exit code has a bit for each level that was       *)
(* logged.                                                                    *)
EveryBit == mpc = "end" => counted \subseteq exitcode

(* Once the thread has been joined no bit is lost any more.                   *)
AfterJoin == mpc \in {"joined", "close", "closed", "late"}
BitsStay == [][AfterJoin => exitcode \subseteq exitcode']_vars

(* Neither thread uses the stream after main has closed it, unless main gave  *)
(* up because the core output could not be opened.                            *)
Uses == (\E t \in Threads : call[t].at = "put") \/ dpc \in {"dump", "named", "failed"}
UsedWhileOpen == Uses => stream = "open" \/ mpc \in {"err1closed", "end"}

AChildFailed == \E i \in 1..Len(file) : file[i][2] \in Children
Text == file \o buffer

(* A line of the dump is not broken by a message of main: the messages of     *)
(* main come before the thread starts to dump and after it has ended.         *)
LinesUnbroken ==
  ~AChildFailed =>
    \A i \in 1..(Len(Text) - 1) : IsBegin(Text[i]) => Text[i + 1][2] = "dumper"

(* log.c:81: a message that found the stream there is in the output when main *)
(* has closed that, although main may close it between the look and the use;  *)
(* and it is there once and in the order of its thread, unless a child that   *)
(* could not be executed wrote its copy of the buffer as well.  When main     *)
(* gives up on the core output (main.c:718) it does not wait for the thread,  *)
(* and of what is lost then this says nothing.                                *)
CommentOf(p, t) == IsComment(p) /\ p[2] = t

MessagesKept ==
  /\ mpc \in {"closed", "late"} => found \subseteq Range(file)
  /\ stream = "closed" /\ ~AChildFailed =>
       \A t \in Threads : \A i, j \in 1..Len(file) :
         i < j /\ CommentOf(file[i], t) /\ CommentOf(file[j], t) => file[i][3] < file[j][3]
=============================================================================
