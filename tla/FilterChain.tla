---------------------------- MODULE FilterChain ----------------------------
(***************************************************************************)
(* The filters of one output: open_output() of main.c starts a child for    *)
(* each <stream>_filter with spawn_proc(), joined by pipes, main writes its *)
(* stream to the first of them and close_output() waits for them all.       *)
(* Pipe i is the input of filter i; N + 1 stands for the output file, which *)
(* is the target of filter N.  What decides whether the end of the stream   *)
(* gets through is who holds which end of which pipe: a child has a copy of *)
(* all of main's descriptors from fork() until execvp() closes those with   *)
(* O_CLOEXEC.  The filters themselves are outside the program.              *)
(***************************************************************************)
EXTENDS Integers, Sequences, FiniteSets, SequencesExt

CONSTANTS
  Kinds,        \* what a filter may be, see below
  MaxFilters,
  Lens,         \* the lengths of the stream, in blocks
  HeadLen,      \* a "head" passes this many blocks and ends
  PipeCap,      \* capacity of a pipe, in blocks
  Faults        \* subset of {"pipe", "fork", "write"}

\* "copy" passes everything, "bad" may also end early with an error, "missing"
\* can't be executed.
ASSUME ChainAssumption ==
  /\ Kinds \subseteq {"copy", "head", "bad", "missing"}
  /\ MaxFilters \in Nat /\ Lens \subseteq Nat /\ HeadLen \in Nat /\ PipeCap \in Nat \ {0}
  /\ Faults \subseteq {"pipe", "fork", "write"}

VARIABLES
  chain, len, named,       \* <stream>_filter, the stream, <stream>_output is not ~
  mpc, cur,                \* where main is; the filter it sets up
  dest,                    \* what r->output_fd is
  parent,                  \* the ends main holds
  list,                    \* r->filter
  sent, refused,           \* blocks main has written; those the file did not take
  opened, notified, logged,   \* open_output returned 0; notify was evaluated; levels
  data,                    \* what is in each pipe, and in the file
  child, status, ends,     \* each filter: its state, its exit status, its ends
  hold, passed             \* the block it has read, how many it has passed on

inputs  == <<chain, len, named>>
setup   == <<cur, dest, opened>>
filters == <<child, status, ends, hold, passed>>
vars == <<inputs, mpc, setup, parent, list, sent, refused, notified, logged, data, filters>>

N    == Len(chain)
R(i) == <<"r", i>>      \* the read end of pipe i
W(i) == <<"w", i>>      \* its write end, or the file

Filters == 1..N

(* The stream as the shell pipe of the same filters would leave it: whole, or *)
(* as much of it as a "head" among the filters passes on.                     *)
Upto(f) == IF HeadLen < len /\ \E g \in 1..f : chain[g] = "head" THEN HeadLen ELSE len
Through == [k \in 1..Upto(N) |-> k]

Held(e) == e \in parent \/ \E f \in Filters : e \in ends[f]
Room(i) == i = N + 1 \/ Len(data[i]) < PipeCap
Broken(i) == i <= N /\ ~Held(R(i))         \* writing raises SIGPIPE
AtEof(i) == data[i] = <<>> /\ ~Held(W(i))

Init ==
  /\ chain \in UNION {[1..n -> Kinds] : n \in 0..MaxFilters}
  /\ len \in Lens /\ named \in BOOLEAN
  /\ mpc = "setup" /\ cur = 1 /\ dest = "file"
  /\ parent = {W(N + 1)}
  /\ list = <<>> /\ sent = 0 /\ refused = {}
  /\ opened = FALSE /\ notified = FALSE /\ logged = {}
  /\ data = [i \in 1..(N + 1) |-> <<>>]
  /\ child = [f \in Filters |-> "none"] /\ status = [f \in Filters |-> "none"]
  /\ ends = [f \in Filters |-> {}]
  /\ hold = [f \in Filters |-> <<>>] /\ passed = [f \in Filters |-> 0]

-----------------------------------------------------------------------------
(* main: open_output from the label opened.                                   *)

NoFilters ==
  /\ mpc = "setup" /\ N = 0
  /\ mpc' = "write" /\ opened' = TRUE
  /\ UNCHANGED <<inputs, cur, dest, parent, list, sent, refused, notified, logged, data, filters>>

FirstPipe ==
  /\ mpc = "setup" /\ N > 0
  /\ mpc' = "spawn" /\ dest' = "pipe"
  /\ parent' = parent \union {R(1), W(1)}
  /\ UNCHANGED <<inputs, cur, opened, list, sent, refused, notified, logged, data, filters>>

(* The output is closed and stays in output_fd.                               *)
FirstPipeFails ==
  /\ mpc = "setup" /\ N > 0 /\ "pipe" \in Faults
  /\ mpc' = "write" /\ dest' = "closed"
  /\ parent' = parent \ {W(N + 1)}
  /\ logged' = logged \union {"err"}
  /\ UNCHANGED <<inputs, cur, opened, list, sent, refused, notified, data, filters>>

(* One turn of the loop: the pipe to the next filter, and fork().             *)
Piped == IF cur < N THEN parent \union {R(cur + 1), W(cur + 1)} ELSE parent

Spawn ==
  /\ mpc = "spawn"
  /\ mpc' = "forked"
  /\ parent' = Piped
  /\ child' = [child EXCEPT ![cur] = "forked"]
  /\ ends' = [ends EXCEPT ![cur] = Piped]
  /\ list' = Append(list, cur)
  /\ UNCHANGED <<inputs, setup, sent, refused, notified, logged, data, status, hold, passed>>

(* A main that keeps its copy of the write end it gave to the child. *)
CloseEndsBug ==
  /\ mpc = "forked"
  /\ parent' = parent \ {R(cur)}
  /\ IF cur < N THEN cur' = cur + 1 /\ mpc' = "spawn" /\ UNCHANGED opened
                ELSE cur' = cur /\ mpc' = "write" /\ opened' = TRUE
  /\ UNCHANGED <<inputs, dest, list, sent, refused, notified, logged, data, filters>>

CloseEnds ==
  /\ mpc = "forked"
  /\ parent' = parent \ {R(cur), W(cur + 1)}
  /\ IF cur < N THEN cur' = cur + 1 /\ mpc' = "spawn" /\ UNCHANGED opened
                ELSE cur' = cur /\ mpc' = "write" /\ opened' = TRUE
  /\ UNCHANGED <<inputs, dest, list, sent, refused, notified, logged, data, filters>>

(* pipe2() fails in the loop, or malloc() or fork(): err1 will close the      *)
(* stream's end, the read end made last and the file.                         *)
NextPipeFails ==
  /\ mpc = "spawn" /\ cur < N /\ "pipe" \in Faults
  /\ mpc' = "kill" /\ logged' = logged \union {"err"}
  /\ UNCHANGED <<inputs, setup, parent, list, sent, refused, notified, data, filters>>

ForkFails ==
  /\ mpc = "spawn" /\ "fork" \in Faults
  /\ mpc' = "kill" /\ logged' = logged \union {"crit"}
  /\ parent' = Piped
  /\ UNCHANGED <<inputs, setup, list, sent, refused, notified, data, filters>>

(* An err1 that only kills. *)
KillNextBug ==
  /\ mpc = "kill" /\ list # <<>>
  /\ child' = [child EXCEPT ![Head(list)] = "exited"]
  /\ ends' = [ends EXCEPT ![Head(list)] = {}]
  /\ status' = [status EXCEPT ![Head(list)] = "killed"]
  /\ hold' = [hold EXCEPT ![Head(list)] = <<>>]
  /\ list' = Tail(list)
  /\ UNCHANGED <<inputs, mpc, setup, parent, sent, refused, notified, logged, data, passed>>

(* err1: kill() and waitpid() for the next filter of the list.                *)
KillNext ==
  /\ mpc = "kill" /\ list # <<>>
  /\ child' = [child EXCEPT ![Head(list)] = "reaped"]
  /\ ends' = [ends EXCEPT ![Head(list)] = {}]
  /\ status' = [status EXCEPT ![Head(list)] = "killed"]
  /\ hold' = [hold EXCEPT ![Head(list)] = <<>>]
  /\ list' = Tail(list)
  /\ UNCHANGED <<inputs, mpc, setup, parent, sent, refused, notified, logged, data, passed>>

LastRead == IF R(cur + 1) \in parent THEN R(cur + 1) ELSE R(cur)

AllKilled ==
  /\ mpc = "kill" /\ list = <<>>
  /\ mpc' = "write" /\ dest' = "null"
  /\ parent' = parent \ {W(1), LastRead, W(N + 1)}
  /\ UNCHANGED <<inputs, cur, opened, list, sent, refused, notified, logged, data, filters>>

-----------------------------------------------------------------------------
(* main: the stream is written (SIGPIPE is ignored and EPIPE not looked at),  *)
(* and close_output.                                                          *)
Lost == dest \in {"null", "closed"} \/ Broken(1)

(* A write to a full pipe that drops the block. *)
WriteStreamBug ==
  /\ mpc = "write" /\ sent < len
  /\ sent' = sent + 1
  /\ \/ Lost /\ UNCHANGED data
     \/ ~Lost /\ data' = IF Room(1) THEN [data EXCEPT ![1] = Append(@, sent + 1)] ELSE data
  /\ UNCHANGED <<inputs, mpc, setup, parent, list, refused, notified, logged, filters>>

WriteStream ==
  /\ mpc = "write" /\ sent < len
  /\ sent' = sent + 1
  /\ \/ Lost /\ UNCHANGED data
     \/ ~Lost /\ Room(1) /\ data' = [data EXCEPT ![1] = Append(@, sent + 1)]
  /\ UNCHANGED <<inputs, mpc, setup, parent, list, refused, notified, logged, filters>>

(* Without filters main writes to the file itself.  A write() that fails, for *)
(* want of space say, loses the block: nobody looks at what safe_write        *)
(* returns, and the next block may be written after the gap.                  *)
WriteFails ==
  /\ mpc = "write" /\ sent < len
  /\ dest = "file" /\ "write" \in Faults
  /\ sent' = sent + 1 /\ refused' = refused \union {sent + 1}
  /\ UNCHANGED <<inputs, mpc, setup, parent, list, notified, logged, data, filters>>

CloseStream ==
  /\ mpc = "write" /\ sent = len
  /\ mpc' = "wait"
  /\ parent' = parent \ {W(1)}
  /\ UNCHANGED <<inputs, setup, list, sent, refused, notified, logged, data, filters>>

(* A wait that takes a failed filter for a truncated stream. *)
LevelsBug(s) == IF s = "err" THEN {"warn"} ELSE {}
Levels(s) == IF s = "err" THEN {"err"} ELSE IF s = "sigpipe" THEN {"warn"} ELSE {}

(* waitpid() for the filters in their order.                                  *)
WaitNext ==
  /\ mpc = "wait" /\ list # <<>>
  /\ child[Head(list)] = "exited"
  /\ child' = [child EXCEPT ![Head(list)] = "reaped"]
  /\ logged' = logged \union Levels(status[Head(list)])
  /\ list' = Tail(list)
  /\ UNCHANGED <<inputs, mpc, setup, parent, sent, refused, notified, data, status, ends, hold,
                 passed>>

(* The notify commands are started when there is a file name.                 *)
Notify ==
  /\ mpc = "wait" /\ list = <<>>
  /\ mpc' = "end" /\ notified' = named
  /\ UNCHANGED <<inputs, setup, parent, list, sent, refused, logged, data, filters>>

-----------------------------------------------------------------------------
(* A filter.  Dying or exiting closes its ends.                               *)
Exits(f, s) ==
  /\ child' = [child EXCEPT ![f] = "exited"]
  /\ status' = [status EXCEPT ![f] = s]
  /\ ends' = [ends EXCEPT ![f] = {}]
  /\ hold' = [hold EXCEPT ![f] = <<>>]

others == <<inputs, mpc, setup, parent, list, sent, refused, notified, logged>>

(* An execvp() that leaves main's descriptors open, as without O_CLOEXEC. *)
ExecBug(f) ==
  /\ child[f] = "forked" /\ chain[f] # "missing"
  /\ child' = [child EXCEPT ![f] = "running"]
  /\ UNCHANGED <<others, data, status, ends, hold, passed>>

(* dup2() twice and execvp().                                                 *)
Exec(f) ==
  /\ child[f] = "forked" /\ chain[f] # "missing"
  /\ child' = [child EXCEPT ![f] = "running"]
  /\ ends' = [ends EXCEPT ![f] = {R(f), W(f + 1)}]
  /\ UNCHANGED <<others, data, status, hold, passed>>

ExecFails(f) ==
  /\ child[f] = "forked" /\ chain[f] = "missing"
  /\ Exits(f, "err")
  /\ UNCHANGED <<others, data, passed>>

Finished(f) == chain[f] = "head" /\ passed[f] = HeadLen

Reads(f) ==
  /\ child[f] = "running" /\ hold[f] = <<>> /\ ~Finished(f)
  /\ data[f] # <<>>
  /\ hold' = [hold EXCEPT ![f] = <<Head(data[f])>>]
  /\ data' = [data EXCEPT ![f] = Tail(@)]
  /\ UNCHANGED <<others, child, status, ends, passed>>

Ends(f) ==
  /\ child[f] = "running" /\ hold[f] = <<>>
  /\ Finished(f) \/ AtEof(f)
  /\ Exits(f, "ok")
  /\ UNCHANGED <<others, data, passed>>

Writes(f) ==
  /\ child[f] = "running" /\ hold[f] # <<>>
  /\ ~Broken(f + 1) /\ Room(f + 1)
  /\ data' = [data EXCEPT ![f + 1] = @ \o hold[f]]
  /\ hold' = [hold EXCEPT ![f] = <<>>]
  /\ passed' = [passed EXCEPT ![f] = @ + 1]
  /\ UNCHANGED <<others, child, status, ends>>

Sigpipe(f) ==
  /\ child[f] = "running" /\ hold[f] # <<>>
  /\ Broken(f + 1)
  /\ Exits(f, "sigpipe")
  /\ UNCHANGED <<others, data, passed>>

GoesBad(f) ==
  /\ child[f] = "running" /\ chain[f] = "bad"
  /\ Exits(f, "err")
  /\ UNCHANGED <<others, data, passed>>

-----------------------------------------------------------------------------
Main ==
  \/ NoFilters \/ FirstPipe \/ FirstPipeFails
  \/ Spawn \/ CloseEnds \/ NextPipeFails \/ ForkFails \/ KillNext \/ AllKilled
  \/ WriteStream \/ WriteFails \/ CloseStream \/ WaitNext \/ Notify

Filter(f) == Exec(f) \/ ExecFails(f) \/ Reads(f) \/ Ends(f) \/ Writes(f) \/ Sigpipe(f)

Terminated == mpc = "end" /\ UNCHANGED vars

Next == Main \/ (\E f \in Filters : Filter(f) \/ GoesBad(f)) \/ Terminated

Spec == Init /\ [][Next]_vars
FairSpec == Spec /\ WF_vars(Main) /\ \A f \in 1..MaxFilters : WF_vars(f \in Filters /\ Filter(f))
-----------------------------------------------------------------------------
(* Every variable has its type; a pipe holds no more than its capacity.       *)
TypeOK ==
  /\ mpc \in {"setup", "spawn", "forked", "kill", "write", "wait", "end"}
  /\ cur \in 1..(N + 1) /\ dest \in {"file", "pipe", "null", "closed"}
  /\ list \in Seq(Filters) /\ sent \in 0..len /\ refused \subseteq 1..sent
  /\ logged \subseteq {"crit", "err", "warn"}
  /\ \A i \in 1..(N + 1) : data[i] \in Seq(1..len) /\ (i <= N => Len(data[i]) <= PipeCap)
  /\ child \in [Filters -> {"none", "forked", "running", "exited", "reaped"}]
  /\ status \in [Filters -> {"none", "ok", "err", "sigpipe", "killed"}]
  /\ parent \subseteq {R(i) : i \in Filters} \union {W(i) : i \in 1..(N + 1)}
  /\ \A f \in Filters : child[f] = "running" => ends[f] = {R(f), W(f + 1)}
  /\ \A f \in Filters : Len(hold[f]) <= 1 /\ passed[f] <= len

(* At every moment, whatever has failed, the file holds a beginning of what   *)
(* the shell pipe of the same filters would have written, in order and no     *)
(* block twice; missing in it are exactly the blocks the file itself refused. *)
FilePrefix ==
  /\ \A i, j \in DOMAIN data[N + 1] : i < j => data[N + 1][i] < data[N + 1][j]
  /\ \E n \in 0..Upto(N) : Range(data[N + 1]) = (1..n) \ refused

(* After close_output, if the file itself refused nothing, a file that is not *)
(* what the shell pipe would have written has been reported at a level that   *)
(* ends in the return value; so has an output that was not opened but whose   *)
(* name the notify commands get all the same, which crashinfo.1:175-177 rules *)
(* out.  A failing write to the file is reported by nothing (WriteFails).     *)
LossReported ==
  mpc = "end" /\ ((refused = {} /\ data[N + 1] # Through) \/ (notified /\ ~opened))
    => logged \intersect {"crit", "err"} # {}

(* When the notify commands of an output are started, main has waited for     *)
(* every child it started, on the way through err1 too: what the commands get *)
(* to see is not written any more.                                            *)
AllReaped == mpc = "end" => \A f \in Filters : child[f] \in {"none", "reaped"}

(* With the filters running, close_output comes to its end: the end of the    *)
(* stream reaches each filter because nobody else holds the end it waits for, *)
(* and nobody is left writing to a filter that has stopped reading.           *)
Closes == <>(mpc = "end")
=============================================================================
