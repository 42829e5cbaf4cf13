---------------------------- MODULE Descriptors ----------------------------
(***************************************************************************)
(* The descriptor numbers of a run: main and the dumper thread share one    *)
(* table, a new descriptor gets the lowest free number, and a number that   *)
(* is still in a variable after it was closed means whatever has it next.   *)
(* main opens the core, the info pipe, /proc and the outputs before it lets *)
(* the thread dump; from then on the thread opens and closes proc files     *)
(* while main copies, feeds the pipe and closes.                            *)
(***************************************************************************)
EXTENDS Integers, FiniteSets

CONSTANTS
  MaxFd,        \* the last number
  Unwinds,      \* builds: with libunwind or without
  CorePaths,    \* subset of {"stdin", "path"}: where the core is
  Outputs,      \* subset of {"null", "file", "filter"}: what an output may be
  Blocks,       \* blocks of the core after the first buffer
  Items,        \* proc files the thread dumps
  Faults        \* subset of {"core", "infopipe", "proc", "filterpipe"}

ASSUME DescriptorsAssumption ==
  /\ MaxFd \in Nat /\ MaxFd >= 12      \* room for all that is ever open at once
  /\ Unwinds \subseteq BOOLEAN /\ CorePaths \subseteq {"stdin", "path"}
  /\ Outputs \subseteq {"null", "file", "filter"}
  /\ Blocks \in Nat /\ Items \in Nat
  /\ Faults \subseteq {"core", "infopipe", "proc", "filterpipe"}

(* The variables that hold a number, named for the object they were set to:   *)
(* info_pipe[0], info_pipe[1], run.proc_fd, the static fd of open_devnull,    *)
(* run.info.output_fd, run.core.output_fd, and the file of proc_dump.  The    *)
(* core is always number 0.                                                   *)
Holders == {"pipe_r", "pipe_w", "proc", "null", "info", "core", "item"}
Free    == "free"
Unset   == -1

VARIABLES
  unwind, corepath,   \* the build and the configuration
  table,              \* what each number is
  num,                \* the number in each variable
  mpc, dpc,           \* where main and the thread are
  left, dumped,       \* blocks still to copy, proc files dumped
  stale,              \* an output kept the number of a closed file
  wrong               \* uses of a number that was something else by then

config == <<unwind, corepath>>
vars == <<config, table, num, mpc, dpc, left, dumped, stale, wrong>>

Init ==
  /\ unwind \in Unwinds /\ corepath \in CorePaths
  /\ table = [n \in 0..MaxFd |->
                CASE n = 0 -> "input" [] n = 1 -> "stdout" [] n = 2 -> "stderr" [] OTHER -> Free]
  /\ num = [h \in Holders |-> Unset]
  /\ mpc = "core" /\ dpc = "none"
  /\ left = Blocks /\ dumped = 0 /\ stale = FALSE /\ wrong = {}

Lowest(t) == CHOOSE n \in 0..MaxFd : t[n] = Free /\ \A m \in 0..(n - 1) : t[m] # Free

(* open(): h gets the lowest free number.                                     *)
Open(t, h) == [t EXCEPT ![Lowest(t)] = h]
Second(t)  == LET u == [t EXCEPT ![Lowest(t)] = "taken"] IN Lowest(u)

(* What a call that is given the number of h really reaches.                  *)
At(h) == IF num[h] = Unset THEN Free ELSE table[num[h]]

(* close(): whatever has the number is gone.                                  *)
Closed(h) == IF num[h] = Unset THEN table ELSE [table EXCEPT ![num[h]] = Free]

Use(op, h) == wrong' = IF At(h) = h THEN wrong ELSE wrong \union {<<op, h, At(h)>>}

Goto(label) == mpc' = label

-----------------------------------------------------------------------------
(* main.c:574-580: core_path replaces number 0, or leaves it free.            *)
KeepStdin ==
  /\ mpc = "core" /\ corepath = "stdin"
  /\ Goto("pipe")
  /\ UNCHANGED <<config, table, num, dpc, left, dumped, stale, wrong>>

OpenCorePath ==
  /\ mpc = "core" /\ corepath = "path"
  /\ \/ UNCHANGED table
     \/ "core" \in Faults /\ table' = [table EXCEPT ![0] = Free]
  /\ Goto("pipe")
  /\ UNCHANGED <<config, num, dpc, left, dumped, stale, wrong>>

(* A main that has no use for the pipe and closes its end at once. *)
CreatePipeBug ==
  /\ mpc = "pipe"
  /\ table' = [table EXCEPT ![Lowest(table)] = "pipe_r"]
  /\ num' = [num EXCEPT !["pipe_r"] = Lowest(table), !["pipe_w"] = Second(table)]
  /\ dpc' = "wait" /\ Goto("proc")
  /\ UNCHANGED <<config, left, dumped, stale, wrong>>

(* pipe2 for the unwinder, and the thread that gets its read end.             *)
CreatePipe ==
  /\ mpc = "pipe"
  /\ table' = [table EXCEPT ![Lowest(table)] = "pipe_r", ![Second(table)] = "pipe_w"]
  /\ num' = [num EXCEPT !["pipe_r"] = Lowest(table), !["pipe_w"] = Second(table)]
  /\ dpc' = "wait" /\ Goto("proc")
  /\ UNCHANGED <<config, left, dumped, stale, wrong>>

CreatePipeFails ==
  /\ mpc = "pipe" /\ "infopipe" \in Faults
  /\ Goto("proc")
  /\ UNCHANGED <<config, table, num, dpc, left, dumped, stale, wrong>>

(* main.c:639; read_proc_info closes what it opens, except this.              *)
OpenProc ==
  /\ mpc = "proc"
  /\ \/ /\ table' = Open(table, "proc")
        /\ num' = [num EXCEPT !["proc"] = Lowest(table)]
     \/ "proc" \in Faults /\ UNCHANGED <<table, num>>
  /\ Goto("info")
  /\ UNCHANGED <<config, dpc, left, dumped, stale, wrong>>

-----------------------------------------------------------------------------
(* open_output for h.                                                         *)

(* No output, or err1: a duplicate of the descriptor that open_devnull keeps. *)
WithNull == IF num["null"] = Unset THEN Open(table, "null") ELSE table

OutputNull(h) ==
  /\ "null" \in Outputs
  /\ num' = [num EXCEPT !["null"] = IF @ = Unset THEN Lowest(table) ELSE @,
                        ![h] = Lowest(WithNull)]
  /\ table' = Open(WithNull, h)
  /\ UNCHANGED stale

OutputFile(h) ==
  /\ "file" \in Outputs
  /\ table' = Open(table, h)
  /\ num' = [num EXCEPT ![h] = Lowest(table)]
  /\ UNCHANGED stale

(* The file, a pipe behind it, and the child that gets the file and the read  *)
(* end: of these only the write end of the pipe stays open in main.           *)
OutputFilter(h) ==
  /\ "filter" \in Outputs
  /\ LET third == [table EXCEPT ![Lowest(table)] = "file", ![Second(table)] = "filter_r"]
     IN /\ table' = [table EXCEPT ![Lowest(third)] = h]
        /\ num' = [num EXCEPT ![h] = Lowest(third)]
  /\ UNCHANGED stale

(* main.c:393-397: the file is closed and its number stays in output_fd.      *)
OutputStale(h) ==
  /\ "filter" \in Outputs /\ "filterpipe" \in Faults
  /\ num' = [num EXCEPT ![h] = Lowest(table)]
  /\ stale' = TRUE
  /\ UNCHANGED table

OpenOutput(h) ==
  /\ \/ OutputNull(h) \/ OutputFile(h) \/ OutputFilter(h) \/ OutputStale(h)
  /\ UNCHANGED <<config, dpc, left, dumped, wrong>>

(* fdopen fails for the number of a closed file: main gives up.               *)
OpenInfo == mpc = "info" /\ OpenOutput("info") /\ Goto("fdopen")

Fdopen ==
  /\ mpc = "fdopen"
  /\ Goto(IF At("info") = "info" THEN "core_out" ELSE "err1")
  /\ UNCHANGED <<config, table, num, dpc, left, dumped, stale, wrong>>

OpenCore == mpc = "core_out" /\ OpenOutput("core") /\ Goto("unlock")

-----------------------------------------------------------------------------
(* A build with libunwind that closes the pipe as well. *)
UnlockBug ==
  /\ mpc = "unlock"
  /\ dpc' = IF dpc = "wait" THEN "dump" ELSE dpc
  /\ IF num["pipe_w"] = Unset THEN UNCHANGED <<table, wrong>>
     ELSE table' = Closed("pipe_w") /\ Use("close", "pipe_w")
  /\ Goto("loop")
  /\ UNCHANGED <<config, num, left, dumped, stale>>

(* dump_lock is released; the build without libunwind closes the pipe, and    *)
(* does not forget its number.                                                *)
Unlock ==
  /\ mpc = "unlock"
  /\ dpc' = IF dpc = "wait" THEN "dump" ELSE dpc
  /\ Goto(IF unwind THEN "loop" ELSE "first_close")
  /\ UNCHANGED <<config, table, num, left, dumped, stale, wrong>>

FirstClose ==
  /\ mpc = "first_close"
  /\ IF num["pipe_w"] = Unset THEN UNCHANGED <<table, wrong>>
     ELSE table' = Closed("pipe_w") /\ Use("close", "pipe_w")
  /\ Goto("loop")
  /\ UNCHANGED <<config, num, dpc, left, dumped, stale>>

(* The loop of main.c:686-694: number 0 is read, the core output and the      *)
(* pipe are written.                                                          *)
ReadCore ==
  /\ mpc = "loop" /\ left > 0
  /\ wrong' = IF table[0] = "input" THEN wrong ELSE wrong \union {<<"read", "input", table[0]>>}
  /\ Goto("write")
  /\ UNCHANGED <<config, table, num, dpc, left, dumped, stale>>

WriteCore ==
  /\ mpc = "write"
  /\ Use("write", "core")
  /\ Goto(IF num["pipe_w"] # Unset THEN "feed" ELSE "loop")
  /\ left' = left - 1
  /\ UNCHANGED <<config, table, num, dpc, dumped, stale>>

Feed ==
  /\ mpc = "feed"
  /\ Use("write", "pipe_w")
  /\ Goto("loop")
  /\ UNCHANGED <<config, table, num, dpc, left, dumped, stale>>

(* main.c:696; the number is -1 when there was no pipe.                       *)
LastClose ==
  /\ mpc = "loop" /\ left = 0
  /\ IF num["pipe_w"] = Unset THEN UNCHANGED <<table, wrong>>
     ELSE table' = Closed("pipe_w") /\ Use("close", "pipe_w")
  /\ Goto("join")
  /\ UNCHANGED <<config, num, dpc, left, dumped, stale>>

Join ==
  /\ mpc = "join" /\ dpc \in {"none", "done"}
  /\ Goto("close_core")
  /\ UNCHANGED <<config, table, num, dpc, left, dumped, stale, wrong>>

(* close_output.                                                              *)
CloseOutput(h) ==
  /\ table' = Closed(h) /\ Use("close", h)
  /\ num' = [num EXCEPT ![h] = Unset]
  /\ UNCHANGED <<config, dpc, left, dumped, stale>>

CloseCore == mpc = "close_core" /\ CloseOutput("core") /\ Goto("close_info")
CloseInfo == mpc \in {"close_info", "err1"} /\ CloseOutput("info") /\ Goto("end")

-----------------------------------------------------------------------------
(* The thread: each proc file is opened, read and closed; in the end the      *)
(* read end of the pipe.                                                      *)
OpenItem ==
  /\ dpc = "dump" /\ dumped < Items
  /\ table' = Open(table, "item") /\ num' = [num EXCEPT !["item"] = Lowest(table)]
  /\ dpc' = "item"
  /\ UNCHANGED <<config, mpc, left, dumped, stale, wrong>>

ReadItem ==
  /\ dpc = "item"
  /\ Use("read", "item")
  /\ dpc' = "read"
  /\ UNCHANGED <<config, table, num, mpc, left, dumped, stale>>

CloseItem ==
  /\ dpc = "read"
  /\ table' = Closed("item") /\ Use("close", "item")
  /\ dumped' = dumped + 1 /\ dpc' = "dump"
  /\ UNCHANGED <<config, num, mpc, left, stale>>

CloseInput ==
  /\ dpc = "dump" /\ dumped = Items
  /\ table' = Closed("pipe_r") /\ Use("close", "pipe_r")
  /\ dpc' = "done"
  /\ UNCHANGED <<config, num, mpc, left, dumped, stale>>

Main ==
  \/ KeepStdin \/ OpenCorePath \/ CreatePipe \/ CreatePipeFails \/ OpenProc
  \/ OpenInfo \/ Fdopen \/ OpenCore \/ Unlock \/ FirstClose
  \/ ReadCore \/ WriteCore \/ Feed \/ LastClose \/ Join \/ CloseCore \/ CloseInfo
Dumper == OpenItem \/ ReadItem \/ CloseItem \/ CloseInput

Next ==
  \/ mpc # "end" /\ (Main \/ Dumper)
  \/ mpc = "end" /\ UNCHANGED vars

Spec == Init /\ [][Next]_vars
-----------------------------------------------------------------------------
(* With libunwind, when the core and the filter pipes could be opened, every  *)
(* read, write and close of both threads reaches the descriptor it is meant   *)
(* for.                                                                       *)
OwnDescriptors ==
  unwind /\ ~stale /\ (corepath = "path" => table[0] = "input") => wrong = {}

(* Also in the other cases no block of the core is written to something else, *)
(* as a number that is stale is free or belongs to a file that the thread     *)
(* reads; and a number that main closes by mistake is never that of an output.*)
StraysHarmless ==
  \A w \in wrong :
    /\ w[1] = "write" => w[3] \in {Free, "item"}
    /\ w[1] = "close" => w[3] \notin {"info", "core"}
=============================================================================
