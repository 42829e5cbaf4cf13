------------------------------ MODULE ProcInfo ------------------------------
(***************************************************************************)
(* proc.c and the part of main() around it (main.c:630-652): what the       *)
(* options left open is read from /proc/<PID>, the mappings through the     *)
(* same parse_line as the options, and each thread of the process is put    *)
(* into pidmap under its PID in the innermost namespace.  Later the dumper  *)
(* thread translates the PIDs of the core with it.  /proc, and whatever     *)
(* proc_path names instead, is outside the program.                         *)
(***************************************************************************)
EXTENDS Options, FiniteSets

CONSTANTS
  Ignore, Path, Exe, Mappings,   \* the keywords proc_ignore, proc_path, proc_exe, proc_maps
  Tasks,        \* the threads of the process, by their PID in the initial namespace
  NsPid,        \* their PID in the innermost namespace
  FirstCapacity,   \* entries of the first pidmap (32)
  ProcExe,      \* what /proc/<PID>/exe names
  ProcLines,    \* its maps: the executable mappings of files are good
  Threads       \* the namespace PIDs the core has

ASSUME ProcAssumption ==
  /\ {Ignore, Path, Exe, Mappings} \subseteq Options
  /\ Parser[Ignore] = "enum" /\ Parser[Path] = "string" /\ Parser[Exe] = "string"
  /\ Parser[Mappings] = "mapping_multi"
  /\ IsFiniteSet(Tasks) /\ Tasks \subseteq Nat \ {0}
  /\ NsPid \in [Tasks -> Nat \ {0}]
  /\ \A t, u \in Tasks : NsPid[t] = NsPid[u] => t = u
  /\ FirstCapacity \in Nat \ {0}
  /\ ProcExe \in Nat
  /\ ProcLines \in Seq([exec : BOOLEAN, val : Nat])
  /\ Threads \subseteq Nat \ {0}

VARIABLES
  asked,      \* conf when the options were through
  line,       \* the mappings that have been read
  undone,     \* the tasks readdir has still to give
  pidmap,     \* the array, in the memory allocated for it
  count,      \* pidmap_count
  c,          \* the next entry of the task loop
  failed,     \* read_proc_info returned -1
  answer      \* the last result of proc_pid_map: what was asked and what it said

procVars == <<asked, line, undone, pidmap, count, c, failed, answer>>
allVars  == <<optVars, procVars>>

Junk == -1       \* memory nobody has written to
JunkEntry == [pid |-> Junk, nspid |-> Junk]
NoAnswer == [asked |-> 0, pid |-> 0]

ProcInit ==
  /\ Init
  /\ asked = Default /\ line = 0 /\ undone = Tasks
  /\ pidmap = <<>> /\ count = 0 /\ c = 0
  /\ failed = FALSE /\ answer = NoAnswer

OptionsStep ==
  /\ Next
  /\ asked' = conf'
  /\ UNCHANGED <<line, undone, pidmap, count, c, failed, answer>>

-----------------------------------------------------------------------------
Log(level) == status' = status \union {level}
IsSet(k) == conf[k] # <<>>
To(label) == ppc' = label

(* main.c:631-652: is there a /proc directory to read?                        *)
ProcIgnored ==
  /\ ppc = "run" /\ conf[Ignore] = <<1>>
  /\ To("dump")
  /\ UNCHANGED <<conf, pid, status, taken, procVars>>

(* Before /proc main opens the core and the info pipe, starts the thread and  *)
(* reads the first buffer: each can fail with a message, and main goes on.    *)
TeeFails ==
  /\ ppc = "run" /\ Log("crit")
  /\ UNCHANGED <<conf, pid, ppc, taken, procVars>>

(* The dumper thread has a PID from the unwinder, which counts when the       *)
(* options gave none; without libunwind it is -2, for none.  It may come when *)
(* main is already in /proc, where nothing uses it.                           *)
PidGuessed ==
  /\ ppc = "run" /\ pid = NoPid
  /\ pid' \in Pids \union {-2}
  /\ UNCHANGED <<conf, ppc, status, taken, procVars>>

(* unw_prepare fails in the thread; later it would only set the bit later.    *)
UnwinderFails ==
  /\ ppc = "run" /\ Log("err")
  /\ pid' = IF pid = NoPid THEN -2 ELSE pid
  /\ UNCHANGED <<conf, ppc, taken, procVars>>

NoProcPath ==
  /\ ppc = "run" /\ conf[Ignore] # <<1>> /\ ~IsSet(Path) /\ pid <= 0
  /\ To("dump") /\ Log("err")
  /\ UNCHANGED <<conf, pid, taken, procVars>>

WithPath == IF IsSet(Path) THEN conf ELSE [conf EXCEPT ![Path] = <<pid>>]

ProcNotOpened ==
  /\ ppc = "run" /\ conf[Ignore] # <<1>> /\ (IsSet(Path) \/ pid > 0)
  /\ conf' = WithPath
  /\ To("dump") /\ Log("err")
  /\ UNCHANGED <<pid, taken, procVars>>

ProcOpened ==
  /\ ppc = "run" /\ conf[Ignore] # <<1>> /\ (IsSet(Path) \/ pid > 0)
  /\ conf' = WithPath
  /\ To("exe")
  /\ UNCHANGED <<pid, status, taken, procVars>>

(* A caller that does not look at what read_proc_info returned. *)
ReadFailsBug(levels) ==
  /\ To("dump") /\ failed' = TRUE
  /\ status' = status \union levels
  /\ UNCHANGED <<pid, taken, asked, line, answer>>

(* read_proc_info returns -1 and main logs that.                              *)
ReadFails(levels) ==
  /\ To("dump") /\ failed' = TRUE
  /\ status' = status \union levels \union {"err"}
  /\ UNCHANGED <<pid, taken, asked, line, answer>>

mapVars == <<undone, pidmap, count, c>>

-----------------------------------------------------------------------------
(* read_proc_info: the executable, unless an option gave it.                  *)
ReadExe ==
  /\ ppc = "exe"
  /\ conf' = IF IsSet(Exe) THEN conf ELSE [conf EXCEPT ![Exe] = <<ProcExe>>]
  /\ To("maps")
  /\ UNCHANGED <<pid, status, taken, procVars>>

ExeFails ==
  /\ ppc = "exe" /\ ~IsSet(Exe)
  /\ ReadFails({"crit"}) /\ UNCHANGED <<conf, mapVars>>

(* A read_proc_info that adds to the mappings of the options. *)
MapsGivenBug == FALSE

(* The mappings, unless an option gave some.                                  *)
MapsGiven == IsSet(Mappings)

OpenMaps ==
  /\ ppc = "maps"
  /\ To(IF MapsGiven THEN "task" ELSE "lines")
  /\ UNCHANGED <<conf, pid, status, taken, procVars>>

MapsFail ==
  /\ ppc = "maps" /\ ~MapsGiven
  /\ ReadFails({"crit"}) /\ UNCHANGED <<conf, mapVars>>

ProcLine(kind) == Line(Mappings, kind, ProcLines[line + 1].val)

ReadMapsLine ==
  /\ ppc = "lines" /\ line < Len(ProcLines)
  /\ line' = line + 1
  /\ conf' = IF ProcLines[line + 1].exec THEN ParseLine(conf, ProcLine("good")) ELSE conf
  /\ UNCHANGED <<pid, ppc, status, taken, asked, mapVars, failed, answer>>

(* parse_line runs out of memory.                                             *)
MapsLineFails ==
  /\ ppc = "lines" /\ line < Len(ProcLines) /\ ProcLines[line + 1].exec
  /\ conf' = ParseLine(conf, ProcLine("nomem"))
  /\ ReadFails({"crit", "err"}) /\ UNCHANGED mapVars

CloseMaps ==
  /\ ppc = "lines" /\ line = Len(ProcLines)
  /\ To("task")
  /\ UNCHANGED <<conf, pid, status, taken, procVars>>

-----------------------------------------------------------------------------
(* read_proc_info: the tasks.                                                 *)
OpenTask ==
  /\ ppc = "task"
  /\ To("tasks")
  /\ UNCHANGED <<conf, pid, status, taken, procVars>>

TaskFails ==
  /\ ppc = "task"
  /\ ReadFails({"err"}) /\ UNCHANGED <<conf, mapVars>>

(* A table that is allocated anew. *)
GrownBug ==
  IF c < count THEN pidmap
  ELSE [i \in 1..(IF count = 0 THEN FirstCapacity ELSE 2 * count) |-> JunkEntry]

(* realloc to twice the size.                                                 *)
Grown ==
  IF c < count THEN pidmap
  ELSE pidmap \o [i \in 1..(IF count = 0 THEN FirstCapacity ELSE count) |-> JunkEntry]

StoreTask(t) ==
  /\ ppc = "tasks" /\ t \in undone
  /\ undone' = undone \ {t}
  /\ pidmap' = [Grown EXCEPT ![c + 1] = [pid |-> t, nspid |-> NsPid[t]]]
  /\ count' = Len(Grown) /\ c' = c + 1
  /\ UNCHANGED <<conf, pid, ppc, status, taken, asked, line, failed, answer>>

(* A status file without the line, as an old kernel writes it.                *)
SkipTask(t) ==
  /\ ppc = "tasks" /\ t \in undone
  /\ undone' = undone \ {t}
  /\ UNCHANGED <<conf, pid, ppc, status, taken, asked, line, pidmap, count, c, failed, answer>>

(* The task is gone; or its line ends in no number, which is found before     *)
(* anything is stored or after.                                               *)
TaskGone(t) ==
  /\ ppc = "tasks" /\ t \in undone
  /\ ReadFails({"err"}) /\ UNCHANGED <<conf, mapVars>>

TaskMalformed(t) ==
  /\ ppc = "tasks" /\ t \in undone
  /\ \/ UNCHANGED <<pidmap, count>>
     \/ /\ pidmap' = [Grown EXCEPT ![c + 1].nspid = NsPid[t]]
        /\ count' = Len(Grown)
  /\ ReadFails({}) /\ UNCHANGED <<conf, undone, c>>

LastTask ==
  /\ ppc = "tasks" /\ undone = {}
  /\ count' = c
  /\ To("dump")
  /\ UNCHANGED <<conf, pid, status, taken, asked, line, undone, pidmap, c, failed, answer>>

-----------------------------------------------------------------------------
(* proc_pid_map: the first of count entries that has the PID.  An entry that  *)
(* was never written may hold anything.                                       *)
Matches(n) == {i \in 1..count : pidmap[i].nspid = n}
MayMatch(n) == {i \in 1..count : pidmap[i].nspid = Junk}
FirstIn(S) == CHOOSE i \in S : \A j \in S : i <= j
Before(i, S) == \A j \in S : i < j

Found(n) ==
  LET sure == Matches(n)
      hits == {i \in MayMatch(n) : Before(i, sure)} \union
                (IF sure = {} THEN {} ELSE {FirstIn(sure)})
  IN {pidmap[i].pid : i \in hits}

NotFound(n) == Matches(n) = {}

MapPid(n) ==
  /\ ppc = "dump" /\ n \in Threads
  /\ \/ /\ \E p \in Found(n) : answer' = [asked |-> n, pid |-> p]
        /\ UNCHANGED status
     \/ /\ NotFound(n)
        /\ answer' = [asked |-> n, pid |-> n]
        /\ Log("warning")
  /\ UNCHANGED <<conf, pid, ppc, taken, asked, line, mapVars, failed>>

Terminated == ppc \in {"exited", "usage", "dump"} /\ UNCHANGED allVars

ProcNext ==
  \/ OptionsStep
  \/ TeeFails \/ PidGuessed \/ UnwinderFails
  \/ ProcIgnored \/ NoProcPath \/ ProcNotOpened \/ ProcOpened
  \/ ReadExe \/ ExeFails \/ OpenMaps \/ MapsFail \/ ReadMapsLine \/ MapsLineFails \/ CloseMaps
  \/ OpenTask \/ TaskFails \/ LastTask
  \/ \E t \in Tasks : StoreTask(t) \/ SkipTask(t) \/ TaskGone(t) \/ TaskMalformed(t)
  \/ \E n \in Threads : MapPid(n)
  \/ Terminated

ProcSpec == ProcInit /\ [][ProcNext]_allVars
-----------------------------------------------------------------------------
Labels == {"args", "file", "usage", "exited", "run", "exe", "maps", "lines", "task", "tasks", "dump"}

InProc == {"exe", "maps", "lines", "task", "tasks", "dump"}

(* Every variable has its type, and main stays within the memory of pidmap.   *)
TypeOK ==
  /\ conf \in [Options -> Seq(Int)] /\ asked \in [Options -> Seq(Int)]
  /\ \A k \in Options : Parser[k] \notin Multi => Len(conf[k]) <= 1
  /\ \A k \in Options : Parser[k] = "int" => conf[k][1] \in (-IntHalf)..(IntHalf - 1)
  /\ pid \in Pids \union {NoPid, -2}
  /\ ppc \in Labels /\ status \subseteq Bits
  /\ line \in 0..Len(ProcLines) /\ undone \subseteq Tasks
  /\ pidmap \in Seq([pid : Tasks \union {Junk}, nspid : Int])
  /\ c \in 0..count /\ count \in 0..Len(pidmap)
  /\ failed \in BOOLEAN /\ answer \in [asked : Nat, pid : Int]

(* The values of s are those of the executable lines among the first n.       *)
ExecAmong(s, n) ==
  \E at \in [1..Len(s) -> 1..n] :
    /\ \A i, j \in 1..Len(s) : i < j => at[i] < at[j]
    /\ {at[i] : i \in 1..Len(s)} = {e \in 1..n : ProcLines[e].exec}
    /\ \A i \in 1..Len(s) : s[i] = ProcLines[at[i]].val

(* The mappings are those of the options or, in their order, those of /proc,  *)
(* and never a mixture; an executable that was given is not replaced          *)
(* (crashinfo.1:203-210).                                                     *)
OneSource ==
  ppc \in InProc =>
    /\ IF asked[Mappings] = <<>>
         THEN \E n \in 0..Len(ProcLines) : ExecAmong(conf[Mappings], n)
         ELSE conf[Mappings] = asked[Mappings]
    /\ asked[Exe] # <<>> => conf[Exe] = asked[Exe]

(* When something the options left open could not be got from /proc, the exit *)
(* code is not 0, wherever read_proc_info stopped.                            *)
GapsReported ==
  ppc = "dump" /\ asked[Ignore] # <<1>> /\ status = {} =>
    /\ IsSet(Exe)
    /\ asked[Mappings] = <<>> => ExecAmong(conf[Mappings], Len(ProcLines))
    /\ undone = {}

(* Whatever was read into pidmap is found by proc_pid_map, after the table    *)
(* has grown and after read_proc_info has given up: the entries behind it     *)
(* cannot hide it.                                                            *)
FoundAsRead ==
  ppc = "dump" =>
    \A i \in 1..c :
      /\ pidmap[i].pid \in Tasks
      /\ Found(NsPid[pidmap[i].pid]) = {pidmap[i].pid}
      /\ ~NotFound(NsPid[pidmap[i].pid])

(* The answer is the PID of the thread that was asked for, or the PID that    *)
(* was asked.                                                                 *)
NoStrangers ==
  \/ answer.pid = answer.asked
  \/ answer.pid \in Tasks /\ NsPid[answer.pid] = answer.asked

(* proc_pid_map translates the namespace PIDs of the core: it finds all that  *)
(* was read, and unless read_proc_info failed, which leaves entries behind    *)
(* that were never written, it never gives the PID of another thread.         *)
Translates == FoundAsRead /\ (~failed => NoStrangers)
=============================================================================
