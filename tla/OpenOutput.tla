---------------------------- MODULE OpenOutput ----------------------------
(***************************************************************************)
(* open_output() and make_path() of main.c, in several crashinfo runs that  *)
(* share a filesystem: the kernel starts one run for each crash, and the    *)
(* runs for the same program expand <stream>_output to the same name up to  *)
(* the counter @Q.  The name is a file in a directory below Top; what it    *)
(* expands to is only known by the counter.  A run then writes its data.    *)
(***************************************************************************)
EXTENDS Integers, Sequences, FiniteSets, SequencesExt

CONSTANTS
  Runs,         \* the runs of crashinfo
  Confs,        \* the <stream>_exists, _exists_seq, _mkdir and place of @Q to consider
  Old,          \* the most files there may be from before
  DataLen,      \* the blocks a run writes to its output
  MaxCounter,   \* counter stays there (only an endless sequence gets that far)
  Faults        \* subset of {"open", "mkdir", "kill"}

Modes == {"append", "overwrite", "keep", "sequence"}
Marks == {"none", "file", "dir"}

ASSUME RunsAssumption ==
  /\ IsFiniteSet(Runs)
  /\ Confs \subseteq [exists : Modes, seq : Int, mkdir : BOOLEAN, mark : Marks]
  /\ Old \in Nat /\ DataLen \in Nat \ {0}
  /\ MaxCounter \in Nat /\ MaxCounter >= Old + Cardinality(Runs)
  /\ Faults \subseteq {"open", "mkdir", "kill"}

VARIABLES
  conf,      \* the settings, the same for all runs
  dirs,      \* the directories that exist
  files,     \* the files that exist: number -> the blocks in them, by their writer
  pc,        \* where each run is
  counter, mkdir,      \* its local variables
  at,        \* the directory make_path is at
  name,      \* its r->output_filename, NoName when that is NULL
  pos,       \* the offset in its file
  left,      \* the blocks it has still to write
  why        \* why it failed

locals == <<counter, mkdir, at>>
vars == <<conf, dirs, files, pc, locals, name, pos, left, why>>

Top    == -1     \* the outermost directory of the name
NoName == -1
Refused == -2
Hole   == "hole"
OldData == "old"

SubOf(n)  == IF conf.mark = "dir" THEN n ELSE 0     \* its directory, when @Q is n
FileOf(n) == IF conf.mark = "none" THEN 0 ELSE n    \* its file
Leading(n) == <<Top, SubOf(n)>>                     \* what make_path goes through

-----------------------------------------------------------------------------
(* Flags that forget O_EXCL for a sequence, or truncate in append mode. *)
ExclBug  == conf.exists = "keep"
TruncBug == conf.exists \in {"overwrite", "append"}

(* The flags of main.c:341-355.                                               *)
Excl     == conf.exists \in {"keep", "sequence"}
Trunc    == conf.exists = "overwrite"

There(r)   == FileOf(counter[r]) \in DOMAIN files
DirHere(r) == SubOf(counter[r]) \in dirs

(* write() at the end of the file with O_APPEND, else at the run's offset;    *)
(* truncation by another run leaves a hole.                                   *)
Put(s, b, p) ==
  LET q == IF conf.exists = "append" THEN Len(s) ELSE p
      n == IF q + 1 > Len(s) THEN q + 1 ELSE Len(s) IN
    [i \in 1..n |-> IF i = q + 1 THEN b ELSE IF i <= Len(s) THEN s[i] ELSE Hole]

Init ==
  /\ conf \in Confs
  /\ \E k \in 0..Old :
       /\ conf.mark = "none" => k <= 1
       /\ files = [n \in 0..(k - 1) |-> <<OldData>>]
       /\ \E empty \in SUBSET {Top, 0} :
            /\ 0 \in empty => Top \in empty
            /\ dirs = empty \union (IF k = 0 THEN {} ELSE {Top} \union {SubOf(n) : n \in 0..(k - 1)})
  /\ pc = [r \in Runs |-> "open"]
  /\ counter = [r \in Runs |-> 0] /\ mkdir = [r \in Runs |-> conf.mkdir]
  /\ at = [r \in Runs |-> 1]
  /\ name = [r \in Runs |-> NoName] /\ pos = [r \in Runs |-> 0]
  /\ left = [r \in Runs |-> DataLen]
  /\ why = [r \in Runs |-> ""]

-----------------------------------------------------------------------------
Goto(r, label) == pc' = [pc EXCEPT ![r] = label]

(* log_crit and err0: the stream goes to /dev/null.                           *)
Fails(r, reason) ==
  /\ Goto(r, "failed")
  /\ why' = [why EXCEPT ![r] = reason]
  /\ UNCHANGED <<conf, dirs, files, locals, name, pos, left>>

SetName(r) == name' = [name EXCEPT ![r] = FileOf(counter[r])]

(* open() of a file that is not there.                                        *)
OpenNew(r) ==
  /\ pc[r] = "open" /\ DirHere(r) /\ ~There(r)
  /\ files' = [n \in DOMAIN files \union {FileOf(counter[r])} |->
                 IF n \in DOMAIN files THEN files[n] ELSE <<>>]
  /\ SetName(r) /\ Goto(r, "write")
  /\ UNCHANGED <<conf, dirs, locals, pos, left, why>>

(* open() of a file that is there, without O_EXCL.                            *)
OpenOld(r) ==
  /\ pc[r] = "open" /\ DirHere(r) /\ There(r) /\ ~Excl
  /\ files' = IF Trunc THEN [files EXCEPT ![FileOf(counter[r])] = <<>>] ELSE files
  /\ SetName(r) /\ Goto(r, "write")
  /\ UNCHANGED <<conf, dirs, locals, pos, left, why>>

(* EEXIST in keep mode: the output is /dev/null, under the name of the file.  *)
KeepOld(r) ==
  /\ pc[r] = "open" /\ DirHere(r) /\ There(r) /\ Excl /\ conf.exists = "keep"
  /\ SetName(r) /\ Goto(r, "null")
  /\ UNCHANGED <<conf, dirs, files, locals, pos, left, why>>

(* EEXIST in sequence mode: the next number, or the end of the sequence.      *)
AtLimitBug(r) == conf.seq > 0 /\ counter[r] + 2 >= conf.seq
AtLimit(r) == conf.seq > 0 /\ counter[r] + 1 >= conf.seq

(* A loop that opens the same name again. *)
StuckBug(r) ==
  /\ pc[r] = "open" /\ DirHere(r) /\ There(r) /\ Excl /\ conf.exists = "sequence"
  /\ ~AtLimit(r)
  /\ UNCHANGED vars

NextNumber(r) ==
  /\ pc[r] = "open" /\ DirHere(r) /\ There(r) /\ Excl /\ conf.exists = "sequence"
  /\ ~AtLimit(r)
  /\ counter' = [counter EXCEPT ![r] = IF @ < MaxCounter THEN @ + 1 ELSE @]
  /\ UNCHANGED <<conf, dirs, files, pc, mkdir, at, name, pos, left, why>>

LimitReached(r) ==
  /\ pc[r] = "open" /\ DirHere(r) /\ There(r) /\ Excl /\ conf.exists = "sequence"
  /\ AtLimit(r)
  /\ Fails(r, "limit")

(* A make_path that starts below the outermost directory. *)
MakePathBug(r) ==
  /\ pc[r] = "open" /\ ~DirHere(r) /\ mkdir[r]
  /\ Goto(r, "mkdir") /\ at' = [at EXCEPT ![r] = 2]
  /\ UNCHANGED <<conf, dirs, files, counter, mkdir, name, pos, left, why>>

(* ENOENT: make the leading path and open again, but only once.               *)
MakePath(r) ==
  /\ pc[r] = "open" /\ ~DirHere(r) /\ mkdir[r]
  /\ Goto(r, "mkdir") /\ at' = [at EXCEPT ![r] = 1]
  /\ UNCHANGED <<conf, dirs, files, counter, mkdir, name, pos, left, why>>

NoPath(r) ==
  /\ pc[r] = "open" /\ ~DirHere(r) /\ ~mkdir[r]
  /\ Fails(r, "noent")

(* Some other errno of open().                                                *)
OpenError(r) ==
  /\ pc[r] = "open" /\ "open" \in Faults
  /\ Fails(r, "open")

(* A make_path that takes the next number when it is done. *)
MakeDirBug(r) ==
  /\ pc[r] = "mkdir"
  /\ dirs' = dirs \union {Leading(counter[r])[at[r]]}
  /\ IF at[r] < Len(Leading(counter[r]))
       THEN at' = [at EXCEPT ![r] = @ + 1] /\ UNCHANGED <<pc, mkdir, counter>>
       ELSE /\ mkdir' = [mkdir EXCEPT ![r] = FALSE] /\ Goto(r, "open")
            /\ counter' = [counter EXCEPT ![r] = @ + 1] /\ UNCHANGED at
  /\ UNCHANGED <<conf, files, name, pos, left, why>>

(* One mkdir() of make_path; EEXIST is as good as success.                    *)
MakeDir(r) ==
  /\ pc[r] = "mkdir"
  /\ dirs' = dirs \union {Leading(counter[r])[at[r]]}
  /\ IF at[r] < Len(Leading(counter[r]))
       THEN at' = [at EXCEPT ![r] = @ + 1] /\ UNCHANGED <<pc, mkdir>>
       ELSE mkdir' = [mkdir EXCEPT ![r] = FALSE] /\ Goto(r, "open") /\ UNCHANGED at
  /\ UNCHANGED <<conf, files, counter, name, pos, left, why>>

MakeDirError(r) ==
  /\ pc[r] = "mkdir" /\ "mkdir" \in Faults
  /\ Fails(r, "mkdir")

-----------------------------------------------------------------------------
(* The run writes its data to output_fd and closes it.                        *)
Write(r) ==
  /\ pc[r] = "write" /\ left[r] > 0
  /\ files' = [files EXCEPT ![name[r]] = Put(@, r, pos[r])]
  /\ pos' = [pos EXCEPT ![r] = @ + 1]
  /\ left' = [left EXCEPT ![r] = @ - 1]
  /\ UNCHANGED <<conf, dirs, pc, locals, name, why>>

Finish(r) ==
  /\ pc[r] = "write" /\ left[r] = 0
  /\ Goto(r, "done")
  /\ UNCHANGED <<conf, dirs, files, locals, name, pos, left, why>>

(* The run is killed where it stands.                                         *)
Killed(r) ==
  /\ "kill" \in Faults /\ pc[r] \in {"open", "mkdir", "write"}
  /\ Goto(r, "killed")
  /\ UNCHANGED <<conf, dirs, files, locals, name, pos, left, why>>

Step(r) ==
  \/ OpenNew(r) \/ OpenOld(r) \/ KeepOld(r) \/ NextNumber(r) \/ LimitReached(r)
  \/ MakePath(r) \/ NoPath(r) \/ MakeDir(r) \/ Write(r) \/ Finish(r)

Fault(r) == OpenError(r) \/ MakeDirError(r) \/ Killed(r)

Stopped == {"done", "null", "failed", "killed"}
Terminated == (\A r \in Runs : pc[r] \in Stopped) /\ UNCHANGED vars

Next == (\E r \in Runs : Step(r) \/ Fault(r)) \/ Terminated

Spec == Init /\ [][Next]_vars
FairSpec == Spec /\ \A r \in Runs : WF_vars(Step(r))

-----------------------------------------------------------------------------
(* Every variable has its type, and a file is below directories that exist.   *)
TypeOK ==
  /\ conf \in [exists : Modes, seq : Int, mkdir : BOOLEAN, mark : Marks]
  /\ dirs \subseteq {Top} \union 0..MaxCounter
  /\ DOMAIN files \subseteq 0..MaxCounter
  /\ \A n \in DOMAIN files :
       files[n] \in Seq(Runs \union {OldData, Hole}) /\ {Top, SubOf(n)} \subseteq dirs
  /\ pc \in [Runs -> {"open", "mkdir", "write"} \union Stopped]
  /\ counter \in [Runs -> 0..MaxCounter] /\ mkdir \in [Runs -> BOOLEAN]
  /\ at \in [Runs -> 1..2]
  /\ name \in [Runs -> {NoName} \union DOMAIN files]
  /\ pos \in [Runs -> 0..DataLen] /\ left \in [Runs -> 0..DataLen]
  /\ why \in [Runs -> {"", "limit", "noent", "open", "mkdir"}]

(* In keep and sequence mode no two runs ever write to the same file, and no  *)
(* run to one that was there before it: opening with O_EXCL decides between   *)
(* runs that saw the same name free.                                          *)
OneWriter ==
  conf.exists \in {"keep", "sequence"} =>
    \A r \in Runs : pc[r] \in {"write", "done"} =>
      \A i \in 1..Len(files[name[r]]) : files[name[r]][i] = r

(* Nothing that is in a file is ever lost, moved or overwritten.              *)
DataKept ==
  [][conf.exists # "overwrite" =>
       \A n \in DOMAIN files : n \in DOMAIN files' /\ IsPrefix(files[n], files'[n])]_vars

(* The numbers of a sequence are used without gaps and below the limit.       *)
Gapless ==
  conf.exists = "sequence" =>
    /\ DOMAIN files = 0..(Cardinality(DOMAIN files) - 1)
    /\ conf.seq > 0 => Cardinality(DOMAIN files) <= (IF Old > conf.seq THEN Old ELSE conf.seq)

(* A run gives up for the limit of the sequence only when each of the         *)
(* exists_seq files is there, and for a missing directory only when it was    *)
(* not to make one, or had made one for a number before: mkdir is used up by  *)
(* the first leading path, and with @Q in it the next is another one.         *)
GivesUpHonestly ==
  \A r \in Runs :
    /\ why[r] = "limit" /\ conf.mark # "none" => 0..(conf.seq - 1) \subseteq DOMAIN files
    /\ why[r] = "noent" /\ conf.mkdir => conf.mark = "dir" /\ counter[r] > 0

(* Every run gets past open_output and ends, whatever the others do.  With an *)
(* unlimited sequence and no @Q in the name there is only one name to try.    *)
Endless == conf.exists = "sequence" /\ conf.seq <= 0 /\ conf.mark = "none"
Opens == ~Endless => \A r \in Runs : <>(pc[r] \in Stopped)

(* The runs as Numbering sees them: in sequence mode, each takes the first    *)
(* free number in one step, or is refused; a run that fails before that takes *)
(* none.                                                                      *)
Numbered == conf.exists = "sequence" /\ conf.mark # "none"
Own == [r \in Runs |-> IF ~Numbered THEN NoName ELSE IF why[r] = "limit" THEN Refused ELSE name[r]]
Shared == INSTANCE Numbering WITH
            Limits <- {c.seq : c \in Confs}, limit <- conf.seq,
            store <- IF Numbered THEN files ELSE <<>>, own <- Own
ImplementsNumbering == Shared!Spec
=============================================================================
