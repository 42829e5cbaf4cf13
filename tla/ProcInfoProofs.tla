--------------------------- MODULE ProcInfoProofs ---------------------------
(* Proofs about Options and ProcInfo: for any options, values and number of   *)
(* lines, any /proc and any process, the settings are what the lines mean, no *)
(* refused line and no gap goes without a bit in the exit code, the mappings  *)
(* have one source, and proc_pid_map finds what was read.                     *)
EXTENDS ProcInfo, TLAPS, SequenceTheorems, WellFoundedInduction

(* What the variables range over.                                             *)
Entries == [pid : Tasks \union {Junk}, nspid : Int]
Values  == Seq(Int)
Tables  == Seq(Entries)
Asking  == {"args", "file", "run"}
Linear  == {"string", "int", "enum"}     \* the parsers of options with one value

(* What each option can hold.                                                 *)
Held(f) ==
  /\ f \in [Options -> Values]
  /\ \A k \in Options : /\ Parser[k] \in Linear => Len(f[k]) <= 1
                        /\ Parser[k] = "int" => Len(f[k]) = 1 /\ f[k][1] \in (-IntHalf)..(IntHalf - 1)

(* The kinds of the variables.                                                *)
Types ==
  /\ Held(conf) /\ Held(asked)
  /\ pid \in Pids \union {NoPid, -2}
  /\ ppc \in Labels /\ status \subseteq Bits
  /\ line \in 0..Len(ProcLines) /\ undone \subseteq Tasks
  /\ pidmap \in Tables /\ count \in 0..Len(pidmap) /\ c \in 0..count
  /\ failed \in BOOLEAN /\ answer \in [asked : Nat, pid : Int]

(* What main has from the options, and from /proc where it stands.            *)
SourceInv ==
  /\ ppc \in Asking => conf = asked
  /\ ppc \notin {"lines", "task", "tasks", "dump"} => conf[Mappings] = asked[Mappings]
  /\ ppc \notin {"lines", "task", "tasks", "dump"} => line = 0
  /\ ppc = "lines" => asked[Mappings] = <<>>
  /\ ppc \in InProc /\ asked[Mappings] # <<>> => conf[Mappings] = asked[Mappings]
  /\ ppc \in InProc /\ asked[Mappings] = <<>> => ExecAmong(conf[Mappings], line)
  /\ ppc \in {"task", "tasks"} /\ asked[Mappings] = <<>> => line = Len(ProcLines)
  /\ ppc \in InProc /\ asked[Exe] # <<>> => conf[Exe] = asked[Exe]
  /\ ppc \in {"maps", "lines", "task", "tasks"} => IsSet(Exe)

(* What is missing has left a bit in the exit code.                           *)
BitsInv ==
  /\ RefusalReported
  /\ ppc = "dump" /\ status = {} /\ asked[Ignore] # <<1>> =>
       IsSet(Exe) /\ undone = {} /\ (asked[Mappings] = <<>> => line = Len(ProcLines))
  /\ failed => ppc = "dump" /\ status # {}

(* The first c entries are different tasks that were read, behind them is     *)
(* memory not written to but for the namespace PID of a task that failed.     *)
TableInv ==
  /\ ppc \notin {"tasks", "dump"} => c = 0 /\ count = 0 /\ pidmap = <<>> /\ undone = Tasks
  /\ ppc = "tasks" => count = Len(pidmap) /\ \A i \in (c + 1)..count : pidmap[i].nspid = Junk
  /\ ppc = "dump" /\ ~failed => count = c
  /\ \A i \in 1..c : pidmap[i].pid \in Tasks \ undone /\ pidmap[i].nspid = NsPid[pidmap[i].pid]
  /\ \A i, j \in 1..c : pidmap[i].pid = pidmap[j].pid => i = j
  /\ \A i \in (c + 1)..count : pidmap[i].nspid = Junk \/ \E t \in undone : pidmap[i].nspid = NsPid[t]
  /\ ~failed => NoStrangers

(* The options hold what the lines that were accepted mean.                   *)
MeansInv == taken \in Seq(Lines) /\ ConfMeansLines

(* All of it.                                                                 *)
IndInv == Types /\ SourceInv /\ BitsInv /\ TableInv /\ MeansInv

-----------------------------------------------------------------------------
(* What the keywords of the model are.                                        *)
LEMMA Keywords ==
  /\ {Ignore, Path, Exe, Mappings} \subseteq Options
  /\ Parser[Ignore] = "enum" /\ Parser[Path] = "string" /\ Parser[Exe] = "string"
  /\ Parser[Mappings] = "mapping_multi"
BY ProcAssumption DEF ProcAssumption

(* The conversion to int ends in the range of an int.                         *)
LEMMA CutInRange ==
  ASSUME NEW n \in Int PROVE Cut(n) \in (-IntHalf)..(IntHalf - 1)
<1>1. IntHalf \in Nat \ {0}
  BY OptionsAssumption DEF OptionsAssumption
<1>2. \A a \in Int, b \in Nat \ {0} : a % b \in 0..(b - 1)
  OBVIOUS
<1>3. (n + IntHalf) % (2 * IntHalf) \in 0..(2 * IntHalf - 1)
  <2>1. n + IntHalf \in Int /\ 2 * IntHalf \in Nat \ {0}
    BY <1>1
  <2> QED
    BY ONLY <1>2, <2>1
<1> DEFINE r == (n + IntHalf) % (2 * IntHalf)
<1>4. Cut(n) = r - IntHalf
  BY DEF Cut
<1> HIDE DEF r
<1>5. r \in 0..(2 * IntHalf - 1)
  BY <1>3 DEF r
<1> QED
  BY <1>1, <1>4, <1>5

(* Sequences of one value, and of one value more.                             *)
LEMMA Lists ==
  /\ <<>> \in Values /\ Len(<<>>) = 0
  /\ \A v \in Int : <<v>> \in Values /\ Len(<<v>>) = 1 /\ <<v>>[1] = v /\ <<v>> # <<>>
  /\ \A s \in Values, v \in Int : Append(s, v) \in Values
  /\ \A s \in Values : s = <<>> <=> Len(s) = 0
BY DEF Values

(* A parser leaves a value of its kind, whatever it makes of the line.        *)
LEMMA LineKeepsTypes ==
  ASSUME NEW f, Held(f), NEW l, l.val \in Int PROVE Held(ParseLine(f, l))
<1>1. CASE ~Reaches(l)
  BY <1>1 DEF ParseLine
<1>2. CASE Reaches(l)
  <2> DEFINE k == l.key
             v == CASE Parser[k] = "string"        -> ParseString(f[k], l)
                    [] Parser[k] = "string_multi"  -> ParseStringMulti(f[k], l)
                    [] Parser[k] = "mapping_multi" -> ParseMappingMulti(f[k], l)
                    [] Parser[k] = "int"           -> ParseInt(f[k], l)
                    [] OTHER                       -> ParseEnum(f[k], l)
  <2>1. k \in Options /\ Parser[k] \in Parsers
    BY <1>2, OptionsAssumption DEF Reaches, OptionsAssumption
  <2>2. ParseLine(f, l) = [f EXCEPT ![k] = v]
    BY <1>2, Zenon DEF ParseLine
  <2>f. f[k] \in Values
    BY <2>1 DEF Held
  <2>c. Cut(l.val) \in Int /\ Cut(l.val) \in (-IntHalf)..(IntHalf - 1)
    <3>1. Cut(l.val) \in (-IntHalf)..(IntHalf - 1) /\ IntHalf \in Int
      BY CutInRange, OptionsAssumption DEF OptionsAssumption
    <3> QED
      BY <3>1
  <2>3. /\ v \in Values
        /\ Parser[k] \in Linear => Len(v) <= 1
        /\ Parser[k] = "int" => Len(v) = 1 /\ v[1] \in (-IntHalf)..(IntHalf - 1)
    <3>1. CASE Parser[k] = "string"
      <4>1. v = ParseString(f[k], l)
        BY <3>1
      <4> HIDE DEF v
      <4> QED
        BY <4>1, <3>1, Lists DEF ParseString
    <3>2. CASE Parser[k] = "string_multi"
      <4>1. v = ParseStringMulti(f[k], l)
        BY <3>2
      <4> HIDE DEF v
      <4> QED
        BY <4>1, <3>2, <2>f, Lists DEF ParseStringMulti, Linear
    <3>3. CASE Parser[k] = "mapping_multi"
      <4>1. v = ParseMappingMulti(f[k], l)
        BY <3>3
      <4> HIDE DEF v
      <4> QED
        BY <4>1, <3>3, <2>f, Lists DEF ParseMappingMulti, Linear
    <3>4. CASE Parser[k] = "int"
      <4>1. v = ParseInt(f[k], l)
        BY <3>4
      <4> HIDE DEF v
      <4>2. Len(f[k]) = 1 /\ f[k][1] \in (-IntHalf)..(IntHalf - 1)
        BY <3>4, <2>1 DEF Held
      <4>3. v = f[k] \/ v = <<Cut(l.val)>>
        BY <4>1 DEF ParseInt
      <4> HIDE DEF k
      <4>4. CASE v = f[k]
        BY <4>4, <4>2, <2>f
      <4>5. CASE v = <<Cut(l.val)>>
        BY ONLY <4>5, <2>c, Lists
      <4> QED
        BY <4>3, <4>4, <4>5
    <3>5. CASE Parser[k] = "enum"
      <4>1. v = ParseEnum(f[k], l)
        BY <3>5
      <4> HIDE DEF v
      <4>2. Len(f[k]) <= 1
        BY <3>5, <2>1 DEF Held, Linear
      <4> QED
        BY <4>1, <4>2, <3>5, <2>f, Lists DEF ParseEnum
    <3> QED
      BY <2>1, <3>1, <3>2, <3>3, <3>4, <3>5 DEF Parsers
  <2> HIDE DEF v
  <2> QED
    BY <2>1, <2>2, <2>3 DEF Held
<1> QED
  BY <1>1, <1>2

(* What a line can be.                                                        *)
LEMMA LineFields ==
  ASSUME NEW l \in Lines PROVE l.val \in Int
<1> DEFINE Bare(k)  == {Line(k, kind, 0) : kind \in KindsFor(Parser[k]) \ {"good", "tail"}}
           Full(k)  == {Line(k, kind, v) : kind \in KindsFor(Parser[k]) \intersect {"good", "tail"},
                                          v \in Given[k]}
           Other    == {Line(NotAnOption, "none", 0), Line(NotAnOption, "good", 0), Line(Comment, "none", 0)}
<1>1. Lines = (UNION {Bare(k) \union Full(k) : k \in Options}) \union Other
  BY DEF Lines
<1>2. \A k, x : x \in Bare(k) => x.val = 0
  BY DEF Line
<1>3. \A k, x : x \in Full(k) => x.val \in Given[k]
  BY DEF Line
<1>4. \A x \in Other : x.val = 0
  BY DEF Line
<1>5. \A k \in Options : Given[k] \subseteq Int
  BY OptionsAssumption DEF OptionsAssumption
<1> HIDE DEF Bare, Full, Other
<1>6. l \in Other \/ \E k \in Options : l \in Bare(k) \/ l \in Full(k)
  BY <1>1
<1> QED
  BY <1>2, <1>3, <1>4, <1>5, <1>6

(* A line is refused exactly when something is logged of it.                  *)
LEMMA RefusedIsLogged ==
  ASSUME NEW l
  PROVE  /\ LineLevels(l) \subseteq Bits /\ (Accepted(l) <=> LineLevels(l) = {})
         /\ Early \notin LineLevels(l)
<1>1. CASE Accepted(l)
  <2>1. LineLevels(l) = {}
    <3>1. CASE Ignored(l)
      BY <3>1, OptionsAssumption DEF LineLevels, Ignored, Reaches, OptionsAssumption, NotAnOption, Comment
    <3>2. CASE Reaches(l) /\ l.kind \in GoodKinds(Parser[l.key])
      BY <3>2, OptionsAssumption DEF LineLevels, Ignored, Reaches, OptionsAssumption, NotAnOption, Comment
    <3> QED
      BY <1>1, <3>1, <3>2 DEF Accepted
  <2> QED
    BY <1>1, <2>1
<1>2. CASE ~Accepted(l)
  <2>1. LineLevels(l) \in {{"warning"}, {"crit"}}
    BY <1>2 DEF LineLevels, Accepted
  <2> QED
    BY <1>2, <2>1 DEF Levels, Bits, Early
<1> QED
  BY <1>1, <1>2

(* The first of a set of entries is one of them.                              *)
LEMMA FirstIsOne ==
  ASSUME NEW S \in SUBSET Nat, S # {} PROVE FirstIn(S) \in S /\ \A j \in S : FirstIn(S) <= j
<1>1. PICK m \in S : \A j \in S : ~(j < m)
  <2>1. \E b \in S : \A a \in S : ~(<<a, b>> \in OpToRel(<, Nat))
    BY NatLessThanWellFounded, WFMin, Zenon
  <2>2. PICK b \in S : \A a \in S : ~(<<a, b>> \in OpToRel(<, Nat))
    BY <2>1, Zenon
  <2>3. ASSUME NEW a \in S, a < b PROVE FALSE
    <3>1. a \in Nat /\ b \in Nat
      OBVIOUS
    <3>2. <<a, b>> \in OpToRel(<, Nat)
      BY <3>1, <2>3, Zenon DEF OpToRel
    <3> QED
      BY <2>2, <3>2, Zenon
  <2> QED
    BY <2>3
<1>2. m \in S /\ \A j \in S : m <= j
  BY <1>1
<1> QED
  BY <1>2, Zenon DEF FirstIn

(* What proc_pid_map finds is in an entry.                                    *)
LEMMA FoundIsEntry ==
  ASSUME count \in Nat, NEW n, NEW p \in Found(n) PROVE \E i \in 1..count : p = pidmap[i].pid
<1>1. Matches(n) \subseteq 1..count /\ MayMatch(n) \subseteq 1..count /\ 1..count \subseteq Nat
  BY DEF Matches, MayMatch
<1>2. Matches(n) # {} => FirstIn(Matches(n)) \in 1..count
  BY <1>1, FirstIsOne
<1> QED
  BY <1>1, <1>2 DEF Found

(* The table after realloc: as long as it was or longer, with room for one    *)
(* entry more, and with what it held.                                         *)
LEMMA GrownHasRoom ==
  ASSUME pidmap \in Tables, count = Len(pidmap), c \in 0..count
  PROVE  /\ Grown \in Tables /\ Len(Grown) >= count /\ Len(Grown) > c
         /\ \A i \in 1..count : Grown[i] = pidmap[i]
         /\ \A i \in (count + 1)..Len(Grown) : Grown[i] = JunkEntry
<1>1. CASE c < count
  BY <1>1 DEF Grown, Tables
<1>2. CASE ~(c < count)
  <2> DEFINE m == IF count = 0 THEN FirstCapacity ELSE count
             more == [i \in 1..m |-> JunkEntry]
  <2>1. m \in Nat \ {0} /\ count \in Nat
    BY ProcAssumption DEF ProcAssumption, Tables
  <2>2. Grown = pidmap \o more
    BY <1>2 DEF Grown
  <2> HIDE DEF m
  <2>3. JunkEntry \in Entries
    BY DEF JunkEntry, Junk, Entries
  <2>4. more \in Tables /\ Len(more) = m /\ \A i \in 1..m : more[i] = JunkEntry
    BY <2>1, <2>3 DEF Tables
  <2> HIDE DEF more
  <2>n. Len(pidmap) = count /\ pidmap \in Seq(Entries) /\ more \in Seq(Entries)
    BY <2>4 DEF Tables
  <2>5. /\ Grown \in Tables /\ Len(Grown) = count + m
        /\ \A i \in 1..count : Grown[i] = pidmap[i]
        /\ \A i \in (count + 1)..(count + m) : Grown[i] = more[i - count]
    <3>1. /\ Grown \in Seq(Entries) /\ Len(Grown) = count + m
          /\ \A i \in 1..(count + m) : Grown[i] = IF i <= count THEN pidmap[i] ELSE more[i - count]
      BY <2>2, <2>4, <2>n, ConcatProperties
    <3>2. \A i \in 1..count : i \in 1..(count + m) /\ i <= count
      BY <2>1
    <3>3. \A i \in (count + 1)..(count + m) : i \in 1..(count + m) /\ ~(i <= count)
      BY <2>1
    <3> QED
      BY ONLY <3>1, <3>2, <3>3 DEF Tables
  <2> QED
    BY <2>1, <2>4, <2>5
<1> QED
  BY <1>1, <1>2

-----------------------------------------------------------------------------
(* The types.                                                                 *)
LEMMA OptionsTypes == ASSUME Types, OptionsStep PROVE Types'
<1>0. UNCHANGED <<line, undone, pidmap, count, c, failed, answer>> /\ asked' = conf' /\ Next
  BY DEF OptionsStep
<1>1. \A l \in Lines : /\ LineLevels(l) \subseteq Bits /\ {"crit"} \subseteq Bits
                       /\ Held(ParseLine(conf, l))
  BY LineFields, LineKeepsTypes, RefusedIsLogged DEF Types, Levels, Bits
<1>2. /\ Held(conf)' /\ pid' \in Pids \union {NoPid, -2} /\ ppc' \in Labels /\ status' \subseteq Bits
  <2>k. Held(conf) /\ pid \in Pids \union {NoPid, -2} /\ ppc \in Labels /\ status \subseteq Bits
    BY DEF Types
  <2>l. ASSUME NEW l \in Lines, DirectLine(l) \/ FileLine(l)
        PROVE  conf' = ParseLine(conf, l) /\ pid' = pid /\ ppc' \in {ppc, "exited"} /\ status' \subseteq Bits
    BY <1>1, <2>k, <2>l DEF DirectLine, FileLine, Takes, Refuses, Exits
  <2>1. CASE \E l \in Lines : DirectLine(l) \/ FileLine(l)
    <3>1. PICK l \in Lines : DirectLine(l) \/ FileLine(l)
      BY <2>1
    <3>2. conf' = ParseLine(conf, l) /\ pid' = pid /\ ppc' \in {ppc, "exited"} /\ status' \subseteq Bits
      BY <2>l, <3>1
    <3>3. Held(conf')
      BY <1>1, <3>2
    <3> QED
      BY <2>k, <3>2, <3>3 DEF Held, Labels
  <2>2. CASE OpenFile \/ FileUnreadable \/ LineTooLong \/ FileEnd \/ PidGiven \/ PidInvalid
             \/ UnknownOption \/ Usage \/ EndOfOptions
    <3>1. conf' = conf /\ pid' \in Pids \union {pid} /\ status' \subseteq Bits
          /\ ppc' \in {ppc, "file", "exited", "args", "usage", "run"}
      BY <2>2, <2>k DEF OpenFile, FileUnreadable, LineTooLong, FileEnd, PidGiven, PidInvalid, UnknownOption,
                     Usage, EndOfOptions, Exits, Levels, Bits
    <3> QED
      BY <2>k, <3>1 DEF Held, Labels
  <2> QED
    BY <1>0, <2>1, <2>2 DEF Next
<1> QED
  BY <1>0, <1>2 DEF Types, Held

(* The steps before /proc is looked at, those of read_proc_info before the    *)
(* tasks, and the steps with them.                                            *)
Waiting == TeeFails \/ PidGuessed \/ UnwinderFails
Earlier ==
  \/ ProcIgnored \/ NoProcPath \/ ProcNotOpened \/ ProcOpened
  \/ ReadExe \/ ExeFails \/ OpenMaps \/ MapsFail \/ ReadMapsLine \/ MapsLineFails \/ CloseMaps
  \/ OpenTask \/ TaskFails
OneTask(t) == StoreTask(t) \/ SkipTask(t) \/ TaskGone(t) \/ TaskMalformed(t)

(* A step is one of the options, before /proc, before the tasks, with them,   *)
(* or of the dump.                                                            *)
LEMMA Steps ==
  ASSUME [ProcNext]_allVars
  PROVE  \/ OptionsStep \/ Waiting \/ Earlier \/ LastTask \/ UNCHANGED allVars
         \/ \E t \in Tasks : OneTask(t)
         \/ \E n \in Threads : MapPid(n)
BY Zenon DEF ProcNext, Waiting, Earlier, OneTask, Terminated

(* The steps before /proc change the exit code and the PID alone.             *)
LEMMA OnlyWaiting ==
  ASSUME Types, Waiting
  PROVE  /\ UNCHANGED <<conf, ppc, taken, asked, line, undone, pidmap, count, c, failed, answer>>
         /\ ppc = "run" /\ status' \subseteq Bits /\ pid' \in Pids \union {NoPid, -2}
BY DEF Waiting, TeeFails, PidGuessed, UnwinderFails, Log, Types, Levels, Bits, procVars

(* They leave the table alone, and the tasks leave the settings alone.        *)
LEMMA TableKept ==
  ASSUME Earlier PROVE UNCHANGED <<asked, undone, pidmap, count, c, answer, taken>>
BY DEF Earlier, ProcIgnored, NoProcPath, ProcNotOpened, ProcOpened, ReadExe, ExeFails, OpenMaps,
       MapsFail, ReadMapsLine, MapsLineFails, CloseMaps, OpenTask, TaskFails, ReadFails, mapVars, procVars

(* A step of a task leaves the settings alone.                                *)
LEMMA SettingsKept ==
  ASSUME NEW t, OneTask(t) \/ LastTask PROVE UNCHANGED <<asked, conf, pid, line, answer, taken>>
BY DEF OneTask, LastTask, StoreTask, SkipTask, TaskGone, TaskMalformed, ReadFails, mapVars

(* A string option that is given one value.                                   *)
LEMMA PutString ==
  ASSUME NEW f, Held(f), NEW k \in Options, Parser[k] = "string", NEW v \in Int
  PROVE  /\ Held([f EXCEPT ![k] = <<v>>])
         /\ [f EXCEPT ![k] = <<v>>][k] = <<v>>
         /\ \A o \in Options \ {k} : [f EXCEPT ![k] = <<v>>][o] = f[o]
<1>1. <<v>> \in Values /\ Len(<<v>>) = 1
  BY Lists
<1> QED
  BY <1>1 DEF Held

(* The lines of /proc/<PID>/maps.                                             *)
LEMMA LinesOfMaps ==
  Len(ProcLines) \in Nat /\ \A i \in 1..Len(ProcLines) : ProcLines[i].val \in Int /\ ProcLines[i].exec \in BOOLEAN
<1> DEFINE Maps == [exec : BOOLEAN, val : Nat]
<1>1. ProcLines \in Seq(Maps)
  BY ProcAssumption DEF ProcAssumption
<1>2. \A r \in Maps : r.val \in Int /\ r.exec \in BOOLEAN
  OBVIOUS
<1> HIDE DEF Maps
<1> QED
  BY ONLY <1>1, <1>2

(* The types in the steps before the tasks.                                   *)
LEMMA BeforeTypes == ASSUME Types, Earlier PROVE Types'
<1>0. UNCHANGED <<asked, undone, pidmap, count, c, answer, taken>>
  BY TableKept
<1>k. Held(conf) /\ pid \in Pids \union {NoPid, -2} /\ ppc \in Labels /\ status \subseteq Bits
      /\ line \in 0..Len(ProcLines) /\ failed \in BOOLEAN
  BY DEF Types
<1>p. pid \in Int
  BY <1>k, OptionsAssumption DEF OptionsAssumption, NoPid
<1>n. Len(ProcLines) \in Nat /\ \A i \in 1..Len(ProcLines) : ProcLines[i].val \in Int
  BY LinesOfMaps
<1>1. Held(WithPath) /\ Held([conf EXCEPT ![Exe] = <<ProcExe>>])
  <2>1. Held([conf EXCEPT ![Path] = <<pid>>])
    BY <1>k, <1>p, PutString, Keywords
  <2>2. ProcExe \in Int
    BY ProcAssumption DEF ProcAssumption
  <2>3. Held([conf EXCEPT ![Exe] = <<ProcExe>>])
    BY <1>k, <2>2, PutString, Keywords
  <2> QED
    BY <1>k, <2>1, <2>3 DEF WithPath
<1>2. ASSUME line < Len(ProcLines), NEW kind PROVE Held(ParseLine(conf, ProcLine(kind)))
  <2>1. ProcLine(kind).val = ProcLines[line + 1].val
    BY DEF ProcLine, Line
  <2>2. line + 1 \in 1..Len(ProcLines)
    BY <1>2, <1>k, <1>n
  <2> QED
    BY <1>k, <1>n, <2>1, <2>2, LineKeepsTypes
<1>3. Held(conf')
  BY <1>k, <1>1, <1>2 DEF Earlier, ProcIgnored, NoProcPath, ProcNotOpened, ProcOpened, ReadExe,
       ExeFails, OpenMaps, MapsFail, ReadMapsLine, MapsLineFails, CloseMaps, OpenTask, TaskFails
<1>4. pid' \in Pids \union {NoPid, -2} /\ ppc' \in Labels /\ status' \subseteq Bits
  BY <1>k DEF Earlier, ProcIgnored, NoProcPath, ProcNotOpened, ProcOpened, ReadExe, ExeFails,
       OpenMaps, MapsFail, ReadMapsLine, MapsLineFails, CloseMaps, OpenTask, TaskFails, ReadFails, To, Log,
       Labels, Levels, Bits
<1>5. line' \in 0..Len(ProcLines) /\ failed' \in BOOLEAN
  <2>1. line' = line \/ (line < Len(ProcLines) /\ line' = line + 1)
    BY DEF Earlier, ProcIgnored, NoProcPath, ProcNotOpened, ProcOpened, ReadExe, ExeFails,
         OpenMaps, MapsFail, ReadMapsLine, MapsLineFails, CloseMaps, OpenTask, TaskFails, ReadFails, procVars
  <2>2. failed' = failed \/ failed' = TRUE
    BY DEF Earlier, ProcIgnored, NoProcPath, ProcNotOpened, ProcOpened, ReadExe, ExeFails,
         OpenMaps, MapsFail, ReadMapsLine, MapsLineFails, CloseMaps, OpenTask, TaskFails, ReadFails, procVars
  <2>3. failed' \in BOOLEAN
    BY <1>k, <2>2
  <2>4. line' \in 0..Len(ProcLines)
    BY <1>k, <1>n, <2>1
  <2> QED
    BY <2>3, <2>4
<1> QED
  BY <1>0, <1>3, <1>4, <1>5 DEF Types, Held

(* A task that is stored, passed over or not readable.                        *)
LEMMA TaskTypes ==
  ASSUME Types, TableInv, NEW t, (t \in Tasks /\ OneTask(t)) \/ LastTask PROVE Types'
<1>0. UNCHANGED <<asked, conf, pid, line, answer, taken>>
  BY SettingsKept
<1>k. ppc \in Labels /\ status \subseteq Bits /\ undone \subseteq Tasks
      /\ pidmap \in Tables /\ count \in 0..Len(pidmap) /\ c \in 0..count /\ failed \in BOOLEAN
  BY DEF Types
<1>t. ppc = "tasks" /\ count = Len(pidmap)
  <2>1. ppc = "tasks"
    BY DEF OneTask, LastTask, StoreTask, SkipTask, TaskGone, TaskMalformed
  <2> QED
    BY <2>1 DEF TableInv
<1>g. Grown \in Tables /\ Len(Grown) \in Nat /\ Len(Grown) > c /\ c \in Nat /\ c + 1 \in 1..Len(Grown)
  <2>1. Grown \in Tables /\ Len(Grown) > c
    BY <1>k, <1>t, GrownHasRoom
  <2>2. Len(Grown) \in Nat /\ c \in Nat
    BY <2>1, <1>k DEF Tables
  <2> QED
    BY <2>1, <2>2
<1>e. Grown[c + 1] \in Entries /\ (t \in Tasks => NsPid[t] \in Int)
  <2>1. Grown[c + 1] \in Entries
    BY ONLY <1>g DEF Tables
  <2>2. NsPid \in [Tasks -> Nat \ {0}]
    BY ProcAssumption DEF ProcAssumption
  <2> QED
    BY <2>1, <2>2
<1>1. /\ ppc' \in Labels /\ status' \subseteq Bits /\ undone' \subseteq Tasks /\ failed' \in BOOLEAN
  BY <1>k DEF OneTask, LastTask, StoreTask, SkipTask, TaskGone, TaskMalformed, ReadFails, To, Labels, Levels, Bits,
              mapVars
<1>2. pidmap' \in Tables /\ count' \in 0..Len(pidmap') /\ c' \in 0..count'
  <2>1. CASE t \in Tasks /\ StoreTask(t)
    <3> DEFINE e == [pid |-> t, nspid |-> NsPid[t]]
    <3>1. e \in Entries
      BY <2>1, <1>e DEF Entries
    <3> HIDE DEF e
    <3>2. [Grown EXCEPT ![c + 1] = e] \in Tables /\ Len([Grown EXCEPT ![c + 1] = e]) = Len(Grown)
      BY <1>g, <3>1 DEF Tables
    <3> QED
      BY <2>1, <3>2, <1>g DEF StoreTask, e
  <2>2. CASE t \in Tasks /\ TaskMalformed(t) /\ pidmap' # pidmap
    <3> DEFINE e == [Grown[c + 1] EXCEPT !.nspid = NsPid[t]]
    <3>1. e \in Entries
      BY <2>2, <1>e DEF Entries
    <3>3. pidmap' = [Grown EXCEPT ![c + 1] = e] /\ count' = Len(Grown) /\ c' = c
      BY <2>2, <1>g DEF TaskMalformed
    <3> HIDE DEF e
    <3>2. [Grown EXCEPT ![c + 1] = e] \in Tables /\ Len([Grown EXCEPT ![c + 1] = e]) = Len(Grown)
      BY <1>g, <3>1 DEF Tables
    <3> QED
      BY <3>3, <3>2, <1>g
  <2>3. CASE TaskMalformed(t) /\ pidmap' = pidmap /\ count' # count
    <3>1. count' = Len(Grown) /\ c' = c /\ pidmap = [Grown EXCEPT ![c + 1].nspid = NsPid[t]]
      BY <2>3 DEF TaskMalformed
    <3>2. Len(pidmap) = Len(Grown)
      BY <3>1, <1>g DEF Tables
    <3> QED
      BY <3>1, <3>2, <1>g, <1>k, <2>3
  <2>4. CASE TaskMalformed(t) /\ pidmap' = pidmap /\ count' = count
    BY <2>4, <1>k DEF TaskMalformed
  <2>5. CASE SkipTask(t) \/ TaskGone(t) \/ LastTask
    BY <2>5, <1>k DEF SkipTask, TaskGone, LastTask, ReadFails, mapVars
  <2> QED
    BY <2>1, <2>2, <2>3, <2>4, <2>5 DEF OneTask
<1> QED
  BY <1>0, <1>1, <1>2 DEF Types, Held

(* A PID of the core that is translated.                                      *)
LEMMA MapTypes ==
  ASSUME Types, NEW n \in Threads, MapPid(n) PROVE Types'
<1>1. UNCHANGED <<conf, pid, ppc, asked, line, undone, pidmap, count, c, failed>>
  BY DEF MapPid, mapVars
<1>2. status' \subseteq Bits
  BY DEF MapPid, Log, Levels, Bits, Types
<1>3. n \in Nat /\ \A t \in Tasks : t \in Int
  BY ProcAssumption DEF ProcAssumption
<1>4. \A p \in Found(n) : p \in Int
  <2>1. ASSUME NEW i \in 1..count PROVE pidmap[i].pid \in Int
    <3>1. pidmap[i] \in Entries
      BY DEF Types, Tables
    <3> QED
      BY <1>3, <3>1 DEF Entries, Junk
  <2> QED
    BY <2>1, FoundIsEntry DEF Types, Tables
<1>5. answer' \in [asked : Nat, pid : Int]
  BY <1>3, <1>4 DEF MapPid
<1> QED
  BY <1>1, <1>2, <1>5 DEF Types, Held

(* The types in every step.                                                   *)
LEMMA TypesStep == ASSUME Types, TableInv, [ProcNext]_allVars PROVE Types'
<1>1. CASE UNCHANGED allVars
  BY <1>1 DEF Types, Held, allVars, optVars, procVars
<1>2. CASE LastTask
  BY <1>2, TaskTypes
<1>3. CASE Waiting
  BY <1>3, OnlyWaiting DEF Types, Held
<1> QED
  BY <1>1, <1>2, <1>3, Steps, OptionsTypes, BeforeTypes, TaskTypes, MapTypes

-----------------------------------------------------------------------------
(* The mappings read.                                                         *)

(* Of no lines nothing is executable.                                         *)
LEMMA ExecNone == ExecAmong(<<>>, 0)
<1> DEFINE at == [i \in 1..Len(<<>>) |-> i]
<1>1. Len(<<>>) = 0 /\ 1..0 = {}
  OBVIOUS
<1>2. at \in [1..Len(<<>>) -> 1..0]
  BY <1>1
<1>3. {at[i] : i \in 1..Len(<<>>)} = {e \in 1..0 : ProcLines[e].exec}
  BY <1>1
<1> QED
  BY <1>1, <1>2, <1>3, Zenon DEF ExecAmong

(* One line more adds its value at the end if it is executable.               *)
LEMMA ExecMore ==
  ASSUME NEW s \in Values, NEW n \in 0..(Len(ProcLines) - 1), ExecAmong(s, n),
         NEW t, t = IF ProcLines[n + 1].exec THEN Append(s, ProcLines[n + 1].val) ELSE s
  PROVE  ExecAmong(t, n + 1)
<1>1. PICK at \in [1..Len(s) -> 1..n] :
        /\ \A i, j \in 1..Len(s) : i < j => at[i] < at[j]
        /\ {at[i] : i \in 1..Len(s)} = {e \in 1..n : ProcLines[e].exec}
        /\ \A i \in 1..Len(s) : s[i] = ProcLines[at[i]].val
  BY Zenon DEF ExecAmong
<1>n. Len(s) \in Nat /\ n \in Nat /\ Len(ProcLines) \in Nat
  BY LinesOfMaps DEF Values
<1>2. CASE ~ProcLines[n + 1].exec
  <2>1. at \in [1..Len(s) -> 1..(n + 1)]
    BY <1>n
  <2>2. {e \in 1..(n + 1) : ProcLines[e].exec} = {e \in 1..n : ProcLines[e].exec}
    BY <1>n, <1>2
  <2> QED
    BY <1>1, <1>2, <2>1, <2>2, Zenon DEF ExecAmong
<1>3. CASE ProcLines[n + 1].exec
  <2> DEFINE m  == Len(s) + 1
             bt == [i \in 1..m |-> IF i = m THEN n + 1 ELSE at[i]]
  <2>1. Len(t) = m /\ t[m] = ProcLines[n + 1].val /\ \A i \in 1..Len(s) : t[i] = s[i]
    <3>1. t = Append(s, ProcLines[n + 1].val)
      BY <1>3
    <3>2. s \in Seq(Int) /\ n + 1 \in 1..Len(ProcLines)
      BY <1>n DEF Values
    <3>3. ProcLines[n + 1].val \in Int
      BY <3>2, LinesOfMaps
    <3> QED
      BY <3>1, <3>2, <3>3, AppendProperties
  <2>m. m \in Nat /\ 1..m = 1..Len(s) \union {m} /\ m \notin 1..Len(s)
    BY <1>n
  <2>b. bt[m] = n + 1 /\ \A i \in 1..Len(s) : bt[i] = at[i] /\ bt[i] \in 1..n
    BY <1>n
  <2> HIDE DEF m
  <2>2. bt \in [1..m -> 1..(n + 1)]
    BY <1>n, <2>m
  <2> HIDE DEF bt
  <2>3. \A i, j \in 1..m : i < j => bt[i] < bt[j]
    <3>1. ASSUME NEW i \in 1..m, NEW j \in 1..m, i < j PROVE bt[i] < bt[j]
      <4>1. i \in 1..Len(s)
        BY <3>1, <1>n DEF m
      <4>2. CASE j = m
        BY <4>1, <4>2, <2>b, <1>n
      <4>3. CASE j \in 1..Len(s)
        BY <4>1, <4>3, <3>1, <2>b, <1>1
      <4> QED
        BY <4>2, <4>3, <2>m
    <3> QED
      BY <3>1
  <2>4. {bt[i] : i \in 1..m} = {e \in 1..(n + 1) : ProcLines[e].exec}
    <3>1. {bt[i] : i \in 1..m} = {at[i] : i \in 1..Len(s)} \union {n + 1}
      BY <2>m, <2>b
    <3>2. {e \in 1..(n + 1) : ProcLines[e].exec} = {e \in 1..n : ProcLines[e].exec} \union {n + 1}
      BY <1>n, <1>3
    <3> QED
      BY <3>1, <3>2, <1>1
  <2>5. \A i \in 1..m : t[i] = ProcLines[bt[i]].val
    BY <2>1, <2>m, <2>b, <1>1
  <2> QED
    BY <2>1, <2>2, <2>3, <2>4, <2>5, Zenon DEF ExecAmong
<1> QED
  BY <1>2, <1>3

(* What parse_line makes of a mapping.                                        *)
LEMMA MappingParsed ==
  ASSUME NEW f, Held(f), NEW v
  PROVE  /\ ParseLine(f, Line(Mappings, "good", v))[Mappings] = Append(f[Mappings], v)
         /\ ParseLine(f, Line(Mappings, "nomem", v))[Mappings] = f[Mappings]
         /\ \A o \in Options \ {Mappings} :
              /\ ParseLine(f, Line(Mappings, "good", v))[o] = f[o]
              /\ ParseLine(f, Line(Mappings, "nomem", v))[o] = f[o]
<1>1. ASSUME NEW kind \in {"good", "nomem"}
      PROVE  ParseLine(f, Line(Mappings, kind, v)) =
               [f EXCEPT ![Mappings] = IF kind = "good" THEN Append(f[Mappings], v) ELSE f[Mappings]]
  <2> DEFINE l == Line(Mappings, kind, v)
  <2>1. l.key = Mappings /\ l.kind = kind /\ l.val = v
    BY DEF Line
  <2> HIDE DEF l
  <2>2. Reaches(l)
    BY <2>1, Keywords DEF Reaches
  <2>3. ParseLine(f, l) = [f EXCEPT ![Mappings] = ParseMappingMulti(f[Mappings], l)]
    BY <2>1, <2>2, Keywords DEF ParseLine
  <2> QED
    BY <2>1, <2>3 DEF ParseMappingMulti, l
<1>2. f \in [Options -> Values] /\ Mappings \in Options
  BY Keywords DEF Held
<1>3. ParseLine(f, Line(Mappings, "good", v)) = [f EXCEPT ![Mappings] = Append(f[Mappings], v)]
  BY <1>1
<1>4. ParseLine(f, Line(Mappings, "nomem", v)) = [f EXCEPT ![Mappings] = f[Mappings]]
  BY <1>1
<1> QED
  BY <1>2, <1>3, <1>4

(* Where main is while it reads the options.                                  *)
LEMMA OptionsWhere ==
  ASSUME OptionsStep
  PROVE  /\ ppc \in {"args", "file"} /\ ppc' \in {"args", "file", "exited", "usage", "run"}
         /\ asked' = conf' /\ UNCHANGED <<line, undone, pidmap, count, c, failed, answer>>
<1>1. Next /\ asked' = conf' /\ UNCHANGED <<line, undone, pidmap, count, c, failed, answer>>
  BY DEF OptionsStep
<1>2. ASSUME NEW l \in Lines, DirectLine(l) \/ FileLine(l)
      PROVE  ppc \in {"args", "file"} /\ ppc' \in {"args", "file", "exited", "usage", "run"}
  BY <1>2 DEF DirectLine, FileLine, Takes, Refuses, Exits
<1>3. ASSUME OpenFile \/ FileUnreadable \/ LineTooLong \/ FileEnd \/ PidGiven \/ PidInvalid
             \/ UnknownOption \/ Usage \/ EndOfOptions
      PROVE  ppc \in {"args", "file"} /\ ppc' \in {"args", "file", "exited", "usage", "run"}
  BY <1>3 DEF OpenFile, FileUnreadable, LineTooLong, FileEnd, PidGiven, PidInvalid, UnknownOption,
              Usage, EndOfOptions, Exits
<1> QED
  BY <1>1, <1>2, <1>3 DEF Next

(* No step mixes the mappings of the options with those of /proc.             *)
LEMMA SourceStep ==
  ASSUME Types, SourceInv, [ProcNext]_allVars PROVE SourceInv'
<1>k. Held(conf) /\ line \in 0..Len(ProcLines) /\ ppc \in Labels /\ {Exe, Path, Mappings} \subseteq Options
      /\ Path # Mappings /\ Exe # Mappings /\ conf[Mappings] \in Values
  <2>1. Held(conf) /\ line \in 0..Len(ProcLines) /\ ppc \in Labels
    BY DEF Types
  <2> QED
    BY <2>1, Keywords DEF Held
<1>n. Len(ProcLines) \in Nat
  BY LinesOfMaps
<1>1. CASE OptionsStep
  BY <1>1, OptionsWhere, <1>k DEF SourceInv, Asking, InProc
<1>2. CASE UNCHANGED allVars
  BY <1>2 DEF SourceInv, allVars, optVars, procVars, ExecAmong, IsSet
<1>3. CASE LastTask \/ \E t \in Tasks : OneTask(t)
  <2>1. UNCHANGED <<asked, conf, line>>
    BY <1>3, SettingsKept
  <2>2. ppc = "tasks" /\ ppc' \in {"tasks", "dump"}
    BY <1>3 DEF OneTask, LastTask, StoreTask, SkipTask, TaskGone, TaskMalformed, ReadFails, To
  <2> QED
    BY <2>1, <2>2 DEF SourceInv, Asking, InProc, IsSet, ExecAmong
<1>4. CASE \E n \in Threads : MapPid(n)
  <2>1. UNCHANGED <<asked, conf, line, ppc>>
    BY <1>4 DEF MapPid
  <2> QED
    BY <2>1 DEF SourceInv, Asking, InProc, IsSet, ExecAmong
<1>5. CASE Earlier
  <2>0. asked' = asked
    BY <1>5, TableKept
  <2>2. CASE ProcIgnored \/ NoProcPath
    <3>1. ppc = "run" /\ ppc' = "dump" /\ conf' = conf /\ line' = line /\ conf = asked /\ line = 0
      BY <2>2 DEF ProcIgnored, NoProcPath, To, SourceInv, Asking, procVars
    <3>2. ExecAmong(<<>>, 0)' 
      BY ExecNone DEF ExecAmong
    <3> QED
      BY <2>0, <3>1, <3>2 DEF SourceInv, Asking, InProc
  <2>3. CASE ProcNotOpened \/ ProcOpened
    <3>1. ppc = "run" /\ ppc' \in {"dump", "exe"} /\ conf' = WithPath /\ line' = line /\ conf = asked /\ line = 0
      BY <2>3 DEF ProcNotOpened, ProcOpened, To, SourceInv, Asking, procVars
    <3>2. ExecAmong(<<>>, 0)' 
      BY ExecNone DEF ExecAmong
    <3>3. WithPath[Mappings] = conf[Mappings] /\ (conf[Exe] # <<>> => WithPath[Exe] = conf[Exe])
      BY <1>k DEF WithPath, IsSet, Held
    <3> QED
      BY <2>0, <3>1, <3>2, <3>3 DEF SourceInv, Asking, InProc
  <2>4. CASE ReadExe
    <3>1. ppc = "exe" /\ ppc' = "maps" /\ line' = line
          /\ conf' = IF IsSet(Exe) THEN conf ELSE [conf EXCEPT ![Exe] = <<ProcExe>>]
      BY <2>4 DEF ReadExe, To, procVars
    <3>2. <<ProcExe>> # <<>>
      BY Lists, ProcAssumption DEF ProcAssumption
    <3>3. conf'[Mappings] = conf[Mappings] /\ (IsSet(Exe) => conf'[Exe] = conf[Exe]) /\ conf'[Exe] # <<>>
      BY <1>k, <3>1, <3>2 DEF IsSet, Held
    <3> QED
      BY <2>0, <3>1, <3>3 DEF SourceInv, Asking, InProc, IsSet, ExecAmong
  <2>5. CASE ExeFails \/ MapsFail \/ OpenMaps \/ CloseMaps \/ OpenTask \/ TaskFails
    <3>1. UNCHANGED <<conf, line>> /\ \/ ppc = "maps" /\ conf[Mappings] # <<>> /\ ppc' = "task"
                                      \/ ppc = "maps" /\ conf[Mappings] = <<>> /\ ppc' = "lines"
                                      \/ ppc = "lines" /\ line = Len(ProcLines) /\ ppc' = "task"
                                      \/ ppc = "task" /\ ppc' = "tasks"
                                      \/ ppc \in {"exe", "maps", "task"} /\ ppc' = "dump"
      BY <2>5 DEF ExeFails, MapsFail, OpenMaps, CloseMaps, OpenTask, TaskFails, ReadFails, To, MapsGiven,
                  IsSet, procVars
    <3> QED
      BY <2>0, <3>1 DEF SourceInv, Asking, InProc, IsSet, ExecAmong
  <2>6. CASE ReadMapsLine
    <3>1. ppc = "lines" /\ ppc' = "lines" /\ line < Len(ProcLines) /\ line' = line + 1
          /\ conf' = IF ProcLines[line + 1].exec THEN ParseLine(conf, ProcLine("good")) ELSE conf
      BY <2>6 DEF ReadMapsLine
    <3>2. conf'[Mappings] = IF ProcLines[line + 1].exec THEN Append(conf[Mappings], ProcLines[line + 1].val)
                            ELSE conf[Mappings]
      <4>1. ProcLine("good") = Line(Mappings, "good", ProcLines[line + 1].val)
        BY DEF ProcLine
      <4>2. ParseLine(conf, ProcLine("good"))[Mappings] = Append(conf[Mappings], ProcLines[line + 1].val)
        BY <4>1, <1>k, MappingParsed
      <4> QED
        BY <3>1, <4>2
    <3>3. conf'[Exe] = conf[Exe]
      BY <3>1, <1>k, MappingParsed DEF ProcLine
    <3>4. asked[Mappings] = <<>> /\ ExecAmong(conf[Mappings], line) /\ conf[Exe] # <<>>
          /\ (asked[Exe] # <<>> => conf[Exe] = asked[Exe])
      BY <3>1 DEF SourceInv, InProc, IsSet
    <3>5. line \in 0..(Len(ProcLines) - 1)
      BY <3>1, <1>k, <1>n
    <3>6. ExecAmong(conf'[Mappings], line')
      BY <3>1, <3>2, <3>4, <3>5, <1>k, ExecMore
    <3> QED
      BY <2>0, <3>1, <3>3, <3>4, <3>6 DEF SourceInv, Asking, InProc, IsSet, ExecAmong
  <2>7. CASE MapsLineFails
    <3>1. ppc = "lines" /\ ppc' = "dump" /\ line' = line /\ conf' = ParseLine(conf, ProcLine("nomem"))
      BY <2>7 DEF MapsLineFails, ReadFails, To
    <3>2. conf'[Mappings] = conf[Mappings] /\ conf'[Exe] = conf[Exe]
      BY <3>1, <1>k, MappingParsed DEF ProcLine
    <3> QED
      BY <2>0, <3>1, <3>2 DEF SourceInv, Asking, InProc, IsSet, ExecAmong
  <2> QED
    BY <1>5, <2>2, <2>3, <2>4, <2>5, <2>6, <2>7 DEF Earlier
<1>6. CASE Waiting
  BY <1>6, OnlyWaiting DEF SourceInv, Asking, InProc, IsSet, ExecAmong
<1> QED
  BY <1>1, <1>2, <1>3, <1>4, <1>5, <1>6, Steps

-----------------------------------------------------------------------------
(* The exit code.                                                             *)
LEMMA OptionsBits ==
  ASSUME RefusalReported, OptionsStep
  PROVE  IF ppc' = "exited" THEN status' \ {Early} # {} ELSE status' \subseteq {Early}
<1>1. Next /\ ppc \in {"args", "file"}
  BY OptionsWhere DEF OptionsStep
<1>2. status \subseteq {Early}
  BY <1>1 DEF RefusalReported
<1>3. ASSUME NEW l \in Lines, DirectLine(l) \/ FileLine(l)
      PROVE  IF ppc' = "exited" THEN status' \ {Early} # {} ELSE status' \subseteq {Early}
  <2>1. CASE Takes(l)
    <3>1. ppc' = ppc /\ status' = status
      BY <2>1, RefusedIsLogged DEF Takes
    <3> QED
      BY <1>1, <1>2, <3>1
  <2>2. CASE Refuses(l, {}) \/ Refuses(l, {"crit"})
    <3>1. ppc' = "exited" /\ LineLevels(l) \subseteq status' /\ ~Accepted(l)
      BY <2>2 DEF Refuses, Exits
    <3> QED
      BY <3>1, RefusedIsLogged
  <2> QED
    BY <1>3, <2>1, <2>2 DEF DirectLine, FileLine
<1>4. CASE OpenFile \/ FileEnd \/ PidGiven \/ Usage \/ EndOfOptions
  <2>1. status' = status /\ ppc' # "exited"
    BY <1>1, <1>4 DEF OpenFile, FileEnd, PidGiven, Usage, EndOfOptions
  <2> QED
    BY <1>2, <2>1
<1>5. CASE FileUnreadable \/ LineTooLong \/ PidInvalid \/ UnknownOption
  <2>1. ppc' = "exited" /\ "crit" \in status'
    BY <1>5 DEF FileUnreadable, LineTooLong, PidInvalid, UnknownOption, Exits, Levels
  <2> QED
    BY <2>1 DEF Early
<1> QED
  BY <1>1, <1>3, <1>4, <1>5 DEF Next

(* What is missing leaves its bit, in every step.                             *)
LEMMA BitsStep ==
  ASSUME Types, SourceInv, BitsInv, [ProcNext]_allVars PROVE BitsInv'
<1>0. ppc \in Labels /\ failed \in BOOLEAN
  BY DEF Types
<1>1. CASE OptionsStep
  <2>1. IF ppc' = "exited" THEN status' \ {Early} # {} ELSE status' \subseteq {Early}
    BY <1>1, OptionsBits DEF BitsInv
  <2> QED
    BY <1>1, <2>1, OptionsWhere DEF BitsInv, RefusalReported
<1>2. CASE UNCHANGED allVars
  BY <1>2 DEF BitsInv, RefusalReported, allVars, optVars, procVars, IsSet
<1>3. CASE LastTask
  <2>1. UNCHANGED <<asked, conf, line, status, failed, undone>> /\ ppc = "tasks" /\ ppc' = "dump" /\ undone = {}
    BY <1>3 DEF LastTask, To
  <2>2. IsSet(Exe) /\ (asked[Mappings] = <<>> => line = Len(ProcLines))
    BY <2>1 DEF SourceInv
  <2> QED
    BY <2>1, <2>2 DEF BitsInv, RefusalReported, IsSet
<1>4. CASE \E t \in Tasks : OneTask(t)
  <2>1. ppc = "tasks" /\ \/ ppc' = "tasks" /\ UNCHANGED <<status, failed>>
                         \/ ppc' = "dump" /\ status' # {}
    BY <1>4 DEF OneTask, StoreTask, SkipTask, TaskGone, TaskMalformed, ReadFails, To
  <2> QED
    BY <2>1 DEF BitsInv, RefusalReported
<1>5. CASE \E n \in Threads : MapPid(n)
  <2>1. UNCHANGED <<asked, conf, line, ppc, undone, failed>> /\ status \subseteq status' /\ ppc = "dump"
    BY <1>5 DEF MapPid, Log, mapVars
  <2> QED
    BY <2>1 DEF BitsInv, RefusalReported, IsSet
<1>6. CASE Earlier
  <2>2. CASE ProcIgnored
    <3>1. asked[Ignore] = <<1>> /\ ppc = "run" /\ ppc' = "dump" /\ UNCHANGED <<asked, failed>>
      BY <2>2 DEF ProcIgnored, To, SourceInv, Asking, procVars
    <3> QED
      BY <3>1 DEF BitsInv, RefusalReported
  <2>3. CASE NoProcPath \/ ProcNotOpened \/ ExeFails \/ MapsFail \/ MapsLineFails \/ TaskFails
    <3>1. ppc' = "dump" /\ status' # {}
      BY <2>3 DEF NoProcPath, ProcNotOpened, ExeFails, MapsFail, MapsLineFails, TaskFails, ReadFails, To, Log
    <3> QED
      BY <3>1 DEF BitsInv, RefusalReported
  <2>4. CASE ProcOpened \/ ReadExe \/ OpenMaps \/ ReadMapsLine \/ CloseMaps \/ OpenTask
    <3>1. ppc \in {"run", "exe", "maps", "lines", "task"} /\ ppc' \in {"exe", "maps", "lines", "task", "tasks"}
          /\ failed' = failed
      BY <2>4 DEF ProcOpened, ReadExe, OpenMaps, ReadMapsLine, CloseMaps, OpenTask, To, procVars
    <3> QED
      BY <3>1 DEF BitsInv, RefusalReported
  <2> QED
    BY <1>6, <2>2, <2>3, <2>4 DEF Earlier
<1>7. CASE Waiting
  <2>1. ppc = "run" /\ ppc' = "run" /\ failed' = failed
    BY <1>7, OnlyWaiting
  <2> QED
    BY <2>1 DEF BitsInv, RefusalReported
<1> QED
  BY <1>1, <1>2, <1>3, <1>4, <1>5, <1>6, <1>7, Steps

-----------------------------------------------------------------------------
(* The table.                                                                 *)

(* The namespace PIDs of two tasks differ, and none looks like memory that    *)
(* was never written.                                                         *)
LEMMA NsPids ==
  /\ \A t \in Tasks : NsPid[t] \in Nat \ {0} /\ NsPid[t] # Junk /\ t \in Nat \ {0}
  /\ \A t, u \in Tasks : NsPid[t] = NsPid[u] => t = u
BY ProcAssumption DEF ProcAssumption, Junk

(* The entry of a task that is stored, in the table after realloc.            *)
LEMMA EntryStored ==
  ASSUME Types, TableInv, ppc = "tasks", NEW e \in Entries, NEW new, new = [Grown EXCEPT ![c + 1] = e]
  PROVE  /\ Len(new) = Len(Grown) /\ c \in Nat /\ c + 1 \in 1..Len(Grown) /\ Len(Grown) \in Nat
         /\ new[c + 1] = e /\ \A i \in 1..c : new[i] = pidmap[i]
         /\ \A i \in (c + 2)..Len(Grown) : /\ i \in (c + 1)..count => new[i] = pidmap[i]
                                           /\ i \notin (c + 1)..count => new[i] = JunkEntry
<1>1. pidmap \in Tables /\ count = Len(pidmap) /\ c \in 0..count
  BY DEF Types, TableInv
<1>2. /\ Grown \in Tables /\ Len(Grown) >= count /\ Len(Grown) > c
      /\ \A i \in 1..count : Grown[i] = pidmap[i]
      /\ \A i \in (count + 1)..Len(Grown) : Grown[i] = JunkEntry
  BY <1>1, GrownHasRoom
<1>3. count \in Nat /\ c \in Nat /\ c <= count /\ Len(Grown) \in Nat /\ c + 1 \in 1..Len(Grown)
  BY <1>1, <1>2 DEF Tables
<1>4. Len(new) = Len(Grown) /\ new[c + 1] = e /\ \A i \in 1..Len(Grown) : i # c + 1 => new[i] = Grown[i]
  BY <1>2, <1>3 DEF Tables
<1>5. \A i \in 1..c : new[i] = pidmap[i]
  BY <1>2, <1>3, <1>4
<1>6. ASSUME NEW i \in (c + 2)..Len(Grown)
      PROVE /\ i \in (c + 1)..count => new[i] = pidmap[i]
            /\ i \notin (c + 1)..count => new[i] = JunkEntry
  <2>1. i \in 1..Len(Grown) /\ i # c + 1 /\ new[i] = Grown[i]
    BY <1>3, <1>4
  <2>2. i \in 1..count \/ i \in (count + 1)..Len(Grown)
    BY <1>3, <2>1
  <2> QED
    BY <1>2, <1>3, <2>1, <2>2
<1> QED
  BY <1>3, <1>4, <1>5, <1>6

(* Nothing but what was read is found, unless read_proc_info failed.          *)
LEMMA OnlyRead ==
  ASSUME Types, TableInv, ppc = "dump", ~failed, NEW n \in Threads, NEW p \in Found(n)
  PROVE  p \in Tasks /\ NsPid[p] = n
<1>1. count = c /\ c \in Nat
  BY DEF TableInv, Types, Tables
<1>2. \A i \in 1..c : pidmap[i].pid \in Tasks /\ pidmap[i].nspid = NsPid[pidmap[i].pid]
  BY DEF TableInv
<1>3. MayMatch(n) = {}
  BY <1>1, <1>2, NsPids DEF MayMatch
<1>4. Matches(n) \subseteq 1..c
  BY <1>1 DEF Matches
<1>5. Matches(n) # {} => FirstIn(Matches(n)) \in Matches(n)
  BY <1>1, <1>4, FirstIsOne
<1>6. PICK i \in Matches(n) : p = pidmap[i].pid
  BY <1>3, <1>5 DEF Found
<1> QED
  BY <1>1, <1>2, <1>6 DEF Matches

(* The table keeps what was read, in every step.                              *)
LEMMA TableStep ==
  ASSUME Types, TableInv, [ProcNext]_allVars PROVE TableInv'
<1>k. pidmap \in Tables /\ count \in 0..Len(pidmap) /\ c \in 0..count /\ ppc \in Labels /\ failed \in BOOLEAN
      /\ c \in Nat /\ count \in Nat /\ undone \subseteq Tasks
  BY DEF Types, Tables
<1> DEFINE Frame == UNCHANGED <<pidmap, count, c, answer>>
<1>s. ASSUME Frame, undone' = undone, ppc' = ppc, failed' = failed PROVE TableInv'
  BY <1>s DEF TableInv, NoStrangers
<1>1. CASE OptionsStep
  <2>1. ppc \notin {"tasks", "dump"} /\ ppc' \notin {"tasks", "dump"}
    BY <1>1, OptionsWhere
  <2>2. Frame /\ undone' = undone /\ failed' = failed
    BY <1>1, OptionsWhere
  <2> QED
    BY <2>1, <2>2 DEF TableInv, NoStrangers
<1>2. CASE UNCHANGED allVars
  BY <1>2, <1>s DEF allVars, optVars, procVars
<1>3. CASE Earlier
  <2>1. Frame /\ undone' = undone
    BY <1>3, TableKept
  <2>2. /\ failed' \in {failed, TRUE}
        /\ \/ ppc' = ppc
           \/ ppc \notin {"tasks", "dump"}
    BY <1>3 DEF Earlier, ProcIgnored, NoProcPath, ProcNotOpened, ProcOpened, ReadExe, ExeFails,
       OpenMaps, MapsFail, ReadMapsLine, MapsLineFails, CloseMaps, OpenTask, TaskFails, ReadFails, procVars
  <2>3. CASE ppc \notin {"tasks", "dump"}
    <3>1. c = 0 /\ count = 0 /\ pidmap = <<>> /\ undone = Tasks /\ (~failed => NoStrangers)
      BY <2>3 DEF TableInv
    <3>2. 1..c = {} /\ (c + 1)..count = {} /\ Len(pidmap) = 0
      BY <3>1
    <3>3. failed' \in BOOLEAN /\ (failed => failed')
      BY <2>2, <1>k
    <3> QED
      BY <2>1, <2>2, <2>3, <3>1, <3>2, <3>3 DEF TableInv, NoStrangers
  <2>4. CASE ppc' = ppc /\ ppc \in {"tasks", "dump"}
    <3>1. FALSE
      BY <1>3, <2>4 DEF Earlier, ProcIgnored, NoProcPath, ProcNotOpened, ProcOpened, ReadExe, ExeFails,
         OpenMaps, MapsFail, ReadMapsLine, MapsLineFails, CloseMaps, OpenTask, TaskFails
    <3> QED
      BY <3>1
  <2> QED
    BY <2>2, <2>3, <2>4
<1>4. CASE \E n \in Threads : MapPid(n)
  <2>1. PICK n \in Threads : MapPid(n)
    BY <1>4
  <2>2. UNCHANGED <<pidmap, count, c, undone, ppc, failed>> /\ ppc = "dump"
    BY <2>1 DEF MapPid, mapVars
  <2>3. ~failed => NoStrangers'
    <3>1. CASE \E p \in Found(n) : answer' = [asked |-> n, pid |-> p]
      BY <3>1, <2>2, OnlyRead DEF NoStrangers
    <3>2. CASE answer' = [asked |-> n, pid |-> n]
      BY <3>2 DEF NoStrangers
    <3> QED
      BY <2>1, <3>1, <3>2 DEF MapPid
  <2> QED
    BY <2>2, <2>3 DEF TableInv
<1>5. CASE LastTask
  <2>1. count' = c /\ ppc' = "dump" /\ UNCHANGED <<pidmap, c, undone, failed, answer>>
    BY <1>5 DEF LastTask, To
  <2>2. \A i \in (c + 1)..c : FALSE
    BY <1>k
  <2> QED
    BY <2>1, <2>2 DEF TableInv, NoStrangers
<1>6. ASSUME NEW t \in Tasks, OneTask(t) PROVE TableInv'
  <2>0. ppc = "tasks" /\ t \in undone /\ answer' = answer
        /\ count = Len(pidmap) /\ (~failed => NoStrangers)
    <3>1. ppc = "tasks" /\ t \in undone
      BY <1>6 DEF OneTask, StoreTask, SkipTask, TaskGone, TaskMalformed
    <3> QED
      BY <3>1, <1>6, SettingsKept DEF TableInv
  <2>d. /\ \A i \in 1..c : pidmap[i].pid \in Tasks \ undone /\ pidmap[i].nspid = NsPid[pidmap[i].pid]
        /\ \A i, j \in 1..c : pidmap[i].pid = pidmap[j].pid => i = j
        /\ \A i \in (c + 1)..count : pidmap[i].nspid = Junk
    BY <2>0 DEF TableInv
  <2>j. JunkEntry.nspid = Junk
    BY DEF JunkEntry
  <2>1. CASE SkipTask(t)
    BY <2>1, <2>0, <2>d DEF SkipTask, TableInv, NoStrangers
  <2>2. CASE TaskGone(t)
    BY <2>2, <2>0, <2>d DEF TaskGone, ReadFails, To, mapVars, TableInv
  <2>3. CASE StoreTask(t)
    <3> DEFINE e == [pid |-> t, nspid |-> NsPid[t]]
    <3>1. e \in Entries /\ e.pid = t /\ e.nspid = NsPid[t]
      BY NsPids DEF Entries
    <3>2. pidmap' = [Grown EXCEPT ![c + 1] = e] /\ count' = Len(Grown) /\ c' = c + 1
          /\ undone' = undone \ {t} /\ ppc' = ppc /\ failed' = failed
      BY <2>3 DEF StoreTask
    <3> HIDE DEF e
    <3>3. /\ Len(pidmap') = Len(Grown) /\ c + 1 \in 1..Len(Grown) /\ Len(Grown) \in Nat
          /\ pidmap'[c + 1] = e /\ \A i \in 1..c : pidmap'[i] = pidmap[i]
          /\ \A i \in (c + 2)..Len(Grown) : /\ i \in (c + 1)..count => pidmap'[i] = pidmap[i]
                                            /\ i \notin (c + 1)..count => pidmap'[i] = JunkEntry
      <4>1. pidmap' = [Grown EXCEPT ![c + 1] = e]
        BY <3>2
      <4> QED
        BY <2>0, <3>1, <4>1, EntryStored
    <3>i. \A i \in 1..(c + 1) : i = c + 1 \/ i \in 1..c
      BY <1>k
    <3>4. \A i \in 1..(c + 1) : pidmap'[i].pid \in Tasks \ (undone \ {t})
                                /\ pidmap'[i].nspid = NsPid[pidmap'[i].pid]
      BY <3>i, <3>1, <3>3, <2>d, <2>0, <1>k
    <3>5. \A i, j \in 1..(c + 1) : pidmap'[i].pid = pidmap'[j].pid => i = j
      BY <3>i, <3>1, <3>3, <2>d, <2>0, <1>k
    <3>6. \A i \in (c + 2)..Len(Grown) : pidmap'[i].nspid = Junk
      BY <3>3, <2>d, <2>j
    <3>7. c + 1 + 1 = c + 2
      BY <1>k
    <3> QED
      BY <3>2, <3>3, <3>4, <3>5, <3>6, <3>7, <2>0 DEF TableInv, NoStrangers
  <2>4. CASE TaskMalformed(t)
    <3>0. c' = c /\ undone' = undone /\ failed' = TRUE /\ ppc' = "dump"
      BY <2>4 DEF TaskMalformed, ReadFails, To
    <3>1. CASE UNCHANGED <<pidmap, count>>
      BY <3>0, <3>1, <2>0, <2>d DEF TableInv
    <3>2. CASE pidmap' = [Grown EXCEPT ![c + 1].nspid = NsPid[t]] /\ count' = Len(Grown)
      <4> DEFINE e == [Grown[c + 1] EXCEPT !.nspid = NsPid[t]]
      <4>g. Grown \in Tables /\ c + 1 \in 1..Len(Grown)
        <5>1. Grown \in Tables /\ Len(Grown) > c /\ Len(Grown) \in Nat
          BY <1>k, <2>0, GrownHasRoom DEF Tables
        <5> QED
          BY <5>1, <1>k
      <4>1. e \in Entries /\ e.nspid = NsPid[t]
        <5>1. Grown[c + 1] \in Entries
          BY ONLY <4>g DEF Tables
        <5> QED
          BY <5>1, NsPids DEF Entries
      <4>2. pidmap' = [Grown EXCEPT ![c + 1] = e]
        BY <3>2, <4>g
      <4> HIDE DEF e
      <4>3. /\ Len(pidmap') = Len(Grown) /\ c + 1 \in 1..Len(Grown) /\ Len(Grown) \in Nat
            /\ pidmap'[c + 1] = e /\ \A i \in 1..c : pidmap'[i] = pidmap[i]
            /\ \A i \in (c + 2)..Len(Grown) : /\ i \in (c + 1)..count => pidmap'[i] = pidmap[i]
                                              /\ i \notin (c + 1)..count => pidmap'[i] = JunkEntry
        BY <2>0, <4>1, <4>2, EntryStored
      <4>i. \A i \in (c + 1)..Len(Grown) : i = c + 1 \/ i \in (c + 2)..Len(Grown)
        BY <1>k, <4>3
      <4>4. \A i \in (c + 1)..Len(Grown) : pidmap'[i].nspid = Junk \/ pidmap'[i].nspid = NsPid[t]
        BY <4>i, <4>1, <4>3, <2>d, <2>j
      <4>5. \A i \in (c + 1)..Len(Grown) : pidmap'[i].nspid = Junk
                                           \/ \E u \in undone : pidmap'[i].nspid = NsPid[u]
        BY <4>4, <2>0
      <4>6. /\ \A i \in 1..c : pidmap'[i].pid \in Tasks \ undone /\ pidmap'[i].nspid = NsPid[pidmap'[i].pid]
            /\ \A i, j \in 1..c : pidmap'[i].pid = pidmap'[j].pid => i = j
        BY <4>3, <2>d
      <4> QED
        BY <3>0, <3>2, <4>5, <4>6 DEF TableInv
    <3> QED
      BY <2>4, <3>1, <3>2 DEF TaskMalformed
  <2> QED
    BY <1>6, <2>1, <2>2, <2>3, <2>4 DEF OneTask
<1>7. CASE Waiting
  <2>1. Frame /\ undone' = undone /\ ppc' = ppc /\ failed' = failed
    BY <1>7, OnlyWaiting
  <2> QED
    BY <1>s, <2>1
<1> QED
  BY <1>1, <1>2, <1>3, <1>4, <1>5, <1>6, <1>7, Steps

-----------------------------------------------------------------------------
(* What the lines mean.                                                       *)

(* Division by a positive number.                                             *)
LEMMA DivMod == \A a \in Int, b \in Nat \ {0} :
                  a \div b \in Int /\ a % b \in 0..(b - 1) /\ a = b * (a \div b) + (a % b)
BY SMTT(30)

(* A multiple that is less than the number is zero.                           *)
LEMMA Small == ASSUME NEW d \in Int, NEW b \in Nat \ {0}, b * d < b, -b < b * d PROVE d = 0
<1>1. ASSUME d >= 1 PROVE FALSE
  <2>1. b * d >= b
    BY <1>1
  <2> QED BY <2>1
<1>2. ASSUME d <= -1 PROVE FALSE
  <2>1. b * d <= -b
    BY <1>2
  <2> QED BY <2>1
<1> QED BY <1>1, <1>2

(* A multiple leaves no remainder.                                            *)
LEMMA Multiple == ASSUME NEW q \in Int, NEW b \in Nat \ {0} PROVE (b * q) % b = 0
<1> DEFINE e == (b * q) \div b
           r == (b * q) % b
<1>1. e \in Int /\ r \in 0..(b - 1) /\ b * q = b * e + r
  <2>1. b * q \in Int
    OBVIOUS
  <2> QED BY <2>1, DivMod
<1> HIDE DEF e, r
<1>2. b * (q - e) = r /\ q - e \in Int
  BY <1>1
<1>3. b * (q - e) < b /\ -b < b * (q - e)
  BY <1>1, <1>2
<1>4. q - e = 0
  BY <1>2, <1>3, Small
<1>5. r = 0
  BY <1>1, <1>4
<1> QED BY <1>5 DEF r

(* Exactly one number in the range of an int differs from v by a multiple of  *)
(* its size.                                                                  *)
LEMMA CutsOnce ==
  ASSUME NEW v \in Int, NEW H \in Nat \ {0}
  PROVE  /\ ((((v + H) % (2 * H)) - H) - v) % (2 * H) = 0
         /\ \A n \in (-H)..(H - 1) : (n - v) % (2 * H) = 0 => n = ((v + H) % (2 * H)) - H
<1> DEFINE M == 2 * H
           a == v + H
           q == a \div M
           r == a % M
           w == r - H
<1>0. M \in Nat \ {0} /\ M = 2 * H
  OBVIOUS
<1>1. q \in Int /\ w + H \in 0..(M - 1) /\ v + H = M * q + (w + H) /\ w \in Int
  <2>1. a \in Int
    OBVIOUS
  <2> HIDE DEF M, a
  <2>2. q \in Int /\ r \in 0..(M - 1) /\ a = M * q + r
    BY <1>0, <2>1, DivMod, Zenon
  <2> HIDE DEF q, r
  <2>3. w + H = r /\ w \in Int
    BY <1>0, <2>2
  <2> QED BY <2>2, <2>3 DEF a
<1> HIDE DEF w, r, q, a, M
<1>2. (w - v) % M = 0
  <2>1. \A b \in Int : b * (-q) = -(b * q) /\ -q \in Int
    BY <1>1
  <2>2. w - v = M * (-q) /\ -q \in Int
    <3> DEFINE y == M * q
    <3>1. v + H = y + (w + H) /\ y \in Int /\ M * (-q) = -y /\ -q \in Int
      BY <1>0, <1>1, <2>1
    <3> HIDE DEF y
    <3> QED BY <1>1, <3>1
  <2> QED BY <2>2, <1>0, Multiple
<1>3. ASSUME NEW n \in (-H)..(H - 1), (n - v) % M = 0 PROVE n = w
  <2> DEFINE h == (n - v) \div M
  <2>1. h \in Int /\ n - v = M * h
    <3>1. n - v \in Int
      OBVIOUS
    <3>2. /\ (n - v) \div M \in Int 
          /\ n - v = M * ((n - v) \div M) + ((n - v) % M)
      BY <3>1, <1>0, DivMod
    <3> DEFINE x == n - v
    <3>3. M * h \in Int /\ x \in Int /\ x = M * h + 0 /\ h \in Int
      BY <1>0, <1>3, <3>1, <3>2
    <3> HIDE DEF h, x
    <3>4. x = M * h
      BY <3>3
    <3> QED BY <3>3, <3>4 DEF x
  <2> HIDE DEF h
  <2>2. M * (h + q) = n - w /\ h + q \in Int
    <3>1. \A b \in Int : b * (h + q) = b * h + b * q
      BY <1>1, <2>1
    <3> DEFINE y == M * q
               x == M * h
    <3>2. v + H = y + (w + H) /\ n - v = x /\ M * (h + q) = x + y
      BY <1>0, <1>1, <2>1, <3>1
    <3>3. x \in Int /\ y \in Int
      BY <1>0, <1>1, <2>1
    <3> HIDE DEF x, y
    <3> QED BY <1>1, <2>1, <3>2, <3>3
  <2>3. M * (h + q) < M /\ -M < M * (h + q)
    BY <1>0, <1>1, <2>2
  <2>4. h + q = 0
    BY <1>0, <2>2, <2>3, Small
  <2>5. M * (h + q) = 0
    BY <1>0, <2>4
  <2> QED BY <1>1, <2>2, <2>5
<1> QED BY <1>2, <1>3, Zenon DEF w, r, a, M

(* The meaning of a number is what the conversion makes of it.                *)
LEMMA IntIsCut == ASSUME NEW v \in Int PROVE IntOf(v) = Cut(v)
<1>1. IntHalf \in Nat \ {0}
  BY OptionsAssumption DEF OptionsAssumption
<1>2. /\ (Cut(v) - v) % (2 * IntHalf) = 0
      /\ \A n \in (-IntHalf)..(IntHalf - 1) : (n - v) % (2 * IntHalf) = 0 => n = Cut(v)
  BY <1>1, CutsOnce, Zenon DEF Cut
<1>3. Cut(v) \in (-IntHalf)..(IntHalf - 1)
  BY CutInRange
<1> QED BY <1>2, <1>3, Zenon DEF IntOf

(* One line more: the lines of an option, and those that count.               *)
LEMMA LinesMore ==
  ASSUME NEW s \in Seq(Lines), NEW l \in Lines, NEW k
  PROVE  /\ Append(s, l)[Len(s) + 1] = l /\ Len(s) + 1 \notin 1..Len(s)
         /\ \A n \in 1..Len(s) : Append(s, l)[n] = s[n] /\ n <= Len(s) + 1
         /\ l.key # k => /\ LinesOf(Append(s, l), k) = LinesOf(s, k)
                        /\ Counting(Append(s, l), k) = Counting(s, k)
         /\ l.key = k => LinesOf(Append(s, l), k) = LinesOf(s, k) \union {Len(s) + 1}
         /\ l.key = k /\ l.kind = "clear" => Counting(Append(s, l), k) = {}
         /\ l.key = k /\ l.kind # "clear" =>
              Counting(Append(s, l), k) = Counting(s, k) \union {Len(s) + 1}
<1> DEFINE t == Append(s, l)
           N == Len(s) + 1
<1>1. Len(s) \in Nat /\ Len(t) = N /\ t[N] = l /\ \A n \in 1..Len(s) : t[n] = s[n]
  BY AppendProperties
<1>2. /\ N \notin 1..Len(s) /\ 1..N = 1..Len(s) \union {N}
      /\ \A n \in 1..Len(s) : n <= N /\ n < N /\ ~(N < n)
      /\ ~(N < N)
  BY <1>1
<1> HIDE DEF t, N
<1>3. LinesOf(s, k) \subseteq 1..Len(s)
  BY DEF LinesOf
<1>4. l.key # k => LinesOf(t, k) = LinesOf(s, k)
  BY <1>1, <1>2 DEF LinesOf
<1>5. l.key # k => Counting(t, k) = Counting(s, k)
  BY <1>1, <1>3, <1>4 DEF Counting
<1>6. l.key = k => LinesOf(t, k) = LinesOf(s, k) \union {N}
  BY <1>1, <1>2 DEF LinesOf
<1>7. l.key = k /\ l.kind = "clear" => Counting(t, k) = {}
  BY <1>1, <1>2, <1>3, <1>6 DEF Counting
<1>8. l.key = k /\ l.kind # "clear" => Counting(t, k) = Counting(s, k) \union {N}
  BY <1>1, <1>2, <1>3, <1>6 DEF Counting
<1> QED BY <1>1, <1>2, <1>4, <1>5, <1>6, <1>7, <1>8, Zenon DEF t, N

(* v holds the values of the lines of s in A, in their order.                 *)
InOrderOf(s, A, v) ==
  \E at \in [1..Len(v) -> A] :
    /\ \A i, j \in 1..Len(v) : i < j => at[i] < at[j]
    /\ {at[i] : i \in 1..Len(v)} = A
    /\ \A i \in 1..Len(v) : v[i] = s[at[i]].val

(* None of the lines, and one line more.                                      *)
LEMMA InOrderNone == ASSUME NEW s PROVE InOrderOf(s, {}, <<>>)
<1> DEFINE at == [i \in 1..Len(<<>>) |-> i]
<1>1. Len(<<>>) = 0 /\ 1..0 = {}
  OBVIOUS
<1>2. at \in [1..Len(<<>>) -> {}] /\ {at[i] : i \in 1..Len(<<>>)} = {}
  BY <1>1
<1>3. \A i \in 1..Len(<<>>) : FALSE
  BY <1>1
<1> HIDE DEF at
<1> QED BY <1>2, <1>3, Zenon DEF InOrderOf

(* One line more in the order.                                                *)
LEMMA InOrderMore ==
  ASSUME NEW s, NEW t, NEW N \in Nat, NEW A \in SUBSET (1..(N - 1)), NEW v \in Values,
         \A n \in 1..(N - 1) : t[n] = s[n], InOrderOf(s, A, v), t[N].val \in Int
  PROVE  InOrderOf(t, A, v) /\ InOrderOf(t, A \union {N}, Append(v, t[N].val))
<1>1. PICK at \in [1..Len(v) -> A] :
        /\ \A i, j \in 1..Len(v) : i < j => at[i] < at[j]
        /\ {at[i] : i \in 1..Len(v)} = A
        /\ \A i \in 1..Len(v) : v[i] = s[at[i]].val
  BY Zenon DEF InOrderOf
<1>n. Len(v) \in Nat
  BY DEF Values
<1>2. \A i \in 1..Len(v) : at[i] \in 1..(N - 1) /\ v[i] = t[at[i]].val
  BY <1>1
<1>3. InOrderOf(t, A, v)
  BY <1>1, <1>2, Zenon DEF InOrderOf
<1> DEFINE m  == Len(v) + 1
           bt == [i \in 1..m |-> IF i = m THEN N ELSE at[i]]
           w  == Append(v, t[N].val)
<1>4. Len(w) = m /\ w[m] = t[N].val /\ \A i \in 1..Len(v) : w[i] = v[i]
  BY AppendProperties DEF Values
<1>m. m \in Nat /\ 1..m = 1..Len(v) \union {m} /\ m \notin 1..Len(v)
      /\ \A i \in 1..Len(v) : ~(m < i)
  BY <1>n
<1>b. bt[m] = N /\ \A i \in 1..Len(v) : bt[i] = at[i]
  BY <1>m
<1> HIDE DEF m, w
<1>5. bt \in [1..m -> A \union {N}]
  BY <1>m, <1>1
<1> HIDE DEF bt
<1>6. ASSUME NEW i \in 1..m, NEW j \in 1..m, i < j PROVE bt[i] < bt[j]
  <2>1. i \in 1..Len(v)
    BY <1>6, <1>n DEF m
  <2>2. CASE j = m
    BY <2>1, <2>2, <1>2, <1>b
  <2>3. CASE j \in 1..Len(v)
    BY <2>1, <2>3, <1>6, <1>b, <1>1
  <2> QED BY <2>2, <2>3, <1>m
<1>7. {bt[i] : i \in 1..m} = A \union {N}
  BY <1>m, <1>b, <1>1
<1>8. \A i \in 1..m : w[i] = t[bt[i]].val
  BY <1>2, <1>4, <1>m, <1>b
<1>9. InOrderOf(t, A \union {N}, w)
  BY <1>4, <1>5, <1>6, <1>7, <1>8, Zenon DEF InOrderOf
<1> QED BY <1>3, <1>9 DEF w

(* Means, by the kind of the option.                                          *)
LEMMA MeansCases ==
  ASSUME NEW s, NEW k, NEW v
  PROVE  /\ Parser[k] \in Multi => (Means(s, k, v) <=> InOrderOf(s, Counting(s, k), v))
         /\ Parser[k] \notin Multi =>
              (Means(s, k, v) <=>
                 IF LinesOf(s, k) = {} THEN v = Default[k]
                 ELSE IF Counting(s, k) = {} THEN v = <<>>
                 ELSE \E n \in Counting(s, k) :
                        (\A m \in Counting(s, k) : m <= n) /\ v = ValueOf(k, s[n]))
BY Zenon DEF Means, InOrderOf

(* A line of another option changes nothing.                                  *)
LEMMA OtherLine ==
  ASSUME NEW s \in Seq(Lines), NEW l \in Lines, NEW k \in Options, l.key # k,
         NEW v \in Values, Means(s, k, v)
  PROVE  Means(Append(s, l), k, v)
<1> DEFINE t == Append(s, l)
           N == Len(s) + 1
<1>1. /\ \A n \in 1..Len(s) : t[n] = s[n]
      /\ t[N] = l /\ LinesOf(t, k) = LinesOf(s, k) /\ Counting(t, k) = Counting(s, k)
  <2>1. /\ \A n \in 1..Len(s) : Append(s, l)[n] = s[n] /\ n <= Len(s) + 1
        /\ Append(s, l)[Len(s) + 1] = l
        /\ LinesOf(Append(s, l), k) = LinesOf(s, k) /\ Counting(Append(s, l), k) = Counting(s, k)
    <3> HIDE DEF t, N
    <3> QED BY LinesMore
  <2> QED BY <2>1, Zenon
<1>d. N = Len(s) + 1
  OBVIOUS
<1> HIDE DEF t, N
<1>2. Counting(s, k) \subseteq 1..Len(s) /\ Len(s) \in Nat
  BY DEF Counting, LinesOf
<1>3. l.val \in Int
  BY LineFields
<1>4. N \in Nat /\ 1..(N - 1) = 1..Len(s)
  BY <1>d, <1>2
<1>5. CASE Parser[k] \in Multi
  <2>1. InOrderOf(s, Counting(s, k), v)
    BY <1>5, MeansCases
  <2>2. InOrderOf(t, Counting(s, k), v)
    BY <1>1, <1>2, <1>3, <1>4, <2>1, InOrderMore
  <2>3. Means(t, k, v)
    BY <1>1, <1>5, <2>2, MeansCases
  <2> QED BY <2>3 DEF t
<1>6. CASE Parser[k] \notin Multi
  <2>1. \A n \in Counting(s, k) : t[n] = s[n]
    BY <1>1, <1>2
  <2>2. Means(t, k, v)
    BY <1>1, <1>6, <2>1, MeansCases
  <2> QED BY <2>2 DEF t
<1> QED BY <1>5, <1>6

(* The line of an option leaves what the lines with it mean.                  *)
LEMMA OwnLine ==
  ASSUME NEW s \in Seq(Lines), NEW l \in Lines, NEW f, Held(f), l.key \in Options, Accepted(l),
         Means(s, l.key, f[l.key])
  PROVE  Means(Append(s, l), l.key, ParseLine(f, l)[l.key])
<1> DEFINE t == Append(s, l)
           N == Len(s) + 1
           k == l.key
           v == ParseLine(f, l)[k]
<1>1. /\ t[N] = l /\ N \notin 1..Len(s) /\ \A n \in 1..Len(s) : t[n] = s[n] /\ n <= N
      /\ LinesOf(t, k) = LinesOf(s, k) \union {N}
      /\ l.kind = "clear" => Counting(t, k) = {}
      /\ l.kind # "clear" => Counting(t, k) = Counting(s, k) \union {N}
  <2>1. ASSUME NEW o, l.key = o
        PROVE  /\ Append(s, l)[Len(s) + 1] = l /\ Len(s) + 1 \notin 1..Len(s)
               /\ \A n \in 1..Len(s) : Append(s, l)[n] = s[n] /\ n <= Len(s) + 1
               /\ LinesOf(Append(s, l), o) = LinesOf(s, o) \union {Len(s) + 1}
               /\ l.kind = "clear" => Counting(Append(s, l), o) = {}
               /\ l.kind # "clear" =>
                    Counting(Append(s, l), o) = Counting(s, o) \union {Len(s) + 1}
    <3> HIDE DEF t, N, k, v
    <3>1. LinesOf(Append(s, l), o) = LinesOf(s, o) \union {Len(s) + 1}
      BY <2>1, LinesMore
    <3>2. l.kind = "clear" => Counting(Append(s, l), o) = {}
      BY <2>1, LinesMore
    <3>3. l.kind # "clear" => Counting(Append(s, l), o) = Counting(s, o) \union {Len(s) + 1}
      BY <2>1, LinesMore
    <3>4. Append(s, l)[Len(s) + 1] = l /\ Len(s) + 1 \notin 1..Len(s)
      BY LinesMore
    <3>5. \A n \in 1..Len(s) : Append(s, l)[n] = s[n] /\ n <= Len(s) + 1
      BY LinesMore
    <3> QED BY <3>1, <3>2, <3>3, <3>4, <3>5
  <2> QED BY <2>1, Zenon
<1>d. N = Len(s) + 1 /\ l.key = k
  OBVIOUS
<1> HIDE DEF t, N, k
<1>2. Counting(s, k) \subseteq 1..Len(s) /\ Len(s) \in Nat
  BY DEF Counting, LinesOf
<1>3. l.val \in Int
  BY LineFields
<1>4. N \in Nat /\ 1..(N - 1) = 1..Len(s) /\ N <= N
  BY <1>d, <1>2
<1>5. Reaches(l) /\ l.kind \in GoodKinds(Parser[k])
  BY <1>d, OptionsAssumption DEF Accepted, Ignored, OptionsAssumption
<1>6. f[k] \in Values /\ Parser[k] \in Parsers /\ k \in DOMAIN f
  BY <1>d, OptionsAssumption DEF Held, OptionsAssumption
<1>7. v = CASE Parser[k] = "string"        -> ParseString(f[k], l)
            [] Parser[k] = "string_multi"  -> ParseStringMulti(f[k], l)
            [] Parser[k] = "mapping_multi" -> ParseMappingMulti(f[k], l)
            [] Parser[k] = "int"           -> ParseInt(f[k], l)
            [] OTHER                       -> ParseEnum(f[k], l)
  BY <1>5, <1>6, Zenon DEF ParseLine, k
<1>m. Means(s, k, f[k])
  BY <1>d
<1> HIDE DEF v
<1>8. CASE Parser[k] \in Multi
  <2>1. InOrderOf(s, Counting(s, k), f[k])
    BY <1>8, <1>m, MeansCases
  <2>2. CASE l.kind = "clear"
    <3>1. v = <<>>
      BY <1>5, <1>7, <1>8, <2>2 DEF GoodKinds, Multi, ParseStringMulti
    <3>2. Means(t, k, v)
      BY <1>1, <1>8, <2>2, <3>1, InOrderNone, MeansCases
    <3> QED BY <3>2 DEF t, k, v
  <2>3. CASE l.kind # "clear"
    <3>1. l.kind = "good"
      BY <1>5, <2>3 DEF GoodKinds
    <3>2. v = Append(f[k], l.val)
      BY <1>7, <1>8, <3>1 DEF Multi, ParseStringMulti, ParseMappingMulti
    <3>3. InOrderOf(t, Counting(s, k) \union {N}, Append(f[k], t[N].val))
      BY <1>1, <1>2, <1>3, <1>4, <1>6, <2>1, InOrderMore
    <3>4. Means(t, k, v)
      BY <1>1, <1>8, <2>3, <3>2, <3>3, MeansCases
    <3> QED BY <3>4 DEF t, k, v
  <2> QED BY <2>2, <2>3
<1>9. CASE Parser[k] \notin Multi
  <2>1. Parser[k] \in {"string", "int", "enum"}
    BY <1>6, <1>9 DEF Parsers, Multi
  <2>2. CASE l.kind = "clear"
    <3>1. v = <<>>
      BY <1>5, <1>7, <2>1, <2>2 DEF GoodKinds, ParseString
    <3>2. Means(t, k, v)
      BY <1>1, <1>9, <2>2, <3>1, MeansCases
    <3> QED BY <3>2 DEF t, k, v
  <2>3. CASE l.kind # "clear"
    <3>1. l.kind = "good"
      BY <1>5, <2>3 DEF GoodKinds
    <3>2. v = ValueOf(k, l)
      <4>1. IntOf(l.val) = Cut(l.val)
        BY <1>3, IntIsCut
      <4> QED BY <1>7, <2>1, <3>1, <4>1 DEF ValueOf, ParseString, ParseInt, ParseEnum
    <3>3. \A m \in Counting(t, k) : m <= N
      BY <1>1, <1>2, <1>4, <2>3
    <3>4. N \in Counting(t, k) /\ N \in LinesOf(t, k) /\ v = ValueOf(k, t[N])
      BY <1>1, <2>3, <3>2
    <3>5. Means(t, k, v)
      BY <1>9, <3>3, <3>4, MeansCases
    <3> QED BY <3>5 DEF t, k, v
  <2> QED BY <2>2, <2>3
<1> QED BY <1>8, <1>9

(* One accepted line more, for every option.                                  *)
LEMMA MeansMore ==
  ASSUME NEW s \in Seq(Lines), NEW l \in Lines, NEW f, Held(f), Accepted(l),
         \A k \in Options : Means(s, k, f[k])
  PROVE  \A k \in Options : Means(Append(s, l), k, ParseLine(f, l)[k])
<1> SUFFICES ASSUME NEW k \in Options PROVE Means(Append(s, l), k, ParseLine(f, l)[k])
  OBVIOUS
<1>1. f[k] \in Values
  BY DEF Held
<1>2. CASE l.key # k
  <2>1. ParseLine(f, l)[k] = f[k]
    BY <1>2 DEF ParseLine, Held
  <2> QED BY <1>1, <1>2, <2>1, OtherLine
<1>3. CASE l.key = k
  BY <1>3, OwnLine
<1> QED BY <1>2, <1>3

(* Without a line every option has its default.                               *)
LEMMA MeansDefault == \A k \in Options : Means(<<>>, k, Default[k])
<1> SUFFICES ASSUME NEW k \in Options PROVE Means(<<>>, k, Default[k])
  OBVIOUS
<1>1. LinesOf(<<>>, k) = {} /\ Counting(<<>>, k) = {}
  BY DEF LinesOf, Counting
<1>2. Default[k] = IF Parser[k] \in {"int", "enum"} THEN <<0>> ELSE <<>>
  BY DEF Default
<1>3. CASE Parser[k] \in Multi
  <2>1. Default[k] = <<>>
    BY <1>2, <1>3 DEF Multi
  <2> QED BY <1>1, <1>3, <2>1, InOrderNone, MeansCases
<1>4. CASE Parser[k] \notin Multi
  BY <1>1, <1>4, MeansCases
<1> QED BY <1>3, <1>4

(* Every step of the options, and of what follows them.                       *)
LEMMA MeansStep ==
  ASSUME Types, MeansInv, [ProcNext]_allVars PROVE MeansInv'
<1>0. /\ taken \in Seq(Lines) /\ Held(conf)
      /\ ppc \in {"args", "file", "run"} => \A k \in Options : Means(taken, k, conf[k])
  BY DEF Types, MeansInv, ConfMeansLines
<1>1. ASSUME UNCHANGED <<taken, conf>>, ppc \in {"args", "file", "run"} \/ ppc' \notin {"args", "file", "run"}
      PROVE  MeansInv'
  BY <1>0, <1>1, Zenon DEF MeansInv, ConfMeansLines
<1>2. ASSUME taken' = taken, ppc' \notin {"args", "file", "run"} PROVE MeansInv'
  BY <1>0, <1>2, Zenon DEF MeansInv, ConfMeansLines
<1>3. CASE OptionsStep
  <2>1. Next /\ ppc \in {"args", "file"}
    BY <1>3, OptionsWhere DEF OptionsStep
  <2>2. ASSUME NEW l \in Lines, DirectLine(l) \/ FileLine(l) PROVE MeansInv'
    <3>1. CASE Takes(l)
      <4>1. Accepted(l) /\ conf' = ParseLine(conf, l) /\ taken' = Append(taken, l)
        BY <3>1 DEF Takes
      <4>2. \A k \in Options : Means(taken', k, conf'[k])
        <5>1. \A k \in Options : Means(taken, k, conf[k])
          BY <1>0, <2>1
        <5>2. \A k \in Options : Means(Append(taken, l), k, ParseLine(conf, l)[k])
          BY <1>0, <4>1, <5>1, MeansMore, Zenon
        <5> QED BY <4>1, <5>2, Zenon
      <4>3. taken' \in Seq(Lines)
        BY <1>0, <4>1, AppendProperties, Zenon
      <4> QED BY <4>2, <4>3, Zenon DEF MeansInv, ConfMeansLines
    <3>2. CASE Refuses(l, {}) \/ Refuses(l, {"crit"})
      BY <1>2, <3>2 DEF Refuses, Exits
    <3> QED BY <2>2, <3>1, <3>2 DEF DirectLine, FileLine
  <2>3. CASE OpenFile \/ FileUnreadable \/ LineTooLong \/ FileEnd \/ PidGiven \/ PidInvalid
             \/ UnknownOption \/ Usage \/ EndOfOptions
    BY <1>1, <2>1, <2>3 DEF OpenFile, FileUnreadable, LineTooLong, FileEnd, PidGiven, PidInvalid,
         UnknownOption, Usage, EndOfOptions, Exits
  <2> QED BY <2>1, <2>2, <2>3 DEF Next
<1>4. CASE UNCHANGED allVars
  <2>1. UNCHANGED <<taken, conf, ppc>>
    BY <1>4 DEF allVars, optVars
  <2> QED BY <1>0, <2>1, Zenon DEF MeansInv, ConfMeansLines
<1>5. CASE Earlier
  <2>1. taken' = taken
    BY <1>5, TableKept
  <2>2. ppc' \notin {"args", "file", "run"}
    BY <1>5 DEF Earlier, ProcIgnored, NoProcPath, ProcNotOpened, ProcOpened, ReadExe, ExeFails,
         OpenMaps, MapsFail, ReadMapsLine, MapsLineFails, CloseMaps, OpenTask, TaskFails, ReadFails, To
  <2> QED BY <1>2, <2>1, <2>2
<1>6. CASE LastTask \/ \E u \in Tasks : OneTask(u)
  <2>1. taken' = taken
    BY <1>6, SettingsKept
  <2>2. ppc' \in {"tasks", "dump"}
    BY <1>6 DEF OneTask, LastTask, StoreTask, SkipTask, TaskGone, TaskMalformed, ReadFails, To
  <2> QED BY <1>2, <2>1, <2>2
<1>7. CASE \E n \in Threads : MapPid(n)
  <2>1. taken' = taken /\ ppc' = "dump"
    BY <1>7 DEF MapPid
  <2> QED BY <1>2, <2>1
<1>8. CASE Waiting
  <2>1. UNCHANGED <<taken, conf>> /\ ppc = "run"
    BY <1>8, OnlyWaiting
  <2> QED BY <1>1, <2>1
<1> QED BY <1>3, <1>4, <1>5, <1>6, <1>7, <1>8, Steps

-----------------------------------------------------------------------------
(* At the start nothing has been given or read.                               *)
LEMMA Begins == ProcInit => IndInv
<1> SUFFICES ASSUME ProcInit PROVE IndInv
  OBVIOUS
<1>i. conf = Default /\ asked = Default /\ pid = NoPid /\ ppc = "args" /\ status \in {{}, {Early}} /\ line = 0
      /\ undone = Tasks /\ pidmap = <<>> /\ count = 0 /\ c = 0 /\ failed = FALSE /\ answer = NoAnswer
  BY DEF ProcInit, Init
<1>n. Len(ProcLines) \in Nat /\ Len(<<>>) = 0 /\ 1..0 = {} /\ (0 + 1)..0 = {}
  BY LinesOfMaps
<1>h. Held(Default)
  <2>1. 0 \in (-IntHalf)..(IntHalf - 1)
    BY OptionsAssumption DEF OptionsAssumption
  <2>2. \A k \in Options : Default[k] = IF Parser[k] \in {"int", "enum"} THEN <<0>> ELSE <<>>
    BY DEF Default
  <2>3. Default \in [Options -> Values]
    BY Lists DEF Default
  <2>4. \A k \in Options : Default[k] = <<>> \/ Default[k] = <<0>>
    BY <2>2
  <2>5. \A k \in Options : Parser[k] = "int" => Default[k] = <<0>>
    BY <2>2
  <2>6. \A s : s = <<0>> => Len(s) = 1 /\ s[1] = 0
    BY Lists
  <2>7. \A s : s = <<>> => Len(s) = 0
    BY Lists
  <2>8. ASSUME NEW k \in Options
        PROVE  Len(Default[k]) <= 1 /\ (Parser[k] = "int" => Len(Default[k]) = 1 /\ Default[k][1] = 0)
    <3>1. CASE Default[k] = <<0>>
      <4>1. Len(Default[k]) = 1 /\ Default[k][1] = 0
        BY <3>1, <2>6, Zenon
      <4> QED
        BY ONLY <4>1
    <3>2. CASE Default[k] = <<>> /\ Parser[k] # "int"
      <4>1. Len(Default[k]) = 0
        BY <3>2, <2>7, Zenon
      <4> QED
        BY ONLY <4>1, <3>2
    <3> QED
      BY <2>4, <2>5, <3>1, <3>2, Zenon
  <2> QED
    BY ONLY <2>1, <2>3, <2>8 DEF Held
<1>1. Types
  <2>1. pidmap \in Tables /\ Len(pidmap) = 0
    BY <1>i, <1>n DEF Tables
  <2>2. answer \in [asked : Nat, pid : Int]
    BY <1>i DEF NoAnswer
  <2>3. status \subseteq Bits /\ undone \subseteq Tasks /\ ppc \in Labels
    BY <1>i DEF Labels, Bits
  <2>4. Held(conf) /\ Held(asked)
    BY <1>i, <1>h DEF Held
  <2>5. line \in 0..Len(ProcLines) /\ count \in 0..Len(pidmap) /\ c \in 0..count /\ failed \in BOOLEAN
    <3>1. line = 0 /\ count = 0 /\ c = 0 /\ failed = FALSE
      BY <1>i
    <3>2. Len(ProcLines) \in Nat /\ Len(pidmap) = 0
      BY <1>n, <2>1
    <3>3. 0 \in 0..Len(ProcLines) /\ 0 \in 0..0 /\ FALSE \in BOOLEAN
      BY ONLY <3>2
    <3> QED
      BY <3>1, <3>2, <3>3, Zenon
  <2>6. pid \in Pids \union {NoPid, -2}
    BY <1>i
  <2> QED
    BY <2>1, <2>2, <2>3, <2>4, <2>5, <2>6 DEF Types
<1>2. SourceInv
  BY <1>i DEF SourceInv, Asking, InProc
<1>3. BitsInv
  BY <1>i DEF BitsInv, RefusalReported
<1>4. TableInv
  BY <1>i, <1>n DEF TableInv, NoStrangers, NoAnswer
<1>5. MeansInv
  <2>1. taken = <<>> /\ conf = Default
    BY <1>i DEF ProcInit, Init
  <2>2. <<>> \in Seq(Lines)
    OBVIOUS
  <2> QED BY <2>1, <2>2, MeansDefault, Zenon DEF MeansInv, ConfMeansLines
<1> QED
  BY <1>1, <1>2, <1>3, <1>4, <1>5 DEF IndInv

(* The invariant holds, and with it everything below.                         *)
THEOREM Invariance == ProcSpec => []IndInv
<1>1. IndInv /\ [ProcNext]_allVars => IndInv'
  BY TypesStep, SourceStep, BitsStep, TableStep, MeansStep DEF IndInv
<1> QED
  BY Begins, <1>1, PTL DEF ProcSpec

(* The types: the number of an integer option is in the range of an int, and  *)
(* main is never behind the memory of pidmap.                                 *)
THEOREM TypeCorrect == ProcSpec => []TypeOK
<1>1. IndInv => TypeOK
  <2> SUFFICES ASSUME IndInv PROVE TypeOK
    OBVIOUS
  <2>1. \A k \in Options : Parser[k] \notin Multi => Parser[k] \in Linear
    BY OptionsAssumption DEF OptionsAssumption, Parsers, Multi, Linear
  <2>2. Types
    BY DEF IndInv
  <2> QED
    BY <2>1, <2>2 DEF TypeOK, Types, Held, Values, Tables, Entries
<1> QED
  BY Invariance, <1>1, PTL

(* No line, file, PID or option is refused without a bit in the exit code,    *)
(* and while they are read nothing that is accepted sets one: conf.c:341-432  *)
(* and the option loop of main().                                             *)
THEOREM RefusalsShow == ProcSpec => []RefusalReported
<1>1. IndInv => RefusalReported
  BY DEF IndInv, BitsInv
<1> QED
  BY Invariance, <1>1, PTL

(* conf.c:160-330: what the parsers leave in conf, line by line, is what the  *)
(* lines mean taken together.                                                 *)
THEOREM LinesMeanConf == ProcSpec => []ConfMeansLines
<1>1. IndInv => ConfMeansLines
  BY DEF IndInv, MeansInv
<1> QED
  BY Invariance, <1>1, PTL

(* The mappings are those of the options or a beginning of those of /proc,    *)
(* and the executable of an option stays.                                     *)
THEOREM SourcesKeptApart == ProcSpec => []OneSource
<1>1. IndInv => OneSource
  <2> SUFFICES ASSUME IndInv, ppc \in InProc PROVE OneSource
    BY DEF OneSource
  <2>1. SourceInv /\ line \in 0..Len(ProcLines)
    BY DEF IndInv, Types
  <2> QED
    BY <2>1 DEF SourceInv, OneSource
<1> QED
  BY Invariance, <1>1, PTL

(* With an exit code of zero nothing is missing that /proc was to give.       *)
THEOREM GapsShow == ProcSpec => []GapsReported
<1>1. IndInv => GapsReported
  <2> SUFFICES ASSUME IndInv, ppc = "dump", asked[Ignore] # << 1 >>, status = {} PROVE GapsReported
    BY DEF GapsReported
  <2>1. IsSet(Exe) /\ undone = {} /\ (asked[Mappings] = <<>> => line = Len(ProcLines))
    BY DEF IndInv, BitsInv
  <2>2. asked[Mappings] = <<>> => ExecAmong(conf[Mappings], line)
    BY DEF IndInv, SourceInv, InProc
  <2> QED
    BY <2>1, <2>2 DEF GapsReported
<1> QED
  BY Invariance, <1>1, PTL

(* An entry that was read is found, whatever is behind it.                    *)
LEMMA ReadIsFound == ASSUME IndInv PROVE FoundAsRead
<1> SUFFICES ASSUME ppc = "dump", NEW i \in 1..c
             PROVE  /\ pidmap[i].pid \in Tasks
                    /\ Found(NsPid[pidmap[i].pid]) = {pidmap[i].pid}
                    /\ ~NotFound(NsPid[pidmap[i].pid])
  BY DEF FoundAsRead
<1> DEFINE t == pidmap[i].pid
<1>k. c \in Nat /\ count \in Nat /\ c <= count
  BY DEF IndInv, Types, Tables
<1>1. /\ \A j \in 1..c : pidmap[j].pid \in Tasks \ undone /\ pidmap[j].nspid = NsPid[pidmap[j].pid]
      /\ \A j, k \in 1..c : pidmap[j].pid = pidmap[k].pid => j = k
      /\ \A j \in (c + 1)..count : pidmap[j].nspid = Junk \/ \E u \in undone : pidmap[j].nspid = NsPid[u]
      /\ undone \subseteq Tasks
  BY DEF IndInv, TableInv, Types
<1>2. t \in Tasks \ undone /\ pidmap[i].nspid = NsPid[t]
  BY <1>1
<1>3. \A j \in 1..count : j \in 1..c \/ j \in (c + 1)..count
  BY <1>k
<1>4. Matches(NsPid[t]) = {i}
  <2>1. i \in Matches(NsPid[t])
    BY <1>k, <1>2 DEF Matches
  <2>2. ASSUME NEW j \in Matches(NsPid[t]) PROVE j = i
    <3>1. j \in 1..count /\ pidmap[j].nspid = NsPid[t]
      BY DEF Matches
    <3>2. CASE j \in 1..c
      BY <3>1, <3>2, <1>1, <1>2, NsPids
    <3>3. CASE j \in (c + 1)..count
      BY <3>1, <3>3, <1>1, <1>2, NsPids
    <3> QED
      BY <3>1, <3>2, <3>3, <1>3
  <2> QED
    BY <2>1, <2>2
<1>5. \A j \in MayMatch(NsPid[t]) : ~Before(j, {i})
  <2>1. ASSUME NEW j \in MayMatch(NsPid[t]), Before(j, {i}) PROVE FALSE
    <3>1. j \in 1..count /\ pidmap[j].nspid = Junk /\ j < i
      BY <2>1 DEF MayMatch, Before
    <3>2. j \in 1..c
      BY <3>1, <1>k
    <3> QED
      BY <3>1, <3>2, <1>1, NsPids
  <2> QED
    BY <2>1
<1>6. FirstIn({i}) = i
  BY <1>k, FirstIsOne
<1>7. Found(NsPid[t]) = {t}
  BY <1>4, <1>5, <1>6 DEF Found
<1> QED
  BY <1>2, <1>4, <1>7 DEF NotFound

(* proc_pid_map finds every task that was read, and gives the PID of no other *)
(* thread unless read_proc_info failed.                                       *)
THEOREM MapIsRight == ProcSpec => []Translates
<1>1. IndInv => Translates
  BY ReadIsFound DEF IndInv, TableInv, Translates
<1> QED
  BY Invariance, <1>1, PTL
=============================================================================
