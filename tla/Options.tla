------------------------------ MODULE Options ------------------------------
(***************************************************************************)
(* conf.c and the option loop of main(): files given with -c and directives *)
(* given with -o are read in their order into conf, line by line, by the    *)
(* parser that keywords[] names for the option.  The first line that is not *)
(* accepted ends the program.  A line is its keyword, what its value is to  *)
(* the parser, and the value; texts, addresses and numbers are integers.    *)
(***************************************************************************)
EXTENDS Integers, Sequences

CONSTANTS
  Options,      \* the keywords of the model
  Parser,       \* keywords[]: the parser of each
  Given,        \* the values that a line may give each option
  IntHalf,      \* an int is in -IntHalf .. IntHalf - 1 (2^31 in the build)
  MaxLines,     \* lines that are read in all
  Pids          \* what -P may give

NotAnOption == "unknown"
Comment     == "comment"

Parsers == {"string", "string_multi", "mapping_multi", "int", "enum"}
Multi   == {"string_multi", "mapping_multi"}

ASSUME OptionsAssumption ==
  /\ Parser \in [Options -> Parsers] /\ NotAnOption \notin Options /\ Comment \notin Options
  /\ DOMAIN Given = Options /\ \A k \in Options : Given[k] \subseteq Int
  /\ IntHalf \in Nat \ {0} /\ MaxLines \in Nat
  /\ Pids \subseteq Nat \ {0}

(* What a value can be: nothing, ~, a value of the option's domain, such a    *)
(* value with another word after it, anything else; or there is no memory     *)
(* left to store it.                                                          *)
ValueKinds == {"none", "clear", "good", "tail", "bad", "nomem"}
VARIABLES
  conf,      \* the value of each option, a sequence: empty is NULL
  pid,       \* run.pid
  ppc,       \* where main is
  status,    \* the levels in exitcode, see Early
  taken      \* the lines that have been accepted

optVars == <<conf, pid, ppc, status, taken>>

NoPid == -1
Default == [k \in Options |-> IF Parser[k] \in {"int", "enum"} THEN <<0>> ELSE <<>>]

(* The kinds of values a line with this parser can have.                      *)
KindsFor(p) ==
  CASE p = "string"        -> {"none", "clear", "good", "nomem"}
    [] p = "string_multi"  -> {"none", "clear", "good", "nomem"}
    [] p = "mapping_multi" -> {"none", "clear", "good", "bad", "nomem"}
    [] OTHER               -> {"none", "clear", "good", "tail", "bad"}

Line(k, kind, v) == [key |-> k, kind |-> kind, val |-> v]

Lines ==
  (UNION { {Line(k, kind, 0) : kind \in KindsFor(Parser[k]) \ {"good", "tail"}}
            \union {Line(k, kind, v) : kind \in KindsFor(Parser[k]) \intersect {"good", "tail"},
                                       v \in Given[k]} : k \in Options })
    \union {Line(NotAnOption, "none", 0), Line(NotAnOption, "good", 0), Line(Comment, "none", 0)}

-----------------------------------------------------------------------------
(* A number that is kept as it was given. *)
CutBug(n) == n

(* (int)int_value.                                                            *)
Cut(n) == ((n + IntHalf) % (2 * IntHalf)) - IntHalf

(* The new value of the option, also when the parser then fails: the number   *)
(* is stored before the rest of the line is looked at, and a string is freed  *)
(* before the new one is allocated.                                           *)
ParseString(old, l) ==
  IF l.kind = "good" THEN <<l.val>> ELSE <<>>

(* A ~ that only skips the line. *)
ParseStringMultiBug(old, l) == IF l.kind = "good" THEN Append(old, l.val) ELSE old

ParseStringMulti(old, l) ==
  CASE l.kind = "clear" -> <<>>
    [] l.kind = "good"  -> Append(old, l.val)
    [] OTHER            -> old
ParseMappingMulti(old, l) ==
  IF l.kind = "good" THEN Append(old, l.val) ELSE old
ParseInt(old, l) ==
  IF l.kind \in {"good", "tail"} THEN <<Cut(l.val)>> ELSE old
ParseEnum(old, l) ==
  IF l.kind \in {"good", "tail"} THEN <<l.val>> ELSE old

(* parse_line: does the line reach a parser, and does that accept it?         *)
Ignored(l) == l.key = Comment
Reaches(l) == l.key \in Options /\ l.kind # "none"

GoodKinds(p) == IF p \in {"string", "string_multi"} THEN {"good", "clear"} ELSE {"good"}

(* A parse_line that warns of an unknown option and goes on. *)
AcceptedBug(l) ==
  Ignored(l) \/ l.key = NotAnOption \/ (Reaches(l) /\ l.kind \in GoodKinds(Parser[l.key]))

Accepted(l) == Ignored(l) \/ (Reaches(l) /\ l.kind \in GoodKinds(Parser[l.key]))

(* What it logs on the way.                                                   *)
LineLevels(l) ==
  CASE Ignored(l)                                    -> {}
    [] Reaches(l) /\ l.kind \in GoodKinds(Parser[l.key]) -> {}
    [] l.key = NotAnOption /\ l.kind # "none"         -> {"warning"}
    [] OTHER                                         -> {"crit"}

ParseLine(c, l) ==
  IF ~Reaches(l) THEN c
  ELSE [c EXCEPT ![l.key] =
          CASE Parser[l.key] = "string"        -> ParseString(@, l)
            [] Parser[l.key] = "string_multi"  -> ParseStringMulti(@, l)
            [] Parser[l.key] = "mapping_multi" -> ParseMappingMulti(@, l)
            [] Parser[l.key] = "int"           -> ParseInt(@, l)
            [] OTHER                           -> ParseEnum(@, l)]

(* disable_core_generation, which main calls first, may set the bit of a      *)
(* warning already; that bit is told apart from those set later.              *)
Early == "early"

Init ==
  /\ conf = Default /\ pid = NoPid
  /\ ppc = "args" /\ status \in {{}, {Early}} /\ taken = <<>>

-----------------------------------------------------------------------------
(* Every return from main before anything else is started.                    *)
Exits(levels) ==
  /\ ppc' = "exited" /\ status' = status \union levels
  /\ UNCHANGED <<pid, taken>>

Takes(l) ==
  /\ Accepted(l)
  /\ conf' = ParseLine(conf, l)
  /\ taken' = Append(taken, l)
  /\ status' = status \union LineLevels(l)
  /\ UNCHANGED <<pid, ppc>>

Refuses(l, more) ==
  /\ ~Accepted(l)
  /\ conf' = ParseLine(conf, l)
  /\ Exits(LineLevels(l) \union more)

(* -o with a directive.                                                       *)
DirectLine(l) ==
  /\ ppc = "args" /\ Len(taken) < MaxLines
  /\ Takes(l) \/ Refuses(l, {})

(* -c with a file; parse_file says once more where it stopped.                *)
OpenFile ==
  /\ ppc = "args"
  /\ ppc' = "file"
  /\ UNCHANGED <<conf, pid, status, taken>>

FileUnreadable ==
  /\ ppc = "args"
  /\ Exits({"crit"}) /\ UNCHANGED conf

FileLine(l) ==
  /\ ppc = "file" /\ Len(taken) < MaxLines
  /\ Takes(l) \/ Refuses(l, {"crit"})

LineTooLong ==
  /\ ppc = "file"
  /\ Exits({"crit"}) /\ UNCHANGED conf

FileEnd ==
  /\ ppc = "file"
  /\ ppc' = "args"
  /\ UNCHANGED <<conf, pid, status, taken>>

(* -P with a positive number, the last one counts, or with anything else.     *)
PidGiven ==
  /\ ppc = "args"
  /\ pid' \in Pids
  /\ UNCHANGED <<conf, ppc, status, taken>>

PidInvalid ==
  /\ ppc = "args"
  /\ Exits({"crit"}) /\ UNCHANGED conf

(* An option getopt does not know: 0x1f.                                      *)
Levels == {"emerg", "alert", "crit", "err", "warning"}
Bits   == Levels \union {Early}

UnknownOption ==
  /\ ppc = "args"
  /\ Exits(Levels) /\ UNCHANGED conf

Usage ==
  /\ ppc = "args"
  /\ ppc' = "usage"
  /\ UNCHANGED <<conf, pid, status, taken>>

(* getopt is through, main goes on.                                           *)
EndOfOptions ==
  /\ ppc = "args"
  /\ ppc' = "run"
  /\ UNCHANGED <<conf, pid, status, taken>>

Next ==
  \/ \E l \in Lines : DirectLine(l) \/ FileLine(l)
  \/ OpenFile \/ FileUnreadable \/ LineTooLong \/ FileEnd
  \/ PidGiven \/ PidInvalid \/ UnknownOption \/ Usage \/ EndOfOptions

Spec == Init /\ [][Next]_optVars
-----------------------------------------------------------------------------
(* What crashinfo.1:81-87 says of the accepted lines: the last value counts;  *)
(* the values of a multi value option add up, from the last ~ on.             *)
IntOf(v) == CHOOSE n \in (-IntHalf)..(IntHalf - 1) : (n - v) % (2 * IntHalf) = 0

LinesOf(s, k) == {n \in 1..Len(s) : s[n].key = k}
Counting(s, k) == {n \in LinesOf(s, k) : \A m \in LinesOf(s, k) : s[m].kind = "clear" => m < n}

ValueOf(k, l) == IF Parser[k] = "int" THEN <<IntOf(l.val)>> ELSE <<l.val>>

(* v is what the lines s mean for option k.                                   *)
Means(s, k, v) ==
  IF Parser[k] \in Multi
    THEN \E at \in [1..Len(v) -> Counting(s, k)] :
           /\ \A i, j \in 1..Len(v) : i < j => at[i] < at[j]
           /\ {at[i] : i \in 1..Len(v)} = Counting(s, k)
           /\ \A i \in 1..Len(v) : v[i] = s[at[i]].val
  ELSE IF LinesOf(s, k) = {} THEN v = Default[k]
  ELSE IF Counting(s, k) = {} THEN v = <<>>
  ELSE \E n \in Counting(s, k) : (\A m \in Counting(s, k) : m <= n) /\ v = ValueOf(k, s[n])

(* What the parsers leave in conf, line by line and file by file, is what the *)
(* lines mean taken together; a number counts modulo the range of an int.     *)
ConfMeansLines ==
  ppc \in {"args", "file", "run"} => \A k \in Options : Means(taken, k, conf[k])

(* Where a line, a file, a PID or an option is refused, at whatever level of  *)
(* the parsers, the program has ended and that has set a bit in the exit      *)
(* code; and nothing that is accepted has set one.  Of the messages after the *)
(* options, which do not end the program, this says nothing.                  *)
RefusalReported ==
  /\ ppc = "exited" => status \ {Early} # {}
  /\ ppc \in {"args", "file", "usage"} => status \subseteq {Early}
=============================================================================
