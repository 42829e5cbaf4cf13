------------------------------- MODULE Expand -------------------------------
(***************************************************************************)
(* The wild cards of an output name: the loop of open_output() that expands *)
(* the name inside its buffer, from the end of the name to the end of the   *)
(* buffer and towards the front, so that what is written must never catch   *)
(* up with what has still to be read.  One action is one turn of the loop.  *)
(***************************************************************************)
EXTENDS Integers, Sequences, SequencesExt

CONSTANTS
  Letters,      \* the characters of names, besides the leading slash
  MaxName,      \* their number
  Sizes,        \* sizes of the buffer (PATH_MAX)
  Exes,         \* what conf.proc.exe may be
  PidText,      \* run.pid in decimal
  Limits,       \* <stream>_exists_seq
  Counters      \* the sequence number

MaxInt == 2147483647      \* INT_MAX
ESC   == "@"
NUL   == "nul"
Blank == "blank"      \* a byte of the buffer that was not written

ASSUME ExpandAssumption ==
  /\ ESC \in Letters /\ NUL \notin Letters
  /\ MaxName \in Nat /\ Sizes \subseteq Nat
  /\ Exes \subseteq Seq(STRING) /\ PidText \in Seq(STRING)
  /\ Limits \subseteq (-MaxInt - 1)..MaxInt /\ Counters \subseteq 0..MaxInt

VARIABLES
  name, size, exe, limit, counter,      \* what is given
  path, i, j,      \* the buffer, the character to read next, the place to write next
  state            \* "loop", "done" or "too_long"

given == <<name, size, exe, limit, counter>>
vars  == <<given, path, i, j, state>>

Init ==
  /\ \E n \in 0..MaxName : \E s \in [1..n -> Letters] : name = <<"/">> \o s
  /\ size \in Sizes /\ Len(name) < size
  /\ exe \in Exes
  /\ limit \in Limits /\ counter \in Counters /\ (limit > 0 => counter < limit)
  /\ path = [k \in 0..(size - 1) |->
               IF k < Len(name) THEN name[k + 1] ELSE IF k = Len(name) THEN NUL ELSE Blank]
  /\ i = Len(name) /\ j = size - 1
  /\ state = "loop"

(* A test for the escape character that looks at one character only. *)
IsEscapeBug(k) == path[k] = ESC

(* Is k the last of an odd number of escape characters?                       *)
IsEscape(k) ==
  \E n \in {m \in 1..(k + 1) : m % 2 = 1} :
    /\ \A m \in 0..(n - 1) : path[k - m] = ESC
    /\ n = k + 1 \/ path[k - n] # ESC

(* The texts that are put in; the digits are those of snprintf with a width,  *)
(* cut to the width.                                                          *)
Digit == <<"0", "1", "2", "3", "4", "5", "6", "7", "8", "9">>
Power == <<1, 10, 100, 1000, 10000, 100000, 1000000, 10000000, 100000000, 1000000000>>

(* intlen divides by ten until one digit is left.                             *)
IntLen(n) == CHOOSE w \in 1..10 : n \div Power[w] \in (IF w = 1 THEN 0 ELSE 1)..9

Wide(n, w) == [k \in 1..w |-> Digit[((n \div Power[w - k + 1]) % 10) + 1]]

SeqLen == IF limit > 0 THEN IntLen(limit - 1) ELSE IntLen(counter)

SeqText ==
  LET w == IF IntLen(counter) > SeqLen THEN IntLen(counter) ELSE SeqLen
  IN SubSeq(Wide(counter, w), 1, SeqLen)

Slash(s) == SelectLastInSeq(s, LAMBDA ch : ch = "/")
ExeTail == SubSeq(exe, Slash(exe) + 1, Len(exe))
ExePath == [k \in 1..Len(exe) |-> IF exe[k] = "/" THEN "!" ELSE exe[k]]

(* The buffer with s in it from k on.                                         *)
With(s, k) == [m \in DOMAIN path |-> IF m \in k..(k + Len(s) - 1) THEN s[m - k + 1] ELSE path[m]]

TooLong == state' = "too_long" /\ UNCHANGED <<given, path, i, j>>
Escaped == state = "loop" /\ i >= 1 /\ IsEscape(i - 1)

-----------------------------------------------------------------------------
Plain ==
  /\ state = "loop" /\ i >= 1 /\ ~IsEscape(i - 1)
  /\ path' = With(<<path[i]>>, j)
  /\ i' = i - 1 /\ j' = j - 1
  /\ UNCHANGED <<given, state>>

EscapedEscape ==
  /\ Escaped /\ path[i] = ESC
  /\ path' = With(<<ESC>>, j)
  /\ i' = i - 2 /\ j' = j - 1
  /\ UNCHANGED <<given, state>>

(* A test for room before j is moved. *)
TextFitsBug(s) == j >= i - 1

(* @p and @Q, down to the place of the escape character.                      *)
TextFits(s) == j - (Len(s) - 1) >= i - 1

PutText(s) ==
  IF TextFits(s)
    THEN /\ path' = With(s, j - (Len(s) - 1))
         /\ i' = i - 2 /\ j' = j - Len(s)
         /\ UNCHANGED <<given, state>>
    ELSE TooLong

Pid    == Escaped /\ path[i] = "p" /\ PutText(PidText)
Number == Escaped /\ path[i] = "Q" /\ PutText(SeqText)

(* @e and @E, which look for room before each character of the executable,    *)
(* the slash that ends @e included.                                           *)
Looked(s) == IF path[i] = "e" /\ Slash(exe) > 0 THEN Len(s) + 1 ELSE Len(s)

(* Room for the whole path, also for @e. *)
NameFitsBug(s) == j - Len(exe) > i

NameFits(s) == Looked(s) = 0 \/ j - (Looked(s) - 1) > i

PutName(s) ==
  IF NameFits(s)
    THEN /\ path' = With(s, j - (Len(s) - 1))
         /\ i' = i - 2 /\ j' = j - Len(s)
         /\ UNCHANGED <<given, state>>
    ELSE TooLong

Executable == Escaped /\ path[i] = "e" /\ PutName(ExeTail)
Pathname   == Escaped /\ path[i] = "E" /\ PutName(ExePath)

Unknown ==
  /\ Escaped /\ path[i] \notin {ESC, "p", "Q", "e", "E"}
  /\ path' = With(<<ESC, path[i]>>, j - 1)
  /\ i' = i - 2 /\ j' = j - 2
  /\ UNCHANGED <<given, state>>

(* The leading slash.                                                         *)
Finish ==
  /\ state = "loop" /\ i < 1
  /\ path' = With(<<"/">>, j)
  /\ state' = "done"
  /\ UNCHANGED <<given, i, j>>

Next ==
  \/ Plain \/ EscapedEscape \/ Pid \/ Number \/ Executable \/ Pathname \/ Unknown \/ Finish
  \/ state # "loop" /\ UNCHANGED vars

Spec == Init /\ [][Next]_vars
-----------------------------------------------------------------------------
(* Every variable has its type; nothing is read or written outside the buffer.*)
TypeOK ==
  /\ path \in [0..(size - 1) -> Letters \union Range(exe) \union Range(PidText) \union Range(Digit)
                               \union {"/", "!", NUL, Blank}]
  /\ i \in 0..Len(name) /\ j \in 0..(size - 1)
  /\ state \in {"loop", "done", "too_long"}

(* t/stream_seq.t:31-41: @Q is just wide enough for the greatest number that  *)
(* a limited sequence uses, which is one below the limit, and as wide for     *)
(* each other.  (crashinfo.1:119-122 has the limit itself as a number, and    *)
(* one digit more for a limit of 100.)                                        *)
HasRoom(n, w) == w = 10 \/ n < Power[w + 1]

Width ==
  LET numbers == IF limit > 0 THEN 0..(limit - 1) ELSE {counter}
      Enough(w) == \A n \in numbers : HasRoom(n, w)
  IN CHOOSE w \in 1..10 : Enough(w) /\ \A v \in 1..(w - 1) : ~Enough(v)

(* The name read from the left, in pairs of an escape character and another,  *)
(* with the wild cards of crashinfo.1:94-108 but for the PID, which is @P     *)
(* there and @p in the code and in t/stream_output.t:20.                      *)
Subst(ch) ==
  CASE ch = ESC -> <<ESC>>
    [] ch = "p" -> PidText
    [] ch = "Q" -> Wide(counter, Width)
    [] ch = "e" -> ExeTail
    [] ch = "E" -> ExePath
    [] OTHER    -> <<ESC, ch>>

From ==
  LET from[k \in 1..(Len(name) + 2)] ==
        IF k > Len(name) THEN <<>>
        ELSE IF name[k] # ESC \/ k = Len(name) THEN <<name[k]>> \o from[k + 1]
        ELSE Subst(name[k + 1]) \o from[k + 2]
  IN from

Result == [k \in 1..(size - j) |-> path[j + k - 1]]

(* The expansion from the right, which counts escape characters to find the   *)
(* pairs, gives what reading from the left gives.                             *)
Expands == state = "done" => Result = From[1] \o <<NUL>>

(* What has not been read is still there: the writing does not catch up.      *)
SourceKept == state # "done" => j >= i /\ \A k \in 0..i : path[k] = (name \o <<NUL>>)[k + 1]

(* A name is refused only when some rest of it, expanded, and what is before  *)
(* that rest do not fit the buffer with three bytes to spare.                 *)
RefusedForSize ==
  state = "too_long" => \E k \in 1..Len(name) : (k - 1) + Len(From[k]) + 1 + 3 > size
=============================================================================
