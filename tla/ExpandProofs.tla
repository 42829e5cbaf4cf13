---------------------------- MODULE ExpandProofs ----------------------------
(* Proofs about Expand: for every name, buffer, executable and PID the        *)
(* expansion in place never writes over what it has still to read, stays in   *)
(* its buffer, and gives what reading the name from the left gives.           *)
EXTENDS Expand, TLAPS, SequenceTheorems, WellFoundedInduction

(* What is given is of the right kind, and a name begins with a slash, which  *)
(* is what ends the scan for escape characters.                               *)
GivenInv ==
  /\ Len(name) \in Nat /\ name[1] = "/" /\ Len(name) >= 1
  /\ size \in Nat /\ Len(name) < size
  /\ exe \in Seq(STRING)
  /\ limit \in (-MaxInt - 1)..MaxInt /\ counter \in 0..MaxInt /\ (limit > 0 => counter < limit)

(* Both places are in the buffer.                                             *)
PlaceInv ==
  /\ DOMAIN path = 0..(size - 1)
  /\ i \in 0..Len(name) /\ j \in 0..(size - 1)

(* All that the writing must not disturb.                                     *)
SourceInv == GivenInv /\ PlaceInv /\ SourceKept

-----------------------------------------------------------------------------
(* A set of numbers up to n that is not empty has a greatest one, so Slash is *)
(* a place in exe, or 0.                                                      *)
LEMMA SlashIsPlace ==
  ASSUME exe \in Seq(STRING) PROVE Slash(exe) \in 0..Len(exe)
<1> DEFINE I == {k \in 1..Len(exe) : exe[k] = "/"}
           Back == {Len(exe) - k : k \in I}
<1>1. Slash(exe) = IF I # {} THEN CHOOSE x \in I : \A y \in I : x >= y ELSE 0
  BY DEF Slash, SelectLastInSeq, Max
<1>2. ASSUME I # {} PROVE \E x \in I : \A y \in I : x >= y
  <2>1. Back \subseteq Nat /\ Back # {}
    BY <1>2
  <2>2. \E b \in Back : \A a \in Back : ~(<<a, b>> \in OpToRel(<, Nat))
    BY <2>1, NatLessThanWellFounded, WFMin, Zenon
  <2>3. PICK b \in Back : \A a \in Back : ~(<<a, b>> \in OpToRel(<, Nat))
    BY <2>2, Zenon
  <2>4. ASSUME NEW a \in Back PROVE ~(a < b)
    <3>1. a \in Nat /\ b \in Nat
      BY <2>1
    <3>2. a < b => <<a, b>> \in OpToRel(<, Nat)
      BY <3>1, Zenon DEF OpToRel
    <3> QED
      BY <2>3, <3>2, Zenon
  <2>5. PICK x \in I : b = Len(exe) - x
    OBVIOUS
  <2>6. ASSUME NEW y \in I PROVE x >= y
    <3>1. ~(Len(exe) - y < b)
      BY <2>4
    <3> QED
      BY <2>5, <3>1
  <2> QED
    BY <2>6
<1>3. ASSUME I # {} PROVE Slash(exe) \in I
  BY <1>1, <1>2, <1>3, Zenon
<1>4. CASE I # {}
  <2>1. I \subseteq 0..Len(exe)
    OBVIOUS
  <2> QED
    BY <1>3, <1>4, <2>1, Zenon
<1>5. CASE I = {}
  BY <1>1, <1>5
<1> QED
  BY <1>4, <1>5, Zenon

(* The powers of ten, and INT_MAX among them.                                 *)
LEMMA PowerIs ==
  /\ Power[1] = 1 /\ Power[2] = 10 /\ Power[3] = 100 /\ Power[4] = 1000 /\ Power[5] = 10000
  /\ Power[6] = 100000 /\ Power[7] = 1000000 /\ Power[8] = 10000000
  /\ Power[9] = 100000000 /\ Power[10] = 1000000000
BY SMT DEF Power

LEMMA IntMax == MaxInt \in Nat /\ MaxInt < 10 * Power[10]
BY SMT DEF MaxInt, Power

LEMMA PowersGrow ==
  /\ \A v, w \in 1..10 : v < w => Power[v + 1] <= Power[w] /\ v + 1 \in 1..10
  /\ \A w \in 1..10 : Power[w] \in Nat \ {0}
BY SMT DEF Power

(* A number has w digits when it is less than the w-th power of ten and, but  *)
(* for w = 1, not less than the one before.                                   *)
LEMMA DigitsLeft ==
  ASSUME NEW n \in 0..MaxInt, NEW w \in 1..10
  PROVE  n \div Power[w] \in (IF w = 1 THEN 0 ELSE 1)..9
           <=> /\ w = 1 \/ Power[w] <= n
               /\ HasRoom(n, w)
<1>n. n \in Nat /\ n < 10 * Power[10]
  BY IntMax, PowersGrow
<1>1. CASE w = 1
  BY <1>n, <1>1, PowerIs, SMT DEF HasRoom
<1>2. CASE w = 2
  BY <1>n, <1>2, PowerIs, SMT DEF HasRoom
<1>3. CASE w = 3
  BY <1>n, <1>3, PowerIs, SMT DEF HasRoom
<1>4. CASE w = 4
  BY <1>n, <1>4, PowerIs, SMT DEF HasRoom
<1>5. CASE w = 5
  BY <1>n, <1>5, PowerIs, SMT DEF HasRoom
<1>6. CASE w = 6
  BY <1>n, <1>6, PowerIs, SMT DEF HasRoom
<1>7. CASE w = 7
  BY <1>n, <1>7, PowerIs, SMT DEF HasRoom
<1>8. CASE w = 8
  BY <1>n, <1>8, PowerIs, SMT DEF HasRoom
<1>9. CASE w = 9
  BY <1>n, <1>9, PowerIs, SMT DEF HasRoom
<1>10. CASE w = 10
  BY <1>n, <1>10, PowerIs, SMT DEF HasRoom
<1> QED
  BY <1>1, <1>2, <1>3, <1>4, <1>5, <1>6, <1>7, <1>8, <1>9, <1>10

(* intlen is the least number of digits that has room for the number.         *)
LEMMA IntLenIs ==
  ASSUME NEW n \in 0..MaxInt
  PROVE  /\ IntLen(n) \in 1..10 /\ HasRoom(n, IntLen(n))
         /\ \A v \in 1..10 : v < IntLen(n) => ~HasRoom(n, v)
<1> DEFINE Left(w) == n \div Power[w] \in (IF w = 1 THEN 0 ELSE 1)..9
<1>1. \A w \in 1..10 : Left(w) <=> (w = 1 \/ Power[w] <= n) /\ HasRoom(n, w)
  BY DigitsLeft
<1>2. IntLen(n) = CHOOSE w \in 1..10 : Left(w)
  BY Zenon DEF IntLen
<1> HIDE DEF Left
<1>3. \E w \in 1..10 : (w = 1 \/ Power[w] <= n) /\ HasRoom(n, w)
  <2> DEFINE Has(w) == (w = 1 \/ Power[w] <= n) /\ HasRoom(n, w)
  <2>1. n \in Nat
    BY IntMax
  <2>2. Has(1) \/ Has(2) \/ Has(3) \/ Has(4) \/ Has(5) \/ Has(6) \/ Has(7) \/ Has(8) \/ Has(9) \/ Has(10)
    BY <2>1, PowerIs, SMT DEF HasRoom
  <2> HIDE DEF Has
  <2>3. \E w \in 1..10 : Has(w)
    BY <2>2
  <2> QED
    BY <2>3, Zenon DEF Has
<1>4. IntLen(n) \in 1..10 /\ Left(IntLen(n))
  BY <1>1, <1>2, <1>3, Zenon
<1>5. ASSUME NEW v \in 1..10, v < IntLen(n) PROVE ~HasRoom(n, v)
  <2>1. Power[v + 1] <= Power[IntLen(n)] /\ v + 1 \in 1..10
    BY <1>4, <1>5, PowersGrow
  <2>2. Power[v + 1] \in Nat /\ Power[IntLen(n)] \in Nat
    BY <1>4, <2>1, PowersGrow
  <2>3. Power[IntLen(n)] <= n
    BY <1>1, <1>4, <1>5
  <2>4. v # 10
    BY <1>4, <1>5
  <2> QED
    BY <2>1, <2>2, <2>3, <2>4, IntMax DEF HasRoom
<1> QED
  BY <1>1, <1>4, <1>5

(* The number is not longer than the width it is written in.                  *)
LEMMA NumberFits ==
  ASSUME GivenInv
  PROVE  SeqLen \in 1..10 /\ IntLen(counter) \in 1..10 /\ IntLen(counter) <= SeqLen
<1>1. limit \in Int /\ limit <= MaxInt /\ counter \in 0..MaxInt /\ (limit > 0 => counter < limit)
  BY IntMax DEF GivenInv
<1>2. CASE ~(limit > 0)
  <2>1. IntLen(counter) \in 1..10
    BY <1>1, IntLenIs
  <2> QED
    BY <1>2, <2>1 DEF SeqLen
<1>3. CASE limit > 0
  <2>1. SeqLen = IntLen(limit - 1) /\ limit - 1 \in 0..MaxInt /\ counter <= limit - 1
    BY <1>1, <1>3, IntMax DEF SeqLen
  <2>2. SeqLen \in 1..10 /\ IntLen(counter) \in 1..10 /\ HasRoom(limit - 1, SeqLen)
        /\ \A v \in 1..10 : v < IntLen(counter) => ~HasRoom(counter, v)
    BY <1>1, <2>1, IntLenIs
  <2>3. HasRoom(counter, SeqLen)
    <3>1. SeqLen = 10 \/ SeqLen + 1 \in 1..10
      BY <2>2
    <3>2. SeqLen = 10 \/ Power[SeqLen + 1] \in Nat
      BY <3>1, PowersGrow
    <3> QED
      BY <1>1, <2>1, <2>2, <3>2, IntMax DEF HasRoom
  <2> QED
    BY <2>2, <2>3
<1> QED
  BY <1>2, <1>3

(* The texts that are put in have a length, and @e looks at one more          *)
(* character than it copies when there is a slash.                            *)
LEMMA TextLengths ==
  ASSUME GivenInv
  PROVE  /\ Len(PidText) \in Nat /\ Len(SeqText) \in Nat
         /\ Len(ExePath) \in Nat /\ Len(ExeTail) \in Nat
         /\ \A s : Looked(s) \in {Len(s), Len(s) + 1}
<1>1. Len(PidText) \in Nat
  BY ExpandAssumption
<1>2. Len(ExePath) \in Nat
  BY DEF GivenInv, ExePath
<1>3. Len(ExeTail) \in Nat
  <2>1. Slash(exe) \in 0..Len(exe)
    BY SlashIsPlace DEF GivenInv
  <2> QED
    BY <2>1 DEF GivenInv, ExeTail
<1>4. Len(SeqText) \in Nat
  <2> DEFINE w == IF IntLen(counter) > SeqLen THEN IntLen(counter) ELSE SeqLen
             D(k) == Digit[((counter \div Power[w - k + 1]) % 10) + 1]
             W == [k \in 1..w |-> D(k)]
  <2>1. SeqLen \in 1..10 /\ w \in 1..10 /\ SeqLen <= w
    BY NumberFits
  <2>2. SeqText = SubSeq(W, 1, SeqLen)
    BY DEF SeqText, Wide
  <2> HIDE DEF D, w
  <2>3. W \in Seq({D(k) : k \in 1..w}) /\ Len(W) = w
    BY <2>1
  <2> HIDE DEF W
  <2> QED
    BY <2>1, <2>2, <2>3
<1>5. \A s : Looked(s) \in {Len(s), Len(s) + 1}
  BY DEF Looked
<1> QED
  BY <1>1, <1>2, <1>3, <1>4, <1>5

(* The first byte is never taken for an escape character, so a wild card has  *)
(* two characters in front of the slash.                                      *)
LEMMA EscapedIsInside ==
  ASSUME SourceInv, Escaped PROVE i >= 2
<1>1. i \in Nat /\ i >= 1 /\ path[i - 1] = ESC
  BY DEF SourceInv, PlaceInv, GivenInv, Escaped, IsEscape
<1>2. path[0] = "/"
  BY DEF SourceInv, GivenInv, PlaceInv, SourceKept, Escaped
<1> QED
  BY <1>1, <1>2 DEF ESC

(* Writing behind the characters that are left.                               *)
LEMMA WriteBehind ==
  ASSUME SourceInv, state = "loop", NEW s, NEW k \in Int, Len(s) \in Nat,
         UNCHANGED given, path' = With(s, k),
         i' \in 0..i, j' \in 0..(size - 1), i' < k, i' <= j'
  PROVE  SourceInv'
<1>1. DOMAIN path' = 0..(size - 1)
  BY DEF With, SourceInv, PlaceInv
<1>2. \A m \in 0..i' : path'[m] = path[m]
  BY DEF With, SourceInv, PlaceInv, GivenInv
<1>3. GivenInv'
  BY DEF SourceInv, GivenInv, given
<1>4. PlaceInv'
  BY <1>1 DEF SourceInv, PlaceInv, given
<1>5. \A m \in 0..i' : path'[m] = (name' \o <<NUL>>)[m + 1]
  <2> DEFINE text == name \o <<NUL>>
  <2>1. \A m \in 0..i : path[m] = text[m + 1]
    BY Zenon DEF SourceInv, SourceKept
  <2>2. text' = text
    BY Zenon DEF given
  <2> HIDE DEF text
  <2>3. \A m \in 0..i' : path'[m] = text[m + 1]
    BY <1>2, <2>1 DEF SourceInv, PlaceInv, GivenInv
  <2> QED
    BY <2>2, <2>3, Zenon DEF text
<1> QED
  BY <1>3, <1>4, <1>5 DEF SourceInv, SourceKept, PlaceInv

-----------------------------------------------------------------------------
(* Before the first turn all of the name is at the front of the buffer.       *)
LEMMA InitHolds == Init => SourceInv
<1> SUFFICES ASSUME Init PROVE SourceInv
  OBVIOUS
<1>1. PICK n \in 0..MaxName : \E s \in [1..n -> Letters] : name = <<"/">> \o s
  BY Zenon DEF Init
<1>2. PICK s \in [1..n -> Letters] : name = <<"/">> \o s
  BY <1>1
<1>3. s \in Seq(Letters) /\ Len(s) = n /\ n \in Nat
  BY <1>2, ExpandAssumption
<1>4. name \in Seq(Letters \union {"/"}) /\ Len(name) = n + 1 /\ name[1] = "/"
  BY <1>2, <1>3
<1>5. size \in Nat /\ exe \in Seq(STRING) /\ limit \in (-MaxInt - 1)..MaxInt /\ counter \in 0..MaxInt
  BY ExpandAssumption DEF Init
<1>6. GivenInv
  BY <1>3, <1>4, <1>5 DEF GivenInv, Init
<1>7. PlaceInv
  BY <1>3, <1>4, <1>5 DEF PlaceInv, Init
<1>8. SourceKept
  <2>1. \A k \in 0..i : path[k] = IF k < Len(name) THEN name[k + 1] ELSE NUL
    BY <1>3, <1>4, <1>5 DEF Init
  <2>2. \A k \in 0..Len(name) :
          (name \o <<NUL>>)[k + 1] = IF k < Len(name) THEN name[k + 1] ELSE NUL
    BY <1>3, <1>4
  <2>3. i = Len(name) /\ j >= i
    BY <1>3, <1>4, <1>5 DEF Init
  <2> QED
    BY <2>1, <2>2, <2>3 DEF SourceKept
<1> QED
  BY <1>6, <1>7, <1>8 DEF SourceInv

(* Each turn of the loop writes behind what it leaves to be read.             *)
LEMMA SourceStep ==
  ASSUME SourceInv, [Next]_vars PROVE SourceInv'
<1>0. /\ GivenInv /\ i \in Nat /\ j \in 0..(size - 1) /\ size \in Nat
      /\ state # "done" => j >= i
  BY DEF SourceInv, PlaceInv, GivenInv, SourceKept
<1>1. ASSUME TooLong, state = "loop" PROVE SourceInv'
  BY <1>1 DEF TooLong, given, SourceInv, PlaceInv, GivenInv, SourceKept
<1>2. CASE Plain
  <2>1. /\ state = "loop" /\ UNCHANGED given /\ path' = With(<<path[i]>>, j)
        /\ Len(<<path[i]>>) \in Nat /\ j \in Int
        /\ i' \in 0..i /\ j' \in 0..(size - 1) /\ i' < j /\ i' <= j'
    BY <1>0, <1>2 DEF Plain
  <2> QED
    BY <2>1, WriteBehind, Zenon
<1>3. CASE EscapedEscape
  <2>1. i >= 2
    BY <1>3, EscapedIsInside DEF EscapedEscape
  <2>2. /\ state = "loop" /\ UNCHANGED given /\ path' = With(<<ESC>>, j)
        /\ Len(<<ESC>>) \in Nat /\ j \in Int
        /\ i' \in 0..i /\ j' \in 0..(size - 1) /\ i' < j /\ i' <= j'
    BY <1>0, <1>3, <2>1 DEF EscapedEscape, Escaped
  <2> QED
    BY <2>2, WriteBehind, Zenon
<1>4. CASE Unknown
  <2>1. i >= 2
    BY <1>4, EscapedIsInside DEF Unknown
  <2>2. /\ state = "loop" /\ UNCHANGED given /\ path' = With(<<ESC, path[i]>>, j - 1)
        /\ Len(<<ESC, path[i]>>) \in Nat /\ j - 1 \in Int
        /\ i' \in 0..i /\ j' \in 0..(size - 1) /\ i' < j - 1 /\ i' <= j'
    BY <1>0, <1>4, <2>1 DEF Unknown, Escaped
  <2> QED
    BY <2>2, WriteBehind, Zenon
<1>5. ASSUME Escaped, NEW s, Len(s) \in Nat, PutText(s) PROVE SourceInv'
  <2>1. CASE TextFits(s)
    <3>1. i >= 2
      BY <1>5, EscapedIsInside
    <3>2. /\ state = "loop" /\ UNCHANGED given /\ path' = With(s, j - (Len(s) - 1))
          /\ j - (Len(s) - 1) \in Int
          /\ i' \in 0..i /\ j' \in 0..(size - 1) /\ i' < j - (Len(s) - 1) /\ i' <= j'
      BY <1>0, <1>5, <2>1, <3>1 DEF PutText, TextFits, Escaped
    <3> QED
      BY <1>5, <3>2, WriteBehind, Zenon
  <2>2. CASE ~TextFits(s)
    BY <1>1, <1>5, <2>2 DEF PutText, Escaped
  <2> QED
    BY <2>1, <2>2
<1>6. ASSUME Escaped, NEW s, Len(s) \in Nat, Looked(s) \in {Len(s), Len(s) + 1}, PutName(s)
      PROVE  SourceInv'
  <2>1. CASE NameFits(s)
    <3>1. i >= 2
      BY <1>6, EscapedIsInside
    <3>2. /\ state = "loop" /\ UNCHANGED given /\ path' = With(s, j - (Len(s) - 1))
          /\ j - (Len(s) - 1) \in Int
          /\ i' \in 0..i /\ j' \in 0..(size - 1) /\ i' < j - (Len(s) - 1) /\ i' <= j'
      BY <1>0, <1>6, <2>1, <3>1 DEF PutName, NameFits, Escaped
    <3> QED
      BY <1>6, <3>2, WriteBehind, Zenon
  <2>2. CASE ~NameFits(s)
    BY <1>1, <1>6, <2>2 DEF PutName, Escaped
  <2> QED
    BY <2>1, <2>2
<1>7. CASE Pid
  BY <1>0, <1>5, <1>7, TextLengths DEF Pid
<1>8. CASE Number
  BY <1>0, <1>5, <1>8, TextLengths DEF Number
<1>9. CASE Executable
  BY <1>0, <1>6, <1>9, TextLengths DEF Executable
<1>10. CASE Pathname
  BY <1>0, <1>6, <1>10, TextLengths DEF Pathname
<1>11. CASE Finish
  <2>1. DOMAIN path' = 0..(size - 1)
    BY <1>11 DEF Finish, With, SourceInv, PlaceInv
  <2> QED
    BY <1>11, <2>1 DEF Finish, given, SourceInv, PlaceInv, GivenInv, SourceKept
<1>12. CASE UNCHANGED vars
  BY <1>12 DEF vars, given, SourceInv, PlaceInv, GivenInv, SourceKept
<1> QED
  BY <1>2, <1>3, <1>4, <1>7, <1>8, <1>9, <1>10, <1>11, <1>12 DEF Next

-----------------------------------------------------------------------------
(* The name read from the left.                                               *)

(* What From says of place k, when it is f after it.                          *)
ReadAt(f, k) ==
  IF k > Len(name) THEN <<>>
  ELSE IF name[k] # ESC \/ k = Len(name) THEN <<name[k]>> \o f[k + 1]
  ELSE Subst(name[k + 1]) \o f[k + 2]

(* The three cases of it.                                                     *)
LEMMA ReadAtCases ==
  ASSUME NEW f, NEW k
  PROVE  /\ k > Len(name) => ReadAt(f, k) = <<>>
         /\ ~(k > Len(name)) /\ (name[k] # ESC \/ k = Len(name))
              => ReadAt(f, k) = <<name[k]>> \o f[k + 1]
         /\ ~(k > Len(name)) /\ ~(name[k] # ESC \/ k = Len(name))
              => ReadAt(f, k) = Subst(name[k + 1]) \o f[k + 2]
  BY DEF ReadAt

(* f is what From says from place n on, and nothing before it.                *)
ReadsFrom(f, n) ==
  f = [k \in 1..(Len(name) + 2) |-> IF k >= n THEN ReadAt(f, k) ELSE <<>>]

(* A least place up to which the name can be read is the first one, so there  *)
(* is a function as From defines it.                                          *)
LEMMA FromExists ==
  ASSUME Len(name) \in Nat
  PROVE  \E f : f = [k \in 1..(Len(name) + 2) |-> ReadAt(f, k)]
<1> DEFINE N == Len(name) + 2
           S == {n \in 1..N : \E f : ReadsFrom(f, n)}
<1>1. N \in S
  <2> DEFINE f == [k \in 1..N |-> <<>>]
  <2>1. \A k \in 1..N : <<>> = IF k >= N THEN ReadAt(f, k) ELSE <<>>
    <3>1. \A k \in 1..N : k >= N => k > Len(name)
      OBVIOUS
    <3> HIDE DEF f, N
    <3> QED BY <3>1, ReadAtCases
  <2>2. f = [k \in 1..N |-> IF k >= N THEN ReadAt(f, k) ELSE <<>>]
    BY <2>1, Zenon
  <2>3. ReadsFrom(f, N)
    BY <2>2, Zenon DEF ReadsFrom
  <2> HIDE DEF f
  <2> QED BY <2>3
<1>2. \E m \in S : \A n \in S : ~(<<n, m>> \in OpToRel(<, Nat))
  <2>1. S \subseteq Nat /\ S # {}
    BY <1>1
  <2> HIDE DEF S
  <2> QED BY <2>1, NatLessThanWellFounded, WFMin, Zenon
<1>3. PICK m \in S : \A n \in S : ~(<<n, m>> \in OpToRel(<, Nat))
  BY <1>2, Zenon
<1>4. m \in 1..N /\ m \in Nat
  OBVIOUS
<1>5. PICK f : ReadsFrom(f, m)
  BY <1>3
<1>6. CASE m = 1
  <2>1. f = [k \in 1..N |-> ReadAt(f, k)]
    BY <1>5, <1>6 DEF ReadsFrom
  <2> QED BY <2>1
<1>7. CASE m # 1
  <2> DEFINE n == m - 1
             g == [k \in 1..N |-> IF k = n THEN ReadAt(f, k) ELSE f[k]]
  <2>1. n \in 1..N /\ n \in Nat /\ n < m
    BY <1>4, <1>7
  <2>2. /\ \A k \in 1..N : f[k] = IF k >= m THEN ReadAt(f, k) ELSE <<>>
        /\ \A k \in 1..N : g[k] = IF k = n THEN ReadAt(f, k) ELSE f[k]
        /\ g = [k \in 1..N |-> g[k]]
    BY <1>5 DEF ReadsFrom
  <2>3. ASSUME NEW k \in 1..N, k >= n PROVE ReadAt(g, k) = ReadAt(f, k)
    <3>1. CASE k > Len(name)
      BY <3>1 DEF ReadAt
    <3>2. CASE ~(k > Len(name))
      <4>1. k + 1 \in 1..N /\ k + 2 \in 1..N /\ k + 1 # n /\ k + 2 # n
        BY <2>1, <2>3, <3>2
      <4>2. g[k + 1] = f[k + 1] /\ g[k + 2] = f[k + 2]
        BY <2>2, <4>1, Zenon
      <4>3. CASE name[k] # ESC \/ k = Len(name)
        <5>1. ReadAt(g, k) = <<name[k]>> \o g[k + 1] /\ ReadAt(f, k) = <<name[k]>> \o f[k + 1]
          BY <3>2, <4>3, ReadAtCases, Zenon
        <5> QED BY <4>2, <5>1, Zenon
      <4>4. CASE ~(name[k] # ESC \/ k = Len(name))
        <5>1. /\ ReadAt(g, k) = Subst(name[k + 1]) \o g[k + 2]
              /\ ReadAt(f, k) = Subst(name[k + 1]) \o f[k + 2]
          BY <3>2, <4>4, ReadAtCases, Zenon
        <5> QED BY <4>2, <5>1, Zenon
      <4> QED BY <4>3, <4>4
    <3> QED BY <3>1, <3>2
  <2>4. ASSUME NEW k \in 1..N PROVE g[k] = IF k >= n THEN ReadAt(g, k) ELSE <<>>
    <3>1. CASE k = n
      BY <2>1, <2>2, <2>3, <3>1
    <3>2. CASE k > n
      <4>1. k # n /\ k >= m /\ k >= n
        BY <1>4, <2>1, <3>2
      <4> QED BY <2>2, <2>3, <4>1, Zenon
    <3>3. CASE k < n
      <4>1. k # n /\ ~(k >= m) /\ ~(k >= n)
        BY <1>4, <2>1, <3>3
      <4> QED BY <2>2, <4>1, Zenon
    <3> QED BY <2>1, <3>1, <3>2, <3>3
  <2> HIDE DEF g
  <2>5. ReadsFrom(g, n)
    <3>1. g = [k \in 1..N |-> IF k >= n THEN ReadAt(g, k) ELSE <<>>]
      BY <2>2, <2>4, Zenon
    <3> QED BY <3>1, Zenon DEF ReadsFrom
  <2>6. n \in S
    BY <2>1, <2>5
  <2>7. <<n, m>> \in OpToRel(<, Nat)
    BY <1>4, <2>1, Zenon DEF OpToRel
  <2> QED BY <1>3, <2>6, <2>7, Zenon
<1> QED BY <1>6, <1>7

(* What From is at each place.                                                *)
LEMMA FromAt ==
  ASSUME Len(name) \in Nat
  PROVE  \A k \in 1..(Len(name) + 2) : From[k] = ReadAt(From, k)
<1>1. From = CHOOSE f : f = [k \in 1..(Len(name) + 2) |-> ReadAt(f, k)]
  BY Zenon DEF From, ReadAt
<1>2. From = [k \in 1..(Len(name) + 2) |-> ReadAt(From, k)]
  BY <1>1, FromExists, Zenon
<1> QED BY <1>2, Zenon

(* What From says depends on nothing that changes.                            *)
LEMMA FromStays == ASSUME UNCHANGED given PROVE From' = From /\ \A ch : Subst(ch)' = Subst(ch)
<1>1. Width' = Width
  BY Zenon DEF given, Width
<1>2. Slash(exe)' = Slash(exe)
  BY Zenon DEF given
<1>3. ExeTail' = ExeTail
  BY <1>2, Zenon DEF given, ExeTail
<1>4. ExePath' = ExePath
  BY Zenon DEF given, ExePath
<1>5. ASSUME NEW ch PROVE Subst(ch)' = Subst(ch)
  BY <1>1, <1>3, <1>4, Zenon DEF given, Subst
<1>6. From' = From
  BY <1>5, Zenon DEF given, From
<1> QED BY <1>5, <1>6, Zenon

-----------------------------------------------------------------------------
(* The characters of the buffer.                                              *)
Chars ==
  Letters \union Range(exe) \union Range(PidText) \union Range(Digit)
          \union {"/", "!", NUL, Blank}

(* What is in the buffer is of the name or of what is put in.                 *)
ContentInv ==
  /\ name \in Seq(Chars)
  /\ path \in [0..(size - 1) -> Chars]
  /\ state \in {"loop", "done", "too_long"}

(* Sequences of one and of two characters.                                    *)
LEMMA Short ==
  ASSUME NEW S, NEW x \in S, NEW y \in S
  PROVE  <<x>> \in Seq(S) /\ Len(<<x>>) = 1 /\ <<x, y>> \in Seq(S) /\ Len(<<x, y>>) = 2
OBVIOUS

(* A sequence of some of its own characters.                                  *)
LEMMA InSeq ==
  ASSUME NEW S, NEW s \in Seq(S), NEW C, Range(s) \subseteq C
  PROVE  s \in Seq(C)
<1>1. \A k \in 1..Len(s) : s[k] \in C
  BY DEF Range
<1> QED BY <1>1

(* All of a sequence.                                                         *)
LEMMA Whole == ASSUME NEW S, NEW s \in Seq(S) PROVE SubSeq(s, 1, Len(s)) = s
  OBVIOUS

(* One sequence after another.                                                *)
LEMMA ConcatIs ==
  ASSUME NEW S, NEW a \in Seq(S), NEW b \in Seq(S)
  PROVE  /\ a \o b \in Seq(S) /\ Len(a \o b) = Len(a) + Len(b)
         /\ \A k \in 1..Len(a) : (a \o b)[k] = a[k]
         /\ \A k \in 1..Len(b) : (a \o b)[Len(a) + k] = b[k]
         /\ a \o b = [k \in 1..(Len(a) + Len(b)) |-> (a \o b)[k]]
<1>1. /\ a \o b \in Seq(S) /\ Len(a \o b) = Len(a) + Len(b)
      /\ \A k \in 1..Len(a) : (a \o b)[k] = a[k]
      /\ \A k \in 1..Len(b) : (a \o b)[Len(a) + k] = b[k]
  OBVIOUS
<1>2. \A c \in Seq(S) : c = [k \in 1..Len(c) |-> c[k]]
  OBVIOUS
<1> QED BY <1>1, <1>2, Zenon

(* One element after another.                                                 *)
LEMMA OneAndOne == ASSUME NEW x, NEW y PROVE <<x>> \o <<y>> = <<x, y>>
<1> DEFINE S == {x, y}
           a == <<x>>
           b == <<y>>
           c == a \o b
<1>1. a \in Seq(S) /\ b \in Seq(S) /\ Len(a) = 1 /\ Len(b) = 1 /\ a[1] = x /\ b[1] = y
  OBVIOUS
<1> HIDE DEF a, b, S
<1>2. /\ c = [k \in 1..(Len(a) + Len(b)) |-> c[k]]
      /\ \A k \in 1..Len(a) : c[k] = a[k]
      /\ \A k \in 1..Len(b) : c[Len(a) + k] = b[k]
  <2>1. \A T : \A u, v \in Seq(T) :
          /\ u \o v = [k \in 1..(Len(u) + Len(v)) |-> (u \o v)[k]]
          /\ \A k \in 1..Len(u) : (u \o v)[k] = u[k]
          /\ \A k \in 1..Len(v) : (u \o v)[Len(u) + k] = v[k]
    BY ConcatIs
  <2>2. a \in Seq(S) /\ b \in Seq(S)
    BY <1>1
  <2> QED BY <2>1, <2>2
<1> HIDE DEF c
<1>3. c = [k \in 1..2 |-> c[k]] /\ c[1] = x /\ c[2] = y
  BY <1>1, <1>2
<1>4. c = <<x, y>>
  BY <1>3
<1> QED BY <1>4 DEF a, b, c

(* intlen gives the width for the whole sequence.                             *)
LEMMA WidthIs == ASSUME GivenInv PROVE Width = SeqLen
<1> DEFINE numbers == IF limit > 0 THEN 0..(limit - 1) ELSE {counter}
           top == IF limit > 0 THEN limit - 1 ELSE counter
           Enough(w) == \A n \in numbers : HasRoom(n, w)
           Least(w) == Enough(w) /\ \A v \in 1..(w - 1) : ~Enough(v)
<1>1. Width = CHOOSE w \in 1..10 : Least(w)
  BY Zenon DEF Width
<1>2. limit \in Int /\ limit <= MaxInt /\ counter \in 0..MaxInt
  BY IntMax DEF GivenInv
<1>3. top \in 0..MaxInt /\ top \in numbers /\ SeqLen = IntLen(top) /\ \A n \in numbers : n \in Int /\ n <= top
  BY <1>2, IntMax DEF SeqLen
<1> HIDE DEF numbers, top
<1>4. /\ SeqLen \in 1..10 /\ HasRoom(top, SeqLen)
      /\ \A v \in 1..10 : v < SeqLen => ~HasRoom(top, v)
  BY <1>3, IntLenIs
<1>5. \A w \in 1..10 : HasRoom(top, w) => Enough(w)
  <2>1. \A w \in 1..10 : w = 10 \/ Power[w + 1] \in Nat
    BY PowersGrow
  <2> QED
    BY <1>3, <2>1, IntMax DEF HasRoom
<1>6. \A w \in 1..10 : Enough(w) <=> HasRoom(top, w)
  BY <1>3, <1>5
<1> HIDE DEF Enough
<1>7. Least(SeqLen)
  BY <1>4, <1>6
<1>8. \A w \in 1..10 : Least(w) => w = SeqLen
  <2>1. ASSUME NEW w \in 1..10, Least(w), w < SeqLen PROVE FALSE
    BY <1>4, <1>6, <2>1
  <2>2. ASSUME NEW w \in 1..10, Least(w), SeqLen < w PROVE FALSE
    BY <1>4, <1>6, <2>2
  <2> QED
    BY <1>4, <2>1, <2>2
<1> HIDE DEF Least
<1> QED BY <1>1, <1>4, <1>7, <1>8, Zenon

(* The texts are made of the characters, and the number is not cut.           *)
LEMMA Texts ==
  ASSUME GivenInv
  PROVE  /\ PidText \in Seq(Chars) /\ SeqText \in Seq(Chars)
         /\ ExeTail \in Seq(Chars) /\ ExePath \in Seq(Chars)
         /\ SeqText = Wide(counter, Width)
<1>1. PidText \in Seq(Chars)
  <2>1. PidText \in Seq(STRING) /\ Range(PidText) \subseteq Chars
    BY ExpandAssumption DEF Chars
  <2> QED BY <2>1, InSeq, Zenon
<1>2. exe \in Seq(STRING) /\ \A k \in 1..Len(exe) : exe[k] \in Chars
  BY DEF GivenInv, Chars, Range
<1>3. ExeTail \in Seq(Chars)
  <2>1. Slash(exe) \in 0..Len(exe)
    BY <1>2, SlashIsPlace
  <2>2. exe \in Seq(Chars)
    BY <1>2
  <2> QED BY <2>1, <2>2 DEF ExeTail
<1>4. ExePath \in Seq(Chars)
  <2>1. "!" \in Chars
    BY DEF Chars
  <2> HIDE DEF Chars
  <2> QED BY <1>2, <2>1 DEF ExePath
<1>5. counter \in 0..MaxInt /\ SeqLen \in 1..10 /\ IntLen(counter) <= SeqLen /\ IntLen(counter) \in 1..10
  BY NumberFits DEF GivenInv
<1>6. \A k \in 1..SeqLen : Digit[((counter \div Power[SeqLen - k + 1]) % 10) + 1] \in Chars
  <2>1. \A m \in Int : m % 10 \in 0..9
    OBVIOUS
  <2>2. ASSUME NEW k \in 1..SeqLen
        PROVE  ((counter \div Power[SeqLen - k + 1]) % 10) + 1 \in 1..10
    <3>1. SeqLen - k + 1 \in 1..10
      BY <1>5
    <3>2. Power[SeqLen - k + 1] \in Nat \ {0}
      BY <3>1, PowersGrow
    <3>3. counter \div Power[SeqLen - k + 1] \in Int
      BY <1>5, <3>2
    <3> QED BY <2>1, <3>3
  <2>3. \A d \in 1..10 : Digit[d] \in Chars
    <3>1. DOMAIN Digit = 1..10
      BY DEF Digit
    <3> QED BY <3>1 DEF Chars, Range
  <2> QED BY <2>2, <2>3, Zenon
<1>7. Wide(counter, SeqLen) \in Seq(Chars) /\ Len(Wide(counter, SeqLen)) = SeqLen
  <2> DEFINE D(k) == Digit[((counter \div Power[SeqLen - k + 1]) % 10) + 1]
             W == [k \in 1..SeqLen |-> D(k)]
  <2>1. \A k \in 1..SeqLen : D(k) \in Chars
    BY <1>6, Zenon
  <2>2. W = Wide(counter, SeqLen)
    BY Zenon DEF Wide
  <2> HIDE DEF D
  <2>3. W \in Seq(Chars) /\ Len(W) = SeqLen
    BY <1>5, <2>1
  <2> QED BY <2>2, <2>3, Zenon
<1>8. SeqText = SubSeq(Wide(counter, SeqLen), 1, SeqLen)
  <2>1. (IF IntLen(counter) > SeqLen THEN IntLen(counter) ELSE SeqLen) = SeqLen
    BY <1>5
  <2> QED BY <2>1, Zenon DEF SeqText
<1>9. SeqText = Wide(counter, SeqLen)
  <2> DEFINE W == Wide(counter, SeqLen)
  <2>1. W \in Seq(Chars) /\ Len(W) = SeqLen /\ SeqText = SubSeq(W, 1, SeqLen)
    BY <1>7, <1>8, Zenon
  <2> HIDE DEF W
  <2>2. SubSeq(W, 1, Len(W)) = W
    BY <2>1, Whole, Zenon
  <2> QED BY <2>1, <2>2 DEF W
<1> QED BY <1>1, <1>3, <1>4, <1>7, <1>9, WidthIs, Zenon

-----------------------------------------------------------------------------
(* Escape characters come in pairs.                                           *)

(* The name with the byte that ends it.                                       *)
Source == name \o <<NUL>>

(* Exactly n escape characters end at place k of s.                           *)
RunAt(s, k, n) ==
  /\ n \in 0..k
  /\ \A m \in 0..(n - 1) : s[k - m] = ESC
  /\ n = k \/ s[k - n] # ESC

(* An odd number of them ends there.                                          *)
OddRun(s, k) == \E n \in 1..k : n % 2 = 1 /\ RunAt(s, k, n)

(* There is one such number, and one only.                                    *)
LEMMA OneRun ==
  ASSUME NEW s, NEW k \in Nat
  PROVE  /\ \E n \in 0..k : RunAt(s, k, n)
         /\ \A n, m \in 0..k : RunAt(s, k, n) /\ RunAt(s, k, m) => n = m
<1> DEFINE S == {n \in 0..k : n = k \/ s[k - n] # ESC}
<1>1. \E m \in S : \A n \in S : ~(<<n, m>> \in OpToRel(<, Nat))
  <2>1. S \subseteq Nat /\ S # {}
    <3>1. k \in S
      OBVIOUS
    <3> QED BY <3>1
  <2> HIDE DEF S
  <2> QED BY <2>1, NatLessThanWellFounded, WFMin, Zenon
<1>2. PICK m \in S : \A n \in S : ~(<<n, m>> \in OpToRel(<, Nat))
  BY <1>1, Zenon
<1>3. ASSUME NEW n \in 0..(m - 1) PROVE s[k - n] = ESC
  <2>1. m \in Nat /\ m \in 0..k /\ n \in Nat /\ n \in 0..k /\ n < m /\ n # k
    BY <1>3
  <2>2. <<n, m>> \in OpToRel(<, Nat)
    BY <2>1, Zenon DEF OpToRel
  <2>3. n \notin S
    BY <1>2, <2>2, Zenon
  <2> QED BY <2>1, <2>3
<1>4. RunAt(s, k, m)
  BY <1>2, <1>3 DEF RunAt
<1>5. ASSUME NEW a \in 0..k, NEW b \in 0..k, RunAt(s, k, a), RunAt(s, k, b), a < b PROVE FALSE
  <2>1. a # k /\ a \in 0..(b - 1)
    BY <1>5
  <2> QED BY <1>5, <2>1, Zenon DEF RunAt
<1> QED
  <2>1. ASSUME NEW a \in 0..k, NEW b \in 0..k, RunAt(s, k, a), RunAt(s, k, b) PROVE a = b
    <3>1. ~(a < b) /\ ~(b < a)
      BY <1>5, <2>1
    <3> QED BY <3>1
  <2> QED BY <1>4, <2>1

(* An odd number of them ends at k when k has one and the number of those     *)
(* before it is not odd.                                                      *)
LEMMA RunsPair ==
  ASSUME NEW s, NEW k \in Nat, k >= 2
  PROVE  OddRun(s, k) <=> s[k] = ESC /\ ~OddRun(s, k - 1)
<1>1. k - 1 \in Nat
  OBVIOUS
<1>2. ASSUME NEW n \in 0..(k - 1), RunAt(s, k - 1, n), s[k] = ESC PROVE RunAt(s, k, n + 1)
  <2>1. \A m \in 0..n : s[k - m] = ESC
    <3>1. ASSUME NEW m \in 0..n PROVE s[k - m] = ESC
      <4>1. CASE m = 0
        BY <1>2, <4>1
      <4>2. CASE m # 0
        <5>1. m - 1 \in 0..(n - 1) /\ (k - 1) - (m - 1) = k - m
          BY <4>2
        <5>2. s[(k - 1) - (m - 1)] = ESC
          BY <1>2, <5>1, Zenon DEF RunAt
        <5> QED BY <5>1, <5>2
      <4> QED BY <4>1, <4>2
    <3> QED BY <3>1
  <2>2. n = k - 1 \/ s[(k - 1) - n] # ESC
    BY <1>2, Zenon DEF RunAt
  <2>3. /\ n + 1 \in 0..k /\ (n + 1) - 1 = n /\ k - (n + 1) = (k - 1) - n
        /\ n = k - 1 => n + 1 = k
    OBVIOUS
  <2> QED BY <2>1, <2>2, <2>3 DEF RunAt
<1>3. PICK r \in 0..(k - 1) : RunAt(s, k - 1, r)
  BY <1>1, OneRun
<1>4. OddRun(s, k - 1) <=> r % 2 = 1
  <2>1. \A n \in 1..(k - 1) : RunAt(s, k - 1, n) => n = r
    <3>1. \A n \in 1..(k - 1) : n \in 0..(k - 1)
      OBVIOUS
    <3> QED BY <1>1, <1>3, <3>1, OneRun
  <2>2. r % 2 = 1 => r \in 1..(k - 1)
    OBVIOUS
  <2> QED BY <1>3, <2>1, <2>2 DEF OddRun
<1>5. CASE s[k] = ESC
  <2>1. RunAt(s, k, r + 1) /\ r + 1 \in 1..k /\ r + 1 \in 0..k
    BY <1>2, <1>3, <1>5
  <2>2. \A n \in 1..k : RunAt(s, k, n) => n = r + 1
    <3>1. \A n \in 1..k : n \in 0..k
      OBVIOUS
    <3> QED BY <2>1, <3>1, OneRun
  <2>3. OddRun(s, k) <=> (r + 1) % 2 = 1
    BY <2>1, <2>2 DEF OddRun
  <2>4. (r + 1) % 2 = 1 <=> ~(r % 2 = 1)
    OBVIOUS
  <2> QED BY <1>4, <1>5, <2>3, <2>4
<1>6. CASE s[k] # ESC
  <2>1. ASSUME NEW n \in 1..k, RunAt(s, k, n) PROVE FALSE
    <3>1. 0 \in 0..(n - 1) /\ k - 0 = k
      OBVIOUS
    <3> QED BY <1>6, <2>1, <3>1 DEF RunAt
  <2> QED BY <1>6, <2>1 DEF OddRun
<1> QED BY <1>5, <1>6

(* The test of the loop looks at the name, which is still there.              *)
LEMMA EscapeIsRun ==
  ASSUME SourceInv, state # "done", NEW k \in 0..i
  PROVE  IsEscape(k) <=> OddRun(Source, k + 1)
<1>1. \A m \in 0..i : path[m] = Source[m + 1]
  BY Zenon DEF SourceInv, SourceKept, Source
<1>2. k \in Nat /\ i \in Nat
  BY DEF SourceInv, PlaceInv, GivenInv
<1>3. ASSUME NEW n \in 1..(k + 1)
      PROVE  /\ (\A m \in 0..(n - 1) : path[k - m] = ESC)
                  <=> (\A m \in 0..(n - 1) : Source[(k + 1) - m] = ESC)
             /\ (n = k + 1 \/ path[k - n] # ESC) <=> (n = k + 1 \/ Source[(k + 1) - n] # ESC)
  <2>1. \A m \in 0..k : k - m \in 0..i /\ (k - m) + 1 = (k + 1) - m
    BY <1>2
  <2>2. \A m \in 0..k : path[k - m] = Source[(k + 1) - m]
    <3>1. ASSUME NEW m \in 0..k PROVE path[k - m] = Source[(k + 1) - m]
      <4>1. path[k - m] = Source[(k - m) + 1]
        BY <1>1, <2>1, Zenon
      <4> QED BY <2>1, <4>1
    <3> QED BY <3>1
  <2>3. (\A m \in 0..(n - 1) : m \in 0..k) /\ (n # k + 1 => n \in 0..k)
    BY <1>2
  <2> QED BY <2>2, <2>3, Zenon
<1>4. \A n \in 1..(k + 1) : n \in 0..(k + 1)
  BY <1>2
<1> QED BY <1>3, <1>4, Zenon DEF IsEscape, OddRun, RunAt

-----------------------------------------------------------------------------
(* What has been written.                                                     *)
Written == [k \in 1..(size - 1 - j) |-> path[j + k]]

(* No escape character that is still to be read belongs to one behind it.     *)
PairInv == state = "loop" /\ i < Len(name) => ~OddRun(Source, i + 1)

(* What has been written is what From says of the part of the name that has   *)
(* been read.                                                                 *)
WrittenInv ==
  /\ state = "loop" /\ i = Len(name) => j = size - 1
  /\ state = "loop" /\ i < Len(name) =>
       From[i + 2] \in Seq(Chars) /\ Written = From[i + 2] \o <<NUL>>
  /\ state = "done" => Result = From[1] \o <<NUL>>

(* All of it.                                                                 *)
IndInv ==
  SourceInv /\ ContentInv /\ PairInv /\ WrittenInv /\ RefusedForSize

(* s written in front of what has been written.                               *)
LEMMA WriteInFront ==
  ASSUME SourceInv, ContentInv, state = "loop", UNCHANGED given, NEW s \in Seq(Chars),
         path' = With(s, j - (Len(s) - 1)), j' = j - Len(s), j' \in 0..(size - 1)
  PROVE  path' \in [0..(size' - 1) -> Chars'] /\ Written' = s \o Written
<1>1. /\ DOMAIN path = 0..(size - 1) /\ path \in [0..(size - 1) -> Chars]
      /\ size \in Nat /\ j \in 0..(size - 1) /\ Len(s) \in Nat /\ size' = size
  BY DEF SourceInv, PlaceInv, GivenInv, ContentInv, given
<1>2. Chars' = Chars
  BY Zenon DEF Chars, given
<1> HIDE DEF Chars
<1>3. \A m \in 0..(size - 1) :
        path'[m] = IF m \in (j' + 1)..(j' + Len(s)) THEN s[m - j'] ELSE path[m]
  <2>1. j - (Len(s) - 1) = j' + 1 /\ j - (Len(s) - 1) + Len(s) - 1 = j' + Len(s)
    BY <1>1
  <2>2. \A m \in 0..(size - 1) : m - (j - (Len(s) - 1)) + 1 = m - j'
    BY <1>1
  <2> QED BY <1>1, <2>1, <2>2 DEF With
<1>4. path' \in [0..(size - 1) -> Chars]
  <2>1. DOMAIN path' = 0..(size - 1) /\ path' = [m \in 0..(size - 1) |-> path'[m]]
    BY <1>1 DEF With
  <2>2. ASSUME NEW m \in 0..(size - 1) PROVE path'[m] \in Chars
    <3>1. CASE m \in (j' + 1)..(j' + Len(s))
      <4>1. m - j' \in 1..Len(s)
        BY <1>1, <3>1
      <4> QED BY <1>3, <3>1, <4>1
    <3>2. CASE m \notin (j' + 1)..(j' + Len(s))
      BY <1>1, <1>3, <3>2
    <3> QED BY <3>1, <3>2
  <2> QED BY <2>1, <2>2
<1>5. Written \in Seq(Chars) /\ Len(Written) = size - 1 - j /\ size - 1 - j \in Nat
      /\ \A k \in 1..(size - 1 - j) : Written[k] = path[j + k]
  <2>1. \A k \in 1..(size - 1 - j) : j + k \in 0..(size - 1)
    BY <1>1
  <2>2. size - 1 - j \in Nat
    BY <1>1
  <2> QED BY <1>1, <2>1, <2>2 DEF Written
<1>6. /\ s \o Written \in Seq(Chars) /\ Len(s \o Written) = size - 1 - j'
      /\ \A k \in 1..Len(s) : (s \o Written)[k] = s[k]
      /\ \A k \in 1..(size - 1 - j) : (s \o Written)[Len(s) + k] = Written[k]
  <2>1. Len(s) + Len(Written) = size - 1 - j'
    BY <1>1, <1>5
  <2>2. /\ s \o Written \in Seq(Chars) /\ Len(s \o Written) = Len(s) + Len(Written)
        /\ \A k \in 1..Len(s) : (s \o Written)[k] = s[k]
        /\ \A k \in 1..Len(Written) : (s \o Written)[Len(s) + k] = Written[k]
    <3>1. Written \in Seq(Chars)
      BY <1>5
    <3> QED BY <3>1, ConcatIs
  <2> QED BY <1>5, <2>1, <2>2
<1>7. ASSUME NEW k \in 1..(size - 1 - j') PROVE path'[j' + k] = (s \o Written)[k]
  <2>1. j' + k \in 0..(size - 1)
    BY <1>1
  <2>2. CASE k <= Len(s)
    <3>1. k \in 1..Len(s) /\ j' + k \in (j' + 1)..(j' + Len(s)) /\ (j' + k) - j' = k
      BY <1>1, <2>2
    <3> QED BY <1>3, <1>6, <2>1, <3>1
  <2>3. CASE k > Len(s)
    <3>1. /\ j' + k \notin (j' + 1)..(j' + Len(s)) /\ k - Len(s) \in 1..(size - 1 - j)
          /\ Len(s) + (k - Len(s)) = k /\ j + (k - Len(s)) = j' + k
      BY <1>1, <2>3
    <3>2. path'[j' + k] = path[j' + k]
      BY <1>3, <2>1, <3>1
    <3>3. (s \o Written)[Len(s) + (k - Len(s))] = path[j + (k - Len(s))]
      BY <1>5, <1>6, <3>1, Zenon
    <3> QED BY <3>1, <3>2, <3>3
  <2>4. k <= Len(s) \/ k > Len(s)
    BY <1>1
  <2> QED BY <2>2, <2>3, <2>4
<1>8. Written' = [k \in 1..(size - 1 - j') |-> (s \o Written)[k]]
  BY <1>1, <1>7 DEF Written
<1>9. s \o Written = [k \in 1..(size - 1 - j') |-> (s \o Written)[k]]
  <2>1. Len(s) + Len(Written) = size - 1 - j'
    BY <1>1, <1>5
  <2>2. s \o Written = [k \in 1..(Len(s) + Len(Written)) |-> (s \o Written)[k]]
    BY <1>5, ConcatIs, Zenon
  <2> QED BY <2>1, <2>2
<1> QED BY <1>1, <1>2, <1>4, <1>8, <1>9

(* A turn that has put s for the end of the name it has read.                 *)
LEMMA TurnDone ==
  ASSUME IndInv, SourceInv', UNCHANGED <<given, state>>, state = "loop", NEW s \in Seq(Chars),
         path' = With(s, j - (Len(s) - 1)), j' = j - Len(s), i' < i,
         NEW e \in Seq(Chars), From[i' + 2] = e, s \o Written = e \o <<NUL>>,
         ~OddRun(Source, i' + 1)
  PROVE  IndInv'
<1>1. j' \in 0..(size - 1) /\ i \in 0..Len(name) /\ Len(name) \in Nat /\ i' \in Nat
  BY DEF IndInv, SourceInv, PlaceInv, GivenInv, given
<1>2. path' \in [0..(size' - 1) -> Chars'] /\ Written' = s \o Written
  BY <1>1, WriteInFront DEF IndInv
<1>3. From' = From /\ Chars' = Chars /\ Source' = Source /\ name' = name
  BY FromStays, Zenon DEF Chars, Source, given
<1>4. ContentInv'
  BY <1>2, <1>3, Zenon DEF IndInv, ContentInv
<1>5. PairInv'
  BY <1>3, Zenon DEF PairInv, OddRun
<1>6. i' < Len(name)
  BY <1>1
<1>7. WrittenInv'
  <2>1. state' = "loop" /\ i' # Len(name)
    BY <1>1, <1>6
  <2>2. From'[i' + 2] \in Seq(Chars') /\ Written' = From'[i' + 2] \o <<NUL>>
    BY <1>2, <1>3, Zenon
  <2>3. state' # "done"
    BY <2>1
  <2> QED BY <1>3, <2>1, <2>2, <2>3, Zenon DEF WrittenInv
<1>8. RefusedForSize'
  BY DEF RefusedForSize
<1> QED BY <1>4, <1>5, <1>7, <1>8, Zenon DEF IndInv

(* When the part behind place i is not empty, what is put for the character   *)
(* or the pair at i goes in front of what From says of that part.             *)
LEMMA InFrontOfRest ==
  ASSUME IndInv, state = "loop", i < Len(name), NEW s \in Seq(Chars)
  PROVE  s \o From[i + 2] \in Seq(Chars) /\ s \o Written = (s \o From[i + 2]) \o <<NUL>>
<1>1. From[i + 2] \in Seq(Chars) /\ Written = From[i + 2] \o <<NUL>>
  BY Zenon DEF IndInv, WrittenInv
<1>2. <<NUL>> \in Seq(Chars)
  BY DEF Chars
<1> DEFINE rest == From[i + 2]
<1>3. rest \in Seq(Chars) /\ Written = rest \o <<NUL>>
  BY <1>1
<1> HIDE DEF Chars, rest
<1>4. s \o rest \in Seq(Chars)
  BY <1>3, ConcatProperties, Zenon
<1>5. (s \o rest) \o <<NUL>> = s \o (rest \o <<NUL>>)
  BY <1>2, <1>3, ConcatAssociative
<1>6. s \o Written = (s \o rest) \o <<NUL>>
  BY <1>3, <1>5, Zenon
<1> QED BY <1>4, <1>6, Zenon DEF rest

(* What is at place i is a character.                                         *)
LEMMA CharAtPlace ==
  ASSUME IndInv PROVE j \in Int /\ path[i] \in Chars
<1>1. path \in [0..(size - 1) -> Chars]
  BY Zenon DEF IndInv, ContentInv
<1> HIDE DEF Chars
<1>2. j \in Int /\ i \in 0..(size - 1)
  BY DEF IndInv, SourceInv, PlaceInv, GivenInv
<1> QED BY <1>1, <1>2

(* Before anything has been read nothing has been written.                    *)
LEMMA NothingWritten ==
  ASSUME IndInv, state = "loop", i = Len(name)
  PROVE  /\ path[i] = NUL /\ From[i + 1] = <<>>
         /\ \A s \in Seq(Chars) : s \o Written = s
<1>1. Len(name) \in Nat /\ size \in Nat /\ j = size - 1 /\ name[1] = "/" /\ i >= 1
  BY DEF IndInv, SourceInv, GivenInv, WrittenInv
<1>2. path[i] = NUL
  <2>1. name \in Seq(Chars)
    BY DEF IndInv, ContentInv
  <2>2. path[i] = (name \o <<NUL>>)[i + 1]
    BY <1>1 DEF IndInv, SourceInv, SourceKept
  <2>3. (name \o <<NUL>>)[Len(name) + 1] = NUL
    <3> HIDE DEF Chars
    <3> QED BY <2>1
  <2> QED BY <2>2, <2>3
<1>3. From[i + 1] = <<>>
  <2>1. i + 1 \in 1..(Len(name) + 2) /\ i + 1 > Len(name)
    BY <1>1
  <2> QED BY <1>1, <2>1, FromAt, ReadAtCases, Zenon
<1>4. \A s \in Seq(Chars) : s \o Written = s
  <2>1. Written = <<>>
    <3>1. size - 1 - j = 0
      BY <1>1
    <3> QED BY <3>1 DEF Written
  <2> HIDE DEF Chars
  <2> QED BY <2>1
<1> QED BY <1>2, <1>3, <1>4, Zenon

(* What is at a place of the name that has not been read.                     *)
LEMMA AtPlace ==
  ASSUME IndInv, state = "loop"
  PROVE  /\ i \in 0..Len(name) /\ Len(name) \in Nat
         /\ i < Len(name) => path[i] = name[i + 1] /\ Source[i + 1] = name[i + 1]
         /\ i >= 1 => path[i - 1] = name[i] /\ Source[i] = name[i]
         /\ i >= 1 => (IsEscape(i - 1) <=> OddRun(Source, i))
<1>1. /\ i \in 0..Len(name) /\ Len(name) \in Nat
      /\ \A k \in 0..i : path[k] = (name \o <<NUL>>)[k + 1]
  BY DEF IndInv, SourceInv, PlaceInv, GivenInv, SourceKept
<1>2. \A k \in 1..Len(name) : (name \o <<NUL>>)[k] = name[k]
  <2>1. name \in Seq(Chars)
    BY Zenon DEF IndInv, ContentInv
  <2> HIDE DEF Chars
  <2> QED BY <2>1
<1>3. i < Len(name) => path[i] = name[i + 1] /\ Source[i + 1] = name[i + 1]
  <2>1. i < Len(name) => i + 1 \in 1..Len(name) /\ i \in 0..i
    BY <1>1
  <2> QED BY <1>1, <1>2, <2>1, Zenon DEF Source
<1>4. i >= 1 => path[i - 1] = name[i] /\ Source[i] = name[i]
  <2>1. i >= 1 => i \in 1..Len(name) /\ i - 1 \in 0..i /\ (i - 1) + 1 = i
    BY <1>1
  <2>2. i >= 1 => path[i - 1] = (name \o <<NUL>>)[(i - 1) + 1]
    BY <1>1, <2>1, Zenon
  <2> QED BY <1>2, <2>1, <2>2 DEF Source
<1>5. i >= 1 => (IsEscape(i - 1) <=> OddRun(Source, i))
  <2>1. i >= 1 => i - 1 \in 0..i /\ (i - 1) + 1 = i
    BY <1>1
  <2>2. state # "done" /\ SourceInv
    BY DEF IndInv
  <2>3. i >= 1 => (IsEscape(i - 1) <=> OddRun(Source, (i - 1) + 1))
    BY <2>1, <2>2, EscapeIsRun, Zenon
  <2> QED BY <2>1, <2>3
<1> QED BY <1>1, <1>3, <1>4, <1>5

-----------------------------------------------------------------------------
(* The turns of the loop.                                                     *)

(* A pair at i is not part of a longer one, and From begins with it.          *)
LEMMA PairAt ==
  ASSUME IndInv, Escaped
  PROVE  /\ i >= 2 /\ name[i] = ESC /\ ~OddRun(Source, i - 1)
         /\ i < Len(name) => From[i] = Subst(path[i]) \o From[i + 2]
         /\ i = Len(name) => From[i] = <<ESC>> \o From[i + 1]
<1>1. state = "loop" /\ i >= 1 /\ IsEscape(i - 1)
  BY DEF Escaped
<1>2. i >= 2
  BY EscapedIsInside DEF IndInv
<1>3. i \in 0..Len(name) /\ Len(name) \in Nat /\ OddRun(Source, i)
  BY <1>1, AtPlace
<1>4. Source[i] = ESC /\ ~OddRun(Source, i - 1)
  BY <1>2, <1>3, RunsPair
<1>5. name[i] = ESC
  BY <1>1, <1>4, AtPlace
<1>6. From[i] = ReadAt(From, i) /\ ~(i > Len(name))
  BY <1>2, <1>3, FromAt
<1>7. ASSUME i < Len(name) PROVE From[i] = Subst(path[i]) \o From[i + 2]
  <2>1. i # Len(name) /\ path[i] = name[i + 1]
    BY <1>1, <1>3, <1>7, AtPlace
  <2>2. ReadAt(From, i) = Subst(name[i + 1]) \o From[i + 2]
    BY <1>5, <1>6, <2>1, ReadAtCases, Zenon
  <2> QED BY <1>6, <2>1, <2>2, Zenon
<1>8. ASSUME i = Len(name) PROVE From[i] = <<ESC>> \o From[i + 1]
  <2>1. ReadAt(From, i) = <<name[i]>> \o From[i + 1]
    BY <1>6, <1>8, ReadAtCases, Zenon
  <2> QED BY <1>5, <1>6, <2>1, Zenon
<1> QED BY <1>2, <1>4, <1>5, <1>7, <1>8

(* A wild card is in the name, not at its end.                                *)
LEMMA InName ==
  ASSUME IndInv, state = "loop", path[i] # NUL
  PROVE  i < Len(name)
  BY AtPlace, NothingWritten

(* A pair has been replaced.                                                  *)
LEMMA PairTurn ==
  ASSUME IndInv, SourceInv', UNCHANGED <<given, state>>, Escaped, i < Len(name),
         NEW s \in Seq(Chars), s = Subst(path[i]),
         path' = With(s, j - (Len(s) - 1)), i' = i - 2, j' = j - Len(s)
  PROVE  IndInv'
<1>1. state = "loop"
  BY DEF Escaped
<1>2. i < Len(name) /\ i \in 0..Len(name) /\ Len(name) \in Nat
  BY <1>1, AtPlace
<1>3. i >= 2 /\ ~OddRun(Source, i - 1) /\ From[i] = s \o From[i + 2]
  BY <1>2, PairAt
<1>4. i' + 2 = i /\ i' + 1 = i - 1 /\ i' < i
  BY <1>2
<1>5. From[i] \in Seq(Chars) /\ s \o Written = From[i] \o <<NUL>>
  BY <1>1, <1>2, <1>3, InFrontOfRest, Zenon
<1> QED BY <1>1, <1>3, <1>4, <1>5, TurnDone

(* The name is refused for the size of one text.                              *)
LEMMA Refused ==
  ASSUME IndInv, SourceInv', UNCHANGED <<given, path, i, j>>, state' = "too_long",
         Escaped, i < Len(name), NEW s \in Seq(Chars), s = Subst(path[i]), j < i + Len(s) + 1
  PROVE  IndInv'
<1>1. state = "loop"
  BY DEF Escaped
<1>2. i < Len(name) /\ i \in 0..Len(name) /\ Len(name) \in Nat
  BY <1>1, AtPlace
<1>3. i >= 2 /\ From[i] = s \o From[i + 2]
  BY <1>2, PairAt
<1>4. From' = From /\ Chars' = Chars
  BY FromStays, Zenon DEF Chars, given
<1>5. size \in Nat /\ j \in 0..(size - 1) /\ size' = size /\ name' = name
  BY DEF IndInv, SourceInv, PlaceInv, GivenInv, given
<1>6. Len(From[i]) = Len(s) + Len(From[i + 2]) /\ Len(s) \in Nat /\ Len(From[i + 2]) \in Nat
      /\ size - 1 - j = Len(From[i + 2]) + 1
  <2>1. From[i + 2] \in Seq(Chars) /\ Written = From[i + 2] \o <<NUL>>
    BY <1>1, <1>2, Zenon DEF IndInv, WrittenInv
  <2>2. <<NUL>> \in Seq(Chars) /\ Len(<<NUL>>) = 1
    BY DEF Chars
  <2> HIDE DEF Chars
  <2>3. Len(Written) = Len(From[i + 2]) + 1
    BY <2>1, <2>2, ConcatIs
  <2>4. Len(Written) = size - 1 - j
    BY <1>5 DEF Written
  <2>5. Len(s \o From[i + 2]) = Len(s) + Len(From[i + 2])
    BY <2>1, ConcatIs
  <2>6. Len(s) \in Nat /\ Len(From[i + 2]) \in Nat
    BY <2>1
  <2> QED BY <1>3, <2>3, <2>4, <2>5, <2>6
<1>7. (i - 1) + Len(From[i]) + 1 + 3 > size /\ i \in 1..Len(name)
  <2>1. i \in 1..Len(name)
    BY <1>2, <1>3
  <2>2. \A a, b, c, d, e \in Int :
          /\ e - 1 - d = c + 1 /\ d < a + b + 1
          => (a - 1) + (b + c) + 1 + 3 > e
    OBVIOUS
  <2>3. i \in Int /\ Len(s) \in Int /\ Len(From[i + 2]) \in Int /\ j \in Int /\ size \in Int
    BY <1>2, <1>5, <1>6
  <2>4. (i - 1) + (Len(s) + Len(From[i + 2])) + 1 + 3 > size
    BY <1>6, <2>2, <2>3, Zenon
  <2> QED BY <1>6, <2>1, <2>4, Zenon
<1>8. RefusedForSize'
  BY <1>4, <1>5, <1>7 DEF RefusedForSize
<1>9. ContentInv'
  BY <1>4, <1>5 DEF IndInv, ContentInv
<1>10. PairInv' /\ WrittenInv'
  BY DEF PairInv, WrittenInv
<1> QED BY <1>8, <1>9, <1>10, Zenon DEF IndInv

(* A character that is not escaped has been copied.                           *)
LEMMA PlainTurn == ASSUME IndInv, SourceInv', Plain PROVE IndInv'
<1>1. /\ state = "loop" /\ i >= 1 /\ ~IsEscape(i - 1) /\ path' = With(<<path[i]>>, j)
      /\ i' = i - 1 /\ j' = j - 1 /\ UNCHANGED <<given, state>>
  BY DEF Plain
<1>2. /\ i \in 0..Len(name) /\ Len(name) \in Nat /\ ~OddRun(Source, i)
      /\ i < Len(name) => path[i] = name[i + 1] /\ Source[i + 1] = name[i + 1]
  BY <1>1, AtPlace
<1>3. j \in Int /\ path[i] \in Chars
  BY CharAtPlace, Zenon
<1> DEFINE s == <<path[i]>>
<1>4. s \in Seq(Chars) /\ Len(s) = 1
  <2> HIDE DEF Chars
  <2> QED BY <1>3, Short, Zenon
<1> HIDE DEF s
<1>5. /\ path' = With(s, j - (Len(s) - 1)) /\ j' = j - Len(s)
      /\ i' < i /\ i' + 1 = i /\ i' + 2 = i + 1
  <2>1. j - (Len(s) - 1) = j /\ j - Len(s) = j - 1
    BY <1>3, <1>4
  <2> QED BY <1>1, <1>2, <2>1 DEF s
<1>6. CASE i = Len(name)
  <2>1. path[i] = NUL /\ From[i + 1] = <<>> /\ s \o Written = s
    BY <1>1, <1>4, <1>6, NothingWritten, Zenon
  <2>2. From[i' + 2] = <<>> /\ <<>> \in Seq(Chars) /\ s \o Written = <<>> \o <<NUL>>
    <3> HIDE DEF Chars
    <3>1. <<>> \o <<NUL>> = <<NUL>>
      OBVIOUS
    <3> QED BY <1>5, <2>1, <3>1 DEF s
  <2> QED BY <1>1, <1>2, <1>4, <1>5, <2>2, TurnDone
<1>7. CASE i < Len(name)
  <2>1. ~OddRun(Source, i + 1)
    BY <1>1, <1>7, Zenon DEF IndInv, PairInv
  <2>2. name[i + 1] # ESC
    <3>1. i + 1 \in Nat /\ i + 1 >= 2 /\ (i + 1) - 1 = i
      BY <1>1, <1>2
    <3> QED BY <1>2, <1>7, <2>1, <3>1, RunsPair
  <2>3. From[i + 1] = s \o From[i + 2]
    <3>1. i + 1 \in 1..(Len(name) + 2) /\ ~(i + 1 > Len(name)) /\ (i + 1) + 1 = i + 2
      BY <1>2, <1>7
    <3>2. ReadAt(From, i + 1) = <<name[i + 1]>> \o From[(i + 1) + 1]
      BY <2>2, <3>1, ReadAtCases, Zenon
    <3>3. From[i + 1] = ReadAt(From, i + 1)
      BY <1>2, <3>1, FromAt, Zenon
    <3> QED BY <1>2, <1>7, <3>1, <3>2, <3>3 DEF s
  <2>4. From[i + 1] \in Seq(Chars) /\ s \o Written = From[i + 1] \o <<NUL>>
    BY <1>1, <1>4, <1>7, <2>3, InFrontOfRest, Zenon
  <2>5. From[i' + 2] = From[i + 1] /\ ~OddRun(Source, i' + 1)
    BY <1>2, <1>5
  <2> QED BY <1>1, <1>4, <1>5, <2>4, <2>5, TurnDone
<1> QED BY <1>2, <1>6, <1>7

(* An unknown wild card, or an escape character at the end of the name, has   *)
(* been copied.                                                               *)
LEMMA UnknownTurn == ASSUME IndInv, SourceInv', Unknown PROVE IndInv'
<1>1. /\ Escaped /\ path[i] \notin {ESC, "p", "Q", "e", "E"}
      /\ path' = With(<<ESC, path[i]>>, j - 1)
      /\ i' = i - 2 /\ j' = j - 2 /\ UNCHANGED <<given, state>>
  BY DEF Unknown
<1>2. state = "loop"
  BY <1>1 DEF Escaped
<1>3. i \in 0..Len(name) /\ Len(name) \in Nat
  BY <1>2, AtPlace
<1>4. j \in Int /\ path[i] \in Chars /\ ESC \in Chars
  BY CharAtPlace, ExpandAssumption DEF Chars
<1> DEFINE s == <<ESC, path[i]>>
<1>5. s \in Seq(Chars) /\ Len(s) = 2
  <2> HIDE DEF Chars
  <2> QED BY <1>4, Short, Zenon
<1> HIDE DEF s
<1>6. path' = With(s, j - (Len(s) - 1)) /\ j' = j - Len(s)
  <2>1. j - (Len(s) - 1) = j - 1 /\ j - Len(s) = j - 2
    BY <1>4, <1>5
  <2> QED BY <1>1, <2>1 DEF s
<1>7. CASE i < Len(name)
  <2>1. s = Subst(path[i])
    BY <1>1 DEF s, Subst
  <2> QED BY <1>1, <1>5, <1>6, <1>7, <2>1, PairTurn
<1>8. CASE i = Len(name)
  <2>1. path[i] = NUL /\ From[i + 1] = <<>> /\ s \o Written = s
    BY <1>2, <1>5, <1>8, NothingWritten, Zenon
  <2>2. i >= 2 /\ ~OddRun(Source, i - 1) /\ From[i] = <<ESC>> \o From[i + 1]
    BY <1>1, <1>8, PairAt
  <2>3. <<ESC>> \o <<>> = <<ESC>> /\ <<ESC>> \o <<NUL>> = <<ESC, NUL>>
    <3>1. <<ESC>> \in Seq({ESC, NUL})
      OBVIOUS
    <3>2. \A a \in Seq({ESC, NUL}) : a \o <<>> = a
      OBVIOUS
    <3> QED BY <3>1, <3>2, OneAndOne, Zenon
  <2>4. From[i] = <<ESC>> /\ <<ESC>> \in Seq(Chars) /\ s \o Written = <<ESC>> \o <<NUL>>
    <3> HIDE DEF Chars
    <3>1. <<ESC>> \in Seq(Chars)
      BY <1>4
    <3> QED BY <2>1, <2>2, <2>3, <3>1 DEF s
  <2>5. i' + 2 = i /\ i' + 1 = i - 1 /\ i' < i
    BY <1>1, <1>3
  <2> QED BY <1>1, <1>2, <1>5, <1>6, <2>2, <2>4, <2>5, TurnDone
<1> QED BY <1>3, <1>7, <1>8

(* The whole name is to be read, and nothing has been written.                *)
LEMMA IndStarts == ASSUME Init PROVE IndInv
<1>1. SourceInv /\ i = Len(name) /\ j = size - 1 /\ state = "loop"
  BY InitHolds DEF Init
<1>2. name \in Seq(Chars)
  <2>1. PICK n \in 0..MaxName : \E s \in [1..n -> Letters] : name = <<"/">> \o s
    BY Zenon DEF Init
  <2>2. PICK s \in [1..n -> Letters] : name = <<"/">> \o s
    BY <2>1
  <2>3. "/" \in Chars /\ Letters \subseteq Chars
    BY DEF Chars
  <2> HIDE DEF Chars
  <2>4. s \in Seq(Chars) /\ <<"/">> \in Seq(Chars)
    BY <2>2, <2>3, ExpandAssumption
  <2> QED BY <2>2, <2>4, ConcatIs, Zenon
<1>3. path \in [0..(size - 1) -> Chars]
  <2>1. NUL \in Chars /\ Blank \in Chars
    BY DEF Chars
  <2> HIDE DEF Chars
  <2> QED BY <1>2, <2>1 DEF Init
<1> QED BY <1>1, <1>2, <1>3 DEF IndInv, ContentInv, PairInv, WrittenInv, RefusedForSize

(* A text of the name, or of the executable, has been put in or refused.      *)
LEMMA TextTurn ==
  ASSUME IndInv, SourceInv', Escaped, path[i] # NUL, NEW s \in Seq(Chars), s = Subst(path[i]),
         PutText(s) \/ (Looked(s) \in {Len(s), Len(s) + 1} /\ PutName(s))
  PROVE  IndInv'
<1>1. i < Len(name)
  BY InName DEF Escaped
<1>2. Len(s) \in Nat /\ i \in Int /\ j \in Int
  BY DEF IndInv, SourceInv, PlaceInv, GivenInv
<1>3. CASE /\ path' = With(s, j - (Len(s) - 1))
           /\ i' = i - 2 /\ j' = j - Len(s)
           /\ UNCHANGED <<given, state>>
  BY <1>1, <1>3, PairTurn
<1>4. CASE TooLong /\ j < i + Len(s) + 1
  BY <1>1, <1>4, Refused DEF TooLong
<1>5. CASE PutText(s)
  BY <1>2, <1>3, <1>4, <1>5 DEF PutText, TextFits
<1>6. CASE Looked(s) \in {Len(s), Len(s) + 1} /\ PutName(s)
  BY <1>2, <1>3, <1>4, <1>6 DEF PutName, NameFits
<1> QED BY <1>5, <1>6

(* The leading slash has been written in front of the rest of the name.       *)
LEMMA FinishTurn == ASSUME IndInv, SourceInv', Finish PROVE IndInv'
<1>1. /\ state = "loop" /\ i < 1 /\ path' = With(<<"/">>, j) /\ state' = "done"
      /\ UNCHANGED <<given, i, j>>
  BY DEF Finish
<1>2. /\ i = 0 /\ Len(name) \in Nat /\ Len(name) >= 1 /\ name[1] = "/"
      /\ size \in Nat /\ j \in 0..(size - 1) /\ DOMAIN path = 0..(size - 1)
      /\ path \in [0..(size - 1) -> Chars]
  BY <1>1 DEF IndInv, SourceInv, PlaceInv, GivenInv, ContentInv
<1>3. From' = From /\ Chars' = Chars /\ size' = size /\ name' = name /\ j' = j
  BY <1>1, FromStays, Zenon DEF Chars, given
<1>4. "/" \in Chars
  BY DEF Chars
<1> HIDE DEF Chars
<1>5. path' \in [0..(size - 1) -> Chars] /\ path'[j] = "/"
      /\ \A m \in 0..(size - 1) : m # j => path'[m] = path[m]
  <2>1. Len(<<"/">>) = 1 /\ <<"/">>[1] = "/" /\ j - j + 1 = 1
    BY <1>2
  <2>2. \A m \in 0..(size - 1) : m \in j..(j + 1 - 1) <=> m = j
    BY <1>2
  <2> QED BY <1>1, <1>2, <1>4, <2>1, <2>2 DEF With
<1>6. ContentInv'
  BY <1>1, <1>3, <1>5 DEF IndInv, ContentInv
<1>7. From[2] \in Seq(Chars) /\ Written = From[2] \o <<NUL>>
  <2>1. i < Len(name) /\ i + 2 = 2
    BY <1>2
  <2> QED BY <1>1, <2>1 DEF IndInv, WrittenInv
<1>8. From[1] = <<"/">> \o From[2]
  <2>1. 1 \in 1..(Len(name) + 2) /\ ~(1 > Len(name)) /\ 1 + 1 = 2 /\ name[1] # ESC
    BY <1>2 DEF ESC
  <2>2. From[1] = ReadAt(From, 1)
    BY <1>2, <2>1, FromAt, Zenon
  <2>3. ReadAt(From, 1) = <<name[1]>> \o From[1 + 1]
    BY <2>1, ReadAtCases, Zenon
  <2> QED BY <1>2, <2>1, <2>2, <2>3
<1>9. <<"/">> \o Written = From[1] \o <<NUL>>
  <2>1. <<"/">> \in Seq(Chars)
    BY <1>4
  <2>2. i < Len(name) /\ i + 2 = 2
    BY <1>2
  <2>3. <<"/">> \o Written = (<<"/">> \o From[i + 2]) \o <<NUL>>
    BY <1>1, <2>1, <2>2, InFrontOfRest, Zenon
  <2> QED BY <1>8, <2>2, <2>3, Zenon
<1>10. Result' = <<"/">> \o Written
  <2> DEFINE a == <<"/">>
             r == a \o Written
             n == size - j
  <2>1. Written \in Seq(Chars) /\ Len(Written) = n - 1 /\ n \in Nat /\ n >= 1
        /\ \A k \in 1..(n - 1) : Written[k] = path[j + k]
    <3>1. \A k \in 1..(size - 1 - j) : j + k \in 0..(size - 1)
      BY <1>2
    <3>2. size - 1 - j \in Nat /\ size - 1 - j = (size - j) - 1
      BY <1>2
    <3> QED BY <1>2, <3>1, <3>2 DEF Written
  <2>2. a \in Seq(Chars) /\ Len(a) = 1 /\ a[1] = "/"
    BY <1>4
  <2> HIDE DEF a
  <2>3. /\ r = [k \in 1..(Len(a) + Len(Written)) |-> r[k]]
        /\ \A k \in 1..Len(a) : r[k] = a[k]
        /\ \A k \in 1..Len(Written) : r[Len(a) + k] = Written[k]
    <3>1. Written \in Seq(Chars)
      BY <2>1
    <3>2. a \in Seq(Chars)
      BY <2>2
    <3> QED BY ONLY <3>1, <3>2, ConcatIs
  <2> HIDE DEF r
  <2>4. r = [k \in 1..n |-> r[k]] /\ r[1] = "/" /\ \A k \in 1..(n - 1) : r[1 + k] = path[j + k]
    <3>1. Len(a) = 1 /\ Len(Written) = n - 1 /\ 1 + (n - 1) = n /\ 1 \in 1..1 /\ a[1] = "/"
      BY <2>1, <2>2
    <3>2. r = [k \in 1..n |-> r[k]]
      BY <2>3, <3>1
    <3>3. r[1] = "/"
      BY <2>3, <3>1
    <3>4. \A k \in 1..(n - 1) : r[1 + k] = path[j + k]
      BY <2>1, <2>3, <3>1, Zenon
    <3> QED BY <3>2, <3>3, <3>4
  <2>5. ASSUME NEW k \in 1..n PROVE path'[j + k - 1] = r[k]
    <3>1. CASE k = 1
      <4>1. j + k - 1 = j
        BY <1>2, <3>1
      <4> QED BY <1>5, <2>4, <3>1, <4>1
    <3>2. CASE k # 1
      <4>1. k - 1 \in 1..(n - 1) /\ 1 + (k - 1) = k /\ j + (k - 1) = j + k - 1
            /\ j + k - 1 \in 0..(size - 1) /\ j + k - 1 # j
        BY <1>2, <2>1, <3>2
      <4>2. path'[j + k - 1] = path[j + k - 1]
        BY <1>5, <4>1, Zenon
      <4>3. r[1 + (k - 1)] = path[j + (k - 1)]
        BY <2>4, <4>1, Zenon
      <4> QED BY <4>1, <4>2, <4>3
    <3> QED BY <3>1, <3>2
  <2>6. Result' = [k \in 1..n |-> path'[j + k - 1]]
    BY <1>3, Zenon DEF Result
  <2>7. Result' = r
    BY <2>4, <2>5, <2>6
  <2> QED BY <2>7 DEF r, a
<1>11. WrittenInv'
  BY <1>1, <1>3, <1>9, <1>10 DEF WrittenInv
<1>12. PairInv' /\ RefusedForSize'
  BY <1>1 DEF PairInv, RefusedForSize
<1> QED BY <1>6, <1>11, <1>12, Zenon DEF IndInv

(* Each turn of the loop.                                                     *)
LEMMA IndStep == ASSUME IndInv, [Next]_vars PROVE IndInv'
<1>1. SourceInv'
  BY SourceStep DEF IndInv
<1>2. GivenInv
  BY DEF IndInv, SourceInv
<1>3. CASE Plain
  BY <1>1, <1>3, PlainTurn
<1>4. CASE EscapedEscape
  <2>1. /\ Escaped /\ path[i] = ESC /\ path[i] # NUL /\ path' = With(<<ESC>>, j)
        /\ i' = i - 2 /\ j' = j - 1 /\ UNCHANGED <<given, state>>
    BY <1>4 DEF EscapedEscape, ESC, NUL
  <2>2. i < Len(name)
    BY <2>1, InName DEF Escaped
  <2>3. ESC \in Chars /\ j \in Int
    BY ExpandAssumption DEF Chars, IndInv, SourceInv, PlaceInv
  <2> DEFINE s == <<ESC>>
  <2>4. s \in Seq(Chars) /\ Len(s) = 1
    <3> HIDE DEF Chars
    <3> QED BY <2>3
  <2>5. s = Subst(path[i])
    BY <2>1 DEF Subst, ESC
  <2>6. path' = With(s, j) /\ j - (Len(s) - 1) = j /\ j - Len(s) = j - 1
    BY <2>1, <2>3, <2>4
  <2> HIDE DEF s
  <2> QED BY <1>1, <2>1, <2>2, <2>4, <2>5, <2>6, PairTurn
<1>5. CASE Unknown
  BY <1>1, <1>5, UnknownTurn
<1>6. CASE Pid
  <2>1. Escaped /\ path[i] # NUL /\ PutText(PidText) /\ PidText = Subst(path[i])
    BY <1>6 DEF Pid, ESC, NUL, Subst
  <2> QED BY <1>1, <1>2, <2>1, Texts, TextTurn
<1>7. CASE Number
  <2>1. Escaped /\ path[i] # NUL /\ PutText(SeqText) /\ Wide(counter, Width) = Subst(path[i])
    BY <1>7 DEF Number, ESC, NUL, Subst
  <2> QED BY <1>1, <1>2, <2>1, Texts, TextTurn
<1>8. CASE Executable
  <2>1. Escaped /\ path[i] # NUL /\ PutName(ExeTail) /\ ExeTail = Subst(path[i])
    BY <1>8 DEF Executable, ESC, NUL, Subst
  <2> QED BY <1>1, <1>2, <2>1, Texts, TextLengths, TextTurn
<1>9. CASE Pathname
  <2>1. Escaped /\ path[i] # NUL /\ PutName(ExePath) /\ ExePath = Subst(path[i])
    BY <1>9 DEF Pathname, ESC, NUL, Subst
  <2> QED BY <1>1, <1>2, <2>1, Texts, TextLengths, TextTurn
<1>10. CASE Finish
  BY <1>1, <1>10, FinishTurn
<1>11. CASE UNCHANGED vars
  <2>1. UNCHANGED <<given, path, i, j, state>>
    BY <1>11, Zenon DEF vars
  <2>2. From' = From /\ Chars' = Chars /\ Source' = Source
    BY <2>1, FromStays, Zenon DEF Chars, Source, given
  <2>3. ContentInv'
    BY <2>1, <2>2, Zenon DEF IndInv, ContentInv, given
  <2>4. PairInv'
    BY <2>1, <2>2, Zenon DEF IndInv, PairInv, OddRun, given
  <2>5. WrittenInv'
    BY <2>1, <2>2, Zenon DEF IndInv, WrittenInv, Written, Result, given
  <2>6. RefusedForSize'
    BY <2>1, <2>2, Zenon DEF IndInv, RefusedForSize, given
  <2> QED BY <1>1, <2>3, <2>4, <2>5, <2>6, Zenon DEF IndInv
<1> QED BY <1>3, <1>4, <1>5, <1>6, <1>7, <1>8, <1>9, <1>10, <1>11 DEF Next

-----------------------------------------------------------------------------
(* main.c:282-336: in a buffer of any size, with any name and any texts for   *)
(* its wild cards, no turn of the loop writes over a character that has still *)
(* to be read.                                                                *)
THEOREM NeverCatchesUp == Spec => []SourceKept
<1>1. Init => SourceInv
  BY InitHolds
<1>2. SourceInv /\ [Next]_vars => SourceInv'
  BY SourceStep
<1>3. SourceInv => SourceKept
  BY DEF SourceInv
<1> QED
  BY <1>1, <1>2, <1>3, PTL DEF Spec

(* What has been written is right, and what has not been read is untouched, in *)
(* every state of the expansion.                                              *)
THEOREM Invariance == Spec => []IndInv
<1>1. Init => IndInv
  BY IndStarts
<1>2. IndInv /\ [Next]_vars => IndInv'
  BY IndStep
<1> QED
  BY <1>1, <1>2, PTL DEF Spec

(* main.c:282-336: the places stay in the buffer, and nothing gets into the   *)
(* buffer but characters of the name and of the texts.                        *)
THEOREM TypeCorrect == Spec => []TypeOK
<1>1. IndInv => TypeOK
  BY DEF IndInv, SourceInv, PlaceInv, ContentInv, Chars, TypeOK
<1> QED
  BY <1>1, Invariance, PTL

(* main.c:282-336: the expansion from the right, which counts escape          *)
(* characters, is what reading the name from the left gives; and @Q is as     *)
(* wide as the last number below the limit needs (main.c:122-126, 280), for   *)
(* every limit and number that an int can have.                               *)
THEOREM ExpandsRight == Spec => []Expands
<1>1. IndInv => Expands
  BY Zenon DEF IndInv, WrittenInv, Expands
<1> QED
  BY <1>1, Invariance, PTL

(* main.c:291-331: a name is refused only when it does not fit.               *)
THEOREM RefusedOnlyForSize == Spec => []RefusedForSize
<1>1. IndInv => RefusedForSize
  BY DEF IndInv
<1> QED
  BY <1>1, Invariance, PTL
=============================================================================
