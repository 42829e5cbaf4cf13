-------------------------- MODULE OpenOutputProofs --------------------------
(* Proofs about OpenOutput: for any number of runs, any limit and any files   *)
(* from before, O_EXCL keeps the runs apart, the numbers are used in order,   *)
(* a run gives up only for a reason, and no data in a file is lost.           *)
EXTENDS OpenOutput, TLAPS, FiniteSetTheorems, SequenceTheorems

(* What the variables range over.                                             *)
Labels == {"open", "mkdir", "write"} \union Stopped
Opened == {"write", "done"}
Blocks == Runs \union {OldData, Hole}
Reasons == {"", "limit", "noent", "open", "mkdir"}

(* The kinds of the variables; counter, pos and left without their bounds.    *)
Types ==
  /\ conf \in [exists : Modes, seq : Int, mkdir : BOOLEAN, mark : Marks]
  /\ DOMAIN files \subseteq Nat
  /\ \A n \in DOMAIN files : files[n] \in Seq(Blocks)
  /\ pc \in [Runs -> Labels] /\ counter \in [Runs -> Nat] /\ mkdir \in [Runs -> BOOLEAN]
  /\ at \in [Runs -> 1..2] /\ name \in [Runs -> Int] /\ pos \in [Runs -> Nat]
  /\ left \in [Runs -> Int] /\ why \in [Runs -> Reasons]

(* With O_EXCL a file has one writer, who knows its end.                      *)
WriterInv ==
  /\ \A r \in Runs : pc[r] \in {"open", "mkdir"} => pos[r] = 0
  /\ \A r \in Runs : pc[r] \in Opened => name[r] \in DOMAIN files
  /\ Excl => \A r \in Runs : pc[r] \in Opened =>
       /\ files[name[r]] \in Seq({r}) /\ Len(files[name[r]]) = pos[r]
       /\ \A q \in Runs : pc[q] \in Opened /\ name[q] = name[r] => q = r

(* A number is tried only after all before it, which are there.               *)
NumberInv ==
  /\ \A r \in Runs : conf.seq > 0 => counter[r] < conf.seq
  /\ Numbered => \A r \in Runs : 0..(counter[r] - 1) \subseteq DOMAIN files
  /\ conf.exists = "sequence" =>
       \E n \in Nat :
         /\ DOMAIN files = 0..(n - 1)
         /\ conf.seq > 0 => n <= (IF Old > conf.seq THEN Old ELSE conf.seq)
         /\ conf.mark = "none" => n <= 1

(* mkdir is used up by a leading path that was made, of this or an earlier    *)
(* number.                                                                    *)
PathInv ==
  /\ GivesUpHonestly
  /\ \A r \in Runs : conf.mkdir /\ ~mkdir[r] => \E c \in 0..counter[r] : SubOf(c) \in dirs

(* A run has no number before it opens a file, and a refused one stays so.    *)
NameInv ==
  \A r \in Runs :
    /\ pc[r] \in {"open", "mkdir"} => name[r] = NoName
    /\ why[r] = "limit" => pc[r] = "failed" /\ name[r] = NoName

(* All of it.                                                                 *)
IndInv == Types /\ WriterInv /\ NumberInv /\ PathInv /\ NameInv

-----------------------------------------------------------------------------
(* write() leaves blocks in the file.                                         *)
LEMMA PutTypes ==
  ASSUME NEW s \in Seq(Blocks), NEW b \in Runs, NEW p \in Nat
  PROVE  Put(s, b, p) \in Seq(Blocks)
<1> DEFINE q == IF conf.exists = "append" THEN Len(s) ELSE p
           n == IF q + 1 > Len(s) THEN q + 1 ELSE Len(s)
           e(i) == IF i = q + 1 THEN b ELSE IF i <= Len(s) THEN s[i] ELSE Hole
<1>1. q \in Nat /\ n \in Nat
  OBVIOUS
<1>2. \A i \in 1..n : e(i) \in Blocks
  BY <1>1 DEF Blocks
<1>3. Put(s, b, p) = [i \in 1..n |-> e(i)]
  BY DEF Put
<1> HIDE DEF e, n, q
<1> QED
  BY <1>1, <1>2, <1>3

(* At the end of the file it appends, which O_APPEND sees to.                 *)
LEMMA PutAtEnd ==
  ASSUME NEW S, NEW s \in Seq(S), NEW b \in S, NEW p \in Nat, conf.exists = "append" \/ p = Len(s)
  PROVE  /\ Put(s, b, p) \in Seq(S) /\ Len(Put(s, b, p)) = Len(s) + 1
         /\ IsPrefix(s, Put(s, b, p)) /\ Put(s, b, p) = Append(s, b)
<1> DEFINE n == Len(s) + 1
           t == Put(s, b, p)
<1>1. Len(s) \in Nat /\ \A i \in 1..Len(s) : s[i] \in S
  BY ElementOfSeq
<1>2. t = [i \in 1..n |-> IF i = n THEN b ELSE IF i <= Len(s) THEN s[i] ELSE Hole]
  BY <1>1 DEF Put
<1>3. t \in Seq(S) /\ Len(t) = n /\ t[n] = b /\ \A i \in 1..Len(s) : t[i] = s[i]
  <2> DEFINE e(i) == IF i = n THEN b ELSE IF i <= Len(s) THEN s[i] ELSE Hole
  <2>1. \A i \in 1..n : e(i) \in S
    BY <1>1
  <2>2. \A i \in 1..Len(s) : e(i) = s[i]
    BY <1>1
  <2>3. n \in Nat /\ (\A i \in 1..Len(s) : i \in 1..n) /\ t = [i \in 1..n |-> e(i)]
    BY <1>1, <1>2
  <2>4. n \in 1..n /\ e(n) = b
    BY <1>1
  <2> HIDE DEF e, n, t
  <2> QED
    BY <2>1, <2>2, <2>3, <2>4
<1> HIDE DEF t
<1>4. SubSeq(s, 1, Len(s)) = s
  BY SubSeqFull
<1>5. /\ SubSeq(t, 1, Len(s)) \in Seq(S) /\ Len(SubSeq(t, 1, Len(s))) = Len(s)
      /\ \A i \in 1..Len(s) : SubSeq(t, 1, Len(s))[i] = s[i]
  <2>1. \A i \in 1..Len(s) : t[i] \in S /\ 1 + i - 1 = i /\ i \in 1..(Len(s) - 1 + 1)
    BY <1>1, <1>3
  <2>2. /\ SubSeq(t, 1, Len(s)) \in Seq(S)
        /\ Len(SubSeq(t, 1, Len(s))) = IF 1 <= Len(s) THEN Len(s) - 1 + 1 ELSE 0
        /\ \A i \in 1..(Len(s) - 1 + 1) : SubSeq(t, 1, Len(s))[i] = t[1 + i - 1]
    BY <1>1, <2>1, SubSeqProperties
  <2> QED
    BY <1>1, <1>3, <2>1, <2>2
<1>6. SubSeq(t, 1, Len(s)) = s
  BY <1>5, SeqEqual
<1>7. Len(s) <= Len(t)
  BY <1>1, <1>3
<1>8. IsPrefix(s, t)
  BY <1>4, <1>6, <1>7, Zenon DEF IsPrefix
<1>9. /\ Append(s, b) \in Seq(S) /\ Len(Append(s, b)) = n /\ Append(s, b)[n] = b
      /\ \A i \in 1..Len(s) : Append(s, b)[i] = s[i]
  BY <1>1
<1>10. t = Append(s, b)
  <2>1. \A i \in 1..n : i = n \/ i \in 1..Len(s)
    BY <1>1
  <2>2. \A i \in 1..Len(t) : t[i] = Append(s, b)[i]
    BY <1>3, <1>9, <2>1
  <2> QED
    BY <1>3, <1>9, <2>2, SeqEqual
<1> QED
  BY <1>3, <1>8, <1>10 DEF t

(* A file that is left alone keeps its data.                                  *)
LEMMA SameKeeps == ASSUME NEW s, Len(s) \in Nat PROVE IsPrefix(s, s)
BY DEF IsPrefix

(* A number stands for a file and a directory that are numbers.               *)
LEMMA FileIsNumber ==
  ASSUME Types, NEW r \in Runs PROVE FileOf(counter[r]) \in Nat /\ counter[r] \in Nat
BY DEF Types, FileOf

-----------------------------------------------------------------------------
(* The types.                                                                 *)
LEMMA TypesStep ==
  ASSUME Types, WriterInv, [Next]_vars PROVE Types'
<1> USE DEF Labels, Stopped
<1>1. ASSUME NEW r \in Runs, OpenNew(r) PROVE Types'
  <2>1. FileOf(counter[r]) \in Nat
    BY FileIsNumber
  <2>2. <<>> \in Seq(Blocks)
    OBVIOUS
  <2>3. \A n \in DOMAIN files' : files'[n] \in Seq(Blocks)
    BY <1>1, <2>2 DEF OpenNew, Types
  <2> QED
    BY <1>1, <2>1, <2>3 DEF OpenNew, SetName, Goto, locals, Types
<1>2. ASSUME NEW r \in Runs, OpenOld(r) PROVE Types'
  <2>1. FileOf(counter[r]) \in Nat
    BY FileIsNumber
  <2>2. <<>> \in Seq(Blocks)
    OBVIOUS
  <2>3. DOMAIN files' = DOMAIN files /\ \A n \in DOMAIN files' : files'[n] \in Seq(Blocks)
    BY <1>2, <2>2 DEF OpenOld, Types
  <2> QED
    BY <1>2, <2>1, <2>3 DEF OpenOld, SetName, Goto, locals, Types
<1>3. ASSUME NEW r \in Runs, KeepOld(r) PROVE Types'
  BY <1>3, FileIsNumber DEF KeepOld, SetName, Goto, locals, Types
<1>4. ASSUME NEW r \in Runs, NextNumber(r) PROVE Types'
  BY <1>4, RunsAssumption DEF NextNumber, Types
<1>5. ASSUME NEW r \in Runs, NEW w \in {"limit", "noent", "open", "mkdir"}, Fails(r, w)
      PROVE  Types'
  <2>1. w \in Reasons
    BY <1>5, Zenon DEF Reasons
  <2> QED
    BY <1>5, <2>1 DEF Fails, Goto, locals, Types
<1>6. ASSUME NEW r \in Runs, MakePath(r) PROVE Types'
  BY <1>6 DEF MakePath, Goto, Types
<1>7. ASSUME NEW r \in Runs, MakeDir(r) PROVE Types'
  <2>1. \A d : Len(<<Top, d>>) = 2
    OBVIOUS
  <2>2. Len(Leading(counter[r])) = 2
    BY <2>1, Zenon DEF Leading
  <2>3. \/ at[r] < 2 /\ at' = [at EXCEPT ![r] = @ + 1] /\ UNCHANGED <<pc, mkdir>>
        \/ /\ mkdir' = [mkdir EXCEPT ![r] = FALSE] /\ pc' = [pc EXCEPT ![r] = "open"]
           /\ UNCHANGED at
    BY <1>7, <2>2 DEF MakeDir, Goto
  <2>4. at' \in [Runs -> 1..2] /\ mkdir' \in [Runs -> BOOLEAN] /\ pc' \in [Runs -> Labels]
    <3>1. /\ at \in [Runs -> 1..2] /\ at[r] \in 1..2 /\ mkdir \in [Runs -> BOOLEAN]
          /\ pc \in [Runs -> Labels]
      BY DEF Types
    <3>2. CASE UNCHANGED at
      BY <2>3, <3>1, <3>2
    <3>3. CASE at[r] < 2 /\ at' = [at EXCEPT ![r] = @ + 1] /\ UNCHANGED <<pc, mkdir>>
      <4>1. at[r] + 1 \in 1..2
        BY <3>1, <3>3
      <4> QED
        BY <3>1, <3>3, <4>1
    <3> QED
      BY <2>3, <3>2, <3>3
  <2>5. UNCHANGED <<conf, files, counter, name, pos, left, why>>
    BY <1>7 DEF MakeDir
  <2> QED
    BY <2>4, <2>5 DEF Types
<1>8. ASSUME NEW r \in Runs, Write(r) PROVE Types'
  <2>1. name[r] \in DOMAIN files /\ files[name[r]] \in Seq(Blocks) /\ pos[r] \in Nat
    BY <1>8 DEF Write, Types, WriterInv, Opened
  <2>2. Put(files[name[r]], r, pos[r]) \in Seq(Blocks)
    BY <2>1, PutTypes
  <2>3. DOMAIN files' = DOMAIN files /\ \A n \in DOMAIN files' : files'[n] \in Seq(Blocks)
    BY <1>8, <2>1, <2>2 DEF Write, Types
  <2> QED
    BY <1>8, <2>3 DEF Write, locals, Types
<1>9. ASSUME NEW r \in Runs, Finish(r) \/ Killed(r) PROVE Types'
  BY <1>9 DEF Finish, Killed, Goto, locals, Types
<1>10. CASE UNCHANGED vars
  BY <1>10 DEF vars, locals, Types
<1> QED
  BY <1>1, <1>2, <1>3, <1>4, <1>5, <1>6, <1>7, <1>8, <1>9, <1>10
  DEF Next, Step, Fault, Terminated, LimitReached, NoPath, OpenError, MakeDirError

(* A run that opens with O_EXCL is alone in its file, and writes at its end.  *)
LEMMA WriterStep ==
  ASSUME Types, WriterInv, [Next]_vars PROVE WriterInv'
<1> USE DEF Opened
<1>0. conf' = conf /\ (Excl' <=> Excl)
  BY DEF Next, Step, Fault, Terminated, LimitReached, NoPath, OpenError, MakeDirError, Fails, OpenNew,
         OpenOld, KeepOld, NextNumber, MakePath, MakeDir, Write, Finish, Killed, vars, Excl
<1>1. ASSUME NEW r \in Runs, OpenNew(r) PROVE WriterInv'
  <2> DEFINE f == FileOf(counter[r])
  <2>1. /\ f \notin DOMAIN files /\ f \in DOMAIN files' /\ files'[f] = <<>>
        /\ \A n \in DOMAIN files : n \in DOMAIN files' /\ files'[n] = files[n]
        /\ name'[r] = f /\ pos' = pos /\ pos[r] = 0
        /\ \A q \in Runs \ {r} : name'[q] = name[q] /\ pc'[q] = pc[q]
        /\ pc'[r] = "write"
    BY <1>1 DEF OpenNew, There, SetName, Goto, Types, WriterInv
  <2>2. <<>> \in Seq({r}) /\ Len(<<>>) = 0
    OBVIOUS
  <2> HIDE DEF f
  <2>3. \A q \in Runs : pc'[q] \in {"open", "mkdir"} => pos'[q] = 0
    BY <2>1 DEF WriterInv
  <2>4. \A q \in Runs : pc'[q] \in Opened => name'[q] \in DOMAIN files'
    BY <2>1 DEF WriterInv
  <2>5. \A q \in Runs \ {r} : pc'[q] \in Opened => name'[q] # f
    BY <2>1 DEF WriterInv
  <2>6. ASSUME Excl, NEW q \in Runs, pc'[q] \in Opened
        PROVE  files'[name'[q]] \in Seq({q}) /\ Len(files'[name'[q]]) = pos'[q]
    <3>1. CASE q = r
      BY <2>1, <2>2, <3>1
    <3>2. CASE q # r
      <4>1. pc[q] \in Opened /\ name'[q] = name[q] /\ name[q] \in DOMAIN files
        BY <2>1, <2>6, <3>2 DEF WriterInv
      <4> QED
        BY <2>1, <2>6, <4>1 DEF WriterInv
    <3> QED
      BY <3>1, <3>2
  <2>7. ASSUME Excl, NEW q \in Runs, NEW o \in Runs, pc'[q] \in Opened, pc'[o] \in Opened,
               name'[o] = name'[q]
        PROVE  o = q
    <3>1. CASE q = r \/ o = r
      BY <2>1, <2>5, <2>7, <3>1
    <3>2. CASE q # r /\ o # r
      <4>1. pc[q] \in Opened /\ pc[o] \in Opened /\ name[o] = name[q]
        BY <2>1, <2>7, <3>2
      <4> QED
        BY <2>7, <4>1 DEF WriterInv
    <3> QED
      BY <3>1, <3>2
  <2> QED
    BY <1>0, <2>3, <2>4, <2>6, <2>7 DEF WriterInv
<1>2. ASSUME NEW r \in Runs, OpenOld(r) PROVE WriterInv'
  <2>1. ~Excl /\ DOMAIN files' = DOMAIN files /\ FileOf(counter[r]) \in DOMAIN files
    BY <1>2 DEF OpenOld, There
  <2> QED
    BY <1>0, <1>2, <2>1 DEF OpenOld, SetName, Goto, Types, WriterInv
<1>3. ASSUME NEW r \in Runs, KeepOld(r) PROVE WriterInv'
  BY <1>0, <1>3 DEF KeepOld, SetName, Goto, locals, Types, WriterInv
<1>4. ASSUME NEW r \in Runs, NextNumber(r) PROVE WriterInv'
  BY <1>0, <1>4 DEF NextNumber, Types, WriterInv
<1>5. ASSUME NEW r \in Runs, NEW w, Fails(r, w) PROVE WriterInv'
  BY <1>0, <1>5 DEF Fails, Goto, Types, WriterInv
<1>6. ASSUME NEW r \in Runs, MakePath(r) PROVE WriterInv'
  BY <1>0, <1>6 DEF MakePath, Goto, Types, WriterInv
<1>7. ASSUME NEW r \in Runs, MakeDir(r) PROVE WriterInv'
  BY <1>0, <1>7 DEF MakeDir, Goto, Types, WriterInv
<1>8. ASSUME NEW r \in Runs, Write(r) PROVE WriterInv'
  <2> DEFINE f == name[r]
             s == files[f]
  <2>1. f \in DOMAIN files /\ pos[r] \in Nat /\ pc[r] = "write"
    BY <1>8 DEF Write, Types, WriterInv
  <2>2. /\ DOMAIN files' = DOMAIN files /\ files'[f] = Put(s, r, pos[r])
        /\ \A n \in DOMAIN files \ {f} : files'[n] = files[n]
        /\ pos'[r] = pos[r] + 1 /\ (\A q \in Runs \ {r} : pos'[q] = pos[q])
        /\ name' = name /\ pc' = pc
    BY <1>8, <2>1 DEF Write, Types
  <2>3. ASSUME Excl PROVE files'[f] \in Seq({r}) /\ Len(files'[f]) = pos'[r]
    <3>1. s \in Seq({r}) /\ Len(s) = pos[r]
      BY <2>1, <2>3 DEF WriterInv
    <3>2. Put(s, r, pos[r]) \in Seq({r}) /\ Len(Put(s, r, pos[r])) = Len(s) + 1
      BY <2>1, <3>1, PutAtEnd
    <3> QED
      BY <2>2, <3>1, <3>2
  <2>4. ASSUME Excl, NEW q \in Runs \ {r}, pc[q] \in Opened PROVE name[q] # f
    BY <2>1, <2>4 DEF WriterInv
  <2> HIDE DEF f, s
  <2>5. \A q \in Runs : pc'[q] \in {"open", "mkdir"} => pos'[q] = 0
    BY <2>1, <2>2 DEF WriterInv
  <2>6. \A q \in Runs : pc'[q] \in Opened => name'[q] \in DOMAIN files'
    BY <2>2 DEF WriterInv
  <2>7. ASSUME Excl, NEW q \in Runs, pc'[q] \in Opened
        PROVE  files'[name'[q]] \in Seq({q}) /\ Len(files'[name'[q]]) = pos'[q]
    BY <2>2, <2>3, <2>4, <2>7 DEF WriterInv, f
  <2>8. ASSUME Excl, NEW q \in Runs, NEW o \in Runs, pc'[q] \in Opened, pc'[o] \in Opened,
               name'[o] = name'[q]
        PROVE  o = q
    BY <2>2, <2>8 DEF WriterInv
  <2> QED
    BY <1>0, <2>5, <2>6, <2>7, <2>8 DEF WriterInv
<1>9. ASSUME NEW r \in Runs, Finish(r) \/ Killed(r) PROVE WriterInv'
  <2>1. /\ UNCHANGED <<conf, files, name, pos>>
        /\ pc' = [pc EXCEPT ![r] = "done"] \/ pc' = [pc EXCEPT ![r] = "killed"]
        /\ pc[r] = "write" \/ pc' = [pc EXCEPT ![r] = "killed"]
    BY <1>9 DEF Finish, Killed, Goto
  <2>2. \A q \in Runs : /\ pc'[q] \in {"open", "mkdir"} => pc[q] \in {"open", "mkdir"}
                        /\ pc'[q] \in Opened => pc[q] \in Opened
    BY <2>1 DEF Types, Opened
  <2> QED
    BY <1>0, <2>1, <2>2 DEF WriterInv
<1>10. CASE UNCHANGED vars
  BY <1>0, <1>10 DEF vars, WriterInv
<1> QED
  BY <1>1, <1>2, <1>3, <1>4, <1>5, <1>6, <1>7, <1>8, <1>9, <1>10
  DEF Next, Step, Fault, Terminated, LimitReached, NoPath, OpenError, MakeDirError

-----------------------------------------------------------------------------
(* The settings stay, and files, directories and counters only grow.          *)
LEMMA Grows ==
  ASSUME Types, WriterInv, [Next]_vars
  PROVE  /\ conf' = conf /\ DOMAIN files \subseteq DOMAIN files' /\ dirs \subseteq dirs'
         /\ \A r \in Runs : counter[r] <= counter'[r]
<1>1. \A r \in Runs : counter[r] \in Nat
  BY DEF Types
<1>2. ASSUME NEW r \in Runs, OpenNew(r) \/ OpenOld(r) \/ Write(r)
      PROVE  /\ conf' = conf /\ DOMAIN files \subseteq DOMAIN files'
             /\ dirs' = dirs /\ counter' = counter
  BY <1>2 DEF OpenNew, OpenOld, Write, locals
<1>3. ASSUME NEW r \in Runs, NextNumber(r)
      PROVE  /\ conf' = conf /\ files' = files /\ dirs' = dirs
             /\ \A q \in Runs : counter[q] <= counter'[q]
  BY <1>1, <1>3 DEF NextNumber, Types
<1>4. ASSUME NEW r \in Runs, NEW w, Fails(r, w) PROVE UNCHANGED <<conf, files, dirs, counter>>
  BY <1>4 DEF Fails, locals
<1>5. ASSUME NEW r \in Runs, KeepOld(r) \/ MakePath(r) \/ Finish(r) \/ Killed(r)
      PROVE  UNCHANGED <<conf, files, dirs, counter>>
  BY <1>5 DEF KeepOld, MakePath, Finish, Killed, locals
<1>6. ASSUME NEW r \in Runs, MakeDir(r)
      PROVE  UNCHANGED <<conf, files, counter>> /\ dirs \subseteq dirs'
  BY <1>6 DEF MakeDir
<1>7. CASE UNCHANGED vars
  BY <1>1, <1>7 DEF vars, locals
<1> QED
  BY <1>1, <1>2, <1>3, <1>4, <1>5, <1>6, <1>7
  DEF Next, Step, Fault, Terminated, LimitReached, NoPath, OpenError, MakeDirError

(* The file that is opened is the first one that is missing.                  *)
LEMMA NumberStep ==
  ASSUME Types, WriterInv, NumberInv, [Next]_vars PROVE NumberInv'
<1>1. /\ conf' = conf /\ (Numbered' <=> Numbered) /\ DOMAIN files \subseteq DOMAIN files'
      /\ conf.seq \in Int /\ Old \in Nat
  BY Grows, RunsAssumption DEF Numbered, Types
<1> DEFINE Below == \A r \in Runs : conf.seq > 0 => counter[r] < conf.seq
           Tried == Numbered => \A r \in Runs : 0..(counter[r] - 1) \subseteq DOMAIN files
           Upto(d) == \E n \in Nat :
                        /\ d = 0..(n - 1)
                        /\ conf.seq > 0 => n <= (IF Old > conf.seq THEN Old ELSE conf.seq)
                        /\ conf.mark = "none" => n <= 1
<1>2. NumberInv => Below /\ Tried /\ (conf.exists = "sequence" => Upto(DOMAIN files))
  BY DEF NumberInv
<1>3. ASSUME UNCHANGED counter, conf.exists = "sequence" => Upto(DOMAIN files') PROVE NumberInv'
  BY <1>1, <1>2, <1>3 DEF NumberInv
<1>4. ASSUME NEW r \in Runs, OpenNew(r) PROVE NumberInv'
  <2> DEFINE f == FileOf(counter[r])
  <2>1. /\ f \notin DOMAIN files /\ DOMAIN files' = DOMAIN files \union {f} /\ counter' = counter
        /\ f \in Nat /\ counter[r] \in Nat
    BY <1>4, FileIsNumber DEF OpenNew, There, locals
  <2>2. ASSUME conf.exists = "sequence" PROVE Upto(DOMAIN files')
    <3>1. PICK n \in Nat : /\ DOMAIN files = 0..(n - 1)
                           /\ conf.seq > 0 => n <= (IF Old > conf.seq THEN Old ELSE conf.seq)
                           /\ conf.mark = "none" => n <= 1
      BY <1>2, <2>2
    <3>2. f = n /\ (conf.mark = "none" => n = 0)
      <4>1. CASE conf.mark = "none"
        BY <2>1, <3>1, <4>1 DEF FileOf
      <4>2. CASE conf.mark # "none"
        <5>1. f = counter[r] /\ 0..(f - 1) \subseteq DOMAIN files
          BY <1>2, <2>2, <4>2 DEF FileOf, Numbered
        <5>2. f >= n
          BY <2>1, <3>1
        <5>3. f > n => n \in 0..(f - 1)
          BY <2>1, <3>1
        <5>4. n \notin DOMAIN files
          BY <3>1
        <5> QED
          BY <2>1, <4>2, <5>1, <5>2, <5>3, <5>4
      <4> QED
        BY <4>1, <4>2
    <3>3. conf.seq > 0 => n + 1 <= conf.seq
      <4>1. conf.seq > 0 => counter[r] < conf.seq
        BY <1>2
      <4>2. n = counter[r] \/ n = 0
        BY <3>2 DEF FileOf
      <4> QED
        BY <1>1, <2>1, <4>1, <4>2
    <3>4. DOMAIN files' = 0..((n + 1) - 1) /\ n + 1 \in Nat
      BY <2>1, <3>1, <3>2
    <3>5. conf.seq > 0 => n + 1 <= (IF Old > conf.seq THEN Old ELSE conf.seq)
      BY <1>1, <3>3
    <3>6. conf.mark = "none" => n + 1 <= 1
      BY <3>2
    <3> QED
      BY <3>4, <3>5, <3>6
  <2> QED
    BY <1>3, <2>1, <2>2
<1>5. ASSUME NEW r \in Runs, NextNumber(r) PROVE NumberInv'
  <2>1. /\ files' = files /\ counter[r] \in Nat
        /\ counter'[r] \in {counter[r], counter[r] + 1}
        /\ ~AtLimit(r) /\ FileOf(counter[r]) \in DOMAIN files
    BY <1>5 DEF NextNumber, There, Types
  <2>2. \A q \in Runs \ {r} : counter'[q] = counter[q]
    BY <1>5 DEF NextNumber, Types
  <2>3. ASSUME NEW q \in Runs, conf.seq > 0 PROVE counter'[q] < conf.seq
    <3>1. CASE q = r
      BY <1>1, <1>2, <2>1, <2>3, <3>1 DEF AtLimit
    <3>2. CASE q # r
      BY <1>2, <2>2, <2>3, <3>2
    <3> QED
      BY <3>1, <3>2
  <2>4. ASSUME Numbered, NEW q \in Runs PROVE 0..(counter'[q] - 1) \subseteq DOMAIN files
    <3>1. CASE q = r
      <4>1. counter[r] \in DOMAIN files
        BY <2>1, <2>4 DEF FileOf, Numbered
      <4>2. \A i \in 0..(counter'[r] - 1) : i \in 0..(counter[r] - 1) \/ i = counter[r]
        BY <2>1
      <4> QED
        BY <1>2, <2>4, <3>1, <4>1, <4>2
    <3>2. CASE q # r
      BY <1>2, <2>2, <2>4, <3>2
    <3> QED
      BY <3>1, <3>2
  <2> QED
    <3>1. conf.exists = "sequence" => Upto(DOMAIN files')
      BY <1>2, <2>1
    <3>2. (conf.seq > 0 => \A q \in Runs : counter'[q] < conf.seq)
          /\ (Numbered => \A q \in Runs : 0..(counter'[q] - 1) \subseteq DOMAIN files')
      BY <2>1, <2>3, <2>4
    <3> QED
      BY <1>1, <3>1, <3>2 DEF NumberInv
<1>6. ASSUME NEW r \in Runs, OpenOld(r) \/ Write(r) PROVE UNCHANGED counter /\ DOMAIN files' = DOMAIN files
  BY <1>6 DEF OpenOld, Write, locals
<1>7. ASSUME NEW r \in Runs, NEW w, Fails(r, w) PROVE UNCHANGED <<files, counter>>
  BY <1>7 DEF Fails, locals
<1>8. ASSUME NEW r \in Runs, KeepOld(r) \/ MakePath(r) \/ MakeDir(r) \/ Finish(r) \/ Killed(r)
      PROVE  UNCHANGED <<files, counter>>
  BY <1>8 DEF KeepOld, MakePath, MakeDir, Finish, Killed, locals
<1>9. CASE UNCHANGED vars
  BY <1>2, <1>3, <1>9 DEF vars, locals
<1> HIDE DEF Below, Tried, Upto
<1> QED
  BY <1>2, <1>3, <1>4, <1>5, <1>6, <1>7, <1>8, <1>9
  DEF Next, Step, Fault, Terminated, LimitReached, NoPath, OpenError, MakeDirError

(* Whoever gives up has a reason, which stays true.                           *)
LEMMA PathStep ==
  ASSUME Types, WriterInv, NumberInv, PathInv, [Next]_vars PROVE PathInv'
<1>1. /\ conf' = conf /\ DOMAIN files \subseteq DOMAIN files' /\ dirs \subseteq dirs'
      /\ \A q \in Runs : counter[q] <= counter'[q] /\ counter[q] \in Nat /\ counter'[q] \in Nat
      /\ conf.seq \in Int
  BY Grows, TypesStep DEF Types
<1> DEFINE Reason(q) ==
             /\ why[q] = "limit" /\ conf.mark # "none" => 0..(conf.seq - 1) \subseteq DOMAIN files
             /\ why[q] = "noent" /\ conf.mkdir => conf.mark = "dir" /\ counter[q] > 0
           Made(q) == conf.mkdir /\ ~mkdir[q] => \E c \in 0..counter[q] : SubOf(c) \in dirs
<1>2. PathInv <=> \A q \in Runs : Reason(q) /\ Made(q)
  BY DEF PathInv, GivesUpHonestly
<1>3. (\A q \in Runs : Reason(q)' /\ Made(q)') => PathInv'
  BY DEF PathInv, GivesUpHonestly
<1>4. \A c : (SubOf(c))' = SubOf(c)
  BY <1>1 DEF SubOf
<1>5. ASSUME NEW q \in Runs, why'[q] = why[q] PROVE Reason(q)'
  BY <1>1, <1>2, <1>5
<1>6. ASSUME NEW q \in Runs, mkdir'[q] = mkdir[q] PROVE Made(q)'
  <2>1. CASE conf.mkdir /\ ~mkdir[q]
    <3>1. PICK c \in 0..counter[q] : SubOf(c) \in dirs
      BY <1>2, <2>1
    <3>2. c \in 0..counter'[q] /\ SubOf(c)' \in dirs'
      BY <1>1, <1>4, <3>1
    <3> QED
      BY <3>2
  <2> QED
    BY <1>1, <1>6, <2>1
<1>7. ASSUME NEW r \in Runs, LimitReached(r) PROVE PathInv'
  <2>1. /\ conf.exists = "sequence" /\ counter[r] + 1 >= conf.seq /\ There(r)
        /\ UNCHANGED <<files, mkdir>>
        /\ why' = [why EXCEPT ![r] = "limit"]
    BY <1>7 DEF LimitReached, AtLimit, Fails, locals
  <2>2. ASSUME conf.mark # "none" PROVE 0..(conf.seq - 1) \subseteq DOMAIN files
    <3>1. 0..(counter[r] - 1) \subseteq DOMAIN files
      BY <2>1, <2>2 DEF NumberInv, Numbered
    <3>2. counter[r] \in DOMAIN files
      BY <2>1, <2>2 DEF There, FileOf
    <3>3. \A i \in 0..(conf.seq - 1) : i \in 0..(counter[r] - 1) \/ i = counter[r]
      BY <1>1, <2>1
    <3> QED
      BY <3>1, <3>2, <3>3
  <2>3. why \in [Runs -> Reasons] /\ why'[r] = "limit" /\ \A q \in Runs \ {r} : why'[q] = why[q]
    BY <2>1 DEF Types
  <2>4. Reason(r)'
    BY <1>1, <2>1, <2>2, <2>3
  <2> QED
    BY <1>3, <1>5, <1>6, <2>1, <2>3, <2>4
<1>8. ASSUME NEW r \in Runs, NoPath(r) PROVE PathInv'
  <2>1. /\ ~DirHere(r) /\ ~mkdir[r] /\ UNCHANGED <<mkdir, counter>>
        /\ why' = [why EXCEPT ![r] = "noent"]
    BY <1>8 DEF NoPath, Fails, locals
  <2>2. ASSUME conf.mkdir PROVE conf.mark = "dir" /\ counter[r] > 0
    <3>1. PICK c \in 0..counter[r] : SubOf(c) \in dirs
      BY <1>2, <2>1, <2>2
    <3>2. SubOf(c) # SubOf(counter[r])
      BY <2>1, <3>1 DEF DirHere
    <3> QED
      BY <1>1, <3>1, <3>2 DEF SubOf
  <2>3. why \in [Runs -> Reasons] /\ why'[r] = "noent" /\ \A q \in Runs \ {r} : why'[q] = why[q]
    BY <2>1 DEF Types
  <2>4. Reason(r)'
    BY <1>1, <2>1, <2>2, <2>3
  <2> QED
    BY <1>3, <1>5, <1>6, <2>1, <2>3, <2>4
<1>9. ASSUME NEW r \in Runs, OpenError(r) \/ MakeDirError(r) PROVE PathInv'
  <2>1. UNCHANGED mkdir /\ \E w \in {"open", "mkdir"} : why' = [why EXCEPT ![r] = w]
    BY <1>9 DEF OpenError, MakeDirError, Fails, locals
  <2>2. why'[r] \in {"open", "mkdir"} /\ \A q \in Runs \ {r} : why'[q] = why[q]
    BY <2>1 DEF Types
  <2>3. Reason(r)'
    BY <2>2
  <2> QED
    BY <1>3, <1>5, <1>6, <2>1, <2>2, <2>3
<1>10. ASSUME NEW r \in Runs, MakeDir(r) PROVE PathInv'
  <2>1. /\ UNCHANGED <<why, counter>> /\ dirs' = dirs \union {Leading(counter[r])[at[r]]}
        /\ UNCHANGED mkdir \/ (~(at[r] < Len(Leading(counter[r]))) /\ mkdir' = [mkdir EXCEPT ![r] = FALSE])
    BY <1>10 DEF MakeDir
  <2>2. ASSUME mkdir' = [mkdir EXCEPT ![r] = FALSE], ~(at[r] < Len(Leading(counter[r])))
        PROVE  PathInv'
    <3>1. \A d : Len(<<Top, d>>) = 2 /\ <<Top, d>>[2] = d
      OBVIOUS
    <3>2. Len(Leading(counter[r])) = 2 /\ Leading(counter[r])[2] = SubOf(counter[r])
      BY <3>1, Zenon DEF Leading
    <3>3. at[r] = 2
      BY <2>2, <3>2 DEF Types
    <3>4. SubOf(counter[r])' \in dirs' /\ counter'[r] = counter[r] /\ counter[r] \in 0..counter[r]
      BY <1>1, <1>4, <2>1, <3>2, <3>3
    <3>5. Made(r)'
      BY <3>4
    <3>6. \A q \in Runs \ {r} : mkdir'[q] = mkdir[q]
      BY <2>2 DEF Types
    <3> QED
      BY <1>3, <1>5, <1>6, <2>1, <3>5, <3>6
  <2> QED
    BY <1>3, <1>5, <1>6, <2>1, <2>2
<1>11. ASSUME NEW r \in Runs,
              \/ OpenNew(r) \/ OpenOld(r) \/ KeepOld(r) \/ NextNumber(r) \/ MakePath(r) \/ Write(r)
              \/ Finish(r) \/ Killed(r)
       PROVE  UNCHANGED <<why, mkdir>>
  BY <1>11 DEF OpenNew, OpenOld, KeepOld, NextNumber, MakePath, Write, Finish, Killed, locals
<1>12. CASE UNCHANGED vars
  BY <1>3, <1>5, <1>6, <1>12 DEF vars, locals
<1> HIDE DEF Reason, Made
<1>13. UNCHANGED <<why, mkdir>> => PathInv'
  BY <1>3, <1>5, <1>6
<1> QED
  BY <1>7, <1>8, <1>9, <1>10, <1>11, <1>12, <1>13 DEF Next, Step, Fault, Terminated

(* Only open() gives a run a name.                                            *)
LEMMA NameStep ==
  ASSUME Types, NameInv, [Next]_vars PROVE NameInv'
<1>1. ASSUME NEW r \in Runs, OpenNew(r) \/ OpenOld(r) \/ KeepOld(r) PROVE NameInv'
  <2>1. /\ pc[r] = "open" /\ why' = why /\ pc'[r] \in {"write", "null"}
        /\ \A q \in Runs \ {r} : pc'[q] = pc[q] /\ name'[q] = name[q]
    BY <1>1 DEF OpenNew, OpenOld, KeepOld, SetName, Goto, Types
  <2> QED
    BY <2>1 DEF NameInv
<1>2. ASSUME NEW r \in Runs, NEW w, Fails(r, w), pc[r] \in {"open", "mkdir"} PROVE NameInv'
  BY <1>2 DEF Fails, Goto, Types, NameInv
<1>3. ASSUME NEW r \in Runs,
             MakePath(r) \/ MakeDir(r) \/ Finish(r) \/ Killed(r)
      PROVE  NameInv'
  <2>1. /\ pc[r] \in {"open", "mkdir", "write"} /\ UNCHANGED <<why, name>>
        /\ \A q \in Runs \ {r} : pc'[q] = pc[q]
        /\ pc'[r] \in {"open", "mkdir"} => pc[r] \in {"open", "mkdir"}
    BY <1>3 DEF MakePath, MakeDir, Finish, Killed, Goto, Types
  <2> QED
    BY <2>1 DEF NameInv
<1>4. ASSUME NEW r \in Runs, NextNumber(r) \/ Write(r) PROVE NameInv'
  BY <1>4 DEF NextNumber, Write, NameInv
<1>5. CASE UNCHANGED vars
  BY <1>5 DEF vars, NameInv
<1> QED
  BY <1>1, <1>2, <1>3, <1>4, <1>5
  DEF Next, Step, Fault, Terminated, LimitReached, NoPath, OpenError, MakeDirError

-----------------------------------------------------------------------------
(* Each run starts before its first open().                                   *)
LEMMA InitHolds ==
  ASSUME Init PROVE IndInv
<1>1. PICK k \in 0..Old : /\ conf.mark = "none" => k <= 1
                          /\ files = [n \in 0..(k - 1) |-> <<OldData>>]
  BY DEF Init
<1>2. /\ conf \in [exists : Modes, seq : Int, mkdir : BOOLEAN, mark : Marks]
      /\ Old \in Nat /\ k \in Nat /\ k <= Old /\ DataLen \in Nat
  <2>1. conf \in Confs
    BY Zenon DEF Init
  <2> QED
    BY <2>1, RunsAssumption
<1>3. DOMAIN files = 0..(k - 1) /\ \A n \in DOMAIN files : files[n] \in Seq(Blocks)
  <2>1. <<OldData>> \in Seq(Blocks)
    BY DEF Blocks
  <2> QED
    BY <1>1, <2>1
<1>4. why \in [Runs -> Reasons] /\ \A r \in Runs : why[r] # "limit" /\ why[r] # "noent"
  BY Zenon DEF Init, Reasons
<1>5. /\ pc = [r \in Runs |-> "open"] /\ counter = [r \in Runs |-> 0]
      /\ mkdir = [r \in Runs |-> conf.mkdir] /\ at = [r \in Runs |-> 1]
      /\ name = [r \in Runs |-> NoName] /\ pos = [r \in Runs |-> 0] /\ left = [r \in Runs |-> DataLen]
  BY Zenon DEF Init
<1>6. Types
  <2>1. DOMAIN files \subseteq Nat
    BY <1>2, <1>3
  <2> QED
    BY <1>2, <1>3, <1>4, <1>5, <2>1 DEF Types, Labels, NoName
<1>7. WriterInv
  BY <1>5 DEF WriterInv, Opened
<1>8. NumberInv
  <2>1. k <= (IF Old > conf.seq THEN Old ELSE conf.seq)
    BY <1>2
  <2>2. \A r \in Runs : 0..(counter[r] - 1) \subseteq DOMAIN files
    BY <1>5
  <2>3. \A r \in Runs : conf.seq > 0 => counter[r] < conf.seq
    BY <1>5
  <2> QED
    BY <1>1, <1>2, <1>3, <2>1, <2>2, <2>3 DEF NumberInv
<1>9. PathInv
  BY <1>2, <1>4, <1>5 DEF PathInv, GivesUpHonestly
<1>10. NameInv
  BY <1>4, <1>5 DEF NameInv
<1> QED
  BY <1>6, <1>7, <1>8, <1>9, <1>10 DEF IndInv

(* The inductive invariant, which open_output keeps in every run.             *)
THEOREM Invariance == Spec => []IndInv
<1>1. IndInv /\ [Next]_vars => IndInv'
  BY TypesStep, WriterStep, NumberStep, PathStep, NameStep DEF IndInv
<1> QED
  BY <1>1, InitHolds, PTL DEF Spec

(* In keep and sequence mode a file has one writer, among any number of runs. *)
THEOREM Alone == Spec => []OneWriter
<1>1. IndInv => OneWriter
  <2>1. ASSUME IndInv, Excl, NEW r \in Runs, pc[r] \in Opened
        PROVE  \A i \in 1..Len(files[name[r]]) : files[name[r]][i] = r
    <3>1. files[name[r]] \in Seq({r})
      BY <2>1 DEF IndInv, WriterInv
    <3> QED
      BY <3>1, ElementOfSeq
  <2> QED
    BY <2>1 DEF OneWriter, Excl, Opened
<1> QED
  BY <1>1, Invariance, PTL

(* The numbers of a sequence have no gap and stay below the limit.            *)
THEOREM NoGap == Spec => []Gapless
<1>1. IndInv => Gapless
  <2> SUFFICES ASSUME IndInv, conf.exists = "sequence"
               PROVE  /\ DOMAIN files = 0..(Cardinality(DOMAIN files) - 1)
                      /\ conf.seq > 0 => Cardinality(DOMAIN files)
                                           <= (IF Old > conf.seq THEN Old ELSE conf.seq)
    BY DEF Gapless
  <2>1. PICK n \in Nat : /\ DOMAIN files = 0..(n - 1)
                         /\ conf.seq > 0 => n <= (IF Old > conf.seq THEN Old ELSE conf.seq)
    BY DEF IndInv, NumberInv
  <2>2. Cardinality(0..(n - 1)) = n
    BY FS_Interval
  <2> QED
    BY <2>1, <2>2
<1> QED
  BY <1>1, Invariance, PTL

(* A run gives up only when all numbers are taken, or for a directory it has  *)
(* no right or no second chance to make.                                      *)
THEOREM NoFalseRefusal == Spec => []GivesUpHonestly
<1>1. IndInv => GivesUpHonestly
  BY DEF IndInv, PathInv
<1> QED
  BY <1>1, Invariance, PTL

(* Unless the mode is overwrite, no step of any run takes data from a file.   *)
THEOREM NothingLost == Spec => DataKept
<1> DEFINE Kept == conf.exists # "overwrite" =>
                     \A n \in DOMAIN files : n \in DOMAIN files' /\ IsPrefix(files[n], files'[n])
<1>1. ASSUME IndInv, [Next]_vars PROVE Kept
  <2> SUFFICES ASSUME conf.exists # "overwrite", NEW n \in DOMAIN files
               PROVE  n \in DOMAIN files' /\ IsPrefix(files[n], files'[n])
    OBVIOUS
  <2>1. n \in DOMAIN files' /\ files[n] \in Seq(Blocks) /\ Len(files[n]) \in Nat
    BY <1>1, Grows, LenProperties DEF IndInv, Types
  <2>2. files'[n] = files[n] => IsPrefix(files[n], files'[n])
    BY <2>1, SameKeeps
  <2>3. ASSUME NEW r \in Runs, OpenNew(r) \/ OpenOld(r) PROVE files'[n] = files[n]
    BY <2>1, <2>3 DEF OpenNew, OpenOld, Trunc
  <2>4. ASSUME NEW r \in Runs, Write(r) PROVE IsPrefix(files[n], files'[n])
    <3>1. /\ name[r] \in DOMAIN files /\ pos[r] \in Nat /\ pc[r] = "write"
          /\ files' = [files EXCEPT ![name[r]] = Put(files[name[r]], r, pos[r])]
      BY <1>1, <2>4 DEF Write, IndInv, Types, WriterInv, Opened
    <3>2. ASSUME n = name[r] PROVE conf.exists = "append" \/ pos[r] = Len(files[n])
      <4>1. conf.exists = "append" \/ Excl
        BY <1>1 DEF Excl, IndInv, Types, Modes
      <4> QED
        BY <1>1, <3>1, <3>2, <4>1 DEF IndInv, WriterInv, Opened
    <3>3. CASE n = name[r]
      <4>1. files'[n] = Put(files[n], r, pos[r]) /\ r \in Blocks
        BY <3>1, <3>3 DEF Blocks
      <4> QED
        BY <2>1, <3>1, <3>2, <3>3, <4>1, PutAtEnd
    <3>4. CASE n # name[r]
      BY <2>2, <3>1, <3>4
    <3> QED
      BY <3>3, <3>4
  <2>5. ASSUME NEW r \in Runs, NEW w, Fails(r, w) PROVE files' = files
    BY <2>5 DEF Fails
  <2>6. ASSUME NEW r \in Runs,
               \/ KeepOld(r) \/ NextNumber(r) \/ MakePath(r) \/ MakeDir(r) \/ Finish(r) \/ Killed(r)
        PROVE  files' = files
    BY <2>6 DEF KeepOld, NextNumber, MakePath, MakeDir, Finish, Killed
  <2>7. (\E r \in Runs : Write(r)) \/ files'[n] = files[n]
    BY <1>1, <2>3, <2>5, <2>6
    DEF Next, Step, Fault, Terminated, LimitReached, NoPath, OpenError, MakeDirError, vars
  <2> QED
    BY <2>1, <2>2, <2>4, <2>7, Zenon
<1>2. IndInv /\ [Next]_vars => [Kept]_vars
  BY <1>1
<1> QED
  BY <1>2, Invariance, PTL DEF Spec, DataKept

-----------------------------------------------------------------------------
(* In a sequence below its limit the number a run finds free is the first.    *)
LEMMA FoundIsFirst ==
  ASSUME IndInv, Numbered, NEW r \in Runs, counter[r] \notin DOMAIN files
  PROVE  counter[r] = Cardinality(DOMAIN files)
<1>1. PICK n \in Nat : DOMAIN files = 0..(n - 1)
  BY DEF IndInv, NumberInv, Numbered
<1>2. counter[r] \in Nat /\ 0..(counter[r] - 1) \subseteq DOMAIN files
  BY DEF IndInv, Types, NumberInv
<1>3. counter[r] >= n
  BY <1>1, <1>2
<1>4. counter[r] > n => n \in 0..(counter[r] - 1)
  BY <1>2
<1>5. n \notin DOMAIN files
  BY <1>1
<1>6. Cardinality(0..(n - 1)) = n
  BY FS_Interval
<1> QED
  BY <1>1, <1>2, <1>3, <1>4, <1>5, <1>6

(* Numbering counts as this module does.                                      *)
LEMMA SameCount == ASSUME NEW S PROVE Shared!Cardinality(S) = Cardinality(S)
BY Zenon DEF Cardinality, Shared!Cardinality, IsFiniteSet, Shared!IsFiniteSet

(* What a run owns changes only with its name or when it is refused.          *)
LEMMA OwnSame ==
  ASSUME conf' = conf, \A r \in Runs : name'[r] = name[r] /\ (why'[r] = "limit" <=> why[r] = "limit")
  PROVE  Own' = Own /\ (Numbered' <=> Numbered)
BY DEF Own, Numbered

(* The names that exist from before, and nobody's yet.                        *)
LEMMA SharedInit ==
  ASSUME Init PROVE Shared!Init
<1>1. PICK k \in 0..Old : files = [n \in 0..(k - 1) |-> <<"old">>]
  BY DEF Init, OldData
<1>2. conf.seq \in {c.seq : c \in Confs}
  BY Zenon DEF Init
<1>3. Own = [r \in Runs |-> Shared!Unset]
  <2>1. \A r \in Runs : why[r] # "limit"
    BY Zenon DEF Init
  <2>2. \A r \in Runs : name[r] = NoName
    BY Zenon DEF Init
  <2> QED
    BY <2>1, <2>2 DEF Own, NoName, Shared!Unset
<1>4. \E k2 \in 0..Old : (IF Numbered THEN files ELSE <<>>) = [n \in 0..(k2 - 1) |-> <<"old">>]
  <2>1. CASE Numbered
    BY <1>1, <2>1
  <2>2. CASE ~Numbered
    <3>1. 0..(0 - 1) = {} /\ 0 \in 0..Old
      BY RunsAssumption
    <3>2. \A g : g = [n \in {} |-> <<"old">>] => g = <<>>
      OBVIOUS
    <3> QED
      BY <2>2, <3>1, <3>2
  <2> QED
    BY <2>1, <2>2
<1> QED
  BY <1>2, <1>3, <1>4 DEF Shared!Init

(* Each step of a run is one of Numbering, or none that it sees.              *)
LEMMA SharedStep ==
  ASSUME IndInv, IndInv', [Next]_vars PROVE [Shared!Next]_(Shared!vars)
<1> DEFINE store == IF Numbered THEN files ELSE <<>>
<1>1. conf' = conf /\ (Numbered' <=> Numbered)
  BY Grows DEF IndInv, Numbered
<1>2. CASE ~Numbered
  <2>1. Own' = Own /\ store' = store
    BY <1>1, <1>2 DEF Own
  <2> QED
    BY <1>1, <2>1 DEF Shared!vars
<1>3. ASSUME Numbered, NEW r \in Runs, OpenNew(r) PROVE Shared!Claim(r)
  <2>1. FileOf(counter[r]) = counter[r]
    BY <1>3 DEF Numbered, FileOf
  <2>2. counter[r] \notin DOMAIN files
    BY <1>3, <2>1 DEF OpenNew, There
  <2>3. counter[r] = Cardinality(DOMAIN files)
    BY <1>3, <2>2, FoundIsFirst
  <2>4. /\ files' = [n \in DOMAIN files \union {counter[r]} |->
                       IF n \in DOMAIN files THEN files[n] ELSE <<>>]
        /\ name' = [name EXCEPT ![r] = counter[r]] /\ why' = why /\ pc[r] = "open"
    BY <1>3, <2>1 DEF OpenNew, SetName
  <2>5. why[r] # "limit" /\ name[r] = NoName
    BY <2>4 DEF IndInv, NameInv
  <2>6. Own[r] = Shared!Unset
    BY <1>3, <2>5 DEF Own, NoName, Shared!Unset
  <2>7. Own' = [Own EXCEPT ![r] = Cardinality(DOMAIN files)]
    <3>1. \A q \in Runs : name'[q] = IF q = r THEN counter[r] ELSE name[q]
      BY <2>4 DEF IndInv, Types
    <3> QED
      BY <1>1, <1>3, <2>3, <2>4, <2>5, <3>1 DEF Own
  <2>8. conf.seq <= 0 \/ Cardinality(DOMAIN files) < conf.seq
    BY <2>3 DEF IndInv, Types, NumberInv
  <2> QED
    BY <1>1, <1>3, <2>3, <2>4, <2>6, <2>7, <2>8, SameCount DEF Shared!Claim, Shared!FirstFree
<1>4. ASSUME Numbered, NEW r \in Runs, LimitReached(r) PROVE Shared!Refuse(r)
  <2>1. /\ why' = [why EXCEPT ![r] = "limit"] /\ UNCHANGED <<files, name>> /\ pc[r] = "open"
        /\ conf.seq > 0
    BY <1>4 DEF LimitReached, Fails, AtLimit
  <2>2. why[r] # "limit" /\ name[r] = NoName
    BY <2>1 DEF IndInv, NameInv
  <2>3. Own[r] = Shared!Unset
    BY <1>4, <2>2 DEF Own, NoName, Shared!Unset
  <2>4. Own' = [Own EXCEPT ![r] = Shared!Refused]
    <3>1. why'[r] = "limit" /\ \A q \in Runs \ {r} : why'[q] = why[q]
      BY <2>1 DEF IndInv, Types
    <3> QED
      BY <1>1, <1>4, <2>1, <3>1 DEF Own, Refused, Shared!Refused
  <2>5. Cardinality(DOMAIN files) >= conf.seq
    <3>1. why'[r] = "limit" /\ conf' = conf /\ files' = files
      BY <1>1, <2>1 DEF IndInv, Types
    <3>2. 0..(conf.seq - 1) \subseteq DOMAIN files
      BY <1>4, <3>1 DEF IndInv, PathInv, GivesUpHonestly, Numbered
    <3>3. PICK n \in Nat : DOMAIN files = 0..(n - 1)
      BY <1>4 DEF IndInv, NumberInv, Numbered
    <3>4. Cardinality(0..(n - 1)) = n
      BY FS_Interval
    <3>5. conf.seq - 1 \in 0..(conf.seq - 1)
      BY <2>1 DEF IndInv, Types
    <3>6. conf.seq - 1 \in 0..(n - 1)
      BY <3>2, <3>3, <3>5
    <3> QED
      BY <3>3, <3>4, <3>6 DEF IndInv, Types
  <2> QED
    BY <1>1, <1>4, <2>1, <2>3, <2>4, <2>5, SameCount DEF Shared!Refuse, Shared!FirstFree
<1>5. ASSUME Numbered, NEW r \in Runs, Write(r) PROVE Shared!Put(r)
  <2>1. /\ pc[r] = "write" /\ UNCHANGED <<name, why>>
        /\ files' = [files EXCEPT ![name[r]] = Put(@, r, pos[r])]
    BY <1>5 DEF Write
  <2>2. /\ name[r] \in DOMAIN files /\ files[name[r]] \in Seq({r}) /\ Len(files[name[r]]) = pos[r]
        /\ pos[r] \in Nat /\ name[r] \in Nat
    BY <1>5, <2>1 DEF IndInv, Types, WriterInv, Opened, Numbered, Excl
  <2>3. Put(files[name[r]], r, pos[r]) = Append(files[name[r]], r)
    BY <2>2, PutAtEnd
  <2>4. why[r] # "limit"
    BY <2>1 DEF IndInv, NameInv
  <2>5. Own[r] = name[r]
    BY <1>5, <2>4 DEF Own
  <2>6. Own' = Own
    BY <1>1, <2>1, OwnSame
  <2> QED
    BY <1>1, <1>5, <2>1, <2>2, <2>3, <2>5, <2>6 DEF Shared!Put
<1>6. ASSUME UNCHANGED <<files, name>>, \A r \in Runs : why'[r] = "limit" <=> why[r] = "limit"
      PROVE  UNCHANGED Shared!vars
  <2>1. Own' = Own
    BY <1>1, <1>6, OwnSame
  <2> QED
    BY <1>1, <1>6, <2>1 DEF Shared!vars
<1>7. ASSUME NEW r \in Runs,
             \/ NextNumber(r) \/ MakePath(r) \/ MakeDir(r) \/ Finish(r) \/ Killed(r)
      PROVE  UNCHANGED <<files, name, why>>
  BY <1>7 DEF NextNumber, MakePath, MakeDir, Finish, Killed
<1>8. ASSUME NEW r \in Runs, NEW w \in {"noent", "open", "mkdir"}, Fails(r, w),
             pc[r] \in {"open", "mkdir"}
      PROVE  UNCHANGED Shared!vars
  <2>1. UNCHANGED <<files, name>> /\ why' = [why EXCEPT ![r] = w]
    BY <1>8 DEF Fails
  <2>2. why[r] # "limit"
    BY <1>8 DEF IndInv, NameInv, NoName
  <2>3. \A q \in Runs : why'[q] = "limit" <=> why[q] = "limit"
    BY <2>1, <2>2 DEF IndInv, Types
  <2> QED
    BY <1>6, <2>1, <2>3
<1>9. ASSUME Numbered, NEW r \in Runs, OpenOld(r) \/ KeepOld(r) PROVE FALSE
  BY <1>9 DEF Numbered, OpenOld, KeepOld, Excl
<1>10. CASE UNCHANGED vars
  BY <1>6, <1>10 DEF vars
<1> QED
  BY <1>2, <1>3, <1>4, <1>5, <1>6, <1>7, <1>8, <1>9, <1>10
  DEF Next, Step, Fault, Terminated, NoPath, OpenError, MakeDirError, Shared!Next

(* Runs that compete for names, directories and numbers in many steps do what *)
(* Numbering promises: each takes, in one step, the first free number.        *)
THEOREM TakesFirstFree == Spec => ImplementsNumbering
<1>1. Init => Shared!Init
  BY SharedInit
<1>2. IndInv /\ IndInv' /\ [Next]_vars => [Shared!Next]_(Shared!vars)
  BY SharedStep
<1> QED
  BY <1>1, <1>2, Invariance, PTL DEF Spec, ImplementsNumbering, Shared!Spec

-----------------------------------------------------------------------------
(* A directory is made after the one it is in, and a file after both; what a  *)
(* run has written and has left to write is its data.                         *)
Bounds ==
  /\ dirs \subseteq {Top} \union 0..MaxCounter /\ (dirs # {} => Top \in dirs)
  /\ DOMAIN files \subseteq 0..MaxCounter /\ \A n \in DOMAIN files : SubOf(n) \in dirs
  /\ \A r \in Runs :
       /\ counter[r] <= MaxCounter /\ (at[r] = 2 => Top \in dirs)
       /\ name[r] \in {NoName} \union DOMAIN files
       /\ left[r] >= 0 /\ pos[r] + left[r] = DataLen

(* The numbers are in their bounds at the start.                              *)
LEMMA BoundsInit ==
  ASSUME Init PROVE Bounds
<1>1. PICK k \in 0..Old : /\ files = [n \in 0..(k - 1) |-> <<OldData>>]
                          /\ \E empty \in SUBSET {Top, 0} :
                               /\ 0 \in empty => Top \in empty
                               /\ dirs = empty \union (IF k = 0 THEN {}
                                                      ELSE {Top} \union {SubOf(n) : n \in 0..(k - 1)})
  BY DEF Init
<1>2. /\ Old \in Nat /\ MaxCounter \in Nat /\ MaxCounter >= Old /\ DataLen \in Nat
      /\ k \in Nat /\ k <= Old
  <2>1. Cardinality(Runs) \in Nat
    BY RunsAssumption, FS_CardinalityType
  <2> QED
    BY <2>1, RunsAssumption
<1>3. /\ counter = [r \in Runs |-> 0] /\ at = [r \in Runs |-> 1] /\ name = [r \in Runs |-> NoName]
      /\ pos = [r \in Runs |-> 0] /\ left = [r \in Runs |-> DataLen]
  BY Zenon DEF Init
<1>4. DOMAIN files = 0..(k - 1)
  BY <1>1
<1>5. \A n \in 0..(k - 1) : n \in 0..MaxCounter /\ SubOf(n) \in 0..MaxCounter /\ k # 0
  BY <1>2 DEF SubOf
<1>6. dirs \subseteq {Top} \union 0..MaxCounter /\ (dirs # {} => Top \in dirs)
  BY <1>1, <1>2, <1>5
<1>7. DOMAIN files \subseteq 0..MaxCounter /\ \A n \in DOMAIN files : SubOf(n) \in dirs
  BY <1>1, <1>4, <1>5
<1> QED
  BY <1>2, <1>3, <1>6, <1>7 DEF Bounds

(* They stay there.                                                           *)
LEMMA BoundsStep ==
  ASSUME IndInv, Bounds, [Next]_vars PROVE Bounds'
<1>0. conf' = conf /\ (\A n : (SubOf(n))' = SubOf(n)) /\ Types
  BY Grows DEF IndInv, SubOf
<1> USE DEF Bounds
<1>1. ASSUME NEW r \in Runs, OpenNew(r) PROVE Bounds'
  <2> DEFINE f == FileOf(counter[r])
  <2>1. f \in 0..MaxCounter /\ SubOf(f) \in dirs
    <3>1. counter[r] \in 0..MaxCounter
      BY <1>0 DEF Types
    <3>2. SubOf(f) = SubOf(counter[r])
      BY DEF SubOf, FileOf
    <3> QED
      BY <1>1, <3>1, <3>2, RunsAssumption DEF OpenNew, DirHere, FileOf
  <2>2. /\ DOMAIN files' = DOMAIN files \union {f} /\ UNCHANGED <<dirs, counter, at, pos, left>>
        /\ name' = [name EXCEPT ![r] = f]
    BY <1>1 DEF OpenNew, SetName, locals
  <2> HIDE DEF f
  <2>3. \A q \in Runs : name'[q] = IF q = r THEN f ELSE name[q]
    BY <1>0, <2>2 DEF Types
  <2> QED
    BY <1>0, <2>1, <2>2, <2>3
<1>2. ASSUME NEW r \in Runs, OpenOld(r) \/ KeepOld(r) PROVE Bounds'
  <2>1. /\ DOMAIN files' = DOMAIN files /\ UNCHANGED <<dirs, counter, at, pos, left>>
        /\ name' = [name EXCEPT ![r] = FileOf(counter[r])] /\ FileOf(counter[r]) \in DOMAIN files
    BY <1>2 DEF OpenOld, KeepOld, There, SetName, locals
  <2>2. \A q \in Runs : name'[q] = IF q = r THEN FileOf(counter[r]) ELSE name[q]
    BY <1>0, <2>1 DEF Types
  <2> QED
    BY <1>0, <2>1, <2>2
<1>3. ASSUME NEW r \in Runs, NextNumber(r) PROVE Bounds'
  <2>1. UNCHANGED <<dirs, files, at, name, pos, left>>
    BY <1>3 DEF NextNumber
  <2>2. \A q \in Runs : counter'[q] <= MaxCounter
    BY <1>0, <1>3, RunsAssumption DEF NextNumber, Types
  <2> QED
    BY <1>0, <2>1, <2>2
<1>4. ASSUME NEW r \in Runs, NEW w, Fails(r, w) PROVE Bounds'
  BY <1>0, <1>4 DEF Fails, locals
<1>5. ASSUME NEW r \in Runs, MakePath(r) PROVE Bounds'
  <2>1. UNCHANGED <<dirs, files, counter, name, pos, left>> /\ at' = [at EXCEPT ![r] = 1]
    BY <1>5 DEF MakePath
  <2>2. \A q \in Runs : at'[q] = IF q = r THEN 1 ELSE at[q]
    BY <1>0, <2>1 DEF Types
  <2> QED
    BY <1>0, <2>1, <2>2
<1>6. ASSUME NEW r \in Runs, MakeDir(r) PROVE Bounds'
  <2>1. \A d : Len(<<Top, d>>) = 2 /\ <<Top, d>>[1] = Top /\ <<Top, d>>[2] = d
    OBVIOUS
  <2>2. /\ Len(Leading(counter[r])) = 2 /\ Leading(counter[r])[1] = Top
        /\ Leading(counter[r])[2] = SubOf(counter[r])
    BY <2>1, Zenon DEF Leading
  <2>3. /\ dirs' = dirs \union {Leading(counter[r])[at[r]]}
        /\ UNCHANGED <<files, counter, name, pos, left>>
        /\ UNCHANGED at \/ (at[r] < Len(Leading(counter[r])) /\ at' = [at EXCEPT ![r] = @ + 1])
    BY <1>6 DEF MakeDir
  <2>4. at[r] \in 1..2 /\ counter[r] \in 0..MaxCounter /\ SubOf(counter[r]) \in 0..MaxCounter
    BY <1>0, RunsAssumption DEF Types, SubOf
  <2>5. CASE at[r] = 1
    <3>1. dirs' = dirs \union {Top}
      BY <2>2, <2>3, <2>5
    <3> QED
      BY <1>0, <2>3, <3>1
  <2>6. CASE at[r] = 2
    <3>1. dirs' = dirs \union {SubOf(counter[r])} /\ at' = at /\ Top \in dirs
      BY <2>2, <2>3, <2>6
    <3> QED
      BY <1>0, <2>3, <2>4, <3>1
  <2> QED
    BY <2>4, <2>5, <2>6
<1>7. ASSUME NEW r \in Runs, Write(r) PROVE Bounds'
  <2>1. /\ DOMAIN files' = DOMAIN files /\ UNCHANGED <<dirs, counter, at, name>>
        /\ pos' = [pos EXCEPT ![r] = @ + 1] /\ left' = [left EXCEPT ![r] = @ - 1] /\ left[r] > 0
    BY <1>7 DEF Write, locals
  <2>2. \A q \in Runs : /\ pos'[q] = IF q = r THEN pos[q] + 1 ELSE pos[q]
                        /\ left'[q] = IF q = r THEN left[q] - 1 ELSE left[q]
                        /\ pos[q] \in Nat /\ left[q] \in Int
    BY <1>0, <2>1 DEF Types
  <2>3. \A q \in Runs : left'[q] >= 0 /\ pos'[q] + left'[q] = DataLen
    BY <2>1, <2>2, RunsAssumption
  <2> QED
    BY <1>0, <2>1, <2>3
<1>8. ASSUME NEW r \in Runs, Finish(r) \/ Killed(r) PROVE Bounds'
  BY <1>0, <1>8 DEF Finish, Killed, locals
<1>9. CASE UNCHANGED vars
  BY <1>0, <1>9 DEF vars, locals
<1> QED
  BY <1>1, <1>2, <1>3, <1>4, <1>5, <1>6, <1>7, <1>8, <1>9
  DEF Next, Step, Fault, Terminated, LimitReached, NoPath, OpenError, MakeDirError

(* Every variable keeps its type, and no file is without its directories.     *)
THEOREM TypeCorrect == Spec => []TypeOK
<1>1. IndInv /\ Bounds => TypeOK
  <2> SUFFICES ASSUME IndInv, Bounds PROVE TypeOK
    OBVIOUS
  <2>1. Types
    BY DEF IndInv
  <2>2. /\ counter \in [Runs -> 0..MaxCounter] /\ name \in [Runs -> {NoName} \union DOMAIN files]
        /\ pos \in [Runs -> 0..DataLen] /\ left \in [Runs -> 0..DataLen]
    BY <2>1, RunsAssumption DEF Types, Bounds
  <2>3. \A n \in DOMAIN files :
          files[n] \in Seq(Runs \union {OldData, Hole}) /\ {Top, SubOf(n)} \subseteq dirs
    BY <2>1 DEF Types, Bounds, Blocks
  <2>4. /\ dirs \subseteq {Top} \union 0..MaxCounter /\ DOMAIN files \subseteq 0..MaxCounter
        /\ conf \in [exists : Modes, seq : Int, mkdir : BOOLEAN, mark : Marks]
        /\ pc \in [Runs -> {"open", "mkdir", "write"} \union Stopped]
        /\ mkdir \in [Runs -> BOOLEAN] /\ at \in [Runs -> 1..2]
    BY <2>1 DEF Types, Bounds, Labels
  <2>5. why \in [Runs -> {"", "limit", "noent", "open", "mkdir"}]
    BY <2>1, Zenon DEF Types, Reasons
  <2> QED
    BY <2>2, <2>3, <2>4, <2>5, Zenon DEF TypeOK
<1>2. IndInv /\ Bounds /\ [Next]_vars => Bounds'
  BY BoundsStep
<1>3. Init => Bounds
  BY BoundsInit
<1> QED
  BY <1>1, <1>2, <1>3, Invariance, PTL DEF Spec
=============================================================================
