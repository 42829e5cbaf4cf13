----------------------------- MODULE TeeProofs -----------------------------
(* CoreTee implements Tee: main and the dumper thread, which share the core   *)
(* in many small steps, do what the promise says in single ones.              *)
EXTENDS CoreTeeProofs

(* The build and the run the promise is made for: libunwind is there, and no  *)
(* read of the core and no write to the core output has failed.               *)
Sound == unwind /\ ~lost /\ ~cut

(* What the promise says about the core of CoreTee.                           *)
LEMMA PrefixIsBlocks == \A n \in Nat : Promise!Prefix(n) = Blocks(0, n)
<1> TAKE n \in Nat
<1>1. IsBlocks(Promise!Prefix(n), 0, n)
  BY DEF IsBlocks, Promise!Prefix
<1> QED BY <1>1, 0 \in Nat, BlocksAre, Zenon

(* main has a core output that is a beginning of the core.                    *)
LEMMA LengthOfBlocks == \A n \in Nat : Blocks(0, n) \in Seq(Nat) /\ Len(Blocks(0, n)) = n
<1> TAKE n \in Nat
<1>1. IsBlocks(Blocks(0, n), 0, n)
  BY 0 \in Nat, BlocksAre, Zenon
<1> QED BY <1>1, Zenon DEF IsBlocks

(* The promise starts where the run does.                                     *)
LEMMA PromiseInit == Init => Promise!Init
  BY DEF Init, Promise!Init, Status

(* A write to the core output that does not fail gives it every block up to   *)
(* the ones in buf, in one step, or nothing when buf is empty.                *)
LEMMA WritesOn ==
  ASSUME IndInv, WriteCore, ~lost', coreOut = Blocks(0, rd - Len(buf)),
         Status = "running", Status' = "running", UNCHANGED <<size, fed>>
  PROVE  Promise!Write \/ UNCHANGED Promise!vars
<1>1. BufferOK /\ BufInv /\ CoreOK
  BY Zenon DEF IndInv, TypeOK
<1>2. coreOut' = Blocks(0, rd)
  BY <1>1, CopyStep, Zenon
<1>3. /\ rd \in Nat /\ size \in Nat /\ rd \in 0..size /\ Len(buf) \in Nat /\ rd - Len(buf) \in Nat
      /\ rd - Len(buf) <= rd
  BY <1>1 DEF BufferOK, BufInv
<1>4. Len(coreOut) = rd - Len(buf)
  BY <1>3, LengthOfBlocks, Zenon
<1>5. CASE Len(buf) = 0
  <2>1. rd - Len(buf) = rd
    BY <1>3, <1>5
  <2> QED BY <1>2, <2>1, Zenon DEF Promise!vars
<1>6. CASE Len(buf) # 0
  <2>1. rd > Len(coreOut)
    BY <1>3, <1>4, <1>6
  <2>2. coreOut' = Promise!Prefix(rd)
    BY <1>2, <1>3, PrefixIsBlocks, Zenon
  <2> QED BY <1>3, <2>1, <2>2, Zenon DEF Promise!Write
<1> QED BY <1>5, <1>6

(* The block at the head of the pipe is the next one of the core.             *)
LEMMA NextBlock ==
  ASSUME PipeOK, UnwinderSeesPrefix, pipe # <<>>
  PROVE  Head(pipe) = Len(fed) + 1
<1> DEFINE n == Len(fed) + Len(pipe)
           i == Len(fed) + 1
<1>1. fed \in Seq(Nat) /\ pipe \in Seq(Nat)
  BY DEF PipeOK
<1>2. n \in Nat /\ i \in 1..n
  BY <1>1
<1>3. IsBlocks(fed \o pipe, 0, n)
  BY <1>2, 0 \in Nat, BlocksAre, Zenon DEF UnwinderSeesPrefix
<1>4. (fed \o pipe)[i] = 0 + i
  <2> HIDE DEF i, n
  <2> QED BY <1>2, <1>3, Zenon DEF IsBlocks
<1>5. (fed \o pipe)[i] = pipe[1]
  BY <1>1, <1>2
<1>6. Head(pipe) = pipe[1]
  BY <1>1
<1> QED BY <1>2, <1>4, <1>5, <1>6

(* The blocks the unwinder has and can take have been read by main.           *)
LEMMA FedIsRead ==
  ASSUME IndInv, Sound, Alive, readEnd
  PROVE  Len(fed) + Len(pipe) <= rd
<1>1. /\ mpc \in Opening \union Copying \union Closing
      /\ BufferOK /\ BufInv /\ CountInv /\ EndsInv
  BY DEF IndInv, TypeOK, ControlOK, MainStates, Alive, Ended, PipeInv,
         Opening, Feeding, Copying, Closing
<1>2. rd \in Nat /\ Len(buf) \in Nat /\ off \in Nat
  BY <1>1 DEF BufferOK
<1>3. CASE writeEnd
  <2>1. Len(fed) + Len(pipe) = rd - Len(buf) + off
    BY <1>1, <1>3, Zenon DEF CountInv
  <2>2. off <= Len(buf)
    BY <1>1, <1>3 DEF BufInv, EndsInv
  <2> QED BY <1>2, <2>1, <2>2
<1>4. CASE ~writeEnd
  BY <1>1, <1>2, <1>4 DEF CountInv, Sound
<1> QED BY <1>3, <1>4

(* They are in the core output or all in the first buffer: what main reads    *)
(* later it gives to the output before it gives it to the unwinder.           *)
LEMMA FedIsWritten ==
  ASSUME IndInv, Sound, Alive, readEnd
  PROVE  \/ Len(fed) + Len(pipe) <= Len(coreOut)
         \/ Len(fed) + Len(pipe) <= BufSize
<1>1. /\ mpc \in Opening \union Copying \union Closing
      /\ BufferOK /\ BufInv /\ CountInv /\ EndsInv /\ CoreInv
  BY DEF IndInv, TypeOK, ControlOK, MainStates, Alive, Ended, PipeInv,
         Opening, Feeding, Copying, Closing
<1>2. /\ rd \in Nat /\ Len(buf) \in Nat /\ rd - Len(buf) \in Nat
      /\ Len(buf) <= BufSize /\ BufSize \in Nat
  BY <1>1, ConstantsAssumption DEF BufferOK, BufInv
<1>3. Len(fed) + Len(pipe) <= rd
  BY FedIsRead
<1>4. CASE mpc \in Opening \union {"first"}
  <2>1. rd = Len(buf)
    BY <1>1, <1>4, Zenon DEF CoreInv, Sound
  <2> QED BY <1>2, <1>3, <2>1
<1>5. CASE mpc = "copy"
  <2>1. off = 0 /\ coreOut = Blocks(0, rd - Len(buf))
    BY <1>1, <1>5, Zenon DEF BufInv, CoreInv, Sound
  <2>2. writeEnd
    <3>1. Over => mpc \in Closing \/ mpc \in Ended
      BY DEF Over
    <3>2. ~Over
      BY <1>5, <3>1 DEF Closing, Ended
    <3> QED BY <1>1, <3>2, Zenon DEF CountInv, Sound
  <2>3. Len(fed) + Len(pipe) = rd - Len(buf) + off
    BY <1>1, <2>2, Zenon DEF CountInv
  <2>4. Len(coreOut) = rd - Len(buf)
    BY <1>2, <2>1, LengthOfBlocks, Zenon
  <2> QED BY <1>2, <2>1, <2>3, <2>4
<1>6. CASE mpc \in {"send", "loop"} \union Closing
  <2>1. coreOut = Blocks(0, rd)
    BY <1>1, <1>6, Zenon DEF CoreInv, Sound
  <2>2. Len(coreOut) = rd
    BY <1>2, <2>1, LengthOfBlocks, Zenon
  <2> QED BY <1>3, <2>2
<1> QED BY <1>1, <1>4, <1>5, <1>6 DEF Copying

(* A block the unwinder takes from the pipe is the next one of the core, and  *)
(* one the promise lets it have.                                              *)
LEMMA FeedsOn ==
  ASSUME IndInv, Sound, Alive, readEnd, TakeBlock, UNCHANGED <<size, coreOut, mpc>>
  PROVE  Promise!Feed
<1>1. /\ BufferOK /\ PipeOK /\ UnwinderSeesPrefix
  BY Zenon DEF IndInv, TypeOK, PipeInv
<1>2. /\ pipe # <<>> /\ fed' = Append(fed, Head(pipe))
  BY DEF TakeBlock
<1>3. Head(pipe) = Len(fed) + 1
  BY <1>1, <1>2, NextBlock, Zenon
<1>4. /\ Len(fed) \in Nat /\ Len(pipe) \in Nat /\ Len(pipe) > 0
      /\ rd \in Nat /\ size \in Nat /\ rd <= size /\ BufSize \in Nat /\ Len(coreOut) \in Nat
  BY <1>1, <1>2, ConstantsAssumption DEF BufferOK, PipeOK, IndInv, TypeOK, CoreOK
<1>5. Len(fed) < size
  BY <1>4, FedIsRead
<1>6. Len(fed) < Len(coreOut) \/ Len(fed) < BufSize
  BY <1>4, FedIsWritten
<1>7. Status = "running" /\ Status' = Status
  BY DEF Alive, Ended, Status
<1> QED BY <1>2, <1>3, <1>5, <1>6, <1>7, Zenon DEF Promise!Feed

(* A step that ends the run early, whatever else it does.                     *)
LEMMA FailsNow ==
  ASSUME Alive, mpc' \in {"failed", "killed"}, UNCHANGED <<size, coreOut, fed>>
  PROVE  Promise!Fail
  BY DEF Promise!Fail, Status, Alive, Ended

(* A step that changes none of what the promise is about.                     *)
LEMMA Hidden ==
  ASSUME Alive, mpc' \notin Ended, UNCHANGED <<size, coreOut, fed>>
  PROVE  UNCHANGED Promise!vars
  BY DEF Promise!vars, Status, Alive, Ended

(* Every step of main and of the dumper thread is one of the promise, or none *)
(* that it sees.                                                              *)
LEMMA PromiseStep ==
  IndInv /\ Sound /\ Sound' /\ [Next]_vars => [Promise!Next]_(Promise!vars)
<1> SUFFICES ASSUME IndInv, Sound, Sound', [Next]_vars PROVE [Promise!Next]_(Promise!vars)
  OBVIOUS
<1> USE DEF inputs, feedVars, pipeVars, thrVars, outVars
<1>1. CASE CreatePipe \/ StartThread \/ ReadFirst \/ FeedWrite \/ FeedStops \/ FeedCheck
  <2>1. Alive /\ mpc' \notin Ended /\ UNCHANGED <<size, coreOut, fed>>
    BY <1>1 DEF CreatePipe, StartThread, ReadFirst, FeedWrite, FeedStops, FeedCheck, Alive, Ended
  <2> QED BY <2>1, Hidden, Zenon
<1>2. CASE ReadProc \/ Unlock \/ Send \/ Sent \/ ReadNext \/ CloseCore
  <2>1. Alive /\ mpc' \notin Ended /\ UNCHANGED <<size, coreOut, fed>>
    BY <1>2 DEF ReadProc, Unlock, Send, Sent, ReadNext, CloseCore, Close, Alive, Ended
  <2> QED BY <2>1, Hidden, Zenon
<1>3. CASE OpenInfo \/ OpenCore \/ Join
  <2>1. /\ Alive /\ UNCHANGED <<size, coreOut, fed>>
        /\ mpc' \in {"failed", "killed", "openCore", "unlock", "close"}
    BY <1>3 DEF OpenInfo, OpenCore, Open, Join, Alive, Ended
  <2>2. CASE mpc' \in {"failed", "killed"}
    BY <2>1, <2>2, FailsNow, Zenon DEF Promise!Next
  <2>3. CASE mpc' \notin {"failed", "killed"}
    <3>1. mpc' \notin Ended
      BY <2>1, <2>3 DEF Ended
    <3> QED BY <2>1, <3>1, Hidden, Zenon
  <2> QED BY <2>2, <2>3
<1>4. CASE FirstCopy
  <2>1. mpc = "first" /\ mpc' \in {"send", "loop"} /\ UNCHANGED <<size, fed>>
    BY <1>4 DEF FirstCopy
  <2>2. CASE writeEnd
    <3>1. WriteCore
      BY <1>4, <2>2 DEF FirstCopy, Sound
    <3>2. coreOut = Blocks(0, rd - Len(buf))
      <4>1. coreOut = <<>> /\ rd = Len(buf) /\ rd \in Nat
        BY <2>1 DEF IndInv, CoreInv, Sound, TypeOK, BufferOK
      <4> QED BY <4>1, NoBlocks
    <3>3. Status = "running" /\ Status' = "running"
      BY <2>1 DEF Status
    <3> QED BY <2>1, <3>1, <3>2, <3>3, WritesOn, Zenon DEF Sound, Promise!Next
  <2>3. CASE ~writeEnd
    <3>1. coreOut' = coreOut
      BY <1>4, <2>3 DEF FirstCopy
    <3>2. Alive /\ mpc' \notin Ended
      BY <2>1 DEF Alive, Ended
    <3> QED BY <2>1, <3>1, <3>2, Hidden, Zenon
  <2> QED BY <2>2, <2>3
<1>5. CASE CopyNext
  <2>1. mpc = "copy" /\ mpc' = "send" /\ WriteCore /\ UNCHANGED <<size, fed>>
    BY <1>5 DEF CopyNext
  <2>2. coreOut = Blocks(0, rd - Len(buf))
    BY <2>1 DEF IndInv, CoreInv, Sound
  <2>3. Status = "running" /\ Status' = "running"
    BY <2>1 DEF Status
  <2> QED BY <2>1, <2>2, <2>3, WritesOn, Zenon DEF Sound, Promise!Next
<1>6. CASE CloseInfo
  <2>1. mpc = "closeInfo" /\ mpc' = "exit" /\ UNCHANGED <<size, coreOut, fed>>
    BY <1>6 DEF CloseInfo, Close
  <2>2. coreOut = Blocks(0, size) /\ size \in Nat
    BY <2>1 DEF IndInv, TypeOK, BufferOK, BufInv, CoreInv, Sound, Closing
  <2>3. coreOut = Promise!Prefix(size)
    BY <2>2, PrefixIsBlocks, Zenon
  <2>4. Status = "running" /\ Status' = "done"
    BY <2>1 DEF Status
  <2> QED BY <2>1, <2>3, <2>4, Zenon DEF Promise!Finish, Promise!Next
<1>7. CASE Alive /\ (PrepareRead \/ DumpRead)
  <2>1. TakeBlock /\ tpc \in {"prepare", "dump"} /\ UNCHANGED <<size, coreOut, mpc>>
    BY <1>7 DEF PrepareRead, DumpRead
  <2>2. readEnd
    BY <2>1 DEF IndInv, PipeInv, EndsInv
  <2> QED BY <1>7, <2>1, <2>2, FeedsOn, Zenon DEF Promise!Next
<1>8. CASE Alive /\ (PrepareDone \/ PrepareFails \/ PassLock \/ DumpEnd \/ UnwindFails)
  <2>1. UNCHANGED <<size, coreOut, fed, mpc>>
    <3>1. ASSUME NEW ok \in BOOLEAN, NEW l \in SUBSET {"err"}, Answer(ok, l)
          PROVE  UNCHANGED <<size, coreOut, fed, mpc>>
      BY <3>1 DEF Answer
    <3>2. ASSUME PrepareDone \/ PrepareFails \/ UnwindFails
          PROVE  \E ok \in BOOLEAN, l \in SUBSET {"err"} : Answer(ok, l)
      BY <3>2, Zenon DEF PrepareDone, PrepareFails, UnwindFails
    <3>3. ASSUME PassLock \/ DumpEnd PROVE UNCHANGED <<size, coreOut, fed, mpc>>
      BY <3>3 DEF PassLock, DumpEnd
    <3> QED BY <1>8, <3>1, <3>2, <3>3, Zenon
  <2>2. mpc' \notin Ended
    BY <1>8, <2>1 DEF Alive
  <2> QED BY <1>8, <2>1, <2>2, Hidden, Zenon
<1>9. CASE Alive /\ DumpCrash
  <2>1. mpc' \in {"failed", "killed"} /\ UNCHANGED <<size, coreOut, fed>>
    BY <1>9 DEF DumpCrash
  <2> QED BY <1>9, <2>1, FailsNow, Zenon DEF Promise!Next
<1>10. CASE UNCHANGED vars
  BY <1>10 DEF vars, Promise!vars, Status
<1> QED BY <1>1, <1>2, <1>3, <1>4, <1>5, <1>6, <1>7, <1>8, <1>9, <1>10
        DEF Next, Main, Thread, Terminated

(* A run in which libunwind is there and no read or write of the core fails   *)
(* keeps the promise: the output and the unwinder get growing prefixes of the *)
(* core, the unwinder at most one buffer ahead, and a run that ends well has  *)
(* written all of it.                                                         *)
THEOREM Implements == Spec /\ []Sound => ImplementsTee
<1>1. Init => Promise!Init
  BY PromiseInit
<1>2. IndInv /\ Sound /\ Sound' /\ [Next]_vars => [Promise!Next]_(Promise!vars)
  BY PromiseStep
<1> QED BY <1>1, <1>2, Invariance, PTL DEF Spec, ImplementsTee, Promise!Spec

(* In a build with libunwind, and as long as the reads of the core and the    *)
(* writes to the core output cannot fail, the run needs no other hypothesis.  *)
THEOREM Kept ==
  ASSUME Unwinds = {TRUE}, "read" \notin Faults, "write" \notin Faults
  PROVE  Spec => ImplementsTee
<1>1. Init => Sound
  BY DEF Init, Sound
<1>2. IndInv /\ Sound /\ [Next]_vars => Sound'
  <2> SUFFICES ASSUME IndInv, Sound, [Next]_vars PROVE Sound'
    OBVIOUS
  <2> USE DEF Sound, inputs, feedVars, pipeVars, thrVars, outVars
  <2>1. CASE ReadFirst \/ ReadNext
    <3>1. /\ cut' = (Available = 0 /\ rd < size)
          /\ UNCHANGED <<unwind, lost>>
      BY <2>1 DEF ReadFirst, ReadNext, ReadBlock
    <3>2. rd < size => Available # 0
      BY ConstantsAssumption DEF Available, Lesser, IndInv, TypeOK, BufferOK
    <3> QED BY <3>1, <3>2
  <2>2. CASE FirstCopy \/ CopyNext
    <3>1. UNCHANGED <<unwind, lost, cut>>
      BY <2>2 DEF FirstCopy, CopyNext, WriteCore
    <3> QED BY <3>1
  <2>3. CASE CreatePipe \/ StartThread \/ FeedWrite \/ FeedStops \/ FeedCheck \/ ReadProc
    <3>1. UNCHANGED <<unwind, lost, cut>>
      BY <2>3 DEF CreatePipe, StartThread, FeedWrite, FeedStops, FeedCheck, ReadProc
    <3> QED BY <3>1
  <2>4. CASE OpenInfo \/ OpenCore \/ Unlock \/ Send \/ Sent \/ Join \/ CloseCore \/ CloseInfo
    <3>1. UNCHANGED <<unwind, lost, cut>>
      BY <2>4 DEF OpenInfo, OpenCore, Open, Unlock, Send, Sent, Join, CloseCore, CloseInfo, Close
    <3> QED BY <3>1
  <2>5. CASE PrepareRead \/ PassLock \/ DumpCrash \/ DumpRead \/ DumpEnd
    <3>1. UNCHANGED <<unwind, lost, cut>>
      BY <2>5 DEF PrepareRead, PassLock, DumpCrash, DumpRead, DumpEnd
    <3> QED BY <3>1
  <2>6. CASE PrepareDone \/ PrepareFails \/ UnwindFails
    <3>1. ASSUME NEW ok \in BOOLEAN, NEW l \in SUBSET {"err"}, Answer(ok, l)
          PROVE  UNCHANGED <<unwind, lost, cut>>
      BY <3>1 DEF Answer
    <3>2. \E ok \in BOOLEAN, l \in SUBSET {"err"} : Answer(ok, l)
      BY <2>6, Zenon DEF PrepareDone, PrepareFails, UnwindFails
    <3>3. UNCHANGED <<unwind, lost, cut>>
      BY <3>1, <3>2, Zenon
    <3> QED BY <3>3
  <2>7. CASE UNCHANGED vars
    BY <2>7 DEF vars
  <2> QED BY <2>1, <2>2, <2>3, <2>4, <2>5, <2>6, <2>7 DEF Next, Main, Thread, Terminated
<1>3. Spec => []Sound
  BY <1>1, <1>2, Invariance, PTL DEF Spec
<1> QED BY <1>3, Implements, PTL

-----------------------------------------------------------------------------
(* The order of the core output.                                              *)

(* What is in s is in the order of the core and not beyond block n.           *)
Rising(s, n) ==
  /\ \A i, j \in 1..Len(s) : i < j => s[i] < s[j]
  /\ \A i \in 1..Len(s) : s[i] <= n

(* Whatever was lost, the core output holds nothing that main is still to     *)
(* write: before the copy nothing of what is in buf, after it nothing that    *)
(* has not been read.                                                         *)
OrderInv ==
  /\ mpc \in Opening \union {"first"} => coreOut = <<>>
  /\ mpc = "copy" => Rising(coreOut, rd - Len(buf))
  /\ Rising(coreOut, rd)

(* Nothing rises.                                                             *)
LEMMA NothingRises == ASSUME NEW n \in Nat PROVE Rising(<<>>, n)
  BY DEF Rising

(* The beginning of blocks after what was read before rises on.               *)
LEMMA RisesOn ==
  ASSUME NEW s \in Seq(Nat), NEW b \in Seq(Nat), NEW a \in Nat, IsBlocks(b, a, Len(b)),
         Rising(s, a), NEW k \in 0..Len(b)
  PROVE  Rising(s \o SubSeq(b, 1, k), a + Len(b))
<1> DEFINE t == SubSeq(b, 1, k)
           r == s \o t
           n == Len(s)
<1>1. n \in Nat /\ Len(b) \in Nat /\ k \in Nat /\ k <= Len(b)
  OBVIOUS
<1>2. /\ r \in Seq(Nat) /\ Len(r) = n + k
      /\ \A j \in 1..n : r[j] = s[j]
      /\ \A j \in 1..k : r[n + j] = b[j]
  <2>1. 0 \in 0..Len(b) /\ k \in 0..(Len(b) - 0) /\ 0 + 1 = 1 /\ 0 + k = k
    BY <1>1
  <2>2. LET q == s \o SubSeq(b, 0 + 1, 0 + k) IN
        /\ q \in Seq(Nat) /\ Len(q) = Len(s) + k
        /\ \A j \in 1..Len(s) : q[j] = s[j]
        /\ \A j \in 1..k : q[Len(s) + j] = b[0 + j]
    BY <2>1, PartAppended, Zenon
  <2>3. \A j \in 1..k : 0 + j = j
    BY <1>1
  <2> QED BY <2>1, <2>2, <2>3
<1> HIDE DEF r, t, n
<1>3. \A j \in 1..n : s[j] \in Nat /\ s[j] <= a
  BY DEF Rising, n
<1>4. ASSUME NEW j \in (n + 1)..(n + k) PROVE r[j] = a + (j - n) /\ j - n \in 1..k
  <2>1. j - n \in 1..k /\ n + (j - n) = j /\ j - n \in 1..Len(b)
    BY <1>1
  <2>2. r[n + (j - n)] = b[j - n]
    BY <1>2, <2>1, Zenon
  <2>3. b[j - n] = a + (j - n)
    BY <2>1, Zenon DEF IsBlocks
  <2> QED BY <2>1, <2>2, <2>3
<1>5. ASSUME NEW i \in 1..(n + k), NEW j \in 1..(n + k), i < j PROVE r[i] < r[j]
  <2>1. CASE j <= n
    <3>1. i \in 1..n /\ j \in 1..n
      BY <1>1, <1>5, <2>1
    <3>2. s[i] < s[j]
      BY <1>5, <3>1 DEF Rising, n
    <3> QED BY <1>2, <3>1, <3>2
  <2>2. CASE i <= n /\ j > n
    <3>1. i \in 1..n /\ j \in (n + 1)..(n + k)
      BY <1>1, <2>2
    <3>2. r[i] = s[i] /\ s[i] \in Nat /\ s[i] <= a
      BY <1>2, <1>3, <3>1
    <3>3. r[j] = a + (j - n) /\ j - n \in 1..k
      BY <1>4, <3>1
    <3> QED BY <1>1, <3>2, <3>3
  <2>3. CASE i > n
    <3>1. i \in (n + 1)..(n + k) /\ j \in (n + 1)..(n + k)
      BY <1>1, <1>5, <2>3
    <3>2. r[i] = a + (i - n) /\ r[j] = a + (j - n)
      BY <1>4, <3>1
    <3> QED BY <1>1, <1>5, <3>2
  <2> QED BY <1>1, <2>1, <2>2, <2>3
<1>6. ASSUME NEW i \in 1..(n + k) PROVE r[i] <= a + Len(b)
  <2>1. CASE i <= n
    <3>1. r[i] = s[i] /\ s[i] \in Nat /\ s[i] <= a
      BY <1>1, <1>2, <1>3, <2>1
    <3> QED BY <1>1, <3>1
  <2>2. CASE i > n
    <3>1. r[i] = a + (i - n) /\ i - n \in 1..k
      BY <1>1, <1>4, <2>2
    <3> QED BY <1>1, <3>1
  <2> QED BY <1>1, <2>1, <2>2
<1>7. Rising(r, a + Len(b))
  BY <1>2, <1>5, <1>6 DEF Rising
<1> QED BY <1>7 DEF r, t

(* A write to the core output, complete or not, keeps it in order.            *)
LEMMA WritesInOrder ==
  ASSUME IndInv, WriteCore, Rising(coreOut, rd - Len(buf))
  PROVE  Rising(coreOut', rd)
<1>1. BufferOK /\ BufInv /\ CoreOK
  BY Zenon DEF IndInv, TypeOK
<1>2. /\ rd \in Nat /\ buf \in Seq(Nat) /\ Len(buf) \in Nat /\ rd - Len(buf) \in Nat
      /\ (rd - Len(buf)) + Len(buf) = rd /\ coreOut \in Seq(Nat)
  BY <1>1 DEF BufferOK, BufInv, CoreOK
<1>3. IsBlocks(buf, rd - Len(buf), Len(buf))
  BY <1>1, <1>2, BlocksAre, Zenon DEF BufInv
<1>4. PICK k \in 0..Len(buf) : coreOut' = coreOut \o SubSeq(buf, 1, k)
  <2>1. SubSeq(buf, 1, Len(buf)) = buf /\ Len(buf) \in 0..Len(buf)
    BY <1>2, SubSeqFull
  <2>2. \A k \in 0..(Len(buf) - 1) : k \in 0..Len(buf)
    BY <1>2
  <2> QED BY <2>1, <2>2 DEF WriteCore
<1>5. Rising(coreOut', (rd - Len(buf)) + Len(buf))
  BY <1>2, <1>3, <1>4, RisesOn, Zenon
<1> QED BY <1>2, <1>5

(* Every step keeps the order.                                                *)
LEMMA OrderStep == IndInv /\ OrderInv /\ [Next]_vars => OrderInv'
<1> SUFFICES ASSUME IndInv, OrderInv, [Next]_vars PROVE OrderInv'
  OBVIOUS
<1>0. BufferOK /\ BufInv /\ rd \in Nat /\ rd - Len(buf) \in Nat
  BY DEF IndInv, TypeOK, BufferOK, BufInv
<1> USE DEF inputs, feedVars, pipeVars, thrVars, outVars
<1>1. ASSUME UNCHANGED <<coreOut, rd, buf>>,
             mpc' = mpc \/ (mpc' # "copy" /\ mpc' \notin Opening \union {"first"})
      PROVE  OrderInv'
  BY <1>1 DEF OrderInv
<1>2. ASSUME UNCHANGED <<coreOut, rd, buf>>, mpc \in Opening, mpc' # "copy"
      PROVE  OrderInv'
  BY <1>2 DEF OrderInv
<1>3. CASE CreatePipe \/ StartThread \/ FeedWrite \/ FeedStops \/ FeedCheck \/ ReadProc \/ Unlock
  <2>1. UNCHANGED <<coreOut, rd, buf>> /\ mpc \in Opening /\ mpc' # "copy"
    BY <1>3 DEF CreatePipe, StartThread, FeedWrite, FeedStops, FeedCheck, ReadProc, Unlock,
                Opening, Feeding
  <2> QED BY <1>2, <2>1, Zenon
<1>4. CASE OpenInfo \/ OpenCore
  <2>1. UNCHANGED <<coreOut, rd, buf>> /\ mpc \in Opening /\ mpc' # "copy"
    BY <1>4 DEF OpenInfo, OpenCore, Open, Opening, Feeding
  <2> QED BY <1>2, <2>1, Zenon
<1>5. CASE ReadFirst
  <2>1. mpc = "read" /\ ReadBlock /\ coreOut' = coreOut /\ mpc' \in {"proc", "feed"}
    BY <1>5 DEF ReadFirst
  <2>2. coreOut = <<>> /\ rd' \in Nat
    BY <1>0, <2>1, ReadStep DEF OrderInv, Opening, Feeding, BufferOK
  <2>3. Rising(coreOut, rd')
    BY <2>2, NothingRises, Zenon
  <2> QED BY <2>1, <2>2, <2>3 DEF OrderInv
<1>6. CASE ReadNext
  <2>1. ReadBlock /\ coreOut' = coreOut /\ mpc' \in {"copy", "join"}
    BY <1>6 DEF ReadNext
  <2>2. /\ rd' \in Nat /\ Len(buf') \in Nat /\ rd' - Len(buf') = rd /\ coreOut \in Seq(Nat)
    BY <1>0, <2>1, ReadStep DEF BufferOK, IndInv, TypeOK, CoreOK
  <2>3. Rising(coreOut, rd' - Len(buf'))
    BY <2>2, Zenon DEF OrderInv
  <2>4. \A i \in 1..Len(coreOut) : coreOut[i] \in Nat /\ coreOut[i] <= rd
    BY <2>2, <2>3 DEF Rising
  <2>5. Rising(coreOut, rd')
    BY <1>0, <2>2, <2>3, <2>4 DEF Rising
  <2> QED BY <2>1, <2>3, <2>5 DEF OrderInv, Opening, Feeding
<1>7. CASE FirstCopy
  <2>1. /\ mpc = "first" /\ mpc' \in {"send", "loop"} /\ UNCHANGED <<rd, buf>>
        /\ WriteCore \/ coreOut' = coreOut
    BY <1>7 DEF FirstCopy
  <2>2. coreOut = <<>>
    BY <2>1 DEF OrderInv
  <2>3. Rising(coreOut, rd - Len(buf)) /\ Rising(coreOut, rd)
    BY <1>0, <2>2, NothingRises, Zenon
  <2>4. Rising(coreOut', rd)
    BY <2>1, <2>3, WritesInOrder, Zenon
  <2> QED BY <2>1, <2>4 DEF OrderInv, Opening, Feeding
<1>8. CASE CopyNext
  <2>1. mpc = "copy" /\ mpc' = "send" /\ WriteCore /\ UNCHANGED <<rd, buf>>
    BY <1>8 DEF CopyNext
  <2>2. Rising(coreOut', rd)
    BY <2>1, WritesInOrder, Zenon DEF OrderInv
  <2> QED BY <2>1, <2>2 DEF OrderInv, Opening, Feeding
<1>9. CASE Send \/ Sent \/ Join \/ CloseCore \/ CloseInfo
  <2>1. /\ UNCHANGED <<coreOut, rd, buf>>
        /\ mpc' \in {"send", "loop", "killed", "close", "closeInfo", "exit"}
    BY <1>9 DEF Send, Sent, Join, CloseCore, CloseInfo, Close
  <2>2. mpc' # "copy" /\ mpc' \notin Opening \union {"first"}
    BY <2>1 DEF Opening, Feeding
  <2> QED BY <1>1, <2>1, <2>2, Zenon
<1>10. CASE PrepareRead \/ PassLock \/ DumpRead \/ DumpEnd \/ DumpCrash
  <2>1. UNCHANGED <<coreOut, rd, buf>> /\ (mpc' = mpc \/ mpc' = "killed")
    BY <1>10 DEF PrepareRead, PassLock, DumpRead, DumpEnd, DumpCrash
  <2> QED BY <1>1, <2>1 DEF Opening, Feeding
<1>11. CASE PrepareDone \/ PrepareFails \/ UnwindFails
  <2>1. ASSUME NEW ok \in BOOLEAN, NEW l \in SUBSET {"err"}, Answer(ok, l)
        PROVE  UNCHANGED <<coreOut, rd, buf, mpc>>
    BY <2>1 DEF Answer
  <2>2. \E ok \in BOOLEAN, l \in SUBSET {"err"} : Answer(ok, l)
    BY <1>11, Zenon DEF PrepareDone, PrepareFails, UnwindFails
  <2> QED BY <1>1, <2>1, <2>2, Zenon
<1>12. CASE UNCHANGED vars
  BY <1>1, <1>12 DEF vars
<1> QED BY <1>3, <1>4, <1>5, <1>6, <1>7, <1>8, <1>9, <1>10, <1>11, <1>12
        DEF Next, Main, Thread, Terminated

(* Whatever fails, and in whatever order main and the thread run, the core    *)
(* output holds blocks of the core in their order and none of them twice.     *)
THEOREM KeepsOrder == Spec => []CoreInOrder
<1>1. Init => OrderInv
  BY NothingRises, 0 \in Nat DEF Init, OrderInv
<1>2. OrderInv => CoreInOrder
  BY Zenon DEF OrderInv, Rising, CoreInOrder
<1> QED BY <1>1, <1>2, OrderStep, Invariance, PTL DEF Spec
=============================================================================
