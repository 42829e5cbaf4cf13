--------------------------- MODULE CoreTeeProofs ---------------------------
(* Proofs about CoreTee: IndInv is an inductive invariant, and the safety     *)
(* properties the runs check follow from it for every size of the core, the   *)
(* buffer and the pipe and for every set of faults.                           *)
EXTENDS CoreTee, TLAPS, SequenceTheorems, FiniteSetTheorems

USE DEF NoPid, BadPid, CorePid, OptPid

-----------------------------------------------------------------------------
(* What Blocks(a, n) is, element by element.                                  *)
IsBlocks(s, a, n) == s \in Seq(Nat) /\ Len(s) = n /\ \A j \in 1..n : s[j] = a + j

(* A sequence is Blocks(a, n) exactly when it has these elements.              *)
LEMMA BlocksAre ==
  ASSUME NEW a \in Nat, NEW n \in Nat, NEW s
  PROVE  s = Blocks(a, n) <=> IsBlocks(s, a, n)
<1>1. IsBlocks(Blocks(a, n), a, n)
  BY DEF Blocks, IsBlocks
<1>2. ASSUME IsBlocks(s, a, n) PROVE s = Blocks(a, n)
  <2> DEFINE t == Blocks(a, n)
  <2>1. t \in Seq(Nat) /\ Len(t) = n /\ \A j \in 1..n : t[j] = a + j
    BY <1>1, Zenon DEF IsBlocks
  <2>2. s \in Seq(Nat) /\ Len(s) = n /\ \A j \in 1..n : s[j] = a + j
    BY <1>2, Zenon DEF IsBlocks
  <2> HIDE DEF t
  <2>3. \A j \in 1..Len(s) : s[j] = t[j]
    BY <2>1, <2>2, Zenon
  <2>4. s = t
    BY <2>1, <2>2, <2>3, SeqEqual, Zenon
  <2> QED BY <2>4 DEF t
<1> QED BY <1>1, <1>2, Zenon

(* No blocks are the empty sequence.                                          *)
LEMMA BlocksEmpty == ASSUME NEW a \in Nat PROVE IsBlocks(<<>>, a, 0)
  BY DEF IsBlocks

(* A sequence followed by a part of another one.                              *)
LEMMA PartAppended ==
  ASSUME NEW p \in Seq(Nat), NEW q \in Seq(Nat), NEW i \in 0..Len(q), NEW k \in 0..(Len(q) - i)
  PROVE  LET r == p \o SubSeq(q, i + 1, i + k) IN
         /\ r \in Seq(Nat)
         /\ Len(r) = Len(p) + k
         /\ \A j \in 1..Len(p) : r[j] = p[j]
         /\ \A j \in 1..k : r[Len(p) + j] = q[i + j]
  OBVIOUS

(* Blocks followed by the part of a buffer that starts where they end are     *)
(* blocks: what a partial write (the offset off of WritePipe) relies on.      *)
LEMMA BlocksExtend ==
  ASSUME NEW a \in Nat, NEW b \in Nat, NEW n \in Nat, NEW m \in Nat,
         NEW p, NEW q, IsBlocks(p, a, n), IsBlocks(q, b, m),
         NEW i \in 0..m, NEW k \in 0..(m - i), b + i = a + n
  PROVE  IsBlocks(p \o SubSeq(q, i + 1, i + k), a, n + k)
<1> DEFINE r == p \o SubSeq(q, i + 1, i + k)
<1>1. /\ p \in Seq(Nat) /\ Len(p) = n /\ \A j \in 1..n : p[j] = a + j
      /\ q \in Seq(Nat) /\ Len(q) = m /\ \A j \in 1..m : q[j] = b + j
  BY Zenon DEF IsBlocks
<1>2. /\ r \in Seq(Nat)
      /\ Len(r) = n + k
      /\ \A j \in 1..n : r[j] = p[j]
      /\ \A j \in 1..k : r[n + j] = q[i + j]
  BY <1>1, PartAppended, ZenonT(30)
<1> HIDE DEF r
<1>3. ASSUME NEW j \in 1..(n + k) PROVE r[j] = a + j
  <2>1. CASE j <= n
    BY <2>1, <1>1, <1>2
  <2>2. CASE j > n
    <3>1. /\ j - n \in 1..k /\ n + (j - n) = j
          /\ i + (j - n) \in 1..m /\ b + (i + (j - n)) = a + j
      BY <2>2
    <3>2. r[n + (j - n)] = q[i + (j - n)]
      BY <3>1, <1>2, Zenon
    <3>3. q[i + (j - n)] = b + (i + (j - n))
      BY <3>1, <1>1, Zenon
    <3> QED BY <3>1, <3>2, <3>3, Zenon
  <2> QED BY <2>1, <2>2
<1>4. IsBlocks(r, a, n + k)
  BY <1>2, <1>3, Zenon DEF IsBlocks
<1> QED BY <1>4 DEF r

(* Blocks followed by the blocks after them are blocks.                       *)
LEMMA BlocksConcat ==
  ASSUME NEW a \in Nat, NEW b \in Nat, NEW n \in Nat, NEW m \in Nat,
         NEW p, NEW q, IsBlocks(p, a, n), IsBlocks(q, b, m), b = a + n
  PROVE  IsBlocks(p \o q, a, n + m)
<1>1. p \in Seq(Nat) /\ Len(p) = n /\ q \in Seq(Nat) /\ Len(q) = m
  BY Zenon DEF IsBlocks
<1>2. ASSUME NEW i \in 0..m, i = 0 PROVE IsBlocks(p \o q, a, n + m)
  <2>1. b + i = a + n /\ m \in 0..(m - i)
    BY <1>2
  <2>2. IsBlocks(p \o SubSeq(q, i + 1, i + m), a, n + m)
    BY <2>1, BlocksExtend, Zenon
  <2>3. i + 1 = 1 /\ i + m = m
    BY <1>2
  <2>4. SubSeq(q, 1, m) = q
    BY <1>1, SubSeqFull, Zenon
  <2> QED BY <2>2, <2>3, <2>4, Zenon
<1>3. 0 \in 0..m
  OBVIOUS
<1> QED BY <1>2, <1>3, Zenon

(* A beginning of blocks is blocks.                                           *)
LEMMA BlocksBeginning ==
  ASSUME NEW s \in Seq(Nat), NEW t \in Seq(Nat), NEW n, IsBlocks(s \o t, 0, n)
  PROVE  IsBlocks(s, 0, Len(s))
<1>1. Len(s) \in Nat /\ Len(t) \in Nat /\ Len(s \o t) = Len(s) + Len(t)
  OBVIOUS
<1>2. ASSUME NEW k \in 1..Len(s) PROVE s[k] = 0 + k
  <2>1. k \in 1..Len(s \o t)
    BY <1>1
  <2>2. (s \o t)[k] = 0 + k
    BY <2>1, Zenon DEF IsBlocks
  <2>3. (s \o t)[k] = s[k]
    BY ONLY s \in Seq(Nat), t \in Seq(Nat), k \in 1..Len(s)
  <2> QED BY <2>2, <2>3, Zenon
<1> QED BY <1>1, <1>2, Zenon DEF IsBlocks

(* Moving the head of one sequence to the end of another does not change      *)
(* what they are together: a block taken from the pipe.                       *)
LEMMA MoveHead ==
  ASSUME NEW s \in Seq(Nat), NEW t \in Seq(Nat), t # <<>>
  PROVE  /\ Append(s, Head(t)) \in Seq(Nat) /\ Tail(t) \in Seq(Nat)
         /\ Len(Append(s, Head(t))) = Len(s) + 1
         /\ Len(Tail(t)) = Len(t) - 1
         /\ Append(s, Head(t)) \o Tail(t) = s \o t
<1> DEFINE h == <<Head(t)>>
<1>1. /\ Head(t) \in Nat /\ Tail(t) \in Seq(Nat) /\ Len(Tail(t)) = Len(t) - 1
  BY HeadTailProperties
<1>2. /\ Append(s, Head(t)) \in Seq(Nat) /\ Len(Append(s, Head(t))) = Len(s) + 1
      /\ Append(s, Head(t)) = s \o h
  BY <1>1, AppendProperties, AppendIsConcat
<1>3. h \in Seq(Nat)
  BY <1>1
<1>4. t = h \o Tail(t)
  <2>1. Len(t) \in Nat \ {0}
    BY EmptySeq
  <2>2. SubSeq(t, 1, Len(t)) = <<t[1]>> \o SubSeq(t, 1 + 1, Len(t))
    <3>1. 1 \in 1..Len(t) /\ Len(t) \in 1..Len(t)
      BY <2>1
    <3> QED BY <3>1, SubSeqRecursiveFirst
  <2>3. SubSeq(t, 1, Len(t)) = t /\ Tail(t) = SubSeq(t, 2, Len(t))
    BY SubSeqFull, TailIsSubSeq
  <2>4. Head(t) = t[1]
    OBVIOUS
  <2> QED BY <2>2, <2>3, <2>4
<1>5. (s \o h) \o Tail(t) = s \o (h \o Tail(t))
  BY <1>1, <1>3, SMTT(30)
<1> QED BY <1>1, <1>2, <1>4, <1>5

-----------------------------------------------------------------------------
(* The parts of a step.                                                       *)

(* No blocks are the empty sequence.                                          *)
LEMMA NoBlocks == Blocks(0, 0) = <<>>
  BY BlocksEmpty, BlocksAre

(* What safe_read leaves in buf and rd.                                       *)
LEMMA ReadStep ==
  ASSUME BufferOK, ReadBlock
  PROVE  /\ buf' \in Seq(Nat) /\ rd' \in 0..size
         /\ Len(buf') <= BufSize /\ Len(buf') <= rd' /\ rd' - Len(buf') = rd
         /\ buf' = Blocks(rd' - Len(buf'), Len(buf'))
         /\ cut' \in BOOLEAN
         /\ buf' = <<>> => rd' = rd /\ (rd' = size \/ cut')
<1>1. PICK n \in Nat : /\ rd \in Nat /\ size \in Nat /\ n <= BufSize /\ rd + n <= size
                       /\ cut' = (n = 0 /\ rd < size)
                       /\ buf' = Blocks(rd, n) /\ rd' = rd + n
  BY ConstantsAssumption DEF BufferOK, ReadBlock, Available, Lesser
<1>2. IsBlocks(buf', rd, n)
  BY <1>1, BlocksAre, Zenon
<1>3. buf' \in Seq(Nat) /\ Len(buf') = n
  BY <1>2, Zenon DEF IsBlocks
<1>4. (buf' = <<>> => n = 0) /\ (n = 0 => rd' = rd /\ (rd' = size \/ rd < size))
  BY <1>1, <1>3
<1>6. cut' \in BOOLEAN /\ (n = 0 /\ rd < size => cut')
  BY <1>1, Zenon
<1>5. rd' - n = rd /\ rd' \in 0..size /\ n <= rd'
  BY <1>1
<1>7. buf' = <<>> => rd' = rd /\ (rd' = size \/ cut')
  BY <1>4, <1>6, Zenon
<1> QED BY <1>1, <1>3, <1>5, <1>6, <1>7, Zenon

(* A write to the pipe continues what is in it.                               *)
LEMMA WriteStep ==
  ASSUME BufferOK, BufInv, PipeOK, UnwinderSeesPrefix, WritePipe,
         off < Len(buf), Len(fed) + Len(pipe) = rd - Len(buf) + off
  PROVE  /\ pipe' \in Seq(Nat) /\ Len(pipe') <= PipeCap
         /\ off' \in 0..Len(buf) /\ off' \in 0..BufSize
         /\ Len(fed) + Len(pipe') = rd - Len(buf) + off'
         /\ fed \o pipe' = Blocks(0, Len(fed) + Len(pipe'))
<1>1. /\ buf \in Seq(Nat) /\ Len(buf) \in Nat /\ Len(buf) <= BufSize /\ Len(buf) <= rd /\ rd \in Nat
      /\ pipe \in Seq(Nat) /\ Len(pipe) \in Nat /\ Len(pipe) <= PipeCap
      /\ fed \in Seq(Nat) /\ Len(fed) \in Nat /\ off \in Nat
      /\ BufSize \in Nat /\ PipeCap \in Nat
  BY ConstantsAssumption DEF BufferOK, PipeOK, BufInv
<1>2. PICK n \in 0..(Len(buf) - off) :
        /\ Len(pipe) + n <= PipeCap
        /\ pipe' = pipe \o SubSeq(buf, off + 1, off + n) /\ off' = off + n
  <2>1. Lesser(Len(buf) - off, Room) \in 0..(Len(buf) - off)
    BY <1>1 DEF Lesser, Room
  <2>2. Len(pipe) + Lesser(Len(buf) - off, Room) <= PipeCap
    BY <1>1 DEF Lesser, Room
  <2> QED BY <2>1, <2>2, Zenon DEF WritePipe
<1>3. PICK s \in Seq(Nat) : s = SubSeq(buf, off + 1, off + n) /\ Len(s) = n
  <2>1. SubSeq(buf, off + 1, off + n) \in Seq(Nat) /\ Len(SubSeq(buf, off + 1, off + n)) = n
    BY <1>1
  <2> QED BY <2>1, Zenon
<1>4. /\ pipe' \in Seq(Nat) /\ Len(pipe') = Len(pipe) + n
      /\ (fed \o pipe) \o s = fed \o pipe'
  <2>1. pipe \o s \in Seq(Nat) /\ Len(pipe \o s) = Len(pipe) + n
    <3>1. Len(s) = n /\ n \in Nat /\ pipe \in Seq(Nat)
      BY <1>1, <1>3
    <3> QED BY ONLY <3>1, s \in Seq(Nat), ConcatProperties
  <2>2. pipe' = pipe \o s
    BY <1>2, <1>3, Zenon
  <2>3. (fed \o pipe) \o s = fed \o pipe'
    <3>1. fed \in Seq(Nat) /\ pipe \in Seq(Nat) /\ s \in Seq(Nat)
      BY <1>1, <1>3, Zenon
    <3> QED BY ONLY <2>2, <3>1, SMTT(30)
  <2> QED BY <2>1, <2>2, <2>3, Zenon
<1>5. /\ off' \in 0..Len(buf) /\ off' \in 0..BufSize /\ Len(pipe') <= PipeCap
      /\ Len(fed) + Len(pipe') = rd - Len(buf) + off'
  <2>1. /\ Len(pipe) \in Nat /\ Len(fed) \in Nat /\ rd \in Nat /\ Len(buf) \in Nat /\ off \in Nat
        /\ BufSize \in Nat /\ PipeCap \in Nat /\ Len(buf) <= BufSize
    BY <1>1, Zenon
  <2>2. off' = off + n /\ Len(pipe) + n <= PipeCap
    BY <1>2, Zenon
  <2>3. Len(pipe') = Len(pipe) + n
    BY <1>4, Zenon
  <2>4. n \in Nat
    BY <2>1
  <2>5. Len(fed) + Len(pipe') = rd - Len(buf) + off'
    BY ONLY <2>1, <2>2, <2>3, <2>4, Len(fed) + Len(pipe) = rd - Len(buf) + off
  <2>6. off' \in 0..Len(buf) /\ off' \in 0..BufSize /\ Len(pipe') <= PipeCap
    BY ONLY <2>1, <2>2, <2>3, n \in 0..(Len(buf) - off), off < Len(buf)
  <2> QED BY <2>5, <2>6, Zenon
<1>6. PICK m \in Nat : m = Len(fed) + Len(pipe)
  BY <1>1
<1>7. IsBlocks((fed \o pipe) \o s, 0, m + n)
  <2>1. rd - Len(buf) \in Nat /\ off \in 0..Len(buf) /\ 0 \in Nat /\ (rd - Len(buf)) + off = 0 + m
    BY <1>1, <1>6
  <2>2. fed \o pipe = Blocks(0, m) /\ buf = Blocks(rd - Len(buf), Len(buf))
    BY <1>6, Zenon DEF UnwinderSeesPrefix, BufInv
  <2>3. IsBlocks(fed \o pipe, 0, m) /\ IsBlocks(buf, rd - Len(buf), Len(buf))
    BY <1>1, <1>6, <2>1, <2>2, BlocksAre, Zenon
  <2> QED BY <1>1, <1>2, <1>3, <2>1, <2>3, BlocksExtend, Zenon
<1>8. m + n = Len(fed) + Len(pipe') /\ m + n \in Nat
  BY <1>1, <1>4, <1>6
<1>9. fed \o pipe' = Blocks(0, m + n)
  BY <1>4, <1>7, <1>8, 0 \in Nat, BlocksAre, Zenon
<1> QED BY <1>4, <1>5, <1>8, <1>9, Zenon

(* A read from the pipe moves a block to what the unwinder has.               *)
LEMMA TakeStep ==
  ASSUME PipeOK, UnwinderSeesPrefix, TakeBlock
  PROVE  /\ fed' \in Seq(Nat) /\ pipe' \in Seq(Nat)
         /\ Len(fed') = Len(fed) + 1 /\ Len(pipe') = Len(pipe) - 1
         /\ fed' \o pipe' = fed \o pipe
         /\ Len(fed') + Len(pipe') = Len(fed) + Len(pipe)
<1>1. fed \in Seq(Nat) /\ pipe \in Seq(Nat) /\ pipe # <<>>
  BY DEF PipeOK, TakeBlock
<1>2. fed' = Append(fed, Head(pipe)) /\ pipe' = Tail(pipe)
  BY DEF TakeBlock
<1>3. /\ fed' \in Seq(Nat) /\ pipe' \in Seq(Nat)
      /\ Len(fed') = Len(fed) + 1 /\ Len(pipe') = Len(pipe) - 1
      /\ fed' \o pipe' = fed \o pipe
  BY <1>1, <1>2, MoveHead, Zenon
<1>4. Len(fed) \in Nat /\ Len(pipe) \in Nat
  BY <1>1
<1> QED BY <1>3, <1>4

(* When the thread closes its end, what the unwinder has is a prefix.         *)
LEMMA EndStep ==
  ASSUME PipeOK, UnwinderSeesPrefix, fed' = fed, pipe' = <<>>
  PROVE  fed' \o pipe' = Blocks(0, Len(fed') + Len(pipe'))
<1>1. fed \in Seq(Nat) /\ pipe \in Seq(Nat) /\ Len(fed) \in Nat /\ Len(fed) + Len(pipe) \in Nat
  BY DEF PipeOK
<1>2. IsBlocks(fed \o pipe, 0, Len(fed) + Len(pipe))
  BY <1>1, 0 \in Nat, BlocksAre, Zenon DEF UnwinderSeesPrefix
<1>3. IsBlocks(fed, 0, Len(fed))
  BY <1>1, <1>2, BlocksBeginning, Zenon
<1>4. fed = Blocks(0, Len(fed))
  BY <1>1, <1>3, 0 \in Nat, BlocksAre, Zenon
<1>5. fed' \o pipe' = fed /\ Len(fed') + Len(pipe') = Len(fed)
  BY <1>1
<1> QED BY <1>4, <1>5, Zenon

(* A write to the core output that does not fail continues it.                *)
LEMMA CopyStep ==
  ASSUME BufferOK, BufInv, CoreOK, WriteCore
  PROVE  /\ coreOut' \in Seq(Nat) /\ lost' \in BOOLEAN
         /\ ~lost' => ~lost
         /\ ~lost' /\ coreOut = Blocks(0, rd - Len(buf)) => coreOut' = Blocks(0, rd)
<1>1. /\ buf \in Seq(Nat) /\ Len(buf) \in Nat /\ rd \in Nat
      /\ rd - Len(buf) \in Nat /\ coreOut \in Seq(Nat) /\ lost \in BOOLEAN
  BY DEF BufferOK, BufInv, CoreOK
<1>2. CASE coreOut' = coreOut \o buf /\ lost' = lost
  <2>1. ASSUME coreOut = Blocks(0, rd - Len(buf)) PROVE coreOut' = Blocks(0, rd)
    <3> DEFINE k == rd - Len(buf)
    <3>1. k \in Nat /\ 0 \in Nat /\ 0 + k \in Nat /\ k = 0 + k /\ k + Len(buf) = rd
      BY <1>1
    <3> HIDE DEF k
    <3>2. IsBlocks(coreOut, 0, k) /\ IsBlocks(buf, k, Len(buf))
      <4>1. coreOut = Blocks(0, k) /\ buf = Blocks(k, Len(buf))
        BY <2>1, Zenon DEF k, BufInv
      <4> QED BY <1>1, <3>1, <4>1, BlocksAre, Zenon
    <3>3. IsBlocks(coreOut \o buf, 0, k + Len(buf))
      BY <1>1, <3>1, <3>2, BlocksConcat, Zenon
    <3> QED BY <1>1, <1>2, <3>1, <3>3, BlocksAre, Zenon
  <2> QED BY <1>1, <1>2, <2>1
<1>3. CASE lost' = TRUE /\ \E k \in 0..(Len(buf) - 1) : coreOut' = coreOut \o SubSeq(buf, 1, k)
  BY <1>1, <1>3
<1> QED BY <1>2, <1>3 DEF WriteCore

(* The thread, the lock and the outputs follow where main is.                 *)
LEMMA ControlStep == IndInv /\ [Next]_vars => ControlOK' /\ LockInv'
<1> SUFFICES ASSUME IndInv, [Next]_vars PROVE ControlOK' /\ LockInv'
  OBVIOUS
<1>0. ControlOK /\ LockInv
  BY DEF IndInv, TypeOK, PipeInv
<1> USE ConstantsAssumption DEF ControlOK, LockInv, MainStates, Opening, Feeding, Copying, Closing,
      vars, inputs, feedVars, pipeVars, thrVars, outVars
<1>1. CASE CreatePipe
  BY <1>0, <1>1 DEF CreatePipe
<1>2. CASE StartThread
  BY <1>0, <1>2 DEF StartThread
<1>3. CASE ReadFirst
  BY <1>0, <1>3 DEF ReadFirst, ReadBlock, Available, Lesser
<1>4. CASE FeedWrite
  BY <1>0, <1>4 DEF FeedWrite, WritePipe, Room, Lesser
<1>5. CASE FeedStops
  BY <1>0, <1>5 DEF FeedStops
<1>6. CASE FeedCheck
  BY <1>0, <1>6 DEF FeedCheck
<1>7. CASE ReadProc
  BY <1>0, <1>7 DEF ReadProc
<1>8. CASE OpenInfo
  BY <1>0, <1>8 DEF OpenInfo, Open
<1>9. CASE OpenCore
  BY <1>0, <1>9 DEF OpenCore, Open
<1>10. CASE Unlock
  BY <1>0, <1>10 DEF Unlock
<1>11. CASE FirstCopy
  BY <1>0, <1>11 DEF FirstCopy
<1>12. CASE Send
  BY <1>0, <1>12 DEF Send, WritePipe, SendEnds, Room, Lesser
<1>13. CASE Sent
  BY <1>0, <1>13 DEF Sent, SendEnds
<1>14. CASE ReadNext
  BY <1>0, <1>14 DEF ReadNext, ReadBlock, Available, Lesser
<1>15. CASE CopyNext
  BY <1>0, <1>15 DEF CopyNext
<1>16. CASE Join
  BY <1>0, <1>16 DEF Join
<1>17. CASE CloseCore
  BY <1>0, <1>17 DEF CloseCore, Close
<1>18. CASE CloseInfo
  BY <1>0, <1>18 DEF CloseInfo, Close
<1>19. CASE PrepareRead
  BY <1>0, <1>19 DEF PrepareRead, TakeBlock
<1>20. CASE PrepareDone
  BY <1>0, <1>20 DEF PrepareDone, Answer
<1>21. CASE PrepareFails
  <2>1. \E l \in SUBSET {"err"} : Answer(FALSE, l)
    BY <1>21, Zenon DEF PrepareFails
  <2> QED BY <1>0, <2>1 DEF Answer
<1>22. CASE PassLock
  BY <1>0, <1>22 DEF PassLock
<1>23. CASE DumpCrash
  BY <1>0, <1>23 DEF DumpCrash
<1>24. CASE DumpRead
  BY <1>0, <1>24 DEF DumpRead, TakeBlock
<1>25. CASE DumpEnd
  BY <1>0, <1>25 DEF DumpEnd
<1>26. CASE UNCHANGED vars
  BY <1>0, <1>26
<1>27. CASE UnwindFails
  <2>1. \E l \in SUBSET {"err"} : Answer(FALSE, l)
    BY <1>27, Zenon DEF UnwindFails
  <2> QED BY <1>0, <2>1 DEF Answer
<1> QED BY <1>1, <1>2, <1>3, <1>4, <1>5, <1>6, <1>7, <1>8, <1>9, <1>10, <1>11, <1>12, <1>13,
           <1>14, <1>15, <1>16, <1>17, <1>18, <1>19, <1>20, <1>21, <1>22, <1>23, <1>24, <1>25, <1>26, <1>27
        DEF Next, Main, Thread, Terminated

(* Once main has used a PID, the thread does not change it.                   *)
LEMMA PidStep == IndInv /\ [Next]_vars => PidOK' /\ PidInv'
<1> SUFFICES ASSUME IndInv, [Next]_vars PROVE PidOK' /\ PidInv'
  OBVIOUS
<1>0. PidOK /\ PidInv
  BY DEF IndInv, TypeOK, PipeInv
<1> USE ConstantsAssumption DEF PidOK, PidInv,
      vars, inputs, feedVars, pipeVars, thrVars, outVars
<1>1. CASE CreatePipe
  BY <1>0, <1>1 DEF CreatePipe
<1>2. CASE StartThread
  BY <1>0, <1>2 DEF StartThread
<1>3. CASE ReadFirst
  BY <1>0, <1>3 DEF ReadFirst, ReadBlock, Available, Lesser
<1>4. CASE FeedWrite
  BY <1>0, <1>4 DEF FeedWrite, WritePipe, Room, Lesser
<1>5. CASE FeedStops
  BY <1>0, <1>5 DEF FeedStops
<1>6. CASE FeedCheck
  BY <1>0, <1>6 DEF FeedCheck
<1>7. CASE ReadProc
  BY <1>0, <1>7 DEF ReadProc
<1>8. CASE OpenInfo
  BY <1>0, <1>8 DEF OpenInfo, Open
<1>9. CASE OpenCore
  BY <1>0, <1>9 DEF OpenCore, Open
<1>10. CASE Unlock
  BY <1>0, <1>10 DEF Unlock
<1>11. CASE FirstCopy
  BY <1>0, <1>11 DEF FirstCopy
<1>12. CASE Send
  BY <1>0, <1>12 DEF Send, WritePipe, SendEnds, Room, Lesser
<1>13. CASE Sent
  BY <1>0, <1>13 DEF Sent, SendEnds
<1>14. CASE ReadNext
  BY <1>0, <1>14 DEF ReadNext, ReadBlock, Available, Lesser
<1>15. CASE CopyNext
  BY <1>0, <1>15 DEF CopyNext
<1>16. CASE Join
  BY <1>0, <1>16 DEF Join
<1>17. CASE CloseCore
  BY <1>0, <1>17 DEF CloseCore, Close
<1>18. CASE CloseInfo
  BY <1>0, <1>18 DEF CloseInfo, Close
<1>19. CASE PrepareRead
  BY <1>0, <1>19 DEF PrepareRead, TakeBlock
<1>20. CASE PrepareDone
  BY <1>0, <1>20 DEF PrepareDone, Answer, Settled
<1>21. CASE PrepareFails
  <2>1. \E l \in SUBSET {"err"} : Answer(FALSE, l)
    BY <1>21 DEF PrepareFails
  <2> QED BY <1>0, <2>1 DEF Answer, Settled
<1>22. CASE PassLock
  BY <1>0, <1>22 DEF PassLock
<1>23. CASE DumpCrash
  BY <1>0, <1>23 DEF DumpCrash
<1>24. CASE DumpRead
  BY <1>0, <1>24 DEF DumpRead, TakeBlock
<1>25. CASE DumpEnd
  BY <1>0, <1>25 DEF DumpEnd
<1>26. CASE UNCHANGED vars
  BY <1>0, <1>26
<1>27. CASE UnwindFails
  <2>1. \E l \in SUBSET {"err"} : Answer(FALSE, l)
    BY <1>27 DEF UnwindFails
  <2> QED BY <1>0, <2>1 DEF Answer, Settled
<1> QED BY <1>1, <1>2, <1>3, <1>4, <1>5, <1>6, <1>7, <1>8, <1>9, <1>10, <1>11, <1>12, <1>13,
           <1>14, <1>15, <1>16, <1>17, <1>18, <1>19, <1>20, <1>21, <1>22, <1>23, <1>24, <1>25, <1>26, <1>27
        DEF Next, Main, Thread, Terminated

(* The buffer holds the blocks read last.                                     *)
LEMMA BufferStep == IndInv /\ [Next]_vars => BufferOK' /\ BufInv'
<1> SUFFICES ASSUME IndInv, [Next]_vars PROVE BufferOK' /\ BufInv'
  OBVIOUS
<1>0. ControlOK /\ BufferOK /\ BufInv /\ PipeInv
  BY DEF IndInv, TypeOK, PipeInv
<1> USE ConstantsAssumption DEF ControlOK, BufferOK, BufInv, Opening, Feeding, Copying, Closing,
      vars, inputs, feedVars, pipeVars, thrVars, outVars
<1>1. CASE CreatePipe
  BY <1>0, <1>1 DEF CreatePipe
<1>2. CASE StartThread
  BY <1>0, <1>2 DEF StartThread
<1>3. CASE ReadFirst
  <2>1. off = 0 /\ mpc = "read"
    BY <1>0, <1>3 DEF PipeInv, EndsInv, ReadFirst
  <2> QED BY <1>0, <1>3, <2>1, ReadStep DEF ReadFirst
<1>4. CASE FeedWrite
  <2>1. off \in Nat /\ Len(buf) \in Nat /\ off <= Len(buf) /\ Len(buf) <= BufSize /\ BufSize \in Nat
    BY <1>0, <1>4 DEF FeedWrite, BufferOK
  <2>2. off' \in 0..BufSize /\ off' <= Len(buf)
    <3>1. off' = off + Lesser(Len(buf) - off, Room) /\ Room > 0
      BY <1>4, Zenon DEF FeedWrite, WritePipe
    <3>2. Room \in Int
      BY <1>0, ConstantsAssumption DEF Room, PipeOK
    <3> QED BY ONLY <2>1, <3>1, <3>2 DEF Lesser
  <2>3. UNCHANGED <<stdin, size, buf, rd, cut, tries>> /\ moved' \in BOOLEAN
    BY <1>0, <1>4 DEF FeedWrite
  <2>4. mpc = "feed" /\ mpc' \in {"feed", "check"}
    BY <1>4 DEF FeedWrite
  <2> QED BY <1>0, <2>2, <2>3, <2>4
<1>5. CASE FeedStops
  BY <1>0, <1>5 DEF FeedStops
<1>6. CASE FeedCheck
  <2>1. tries' \in 0..MaxTries /\ (mpc' \in {"feed", "check"} => tries' < MaxTries)
    BY <1>0, <1>6 DEF FeedCheck, GivesUp
  <2>2. mpc = "check" /\ mpc' \in {"feed", "proc"} /\ moved' = FALSE
    BY <1>0, <1>6 DEF FeedCheck, GivesUp
  <2>3. UNCHANGED <<stdin, size, buf, rd, cut, off>>
    BY <1>6 DEF FeedCheck, GivesUp
  <2> QED BY <1>0, <2>1, <2>2, <2>3
<1>7. CASE ReadProc
  BY <1>0, <1>7 DEF ReadProc
<1>8. CASE OpenInfo
  BY <1>0, <1>8 DEF OpenInfo, Open
<1>9. CASE OpenCore
  BY <1>0, <1>9 DEF OpenCore, Open
<1>10. CASE Unlock
  BY <1>0, <1>10 DEF Unlock
<1>11. CASE FirstCopy
  BY <1>0, <1>11 DEF FirstCopy
<1>12. CASE Send
  <2>1. off \in Nat /\ Len(buf) \in Nat /\ off <= Len(buf) /\ Len(buf) <= BufSize /\ BufSize \in Nat
    BY <1>0, <1>12 DEF Send, BufferOK
  <2>2. off' \in 0..BufSize /\ off' <= Len(buf)
    <3>1. off' = off + Lesser(Len(buf) - off, Room) /\ Room > 0
      BY <1>12, Zenon DEF Send, WritePipe
    <3>2. Room \in Int
      BY <1>0, ConstantsAssumption DEF Room, PipeOK
    <3> QED BY ONLY <2>1, <3>1, <3>2 DEF Lesser
  <2>3. UNCHANGED <<stdin, size, buf, rd, cut, tries>> /\ moved' \in BOOLEAN
    BY <1>0, <1>12 DEF Send
  <2>4. mpc = "send" /\ mpc' = "send"
    BY <1>12 DEF Send
  <2> QED BY <1>0, <2>2, <2>3, <2>4
<1>13. CASE Sent
  BY <1>0, <1>13 DEF Sent, SendEnds
<1>14. CASE ReadNext
  <2>1. /\ buf' \in Seq(Nat) /\ rd' \in 0..size /\ Len(buf') <= BufSize /\ Len(buf') <= rd'
        /\ buf' = Blocks(rd' - Len(buf'), Len(buf'))
        /\ cut' \in BOOLEAN /\ (buf' = <<>> => rd' = size \/ cut')
    BY <1>0, <1>14, ReadStep DEF ReadNext
  <2>2. UNCHANGED <<stdin, size, moved, tries>> /\ mpc = "loop"
    BY <1>14 DEF ReadNext
  <2>3. CASE buf' = <<>>
    <3>1. mpc' = "join" /\ off' = off
      BY <1>14, <2>3 DEF ReadNext
    <3> QED BY <1>0, <2>1, <2>2, <2>3, <3>1
  <2>4. CASE buf' # <<>>
    <3>1. mpc' = "copy" /\ off' = 0
      BY <1>14, <2>4 DEF ReadNext
    <3> QED BY <1>0, <2>1, <2>2, <2>4, <3>1
  <2> QED BY <2>3, <2>4
<1>15. CASE CopyNext
  BY <1>0, <1>15 DEF CopyNext
<1>16. CASE Join
  BY <1>0, <1>16 DEF Join
<1>17. CASE CloseCore
  BY <1>0, <1>17 DEF CloseCore, Close
<1>18. CASE CloseInfo
  BY <1>0, <1>18 DEF CloseInfo, Close
<1>19. CASE PrepareRead
  BY <1>0, <1>19 DEF PrepareRead, TakeBlock
<1>20. CASE PrepareDone
  BY <1>0, <1>20 DEF PrepareDone, Answer
<1>21. CASE PrepareFails
  BY <1>0, <1>21 DEF PrepareFails, Answer
<1>22. CASE PassLock
  BY <1>0, <1>22 DEF PassLock
<1>23. CASE DumpCrash
  BY <1>0, <1>23 DEF DumpCrash
<1>24. CASE DumpRead
  BY <1>0, <1>24 DEF DumpRead, TakeBlock
<1>25. CASE DumpEnd
  BY <1>0, <1>25 DEF DumpEnd
<1>26. CASE UNCHANGED vars
  BY <1>0, <1>26
<1>27. CASE UnwindFails
  BY <1>0, <1>27 DEF UnwindFails, Answer
<1> QED BY <1>1, <1>2, <1>3, <1>4, <1>5, <1>6, <1>7, <1>8, <1>9, <1>10, <1>11, <1>12, <1>13,
           <1>14, <1>15, <1>16, <1>17, <1>18, <1>19, <1>20, <1>21, <1>22, <1>23, <1>24, <1>25, <1>26, <1>27
        DEF Next, Main, Thread, Terminated

(* The ends of the pipe follow from where main and the thread are.            *)
LEMMA EndsStep == IndInv /\ [Next]_vars => EndsInv'
<1> SUFFICES ASSUME IndInv, [Next]_vars PROVE EndsInv'
  OBVIOUS
<1>0. ControlOK /\ LockInv /\ BufferOK /\ PipeOK /\ EndsInv
  BY DEF IndInv, TypeOK, PipeInv
<1> USE ConstantsAssumption DEF EndsInv, PipeOK, Opening, Feeding, Copying, Closing,
      vars, inputs, feedVars, pipeVars, thrVars, outVars
<1>1. CASE CreatePipe
  BY <1>0, <1>1 DEF CreatePipe
<1>2. CASE StartThread
  BY <1>0, <1>2 DEF StartThread
<1>3. CASE ReadFirst
  BY <1>0, <1>3 DEF ReadFirst
<1>4. CASE FeedWrite
  BY <1>0, <1>4 DEF FeedWrite
<1>5. CASE FeedStops
  BY <1>0, <1>5 DEF FeedStops
<1>6. CASE FeedCheck
  BY <1>0, <1>6 DEF FeedCheck
<1>7. CASE ReadProc
  BY <1>0, <1>7 DEF ReadProc
<1>8. CASE OpenInfo
  BY <1>0, <1>8 DEF OpenInfo, Open
<1>9. CASE OpenCore
  BY <1>0, <1>9 DEF OpenCore, Open
<1>10. CASE Unlock
  BY <1>0, <1>10 DEF Unlock
<1>11. CASE FirstCopy
  BY <1>0, <1>11 DEF FirstCopy
<1>12. CASE Send
  BY <1>0, <1>12 DEF Send, SendEnds
<1>13. CASE Sent
  BY <1>0, <1>13 DEF Sent, SendEnds
<1>14. CASE ReadNext
  BY <1>0, <1>14 DEF ReadNext, ReadBlock, Available, Lesser
<1>15. CASE CopyNext
  BY <1>0, <1>15 DEF CopyNext
<1>16. CASE Join
  BY <1>0, <1>16 DEF Join
<1>17. CASE CloseCore
  BY <1>0, <1>17 DEF CloseCore, Close
<1>18. CASE CloseInfo
  BY <1>0, <1>18 DEF CloseInfo, Close
<1>19. CASE PrepareRead
  BY <1>0, <1>19 DEF PrepareRead, TakeBlock
<1>20. CASE PrepareDone
  BY <1>0, <1>20 DEF PrepareDone, Answer
<1>21. CASE PrepareFails
  <2>1. \E l \in SUBSET {"err"} : Answer(FALSE, l)
    BY <1>21, Zenon DEF PrepareFails
  <2> QED BY <1>0, <2>1 DEF Answer
<1>22. CASE PassLock
  BY <1>0, <1>22 DEF PassLock
<1>23. CASE DumpCrash
  BY <1>0, <1>23 DEF DumpCrash
<1>24. CASE DumpRead
  BY <1>0, <1>24 DEF DumpRead, TakeBlock
<1>25. CASE DumpEnd
  BY <1>0, <1>25 DEF DumpEnd, LockInv
<1>26. CASE UNCHANGED vars
  BY <1>0, <1>26
<1>27. CASE UnwindFails
  <2>1. \E l \in SUBSET {"err"} : Answer(FALSE, l)
    BY <1>27, Zenon DEF UnwindFails
  <2> QED BY <1>0, <2>1 DEF Answer
<1> QED BY <1>1, <1>2, <1>3, <1>4, <1>5, <1>6, <1>7, <1>8, <1>9, <1>10, <1>11, <1>12, <1>13,
           <1>14, <1>15, <1>16, <1>17, <1>18, <1>19, <1>20, <1>21, <1>22, <1>23, <1>24, <1>25, <1>26, <1>27
        DEF Next, Main, Thread, Terminated

(* What goes through the pipe is the beginning of the core.                   *)
LEMMA PrefixStep == IndInv /\ [Next]_vars => PipeOK' /\ UnwinderSeesPrefix'
<1> SUFFICES ASSUME IndInv, [Next]_vars PROVE PipeOK' /\ UnwinderSeesPrefix'
  OBVIOUS
<1>0. BufferOK /\ BufInv /\ PipeOK /\ PipeInv
  BY DEF IndInv, TypeOK, PipeInv
<1> USE ConstantsAssumption DEF PipeOK, UnwinderSeesPrefix,
      vars, inputs, feedVars, pipeVars, thrVars, outVars
<1>1. CASE CreatePipe
  BY <1>0, <1>1 DEF CreatePipe, PipeInv
<1>2. CASE StartThread
  BY <1>0, <1>2 DEF StartThread, PipeInv
<1>3. CASE ReadFirst
  BY <1>0, <1>3 DEF ReadFirst, PipeInv
<1>4. CASE FeedWrite
  <2>1. writeEnd /\ readEnd /\ WritePipe /\ off < Len(buf)
    BY <1>0, <1>4 DEF FeedWrite, PipeInv, EndsInv, Feeding
  <2>2. Len(fed) + Len(pipe) = rd - Len(buf) + off
    BY <1>0, <2>1 DEF PipeInv, CountInv
  <2>3. /\ pipe' \in Seq(Nat) /\ Len(pipe') <= PipeCap
        /\ fed \o pipe' = Blocks(0, Len(fed) + Len(pipe'))
    BY <1>0, <2>1, <2>2, WriteStep DEF PipeInv
  <2> QED BY <1>0, <1>4, <2>3 DEF FeedWrite
<1>5. CASE FeedStops
  BY <1>0, <1>5 DEF FeedStops, PipeInv
<1>6. CASE FeedCheck
  BY <1>0, <1>6 DEF FeedCheck, PipeInv
<1>7. CASE ReadProc
  BY <1>0, <1>7 DEF ReadProc, PipeInv
<1>8. CASE OpenInfo
  BY <1>0, <1>8 DEF OpenInfo, Open, PipeInv
<1>9. CASE OpenCore
  BY <1>0, <1>9 DEF OpenCore, Open, PipeInv
<1>10. CASE Unlock
  BY <1>0, <1>10 DEF Unlock, PipeInv
<1>11. CASE FirstCopy
  BY <1>0, <1>11 DEF FirstCopy, PipeInv
<1>12. CASE Send
  <2>1. writeEnd /\ readEnd /\ WritePipe /\ off < Len(buf)
    BY <1>0, <1>12 DEF Send, SendEnds, BufferOK, BufInv, Copying
  <2>2. Len(fed) + Len(pipe) = rd - Len(buf) + off
    BY <1>0, <2>1 DEF PipeInv, CountInv
  <2>3. /\ pipe' \in Seq(Nat) /\ Len(pipe') <= PipeCap
        /\ fed \o pipe' = Blocks(0, Len(fed) + Len(pipe'))
    BY <1>0, <2>1, <2>2, WriteStep DEF PipeInv
  <2> QED BY <1>0, <1>12, <2>3 DEF Send
<1>13. CASE Sent
  BY <1>0, <1>13 DEF Sent, SendEnds, PipeInv
<1>14. CASE ReadNext
  BY <1>0, <1>14 DEF ReadNext, PipeInv
<1>15. CASE CopyNext
  BY <1>0, <1>15 DEF CopyNext, PipeInv
<1>16. CASE Join
  BY <1>0, <1>16 DEF Join, PipeInv
<1>17. CASE CloseCore
  BY <1>0, <1>17 DEF CloseCore, Close, PipeInv
<1>18. CASE CloseInfo
  BY <1>0, <1>18 DEF CloseInfo, Close, PipeInv
<1>19. CASE PrepareRead
  <2>1. /\ fed' \in Seq(Nat) /\ pipe' \in Seq(Nat) /\ Len(pipe') = Len(pipe) - 1
        /\ fed' \o pipe' = fed \o pipe
        /\ Len(fed') + Len(pipe') = Len(fed) + Len(pipe)
    BY <1>0, <1>19, TakeStep DEF PrepareRead, PipeInv
  <2>2. fed' \o pipe' = Blocks(0, Len(fed') + Len(pipe'))
    BY <1>0, <2>1, Zenon DEF PipeInv
  <2>3. Len(pipe') <= PipeCap
    BY <1>0, <2>1
  <2> QED BY <1>0, <1>19, <2>1, <2>2, <2>3 DEF PrepareRead
<1>20. CASE PrepareDone
  BY <1>0, <1>20 DEF PrepareDone, Answer, PipeInv
<1>21. CASE PrepareFails
  <2>1. \E l \in SUBSET {"err"} : Answer(FALSE, l)
    BY <1>21, Zenon DEF PrepareFails
  <2> QED BY <1>0, <2>1 DEF Answer, PipeInv
<1>22. CASE PassLock
  BY <1>0, <1>22 DEF PassLock, PipeInv
<1>23. CASE DumpCrash
  BY <1>0, <1>23 DEF DumpCrash, PipeInv
<1>24. CASE DumpRead
  <2>1. /\ fed' \in Seq(Nat) /\ pipe' \in Seq(Nat) /\ Len(pipe') = Len(pipe) - 1
        /\ fed' \o pipe' = fed \o pipe
        /\ Len(fed') + Len(pipe') = Len(fed) + Len(pipe)
    BY <1>0, <1>24, TakeStep DEF DumpRead, PipeInv
  <2>2. fed' \o pipe' = Blocks(0, Len(fed') + Len(pipe'))
    BY <1>0, <2>1, Zenon DEF PipeInv
  <2>3. Len(pipe') <= PipeCap
    BY <1>0, <2>1
  <2> QED BY <1>0, <1>24, <2>1, <2>2, <2>3 DEF DumpRead
<1>25. CASE DumpEnd
  <2>1. fed' = fed /\ pipe' = <<>>
    BY <1>25 DEF DumpEnd
  <2>2. fed' \o pipe' = Blocks(0, Len(fed') + Len(pipe'))
    BY <1>0, <2>1, EndStep DEF PipeInv
  <2>3. pipe' \in Seq(Nat) /\ Len(pipe') <= PipeCap
    BY <2>1
  <2>4. PipeOK'
    BY <1>0, <1>25, <2>1, <2>3 DEF DumpEnd
  <2> QED BY <2>2, <2>4, Zenon DEF UnwinderSeesPrefix
<1>26. CASE UNCHANGED vars
  BY <1>0, <1>26 DEF PipeInv
<1>27. CASE UnwindFails
  <2>1. \E l \in SUBSET {"err"} : Answer(FALSE, l)
    BY <1>27, Zenon DEF UnwindFails
  <2> QED BY <1>0, <2>1 DEF Answer, PipeInv
<1> QED BY <1>1, <1>2, <1>3, <1>4, <1>5, <1>6, <1>7, <1>8, <1>9, <1>10, <1>11, <1>12, <1>13,
           <1>14, <1>15, <1>16, <1>17, <1>18, <1>19, <1>20, <1>21, <1>22, <1>23, <1>24, <1>25, <1>26, <1>27
        DEF Next, Main, Thread, Terminated

(* The unwinder misses none of it.                                            *)
LEMMA CountStep == IndInv /\ [Next]_vars => CountInv'
<1> SUFFICES ASSUME IndInv, [Next]_vars PROVE CountInv'
  OBVIOUS
<1>0. ControlOK /\ LockInv /\ BufferOK /\ BufInv /\ PipeOK /\ PipeInv
  BY DEF IndInv, TypeOK, PipeInv
<1> USE ConstantsAssumption DEF CountInv, Over, Ended, Opening, Feeding, Copying, Closing,
      vars, inputs, feedVars, pipeVars, thrVars, outVars
<1>1. CASE CreatePipe
  <2>1. rd = 0 /\ buf = <<>> /\ off = 0 /\ fed = <<>> /\ pipe = <<>> /\ ~readEnd /\ tpc = "none"
    BY <1>0, <1>1 DEF CreatePipe, PipeInv, EndsInv, LockInv
  <2>2. UNCHANGED <<rd, cut, buf, off, fed, pipe, tpc, size, want, unwOk>> /\ mpc' \in {"create", "proc"}
    BY <1>1 DEF CreatePipe
  <2>3. Len(fed) = 0 /\ Len(pipe) = 0 /\ Len(buf) = 0
    BY <2>1
  <2>4. readEnd' => writeEnd'
    BY <2>1, <1>1 DEF CreatePipe
  <2>5. Len(fed') + Len(pipe') = rd' - Len(buf') + off'
    <3>1. fed' = fed /\ pipe' = pipe /\ rd' = rd /\ buf' = buf /\ off' = off
      BY <1>1 DEF CreatePipe
    <3>2. Len(fed') = 0 /\ Len(pipe') = 0 /\ Len(buf') = 0
      BY <2>3, <3>1, Zenon
    <3>3. rd' = 0 /\ off' = 0
      BY <2>1, <3>1, Zenon
    <3> QED BY ONLY <3>2, <3>3
  <2> QED BY <2>1, <2>2, <2>4, <2>5
<1>2. CASE StartThread
  BY <1>0, <1>2 DEF StartThread, PipeInv
<1>3. CASE ReadFirst
  <2>1. rd' - Len(buf') = rd
    BY <1>0, <1>3, ReadStep DEF ReadFirst
  <2>2. rd = 0 /\ off = 0 /\ Len(buf) = 0 /\ mpc = "read" /\ writeEnd /\ readEnd
    BY <1>0, <1>3 DEF ReadFirst, PipeInv, EndsInv
  <2> QED BY <1>0, <1>3, <2>1, <2>2 DEF ReadFirst, PipeInv
<1>4. CASE FeedWrite
  <2>1. writeEnd /\ readEnd /\ mpc = "feed" /\ WritePipe /\ off < Len(buf)
    BY <1>0, <1>4 DEF FeedWrite, PipeInv, EndsInv
  <2>2. Len(fed) + Len(pipe) = rd - Len(buf) + off
    BY <1>0, <2>1 DEF PipeInv
  <2>3. Len(fed) + Len(pipe') = rd - Len(buf) + off'
    BY <1>0, <2>1, <2>2, WriteStep DEF PipeInv
  <2> QED BY <1>0, <1>4, <2>1, <2>3 DEF FeedWrite, PipeInv
<1>5. CASE FeedStops
  BY <1>0, <1>5 DEF FeedStops, PipeInv
<1>6. CASE FeedCheck
  BY <1>0, <1>6 DEF FeedCheck, PipeInv
<1>7. CASE ReadProc
  BY <1>0, <1>7 DEF ReadProc, PipeInv
<1>8. CASE OpenInfo
  BY <1>0, <1>8 DEF OpenInfo, Open, PipeInv
<1>9. CASE OpenCore
  BY <1>0, <1>9 DEF OpenCore, Open, PipeInv
<1>10. CASE Unlock
  BY <1>0, <1>10 DEF Unlock, PipeInv
<1>11. CASE FirstCopy
  BY <1>0, <1>11 DEF FirstCopy, PipeInv
<1>12. CASE Send
  <2>1. writeEnd /\ readEnd /\ mpc = "send" /\ WritePipe /\ off < Len(buf)
    BY <1>0, <1>12 DEF Send, SendEnds, BufferOK, BufInv, Copying
  <2>2. Len(fed) + Len(pipe) = rd - Len(buf) + off
    BY <1>0, <2>1 DEF PipeInv
  <2>3. Len(fed) + Len(pipe') = rd - Len(buf) + off'
    BY <1>0, <2>1, <2>2, WriteStep DEF PipeInv
  <2> QED BY <1>0, <1>12, <2>1, <2>3 DEF Send, PipeInv
<1>13. CASE Sent
  BY <1>0, <1>13 DEF Sent, SendEnds, PipeInv
<1>14. CASE ReadNext
  <2>1. mpc = "loop" /\ rd' - Len(buf') = rd /\ (buf' = <<>> => rd' = rd /\ (rd' = size \/ cut'))
    BY <1>0, <1>14, ReadStep DEF ReadNext
  <2>2. rd \in Nat /\ Len(buf) \in Nat
    BY <1>0 DEF BufferOK
  <2>3. writeEnd /\ readEnd => Len(fed) + Len(pipe) = rd
    <3>1. writeEnd /\ readEnd => Len(fed) + Len(pipe) = rd - Len(buf) + Len(buf)
      BY <1>0, <2>1 DEF PipeInv
    <3> QED BY ONLY <2>2, <3>1
  <2>4. CASE buf' = <<>>
    <3>1. mpc' = "join" /\ writeEnd' = FALSE /\ Over' /\ rd' = rd
      BY <1>14, <2>1, <2>4 DEF ReadNext, Over
    <3> QED BY <1>0, <1>14, <2>3, <3>1 DEF ReadNext, PipeInv
  <2>5. CASE buf' # <<>>
    <3>1. mpc' = "copy" /\ off' = 0 /\ writeEnd' = writeEnd
      BY <1>14, <2>5 DEF ReadNext
    <3>2. rd' - Len(buf') + off' = rd
      BY <2>1, <2>2, <3>1
    <3> QED BY <1>0, <1>14, <2>1, <2>3, <3>1, <3>2 DEF ReadNext, PipeInv
  <2> QED BY <2>4, <2>5
<1>15. CASE CopyNext
  BY <1>0, <1>15 DEF CopyNext, PipeInv
<1>16. CASE Join
  BY <1>0, <1>16 DEF Join, PipeInv
<1>17. CASE CloseCore
  BY <1>0, <1>17 DEF CloseCore, Close, PipeInv
<1>18. CASE CloseInfo
  BY <1>0, <1>18 DEF CloseInfo, Close, PipeInv
<1>19. CASE PrepareRead
  <2>1. Len(fed') + Len(pipe') = Len(fed) + Len(pipe)
    BY <1>0, <1>19, TakeStep DEF PrepareRead, PipeInv
  <2>2. pipe # <<>> /\ tpc = "prepare" /\ tpc' = tpc /\ mpc # "pipe" /\ mpc' = mpc
    BY <1>0, <1>19 DEF PrepareRead, TakeBlock, LockInv
  <2> QED BY <1>0, <1>19, <2>1, <2>2 DEF PrepareRead, PipeInv
<1>20. CASE PrepareDone
  BY <1>0, <1>20 DEF PrepareDone, Answer, PipeInv
<1>21. CASE PrepareFails
  <2>1. \E l \in SUBSET {"err"} : Answer(FALSE, l)
    BY <1>21, Zenon DEF PrepareFails
  <2> QED BY <1>0, <2>1 DEF Answer, PipeInv
<1>22. CASE PassLock
  BY <1>0, <1>22 DEF PassLock, PipeInv
<1>23. CASE DumpCrash
  BY <1>0, <1>23 DEF DumpCrash, PipeInv
<1>24. CASE DumpRead
  <2>1. Len(fed') + Len(pipe') = Len(fed) + Len(pipe)
    BY <1>0, <1>24, TakeStep DEF DumpRead, PipeInv
  <2>2. pipe # <<>> /\ tpc = "dump" /\ tpc' = tpc /\ mpc # "pipe" /\ mpc' = mpc
    BY <1>0, <1>24 DEF DumpRead, TakeBlock, LockInv
  <2> QED BY <1>0, <1>24, <2>1, <2>2 DEF DumpRead, PipeInv
<1>25. CASE DumpEnd
  <2>1. fed' = fed /\ pipe' = <<>> /\ readEnd' = FALSE /\ unwOk' = unwOk /\ mpc # "pipe" /\ mpc' = mpc
    BY <1>0, <1>25 DEF DumpEnd, LockInv
  <2>2. unwOk => Len(fed) >= want \/ (Over /\ Len(fed) >= rd)
    <3>1. rd \in Nat /\ Len(fed) \in Nat
      BY <1>0 DEF BufferOK, PipeOK
    <3>2. CASE Len(fed) >= want
      BY <3>2
    <3>3. CASE unwOk /\ AtEof
      <4>1. unwind /\ readEnd /\ ~writeEnd /\ pipe = <<>>
        BY <1>0, <1>25, <3>3 DEF AtEof, DumpEnd, PipeInv, EndsInv, LockInv
      <4>2. Over /\ Len(fed) + Len(pipe) = rd /\ Len(pipe) = 0
        BY <1>0, <4>1 DEF PipeInv
      <4> QED BY <3>1, <4>2
    <3> QED BY <1>25, <3>2, <3>3 DEF DumpEnd
  <2>3. want' = want /\ rd' = rd /\ Over' = Over
    BY <1>25, <2>1 DEF DumpEnd, Over
  <2> QED BY <2>1, <2>2, <2>3
<1>26. CASE UNCHANGED vars
  BY <1>0, <1>26 DEF PipeInv
<1>27. CASE UnwindFails
  <2>1. \E l \in SUBSET {"err"} : Answer(FALSE, l)
    BY <1>27, Zenon DEF UnwindFails
  <2> QED BY <1>0, <2>1 DEF Answer, PipeInv
<1> QED BY <1>1, <1>2, <1>3, <1>4, <1>5, <1>6, <1>7, <1>8, <1>9, <1>10, <1>11, <1>12, <1>13,
           <1>14, <1>15, <1>16, <1>17, <1>18, <1>19, <1>20, <1>21, <1>22, <1>23, <1>24, <1>25, <1>26, <1>27
        DEF Next, Main, Thread, Terminated

(* The core output is what has been read.                                     *)
LEMMA CoreStep == IndInv /\ [Next]_vars => CoreOK' /\ CoreInv'
<1> SUFFICES ASSUME IndInv, [Next]_vars PROVE CoreOK' /\ CoreInv'
  OBVIOUS
<1>0. ControlOK /\ BufferOK /\ BufInv /\ PipeInv /\ CoreOK /\ CoreInv
  BY DEF IndInv, TypeOK, PipeInv
<1> USE ConstantsAssumption DEF CoreOK, CoreInv, Opening, Feeding, Copying, Closing,
      vars, inputs, feedVars, pipeVars, thrVars, outVars
<1>1. CASE CreatePipe
  BY <1>0, <1>1 DEF CreatePipe
<1>2. CASE StartThread
  BY <1>0, <1>2 DEF StartThread
<1>3. CASE ReadFirst
  <2>1. rd = 0 /\ mpc = "read"
    BY <1>0, <1>3 DEF PipeInv, EndsInv, ReadFirst
  <2> QED BY <1>0, <1>3, <2>1, ReadStep DEF ReadFirst, BufferOK
<1>4. CASE FeedWrite
  BY <1>0, <1>4 DEF FeedWrite, WritePipe, Room, Lesser
<1>5. CASE FeedStops
  BY <1>0, <1>5 DEF FeedStops
<1>6. CASE FeedCheck
  BY <1>0, <1>6 DEF FeedCheck
<1>7. CASE ReadProc
  BY <1>0, <1>7 DEF ReadProc
<1>8. CASE OpenInfo
  BY <1>0, <1>8 DEF OpenInfo, Open
<1>9. CASE OpenCore
  BY <1>0, <1>9 DEF OpenCore, Open
<1>10. CASE Unlock
  BY <1>0, <1>10 DEF Unlock
<1>11. CASE FirstCopy
  <2>1. mpc = "first" /\ mpc' \in {"send", "loop"} /\ rd' = rd /\ buf' = buf /\ unwind' = unwind
    BY <1>11 DEF FirstCopy
  <2>2. CASE writeEnd /\ unwind
    <3>1. WriteCore
      BY <1>11, <2>2 DEF FirstCopy
    <3>2. /\ coreOut' \in Seq(Nat) /\ lost' \in BOOLEAN /\ (~lost' => ~lost)
          /\ ~lost' /\ coreOut = Blocks(0, rd - Len(buf)) => coreOut' = Blocks(0, rd)
      BY <1>0, <3>1, CopyStep
    <3>3. ~lost' => coreOut = Blocks(0, rd - Len(buf))
      BY <1>0, <2>1, <2>2, <3>2, NoBlocks DEF BufferOK
    <3> QED BY <2>1, <2>2, <3>2, <3>3
  <2>3. CASE ~(writeEnd /\ unwind)
    <3>1. coreOut' = coreOut /\ lost' = lost
      BY <1>11, <2>3 DEF FirstCopy
    <3>2. unwind /\ ~lost => coreOut = <<>> /\ rd = 0
      BY <1>0, <2>1, <2>3 DEF PipeInv, EndsInv
    <3> QED BY <1>0, <2>1, <3>1, <3>2, NoBlocks
  <2> QED BY <2>2, <2>3
<1>12. CASE Send
  BY <1>0, <1>12 DEF Send, WritePipe, SendEnds, Room, Lesser
<1>13. CASE Sent
  BY <1>0, <1>13 DEF Sent, SendEnds
<1>14. CASE ReadNext
  <2>1. mpc = "loop" /\ rd' - Len(buf') = rd /\ (buf' = <<>> => rd' = rd)
    BY <1>0, <1>14, ReadStep DEF ReadNext
  <2> QED BY <1>0, <1>14, <2>1 DEF ReadNext
<1>15. CASE CopyNext
  <2>1. /\ mpc = "copy" /\ mpc' = "send" /\ rd' = rd /\ buf' = buf /\ WriteCore
        /\ unwind' = unwind
    BY <1>15 DEF CopyNext
  <2>2. /\ coreOut' \in Seq(Nat) /\ lost' \in BOOLEAN /\ (~lost' => ~lost)
        /\ ~lost' /\ coreOut = Blocks(0, rd - Len(buf)) => coreOut' = Blocks(0, rd)
    BY <1>0, <2>1, CopyStep
  <2> QED BY <1>0, <2>1, <2>2
<1>16. CASE Join
  BY <1>0, <1>16 DEF Join
<1>17. CASE CloseCore
  BY <1>0, <1>17 DEF CloseCore, Close
<1>18. CASE CloseInfo
  BY <1>0, <1>18 DEF CloseInfo, Close
<1>19. CASE PrepareRead
  BY <1>0, <1>19 DEF PrepareRead, TakeBlock
<1>20. CASE PrepareDone
  <2>1. UNCHANGED <<unwind, mpc, buf, rd, coreOut, lost>>
    BY <1>20 DEF PrepareDone, Answer
  <2> QED BY <1>0, <2>1
<1>21. CASE PrepareFails
  <2>1. UNCHANGED <<unwind, mpc, buf, rd, coreOut, lost>>
    BY <1>21 DEF PrepareFails, Answer
  <2> QED BY <1>0, <2>1
<1>22. CASE PassLock
  BY <1>0, <1>22 DEF PassLock
<1>23. CASE DumpCrash
  BY <1>0, <1>23 DEF DumpCrash
<1>24. CASE DumpRead
  BY <1>0, <1>24 DEF DumpRead, TakeBlock
<1>25. CASE DumpEnd
  BY <1>0, <1>25 DEF DumpEnd
<1>26. CASE UNCHANGED vars
  BY <1>0, <1>26
<1>27. CASE UnwindFails
  <2>1. UNCHANGED <<unwind, mpc, buf, rd, coreOut, lost>>
    BY <1>27 DEF UnwindFails, Answer
  <2> QED BY <1>0, <2>1
<1> QED BY <1>1, <1>2, <1>3, <1>4, <1>5, <1>6, <1>7, <1>8, <1>9, <1>10, <1>11, <1>12, <1>13,
           <1>14, <1>15, <1>16, <1>17, <1>18, <1>19, <1>20, <1>21, <1>22, <1>23, <1>24, <1>25, <1>26, <1>27
        DEF Next, Main, Thread, Terminated

-----------------------------------------------------------------------------
(* The start of main satisfies the invariant.                                 *)
LEMMA InitInv == Init => IndInv
<1> SUFFICES ASSUME Init PROVE IndInv
  OBVIOUS
<1>1. size \in Nat /\ need \in Nat /\ want \in Nat /\ stdin \in {"core", "none"}
  BY ConstantsAssumption DEF Init
<1>2. ControlOK /\ LockInv
  BY DEF Init, ControlOK, MainStates, LockInv, Opening, Feeding, Copying, Closing
<1>3. PidOK /\ PidInv
  BY ConstantsAssumption DEF Init, PidOK, PidInv
<1>4. BufferOK /\ BufInv
  <2>1. BufferOK
    <3>1. buf = <<>> /\ rd = 0 /\ cut = FALSE /\ off = 0 /\ moved = FALSE /\ tries = 0
      BY DEF Init
    <3>2. buf \in Seq(Nat) /\ Len(buf) = 0
      BY ONLY <3>1
    <3>3. moved \in BOOLEAN /\ cut \in BOOLEAN
      BY <3>1, Zenon
    <3> QED BY <1>1, <3>1, <3>2, <3>3, ConstantsAssumption DEF BufferOK
  <2>2. buf = <<>> /\ Len(buf) = 0 /\ rd = 0 /\ off = 0 /\ tries = 0 /\ mpc = "pipe"
    BY DEF Init
  <2>3. buf = Blocks(rd - Len(buf), Len(buf))
    BY <2>2, NoBlocks
  <2> QED BY <2>1, <2>2, <2>3, ConstantsAssumption
          DEF BufInv, Opening, Feeding, Copying, Closing
<1>5. PipeOK /\ EndsInv
  <2>1. pipe = <<>> /\ fed = <<>> /\ unwOk = FALSE /\ writeEnd = FALSE /\ readEnd = FALSE
    BY DEF Init
  <2>2. pipe \in Seq(Nat) /\ fed \in Seq(Nat) /\ Len(pipe) <= PipeCap
    BY <2>1, ConstantsAssumption
  <2>3. unwind \in BOOLEAN
    BY ConstantsAssumption, Zenon DEF Init
  <2>4. PipeOK
    BY <1>1, <2>1, <2>2, <2>3 DEF PipeOK
  <2>5. mpc = "pipe" /\ tpc = "none" /\ buf = <<>> /\ rd = 0 /\ off = 0
    BY DEF Init
  <2> QED BY <2>1, <2>4, <2>5 DEF EndsInv, Feeding, Closing
<1>6. UnwinderSeesPrefix
  <2>1. fed \o pipe = <<>> /\ Len(fed) + Len(pipe) = 0
    BY DEF Init
  <2> QED BY <2>1, NoBlocks DEF UnwinderSeesPrefix
<1>7. CountInv
  BY DEF Init, CountInv
<1>8. CoreOK /\ CoreInv
  <2>1. coreOut = <<>> /\ lost = FALSE /\ mpc = "pipe" /\ buf = <<>> /\ rd = 0
    BY DEF Init
  <2>2. coreOut \in Seq(Nat) /\ rd = Len(buf)
    BY ONLY <2>1
  <2>3. lost \in BOOLEAN
    BY <2>1, Zenon
  <2> QED BY <2>1, <2>2, <2>3 DEF CoreOK, CoreInv, Opening, Feeding, Copying, Closing
<1> QED BY <1>2, <1>3, <1>4, <1>5, <1>6, <1>7, <1>8 DEF IndInv, TypeOK, PipeInv

(* Every step of main and of the dumper thread keeps the invariant.           *)
LEMMA StepInv == IndInv /\ [Next]_vars => IndInv'
  BY ControlStep, PidStep, BufferStep, EndsStep, PrefixStep, CountStep, CoreStep, Zenon
     DEF IndInv, TypeOK, PipeInv

(* Whatever the sizes of the core, of main's buffer and of the pipe, the      *)
(* faults and the order in which main and the thread run, IndInv holds.       *)
THEOREM Invariance == Spec => []IndInv
  BY InitInv, StepInv, PTL DEF Spec

(* main and info_dump_thread keep every variable, and the length of the pipe, *)
(* within what the code can put there.                                        *)
THEOREM TypeCorrect == Spec => []TypeOK
<1>1. IndInv => TypeOK
  BY Zenon DEF IndInv
<1> QED BY <1>1, Invariance, PTL

(* What main writes to the info pipe in its three places is, together, the    *)
(* beginning of the core: nothing is left out and nothing is sent twice.      *)
THEOREM PrefixSafe == Spec => []UnwinderSeesPrefix
<1>1. IndInv => UnwinderSeesPrefix
  BY Zenon DEF IndInv, PipeInv
<1> QED BY <1>1, Invariance, PTL

(* In a run that ends, an unwinder that succeeded has had all it asked for,   *)
(* as far as main could read it.                                              *)
THEOREM Served == Spec => []UnwinderServed
<1>1. IndInv => UnwinderServed
  BY DEF IndInv, TypeOK, BufferOK, PipeOK, PipeInv, CountInv, Over, Lesser, UnwinderServed
<1> QED BY <1>1, Invariance, PTL

(* With libunwind, main's loop has copied what it could read when it ends,    *)
(* which is the whole core unless a read failed, and unless a write did.      *)
THEOREM Copied == Spec => []CoreCopied
<1>1. IndInv => CoreCopied
  BY DEF IndInv, BufInv, CoreInv, CoreCopied, Closing
<1> QED BY <1>1, Invariance, PTL

(* dump_lock and pthread_join keep the thread's writing of the info stream    *)
(* between the opening and the closing of the outputs.                        *)
THEOREM OwnsOutputs == Spec => []DumpOwnsOutputs
<1>1. IndInv => DumpOwnsOutputs
  BY DEF IndInv, TypeOK, ControlOK, MainStates, LockInv, DumpOwnsOutputs, Alive, Ended,
         Opening, Feeding, Copying, Closing
<1> QED BY <1>1, Invariance, PTL

(* The thread changes run.pid at most once, and not after main has used it.   *)
THEOREM PidFixed == Spec => []PidSettled
<1>1. IndInv => PidSettled
  <2> SUFFICES ASSUME PidInv, NoPid \notin seen PROVE Cardinality(seen) <= 1
    BY Zenon DEF IndInv, PidSettled
  <2>1. seen \in SUBSET {pid}
    BY DEF PidInv
  <2>2. IsFiniteSet({pid}) /\ Cardinality({pid}) = 1
    BY FS_Singleton, Zenon
  <2>3. Cardinality(seen) <= Cardinality({pid})
    BY <2>1, <2>2, FS_Subset, Zenon
  <2> QED BY <2>2, <2>3
<1> QED BY <1>1, Invariance, PTL
=============================================================================
