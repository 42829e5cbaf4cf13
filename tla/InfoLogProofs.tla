--------------------------- MODULE InfoLogProofs ---------------------------
(* Proofs about InfoLog, for any number of messages, levels and proc files    *)
(* and any buffer: the exit code is honest although its bits can get lost,    *)
(* and the stream is not used after it was closed.                            *)
EXTENDS InfoLog, TLAPS

(* The part of the type invariant about logmsg.                               *)
CallTypes ==
  /\ exitcode \subseteq WithBit /\ counted \subseteq WithBit
  /\ call \in [Threads -> [at : {"idle", "read", "write", "check", "put"},
                            level : Levels, reg : SUBSET WithBit]]
  /\ mpc \in MainLabels /\ dpc \in DumperLabels
  /\ output \in BOOLEAN /\ stream \in {"none", "open", "closed"}

(* What a thread has read of exitcode to write it back with its own bit are   *)
(* bits that have been written before, and its own level has a bit.           *)
BitInv ==
  /\ BitsHonest
  /\ \A t \in Threads :
       /\ call[t].at \in {"read", "write"} => call[t].level \in WithBit
       /\ call[t].at = "write" => call[t].reg \subseteq counted

(* The stream and the pointer to it follow main.                              *)
StreamInv ==
  /\ mpc = "early" => stream = "none" /\ ~output
  /\ mpc \in {"opened", "copy", "joined", "close", "err1"} => stream = "open"
  /\ mpc \in {"late", "end"} => ~output

(* main logs only between the things it does, and the thread dumps only while *)
(* main copies, so that each knows the stream to be open when it uses it.     *)
UseInv ==
  /\ call["main"].at # "idle" => mpc \in {"early", "opened", "joined", "late"}
  /\ call["main"].at = "put" => mpc \in {"opened", "joined"}
  /\ call["dumper"].at # "idle" => dpc \notin {"none", "done"}
  /\ call["dumper"].at = "put" => mpc \in {"opened", "copy", "err1", "err1closed", "end"}
  /\ dpc \in {"dump", "named", "failed", "flush"} => mpc = "copy"
  /\ mpc \in {"joined", "close", "closed", "late"} => dpc \in {"none", "done"}

(* After the join only main updates exitcode, and nothing comes between its   *)
(* read and its write.                                                        *)
RegInv ==
  AfterJoin /\ call["main"].at = "write" => exitcode \subseteq call["main"].reg

(* All of it but what is about the text.                                      *)
IndInv == CallTypes /\ BitInv /\ StreamInv /\ UseInv /\ RegInv
-----------------------------------------------------------------------------
(* The initial states have it.                                                *)
LEMMA InitHolds == Init => IndInv
<1> SUFFICES ASSUME Init PROVE IndInv
  OBVIOUS
<1>1. call = [t \in Threads |-> Idle] /\ Idle.at = "idle"
  BY DEF Init, Idle
<1>2. dpc \in {"prepare", "none"}
  BY DEF Init
<1>3. call \in [Threads -> [at : {"idle", "read", "write", "check", "put"},
                           level : Levels, reg : SUBSET WithBit]]
  BY <1>1 DEF Idle, Levels
<1>4. CallTypes
  BY <1>2, <1>3, Zenon DEF Init, CallTypes, MainLabels, DumperLabels
<1>5. \A t \in Threads : call[t].at = "idle"
  BY <1>1, Zenon
<1>6. BitInv
  BY <1>5 DEF Init, BitInv, BitsHonest
<1>7. StreamInv
  BY DEF Init, StreamInv
<1>8. UseInv
  BY <1>2, <1>5 DEF Init, UseInv, Threads
<1>9. RegInv
  BY DEF Init, RegInv, AfterJoin
<1> QED
  BY <1>4, <1>6, <1>7, <1>8, <1>9 DEF IndInv

(* Every action keeps the types.                                              *)
LEMMA TypesStep ==
  ASSUME CallTypes, [Next]_vars PROVE CallTypes'
<1>1. ASSUME NEW t \in Threads, ReadBits(t) PROVE CallTypes'
  BY <1>1 DEF ReadBits, CallTypes, Threads, MainLabels, DumperLabels, streamVars,
         places, history
<1>2. ASSUME NEW t \in Threads, WriteBits(t) PROVE CallTypes'
  BY <1>2 DEF WriteBits, CallTypes, Threads, MainLabels, DumperLabels, streamVars,
         places
<1>3. ASSUME NEW t \in Threads, CheckOutput(t) PROVE CallTypes'
  BY <1>3 DEF CheckOutput, CallTypes, Threads, MainLabels, DumperLabels, streamVars,
         places, history
<1>4. ASSUME NEW t \in Threads, PutComment(t) PROVE CallTypes'
  BY <1>4 DEF PutComment, CallTypes, Threads, MainLabels, DumperLabels, places, Put, history
<1>5. CASE MainLogs
  BY <1>5, LogAssumption DEF MainLogs, LogCall, HasBit, CallTypes, Levels, Threads,
         MainLabels, DumperLabels, streamVars, places, history
<1>6. CASE OpenInfo
  BY <1>6 DEF OpenInfo, MainAt, CallTypes, Threads, MainLabels, DumperLabels, history
<1>7. CASE OpenInfoFails
  BY <1>7 DEF OpenInfoFails, MainAt, CallTypes, Threads, MainLabels, DumperLabels,
         streamVars, history
<1>8. CASE ForkFilter
  BY <1>8 DEF ForkFilter, MainAt, Forks, CallTypes, Threads, MainLabels,
         DumperLabels, streamVars, history
<1>9. CASE OpenCore
  BY <1>9 DEF OpenCore, MainAt, CallTypes, Threads, MainLabels, DumperLabels,
         streamVars, history
<1>10. CASE OpenCoreFails
  BY <1>10 DEF OpenCoreFails, MainAt, CallTypes, Threads, MainLabels, DumperLabels,
         streamVars, history
<1>11. CASE Join
  BY <1>11 DEF Join, MainAt, CallTypes, Threads, MainLabels, DumperLabels,
         streamVars, history
<1>12. CASE WaitFilter
  BY <1>12, LogAssumption DEF WaitFilter, MainAt, LogCall, HasBit, CallTypes,
         Levels, Threads, MainLabels, DumperLabels, streamVars, history
<1>13. CASE ForkNotify
  BY <1>13 DEF ForkNotify, MainAt, Forks, CallTypes, Threads, MainLabels,
         DumperLabels, streamVars, history
<1>14. CASE CoreClosed
  BY <1>14 DEF CoreClosed, MainAt, CallTypes, Threads, MainLabels, DumperLabels,
         streamVars, history
<1>15. CASE CloseStream
  BY <1>15 DEF CloseStream, MainAt, CallTypes, Threads, MainLabels, DumperLabels,
         history
<1>16. CASE SetNull
  BY <1>16 DEF SetNull, MainAt, CallTypes, Threads, MainLabels, DumperLabels, history
<1>17. CASE Return
  BY <1>17 DEF Return, MainAt, CallTypes, Threads, MainLabels, DumperLabels,
         streamVars, history
<1>18. CASE DumperLogs
  BY <1>18, LogAssumption DEF DumperLogs, LogCall, HasBit, CallTypes, Levels,
         Threads, MainLabels, DumperLabels, streamVars, places, history
<1>19. CASE PassLock
  BY <1>19 DEF PassLock, DumperAt, CallTypes, Threads, MainLabels, DumperLabels,
         streamVars, history
<1>20. CASE ItemName
  BY <1>20 DEF ItemName, DumperAt, Writes, Put, CallTypes, Threads, MainLabels,
         DumperLabels, history
<1>21. CASE ItemUnreadable
  BY <1>21, LogAssumption DEF ItemUnreadable, DumperAt, LogCall, HasBit, CallTypes,
         Levels, Threads, MainLabels, DumperLabels, streamVars, history
<1>22. CASE ItemValue
  BY <1>22 DEF ItemValue, DumperAt, Writes, Put, CallTypes, Threads, MainLabels,
         DumperLabels, history
<1>23. CASE Flush
  BY <1>23 DEF Flush, DumperAt, CallTypes, Threads, MainLabels, DumperLabels, history
<1>24. CASE DumpEnds
  BY <1>24 DEF DumpEnds, DumperAt, CallTypes, Threads, MainLabels, DumperLabels,
         streamVars, history
<1>25. ASSUME NEW x \in Children, Exec(x) PROVE CallTypes'
  BY <1>25 DEF Exec, CallTypes, Threads, MainLabels, DumperLabels, streamVars, history
<1>26. ASSUME NEW x \in Children, ExecFails(x) PROVE CallTypes'
  BY <1>26 DEF ExecFails, CallTypes, Threads, MainLabels, DumperLabels, history
<1>27. CASE UNCHANGED vars
  BY <1>27 DEF vars, CallTypes, Threads, MainLabels, DumperLabels, streamVars,
         places, history
<1> QED
  BY <1>1, <1>2, <1>3, <1>4, <1>5, <1>6, <1>7, <1>8, <1>9, <1>10, <1>11, <1>12,
         <1>13, <1>14, <1>15, <1>16, <1>17, <1>18, <1>19, <1>20, <1>21, <1>22, <1>23,
         <1>24, <1>25, <1>26, <1>27 DEF Next, Main, Dumper, Logmsg, Threads

(* No action sets a bit nobody logged, or writes back less than one bit.      *)
LEMMA BitStep ==
  ASSUME CallTypes, BitInv, [Next]_vars PROVE BitInv'
<1>1. ASSUME NEW t \in Threads, ReadBits(t) PROVE BitInv'
  BY <1>1 DEF ReadBits, CallTypes, BitInv, BitsHonest, Threads, streamVars, places,
         history
<1>2. ASSUME NEW t \in Threads, WriteBits(t) PROVE BitInv'
  BY <1>2 DEF WriteBits, CallTypes, BitInv, BitsHonest, Threads, streamVars, places
<1>3. ASSUME NEW t \in Threads, CheckOutput(t) PROVE BitInv'
  BY <1>3 DEF CheckOutput, CallTypes, BitInv, BitsHonest, Threads, streamVars,
         places, history
<1>4. ASSUME NEW t \in Threads, PutComment(t) PROVE BitInv'
  BY <1>4 DEF PutComment, CallTypes, BitInv, BitsHonest, Threads, places, Put, history
<1>5. CASE MainLogs
  BY <1>5, LogAssumption DEF MainLogs, LogCall, HasBit, CallTypes, BitInv,
         BitsHonest, Levels, Threads, streamVars, places, history
<1>6. CASE OpenInfo
  BY <1>6 DEF OpenInfo, MainAt, CallTypes, BitInv, BitsHonest, Threads, history
<1>7. CASE OpenInfoFails
  BY <1>7 DEF OpenInfoFails, MainAt, CallTypes, BitInv, BitsHonest, Threads,
         streamVars, history
<1>8. CASE ForkFilter
  BY <1>8 DEF ForkFilter, MainAt, Forks, CallTypes, BitInv, BitsHonest, Threads,
         streamVars, history
<1>9. CASE OpenCore
  BY <1>9 DEF OpenCore, MainAt, CallTypes, BitInv, BitsHonest, Threads, streamVars,
         history
<1>10. CASE OpenCoreFails
  BY <1>10 DEF OpenCoreFails, MainAt, CallTypes, BitInv, BitsHonest, Threads,
         streamVars, history
<1>11. CASE Join
  BY <1>11 DEF Join, MainAt, CallTypes, BitInv, BitsHonest, Threads, streamVars, history
<1>12. CASE WaitFilter
  BY <1>12, LogAssumption DEF WaitFilter, MainAt, LogCall, HasBit, CallTypes,
         BitInv, BitsHonest, Threads, streamVars, history
<1>13. CASE ForkNotify
  BY <1>13 DEF ForkNotify, MainAt, Forks, CallTypes, BitInv, BitsHonest, Threads,
         streamVars, history
<1>14. CASE CoreClosed
  BY <1>14 DEF CoreClosed, MainAt, CallTypes, BitInv, BitsHonest, Threads,
         streamVars, history
<1>15. CASE CloseStream
  BY <1>15 DEF CloseStream, MainAt, CallTypes, BitInv, BitsHonest, Threads, history
<1>16. CASE SetNull
  BY <1>16 DEF SetNull, MainAt, CallTypes, BitInv, BitsHonest, Threads, history
<1>17. CASE Return
  BY <1>17 DEF Return, MainAt, CallTypes, BitInv, BitsHonest, Threads, streamVars,
         history
<1>18. CASE DumperLogs
  BY <1>18, LogAssumption DEF DumperLogs, LogCall, HasBit, CallTypes, BitInv,
         BitsHonest, Levels, Threads, streamVars, places, history
<1>19. CASE PassLock
  BY <1>19 DEF PassLock, DumperAt, CallTypes, BitInv, BitsHonest, Threads,
         streamVars, history
<1>20. CASE ItemName
  BY <1>20 DEF ItemName, DumperAt, Writes, Put, CallTypes, BitInv, BitsHonest,
         Threads, history
<1>21. CASE ItemUnreadable
  BY <1>21, LogAssumption DEF ItemUnreadable, DumperAt, LogCall, HasBit, CallTypes,
         BitInv, BitsHonest, Threads, streamVars, history
<1>22. CASE ItemValue
  BY <1>22 DEF ItemValue, DumperAt, Writes, Put, CallTypes, BitInv, BitsHonest,
         Threads, history
<1>23. CASE Flush
  BY <1>23 DEF Flush, DumperAt, CallTypes, BitInv, BitsHonest, Threads, history
<1>24. CASE DumpEnds
  BY <1>24 DEF DumpEnds, DumperAt, CallTypes, BitInv, BitsHonest, Threads,
         streamVars, history
<1>25. ASSUME NEW x \in Children, Exec(x) PROVE BitInv'
  BY <1>25 DEF Exec, CallTypes, BitInv, BitsHonest, Threads, streamVars, history
<1>26. ASSUME NEW x \in Children, ExecFails(x) PROVE BitInv'
  BY <1>26 DEF ExecFails, CallTypes, BitInv, BitsHonest, Threads, history
<1>27. CASE UNCHANGED vars
  BY <1>27 DEF vars, CallTypes, BitInv, BitsHonest, Threads, streamVars, places, history
<1> QED
  BY <1>1, <1>2, <1>3, <1>4, <1>5, <1>6, <1>7, <1>8, <1>9, <1>10, <1>11, <1>12,
         <1>13, <1>14, <1>15, <1>16, <1>17, <1>18, <1>19, <1>20, <1>21, <1>22, <1>23,
         <1>24, <1>25, <1>26, <1>27 DEF Next, Main, Dumper, Logmsg, Threads

(* The stream is open while it may be used.                                   *)
LEMMA UseStep ==
  ASSUME CallTypes, StreamInv, UseInv, [Next]_vars PROVE (StreamInv /\ UseInv)'
<1>1. ASSUME NEW t \in Threads, ReadBits(t) PROVE (StreamInv /\ UseInv)'
  BY <1>1 DEF ReadBits, CallTypes, StreamInv, UseInv, Threads, streamVars, places,
         history
<1>2. ASSUME NEW t \in Threads, WriteBits(t) PROVE (StreamInv /\ UseInv)'
  BY <1>2 DEF WriteBits, CallTypes, StreamInv, UseInv, Threads, streamVars, places
<1>3. ASSUME NEW t \in Threads, CheckOutput(t) PROVE (StreamInv /\ UseInv)'
  BY <1>3 DEF CheckOutput, CallTypes, MainLabels, StreamInv, UseInv, Threads,
         streamVars, places, history
<1>4. ASSUME NEW t \in Threads, PutComment(t) PROVE (StreamInv /\ UseInv)'
  BY <1>4 DEF PutComment, CallTypes, StreamInv, UseInv, Threads, places, Put, history
<1>5. CASE MainLogs
  BY <1>5, LogAssumption DEF MainLogs, LogCall, HasBit, CallTypes, StreamInv,
         UseInv, Threads, streamVars, places, history
<1>6. CASE OpenInfo
  BY <1>6 DEF OpenInfo, MainAt, CallTypes, StreamInv, UseInv, Threads, history
<1>7. CASE OpenInfoFails
  BY <1>7 DEF OpenInfoFails, MainAt, CallTypes, StreamInv, UseInv, Threads,
         streamVars, history
<1>8. CASE ForkFilter
  BY <1>8 DEF ForkFilter, MainAt, Forks, CallTypes, StreamInv, UseInv, Threads,
         streamVars, history
<1>9. CASE OpenCore
  BY <1>9 DEF OpenCore, MainAt, CallTypes, StreamInv, UseInv, Threads, streamVars,
         history
<1>10. CASE OpenCoreFails
  BY <1>10 DEF OpenCoreFails, MainAt, CallTypes, StreamInv, UseInv, Threads,
         streamVars, history
<1>11. CASE Join
  BY <1>11 DEF Join, MainAt, CallTypes, StreamInv, UseInv, Threads, streamVars, history
<1>12. CASE WaitFilter
  BY <1>12, LogAssumption DEF WaitFilter, MainAt, LogCall, HasBit, CallTypes,
         StreamInv, UseInv, Threads, streamVars, history
<1>13. CASE ForkNotify
  BY <1>13 DEF ForkNotify, MainAt, Forks, CallTypes, StreamInv, UseInv, Threads,
         streamVars, history
<1>14. CASE CoreClosed
  BY <1>14 DEF CoreClosed, MainAt, CallTypes, StreamInv, UseInv, Threads,
         streamVars, history
<1>15. CASE CloseStream
  BY <1>15 DEF CloseStream, MainAt, CallTypes, StreamInv, UseInv, Threads, history
<1>16. CASE SetNull
  BY <1>16 DEF SetNull, MainAt, CallTypes, StreamInv, UseInv, Threads, history
<1>17. CASE Return
  BY <1>17 DEF Return, MainAt, CallTypes, StreamInv, UseInv, Threads, streamVars,
         history
<1>18. CASE DumperLogs
  BY <1>18, LogAssumption DEF DumperLogs, LogCall, HasBit, CallTypes, StreamInv,
         UseInv, Threads, streamVars, places, history
<1>19. CASE PassLock
  BY <1>19 DEF PassLock, DumperAt, CallTypes, StreamInv, UseInv, Threads,
         streamVars, history
<1>20. CASE ItemName
  BY <1>20 DEF ItemName, DumperAt, Writes, Put, CallTypes, StreamInv, UseInv,
         Threads, history
<1>21. CASE ItemUnreadable
  BY <1>21, LogAssumption DEF ItemUnreadable, DumperAt, LogCall, HasBit, CallTypes,
         StreamInv, UseInv, Threads, streamVars, history
<1>22. CASE ItemValue
  BY <1>22 DEF ItemValue, DumperAt, Writes, Put, CallTypes, StreamInv, UseInv,
         Threads, history
<1>23. CASE Flush
  BY <1>23 DEF Flush, DumperAt, CallTypes, StreamInv, UseInv, Threads, history
<1>24. CASE DumpEnds
  BY <1>24 DEF DumpEnds, DumperAt, CallTypes, StreamInv, UseInv, Threads,
         streamVars, history
<1>25. ASSUME NEW x \in Children, Exec(x) PROVE (StreamInv /\ UseInv)'
  BY <1>25 DEF Exec, CallTypes, StreamInv, UseInv, Threads, streamVars, history
<1>26. ASSUME NEW x \in Children, ExecFails(x) PROVE (StreamInv /\ UseInv)'
  BY <1>26 DEF ExecFails, CallTypes, StreamInv, UseInv, Threads, history
<1>27. CASE UNCHANGED vars
  BY <1>27 DEF vars, CallTypes, StreamInv, UseInv, Threads, streamVars, places, history
<1> QED
  BY <1>1, <1>2, <1>3, <1>4, <1>5, <1>6, <1>7, <1>8, <1>9, <1>10, <1>11, <1>12,
         <1>13, <1>14, <1>15, <1>16, <1>17, <1>18, <1>19, <1>20, <1>21, <1>22, <1>23,
         <1>24, <1>25, <1>26, <1>27 DEF Next, Main, Dumper, Logmsg, Threads

(* No step of the thread comes between a read and a write of exitcode by main *)
(* after the join.                                                            *)
LEMMA RegStep ==
  ASSUME CallTypes, UseInv, RegInv, [Next]_vars PROVE RegInv'
<1>1. ASSUME NEW t \in Threads, ReadBits(t) PROVE RegInv'
  BY <1>1 DEF ReadBits, CallTypes, UseInv, RegInv, AfterJoin, Threads, streamVars,
         places, history
<1>2. ASSUME NEW t \in Threads, WriteBits(t) PROVE RegInv'
  BY <1>2 DEF WriteBits, CallTypes, UseInv, RegInv, AfterJoin, Threads, streamVars,
         places
<1>3. ASSUME NEW t \in Threads, CheckOutput(t) PROVE RegInv'
  BY <1>3 DEF CheckOutput, CallTypes, UseInv, RegInv, AfterJoin, Threads, streamVars,
         places, history
<1>4. ASSUME NEW t \in Threads, PutComment(t) PROVE RegInv'
  BY <1>4 DEF PutComment, CallTypes, UseInv, RegInv, AfterJoin, Threads, places, Put, history
<1>5. CASE MainLogs
  BY <1>5, LogAssumption DEF MainLogs, LogCall, HasBit, CallTypes, UseInv, RegInv,
         AfterJoin, Threads, streamVars, places, history
<1>6. CASE OpenInfo
  BY <1>6 DEF OpenInfo, MainAt, CallTypes, UseInv, RegInv, AfterJoin, Threads, history
<1>7. CASE OpenInfoFails
  BY <1>7 DEF OpenInfoFails, MainAt, CallTypes, UseInv, RegInv, AfterJoin, Threads,
         streamVars, history
<1>8. CASE ForkFilter
  BY <1>8 DEF ForkFilter, MainAt, Forks, CallTypes, UseInv, RegInv, AfterJoin,
         Threads, streamVars, history
<1>9. CASE OpenCore
  BY <1>9 DEF OpenCore, MainAt, CallTypes, UseInv, RegInv, AfterJoin, Threads,
         streamVars, history
<1>10. CASE OpenCoreFails
  BY <1>10 DEF OpenCoreFails, MainAt, CallTypes, UseInv, RegInv, AfterJoin, Threads,
         streamVars, history
<1>11. CASE Join
  BY <1>11 DEF Join, MainAt, CallTypes, UseInv, RegInv, AfterJoin, Threads,
         streamVars, history
<1>12. CASE WaitFilter
  BY <1>12, LogAssumption DEF WaitFilter, MainAt, LogCall, HasBit, CallTypes, UseInv,
         RegInv, AfterJoin, Threads, streamVars, history
<1>13. CASE ForkNotify
  BY <1>13 DEF ForkNotify, MainAt, Forks, CallTypes, UseInv, RegInv, AfterJoin,
         Threads, streamVars, history
<1>14. CASE CoreClosed
  BY <1>14 DEF CoreClosed, MainAt, CallTypes, UseInv, RegInv, AfterJoin, Threads,
         streamVars, history
<1>15. CASE CloseStream
  BY <1>15 DEF CloseStream, MainAt, CallTypes, UseInv, RegInv, AfterJoin, Threads,
         history
<1>16. CASE SetNull
  BY <1>16 DEF SetNull, MainAt, CallTypes, UseInv, RegInv, AfterJoin, Threads, history
<1>17. CASE Return
  BY <1>17 DEF Return, MainAt, CallTypes, UseInv, RegInv, AfterJoin, Threads,
         streamVars, history
<1>18. CASE DumperLogs
  BY <1>18, LogAssumption DEF DumperLogs, LogCall, HasBit, CallTypes, UseInv, RegInv,
         AfterJoin, Threads, streamVars, places, history
<1>19. CASE PassLock
  BY <1>19 DEF PassLock, DumperAt, CallTypes, UseInv, RegInv, AfterJoin, Threads,
         streamVars, history
<1>20. CASE ItemName
  BY <1>20 DEF ItemName, DumperAt, Writes, Put, CallTypes, UseInv, RegInv, AfterJoin,
         Threads, history
<1>21. CASE ItemUnreadable
  BY <1>21, LogAssumption DEF ItemUnreadable, DumperAt, LogCall, HasBit, CallTypes,
         UseInv, RegInv, AfterJoin, Threads, streamVars, history
<1>22. CASE ItemValue
  BY <1>22 DEF ItemValue, DumperAt, Writes, Put, CallTypes, UseInv, RegInv, AfterJoin,
         Threads, history
<1>23. CASE Flush
  BY <1>23 DEF Flush, DumperAt, CallTypes, UseInv, RegInv, AfterJoin, Threads, history
<1>24. CASE DumpEnds
  BY <1>24 DEF DumpEnds, DumperAt, CallTypes, UseInv, RegInv, AfterJoin, Threads,
         streamVars, history
<1>25. ASSUME NEW x \in Children, Exec(x) PROVE RegInv'
  BY <1>25 DEF Exec, CallTypes, UseInv, RegInv, AfterJoin, Threads, streamVars, history
<1>26. ASSUME NEW x \in Children, ExecFails(x) PROVE RegInv'
  BY <1>26 DEF ExecFails, CallTypes, UseInv, RegInv, AfterJoin, Threads, history
<1>27. CASE UNCHANGED vars
  BY <1>27 DEF vars, CallTypes, UseInv, RegInv, AfterJoin, Threads, streamVars,
         places, history
<1> QED
  BY <1>1, <1>2, <1>3, <1>4, <1>5, <1>6, <1>7, <1>8, <1>9, <1>10, <1>11, <1>12, <1>13,
         <1>14, <1>15, <1>16, <1>17, <1>18, <1>19, <1>20, <1>21, <1>22, <1>23, <1>24,
         <1>25, <1>26, <1>27 DEF Next, Main, Dumper, Logmsg, Threads

-----------------------------------------------------------------------------
(* The text of the stream: what is in the file, followed by the buffer.       *)

(* The rest of the type invariant.                                            *)
StoreTypes ==
  /\ sent \in [Threads -> Nat]
  /\ buffer \in Seq(Pieces) /\ Len(buffer) <= BufCap /\ file \in Seq(Pieces)
  /\ items \in 0..MaxItems
  /\ child \in [Children -> [at : {"none", "forked", "ok", "failed"}, copy : Seq(Pieces)]]
  /\ found \subseteq Pieces

(* No line of the dumper is broken in s; s ends within one; it is in order.   *)
Unbroken(s) == \A i \in 1..(Len(s) - 1) : IsBegin(s[i]) => s[i + 1][2] = "dumper"
EndsOpen(s) == Len(s) > 0 /\ IsBegin(s[Len(s)])

InOrder(s) ==
  \A t \in Threads : \A i, j \in 1..Len(s) :
    i < j /\ CommentOf(s[i], t) /\ CommentOf(s[j], t) => s[i][3] < s[j][3]

NoneAfter(s, n) == \A t \in Threads : \A i \in 1..Len(s) : CommentOf(s[i], t) => s[i][3] <= n[t]

(* The last message of each thread that can be in the stream.                 *)
LastPut == [t \in Threads |-> IF call[t].at = "idle" THEN sent[t] ELSE sent[t] - 1]

(* Where a line is open the thread is about to write its end, and the stream  *)
(* has no message that is still being logged.                                 *)
TextInv ==
  ~AChildFailed =>
    /\ Unbroken(Text) /\ (EndsOpen(Text) => dpc \in {"named", "failed"})
    /\ InOrder(Text) /\ NoneAfter(Text, LastPut)

(* Nothing is left in the buffer of a stream that has been closed.            *)
ClosedInv == stream = "closed" => buffer = <<>>

(* No piece leaves the text.                                                  *)
Grows == Range(Text) \subseteq Range(Text')

(* A message that found the stream there is in the text or about to be put    *)
(* there, unless main has given up.                                           *)
Gone == {"err1closed", "end"}
Putting == {Comment(t) : t \in {u \in Threads : call[u].at = "put"}}

FoundInv ==
  /\ mpc \notin Gone => found \subseteq Range(Text) \union Putting
  /\ mpc \in {"closed", "late"} => stream = "closed"

(* What put and the writing out of the buffer do to the text.                 *)
LEMMA PutAppends ==
  ASSUME StoreTypes, NEW p \in Pieces, Put(p)
  PROVE  /\ Text' = Append(Text, p) /\ Text \in Seq(Pieces)
         /\ buffer' \in Seq(Pieces) /\ Len(buffer') <= BufCap /\ file' \in Seq(Pieces)
         /\ AChildFailed => AChildFailed'
<1>1. /\ buffer \in Seq(Pieces) /\ file \in Seq(Pieces) /\ Len(buffer) <= BufCap
      /\ BufCap \in Nat \ {0}
  BY LogAssumption DEF StoreTypes
<1> HIDE DEF Pieces
<1>2. CASE Len(buffer) < BufCap
  <2>1. buffer' = Append(buffer, p) /\ file' = file
    BY <1>2 DEF Put
  <2>2. /\ file \o Append(buffer, p) = Append(file \o buffer, p)
        /\ Append(buffer, p) \in Seq(Pieces) /\ Len(Append(buffer, p)) = Len(buffer) + 1
        /\ file \o buffer \in Seq(Pieces)
    BY <1>1
  <2> QED BY <1>1, <1>2, <2>1, <2>2 DEF Text, AChildFailed
<1>3. CASE ~(Len(buffer) < BufCap)
  <2>1. buffer' = <<p>> /\ file' = file \o buffer
    BY <1>3 DEF Put
  <2>2. /\ (file \o buffer) \o <<p>> = Append(file \o buffer, p)
        /\ <<p>> \in Seq(Pieces) /\ Len(<<p>>) = 1
        /\ file \o buffer \in Seq(Pieces)
    BY <1>1
  <2>3. AChildFailed => AChildFailed'
    BY <1>1, <2>1 DEF AChildFailed
  <2> QED BY <1>1, <2>1, <2>2, <2>3 DEF Text
<1> QED BY <1>2, <1>3

(* What has been put is written to the file.                                  *)
LEMMA WriteOut ==
  ASSUME StoreTypes, file' = file \o buffer, buffer' = <<>>
  PROVE  /\ Text' = Text /\ buffer' \in Seq(Pieces) /\ Len(buffer') = 0
         /\ file' \in Seq(Pieces)
         /\ AChildFailed => AChildFailed'
<1>1. buffer \in Seq(Pieces) /\ file \in Seq(Pieces)
  BY DEF StoreTypes
<1> HIDE DEF Pieces
<1>2. file' \in Seq(Pieces) /\ file' \o <<>> = file'
  BY <1>1
<1>3. AChildFailed => AChildFailed'
  BY <1>1 DEF AChildFailed
<1> QED BY <1>2, <1>3 DEF Text

(* A piece that has been put is in the text, with all that was there.         *)
LEMMA PutIsThere ==
  ASSUME StoreTypes, NEW p \in Pieces, Put(p) PROVE Grows /\ p \in Range(Text')
<1>1. Text' = Append(Text, p) /\ Text \in Seq(Pieces)
  BY PutAppends
<1> HIDE DEF Pieces
<1>2. /\ Len(Text) \in Nat /\ Len(Append(Text, p)) = Len(Text) + 1
      /\ DOMAIN Text = 1..Len(Text) /\ DOMAIN Append(Text, p) = 1..(Len(Text) + 1)
      /\ \A k \in 1..Len(Text) : Append(Text, p)[k] = Text[k]
      /\ Append(Text, p)[Len(Text) + 1] = p
  BY <1>1
<1> QED BY <1>1, <1>2 DEF Range, Grows

(* A piece more: it does not break a line when none is open or it is the      *)
(* thread's.                                                                  *)
LEMMA LineKept ==
  ASSUME NEW s \in Seq(Pieces), NEW p \in Pieces, Unbroken(s), EndsOpen(s) => p[2] = "dumper"
  PROVE  Unbroken(Append(s, p)) /\ (EndsOpen(Append(s, p)) <=> IsBegin(p))
<1> HIDE DEF Pieces
<1> DEFINE r == Append(s, p)
<1>1. /\ Len(s) \in Nat /\ Len(r) = Len(s) + 1 /\ r[Len(s) + 1] = p
      /\ \A k \in 1..Len(s) : r[k] = s[k]
  OBVIOUS
<1> HIDE DEF r
<1>2. ASSUME NEW k \in 1..(Len(r) - 1), IsBegin(r[k]) PROVE r[k + 1][2] = "dumper"
  <2>1. CASE k = Len(s)
    BY <1>1, <1>2, <2>1 DEF EndsOpen
  <2>2. CASE k # Len(s)
    <3>1. k \in 1..(Len(s) - 1) /\ k \in 1..Len(s) /\ k + 1 \in 1..Len(s)
      BY <1>1, <2>2
    <3> QED BY <1>1, <1>2, <3>1 DEF Unbroken
  <2> QED BY <2>1, <2>2
<1>3. EndsOpen(r) <=> IsBegin(p)
  BY <1>1 DEF EndsOpen
<1> QED BY <1>2, <1>3 DEF Unbroken, r

(* A piece more: a message that is later than those before it.                *)
LEMMA OrderKept ==
  ASSUME NEW s \in Seq(Pieces), NEW p \in Pieces, NEW n \in [Threads -> Int], NEW m \in [Threads -> Int],
         InOrder(s), NoneAfter(s, n), \A t \in Threads : n[t] <= m[t],
         \A t \in Threads : CommentOf(p, t) => n[t] < p[3] /\ p[3] <= m[t]
  PROVE  InOrder(Append(s, p)) /\ NoneAfter(Append(s, p), m)
<1> DEFINE r == Append(s, p)
<1>1. /\ Len(s) \in Nat /\ Len(r) = Len(s) + 1 /\ r[Len(s) + 1] = p
      /\ \A k \in 1..Len(s) : r[k] = s[k] /\ s[k][3] \in Nat
      /\ p[3] \in Nat
  <2>1. /\ Len(s) \in Nat /\ Len(r) = Len(s) + 1 /\ r[Len(s) + 1] = p
        /\ \A k \in 1..Len(s) : r[k] = s[k] /\ s[k] \in Pieces
    OBVIOUS
  <2>2. \A q \in Pieces : q[3] \in Nat
    BY DEF Pieces
  <2> QED BY <2>1, <2>2
<1> HIDE DEF r
<1>2. ASSUME NEW t \in Threads, NEW i \in 1..Len(r), NEW j \in 1..Len(r),
             i < j, CommentOf(r[i], t), CommentOf(r[j], t)
      PROVE  r[i][3] < r[j][3]
  <2>1. i \in 1..Len(s)
    BY <1>1, <1>2
  <2>2. CASE j \in 1..Len(s)
    BY <1>1, <1>2, <2>1, <2>2 DEF InOrder
  <2>3. CASE j \notin 1..Len(s)
    <3>1. j = Len(s) + 1 /\ r[j] = p /\ r[i] = s[i] /\ s[i][3] \in Nat
      BY <1>1, <2>1, <2>3
    <3>2. s[i][3] <= n[t] /\ n[t] < p[3]
      BY <1>2, <2>1, <3>1 DEF NoneAfter
    <3>3. n[t] \in Int
      OBVIOUS
    <3> QED BY <1>1, <3>1, <3>2, <3>3
  <2> QED BY <2>2, <2>3
<1>3. ASSUME NEW t \in Threads, NEW i \in 1..Len(r), CommentOf(r[i], t)
      PROVE  r[i][3] <= m[t]
  <2>1. CASE i \in 1..Len(s)
    <3>1. r[i] = s[i] /\ s[i][3] \in Nat /\ s[i][3] <= n[t]
      BY <1>1, <1>3, <2>1 DEF NoneAfter
    <3>2. n[t] \in Int /\ m[t] \in Int /\ n[t] <= m[t]
      OBVIOUS
    <3> QED BY <3>1, <3>2
  <2>2. CASE i \notin 1..Len(s)
    <3>1. r[i] = p
      BY <1>1, <2>2
    <3> QED BY <1>3, <3>1
  <2> QED BY <2>1, <2>2
<1> QED BY <1>2, <1>3 DEF InOrder, NoneAfter, r

(* What TextInv compares with the messages of the text.                       *)
LEMMA LastPutType ==
  ASSUME CallTypes, StoreTypes
  PROVE  /\ LastPut \in [Threads -> Int]
         /\ \A t \in Threads : LastPut[t] = IF call[t].at = "idle" THEN sent[t] ELSE sent[t] - 1
  BY DEF CallTypes, StoreTypes, LastPut

(* A step that leaves the stream alone, closes no line and takes no message   *)
(* back.                                                                      *)
LEMMA StreamLeft ==
  ASSUME CallTypes, StoreTypes, CallTypes', StoreTypes', TextInv, ClosedInv,
         UNCHANGED <<file, buffer>>, stream' = "closed" => stream = "closed",
         dpc \in {"named", "failed"} => dpc' \in {"named", "failed"},
         \A t \in Threads : LastPut[t] <= LastPut'[t]
  PROVE  TextInv' /\ ClosedInv' /\ Grows
<1>1. Text' = Text /\ AChildFailed' = AChildFailed
  BY DEF Text, AChildFailed
<1>2. LastPut \in [Threads -> Int] /\ LastPut' \in [Threads -> Int]
  BY DEF CallTypes, StoreTypes, LastPut
<1>3. \A k \in 1..Len(Text) : Text[k][3] \in Nat
  <2>1. Text \in Seq(Pieces)
    BY DEF Text, StoreTypes
  <2>2. \A q \in Pieces : q[3] \in Nat
    BY DEF Pieces
  <2> HIDE DEF Pieces
  <2> QED BY <2>1, <2>2
<1>4. NoneAfter(Text, LastPut) => NoneAfter(Text, LastPut')
  BY <1>2, <1>3 DEF NoneAfter
<1>5. TextInv'
  BY <1>1, <1>4, Zenon DEF TextInv
<1>6. ClosedInv' /\ Grows
  BY <1>1 DEF ClosedInv, Grows
<1> QED BY <1>5, <1>6

(* A step that puts a piece into the stream.                                  *)
LEMMA StreamPut ==
  ASSUME CallTypes, StoreTypes, CallTypes', StoreTypes', TextInv, ClosedInv,
         NEW p \in Pieces, Put(p), stream' = "open",
         ~AChildFailed /\ EndsOpen(Text) => p[2] = "dumper",
         IsBegin(p) => dpc' \in {"named", "failed"},
         \A t \in Threads : LastPut[t] <= LastPut'[t],
         \A t \in Threads : CommentOf(p, t) => LastPut[t] < p[3] /\ p[3] <= LastPut'[t]
  PROVE  TextInv' /\ ClosedInv' /\ Grows
<1>1. /\ Text' = Append(Text, p) /\ Text \in Seq(Pieces)
      /\ AChildFailed => AChildFailed'
  BY PutAppends
<1>2. LastPut \in [Threads -> Int] /\ LastPut' \in [Threads -> Int]
  BY DEF CallTypes, StoreTypes, LastPut
<1>3. ASSUME ~AChildFailed'
      PROVE  /\ Unbroken(Text') /\ (EndsOpen(Text') => dpc' \in {"named", "failed"})
             /\ InOrder(Text') /\ NoneAfter(Text', LastPut')
  <2>1. /\ Unbroken(Text) /\ InOrder(Text) /\ NoneAfter(Text, LastPut)
        /\ EndsOpen(Text) => p[2] = "dumper"
    BY <1>1, <1>3 DEF TextInv
  <2>2. Unbroken(Text') /\ (EndsOpen(Text') <=> IsBegin(p))
    BY <1>1, <2>1, LineKept, Zenon
  <2>3. InOrder(Text') /\ NoneAfter(Text', LastPut')
    BY <1>1, <1>2, <2>1, OrderKept, Zenon
  <2> QED BY <2>2, <2>3, Zenon
<1>4. TextInv'
  BY <1>3, Zenon DEF TextInv
<1>5. Grows
  BY PutIsThere
<1>6. ClosedInv'
  BY DEF ClosedInv
<1> QED BY <1>4, <1>5, <1>6

(* A step that writes the buffer out.                                         *)
LEMMA StreamWritten ==
  ASSUME CallTypes, StoreTypes, TextInv, ClosedInv, file' = file \o buffer, buffer' = <<>>,
         UNCHANGED <<call, sent>>,
         dpc' = dpc \/ dpc \notin {"named", "failed"}
  PROVE  TextInv' /\ ClosedInv' /\ Grows
<1>1. Text' = Text /\ (AChildFailed => AChildFailed')
  BY WriteOut
<1>2. LastPut' = LastPut
  BY DEF LastPut
<1>3. TextInv'
  BY <1>1, <1>2, Zenon DEF TextInv
<1>4. ClosedInv' /\ Grows
  BY <1>1 DEF ClosedInv, Grows
<1> QED BY <1>3, <1>4

-----------------------------------------------------------------------------
(* Every action keeps the rest of the types.                                  *)
LEMMA StoreStep ==
  ASSUME IndInv, StoreTypes, [Next]_vars PROVE StoreTypes'
<1>0. CallTypes
  BY DEF IndInv
<1> USE DEF streamVars, places, history
<1>1. ASSUME NEW t \in Threads, ReadBits(t) \/ WriteBits(t) \/ CheckOutput(t) PROVE StoreTypes'
  <2>1. /\ UNCHANGED <<sent, buffer, file, items, child>>
        /\ found' = found \/ found' = found \union {Comment(t)}
    BY <1>1 DEF ReadBits, WriteBits, CheckOutput
  <2>2. Comment(t) \in Pieces
    BY DEF StoreTypes, Comment, Piece, Pieces
  <2>3. found' \subseteq Pieces
    BY <2>1, <2>2, Zenon DEF StoreTypes
  <2> QED BY <2>1, <2>3, Zenon DEF StoreTypes
<1>2. ASSUME NEW t \in Threads, PutComment(t) PROVE StoreTypes'
  <2> DEFINE p == Piece("comment", t, sent[t])
  <2>1. p \in Pieces
    BY DEF StoreTypes, Piece, Pieces
  <2> HIDE DEF p
  <2>2. /\ UNCHANGED <<sent, items, child, found>>
        /\ Put(p) \/ UNCHANGED <<buffer, file>>
    BY <1>2 DEF PutComment, p, Comment
  <2>3. buffer' \in Seq(Pieces) /\ Len(buffer') <= BufCap /\ file' \in Seq(Pieces)
    BY <2>1, <2>2, PutAppends, Zenon DEF StoreTypes
  <2> QED BY <2>2, <2>3, Zenon DEF StoreTypes
<1>3. ASSUME NEW t \in Threads, NEW l, LogCall(t, l), UNCHANGED <<buffer, file, items, found>>,
             child' \in [Children -> [at : {"none", "forked", "ok", "failed"}, copy : Seq(Pieces)]]
      PROVE  StoreTypes'
  <2>1. sent' \in [Threads -> Nat]
    BY <1>3 DEF LogCall, StoreTypes
  <2> QED BY <1>3, <2>1, Zenon DEF StoreTypes
<1>4. CASE MainLogs
  <2>1. /\ \E l : LogCall("main", l)
        /\ UNCHANGED <<buffer, file, items, found, child>>
    BY <1>4 DEF MainLogs
  <2> QED BY <1>3, <2>1, Zenon DEF Threads, StoreTypes
<1>5. CASE DumperLogs \/ ItemUnreadable
  <2>1. /\ \E l : LogCall("dumper", l)
        /\ UNCHANGED <<buffer, file, items, found, child>>
    BY <1>5 DEF DumperLogs, ItemUnreadable
  <2> QED BY <1>3, <2>1, Zenon DEF Threads, StoreTypes
<1>6. CASE WaitFilter
  <2>1. child' \in [Children -> [at : {"none", "forked", "ok", "failed"}, copy : Seq(Pieces)]]
    <3> HIDE DEF Pieces
    <3> QED BY <1>6 DEF WaitFilter, StoreTypes, Children
  <2>2. /\ UNCHANGED <<buffer, file, items, found>>
        /\ LogCall("main", "err") \/ UNCHANGED <<call, sent>>
    BY <1>6 DEF WaitFilter
  <2>3. CASE UNCHANGED sent
    BY <2>1, <2>2, <2>3, Zenon DEF StoreTypes
  <2> QED BY <1>3, <2>1, <2>2, <2>3, Zenon DEF Threads
<1>7. CASE ForkFilter \/ ForkNotify
  <2>1. /\ \E x \in Children : child' = [child EXCEPT ![x] = [at |-> "forked", copy |-> buffer]]
        /\ UNCHANGED <<sent, buffer, file, items, found>>
    BY <1>7 DEF ForkFilter, ForkNotify, Forks, Children
  <2> HIDE DEF Pieces
  <2>2. child' \in [Children -> [at : {"none", "forked", "ok", "failed"}, copy : Seq(Pieces)]]
    BY <2>1 DEF StoreTypes
  <2> QED BY <2>1, <2>2, Zenon DEF StoreTypes
<1>8. CASE OpenInfo \/ OpenInfoFails \/ OpenCore \/ OpenCoreFails \/ Join \/ CoreClosed
  <2>1. UNCHANGED <<sent, buffer, file, items, child, found>>
    BY <1>8 DEF OpenInfo, OpenInfoFails, OpenCore, OpenCoreFails, Join, CoreClosed
  <2> QED BY <2>1, Zenon DEF StoreTypes
<1>9. CASE SetNull \/ Return \/ PassLock \/ DumpEnds
  <2>1. UNCHANGED <<sent, buffer, file, items, child, found>>
    BY <1>9 DEF SetNull, Return, PassLock, DumpEnds
  <2> QED BY <2>1, Zenon DEF StoreTypes
<1>10. CASE CloseStream \/ Flush
  <2>1. /\ UNCHANGED <<sent, items, child, found>>
        /\ (file' = file \o buffer /\ buffer' = <<>>) \/ UNCHANGED <<file, buffer>>
    BY <1>10 DEF CloseStream, Flush
  <2>2. buffer' \in Seq(Pieces) /\ Len(buffer') <= BufCap /\ file' \in Seq(Pieces)
    <3>1. CASE UNCHANGED <<file, buffer>>
      BY <3>1, Zenon DEF StoreTypes
    <3>2. CASE file' = file \o buffer /\ buffer' = <<>>
      BY <3>2, WriteOut, LogAssumption
    <3> QED BY <2>1, <3>1, <3>2
  <2> QED BY <2>1, <2>2, Zenon DEF StoreTypes
<1>11. CASE ItemName \/ ItemValue
  <2>1. /\ UNCHANGED <<sent, child, found>>
        /\ items' = items \/ (items' = items + 1 /\ items < MaxItems)
        /\ Writes(Piece("begin", "dumper", items + 1)) \/ Writes(Piece("rest", "dumper", items))
    BY <1>11 DEF ItemName, ItemValue
  <2>2. items' \in 0..MaxItems
    BY <2>1, LogAssumption DEF StoreTypes
  <2>3. /\ Piece("begin", "dumper", items + 1) \in Pieces
        /\ Piece("rest", "dumper", items) \in Pieces
    BY DEF StoreTypes, Piece, Pieces, Threads
  <2>4. \/ \E p \in Pieces : Put(p)
        \/ UNCHANGED <<buffer, file>>
    BY <2>1, <2>3, Zenon DEF Writes
  <2>5. buffer' \in Seq(Pieces) /\ Len(buffer') <= BufCap /\ file' \in Seq(Pieces)
    BY <2>4, PutAppends, Zenon DEF StoreTypes
  <2> QED BY <2>1, <2>2, <2>5, Zenon DEF StoreTypes
<1>12. ASSUME NEW x \in Children, Exec(x) PROVE StoreTypes'
  <2>1. /\ UNCHANGED <<sent, buffer, file, items, found>>
        /\ child' = [child EXCEPT ![x] = [at |-> "ok", copy |-> <<>>]]
    BY <1>12 DEF Exec
  <2> HIDE DEF Pieces
  <2>2. child' \in [Children -> [at : {"none", "forked", "ok", "failed"}, copy : Seq(Pieces)]]
    BY <2>1 DEF StoreTypes
  <2> QED BY <2>1, <2>2, Zenon DEF StoreTypes
<1>13. ASSUME NEW x \in Children, ExecFails(x) PROVE StoreTypes'
  <2> DEFINE p == Piece("comment", x, 1)
  <2>1. p \in Pieces
    BY DEF Piece, Pieces
  <2> HIDE DEF p, Pieces
  <2>2. /\ UNCHANGED <<sent, buffer, items, found>>
        /\ file' = file \o child[x].copy \o <<p>>
        /\ child' = [child EXCEPT ![x].at = "failed"]
    BY <1>13 DEF ExecFails, p
  <2>3. child' \in [Children -> [at : {"none", "forked", "ok", "failed"}, copy : Seq(Pieces)]]
    BY <2>2 DEF StoreTypes
  <2>4. file \in Seq(Pieces) /\ child[x].copy \in Seq(Pieces) /\ <<p>> \in Seq(Pieces)
    BY <2>1 DEF StoreTypes
  <2>5. file' \in Seq(Pieces)
    BY <2>2, <2>4
  <2> QED BY <2>2, <2>3, <2>5, Zenon DEF StoreTypes
<1>14. CASE UNCHANGED vars
  BY <1>14, Zenon DEF StoreTypes, vars
<1> QED
  BY <1>1, <1>2, <1>4, <1>5, <1>6, <1>7, <1>8, <1>9, <1>10, <1>11, <1>12, <1>13, <1>14
  DEF Next, Main, Dumper, Logmsg, Threads

(* Every action keeps lines whole and messages in their order.                *)
LEMMA TextStep ==
  ASSUME IndInv, StoreTypes, TextInv, ClosedInv, [Next]_vars PROVE TextInv' /\ ClosedInv' /\ Grows
<1>0. CallTypes /\ StreamInv /\ UseInv /\ CallTypes' /\ StoreTypes'
  BY TypesStep, StoreStep DEF IndInv
<1>1. \A t \in Threads : LastPut[t] = IF call[t].at = "idle" THEN sent[t] ELSE sent[t] - 1
  BY <1>0, LastPutType
<1>2. \A t \in Threads : LastPut'[t] = IF call'[t].at = "idle" THEN sent'[t] ELSE sent'[t] - 1
  BY DEF LastPut
<1>3. sent \in [Threads -> Nat] /\ sent' \in [Threads -> Nat]
  BY <1>0 DEF StoreTypes
<1>4. ASSUME UNCHANGED <<call, sent>> PROVE \A t \in Threads : LastPut[t] <= LastPut'[t]
  BY <1>1, <1>2, <1>3, <1>4
<1> USE DEF streamVars, places, history
<1>5. ASSUME NEW t \in Threads, ReadBits(t) \/ WriteBits(t) \/ CheckOutput(t)
      PROVE  TextInv' /\ ClosedInv' /\ Grows
  <2>1. /\ UNCHANGED <<file, buffer, stream, dpc, sent>>
        /\ call[t].at # "idle" /\ \A u \in Threads \ {t} : call'[u] = call[u]
    BY <1>0, <1>5 DEF ReadBits, WriteBits, CheckOutput, CallTypes
  <2>2. \A u \in Threads : LastPut[u] <= LastPut'[u]
    BY <1>1, <1>2, <1>3, <2>1
  <2> QED BY <1>0, <2>1, <2>2, StreamLeft, Zenon
<1>6. ASSUME NEW t \in Threads, PutComment(t) PROVE TextInv' /\ ClosedInv' /\ Grows
  <2> DEFINE p == Piece("comment", t, sent[t])
  <2>1. /\ p \in Pieces /\ ~IsBegin(p) /\ p[2] = t /\ p[3] = sent[t]
        /\ \A u \in Threads : CommentOf(p, u) => u = t
    BY <1>3 DEF Piece, Pieces, IsBegin, CommentOf
  <2> HIDE DEF p
  <2>2. /\ call[t].at = "put" /\ call' = [call EXCEPT ![t].at = "idle"]
        /\ UNCHANGED <<sent, dpc, stream>>
    BY <1>6 DEF PutComment
  <2>3. /\ call'[t].at = "idle"
        /\ \A u \in Threads \ {t} : call'[u] = call[u]
    BY <1>0, <2>2 DEF CallTypes
  <2>4. /\ \A u \in Threads : LastPut[u] <= LastPut'[u]
        /\ LastPut[t] < sent[t] /\ sent[t] <= LastPut'[t]
    BY <1>1, <1>2, <1>3, <2>2, <2>3
  <2>5. CASE stream = "open"
    <3>1. Put(p) /\ stream' = "open"
      BY <1>6, <2>2, <2>5 DEF PutComment, p, Comment
    <3>2. ~AChildFailed /\ EndsOpen(Text) => p[2] = "dumper"
      BY <1>0, <2>1, <2>2 DEF TextInv, UseInv, Threads
    <3>3. \A u \in Threads : CommentOf(p, u) => LastPut[u] < p[3] /\ p[3] <= LastPut'[u]
      BY <2>1, <2>4, Zenon
    <3> QED BY <1>0, <2>1, <2>4, <3>1, <3>2, <3>3, StreamPut, Zenon
  <2>6. CASE stream # "open"
    <3>1. UNCHANGED <<file, buffer>>
      BY <1>6, <2>6 DEF PutComment
    <3> QED BY <1>0, <2>2, <2>4, <3>1, StreamLeft, Zenon
  <2> QED BY <2>5, <2>6
<1>7. ASSUME NEW t \in Threads, NEW l, LogCall(t, l), UNCHANGED <<buffer, file, stream>>,
             dpc \in {"named", "failed"} => dpc' \in {"named", "failed"}
      PROVE  TextInv' /\ ClosedInv' /\ Grows
  <2>1. /\ call[t].at = "idle" /\ call'[t].at # "idle" /\ sent'[t] = sent[t] + 1
        /\ \A u \in Threads \ {t} : call'[u] = call[u] /\ sent'[u] = sent[u]
    BY <1>0, <1>3, <1>7 DEF LogCall, CallTypes
  <2>2. \A u \in Threads : LastPut[u] <= LastPut'[u]
    BY <1>1, <1>2, <1>3, <2>1
  <2> QED BY <1>0, <1>7, <2>2, StreamLeft, Zenon
<1>8. CASE MainLogs
  <2>1. /\ \E l : LogCall("main", l)
        /\ UNCHANGED <<buffer, file, stream, dpc>>
    BY <1>8 DEF MainLogs
  <2> QED BY <1>7, <2>1, Zenon DEF Threads
<1>9. CASE DumperLogs \/ ItemUnreadable
  <2>1. /\ \E l : LogCall("dumper", l)
        /\ UNCHANGED <<buffer, file, stream>> /\ (dpc' = dpc \/ dpc' = "failed")
    BY <1>9 DEF DumperLogs, ItemUnreadable
  <2>2. dpc \in {"named", "failed"} => dpc' \in {"named", "failed"}
    BY <2>1
  <2> QED BY <1>7, <2>1, <2>2, Zenon DEF Threads
<1>10. ASSUME UNCHANGED <<call, sent, file, buffer>>,
              stream' = "closed" => stream = "closed",
              dpc \in {"named", "failed"} => dpc' \in {"named", "failed"}
       PROVE  TextInv' /\ ClosedInv' /\ Grows
  BY <1>0, <1>4, <1>10, StreamLeft, Zenon
<1>11. CASE WaitFilter
  <2>1. /\ UNCHANGED <<buffer, file, stream, dpc>>
        /\ LogCall("main", "err") \/ UNCHANGED <<call, sent>>
    BY <1>11 DEF WaitFilter
  <2> QED BY <1>7, <1>10, <2>1, Zenon DEF Threads
<1>12. CASE OpenInfo \/ OpenInfoFails \/ ForkFilter \/ OpenCore \/ OpenCoreFails \/ Join
  <2>1. UNCHANGED <<call, sent, file, buffer, dpc>> /\ (stream' = stream \/ stream' = "open")
    BY <1>12 DEF OpenInfo, OpenInfoFails, ForkFilter, OpenCore, OpenCoreFails, Join
  <2>2. stream' = "closed" => stream = "closed"
    BY <2>1
  <2> QED BY <1>10, <2>1, <2>2, Zenon
<1>13. CASE ForkNotify \/ CoreClosed \/ SetNull \/ Return
  <2>1. UNCHANGED <<call, sent, file, buffer, dpc, stream>>
    BY <1>13 DEF ForkNotify, CoreClosed, SetNull, Return
  <2> QED BY <1>10, <2>1, Zenon
<1>14. CASE PassLock \/ DumpEnds
  <2>1. UNCHANGED <<call, sent, file, buffer, stream>> /\ dpc \notin {"named", "failed"}
    BY <1>14 DEF PassLock, DumpEnds, DumperAt
  <2> QED BY <1>10, <2>1, Zenon
<1>15. CASE CloseStream
  <2>1. file' = file \o buffer /\ buffer' = <<>> /\ UNCHANGED <<call, sent, dpc>>
    BY <1>15 DEF CloseStream
  <2> QED BY <1>0, <2>1, StreamWritten, Zenon
<1>16. CASE Flush
  <2>1. /\ UNCHANGED <<call, sent, stream>> /\ dpc = "dump"
        /\ (file' = file \o buffer /\ buffer' = <<>>) \/ UNCHANGED <<file, buffer>>
    BY <1>16 DEF Flush, DumperAt
  <2>2. dpc \notin {"named", "failed"}
    BY <2>1
  <2> QED BY <1>0, <1>10, <2>1, <2>2, StreamWritten, Zenon
<1>17. CASE ItemName
  <2> DEFINE p == Piece("begin", "dumper", items + 1)
  <2>1. p \in Pieces /\ p[2] = "dumper" /\ \A u \in Threads : ~CommentOf(p, u)
    BY DEF Piece, Pieces, CommentOf, IsComment, StoreTypes, Threads
  <2> HIDE DEF p
  <2>2. stream = "open"
    BY <1>0, <1>17 DEF ItemName, DumperAt, StreamInv, UseInv
  <2>3. Put(p) /\ UNCHANGED <<call, sent, stream>> /\ dpc' = "named"
    BY <1>17, <2>2 DEF ItemName, Writes, p
  <2>4. \A u \in Threads : LastPut[u] <= LastPut'[u]
    BY <1>4, <2>3, Zenon
  <2>5. stream' = "open" /\ dpc' \in {"named", "failed"}
    BY <2>2, <2>3
  <2> QED BY <1>0, <2>1, <2>3, <2>4, <2>5, StreamPut, Zenon
<1>18. CASE ItemValue
  <2> DEFINE p == Piece("rest", "dumper", items)
  <2>1. p \in Pieces /\ p[2] = "dumper" /\ ~IsBegin(p) /\ \A u \in Threads : ~CommentOf(p, u)
    BY DEF Piece, Pieces, CommentOf, IsComment, IsBegin, StoreTypes, Threads
  <2> HIDE DEF p
  <2>2. stream = "open"
    BY <1>0, <1>18 DEF ItemValue, DumperAt, StreamInv, UseInv
  <2>3. Put(p) /\ UNCHANGED <<call, sent, stream>>
    BY <1>18, <2>2 DEF ItemValue, Writes, p
  <2>4. \A u \in Threads : LastPut[u] <= LastPut'[u]
    BY <1>4, <2>3, Zenon
  <2>5. stream' = "open"
    BY <2>2, <2>3
  <2> QED BY <1>0, <2>1, <2>3, <2>4, <2>5, StreamPut, Zenon
<1>19. ASSUME NEW x \in Children, Exec(x) PROVE TextInv' /\ ClosedInv' /\ Grows
  <2>1. UNCHANGED <<call, sent, file, buffer, dpc, stream>>
    BY <1>19 DEF Exec
  <2> QED BY <1>10, <2>1, Zenon
<1>20. ASSUME NEW x \in Children, ExecFails(x) PROVE TextInv' /\ ClosedInv' /\ Grows
  <2> DEFINE p == Piece("comment", x, 1)
  <2>1. p[2] = x
    BY DEF Piece
  <2> HIDE DEF p
  <2>2. file' = file \o child[x].copy \o <<p>> /\ UNCHANGED <<buffer, stream>>
    BY <1>20 DEF ExecFails, p
  <2>3. PICK c \in Seq(Pieces) : c = child[x].copy
    <3> HIDE DEF Pieces
    <3> QED BY DEF StoreTypes
  <2>4. /\ file \in Seq(Pieces) /\ buffer \in Seq(Pieces)
        /\ p \in Pieces
    BY DEF StoreTypes, p, Piece, Pieces
  <2> HIDE DEF Pieces
  <2>5. /\ Len(file') = Len(file) + Len(c) + 1 /\ file' \in Seq(Pieces)
        /\ file'[Len(file')] = p
        /\ \A k \in 1..Len(file) : file'[k] = file[k]
    BY <2>2, <2>3, <2>4
  <2>6. AChildFailed'
    <3>1. Len(file') \in 1..Len(file')
      BY <2>3, <2>4, <2>5
    <3> QED BY <2>1, <2>5, <3>1, Zenon DEF AChildFailed
  <2>7. Range(Text) \subseteq Range(Text')
    <3>1. /\ Len(Text) = Len(file) + Len(buffer) /\ DOMAIN Text = 1..(Len(file) + Len(buffer))
          /\ \A k \in 1..Len(file) : Text[k] = file[k]
          /\ \A k \in 1..Len(buffer) : Text[Len(file) + k] = buffer[k]
      BY <2>4 DEF Text
    <3>2. /\ DOMAIN Text' = 1..(Len(file') + Len(buffer))
          /\ \A k \in 1..Len(file') : Text'[k] = file'[k]
          /\ \A k \in 1..Len(buffer) : Text'[Len(file') + k] = buffer[k]
      BY <2>2, <2>4, <2>5 DEF Text
    <3>3. ASSUME NEW k \in 1..(Len(file) + Len(buffer)) PROVE Text[k] \in Range(Text')
      <4>1. CASE k <= Len(file)
        <5>1. k \in 1..Len(file) /\ k \in 1..Len(file') /\ k \in DOMAIN Text'
          BY <2>3, <2>4, <2>5, <3>2, <4>1
        <5> QED BY <2>5, <3>1, <3>2, <5>1 DEF Range
      <4>2. CASE k > Len(file)
        <5>1. Len(file) \in Nat /\ Len(buffer) \in Nat /\ Len(file') \in Nat
          BY <2>4, <2>5
        <5>2. k - Len(file) \in 1..Len(buffer) /\ Len(file) + (k - Len(file)) = k
          BY <4>2, <5>1
        <5>3. PICK n \in 1..Len(buffer) : Len(file) + n = k
          BY <5>2, Zenon
        <5>4. Len(file') + n \in DOMAIN Text'
          BY <3>2, <5>1
        <5>5. Text[k] = buffer[n] /\ Text'[Len(file') + n] = buffer[n]
          BY <3>1, <3>2, <5>3, Zenon
        <5> QED BY <5>4, <5>5 DEF Range
      <4> QED BY <2>4, <4>1, <4>2
    <3> QED BY <3>1, <3>3 DEF Range
  <2> QED BY <2>2, <2>6, <2>7 DEF TextInv, ClosedInv, Grows
<1>21. CASE UNCHANGED vars
  BY <1>10, <1>21, Zenon DEF vars
<1> QED
  BY <1>5, <1>6, <1>8, <1>9, <1>11, <1>12, <1>13, <1>14, <1>15, <1>16, <1>17, <1>18, <1>19,
     <1>20, <1>21 DEF Next, Main, Dumper, Logmsg, Threads

(* What main has given up it does not take up again, and it closes the stream *)
(* on the way to the end.                                                     *)
LEMMA MainGoesOn ==
  ASSUME [Next]_vars, mpc \in {"closed", "late"} => stream = "closed"
  PROVE  /\ mpc' \notin Gone => mpc \notin Gone
         /\ mpc' \in {"closed", "late"} => stream' = "closed"
<1> USE DEF places, streamVars, Gone
<1>1. CASE UNCHANGED <<mpc, stream>>
  BY <1>1
<1>2. CASE OpenInfo \/ OpenInfoFails \/ OpenCore \/ OpenCoreFails \/ Join \/ CoreClosed
  BY <1>2 DEF OpenInfo, OpenInfoFails, OpenCore, OpenCoreFails, Join, CoreClosed, MainAt
<1>3. CASE CloseStream \/ SetNull \/ Return
  BY <1>3 DEF CloseStream, SetNull, Return, MainAt
<1>4. CASE MainLogs \/ ForkFilter \/ WaitFilter \/ ForkNotify \/ Dumper \/ Logmsg("main")
  <2>1. UNCHANGED <<mpc, stream>>
    BY <1>4 DEF MainLogs, ForkFilter, WaitFilter, ForkNotify, Dumper, Logmsg, ReadBits, WriteBits,
         CheckOutput, PutComment, DumperLogs, PassLock, ItemName, ItemUnreadable, ItemValue, Flush, DumpEnds
  <2> QED BY <1>1, <2>1
<1>5. CASE UNCHANGED vars \/ \E x \in Children : Exec(x) \/ ExecFails(x)
  <2>1. UNCHANGED <<mpc, stream>>
    BY <1>5 DEF vars, Exec, ExecFails
  <2> QED BY <1>1, <2>1
<1> QED BY <1>2, <1>3, <1>4, <1>5, Zenon DEF Next, Main

(* A message stays found: it is in the text, or on its way there.             *)
LEMMA FoundStep ==
  ASSUME IndInv, StoreTypes, TextInv, ClosedInv, FoundInv, [Next]_vars PROVE FoundInv'
<1>0. CallTypes /\ StreamInv /\ UseInv
  BY DEF IndInv
<1>1. Grows /\ (mpc' \notin Gone => mpc \notin Gone) /\ (mpc' \in {"closed", "late"} => stream' = "closed")
  BY TextStep, MainGoesOn DEF FoundInv
<1>2. ASSUME mpc \notin Gone => found' \subseteq found \union Range(Text') \union Putting'
                           /\ Putting \subseteq Putting' \union Range(Text')
      PROVE  FoundInv'
  BY <1>1, <1>2 DEF FoundInv, Grows
<1> USE DEF streamVars, places, history
<1>3. ASSUME UNCHANGED <<call, sent, found>> PROVE FoundInv'
  <2>1. Putting' = Putting
    BY <1>3 DEF Putting, Comment
  <2> QED BY <1>2, <1>3, <2>1
<1>4. ASSUME NEW t \in Threads, found' = found, call[t].at # "put",
             \A u \in Threads \ {t} : call'[u] = call[u] /\ sent'[u] = sent[u]
      PROVE  FoundInv'
  <2>1. Putting \subseteq Putting'
    BY <1>4 DEF Putting, Comment
  <2> QED BY <1>2, <1>4, <2>1
<1>5. ASSUME NEW t \in Threads, ReadBits(t) \/ WriteBits(t) PROVE FoundInv'
  <2>1. /\ UNCHANGED <<sent, found>> /\ call[t].at # "put"
        /\ \A u \in Threads \ {t} : call'[u] = call[u]
    BY <1>0, <1>5 DEF ReadBits, WriteBits, CallTypes
  <2> QED BY <1>4, <2>1
<1>6. ASSUME NEW t \in Threads, CheckOutput(t) PROVE FoundInv'
  <2>1. /\ UNCHANGED sent /\ call[t].at = "check"
        /\ \A u \in Threads \ {t} : call'[u] = call[u]
        /\ \/ found' = found
           \/ call'[t].at = "put" /\ found' = found \union {Comment(t)}
    BY <1>0, <1>6 DEF CheckOutput, CallTypes
  <2>2. Putting \subseteq Putting'
    BY <2>1 DEF Putting, Comment
  <2>3. call'[t].at = "put" => Comment(t) \in Putting'
    BY <2>1 DEF Putting, Comment
  <2> QED BY <1>2, <2>1, <2>2, <2>3
<1>7. ASSUME NEW t \in Threads, PutComment(t) PROVE FoundInv'
  <2>1. /\ UNCHANGED <<sent, found>> /\ call[t].at = "put"
        /\ \A u \in Threads \ {t} : call'[u] = call[u]
    BY <1>0, <1>7 DEF PutComment, CallTypes
  <2>2. mpc \notin Gone => stream = "open"
    BY <1>0, <2>1 DEF StreamInv, UseInv, Threads, Gone
  <2>3. stream = "open" => Comment(t) \in Range(Text')
    <3>1. Comment(t) \in Pieces
      BY DEF StoreTypes, Comment, Piece, Pieces
    <3>2. stream = "open" => Put(Comment(t))
      BY <1>7 DEF PutComment
    <3> QED BY <3>1, <3>2, PutIsThere
  <2>4. Putting \subseteq Putting' \union {Comment(t)}
    BY <2>1 DEF Putting, Comment
  <2> QED BY <1>2, <2>1, <2>2, <2>3, <2>4
<1>8. ASSUME NEW t \in Threads, NEW l, LogCall(t, l), found' = found PROVE FoundInv'
  <2>1. call[t].at # "put" /\ \A u \in Threads \ {t} : call'[u] = call[u] /\ sent'[u] = sent[u]
    BY <1>0, <1>8 DEF LogCall, CallTypes, StoreTypes
  <2> QED BY <1>4, <1>8, <2>1
<1>9. CASE MainLogs \/ DumperLogs \/ ItemUnreadable
  <2>1. found' = found /\ \E t \in Threads : \E l : LogCall(t, l)
    BY <1>9 DEF MainLogs, DumperLogs, ItemUnreadable, Threads
  <2> QED BY <1>8, <2>1, Zenon
<1>10. CASE WaitFilter
  <2>1. found' = found /\ (LogCall("main", "err") \/ UNCHANGED <<call, sent>>)
    BY <1>10 DEF WaitFilter
  <2> QED BY <1>3, <1>8, <2>1, Zenon DEF Threads
<1>11. CASE OpenInfo \/ OpenInfoFails \/ ForkFilter \/ OpenCore \/ OpenCoreFails \/ Join
            \/ ForkNotify \/ CoreClosed
  BY <1>3, <1>11 DEF OpenInfo, OpenInfoFails, ForkFilter, OpenCore, OpenCoreFails, Join,
       ForkNotify, CoreClosed
<1>12. CASE CloseStream \/ SetNull \/ Return \/ PassLock \/ ItemName \/ ItemValue \/ Flush \/ DumpEnds
  BY <1>3, <1>12 DEF CloseStream, SetNull, Return, PassLock, ItemName, ItemValue, Flush, DumpEnds
<1>13. CASE \E x \in Children : Exec(x) \/ ExecFails(x)
  BY <1>3, <1>13 DEF Exec, ExecFails
<1>14. CASE UNCHANGED vars
  BY <1>3, <1>14 DEF vars
<1> QED
  BY <1>5, <1>6, <1>7, <1>9, <1>10, <1>11, <1>12, <1>13, <1>14, Zenon DEF Next, Main, Dumper, Logmsg, Threads

-----------------------------------------------------------------------------
(* IndInv holds in every reachable state.                                     *)
THEOREM Invariance == Spec => []IndInv
<1>1. Init => IndInv
  BY InitHolds
<1>2. IndInv /\ [Next]_vars => IndInv'
  BY TypesStep, BitStep, UseStep, RegStep DEF IndInv
<1> QED
  BY <1>1, <1>2, PTL DEF Spec

(* So does what is said of the stream.                                        *)
THEOREM StreamInvariance == Spec => [](StoreTypes /\ TextInv /\ ClosedInv /\ FoundInv)
<1>1. Init => StoreTypes /\ TextInv /\ ClosedInv /\ FoundInv
  <2> SUFFICES ASSUME Init PROVE StoreTypes /\ TextInv /\ ClosedInv /\ FoundInv
    OBVIOUS
  <2>1. /\ sent = [t \in Threads |-> 0] /\ buffer = <<>> /\ file = <<>> /\ items = 0
        /\ child = [x \in Children |-> NoChild] /\ found = {} /\ stream = "none" /\ mpc = "early"
    BY DEF Init
  <2> HIDE DEF Pieces
  <2>2. buffer \in Seq(Pieces) /\ Len(buffer) = 0 /\ file \in Seq(Pieces)
    BY <2>1
  <2>3. child \in [Children -> [at : {"none", "forked", "ok", "failed"}, copy : Seq(Pieces)]]
    BY <2>1 DEF NoChild
  <2>4. StoreTypes
    BY <2>1, <2>2, <2>3, LogAssumption DEF StoreTypes
  <2>5. Len(Text) = 0
    BY <2>1 DEF Text
  <2>6. TextInv
    BY <2>5 DEF TextInv, Unbroken, EndsOpen, InOrder, NoneAfter
  <2>7. FoundInv
    BY <2>1 DEF FoundInv
  <2> QED BY <2>1, <2>4, <2>6, <2>7 DEF ClosedInv
<1>2. IndInv /\ (StoreTypes /\ TextInv /\ ClosedInv /\ FoundInv) /\ [Next]_vars
        => (StoreTypes /\ TextInv /\ ClosedInv /\ FoundInv)'
  BY StoreStep, TextStep, FoundStep
<1> QED
  BY <1>1, <1>2, Invariance, PTL DEF Spec

(* Every variable holds what logmsg, main and the thread can put there, and   *)
(* the buffer of the stream never more than its size.                         *)
THEOREM TypeCorrect == Spec => []TypeOK
<1>1. IndInv /\ StoreTypes => TypeOK
  BY Zenon DEF IndInv, CallTypes, StoreTypes, TypeOK
<1> QED
  BY <1>1, Invariance, StreamInvariance, PTL

(* info.c writes a line in two calls, and logmsg can be called meanwhile: no  *)
(* message of main comes between them.                                        *)
THEOREM LinesWhole == Spec => []LinesUnbroken
<1>1. TextInv => LinesUnbroken
  BY Zenon DEF TextInv, Unbroken, LinesUnbroken
<1> QED
  BY <1>1, StreamInvariance, PTL

(* log.c:81-94: a message that found the stream there is in the output when   *)
(* main has closed that after the join, once and after the messages its       *)
(* thread logged before.                                                      *)
THEOREM MessagesArrive == Spec => []MessagesKept
<1>1. IndInv /\ StoreTypes /\ TextInv /\ ClosedInv /\ FoundInv => MessagesKept
  <2> SUFFICES ASSUME IndInv, StoreTypes, TextInv, ClosedInv, FoundInv, stream = "closed"
               PROVE  /\ mpc \in {"closed", "late"} => found \subseteq Range(file)
                      /\ ~AChildFailed => InOrder(file)
    BY Zenon DEF MessagesKept, InOrder, FoundInv
  <2>1. Text = file
    <3> HIDE DEF Pieces
    <3> QED BY DEF ClosedInv, Text, StoreTypes
  <2>2. mpc \in {"closed", "late"} => Putting = {}
    BY DEF IndInv, UseInv, Threads, Putting
  <2>3. mpc \in {"closed", "late"} => mpc \notin Gone
    BY DEF Gone
  <2> QED BY <2>1, <2>2, <2>3, Zenon DEF FoundInv, TextInv
<1> QED
  BY <1>1, Invariance, StreamInvariance, PTL

(* logmsg (log.c:35-54): whatever bits the two threads take from each other,  *)
(* the exit code has none for a level nobody logged, and it is 0 only when    *)
(* nothing from warning up was logged.                                        *)
THEOREM HonestCode == Spec => []BitsHonest
<1>1. IndInv => BitsHonest
  BY DEF IndInv, BitInv
<1> QED
  BY <1>1, Invariance, PTL

(* log.c:81-94 and info.c: whoever has found the stream open uses it before   *)
(* main closes it, unless main has given up on the core output.               *)
THEOREM StreamUsedWhileOpen == Spec => []UsedWhileOpen
<1>1. IndInv => UsedWhileOpen
  BY DEF IndInv, StreamInv, UseInv, UsedWhileOpen, Uses, Threads
<1> QED
  BY <1>1, Invariance, PTL

(* Once main has joined the thread, a bit that is set stays set: the last     *)
(* messages, those of closing the outputs, cannot undo an earlier one.        *)
THEOREM NoBitLostLate == Spec => BitsStay
<1>1. ASSUME IndInv, [Next]_vars, AfterJoin PROVE exitcode \subseteq exitcode'
  <2>1. call["dumper"].at = "idle"
    BY <1>1 DEF IndInv, UseInv, AfterJoin
  <2>2. CASE \E t \in Threads : WriteBits(t)
    <3>1. WriteBits("main")
      BY <2>1, <2>2 DEF WriteBits, Threads
    <3> QED
      BY <1>1, <3>1 DEF WriteBits, IndInv, RegInv
  <2>3. CASE ~\E t \in Threads : WriteBits(t)
    <3>1. exitcode' = exitcode
      BY <1>1, <2>3 DEF Next, Main, Dumper, Logmsg, Threads, vars, ReadBits, CheckOutput,
         PutComment, MainLogs, OpenInfo, OpenInfoFails, ForkFilter, OpenCore, OpenCoreFails,
         Join, WaitFilter, ForkNotify, CoreClosed, CloseStream, SetNull, Return, DumperLogs,
         PassLock, ItemName, ItemUnreadable, ItemValue, Flush, DumpEnds, Exec, ExecFails
    <3> QED
      BY <3>1
  <2> QED
    BY <2>2, <2>3
<1>2. IndInv /\ [Next]_vars => [AfterJoin => exitcode \subseteq exitcode']_vars
  BY <1>1
<1> QED
  BY <1>2, Invariance, PTL DEF Spec, BitsStay
=============================================================================
