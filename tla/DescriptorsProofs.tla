-------------------------- MODULE DescriptorsProofs --------------------------
(* Proofs about Descriptors: however many proc files the thread opens and     *)
(* blocks main copies, and wherever the core, the pipes and the outputs fail  *)
(* to open, no number that is stale does harm, and with libunwind there is    *)
(* none as long as the core and the filter pipes could be opened.             *)
EXTENDS Descriptors, TLAPS, WellFoundedInduction

(* What the variables range over.                                             *)
Kinds   == Holders \union {Free, "input", "stdout", "stderr"}
Tables  == [0..MaxFd -> Kinds]
Places  == {"core", "pipe", "proc", "info", "fdopen", "core_out", "unlock", "first_close", "loop",
            "write", "feed", "join", "close_core", "close_info", "err1", "end"}

(* Where main opens descriptors, and where it copies.                         *)
Opening == {"core", "pipe", "proc", "info", "fdopen", "core_out", "unlock", "err1"}
Copying == {"unlock", "loop", "write", "feed", "join", "close_core"}

(* Nothing is open from number k on.                                          *)
Room(t, k) == \A n \in k..MaxFd : t[n] = Free

(* The kinds of the variables.                                                *)
Types ==
  /\ unwind \in BOOLEAN /\ corepath \in {"stdin", "path"} /\ stale \in BOOLEAN
  /\ table \in Tables /\ num \in [Holders -> {Unset} \union 0..MaxFd]
  /\ mpc \in Places /\ dpc \in {"none", "wait", "dump", "item", "read", "done"}

(* The thread dumps only after main has opened everything, and main closes    *)
(* the outputs only when it is done; there is always a number left for it.    *)
OrderInv ==
  /\ mpc \in Opening => dpc \in {"none", "wait"}
  /\ mpc \in {"core", "pipe"} => dpc = "none" /\ \A h \in Holders : num[h] = Unset
  /\ mpc \in {"close_core", "close_info"} => dpc \in {"none", "done"}
  /\ mpc \in {"core", "pipe"} => Room(table, 3)
  /\ mpc = "proc" => Room(table, 5)
  /\ mpc = "info" => Room(table, 6)
  /\ mpc \in {"fdopen", "core_out", "err1"} => Room(table, 9)
  /\ \A n \in 12..MaxFd : table[n] \in {Free, "item"}
  /\ \A n \in 0..MaxFd : table[n] = "item" => n = num["item"] /\ dpc \in {"item", "read"}

(* The number in a variable is that of its descriptor or stale, and then it   *)
(* is free or that of a file of the thread; none is stale while main opens.   *)
NumberInv ==
  /\ \A h \in Holders : num[h] # Unset => table[num[h]] \in {h, Free, "item"}
  /\ mpc \in {"core", "pipe", "proc", "info", "core_out"} =>
       \A h \in Holders : num[h] # Unset => table[num[h]] = h
  /\ mpc = "fdopen" => \A h \in Holders \ {"info"} : num[h] # Unset => table[num[h]] = h
  /\ corepath = "stdin" => table[0] = "input"

(* With libunwind, and unless a pipe for a filter failed, what is still to be *)
(* used is open.                                                              *)
LiveInv ==
  unwind /\ ~stale =>
    /\ num["pipe_w"] # Unset /\ mpc \notin {"join", "close_core", "close_info", "err1", "end"} =>
         At("pipe_w") = "pipe_w"
    /\ mpc \in Copying => At("core") = "core"
    /\ mpc \in {"fdopen", "core_out", "close_info", "err1"} \union Copying => At("info") = "info"
    /\ dpc \in {"wait", "dump", "item", "read"} => At("pipe_r") = "pipe_r"
    /\ dpc \in {"item", "read"} => At("item") = "item"
    /\ mpc # "first_close" /\ (mpc = "feed" => num["pipe_w"] # Unset)

(* What the descriptors of main look like.                                    *)
Shape == OrderInv /\ NumberInv /\ LiveInv

(* All of it.                                                                 *)
IndInv == Types /\ Shape /\ OwnDescriptors /\ StraysHarmless

-----------------------------------------------------------------------------
(* The lowest free number: there is one when the last numbers are free, and   *)
(* only those above it stay free for certain.                                 *)
LEMMA LowestIsFree ==
  ASSUME NEW S, NEW t \in [0..MaxFd -> S], NEW k \in 0..MaxFd, Room(t, k)
  PROVE  /\ Lowest(t) \in 0..MaxFd /\ Lowest(t) <= k /\ t[Lowest(t)] = Free
         /\ \A v : Room([t EXCEPT ![Lowest(t)] = v], k + 1)
<1>m. MaxFd \in Nat
  BY DescriptorsAssumption DEF DescriptorsAssumption
<1> DEFINE F == {n \in 0..MaxFd : t[n] = Free}
<1>1. F \subseteq Nat /\ k \in F
  BY <1>m DEF Room
<1>2. \E b \in F : \A a \in F : ~(<<a, b>> \in OpToRel(<, Nat))
  <2>1. F # {} /\ F \subseteq Nat
    BY <1>1
  <2> HIDE DEF F
  <2> QED
    BY <2>1, NatLessThanWellFounded, WFMin, Zenon
<1>3. PICK b \in F : \A a \in F : ~(<<a, b>> \in OpToRel(<, Nat))
  BY <1>2, Zenon
<1>4. ASSUME NEW a \in F, a < b PROVE FALSE
  <2>1. a \in Nat /\ b \in Nat
    BY <1>1
  <2>2. <<a, b>> \in OpToRel(<, Nat)
    BY <2>1, <1>4, Zenon DEF OpToRel
  <2> QED
    BY <1>3, <2>2, Zenon
<1>5. b \in 0..MaxFd /\ t[b] = Free /\ \A m \in 0..(b - 1) : t[m] # Free
  <2>1. ASSUME NEW m \in 0..(b - 1), t[m] = Free PROVE FALSE
    <3>1. m \in F /\ m < b
      BY <1>m, <2>1
    <3> QED
      BY <1>4, <3>1
  <2> QED
    BY <2>1
<1> DEFINE l == Lowest(t)
<1>6. l \in 0..MaxFd /\ t[l] = Free /\ \A m \in 0..(l - 1) : t[m] # Free
  BY <1>5, Zenon DEF Lowest
<1> HIDE DEF l
<1>7. l <= k
  BY <1>1, <1>6, <1>m
<1>8. ASSUME NEW v PROVE Room([t EXCEPT ![l] = v], k + 1)
  <2>1. ASSUME NEW n \in (k + 1)..MaxFd PROVE [t EXCEPT ![l] = v][n] = Free
    <3>1. n \in 0..MaxFd /\ n # l /\ n \in k..MaxFd
      BY <1>6, <1>7, <1>m
    <3> QED
      BY <3>1 DEF Room
  <2> QED
    BY <2>1 DEF Room
<1> QED
  BY <1>6, <1>7, <1>8 DEF l

(* The next two after it, while it is taken.                                  *)
LEMMA SecondIsFree ==
  ASSUME NEW t \in Tables, NEW k \in 0..(MaxFd - 1), Room(t, k)
  PROVE  /\ Second(t) \in 0..MaxFd /\ Second(t) # Lowest(t) /\ t[Second(t)] = Free
         /\ Lowest(t) \in 0..MaxFd /\ t[Lowest(t)] = Free
         /\ \A v, w : Room([t EXCEPT ![Lowest(t)] = v, ![Second(t)] = w], k + 2)
<1>m. MaxFd \in Nat /\ k \in 0..MaxFd /\ k + 1 \in 0..MaxFd /\ k + 1 + 1 = k + 2 /\ k \in Nat
  BY DescriptorsAssumption DEF DescriptorsAssumption
<1>t. t \in [0..MaxFd -> Kinds \union {"taken"}]
  BY DEF Tables
<1> DEFINE a == Lowest(t)
           u == [t EXCEPT ![a] = "taken"]
           b == Lowest(u)
<1>1. a \in 0..MaxFd /\ a <= k /\ t[a] = Free /\ \A v : Room([t EXCEPT ![a] = v], k + 1)
  BY <1>m, <1>t, LowestIsFree
<1> HIDE DEF a
<1>2. u \in [0..MaxFd -> Kinds \union {"taken"}] /\ Room(u, k + 1)
  BY <1>t, <1>1
<1>3. b \in 0..MaxFd /\ b <= k + 1 /\ u[b] = Free
  <2> HIDE DEF u
  <2> QED
    BY <1>m, <1>2, LowestIsFree
<1>4. Second(t) = b
  BY DEF Second, a
<1> HIDE DEF b
<1>5. b # a /\ t[b] = Free
  BY <1>1, <1>3, <1>t DEF Free
<1>6. ASSUME NEW v, NEW w PROVE Room([t EXCEPT ![a] = v, ![b] = w], k + 2)
  <2>1. ASSUME NEW n \in (k + 2)..MaxFd PROVE [t EXCEPT ![a] = v, ![b] = w][n] = Free
    <3>1. n \in 0..MaxFd /\ n # a /\ n # b /\ n \in k..MaxFd
      BY <1>1, <1>3, <1>m
    <3> QED
      BY <3>1, <1>t DEF Room
  <2> QED
    BY <2>1 DEF Room
<1> QED
  BY <1>1, <1>3, <1>4, <1>5, <1>6 DEF a

-----------------------------------------------------------------------------
(* What an open does: each holder of H has the number of a descriptor that    *)
(* is new, the other variables and descriptors are as they were.              *)
Opens(H) ==
  /\ table' \in Tables /\ num' \in [Holders -> {Unset} \union 0..MaxFd]
  /\ \A g \in Holders \ H : num'[g] = num[g]
  /\ \A n \in 0..MaxFd : table'[n] = table[n] \/ (table[n] = Free /\ table'[n] \in H)
  /\ \A h \in H : num'[h] \in 0..MaxFd /\ table'[num'[h]] = h

(* What is open now leaves a number free for what is opened later.            *)
LEMMA RoomLater ==
  ASSUME NEW t, NEW k \in Nat, NEW m \in Nat, k <= m, Room(t, k) PROVE Room(t, m)
<1>1. \A n \in m..MaxFd : n \in k..MaxFd
  BY DescriptorsAssumption DEF DescriptorsAssumption
<1> QED
  BY <1>1 DEF Room

(* One descriptor has been opened.                                            *)
LEMMA OneOpened ==
  ASSUME Types, NEW h \in Holders, NEW k \in 0..MaxFd, Room(table, k),
         table' = Open(table, h), num' = [num EXCEPT ![h] = Lowest(table)]
  PROVE  Opens({h}) /\ Room(table', k + 1)
<1>1. table \in [0..MaxFd -> Kinds] /\ num \in [Holders -> {Unset} \union 0..MaxFd]
  BY DEF Types, Tables
<1> DEFINE a == Lowest(table)
<1>2. a \in 0..MaxFd /\ table[a] = Free /\ Room([table EXCEPT ![a] = h], k + 1)
  BY <1>1, LowestIsFree
<1>3. table' = [table EXCEPT ![a] = h] /\ num' = [num EXCEPT ![h] = a]
  BY DEF Open
<1> HIDE DEF a
<1>4. h \in Kinds
  BY DEF Kinds
<1> QED
  BY <1>1, <1>2, <1>3, <1>4 DEF Opens, Tables

(* The two ends of the pipe have been opened.                                 *)
LEMMA PipeOpened ==
  ASSUME Types, NEW k \in 0..(MaxFd - 1), Room(table, k), CreatePipe
  PROVE  Opens({"pipe_r", "pipe_w"}) /\ Room(table', k + 2)
<1>1. table \in [0..MaxFd -> Kinds] /\ table \in Tables /\ num \in [Holders -> {Unset} \union 0..MaxFd]
  BY DEF Types, Tables
<1> DEFINE a == Lowest(table)
           b == Second(table)
<1>2. /\ a \in 0..MaxFd /\ table[a] = Free /\ b \in 0..MaxFd /\ table[b] = Free /\ b # a
      /\ Room([table EXCEPT ![a] = "pipe_r", ![b] = "pipe_w"], k + 2)
  BY <1>1, SecondIsFree
<1>3. /\ table' = [table EXCEPT ![a] = "pipe_r", ![b] = "pipe_w"]
      /\ num' = [num EXCEPT !["pipe_r"] = a, !["pipe_w"] = b]
  BY DEF CreatePipe
<1> HIDE DEF a, b
<1>4. {"pipe_r", "pipe_w"} \subseteq Kinds /\ {"pipe_r", "pipe_w"} \subseteq Holders
  BY DEF Kinds, Holders
<1>5. table' \in Tables /\ num' \in [Holders -> {Unset} \union 0..MaxFd]
  BY <1>1, <1>2, <1>3, <1>4 DEF Tables
<1>6. table'[a] = "pipe_r" /\ table'[b] = "pipe_w" /\ num'["pipe_r"] = a /\ num'["pipe_w"] = b
      /\ (\A n \in (0..MaxFd) \ {a, b} : table'[n] = table[n])
      /\ (\A g \in Holders \ {"pipe_r", "pipe_w"} : num'[g] = num[g])
  BY <1>1, <1>2, <1>3, <1>4
<1> QED
  BY <1>2, <1>3, <1>5, <1>6 DEF Opens

(* An output has been opened.                                                 *)
LEMMA OutputOpened ==
  ASSUME Types, NEW h \in {"info", "core"}, NEW k \in 0..(MaxFd - 2), Room(table, k),
         OutputNull(h) \/ OutputFile(h) \/ OutputFilter(h)
  PROVE  (Opens({h}) \/ Opens({h, "null"})) /\ Room(table', k + 3) /\ stale' = stale
<1>m. MaxFd \in Nat /\ k \in Nat /\ k \in 0..MaxFd /\ k + 1 \in 0..MaxFd /\ k + 2 \in 0..MaxFd
      /\ k \in 0..(MaxFd - 1) /\ k + 1 + 1 = k + 2 /\ k + 2 + 1 = k + 3
  BY DescriptorsAssumption DEF DescriptorsAssumption
<1>t. table \in [0..MaxFd -> Kinds] /\ table \in Tables /\ num \in [Holders -> {Unset} \union 0..MaxFd]
  BY DEF Types, Tables
<1>h. h \in Holders /\ h \in Kinds /\ "null" \in Holders /\ "null" \in Kinds /\ h # "null"
  BY DEF Holders, Kinds
<1>s. stale' = stale
  BY DEF OutputNull, OutputFile, OutputFilter
<1>1. ASSUME table' = Open(table, h), num' = [num EXCEPT ![h] = Lowest(table)]
      PROVE  Opens({h}) /\ Room(table', k + 3)
  <2>1. Opens({h}) /\ Room(table', k + 1)
    BY <1>1, <1>m, <1>h, OneOpened
  <2> QED
    BY <2>1, <1>m, RoomLater
<1>2. CASE OutputFile(h)
  BY <1>1, <1>2, <1>s DEF OutputFile
<1>3. CASE OutputNull(h) /\ num["null"] # Unset
  <2>1. table' = Open(table, h) /\ num' = [num EXCEPT ![h] = Lowest(table)]
    <3>1. WithNull = table
      BY <1>3 DEF WithNull
    <3> QED
      BY <1>3, <3>1, <1>t, <1>h DEF OutputNull
  <2> QED
    BY <1>1, <2>1, <1>s
<1>4. CASE OutputNull(h) /\ num["null"] = Unset
  <2> DEFINE a == Lowest(table)
             u == [table EXCEPT ![a] = "null"]
             b == Lowest(u)
  <2>1. a \in 0..MaxFd /\ table[a] = Free /\ Room(u, k + 1)
    BY <1>t, <1>m, LowestIsFree
  <2>2. WithNull = u
    BY <1>4 DEF WithNull, Open
  <2>3. num' = [num EXCEPT !["null"] = a, ![h] = Lowest(u)] /\ table' = Open(u, h)
    BY <1>4, <2>2, <1>t, <1>h DEF OutputNull
  <2> HIDE DEF a
  <2>4. u \in [0..MaxFd -> Kinds]
    BY <1>t, <1>h, <2>1
  <2>u. u[a] = "null" /\ \A n \in (0..MaxFd) \ {a} : u[n] = table[n]
    BY <1>t, <2>1
  <2> HIDE DEF u
  <2>5. b \in 0..MaxFd /\ u[b] = Free /\ \A v : Room([u EXCEPT ![b] = v], k + 2)
    BY <2>1, <2>4, <1>m, LowestIsFree
  <2>6. table' = [u EXCEPT ![b] = h]
    BY <2>3 DEF Open
  <2>7. num' = [num EXCEPT !["null"] = a, ![h] = b]
    BY <2>3
  <2> HIDE DEF b
  <2>8. b # a /\ table[b] = Free
    BY <2>5, <2>u, <2>1 DEF Free
  <2>9. table'[b] = h /\ table'[a] = "null" /\ \A n \in (0..MaxFd) \ {a, b} : table'[n] = table[n]
    BY <2>4, <2>5, <2>6, <2>8, <2>u, <2>1
  <2>10. num'["null"] = a /\ num'[h] = b /\ \A g \in Holders \ {h, "null"} : num'[g] = num[g]
    BY <2>7, <1>t, <1>h
  <2>11. table' \in Tables /\ num' \in [Holders -> {Unset} \union 0..MaxFd]
    BY <2>1, <2>4, <2>5, <2>6, <2>7, <1>t, <1>h DEF Tables
  <2>12. Opens({h, "null"})
    BY <2>1, <2>5, <2>8, <2>9, <2>10, <2>11 DEF Opens
  <2>13. Room(table', k + 3)
    <3>1. Room(table', k + 2)
      BY <2>5, <2>6
    <3>2. k + 2 \in Nat /\ k + 3 \in Nat /\ k + 2 <= k + 3
      BY <1>m
    <3> QED
      BY <3>1, <3>2, RoomLater
  <2> QED
    BY <2>12, <2>13, <1>s
<1>5. CASE OutputFilter(h)
  <2> DEFINE a == Lowest(table)
             b == Second(table)
             third == [table EXCEPT ![a] = "file", ![b] = "filter_r"]
             d == Lowest(third)
  <2>1. /\ a \in 0..MaxFd /\ b \in 0..MaxFd /\ Room(third, k + 2)
    BY <1>t, <1>m, SecondIsFree
  <2>2. table' = [table EXCEPT ![d] = h] /\ num' = [num EXCEPT ![h] = d]
    BY <1>5 DEF OutputFilter
  <2> HIDE DEF a, b
  <2>3. third \in [0..MaxFd -> Kinds \union {"file", "filter_r"}]
    BY <1>t, <2>1
  <2>f. \A n \in 0..MaxFd : third[n] \in {table[n], "file", "filter_r"}
    BY <1>t, <2>1
  <2>r. \A n \in (k + 2)..MaxFd : third[n] = Free
    BY <2>1 DEF Room
  <2> HIDE DEF third
  <2>4. d \in 0..MaxFd /\ d <= k + 2 /\ third[d] = Free
    BY <2>1, <2>3, <1>m, LowestIsFree
  <2> HIDE DEF d
  <2>5. table[d] = Free
    BY <2>4, <2>f DEF Free
  <2>6. Opens({h})
    BY <2>2, <2>4, <2>5, <1>t, <1>h DEF Opens, Tables
  <2>7. Room(table', k + 3)
    <3>1. ASSUME NEW n \in (k + 3)..MaxFd PROVE table'[n] = Free
      <4>1. n \in 0..MaxFd /\ n # d /\ n \in k..MaxFd
        BY <1>m, <2>4
      <4> QED
        BY <4>1, <2>2, <1>t DEF Room
    <3> QED
      BY <3>1 DEF Room
  <2> QED
    BY <2>6, <2>7, <1>s
<1> QED
  BY <1>2, <1>3, <1>4, <1>5

(* What is open stays open, and numbers of other variables keep what they     *)
(* reach unless it was free.                                                  *)
LEMMA OpensKeeps ==
  ASSUME Types, NEW H \in SUBSET Holders, Opens(H)
  PROVE  /\ \A g \in Holders : At(g) = g => At(g)' = g
         /\ \A h \in H : At(h)' = h
         /\ \A g \in Holders : num[g] # Unset /\ table[num[g]] = g => num'[g] # Unset /\ table'[num'[g]] = g
         /\ \A g \in Holders : num'[g] # Unset /\ num[g] = Unset => table'[num'[g]] = g
<1>1. \A g \in Holders : g # Free
  BY DEF Holders, Free
<1>2. Unset \notin 0..MaxFd
  BY DEF Unset
<1>3. \A g \in Holders : num[g] # Unset => num[g] \in 0..MaxFd
  BY DEF Types
<1> QED
  BY <1>1, <1>2, <1>3 DEF Opens, At

(* close(): the number is free then, nothing else changes, and if it was not  *)
(* stale, or stale in a way that harms nobody, the others stay as they are.   *)
Closes(h) == table' = Closed(h) /\ num' \in {num, [num EXCEPT ![h] = Unset]}

(* A step that only closes.                                                   *)
LEMMA ClosesKeeps ==
  ASSUME Types, NEW h \in Holders, Closes(h)
  PROVE  /\ table' \in Tables /\ num' \in [Holders -> {Unset} \union 0..MaxFd]
         /\ \A n \in 0..MaxFd : /\ table'[n] \in {table[n], Free}
                                /\ num[h] = Unset \/ n # num[h] => table'[n] = table[n]
                                /\ n = num[h] => table'[n] = Free
         /\ \A g \in Holders : num'[g] # Unset => num'[g] = num[g]
         /\ \A g \in Holders \ {h} : num'[g] = num[g]
         /\ \A g \in Holders \ {h} : At(g) = g /\ At(h) \in {h, Free} => At(g)' = g
<1>1. table \in [0..MaxFd -> Kinds] /\ num \in [Holders -> {Unset} \union 0..MaxFd]
  BY DEF Types, Tables
<1>2. Free \in Kinds /\ Unset \notin 0..MaxFd
  BY DEF Kinds, Unset
<1>3. num[h] = Unset => table' = table
  BY DEF Closes, Closed
<1>4. num[h] # Unset => num[h] \in 0..MaxFd /\ table' = [table EXCEPT ![num[h]] = Free]
  BY <1>1 DEF Closes, Closed
<1>5. /\ table' \in Tables
      /\ \A n \in 0..MaxFd : /\ table'[n] \in {table[n], Free}
                             /\ num[h] = Unset \/ n # num[h] => table'[n] = table[n]
                             /\ n = num[h] => table'[n] = Free
  BY <1>1, <1>2, <1>3, <1>4 DEF Tables
<1>6. num' = num \/ num' = [num EXCEPT ![h] = Unset]
  BY DEF Closes
<1>7. /\ num' \in [Holders -> {Unset} \union 0..MaxFd]
      /\ \A g \in Holders : num'[g] # Unset => num'[g] = num[g]
      /\ \A g \in Holders \ {h} : num'[g] = num[g]
  BY <1>1, <1>6
<1>8. ASSUME NEW g \in Holders \ {h}, At(g) = g, At(h) \in {h, Free} PROVE At(g)' = g
  <2>1. g # Free /\ num[g] # Unset /\ table[num[g]] = g /\ num[g] \in 0..MaxFd
    BY <1>8, <1>1 DEF At, Holders, Free
  <2>2. num[h] # num[g]
    BY <1>8, <2>1 DEF At
  <2>3. table'[num[g]] = g /\ num'[g] = num[g]
    BY <1>5, <1>7, <2>1, <2>2
  <2> QED
    BY <2>1, <2>3 DEF At
<1> QED
  BY <1>5, <1>7, <1>8

-----------------------------------------------------------------------------
(* Where main and the thread are.                                             *)
LEMMA PlacesStep ==
  ASSUME Types, [Next]_vars
  PROVE  /\ unwind' = unwind /\ corepath' = corepath /\ stale' \in BOOLEAN /\ (stale => stale')
         /\ mpc' \in Places /\ dpc' \in {"none", "wait", "dump", "item", "read", "done"}
<1>1. unwind' = unwind /\ corepath' = corepath /\ stale' \in {stale, TRUE}
  BY DEF Next, vars, Main, Dumper, KeepStdin, OpenCorePath, CreatePipe, CreatePipeFails, OpenProc, OpenInfo,
         Fdopen, OpenCore, Unlock, FirstClose, ReadCore, WriteCore, Feed, LastClose, Join, CloseCore,
         CloseInfo, OpenItem, ReadItem, CloseItem, CloseInput, config, OpenOutput, OutputNull, OutputFile,
         OutputFilter, OutputStale, CloseOutput
<1>2. mpc' \in Places
  BY DEF Types, Places, Next, vars, Main, Dumper, KeepStdin, OpenCorePath, CreatePipe, CreatePipeFails, OpenProc,
         OpenInfo, Fdopen, OpenCore, Unlock, FirstClose, ReadCore, WriteCore, Feed, LastClose, Join, CloseCore,
         CloseInfo, OpenItem, ReadItem, CloseItem, CloseInput, Goto
<1>3. dpc' \in {"none", "wait", "dump", "item", "read", "done"}
  BY DEF Types, Next, vars, Main, Dumper, KeepStdin, OpenCorePath, CreatePipe, CreatePipeFails, OpenProc,
         OpenInfo, Fdopen, OpenCore, Unlock, FirstClose, ReadCore, WriteCore, Feed, LastClose, Join, CloseCore,
         CloseInfo, OpenItem, ReadItem, CloseItem, CloseInput, OpenOutput, CloseOutput
<1> QED
  BY <1>1, <1>2, <1>3 DEF Types

(* The steps that open and close nothing.                                     *)
Looks == KeepStdin \/ CreatePipeFails \/ Fdopen \/ Unlock \/ ReadCore \/ WriteCore \/ Feed \/ Join \/ ReadItem

(* The steps that look at a number.                                           *)
LEMMA LooksStep ==
  ASSUME Types, Shape, Looks \/ UNCHANGED vars PROVE Shape'
<1>0. UNCHANGED <<table, num, stale, unwind, corepath>>
  BY DEF Looks, KeepStdin, CreatePipeFails, Fdopen, Unlock, ReadCore, WriteCore, Feed,
         Join, ReadItem, config, vars
<1>a. \A h : At(h)' = At(h)
  BY <1>0 DEF At
<1>1. \/ mpc' = mpc /\ dpc' = dpc
      \/ mpc = "core" /\ mpc' = "pipe" /\ dpc' = dpc
      \/ mpc = "pipe" /\ mpc' = "proc" /\ dpc' = dpc
      \/ mpc = "fdopen" /\ mpc' = "core_out" /\ dpc' = dpc /\ At("info") = "info"
      \/ mpc = "fdopen" /\ mpc' = "err1" /\ dpc' = dpc
      \/ mpc = "unlock" /\ unwind /\ mpc' = "loop" /\ dpc' = (IF dpc = "wait" THEN "dump" ELSE dpc)
      \/ mpc = "unlock" /\ ~unwind /\ mpc' = "first_close" /\ dpc' = (IF dpc = "wait" THEN "dump" ELSE dpc)
      \/ mpc = "loop" /\ mpc' = "write" /\ dpc' = dpc
      \/ mpc = "write" /\ mpc' = (IF num["pipe_w"] # Unset THEN "feed" ELSE "loop") /\ dpc' = dpc
      \/ mpc = "feed" /\ mpc' = "loop" /\ dpc' = dpc
      \/ mpc = "join" /\ dpc \in {"none", "done"} /\ mpc' = "close_core" /\ dpc' = dpc
      \/ mpc' = mpc /\ dpc = "item" /\ dpc' = "read"
  BY DEF Looks, KeepStdin, CreatePipeFails, Fdopen, Unlock, ReadCore, WriteCore, Feed, Join, ReadItem, vars, Goto
<1>2. OrderInv'
  <2>0. OrderInv
    BY DEF Shape
  <2>1. CASE mpc = "pipe" /\ mpc' = "proc"
    <3>1. Room(table, 3) => Room(table, 5)
      BY RoomLater
    <3> QED
      BY <2>0, <2>1, <3>1, <1>0, <1>1 DEF OrderInv, Room, Opening
  <2>2. CASE ~(mpc = "pipe" /\ mpc' = "proc")
    BY <2>0, <2>2, <1>0, <1>1 DEF OrderInv, Room, Opening
  <2> QED
    BY <2>1, <2>2
<1>3. NumberInv'
  <2>1. At("info") = "info" => num["info"] # Unset /\ table[num["info"]] = "info"
    BY DEF At, Free
  <2>2. NumberInv
    BY DEF Shape
  <2> QED
    BY <1>0, <1>1, <2>1, <2>2 DEF NumberInv
<1>4. LiveInv'
  BY <1>0, <1>a, <1>1 DEF Shape, LiveInv, Copying, OrderInv, Opening
<1> QED
  BY <1>2, <1>3, <1>4 DEF Shape

(* The core that cannot be opened.                                            *)
LEMMA CorePathStep ==
  ASSUME Types, Shape, OpenCorePath PROVE Shape' /\ table' \in Tables /\ num' = num
<1>1. mpc = "core" /\ mpc' = "pipe" /\ corepath = "path" /\ UNCHANGED <<num, dpc, stale, unwind, corepath>>
      /\ (table' = table \/ table' = [table EXCEPT ![0] = Free])
  BY DEF OpenCorePath, Goto, config
<1>2. dpc = "none" /\ (\A h \in Holders : num[h] = Unset) /\ Room(table, 3) /\ table \in [0..MaxFd -> Kinds]
  BY <1>1 DEF Shape, OrderInv, Types, Tables
<1>m. MaxFd \in Nat /\ Free \in Kinds
  BY DescriptorsAssumption DEF DescriptorsAssumption, Kinds
<1>3. table' \in Tables /\ Room(table', 3) /\ \A n \in 0..MaxFd : table'[n] \in {table[n], Free}
  BY <1>1, <1>2, <1>m DEF Room, Tables
<1>4. OrderInv'
  <2>1. (\A n \in 12..MaxFd : table'[n] \in {Free, "item"}) /\ \A n \in 0..MaxFd : table'[n] # "item"
    BY <1>1, <1>2, <1>3, <1>m DEF Shape, OrderInv, Free
  <2> QED
    BY <1>1, <1>2, <1>3, <2>1 DEF OrderInv, Opening
<1>5. NumberInv'
  BY <1>1, <1>2 DEF NumberInv
<1>6. LiveInv'
  BY <1>1, <1>2 DEF LiveInv, Copying, Holders
<1> QED
  BY <1>1, <1>3, <1>4, <1>5, <1>6 DEF Shape

(* main opens the pipe, /proc and the outputs.                                *)
MainOpens == CreatePipe \/ OpenProc \/ OpenInfo \/ OpenCore

(* What a step of main that opens something does to the rest.                 *)
LEMMA WhatMainOpens ==
  ASSUME Types, Shape, MainOpens
  PROVE  \/ /\ \E H \in SUBSET Holders :
                 /\ Opens(H) /\ stale' = stale /\ "item" \notin H
                 /\ mpc = "pipe" => H = {"pipe_r", "pipe_w"}
                 /\ mpc = "info" => "info" \in H
                 /\ mpc = "core_out" => "core" \in H
            /\ \/ mpc = "pipe" /\ mpc' = "proc" /\ dpc' = "wait" /\ Room(table', 5)
               \/ mpc = "proc" /\ mpc' = "info" /\ dpc' = dpc /\ Room(table', 6)
               \/ mpc = "info" /\ mpc' = "fdopen" /\ dpc' = dpc /\ Room(table', 9)
               \/ mpc = "core_out" /\ mpc' = "unlock" /\ dpc' = dpc /\ Room(table', 12)
         \/ /\ mpc = "proc" /\ mpc' = "info" /\ dpc' = dpc /\ Room(table', 6) /\ UNCHANGED <<table, num, stale>>
         \/ \E h \in {"info", "core"} :
              /\ OutputStale(h) /\ dpc' = dpc
              /\ h = "info" => mpc = "info" /\ mpc' = "fdopen" /\ Room(table', 9)
              /\ h = "core" => mpc = "core_out" /\ mpc' = "unlock" /\ Room(table', 12)
<1>m. MaxFd \in Nat /\ MaxFd >= 12 /\ 3 \in 0..(MaxFd - 1) /\ 5 \in 0..MaxFd /\ 6 \in 0..(MaxFd - 2)
      /\ 9 \in 0..(MaxFd - 2)
  BY DescriptorsAssumption DEF DescriptorsAssumption
<1>h. {"pipe_r", "pipe_w", "proc", "null", "info", "core"} \subseteq Holders
  BY DEF Holders
<1>1. CASE CreatePipe
  <2>1. mpc = "pipe" /\ mpc' = "proc" /\ dpc' = "wait" /\ stale' = stale
    BY <1>1 DEF CreatePipe, Goto
  <2>2. Room(table, 3)
    BY <2>1 DEF Shape, OrderInv
  <2>3. Opens({"pipe_r", "pipe_w"}) /\ Room(table', 5)
    <3>1. 3 + 2 = 5
      OBVIOUS
    <3> QED
      BY <1>1, <1>m, <2>2, <3>1, PipeOpened
  <2> QED
    BY <2>1, <2>3, <1>h
<1>2. CASE OpenProc
  <2>1. mpc = "proc" /\ mpc' = "info" /\ dpc' = dpc /\ stale' = stale
    BY <1>2 DEF OpenProc, Goto
  <2>2. Room(table, 5)
    BY <2>1 DEF Shape, OrderInv
  <2>3. CASE UNCHANGED <<table, num>>
    BY <2>1, <2>2, <2>3, RoomLater
  <2>4. CASE table' = Open(table, "proc") /\ num' = [num EXCEPT !["proc"] = Lowest(table)]
    <3>1. 5 + 1 = 6
      OBVIOUS
    <3>2. Opens({"proc"}) /\ Room(table', 6)
      BY <2>2, <2>4, <1>m, <1>h, <3>1, OneOpened
    <3> QED
      BY <2>1, <3>2, <1>h
  <2> QED
    BY <1>2, <2>3, <2>4 DEF OpenProc
<1>3. ASSUME NEW h \in {"info", "core"}, OutputNull(h) \/ OutputFile(h) \/ OutputFilter(h),
             NEW k \in {6, 9}, Room(table, k)
      PROVE  \E H \in SUBSET Holders : Opens(H) /\ stale' = stale /\ h \in H /\ "item" \notin H
                                               /\ Room(table', k + 3)
  <2>1. (Opens({h}) \/ Opens({h, "null"})) /\ Room(table', k + 3) /\ stale' = stale
    BY <1>3, <1>m, OutputOpened
  <2> QED
    BY <2>1, <1>h
<1>n. 6 + 3 = 9 /\ 9 + 3 = 12
  OBVIOUS
<1>4. CASE OpenInfo
  <2>1. mpc = "info" /\ mpc' = "fdopen" /\ dpc' = dpc
        /\ (OutputNull("info") \/ OutputFile("info") \/ OutputFilter("info") \/ OutputStale("info"))
    BY <1>4 DEF OpenInfo, OpenOutput, Goto
  <2>2. Room(table, 6)
    BY <2>1 DEF Shape, OrderInv
  <2>3. CASE OutputStale("info")
    <3>1. table' = table
      BY <2>3 DEF OutputStale
    <3>2. Room(table', 9)
      BY <2>2, <3>1, RoomLater
    <3> QED
      BY <2>1, <2>3, <3>2
  <2>4. CASE OutputNull("info") \/ OutputFile("info") \/ OutputFilter("info")
    BY <2>1, <2>2, <2>4, <1>3, <1>n
  <2> QED
    BY <2>1, <2>3, <2>4
<1>5. CASE OpenCore
  <2>1. mpc = "core_out" /\ mpc' = "unlock" /\ dpc' = dpc
        /\ (OutputNull("core") \/ OutputFile("core") \/ OutputFilter("core") \/ OutputStale("core"))
    BY <1>5 DEF OpenCore, OpenOutput, Goto
  <2>2. Room(table, 9)
    BY <2>1 DEF Shape, OrderInv
  <2>3. CASE OutputStale("core")
    <3>1. table' = table
      BY <2>3 DEF OutputStale
    <3>2. Room(table', 12)
      BY <2>2, <3>1, RoomLater
    <3> QED
      BY <2>1, <2>3, <3>2
  <2>4. CASE OutputNull("core") \/ OutputFile("core") \/ OutputFilter("core")
    BY <2>1, <2>2, <2>4, <1>3, <1>n
  <2> QED
    BY <2>1, <2>3, <2>4
<1> QED
  BY <1>1, <1>2, <1>4, <1>5 DEF MainOpens

(* Those steps keep the shape.                                                *)
LEMMA MainOpensStep ==
  ASSUME Types, Shape, MainOpens, unwind' = unwind, corepath' = corepath
  PROVE  Shape' /\ table' \in Tables /\ num' \in [Holders -> {Unset} \union 0..MaxFd]
<1>0. OrderInv /\ NumberInv /\ LiveInv
  BY DEF Shape
<1>w. mpc \in {"pipe", "proc", "info", "core_out"} /\ dpc \in {"none", "wait"}
  <2>1. mpc \in {"pipe", "proc", "info", "core_out"}
    BY DEF MainOpens, CreatePipe, OpenProc, OpenInfo, OpenCore
  <2> QED
    BY <2>1, <1>0 DEF OrderInv, Opening
<1>k. table \in [0..MaxFd -> Kinds] /\ num \in [Holders -> {Unset} \union 0..MaxFd] /\ table \in Tables
  BY DEF Types, Tables
<1>m. MaxFd \in Nat /\ MaxFd >= 12 /\ Free \notin Holders /\ "input" \notin Holders /\ "input" # Free
      /\ "item" # Free /\ Unset \notin 0..MaxFd /\ 0 \in 0..MaxFd
  BY DescriptorsAssumption DEF DescriptorsAssumption, Holders, Free, Unset
<1>i. \A n \in 0..MaxFd : table[n] # "item"
  BY <1>0, <1>w DEF OrderInv
<1>b. \A h \in Holders : num[h] # Unset => table[num[h]] = h
  BY <1>0, <1>w DEF NumberInv
<1>r. \A k \in {5, 6, 9, 12} : Room(table', k) => \A n \in 12..MaxFd : table'[n] \in {Free, "item"}
  BY <1>m DEF Room
<1>l. \A k \in {6, 9, 12} : Room(table, k) => \A n \in 12..MaxFd : table[n] \in {Free, "item"}
  BY <1>m DEF Room
<1>1. ASSUME NEW H \in SUBSET Holders, Opens(H), stale' = stale, "item" \notin H,
             mpc = "pipe" => H = {"pipe_r", "pipe_w"}, mpc = "info" => "info" \in H,
             mpc = "core_out" => "core" \in H,
             \/ mpc = "pipe" /\ mpc' = "proc" /\ dpc' = "wait" /\ Room(table', 5)
             \/ mpc = "proc" /\ mpc' = "info" /\ dpc' = dpc /\ Room(table', 6)
             \/ mpc = "info" /\ mpc' = "fdopen" /\ dpc' = dpc /\ Room(table', 9)
             \/ mpc = "core_out" /\ mpc' = "unlock" /\ dpc' = dpc /\ Room(table', 12)
      PROVE  Shape' /\ table' \in Tables /\ num' \in [Holders -> {Unset} \union 0..MaxFd]
  <2>1. table' \in Tables /\ num' \in [Holders -> {Unset} \union 0..MaxFd]
        /\ \A n \in 0..MaxFd : table'[n] = table[n] \/ (table[n] = Free /\ table'[n] \in H)
    BY <1>1 DEF Opens
  <2>2. \A g \in Holders : At(g) = g => At(g)' = g
    BY <1>1, OpensKeeps
  <2>3. \A h \in H : At(h)' = h
    BY <1>1, OpensKeeps
  <2>4. \A g \in Holders : num'[g] # Unset => table'[num'[g]] = g
    BY <1>1, <1>b, OpensKeeps
  <2>5. OrderInv'
    <3>1. \A n \in 0..MaxFd : table'[n] # "item"
      BY <2>1, <1>i, <1>1
    <3>2. \A n \in 12..MaxFd : table'[n] \in {Free, "item"}
      BY <1>1, <1>r
    <3> QED
      BY <1>1, <1>w, <3>1, <3>2 DEF OrderInv, Opening
  <2>6. NumberInv'
    <3>1. corepath' = "stdin" => table'[0] = "input"
      BY <1>0, <2>1, <1>m DEF NumberInv
    <3> QED
      BY <2>4, <3>1 DEF NumberInv
  <2>7. LiveInv'
    <3> SUFFICES ASSUME unwind', ~stale' PROVE LiveInv'
      BY DEF LiveInv
    <3>1. num'["pipe_w"] # Unset => At("pipe_w")' = "pipe_w"
      BY <2>4 DEF At, Holders
    <3>2. mpc' = "unlock" => At("core")' = "core" /\ At("info")' = "info"
      <4>1. mpc' = "unlock" => mpc = "core_out"
        BY <1>1
      <4>2. mpc = "core_out" => At("info") = "info"
        BY <1>0, <1>1 DEF LiveInv
      <4> QED
        BY <4>1, <4>2, <1>1, <2>2, <2>3 DEF Holders
    <3>3. mpc' = "fdopen" => At("info")' = "info"
      BY <1>1, <2>3
    <3>4. dpc' = "wait" => At("pipe_r")' = "pipe_r"
      <4>1. CASE mpc = "pipe"
        BY <4>1, <1>1, <2>3
      <4>2. CASE mpc # "pipe"
        BY <4>2, <1>1, <1>0, <2>2 DEF LiveInv, Holders
      <4> QED
        BY <4>1, <4>2
    <3> QED
      BY <1>1, <1>w, <3>1, <3>2, <3>3, <3>4 DEF LiveInv, Copying
  <2> QED
    BY <2>1, <2>5, <2>6, <2>7 DEF Shape
<1>2. ASSUME mpc = "proc", mpc' = "info", dpc' = dpc, Room(table', 6), UNCHANGED <<table, num, stale>>
      PROVE  Shape' /\ table' \in Tables /\ num' \in [Holders -> {Unset} \union 0..MaxFd]
  <2>1. OrderInv'
    BY <1>2, <1>0, <1>w, <1>i, <1>l DEF OrderInv, Opening
  <2>2. NumberInv'
    BY <1>2, <1>0, <1>b DEF NumberInv
  <2>3. LiveInv'
    BY <1>2, <1>0, <1>w DEF LiveInv, Copying, At
  <2> QED
    BY <1>2, <1>k, <2>1, <2>2, <2>3 DEF Shape
<1>3. ASSUME NEW h \in {"info", "core"}, OutputStale(h), dpc' = dpc,
             h = "info" => mpc = "info" /\ mpc' = "fdopen" /\ Room(table', 9),
             h = "core" => mpc = "core_out" /\ mpc' = "unlock" /\ Room(table', 12)
      PROVE  Shape' /\ table' \in Tables /\ num' \in [Holders -> {Unset} \union 0..MaxFd]
  <2>1. table' = table /\ num' = [num EXCEPT ![h] = Lowest(table)] /\ stale'
    BY <1>3 DEF OutputStale
  <2>2. Lowest(table) \in 0..MaxFd /\ table[Lowest(table)] = Free
    <3>1. \E k \in {9, 12} : k \in 0..MaxFd /\ Room(table, k)
      BY <1>3, <2>1, <1>m
    <3> QED
      BY <3>1, <1>k, LowestIsFree
  <2>3. num' \in [Holders -> {Unset} \union 0..MaxFd] /\ num'[h] = Lowest(table)
        /\ \A g \in Holders \ {h} : num'[g] = num[g]
    BY <2>1, <2>2, <1>k, <1>3 DEF Holders
  <2>4. OrderInv'
    <3>1. \A n \in 12..MaxFd : table'[n] \in {Free, "item"}
      BY <1>3, <1>r
    <3> QED
      BY <1>3, <2>1, <1>w, <1>i, <3>1 DEF OrderInv, Opening
  <2>5. NumberInv'
    <3>1. \A g \in Holders : num'[g] # Unset => table'[num'[g]] \in {g, Free, "item"}
      BY <1>b, <2>1, <2>2, <2>3
    <3>2. \A g \in Holders \ {h} : num'[g] # Unset => table'[num'[g]] = g
      BY <1>b, <2>1, <2>3
    <3> QED
      BY <1>0, <1>3, <2>1, <3>1, <3>2 DEF NumberInv
  <2>6. LiveInv'
    BY <2>1 DEF LiveInv
  <2> QED
    BY <2>1, <2>3, <2>4, <2>5, <2>6, <1>k DEF Shape
<1> QED
  BY <1>1, <1>2, <1>3, WhatMainOpens

(* The thread opens a proc file.                                              *)
LEMMA OpenItemStep ==
  ASSUME Types, Shape, OpenItem, unwind' = unwind, corepath' = corepath
  PROVE  Shape' /\ table' \in Tables /\ num' \in [Holders -> {Unset} \union 0..MaxFd]
<1>0. OrderInv /\ NumberInv /\ LiveInv
  BY DEF Shape
<1>m. MaxFd \in Nat /\ MaxFd >= 12 /\ Free \notin Holders /\ "item" \in Holders /\ 12 \in 0..MaxFd
      /\ "item" # Free /\ "input" # Free /\ Unset \notin 0..MaxFd /\ 0 \in 0..MaxFd
  BY DescriptorsAssumption DEF DescriptorsAssumption, Holders, Free, Unset
<1>1. dpc = "dump" /\ dpc' = "item" /\ mpc' = mpc /\ stale' = stale
      /\ table' = Open(table, "item") /\ num' = [num EXCEPT !["item"] = Lowest(table)]
  BY DEF OpenItem
<1>p. mpc \notin Opening /\ mpc \notin {"close_core", "close_info"}
  BY <1>0, <1>1 DEF OrderInv
<1>k. table \in [0..MaxFd -> Kinds] /\ num \in [Holders -> {Unset} \union 0..MaxFd]
  BY DEF Types, Tables
<1>r. Room(table, 12)
  <2>1. \A n \in 12..MaxFd : n \in 0..MaxFd /\ table[n] \in {Free, "item"}
    BY <1>0, <1>m DEF OrderInv
  <2> QED
    BY <2>1, <1>0, <1>1 DEF OrderInv, Room
<1> DEFINE a == Lowest(table)
<1>2. a \in 0..MaxFd /\ table[a] = Free
  BY <1>k, <1>m, <1>r, LowestIsFree
<1>3. table' = [table EXCEPT ![a] = "item"] /\ num' = [num EXCEPT !["item"] = a]
  BY <1>1 DEF Open
<1> HIDE DEF a
<1>4. Opens({"item"})
  BY <1>2, <1>3, <1>k, <1>m DEF Opens, Tables, Kinds
<1>5. /\ \A g \in Holders : At(g) = g => At(g)' = g
      /\ At("item")' = "item"
  BY <1>4, <1>m, OpensKeeps
<1>6. OrderInv'
  <2>1. \A n \in 0..MaxFd : table[n] # "item"
    BY <1>0, <1>1 DEF OrderInv
  <2>2. \A n \in 0..MaxFd : table'[n] = "item" => n = num'["item"]
    BY <1>2, <1>3, <1>k, <1>m, <2>1
  <2>3. \A n \in 12..MaxFd : table'[n] \in {Free, "item"}
    BY <1>0, <1>3, <1>k, <1>m DEF OrderInv
  <2> QED
    BY <1>p, <1>1, <2>2, <2>3 DEF OrderInv, Opening
<1>7. NumberInv'
  <2>1. \A h \in Holders : num'[h] # Unset => table'[num'[h]] \in {h, Free, "item"}
    BY <1>0, <1>2, <1>3, <1>k, <1>m DEF NumberInv
  <2>2. corepath' = "stdin" => table'[0] = "input"
    BY <1>0, <1>2, <1>3, <1>k, <1>m DEF NumberInv
  <2> QED
    BY <1>p, <1>1, <2>1, <2>2 DEF NumberInv, Opening
<1>8. LiveInv'
  <2>1. num'["pipe_w"] = num["pipe_w"] /\ {"pipe_w", "core", "info", "pipe_r"} \subseteq Holders
    BY <1>3, <1>k DEF Holders
  <2> QED
    BY <1>0, <1>1, <1>5, <2>1 DEF LiveInv
<1> QED
  BY <1>4, <1>6, <1>7, <1>8 DEF Shape, Opens

(* The steps that close something, and what that is.                          *)
Shuts == FirstClose \/ LastClose \/ CloseCore \/ CloseInfo \/ CloseItem \/ CloseInput

(* What a step of main that closes something does to the rest.                *)
LEMMA WhatIsShut ==
  ASSUME Types, Shape, Shuts
  PROVE  \E h \in Holders :
           /\ Closes(h) /\ stale' = stale
           /\ \/ h = "pipe_w" /\ mpc = "first_close" /\ mpc' = "loop" /\ dpc' = dpc
              \/ h = "pipe_w" /\ mpc = "loop" /\ mpc' = "join" /\ dpc' = dpc
              \/ h = "core" /\ mpc = "close_core" /\ mpc' = "close_info" /\ dpc' = dpc
              \/ h = "info" /\ mpc \in {"close_info", "err1"} /\ mpc' = "end" /\ dpc' = dpc
              \/ h = "item" /\ mpc' = mpc /\ dpc = "read" /\ dpc' = "dump"
              \/ h = "pipe_r" /\ mpc' = mpc /\ dpc = "dump" /\ dpc' = "done"
<1>1. {"pipe_w", "core", "info", "item", "pipe_r"} \subseteq Holders
  BY DEF Holders
<1>2. CASE FirstClose \/ LastClose
  BY <1>1, <1>2 DEF FirstClose, LastClose, Closes, Closed, Goto
<1>3. CASE CloseCore \/ CloseInfo
  BY <1>1, <1>3 DEF CloseCore, CloseInfo, CloseOutput, Closes, Goto
<1>4. CASE CloseItem \/ CloseInput
  BY <1>1, <1>4 DEF CloseItem, CloseInput, Closes
<1> QED
  BY <1>2, <1>3, <1>4 DEF Shuts

(* Those steps keep the shape.                                                *)
LEMMA ShutsStep ==
  ASSUME Types, Shape, Shuts, unwind' = unwind, corepath' = corepath
  PROVE  Shape' /\ table' \in Tables /\ num' \in [Holders -> {Unset} \union 0..MaxFd]
<1>0. OrderInv /\ NumberInv /\ LiveInv
  BY DEF Shape
<1>1. PICK h \in Holders :
           /\ Closes(h) /\ stale' = stale
           /\ \/ h = "pipe_w" /\ mpc = "first_close" /\ mpc' = "loop" /\ dpc' = dpc
              \/ h = "pipe_w" /\ mpc = "loop" /\ mpc' = "join" /\ dpc' = dpc
              \/ h = "core" /\ mpc = "close_core" /\ mpc' = "close_info" /\ dpc' = dpc
              \/ h = "info" /\ mpc \in {"close_info", "err1"} /\ mpc' = "end" /\ dpc' = dpc
              \/ h = "item" /\ mpc' = mpc /\ dpc = "read" /\ dpc' = "dump"
              \/ h = "pipe_r" /\ mpc' = mpc /\ dpc = "dump" /\ dpc' = "done"
  BY WhatIsShut, Zenon
<1>m. MaxFd \in Nat /\ MaxFd >= 12 /\ Unset \notin 0..MaxFd /\ 0 \in 0..MaxFd /\ "item" # Free /\ "input" # Free
      /\ "input" \notin Holders /\ "item" \in Holders
  BY DescriptorsAssumption DEF DescriptorsAssumption, Holders, Free, Unset
<1>n. \A g \in Holders : num[g] # Unset => num[g] \in 0..MaxFd
  BY DEF Types
<1>2. /\ table' \in Tables /\ num' \in [Holders -> {Unset} \union 0..MaxFd]
      /\ \A n \in 0..MaxFd : /\ table'[n] \in {table[n], Free}
                             /\ num[h] = Unset \/ n # num[h] => table'[n] = table[n]
                             /\ n = num[h] => table'[n] = Free
      /\ \A g \in Holders : num'[g] # Unset => num'[g] = num[g]
      /\ \A g \in Holders \ {h} : num'[g] = num[g]
  BY <1>1, ClosesKeeps
<1>3. \A g \in Holders \ {h} : At(g) = g /\ At(h) \in {h, Free} => At(g)' = g
  BY <1>1, ClosesKeeps
<1>p. mpc' \notin Opening /\ mpc' \notin {"core", "pipe", "proc", "info", "fdopen", "core_out", "err1"}
  BY <1>0, <1>1 DEF OrderInv, Opening
<1>4. OrderInv'
  <2>1. \A n \in 12..MaxFd : table'[n] \in {Free, "item"}
    <3>1. ASSUME NEW n \in 12..MaxFd PROVE table'[n] \in {Free, "item"}
      <4>1. n \in 0..MaxFd /\ table[n] \in {Free, "item"}
        BY <1>m, <1>0 DEF OrderInv
      <4> QED
        BY <4>1, <1>2
    <3> QED
      BY <3>1
  <2>2. ASSUME NEW n \in 0..MaxFd, table'[n] = "item" PROVE n = num'["item"] /\ dpc' \in {"item", "read"}
    <3>1. table[n] = "item"
      BY <2>2, <1>2, <1>m
    <3>2. n = num["item"] /\ dpc \in {"item", "read"}
      BY <3>1, <1>0 DEF OrderInv
    <3>3. h # "item"
      BY <2>2, <3>2, <1>2, <1>m
    <3> QED
      BY <1>1, <1>2, <1>m, <3>2, <3>3
  <2>3. mpc' \in {"close_core", "close_info"} => dpc' \in {"none", "done"}
    BY <1>0, <1>1 DEF OrderInv
  <2> QED
    BY <1>p, <2>1, <2>2, <2>3 DEF OrderInv
<1>5. NumberInv'
  <2>1. \A g \in Holders : num'[g] # Unset => table'[num'[g]] \in {g, Free, "item"}
    <3>1. ASSUME NEW g \in Holders, num'[g] # Unset PROVE table'[num'[g]] \in {g, Free, "item"}
      <4>1. num'[g] = num[g] /\ num[g] \in 0..MaxFd /\ table[num[g]] \in {g, Free, "item"}
        BY <3>1, <1>2, <1>n, <1>0 DEF NumberInv
      <4> QED
        BY <4>1, <1>2
    <3> QED
      BY <3>1
  <2>2. corepath' = "stdin" => table'[0] = "input"
    <3>1. corepath = "stdin" => table[0] = "input"
      BY <1>0 DEF NumberInv
    <3>2. corepath = "stdin" => num[h] # 0
      BY <3>1, <1>0, <1>m DEF NumberInv, Unset
    <3> QED
      BY <3>1, <3>2, <1>2, <1>m
  <2> QED
    BY <1>p, <2>1, <2>2 DEF NumberInv
<1>6. LiveInv'
  <2> SUFFICES ASSUME unwind', ~stale' PROVE LiveInv'
    BY DEF LiveInv
  <2>0. unwind /\ ~stale /\ {"pipe_w", "core", "info", "pipe_r", "item"} \subseteq Holders
    BY <1>1 DEF Holders
  <2>1. mpc # "first_close"
    BY <1>0, <2>0 DEF LiveInv
  <2>2. At(h) \in {h, Free}
    <3>1. h = "pipe_w" => num["pipe_w"] = Unset \/ At("pipe_w") = "pipe_w"
      BY <1>0, <1>1, <2>0, <2>1 DEF LiveInv
    <3>2. h = "core" => At("core") = "core"
      BY <1>0, <1>1, <2>0 DEF LiveInv, Copying
    <3>3. h \in {"info", "item", "pipe_r"} => At(h) = h
      BY <1>0, <1>1, <2>0 DEF LiveInv
    <3> QED
      BY <1>1, <3>1, <3>2, <3>3 DEF At
  <2>3. \A g \in Holders \ {h} : At(g) = g => At(g)' = g
    BY <1>3, <2>2
  <2>4. h # "pipe_w" => num'["pipe_w"] = num["pipe_w"]
    BY <1>2, <2>0
  <2>5. num'["pipe_w"] # Unset /\ mpc' \notin {"join", "close_core", "close_info", "err1", "end"} =>
          At("pipe_w")' = "pipe_w"
    BY <1>0, <1>1, <2>0, <2>1, <2>3, <2>4 DEF LiveInv
  <2>6. mpc' \in Copying => At("core")' = "core"
    BY <1>0, <1>1, <2>0, <2>1, <2>3 DEF LiveInv, Copying
  <2>7. mpc' \in {"fdopen", "core_out", "close_info", "err1"} \union Copying => At("info")' = "info"
    BY <1>0, <1>1, <2>0, <2>1, <2>3 DEF LiveInv, Copying
  <2>8. dpc' \in {"wait", "dump", "item", "read"} => At("pipe_r")' = "pipe_r"
    BY <1>0, <1>1, <2>0, <2>3 DEF LiveInv
  <2>9. dpc' \in {"item", "read"} => At("item")' = "item"
    BY <1>0, <1>1, <2>0, <2>3 DEF LiveInv
  <2> QED
    BY <1>0, <2>0, <2>1, <1>1, <2>4, <2>5, <2>6, <2>7, <2>8, <2>9 DEF LiveInv
<1> QED
  BY <1>2, <1>4, <1>5, <1>6 DEF Shape

-----------------------------------------------------------------------------
(* The uses.                                                                  *)

(* A number 0 that is the input was it before.                                *)
LEMMA InputKept ==
  ASSUME Types, Shape, [Next]_vars, table'[0] = "input" PROVE table[0] = "input"
<1>m. 0 \in 0..MaxFd /\ "input" # Free /\ "input" \notin Holders /\ "item" \in Holders /\ MaxFd >= 12
  BY DescriptorsAssumption DEF DescriptorsAssumption, Free, Holders
<1>k. table \in [0..MaxFd -> Kinds]
  BY DEF Types, Tables
<1>1. CASE Looks \/ UNCHANGED vars
  <2>1. table' = table
    BY <1>1 DEF Looks, KeepStdin, CreatePipeFails, Fdopen, Unlock, ReadCore, WriteCore, Feed,
         Join, ReadItem, vars
  <2> QED
    BY <2>1
<1>2. CASE OpenCorePath
  BY <1>2, <1>k, <1>m DEF OpenCorePath
<1>3. CASE MainOpens
  <2>1. (\E H \in SUBSET Holders : Opens(H)) \/ table' = table
    BY <1>3, WhatMainOpens DEF OutputStale
  <2> QED
    BY <2>1, <1>m DEF Opens
<1>4. CASE OpenItem
  BY <1>4, <1>k, <1>m DEF OpenItem, Open
<1>5. CASE Shuts
  <2>1. PICK h \in Holders : Closes(h)
    BY <1>5, WhatIsShut
  <2>2. table'[0] \in {table[0], Free}
    BY <2>1, <1>m, ClosesKeeps
  <2> QED
    BY <2>2, <1>m
<1> QED
  BY <1>1, <1>2, <1>3, <1>4, <1>5 DEF Next, Main, Dumper, Looks, MainOpens, Shuts

(* What a step adds to wrong: the use of a variable whose number is stale, or *)
(* a block read from something else than the core.                            *)
Used(op, h) == wrong' = wrong \/ (At(h) # h /\ wrong' = wrong \union {<<op, h, At(h)>>})

(* What a step that uses a descriptor does to the rest.                       *)
LEMMA WhatIsUsed ==
  ASSUME Types, Shape, [Next]_vars
  PROVE  \/ wrong' = wrong
         \/ mpc = "loop" /\ table[0] # "input" /\ wrong' = wrong \union {<<"read", "input", table[0]>>}
         \/ mpc = "write" /\ Used("write", "core")
         \/ mpc = "feed" /\ Used("write", "pipe_w")
         \/ mpc \in {"first_close", "loop"} /\ num["pipe_w"] # Unset /\ Used("close", "pipe_w")
         \/ mpc = "close_core" /\ Used("close", "core")
         \/ mpc \in {"close_info", "err1"} /\ Used("close", "info")
         \/ dpc = "item" /\ Used("read", "item")
         \/ dpc = "read" /\ Used("close", "item")
         \/ dpc = "dump" /\ Used("close", "pipe_r")
<1>1. \A op, h : Use(op, h) => Used(op, h)
  BY DEF Use, Used
<1>2. CASE KeepStdin \/ OpenCorePath \/ CreatePipe \/ CreatePipeFails \/ OpenProc \/ OpenInfo \/ Fdopen
           \/ OpenCore \/ Unlock \/ Join \/ OpenItem \/ UNCHANGED vars
  BY <1>2 DEF vars, KeepStdin, OpenCorePath, CreatePipe, CreatePipeFails, OpenProc, OpenInfo, Fdopen, OpenCore,
              Unlock, Join, OpenItem, OpenOutput
<1>3. CASE FirstClose \/ LastClose
  BY <1>1, <1>3 DEF FirstClose, LastClose
<1>4. CASE ReadCore
  BY <1>4 DEF ReadCore
<1>5. CASE WriteCore \/ Feed
  BY <1>1, <1>5 DEF WriteCore, Feed
<1>6. CASE CloseCore \/ CloseInfo
  BY <1>1, <1>6 DEF CloseCore, CloseInfo, CloseOutput
<1>7. CASE ReadItem \/ CloseItem \/ CloseInput
  BY <1>1, <1>7 DEF ReadItem, CloseItem, CloseInput
<1> QED
  BY <1>2, <1>3, <1>4, <1>5, <1>6, <1>7 DEF Next, Main, Dumper

(* Those steps keep the shape.                                                *)
LEMMA UsesStep ==
  ASSUME Types, Shape, OwnDescriptors, StraysHarmless, [Next]_vars PROVE OwnDescriptors' /\ StraysHarmless'
<1>0. OrderInv /\ NumberInv /\ LiveInv
  BY DEF Shape
<1>f. unwind' = unwind /\ corepath' = corepath /\ (stale => stale') /\ corepath \in {"stdin", "path"}
      /\ unwind \in BOOLEAN
  BY PlacesStep DEF Types
<1>h. {"core", "pipe_w", "info", "item", "pipe_r"} \subseteq Holders /\ Unset \notin 0..MaxFd
  BY DEF Holders, Unset
<1>a. \A h \in Holders : At(h) \in {h, Free, "item"}
  BY <1>0 DEF At, NumberInv
<1>1. OwnDescriptors'
  <2> SUFFICES ASSUME unwind', ~stale', corepath' = "path" => table'[0] = "input" PROVE wrong' = {}
    BY DEF OwnDescriptors
  <2>1. unwind /\ ~stale
    BY <1>f
  <2>2. table[0] = "input"
    BY <1>0, <1>f, InputKept DEF NumberInv
  <2>3. wrong = {}
    BY <2>1, <2>2 DEF OwnDescriptors
  <2>4. /\ mpc \in {"write", "close_core"} => At("core") = "core"
        /\ num["pipe_w"] # Unset /\ mpc \in {"feed", "loop"} => At("pipe_w") = "pipe_w"
        /\ mpc = "feed" => num["pipe_w"] # Unset
        /\ mpc # "first_close"
        /\ mpc \in {"close_info", "err1"} => At("info") = "info"
        /\ dpc \in {"item", "read"} => At("item") = "item"
        /\ dpc = "dump" => At("pipe_r") = "pipe_r"
    BY <1>0, <2>1 DEF LiveInv, Copying
  <2> QED
    BY <2>2, <2>3, <2>4, WhatIsUsed DEF Used
<1>2. StraysHarmless'
  <2> DEFINE Fine(w) == /\ w[1] = "write" => w[3] \in {Free, "item"}
                        /\ w[1] = "close" => w[3] \notin {"info", "core"}
  <2>1. ASSUME NEW op, NEW h \in {"core", "pipe_w", "info", "item", "pipe_r"}, At(h) # h
        PROVE  Fine(<<op, h, At(h)>>)
    <3>1. At(h) \in {Free, "item"}
      BY <1>a, <1>h, <2>1
    <3>2. Free \notin {"info", "core"} /\ "item" \notin {"info", "core"}
      BY DEF Free
    <3> QED
      BY <3>1, <3>2
  <2>2. \A x : Fine(<<"read", "input", x>>)
    OBVIOUS
  <2>3. \A w \in wrong : Fine(w)
    BY DEF StraysHarmless
  <2> HIDE DEF Fine
  <2>4. ASSUME NEW w \in wrong' PROVE Fine(w)
    <3>u. \A op, h : Used(op, h) => w \in wrong \/ (At(h) # h /\ w = <<op, h, At(h)>>)
      BY DEF Used
    <3>1. CASE w \in wrong
      BY <2>3, <3>1
    <3>2. CASE w = <<"read", "input", table[0]>>
      BY <2>2, <3>2
    <3>3. ASSUME NEW op, NEW h \in {"core", "pipe_w", "info", "item", "pipe_r"}, Used(op, h) PROVE Fine(w)
      BY <2>1, <3>1, <3>3, <3>u
    <3>4. \/ wrong' = wrong \/ wrong' = wrong \union {<<"read", "input", table[0]>>}
          \/ \E op : \E h \in {"core", "pipe_w", "info", "item", "pipe_r"} : Used(op, h)
      <4>1. \A op : \A h \in {"core", "pipe_w", "info", "item", "pipe_r"} :
              Used(op, h) => \E o : \E g \in {"core", "pipe_w", "info", "item", "pipe_r"} : Used(o, g)
        OBVIOUS
      <4> QED
        BY <4>1, WhatIsUsed
    <3> QED
      BY <3>1, <3>2, <3>3, <3>4
  <2> QED
    BY <2>4 DEF StraysHarmless, Fine
<1> QED
  BY <1>1, <1>2

(* Every step keeps the shape.                                                *)
LEMMA ShapeStep ==
  ASSUME Types, Shape, [Next]_vars PROVE Types' /\ Shape'
<1>f. unwind' = unwind /\ corepath' = corepath /\ stale' \in BOOLEAN
      /\ mpc' \in Places /\ dpc' \in {"none", "wait", "dump", "item", "read", "done"}
  BY PlacesStep
<1>k. table \in Tables /\ num \in [Holders -> {Unset} \union 0..MaxFd]
      /\ unwind \in BOOLEAN /\ corepath \in {"stdin", "path"}
  BY DEF Types
<1>1. table' \in Tables /\ num' \in [Holders -> {Unset} \union 0..MaxFd] /\ Shape'
  <2>1. CASE Looks \/ UNCHANGED vars
    <3>1. UNCHANGED <<table, num>>
      BY <2>1 DEF Looks, KeepStdin, CreatePipeFails, Fdopen, Unlock, ReadCore, WriteCore, Feed,
         Join, ReadItem, vars
    <3> QED
      BY <2>1, <3>1, <1>k, LooksStep
  <2>2. CASE OpenCorePath
    BY <2>2, <1>k, CorePathStep
  <2>3. CASE MainOpens
    BY <2>3, <1>f, MainOpensStep
  <2>4. CASE OpenItem
    BY <2>4, <1>f, OpenItemStep
  <2>5. CASE Shuts
    BY <2>5, <1>f, ShutsStep
  <2> QED
    BY <2>1, <2>2, <2>3, <2>4, <2>5 DEF Next, Main, Dumper, Looks, MainOpens, Shuts
<1> QED
  BY <1>f, <1>k, <1>1 DEF Types

(* At the start main has no descriptor of its own.                            *)
LEMMA Begins == Init => IndInv
<1> SUFFICES ASSUME Init PROVE IndInv
  OBVIOUS
<1>m. MaxFd \in Nat /\ MaxFd >= 12 /\ Unwinds \subseteq BOOLEAN /\ CorePaths \subseteq {"stdin", "path"}
  BY DescriptorsAssumption DEF DescriptorsAssumption
<1>1. /\ unwind \in Unwinds /\ corepath \in CorePaths /\ mpc = "core" /\ dpc = "none"
      /\ stale = FALSE /\ wrong = {}
      /\ num = [h \in Holders |-> Unset]
      /\ table = [n \in 0..MaxFd |-> CASE n = 0 -> "input" [] n = 1 -> "stdout" [] n = 2 -> "stderr"
                                         [] OTHER -> Free]
  BY DEF Init
<1>2. table \in Tables /\ table[0] = "input" /\ (\A n \in 3..MaxFd : table[n] = Free)
      /\ \A n \in 0..MaxFd : table[n] # "item"
  BY <1>1, <1>m DEF Tables, Kinds, Free
<1>3. \A h \in Holders : num[h] = Unset
  BY <1>1
<1>4. Types
  BY <1>1, <1>2, <1>m DEF Types, Places
<1>5. OrderInv
  <2>1. \A n \in 12..MaxFd : n \in 3..MaxFd
    OBVIOUS
  <2> QED
    BY <1>1, <1>2, <1>3, <2>1 DEF OrderInv, Room
<1>6. NumberInv
  BY <1>2, <1>3 DEF NumberInv
<1>7. LiveInv
  BY <1>1, <1>3 DEF LiveInv, Copying, Holders
<1>8. OwnDescriptors /\ StraysHarmless
  BY <1>1 DEF OwnDescriptors, StraysHarmless
<1> QED
  BY <1>4, <1>5, <1>6, <1>7, <1>8 DEF IndInv, Shape

(* The invariant holds, for any number of proc files and blocks.              *)
THEOREM Invariance == Spec => []IndInv
<1>1. IndInv /\ [Next]_vars => IndInv'
  BY ShapeStep, UsesStep DEF IndInv
<1> QED
  BY Begins, <1>1, PTL DEF Spec

(* With libunwind, the core and the filter pipes opened, every use reaches    *)
(* the descriptor it is meant for.                                            *)
THEOREM AllOwn == Spec => []OwnDescriptors
<1>1. IndInv => OwnDescriptors
  BY DEF IndInv
<1> QED
  BY Invariance, <1>1, PTL

(* In every other case too no block is written to something else, and no      *)
(* output is closed by mistake.                                               *)
THEOREM NoHarm == Spec => []StraysHarmless
<1>1. IndInv => StraysHarmless
  BY DEF IndInv
<1> QED
  BY Invariance, <1>1, PTL
=============================================================================
