------------------------- MODULE FilterChainProofs -------------------------
(* Proofs about FilterChain: for any number of filters of any kind, pipes of  *)
(* any capacity, and pipe2(), fork() or a write to the file failing at any    *)
(* turn, the file is a beginning of what a shell pipe would leave less the    *)
(* blocks it refused, any other loss is reported, and every child is reaped   *)
(* before the notify commands are started.                                    *)
EXTENDS FilterChain, TLAPS, SequenceTheorems

(* What the variables range over.                                             *)
States   == {"none", "forked", "running", "exited", "reaped"}
Statuses == {"none", "ok", "err", "sigpipe", "killed"}
Severe   == logged \intersect {"crit", "err"} # {}
Gone(f)  == child[f] \in {"exited", "reaped"}
Live(f)  == child[f] \in {"forked", "running"}
In(f)    == IF f = 1 THEN sent ELSE passed[f - 1]     \* blocks that went into pipe f
Blocks == Seq(1..len)
Lists  == Seq(Filters)
PipeEnds == {R(i) : i \in Filters} \union {W(i) : i \in 1..(N + 1)}

(* The kinds of the variables.                                                *)
Types ==
  /\ N \in Nat /\ chain \in [1..N -> Kinds] /\ len \in Nat /\ named \in BOOLEAN
  /\ mpc \in {"setup", "spawn", "forked", "kill", "write", "wait", "end"}
  /\ cur \in 1..(N + 1) /\ dest \in {"file", "pipe", "null", "closed"}
  /\ parent \subseteq PipeEnds /\ list \in Lists /\ sent \in 0..len
  /\ opened \in BOOLEAN /\ notified \in BOOLEAN /\ logged \subseteq {"crit", "err", "warn"}
  /\ data \in [1..(N + 1) -> Blocks] /\ \A i \in 1..N : Len(data[i]) <= PipeCap
  /\ child \in [Filters -> States] /\ status \in [Filters -> Statuses]
  /\ ends \in [Filters -> SUBSET PipeEnds]
  /\ hold \in [Filters -> Blocks] /\ passed \in [Filters -> Nat]
  /\ \A f \in Filters : Len(hold[f]) <= 1

(* Where main is in setting up the filters, which of them there are, and the  *)
(* ends it holds then.                                                        *)
SetupInv ==
  /\ mpc = "setup" => /\ cur = 1 /\ dest = "file" /\ ~opened /\ sent = 0 /\ list = <<>>
                      /\ \A f \in Filters : child[f] = "none"
  /\ mpc \in {"spawn", "forked", "kill"} =>
       /\ cur \in 1..N /\ dest = "pipe" /\ ~opened /\ sent = 0
       /\ W(1) \in parent /\ R(cur) \in parent
       /\ \A f \in Filters : child[f] # "none" <=> f < cur \/ (f = cur /\ mpc = "forked")
  /\ mpc \in {"setup", "spawn"} => W(N + 1) \in parent
  /\ mpc = "forked" /\ cur < N => R(cur + 1) \in parent /\ W(N + 1) \in parent
  /\ mpc = "kill" => Severe
  /\ mpc \in {"write", "wait", "end"} =>
       \/ opened /\ dest = (IF N = 0 THEN "file" ELSE "pipe") /\ \A f \in Filters : child[f] # "none"
       \/ /\ ~opened /\ N > 0 /\ dest \in {"null", "closed"} /\ list = <<>> /\ Severe
          /\ \A f \in Filters : child[f] \in {"none", "reaped"}
  /\ mpc = "write" /\ dest = "pipe" => W(1) \in parent
  /\ mpc \in {"wait", "end"} => sent = len
  /\ mpc = "end" => list = <<>>

(* The list has children that were started, and all those not yet waited for. *)
ListInv ==
  /\ \A j \in 1..Len(list) : list[j] \in Filters /\ child[list[j]] # "none"
  /\ \A f \in Filters : child[f] \notin {"none", "reaped"} => \E j \in 1..Len(list) : list[j] = f

(* A child holds the two ends of its own until it is gone, and dies of        *)
(* SIGPIPE only after the one it writes to.                                   *)
ChildInv ==
  \A f \in Filters :
    /\ child[f] = "forked" => R(f) \in ends[f] /\ W(f + 1) \in ends[f]
    /\ child[f] = "running" => ends[f] = {R(f), W(f + 1)}
    /\ status[f] = "none" <=> ~Gone(f)
    /\ f > 1 /\ child[f] # "none" => child[f - 1] # "none"
    /\ status[f] = "sigpipe" => f < N /\ Gone(f + 1)
    /\ status[f] = "killed" => ~opened /\ mpc \in {"kill", "write", "wait", "end"}
    /\ status[f] = "err" /\ child[f] = "reaped" => "err" \in logged

(* What is in a pipe continues what its reader has passed on and holds, up to *)
(* what its writer has written.                                               *)
FlowInv ==
  /\ \A f \in Filters :
       /\ ~Gone(f) /\ (f = 1 => dest \in {"file", "pipe"}) =>
            /\ hold[f] = <<>> \/ hold[f] = <<passed[f] + 1>>
            /\ passed[f] + Len(hold[f]) + Len(data[f]) = In(f)
            /\ \A j \in 1..Len(data[f]) : data[f][j] = passed[f] + Len(hold[f]) + j
       /\ chain[f] = "head" => passed[f] + Len(hold[f]) <= HeadLen
       /\ passed[f] <= sent /\ \A g \in 1..f : passed[f] <= passed[g]
  /\ N # 0 => /\ Len(data[N + 1]) = In(N + 1)
              /\ \A j \in 1..Len(data[N + 1]) : data[N + 1][j] = j

(* The file that main writes itself has what it did not refuse, in order.     *)
GapInv ==
  /\ refused \subseteq 1..sent /\ (refused # {} => N = 0)
  /\ N = 0 =>
       /\ \A i, j \in 1..Len(data[1]) : i < j => data[1][i] < data[1][j]
       /\ \A b : b \in (1..sent) \ refused <=> \E j \in 1..Len(data[1]) : data[1][j] = b
       /\ refused = {} => Len(data[1]) = sent /\ \A j \in 1..Len(data[1]) : data[1][j] = j

(* A filter that ended well has passed on all there was for it, unless one    *)
(* before it went wrong.                                                      *)
OkInv ==
  \A f \in Filters :
    status[f] = "ok" => passed[f] = Upto(f) \/ \E g \in 1..(f - 1) : status[g] \in {"err", "killed"}

(* All of it.                                                                 *)
IndInv == Types /\ SetupInv /\ ListInv /\ ChildInv /\ FlowInv /\ GapInv /\ OkInv

-----------------------------------------------------------------------------
(* The ends are told apart by their pipe and their side.                      *)
LEMMA EndsDiffer ==
  /\ \A i, j : (R(i) = R(j) <=> i = j) /\ (W(i) = W(j) <=> i = j) /\ R(i) # W(j)
BY DEF R, W

(* Nothing changes the settings.                                              *)
LEMMA Fixed ==
  ASSUME [Next]_vars PROVE chain' = chain /\ len' = len /\ named' = named /\ N' = N
<1>1. inputs' = inputs
  BY Zenon DEF Next, Main, Filter, Terminated, NoFilters, FirstPipe, FirstPipeFails, Spawn, CloseEnds,
         NextPipeFails, ForkFails, KillNext, AllKilled, WriteStream, WriteFails, CloseStream, WaitNext, Notify,
         Exec, ExecFails, Reads, Ends, Writes, Sigpipe, GoesBad, others, vars
<1> QED
  BY <1>1 DEF inputs, N

(* While a filter is there main writes to the first pipe.                     *)
LEMMA Waited ==
  ASSUME Types, SetupInv, NEW f \in Filters, Live(f) PROVE dest = "pipe" /\ N > 0 /\ mpc # "setup"
<1>1. child[f] # "none" /\ child[f] # "reaped"
  BY DEF Live
<1>2. N > 0 /\ mpc # "setup"
  BY <1>1 DEF Types, SetupInv, Filters
<1>3. CASE mpc \in {"spawn", "forked", "kill"}
  BY <1>2, <1>3 DEF SetupInv
<1>4. CASE mpc \in {"write", "wait", "end"}
  BY <1>1, <1>2, <1>4 DEF SetupInv
<1> QED
  BY <1>2, <1>3, <1>4 DEF Types

(* The types.                                                                 *)
LEMMA TypesStep ==
  ASSUME Types, SetupInv, FlowInv, [Next]_vars PROVE Types'
<1>0. /\ chain' = chain /\ len' = len /\ named' = named /\ N' = N /\ Filters' = Filters
      /\ PipeEnds' = PipeEnds
      /\ Blocks' = Blocks /\ Lists' = Lists
  BY Fixed DEF Filters, PipeEnds, R, W, Blocks, Lists
<1>1. /\ N \in Nat /\ Filters = 1..N /\ <<>> \in Blocks /\ N + 1 \in 1..(N + 1)
      /\ \A f \in Filters : f \in 1..(N + 1) /\ f + 1 \in 1..(N + 1) /\ R(f) \in PipeEnds
                            /\ W(f) \in PipeEnds /\ W(f + 1) \in PipeEnds
  BY DEF Types, Filters, Blocks, PipeEnds
<1>2. mpc = "spawn" => Piped \subseteq PipeEnds
  <2>1. parent \subseteq PipeEnds /\ (mpc = "spawn" => cur \in 1..N)
    BY DEF Types, SetupInv
  <2>2. mpc = "spawn" /\ cur < N => cur + 1 \in Filters
    BY <1>1, <2>1
  <2> QED
    BY <1>1, <2>1, <2>2 DEF Piped
<1>3. CASE NoFilters \/ CloseStream \/ Notify
  <2>1. /\ UNCHANGED <<cur, dest, list, sent, logged, data, filters>> /\ parent' \subseteq parent
        /\ opened' \in {opened, TRUE} /\ notified' \in {notified, named}
        /\ mpc' \in {"write", "wait", "end"}
    BY <1>3 DEF NoFilters, CloseStream, Notify, setup
  <2> QED
    BY <1>0, <2>1 DEF filters, Types
<1>4. CASE FirstPipe \/ FirstPipeFails
  <2>1. 1 \in Filters
    BY <1>1, <1>4 DEF FirstPipe, FirstPipeFails
  <2> QED
    BY <1>0, <1>1, <1>4, <2>1 DEF FirstPipe, FirstPipeFails, inputs, filters, Types
<1>5. CASE Spawn
  <2>1. cur \in Filters /\ Append(list, cur) \in Lists
    BY <1>1, <1>5 DEF Spawn, SetupInv, Types, Lists
  <2> QED
    BY <1>0, <1>2, <1>5, <2>1 DEF Spawn, inputs, setup, Types, States
<1>6. CASE CloseEnds
  BY <1>0, <1>1, <1>6 DEF CloseEnds, inputs, filters, Types, SetupInv
<1>7. CASE NextPipeFails \/ ForkFails
  BY <1>0, <1>2, <1>7 DEF NextPipeFails, ForkFails, inputs, setup, filters, Types
<1>8. ASSUME list # <<>> PROVE Head(list) \in Filters /\ Tail(list) \in Lists
  BY <1>8 DEF Types, Lists
<1>9. CASE KillNext
  <2>1. /\ UNCHANGED <<mpc, cur, dest, opened, parent, sent, notified, logged, data, passed, named>>
        /\ list # <<>> /\ list' = Tail(list)
        /\ child' = [child EXCEPT ![Head(list)] = "reaped"]
        /\ status' = [status EXCEPT ![Head(list)] = "killed"]
        /\ ends' = [ends EXCEPT ![Head(list)] = {}] /\ hold' = [hold EXCEPT ![Head(list)] = <<>>]
    BY <1>9 DEF KillNext, inputs, setup
  <2>2. Head(list) \in Filters /\ list' \in Lists
    BY <1>8, <2>1
  <2>3. hold' \in [Filters -> Blocks] /\ \A g \in Filters : Len(hold'[g]) <= 1
    <3>1. hold \in [Filters -> Blocks] /\ \A g \in Filters : Len(hold[g]) <= 1
      BY DEF Types
    <3>2. Len(<<>>) = 0
      OBVIOUS
    <3>3. hold' \in [Filters -> Blocks]
      BY <1>1, <2>1, <3>1, Zenon
    <3>4. ASSUME NEW g \in Filters PROVE Len(hold'[g]) <= 1
      BY <2>1, <3>1, <3>2
    <3> QED
      BY <3>3, <3>4
  <2>4. child' \in [Filters -> States] /\ status' \in [Filters -> Statuses]
        /\ ends' \in [Filters -> SUBSET PipeEnds]
    BY <2>1 DEF Types, States, Statuses
  <2> QED
    BY <1>0, <2>1, <2>2, <2>3, <2>4 DEF Types
<1>10. CASE AllKilled
  BY <1>0, <1>10 DEF AllKilled, inputs, filters, Types
<1>11. CASE WriteStream
  <2>1. sent + 1 \in 1..len /\ 1 \in 1..(N + 1) /\ data[1] \in Blocks
    BY <1>1, <1>11 DEF WriteStream, Types
  <2>2. Append(data[1], sent + 1) \in Blocks /\ Len(Append(data[1], sent + 1)) = Len(data[1]) + 1
        /\ Len(data[1]) \in Nat
    BY <2>1 DEF Blocks
  <2>3. data' \in [1..(N + 1) -> Blocks] /\ \A i \in 1..N : Len(data'[i]) <= PipeCap
    <3>1. CASE data' = data
      BY <3>1 DEF Types
    <3>2. CASE Room(1) /\ data' = [data EXCEPT ![1] = Append(@, sent + 1)]
      BY <1>1, <2>1, <2>2, <3>2, ChainAssumption DEF Types, Room
    <3> QED
      BY <1>11, <3>1, <3>2 DEF WriteStream
  <2> QED
    BY <1>0, <1>11, <2>1, <2>3 DEF WriteStream, inputs, setup, filters, Types
<1>12. CASE WaitNext
  <2>1. logged' \subseteq {"crit", "err", "warn"}
    BY <1>12 DEF WaitNext, Levels, Types
  <2> QED
    BY <1>0, <1>8, <1>12, <2>1 DEF WaitNext, inputs, setup, Types, States
<1>13. ASSUME NEW f \in Filters, NEW s \in {"ok", "err", "sigpipe"}, Exits(f, s),
              UNCHANGED <<others, data, passed>>
       PROVE  Types'
  <2>1. hold' = [hold EXCEPT ![f] = <<>>] /\ Len(<<>>) = 0
    BY <1>13 DEF Exits
  <2>2. hold' \in [Filters -> Blocks] /\ \A g \in Filters : Len(hold'[g]) <= 1
    <3>1. hold \in [Filters -> Blocks] /\ \A g \in Filters : Len(hold[g]) <= 1
      BY DEF Types
    <3>2. hold' \in [Filters -> Blocks]
      BY <1>1, <2>1, <3>1, Zenon
    <3> QED
      BY <2>1, <3>1, <3>2
  <2> QED
    BY <1>0, <1>13, <2>2 DEF Exits, others, inputs, setup, Types, States, Statuses
<1>14. ASSUME NEW f \in Filters, Exec(f) PROVE Types'
  <2>1. {R(f), W(f + 1)} \subseteq PipeEnds
    BY <1>1
  <2> QED
    BY <1>0, <1>14, <2>1 DEF Exec, others, inputs, setup, Types, States
<1>15. ASSUME NEW f \in Filters, Reads(f) PROVE Types'
  <2>1. data[f] \in Blocks /\ data[f] # <<>> /\ f \in 1..(N + 1)
    BY <1>1, <1>15 DEF Reads, Types
  <2>2. /\ <<Head(data[f])>> \in Blocks /\ Tail(data[f]) \in Blocks
        /\ Len(Tail(data[f])) = Len(data[f]) - 1 /\ Len(data[f]) \in Nat
    <3>1. Head(data[f]) \in 1..len /\ Tail(data[f]) \in Seq(1..len)
      BY <2>1, HeadTailProperties DEF Blocks
    <3>2. Len(Tail(data[f])) = Len(data[f]) - 1 /\ Len(data[f]) \in Nat
      BY <2>1 DEF Blocks
    <3> QED
      BY <3>1, <3>2 DEF Blocks
  <2>3. data' \in [1..(N + 1) -> Blocks] /\ \A i \in 1..N : Len(data'[i]) <= PipeCap
    <3>1. data' = [data EXCEPT ![f] = Tail(@)] /\ data \in [1..(N + 1) -> Blocks]
      BY <1>15 DEF Reads, Types
    <3>2. data' \in [1..(N + 1) -> Blocks]
      BY <2>2, <3>1
    <3>3. ASSUME NEW i \in 1..N PROVE Len(data'[i]) <= PipeCap
      <4>1. Len(data[i]) <= PipeCap /\ i \in 1..(N + 1) /\ PipeCap \in Nat
        BY <1>1, ChainAssumption DEF Types
      <4> QED
        BY <2>2, <3>1, <4>1
    <3> QED
      BY <3>2, <3>3
  <2>4. hold' \in [Filters -> Blocks]
    BY <1>15, <2>2 DEF Reads, Types
  <2> QED
    BY <1>0, <1>15, <2>3, <2>4 DEF Reads, others, inputs, setup, Types
<1>16. ASSUME NEW f \in Filters, Writes(f) PROVE Types'
  <2>1. /\ data[f + 1] \in Blocks /\ hold[f] \in Blocks /\ hold[f] # <<>> /\ f + 1 \in 1..(N + 1)
        /\ passed[f] \in Nat
    BY <1>1, <1>16 DEF Writes, Types
  <2>2. data[f + 1] \o hold[f] \in Blocks /\ Len(data[f + 1] \o hold[f]) = Len(data[f + 1]) + Len(hold[f])
        /\ Len(data[f + 1]) \in Nat
    BY <2>1 DEF Blocks
  <2>3. Len(hold[f]) = 1
    <3>1. Live(f) /\ ~Gone(f)
      BY <1>16 DEF Writes, Live, Gone
    <3>2. dest = "pipe"
      BY <3>1, Waited
    <3>3. hold[f] = <<passed[f] + 1>>
      BY <2>1, <3>1, <3>2 DEF FlowInv
    <3> QED
      BY <3>3
  <2>4. data' \in [1..(N + 1) -> Blocks] /\ \A i \in 1..N : Len(data'[i]) <= PipeCap
    <3>1. data' = [data EXCEPT ![f + 1] = @ \o hold[f]] /\ Room(f + 1) /\ data \in [1..(N + 1) -> Blocks]
      BY <1>16 DEF Writes, Types
    <3>2. data' \in [1..(N + 1) -> Blocks]
      BY <2>2, <3>1
    <3>3. ASSUME NEW i \in 1..N PROVE Len(data'[i]) <= PipeCap
      <4>1. Len(data[i]) <= PipeCap /\ i \in 1..(N + 1) /\ i # N + 1
        BY <1>1 DEF Types
      <4>2. CASE i = f + 1
        <5>1. Len(data'[i]) = Len(data[i]) + 1
          BY <2>2, <2>3, <3>1, <4>1, <4>2
        <5>2. Len(data[i]) < PipeCap /\ PipeCap \in Nat
          BY <3>1, <4>1, <4>2, ChainAssumption DEF Room
        <5> QED
          BY <2>2, <4>2, <5>1, <5>2
      <4>3. CASE i # f + 1
        BY <3>1, <4>1, <4>3
      <4> QED
        BY <4>2, <4>3
    <3> QED
      BY <3>2, <3>3
  <2>5. hold' \in [Filters -> Blocks]
    BY <1>1, <1>16 DEF Writes, Types
  <2>6. passed' \in [Filters -> Nat]
    BY <1>16 DEF Writes, Types
  <2> QED
    BY <1>0, <1>16, <2>4, <2>5, <2>6 DEF Writes, others, inputs, setup, Types
<1>17. CASE WriteFails
  <2>1. sent' \in 0..len /\ UNCHANGED <<mpc, cur, dest, opened, parent, list, notified, logged, data, filters>>
    BY <1>1, <1>17 DEF WriteFails, setup, Types
  <2> QED
    BY <1>0, <2>1 DEF filters, Types
<1>18. CASE UNCHANGED vars
  BY <1>0, <1>18 DEF vars, inputs, setup, filters, Types
<1> QED
  BY <1>3, <1>4, <1>5, <1>6, <1>7, <1>9, <1>10, <1>11, <1>12, <1>13, <1>14, <1>15, <1>16, <1>17, <1>18
  DEF Next, Main, Filter, Terminated, ExecFails, Ends, Sigpipe, GoesBad

(* Main sets the filters up one after the other, or gives up and says so.     *)
LEMMA SetupStep ==
  ASSUME Types, SetupInv, ListInv, [Next]_vars PROVE SetupInv'
<1>0. chain' = chain /\ len' = len /\ N' = N /\ Filters' = Filters /\ N \in Nat /\ Filters = 1..N
  BY Fixed DEF Filters, Types
<1> USE EndsDiffer
<1>1. CASE NoFilters
  <2>1. /\ mpc' = "write" /\ opened' /\ N = 0 /\ UNCHANGED <<dest, parent, child>> /\ dest = "file"
    BY <1>1 DEF NoFilters, filters, SetupInv
  <2>2. \A f \in Filters : child'[f] # "none"
    BY <1>0, <2>1
  <2> QED
    BY <1>0, <2>1, <2>2 DEF SetupInv
<1>2. CASE FirstPipe
  <2>1. /\ mpc' = "spawn" /\ N > 0 /\ cur = 1 /\ dest' = "pipe" /\ ~opened
        /\ UNCHANGED <<cur, opened, list, sent, logged, child>> /\ sent = 0
        /\ W(1) \in parent' /\ R(1) \in parent' /\ W(N + 1) \in parent'
        /\ \A f \in Filters : child[f] = "none"
    BY <1>2 DEF FirstPipe, filters, SetupInv
  <2>2. \A f \in Filters : child'[f] # "none" <=> f < cur'
    BY <1>0, <2>1
  <2> QED
    BY <1>0, <2>1, <2>2 DEF SetupInv
<1>3. CASE FirstPipeFails
  <2>1. /\ mpc' = "write" /\ N > 0 /\ dest' = "closed" /\ ~opened /\ list = <<>>
        /\ UNCHANGED <<opened, list, child>> /\ Severe'
        /\ \A f \in Filters : child[f] = "none"
    BY <1>3 DEF FirstPipeFails, filters, SetupInv, Severe
  <2> QED
    BY <1>0, <2>1 DEF SetupInv
<1>4. CASE Spawn
  <2>1. /\ mpc = "spawn" /\ mpc' = "forked" /\ UNCHANGED <<cur, dest, opened, sent>>
        /\ parent' = Piped /\ child' = [child EXCEPT ![cur] = "forked"] /\ cur \in 1..N
    BY <1>4 DEF Spawn, setup, SetupInv
  <2>2. /\ parent \subseteq parent' /\ (cur < N => R(cur + 1) \in parent') /\ W(N + 1) \in parent'
    BY <2>1 DEF Piped, SetupInv
  <2>3. \A f \in Filters : child'[f] # "none" <=> f < cur \/ f = cur
    BY <1>0, <2>1 DEF Types, SetupInv
  <2> QED
    BY <1>0, <2>1, <2>2, <2>3 DEF SetupInv
<1>5. CASE CloseEnds
  <2>1. /\ mpc = "forked" /\ UNCHANGED <<dest, sent, child>> /\ cur \in 1..N /\ dest = "pipe"
        /\ parent' = parent \ {R(cur), W(cur + 1)} /\ W(1) \in parent /\ sent = 0 /\ ~opened
        /\ \A f \in Filters : child[f] # "none" <=> f < cur \/ f = cur
    BY <1>5 DEF CloseEnds, filters, SetupInv
  <2>2. W(1) \in parent'
    BY <2>1
  <2>3. CASE cur < N
    <3>1. cur' = cur + 1 /\ mpc' = "spawn" /\ opened' = opened /\ cur' \in 1..N
      BY <1>0, <1>5, <2>1, <2>3 DEF CloseEnds
    <3>2. R(cur + 1) \in parent' /\ W(N + 1) \in parent'
      <4>1. R(cur + 1) \in parent /\ W(N + 1) \in parent
        BY <2>1, <2>3 DEF SetupInv
      <4>2. cur + 1 # cur /\ N + 1 # cur + 1
        BY <1>0, <2>1, <2>3
      <4>3. R(cur + 1) \notin {R(cur), W(cur + 1)} /\ W(N + 1) \notin {R(cur), W(cur + 1)}
        BY <4>2, EndsDiffer, Zenon
      <4> QED
        BY <2>1, <4>1, <4>3
    <3>3. \A f \in Filters : child'[f] # "none" <=> f < cur'
      BY <1>0, <2>1, <3>1
    <3> QED
      BY <1>0, <2>1, <2>2, <3>1, <3>2, <3>3 DEF SetupInv
  <2>4. CASE ~(cur < N)
    <3>1. mpc' = "write" /\ opened' /\ cur = N /\ N # 0
      BY <1>0, <1>5, <2>1, <2>4 DEF CloseEnds
    <3>2. \A f \in Filters : child'[f] # "none"
      BY <1>0, <2>1, <3>1
    <3> QED
      BY <1>0, <2>1, <2>2, <3>1, <3>2 DEF SetupInv
  <2> QED
    BY <2>3, <2>4
<1>6. CASE NextPipeFails \/ ForkFails
  <2>1. /\ mpc = "spawn" /\ mpc' = "kill" /\ UNCHANGED <<cur, dest, opened, sent, child>>
        /\ parent \subseteq parent' /\ Severe'
    BY <1>6 DEF NextPipeFails, ForkFails, setup, filters, Piped, Severe
  <2> QED
    BY <1>0, <2>1 DEF SetupInv
<1>7. CASE KillNext
  <2>1. /\ mpc = "kill" /\ UNCHANGED <<mpc, cur, dest, opened, sent, parent, logged>>
        /\ \A f \in Filters : child'[f] # "none" <=> child[f] # "none" \/ f = Head(list)
    BY <1>7 DEF KillNext, setup, Types
  <2>2. Head(list) \in Filters /\ child[Head(list)] # "none"
    <3>1. list \in Seq(Filters) /\ list # <<>>
      BY <1>7 DEF KillNext, Types, Lists
    <3>2. Head(list) = list[1] /\ 1 \in 1..Len(list)
      BY <3>1
    <3> QED
      BY <3>2 DEF ListInv
  <2> QED
    BY <1>0, <2>1, <2>2 DEF SetupInv, Severe
<1>8. CASE AllKilled
  <2>1. /\ mpc = "kill" /\ list = <<>> /\ mpc' = "write" /\ dest' = "null"
        /\ UNCHANGED <<opened, list, logged, child>> /\ ~opened /\ N > 0 /\ Severe
    BY <1>0, <1>8 DEF AllKilled, filters, SetupInv
  <2>2. \A f \in Filters : child[f] \in {"none", "reaped"}
    BY <2>1 DEF ListInv
  <2> QED
    BY <1>0, <2>1, <2>2 DEF SetupInv, Severe
<1>9. CASE WriteStream \/ WriteFails
  <2>1. mpc = "write" /\ UNCHANGED <<mpc, cur, dest, opened, parent, list, logged, child>>
    BY <1>9 DEF WriteStream, WriteFails, setup, filters
  <2> QED
    BY <1>0, <2>1 DEF SetupInv, Severe
<1>10. CASE CloseStream
  <2>1. mpc = "write" /\ mpc' = "wait" /\ sent = len
        /\ UNCHANGED <<cur, dest, opened, list, logged, child, sent>>
    BY <1>10 DEF CloseStream, setup, filters
  <2> QED
    BY <1>0, <2>1 DEF SetupInv, Severe
<1>11. CASE WaitNext
  <2>1. /\ mpc = "wait" /\ list # <<>> /\ UNCHANGED <<mpc, cur, dest, opened, sent>>
        /\ child' = [child EXCEPT ![Head(list)] = "reaped"]
    BY <1>11 DEF WaitNext, setup
  <2>2. opened /\ \A f \in Filters : child'[f] # "none"
    BY <2>1 DEF SetupInv, Types
  <2> QED
    BY <1>0, <2>1, <2>2 DEF SetupInv
<1>12. CASE Notify
  <2>1. mpc = "wait" /\ mpc' = "end" /\ list = <<>>
        /\ UNCHANGED <<cur, dest, opened, list, logged, child, sent>>
    BY <1>12 DEF Notify, setup, filters
  <2> QED
    BY <1>0, <2>1 DEF SetupInv, Severe
<1>13. ASSUME NEW f \in Filters, Live(f), UNCHANGED others,
              child'[f] # "none", \A g \in Filters \ {f} : child'[g] = child[g]
       PROVE  SetupInv'
  <2>1. UNCHANGED <<mpc, cur, dest, opened, sent, parent, list, logged>>
    BY <1>13 DEF others, setup
  <2>2. child[f] # "none" /\ child[f] # "reaped" /\ mpc # "setup"
    BY <1>13, Waited DEF Live
  <2>3. \A g \in Filters : child'[g] # "none" <=> child[g] # "none"
    BY <1>13, <2>2
  <2> QED
    BY <1>0, <2>1, <2>2, <2>3 DEF SetupInv, Severe
<1>14. ASSUME NEW f \in Filters,
              Exec(f) \/ ExecFails(f) \/ Reads(f) \/ Ends(f) \/ Writes(f) \/ Sigpipe(f) \/ GoesBad(f)
       PROVE  SetupInv'
  BY <1>13, <1>14 DEF Exec, ExecFails, Reads, Ends, Writes, Sigpipe, GoesBad, Exits, Live, Types, States
<1>15. CASE UNCHANGED vars
  BY <1>0, <1>15 DEF vars, setup, filters, SetupInv, Severe
<1> QED
  BY <1>1, <1>2, <1>3, <1>4, <1>5, <1>6, <1>7, <1>8, <1>9, <1>10, <1>11, <1>12, <1>14, <1>15
  DEF Next, Main, Filter, Terminated

(* The list loses a child only when that is waited for.                       *)
LEMMA ListStep ==
  ASSUME Types, SetupInv, ListInv, [Next]_vars PROVE ListInv'
<1>0. Filters' = Filters /\ Filters = 1..N /\ list \in Seq(Filters) /\ N \in Nat
  BY Fixed DEF Filters, Types, Lists
<1>1. CASE Spawn
  <2>1. list' = Append(list, cur) /\ child' = [child EXCEPT ![cur] = "forked"] /\ cur \in Filters
    BY <1>0, <1>1 DEF Spawn, SetupInv
  <2>2. /\ Len(list') = Len(list) + 1 /\ list'[Len(list) + 1] = cur /\ Len(list) \in Nat
        /\ \A j \in 1..Len(list) : list'[j] = list[j]
    BY <1>0, <2>1
  <2>3. child'[cur] = "forked" /\ \A f \in Filters \ {cur} : child'[f] = child[f]
    BY <2>1 DEF Types
  <2>4. \A j \in 1..Len(list') : list'[j] \in Filters /\ child'[list'[j]] # "none"
    <3> TAKE j \in 1..Len(list')
    <3>1. CASE j \in 1..Len(list)
      BY <2>2, <2>3, <3>1 DEF ListInv
    <3>2. CASE j = Len(list) + 1
      BY <2>1, <2>2, <2>3, <3>2
    <3> QED
      BY <2>2, <3>1, <3>2
  <2>5. ASSUME NEW f \in Filters, child'[f] \notin {"none", "reaped"}
        PROVE  \E j \in 1..Len(list') : list'[j] = f
    <3>1. CASE f = cur
      BY <2>2, <3>1
    <3>2. CASE f # cur
      <4>1. PICK j \in 1..Len(list) : list[j] = f
        BY <2>3, <2>5, <3>2 DEF ListInv
      <4> QED
        BY <2>2, <4>1
    <3> QED
      BY <3>1, <3>2
  <2> QED
    BY <1>0, <2>4, <2>5 DEF ListInv
<1>2. CASE KillNext \/ WaitNext
  <2>1. list # <<>> /\ list' = Tail(list) /\ child' = [child EXCEPT ![Head(list)] = "reaped"]
    BY <1>2 DEF KillNext, WaitNext
  <2>2. /\ Len(list') = Len(list) - 1 /\ Head(list) = list[1] /\ Len(list) \in Nat \ {0}
        /\ \A j \in 1..Len(list') : list'[j] = list[j + 1]
    BY <1>0, <2>1, HeadTailProperties
  <2>3. /\ \A f \in Filters : child'[f] = IF f = list[1] THEN "reaped" ELSE child[f]
    BY <2>1, <2>2 DEF Types
  <2>4. \A j \in 1..Len(list') : list'[j] \in Filters /\ child'[list'[j]] # "none"
    BY <2>2, <2>3 DEF ListInv
  <2>5. ASSUME NEW f \in Filters, child'[f] \notin {"none", "reaped"}
        PROVE  \E j \in 1..Len(list') : list'[j] = f
    <3>1. PICK j \in 1..Len(list) : list[j] = f
      BY <2>3, <2>5 DEF ListInv
    <3>2. j # 1
      BY <2>3, <2>5, <3>1
    <3>3. j - 1 \in 1..Len(list') /\ list'[j - 1] = list[(j - 1) + 1] /\ (j - 1) + 1 = j
      BY <2>2, <3>1, <3>2
    <3> QED
      BY <3>1, <3>3
  <2> QED
    BY <1>0, <2>4, <2>5 DEF ListInv
<1>3. ASSUME NEW f \in Filters, Live(f), list' = list,
             child'[f] # "none", \A g \in Filters \ {f} : child'[g] = child[g]
      PROVE  ListInv'
  <2>1. child[f] \notin {"none", "reaped"}
    BY <1>3 DEF Live
  <2> QED
    BY <1>0, <1>3, <2>1 DEF ListInv
<1>4. ASSUME NEW f \in Filters,
             Exec(f) \/ ExecFails(f) \/ Reads(f) \/ Ends(f) \/ Writes(f) \/ Sigpipe(f) \/ GoesBad(f)
      PROVE  ListInv'
  BY <1>3, <1>4 DEF Exec, ExecFails, Reads, Ends, Writes, Sigpipe, GoesBad, Exits, Live, Types, States, others
<1>5. ASSUME UNCHANGED <<list, child>> PROVE ListInv'
  BY <1>0, <1>5 DEF ListInv
<1>6. CASE \/ NoFilters \/ FirstPipe \/ FirstPipeFails \/ CloseEnds \/ NextPipeFails \/ ForkFails
           \/ AllKilled \/ WriteStream \/ WriteFails \/ CloseStream \/ Notify \/ UNCHANGED vars
  BY <1>5, <1>6 DEF NoFilters, FirstPipe, FirstPipeFails, CloseEnds, NextPipeFails, ForkFails,
     AllKilled, WriteStream, WriteFails, CloseStream, Notify, vars, filters
<1> QED
  BY <1>1, <1>2, <1>4, <1>6 DEF Next, Main, Filter, Terminated

(* A pipe is broken only when the filter that read it is gone: until it is    *)
(* started, main has its end.                                                 *)
LEMMA BrokenMeansGone ==
  ASSUME Types, SetupInv, ChildInv, NEW f \in Filters, Live(f), Broken(f + 1)
  PROVE  f < N /\ Gone(f + 1)
<1>1. f \in 1..N /\ N \in Nat /\ f + 1 \in 1..N /\ f + 1 \in Filters
  BY DEF Broken, Filters, Types
<1>2. R(f + 1) \notin parent /\ R(f + 1) \notin ends[f + 1]
  BY <1>1 DEF Broken, Held
<1>3. ~Live(f + 1)
  BY <1>1, <1>2 DEF ChildInv, Live
<1>4. child[f + 1] # "none"
  <2> SUFFICES ASSUME child[f + 1] = "none" PROVE FALSE
    OBVIOUS
  <2>1. child[f] # "none" /\ child[f] # "reaped" /\ mpc # "setup"
    BY Waited DEF Live
  <2>2. CASE mpc \in {"spawn", "kill"}
    <3>1. f < cur /\ ~(f + 1 < cur) /\ cur \in 1..N /\ R(cur) \in parent
      BY <1>1, <2>1, <2>2 DEF SetupInv
    <3>2. cur = f + 1
      BY <1>1, <3>1
    <3> QED
      BY <1>2, <3>1, <3>2
  <2>3. CASE mpc = "forked"
    <3>1. (f < cur \/ f = cur) /\ ~(f + 1 < cur) /\ f + 1 # cur /\ cur \in 1..N
      BY <1>1, <2>1, <2>3 DEF SetupInv
    <3>2. cur = f /\ cur < N
      BY <1>1, <3>1
    <3> QED
      BY <1>2, <2>3, <3>2 DEF SetupInv
  <2>4. CASE mpc \in {"write", "wait", "end"}
    BY <1>1, <2>1, <2>4 DEF SetupInv
  <2> QED
    BY <2>1, <2>2, <2>3, <2>4 DEF Types
<1> QED
  BY <1>1, <1>3, <1>4 DEF Types, Live, Gone, States

(* What a child holds and how it ended.                                       *)
LEMMA ChildStep ==
  ASSUME Types, SetupInv, ListInv, ChildInv, [Next]_vars PROVE ChildInv'
<1>0. /\ Filters' = Filters /\ Filters = 1..N /\ N' = N /\ N \in Nat
      /\ \A i : (R(i))' = R(i) /\ (W(i))' = W(i)
  BY Fixed DEF Filters, Types, R, W
<1>1. ASSUME UNCHANGED <<child, status, ends>>, logged \subseteq logged',
             \A f \in Filters : status[f] = "killed" => ~opened' /\ mpc' \in {"kill", "write", "wait", "end"}
      PROVE  ChildInv'
  BY <1>0, <1>1 DEF ChildInv, Gone
<1>2. ASSUME UNCHANGED <<child, status, ends>>, logged \subseteq logged',
             \/ mpc \in {"setup", "spawn", "forked"}
             \/ mpc \in {"kill", "write", "wait"} /\ mpc' \in {mpc, "write", "wait", "end"} /\ opened' = opened
      PROVE  ChildInv'
  BY <1>1, <1>2 DEF ChildInv
<1>3. CASE \/ NoFilters \/ FirstPipe \/ FirstPipeFails \/ CloseEnds \/ NextPipeFails \/ ForkFails
           \/ AllKilled \/ WriteStream \/ WriteFails \/ CloseStream \/ Notify
  BY <1>2, <1>3 DEF NoFilters, FirstPipe, FirstPipeFails, CloseEnds, NextPipeFails, ForkFails,
     AllKilled, WriteStream, WriteFails, CloseStream, Notify, filters, setup
<1>4. CASE Spawn
  <2>1. /\ mpc = "spawn" /\ mpc' = "forked" /\ UNCHANGED <<status, opened, logged>> /\ ~opened
        /\ cur \in Filters /\ child[cur] = "none" /\ (cur > 1 => child[cur - 1] # "none")
    <3>1. cur \in Filters /\ \A f \in Filters : child[f] # "none" <=> f < cur
      BY <1>0, <1>4 DEF Spawn, SetupInv
    <3>2. ~(cur < cur) /\ (cur > 1 => cur - 1 \in Filters /\ cur - 1 < cur)
      BY <1>0, <3>1
    <3> QED
      BY <1>4, <3>1, <3>2 DEF Spawn, SetupInv, setup
  <2>2. \A f \in Filters : /\ child'[f] = IF f = cur THEN "forked" ELSE child[f]
                           /\ ends'[f] = IF f = cur THEN Piped ELSE ends[f]
    BY <1>4 DEF Spawn, Types
  <2>3. R(cur) \in Piped /\ W(cur + 1) \in Piped
    <3>1. R(cur) \in parent /\ W(N + 1) \in parent
      BY <2>1 DEF SetupInv
    <3> QED
      BY <1>0, <2>1, <3>1 DEF Piped
  <2>4. \A f \in Filters : (Gone(f))' <=> Gone(f)
    BY <2>1, <2>2 DEF Gone
  <2>5. \A f \in Filters : status[f] # "killed"
    BY <2>1 DEF ChildInv
  <2>6. \A f \in Filters : f > 1 /\ child'[f] # "none" => child'[f - 1] # "none"
    <3> SUFFICES ASSUME NEW f \in Filters, f > 1, child'[f] # "none" PROVE child'[f - 1] # "none"
      OBVIOUS
    <3>1. f - 1 \in Filters
      BY <1>0
    <3> QED
      BY <2>1, <2>2, <3>1 DEF ChildInv
  <2>7. \A f \in Filters : f < N => f + 1 \in Filters
    BY <1>0
  <2>8. \A f \in Filters :
          /\ child'[f] = "forked" => R(f) \in ends'[f] /\ W(f + 1) \in ends'[f]
          /\ child'[f] = "running" => ends'[f] = {R(f), W(f + 1)}
    BY <2>2, <2>3 DEF ChildInv
  <2>9. \A f \in Filters :
          /\ status'[f] = "none" <=> ~(Gone(f))'
          /\ status'[f] = "sigpipe" => f < N /\ (Gone(f + 1))'
          /\ status'[f] = "err" /\ child'[f] = "reaped" => "err" \in logged'
    BY <2>1, <2>2, <2>4, <2>7 DEF ChildInv
  <2> QED
    BY <1>0, <2>1, <2>5, <2>6, <2>8, <2>9 DEF ChildInv
<1>5. ASSUME NEW f \in Filters, child[f] # "none", NEW s \in Statuses \ {"none"},
             NEW c \in {"exited", "reaped"}, UNCHANGED <<opened, mpc>>, logged \subseteq logged',
             \A g \in Filters : /\ child'[g] = IF g = f THEN c ELSE child[g]
                                /\ status'[g] = IF g = f THEN s ELSE status[g]
                                /\ ends'[g] = IF g = f THEN {} ELSE ends[g],
             s = "sigpipe" => f < N /\ Gone(f + 1), s = "killed" => ~opened /\ mpc = "kill",
             s = "err" /\ c = "reaped" => "err" \in logged'
      PROVE  ChildInv'
  <2>1. \A g \in Filters : Gone(g) => (Gone(g))'
    BY <1>5 DEF Gone
  <2>2. \A g \in Filters : g # f => ((Gone(g))' <=> Gone(g))
    BY <1>5 DEF Gone
  <2>3. \A g \in Filters : (g < N => g + 1 \in Filters) /\ (g > 1 => g - 1 \in Filters)
    BY <1>0
  <2>4. \A g \in Filters : child'[g] # "none" <=> child[g] # "none"
    BY <1>5
  <2>5. (Gone(f))' /\ child'[f] = c /\ status'[f] = s /\ s # "none"
    BY <1>5 DEF Gone
  <2>6. \A g \in Filters :
          /\ child'[g] = "forked" => R(g) \in ends'[g] /\ W(g + 1) \in ends'[g]
          /\ child'[g] = "running" => ends'[g] = {R(g), W(g + 1)}
          /\ g > 1 /\ child'[g] # "none" => child'[g - 1] # "none"
    BY <1>5, <2>3, <2>4 DEF ChildInv
  <2>7. \A g \in Filters :
          /\ status'[g] = "none" <=> ~(Gone(g))'
          /\ status'[g] = "sigpipe" => g < N /\ (Gone(g + 1))'
          /\ status'[g] = "killed" => ~opened' /\ mpc' \in {"kill", "write", "wait", "end"}
          /\ status'[g] = "err" /\ child'[g] = "reaped" => "err" \in logged'
    <3> TAKE g \in Filters
    <3>1. CASE g = f
      BY <1>5, <2>1, <2>3, <2>5, <3>1
    <3>2. CASE g # f
      BY <1>5, <2>1, <2>2, <2>3, <3>2 DEF ChildInv
    <3> QED
      BY <3>1, <3>2
  <2> QED
    BY <1>0, <2>6, <2>7 DEF ChildInv
<1>6. list # <<>> => Head(list) \in Filters /\ child[Head(list)] # "none"
  <2> SUFFICES ASSUME list # <<>> PROVE Head(list) \in Filters /\ child[Head(list)] # "none"
    OBVIOUS
  <2>1. Head(list) = list[1] /\ 1 \in 1..Len(list)
    BY DEF Types, Lists
  <2> QED
    BY <2>1 DEF ListInv
<1>7. CASE KillNext
  <2> DEFINE f == Head(list)
  <2>1. f \in Filters /\ child[f] # "none" /\ UNCHANGED <<opened, mpc, logged>> /\ mpc = "kill" /\ ~opened
    BY <1>6, <1>7 DEF KillNext, setup, SetupInv
  <2>2. \A g \in Filters : /\ child'[g] = IF g = f THEN "reaped" ELSE child[g]
                           /\ status'[g] = IF g = f THEN "killed" ELSE status[g]
                           /\ ends'[g] = IF g = f THEN {} ELSE ends[g]
    BY <1>7 DEF KillNext, Types
  <2> HIDE DEF f
  <2> QED
    BY <1>5, <2>1, <2>2 DEF Statuses
<1>8. CASE WaitNext
  <2> DEFINE f == Head(list)
             s == status[f]
  <2>1. /\ f \in Filters /\ child[f] = "exited" /\ UNCHANGED <<opened, mpc, status, ends>>
        /\ logged' = logged \union Levels(s)
    BY <1>6, <1>8 DEF WaitNext, setup
  <2>2. \A g \in Filters : child'[g] = IF g = f THEN "reaped" ELSE child[g]
    BY <1>8 DEF WaitNext, Types
  <2> HIDE DEF f
  <2>3. Gone(f) /\ s \in Statuses \ {"none"} /\ (s = "sigpipe" => f < N /\ Gone(f + 1))
        /\ mpc \notin {"setup", "spawn", "forked"}
    BY <1>8, <2>1 DEF Gone, ChildInv, Types, WaitNext
  <2>4. s = "err" => "err" \in logged'
    BY <2>1 DEF Levels
  <2>5. \A g \in Filters : Gone(g) <=> (Gone(g))'
    BY <2>1, <2>2 DEF Gone
  <2>6. \A g \in Filters : g < N => g + 1 \in Filters
    BY <1>0
  <2>7. \A g \in Filters : (g > 1 => g - 1 \in Filters) /\ (child'[g] # "none" <=> child[g] # "none")
    BY <1>0, <2>1, <2>2
  <2>8. logged \subseteq logged'
    BY <2>1
  <2>9. \A g \in Filters : status[g] = "err" /\ child'[g] = "reaped" => "err" \in logged'
    BY <2>2, <2>4, <2>8 DEF ChildInv
  <2> HIDE DEF s
  <2>10. \A g \in Filters : child'[g] \in {"forked", "running"} => child'[g] = child[g]
    BY <2>2
  <2> QED
    BY <1>0, <2>1, <2>5, <2>6, <2>7, <2>9, <2>10 DEF ChildInv
<1>9. ASSUME NEW f \in Filters, NEW s \in {"ok", "err", "sigpipe"}, Live(f), Exits(f, s), UNCHANGED others,
             s = "sigpipe" => Broken(f + 1)
      PROVE  ChildInv'
  <2>1. \A g \in Filters : /\ child'[g] = IF g = f THEN "exited" ELSE child[g]
                           /\ status'[g] = IF g = f THEN s ELSE status[g]
                           /\ ends'[g] = IF g = f THEN {} ELSE ends[g]
    BY <1>9 DEF Exits, Types
  <2>2. child[f] # "none" /\ UNCHANGED <<opened, mpc, logged>>
    BY <1>9 DEF Live, others, setup
  <2>3. s = "sigpipe" => f < N /\ Gone(f + 1)
    BY <1>9, BrokenMeansGone
  <2> QED
    BY <1>5, <2>1, <2>2, <2>3 DEF Statuses
<1>10. ASSUME NEW f \in Filters, ExecFails(f) \/ Ends(f) \/ Sigpipe(f) \/ GoesBad(f) PROVE ChildInv'
  BY <1>9, <1>10 DEF ExecFails, Ends, Sigpipe, GoesBad, Live
<1>11. ASSUME NEW f \in Filters, Exec(f) PROVE ChildInv'
  <2>1. \A g \in Filters : /\ child'[g] = IF g = f THEN "running" ELSE child[g]
                           /\ ends'[g] = IF g = f THEN {R(f), W(f + 1)} ELSE ends[g]
    BY <1>11 DEF Exec, Types
  <2>2. child[f] = "forked" /\ UNCHANGED <<opened, mpc, logged, status>>
    BY <1>11 DEF Exec, others, setup
  <2>3. \A g \in Filters : (Gone(g))' <=> Gone(g)
    BY <2>1, <2>2 DEF Gone
  <2>4. \A g \in Filters : (g < N => g + 1 \in Filters) /\ (g > 1 => g - 1 \in Filters)
    BY <1>0
  <2>5. \A g \in Filters : child'[g] # "none" <=> child[g] # "none"
    BY <2>1, <2>2
  <2>6. \A g \in Filters :
          /\ child'[g] = "forked" => R(g) \in ends'[g] /\ W(g + 1) \in ends'[g]
          /\ child'[g] = "running" => ends'[g] = {R(g), W(g + 1)}
          /\ g > 1 /\ child'[g] # "none" => child'[g - 1] # "none"
          /\ child'[g] = "reaped" => child[g] = "reaped"
    BY <2>1, <2>4, <2>5 DEF ChildInv
  <2> QED
    BY <1>0, <2>2, <2>3, <2>4, <2>6 DEF ChildInv
<1>12. ASSUME NEW f \in Filters, Reads(f) \/ Writes(f) PROVE ChildInv'
  <2>1. UNCHANGED <<child, status, ends, opened, mpc, logged>>
    BY <1>12 DEF Reads, Writes, others, setup
  <2> QED
    BY <1>1, <2>1 DEF ChildInv
<1>13. CASE UNCHANGED vars
  <2>1. UNCHANGED <<child, status, ends, opened, mpc, logged>>
    BY <1>13 DEF vars, filters, setup
  <2> QED
    BY <1>1, <2>1 DEF ChildInv
<1> QED
  BY <1>3, <1>4, <1>7, <1>8, <1>10, <1>11, <1>12, <1>13 DEF Next, Main, Filter, Terminated

(* One block more at the end of a pipe.                                       *)
LEMMA OneMore ==
  ASSUME NEW S, NEW s \in Seq(S), NEW e
  PROVE  /\ Len(s) \in Nat /\ Len(s \o <<e>>) = Len(s) + 1 /\ (s \o <<e>>)[Len(s) + 1] = e
         /\ \A j \in 1..Len(s) : (s \o <<e>>)[j] = s[j]
         /\ Len(Append(s, e)) = Len(s) + 1 /\ Append(s, e)[Len(s) + 1] = e
         /\ \A j \in 1..Len(s) : Append(s, e)[j] = s[j]
OBVIOUS

(* The parts of FlowInv that are about filter f.                              *)
Carries(f) ==
  /\ hold[f] = <<>> \/ hold[f] = <<passed[f] + 1>>
  /\ passed[f] + Len(hold[f]) + Len(data[f]) = In(f)
  /\ \A j \in 1..Len(data[f]) : data[f][j] = passed[f] + Len(hold[f]) + j

(* What a filter that carries the stream has passed on.                       *)
Short(f) == chain[f] = "head" => passed[f] + Len(hold[f]) <= HeadLen
Behind(f) == passed[f] <= sent /\ \A g \in 1..f : passed[f] <= passed[g]
Flows(f) == ~Gone(f) /\ (f = 1 => dest \in {"file", "pipe"})
Filed ==
  N # 0 => /\ Len(data[N + 1]) = In(N + 1)
           /\ \A j \in 1..Len(data[N + 1]) : data[N + 1][j] = j

(* The flow, filter by filter.                                                *)
LEMMA FlowParts ==
  /\ FlowInv <=> Filed /\ \A f \in Filters : (Flows(f) => Carries(f)) /\ Short(f) /\ Behind(f)
  /\ FlowInv' <=> Filed' /\ \A f \in Filters' : ((Flows(f))' => (Carries(f))') /\ (Short(f))' /\ (Behind(f))'
BY DEF FlowInv, Carries, Short, Behind, Flows, Filed

(* What is carried depends on nothing else.                                   *)
LEMMA CarriesSame ==
  ASSUME NEW f, Carries(f), hold'[f] = hold[f], passed'[f] = passed[f], data'[f] = data[f],
         (In(f))' = In(f)
  PROVE  (Carries(f))'
BY DEF Carries

(* The writer has put its next block into the pipe.                           *)
LEMMA CarriesMore ==
  ASSUME NEW f, Carries(f), hold'[f] = hold[f], passed'[f] = passed[f], (In(f))' = In(f) + 1,
         passed[f] \in Nat, Len(hold[f]) \in Nat, Len(data[f]) \in Nat,
         Len(data'[f]) = Len(data[f]) + 1, data'[f][Len(data[f]) + 1] = In(f) + 1,
         \A j \in 1..Len(data[f]) : data'[f][j] = data[f][j]
  PROVE  (Carries(f))'
<1>1. /\ passed[f] + Len(hold[f]) + Len(data[f]) = In(f)
      /\ \A j \in 1..Len(data[f]) : data[f][j] = passed[f] + Len(hold[f]) + j
      /\ hold[f] = <<>> \/ hold[f] = <<passed[f] + 1>>
  BY DEF Carries
<1>2. passed[f] + Len(hold[f]) + (Len(data[f]) + 1) = In(f) + 1
  <2> DEFINE p == passed[f]
             h == Len(hold[f])
             d == Len(data[f])
             n == In(f)
  <2>1. p \in Nat /\ h \in Nat /\ d \in Nat /\ p + h + d = n
    BY <1>1
  <2> HIDE DEF p, h, d, n
  <2>2. p + h + (d + 1) = n + 1
    BY ONLY <2>1
  <2> QED
    BY <2>2, Zenon DEF p, h, d, n
<1>3. ASSUME NEW j \in 1..Len(data'[f]) PROVE data'[f][j] = passed[f] + Len(hold[f]) + j
  <2>1. CASE j \in 1..Len(data[f])
    BY <1>1, <2>1
  <2>2. CASE j = Len(data[f]) + 1
    BY <1>2, <2>2
  <2> QED
    BY <2>1, <2>2
<1>4. passed[f] + Len(hold[f]) + Len(data'[f]) = In(f) + 1
  BY <1>2, Zenon
<1> QED
  BY <1>1, <1>3, <1>4 DEF Carries

(* No block is lost, doubled or out of its order on the way.                  *)
LEMMA FlowStep ==
  ASSUME Types, SetupInv, ListInv, ChildInv, FlowInv, [Next]_vars PROVE FlowInv'
<1>0. Filters' = Filters /\ Filters = 1..N /\ N' = N /\ N \in Nat /\ chain' = chain
  BY Fixed DEF Filters, Types
<1>num. HeadLen \in Nat /\ sent \in Nat /\ \A f \in Filters : passed[f] \in Nat /\ Len(hold[f]) \in Nat
  BY ChainAssumption DEF Types, Blocks
<1>idx. \A f \in Filters : /\ f + 1 \in 1..(N + 1) /\ f \in 1..(N + 1) /\ f # N + 1
                           /\ f # f + 1 /\ (f # 1 => f - 1 \in Filters /\ f - 1 # f)
  BY <1>0
<1>seq. \A i \in 1..(N + 1) : data[i] \in Seq(1..len) /\ Len(data[i]) \in Nat
  BY DEF Types, Blocks
<1>1. Filed /\ \A f \in Filters : (Flows(f) => Carries(f)) /\ Short(f) /\ Behind(f)
  BY FlowParts
<1>2. ASSUME UNCHANGED <<data, hold, passed, sent>>,
             \A f \in Filters : (Flows(f))' => Flows(f)
      PROVE  FlowInv'
  <2>1. \A f \in Filters : (Flows(f))' => (Carries(f))'
    BY <1>1, <1>2, CarriesSame DEF In
  <2>2. Filed' /\ \A f \in Filters : (Short(f))' /\ (Behind(f))'
    BY <1>0, <1>1, <1>2 DEF Filed, Short, Behind, In
  <2> QED
    BY <1>0, <2>1, <2>2, FlowParts
<1>3. ASSUME UNCHANGED <<data, hold, passed, sent>>, UNCHANGED child,
             dest' = dest \/ dest' \in {"null", "closed"} \/ dest = "file"
      PROVE  FlowInv'
  BY <1>2, <1>3 DEF Flows, Gone
<1>4. CASE \/ NoFilters \/ FirstPipe \/ FirstPipeFails \/ CloseEnds \/ NextPipeFails \/ ForkFails
           \/ AllKilled \/ CloseStream \/ Notify \/ UNCHANGED vars
  BY <1>3, <1>4 DEF NoFilters, FirstPipe, FirstPipeFails, CloseEnds, NextPipeFails, ForkFails,
     AllKilled, CloseStream, Notify, vars, filters, setup, SetupInv
<1>5. ASSUME Spawn \/ WaitNext \/ \E f \in Filters : Exec(f) PROVE FlowInv'
  <2>1. UNCHANGED <<data, hold, passed, sent, dest>>
    BY <1>5 DEF Spawn, WaitNext, Exec, others, setup
  <2>2. \A f \in Filters : Gone(f) => (Gone(f))'
    <3>1. CASE Spawn
      <4>1. child[cur] = "none"
        BY <1>0, <3>1 DEF Spawn, SetupInv
      <4> QED
        BY <3>1, <4>1 DEF Spawn, Gone, Types
    <3>2. CASE WaitNext
      BY <3>2 DEF WaitNext, Gone, Types
    <3>3. CASE \E f \in Filters : Exec(f)
      BY <3>3 DEF Exec, Gone, Types
    <3> QED
      BY <1>5, <3>1, <3>2, <3>3
  <2> QED
    BY <1>2, <2>1, <2>2 DEF Flows
<1>6. ASSUME NEW f \in Filters, UNCHANGED <<data, passed, sent, dest>>, (Gone(f))',
             \A g \in Filters \ {f} : (Gone(g))' <=> Gone(g),
             \A g \in Filters : hold'[g] = IF g = f THEN <<>> ELSE hold[g]
      PROVE  FlowInv'
  <2>1. \A g \in Filters : (Flows(g))' => Flows(g) /\ g # f
    BY <1>6 DEF Flows
  <2>2. \A g \in Filters : (Flows(g))' => (Carries(g))'
    BY <1>1, <1>6, <2>1, CarriesSame DEF In
  <2>3. \A g \in Filters : Len(hold'[g]) <= Len(hold[g]) /\ Len(hold'[g]) \in Nat
    BY <1>num, <1>6
  <2>4. \A g \in Filters : (Short(g))'
    BY <1>0, <1>num, <1>1, <1>6, <2>3 DEF Short
  <2>5. \A g \in Filters : (Behind(g))'
    BY <1>1, <1>6 DEF Behind
  <2> QED
    BY <1>0, <1>1, <1>6, <2>2, <2>4, <2>5, FlowParts DEF Filed, In
<1>7. CASE KillNext
  <2>1. Head(list) \in Filters
    BY <1>7, HeadTailProperties DEF KillNext, Types, Lists
  <2> QED
    BY <1>6, <1>7, <2>1 DEF KillNext, Gone, Types, setup
<1>8. ASSUME NEW f \in Filters, ExecFails(f) \/ Ends(f) \/ Sigpipe(f) \/ GoesBad(f) PROVE FlowInv'
  <2>1. /\ child' = [child EXCEPT ![f] = "exited"] /\ hold' = [hold EXCEPT ![f] = <<>>]
        /\ UNCHANGED <<data, passed, sent, dest>>
    BY <1>8 DEF ExecFails, Ends, Sigpipe, GoesBad, Exits, others, setup
  <2> QED
    BY <1>6, <2>1 DEF Gone, Types
<1>9. CASE WriteStream
  <2>1. /\ mpc = "write" /\ sent' = sent + 1 /\ UNCHANGED <<dest, child, hold, passed>> /\ sent \in Nat
    BY <1>9 DEF WriteStream, setup, filters, Types
  <2>2. \A f \in Filters : (Flows(f))' <=> Flows(f)
    BY <2>1 DEF Flows, Gone
  <2>3. 1 \in Filters /\ Flows(1) => ~Lost
    <3> SUFFICES ASSUME 1 \in Filters, Flows(1) PROVE ~Lost
      OBVIOUS
    <3>1. N # 0 /\ dest = "pipe" /\ child[1] # "none"
      BY <1>0, <2>1 DEF SetupInv, Flows
    <3>2. R(1) \in ends[1]
      BY <3>1 DEF ChildInv, Flows, Gone, Types, States
    <3> QED
      BY <1>0, <3>1, <3>2 DEF Lost, Broken, Held
  <2>4. \A i \in 1..(N + 1) : i # 1 => data'[i] = data[i]
    BY <1>0, <1>9 DEF WriteStream, Types
  <2>5. ASSUME ~Lost
        PROVE  /\ Len(data'[1]) = Len(data[1]) + 1 /\ data'[1][Len(data[1]) + 1] = sent + 1
               /\ \A j \in 1..Len(data[1]) : data'[1][j] = data[1][j]
    <3>1. 1 \in 1..(N + 1) /\ data'[1] = Append(data[1], sent + 1)
      BY <1>0, <1>9, <2>5 DEF WriteStream, Types
    <3> QED
      BY <1>0, <3>1, OneMore
  <2>6. ASSUME NEW f \in Filters, Flows(f) PROVE (Carries(f))'
    <3>1. CASE f = 1
      <4>1. ~Lost /\ Carries(1) /\ In(1) = sent /\ (In(1))' = sent + 1 /\ 1 \in 1..(N + 1)
        BY <1>idx, <1>1, <2>1, <2>3, <2>6, <3>1 DEF In
      <4>2. Len(data[1]) \in Nat /\ passed[1] \in Nat /\ Len(hold[1]) \in Nat
        BY <1>seq, <1>num, <3>1, <4>1
      <4> QED
        BY <2>1, <2>5, <3>1, <4>1, <4>2, CarriesMore
    <3>2. CASE f # 1
      <4>1. data'[f] = data[f] /\ (In(f))' = In(f) /\ Carries(f)
        BY <1>idx, <1>1, <2>1, <2>4, <2>6, <3>2 DEF In
      <4> QED
        BY <2>1, <4>1, CarriesSame
    <3> QED
      BY <3>1, <3>2
  <2>7. Filed'
    <3>1. CASE N = 0
      BY <1>0, <3>1 DEF Filed
    <3>2. CASE N # 0
      <4>1. N + 1 # 1 /\ N + 1 \in 1..(N + 1)
        BY <1>0, <3>2
      <4>2. data'[N + 1] = data[N + 1]
        BY <2>1, <2>4, <4>1
      <4>3. (In(N + 1))' = In(N + 1)
        BY <1>0, <2>1, <4>1 DEF In
      <4> QED
        BY <1>0, <1>1, <4>2, <4>3 DEF Filed
    <3> QED
      BY <3>1, <3>2
  <2>8. \A f \in Filters : (Short(f))' /\ (Behind(f))'
    BY <1>num, <1>0, <1>1, <2>1 DEF Short, Behind
  <2> QED
    BY <1>0, <2>2, <2>6, <2>7, <2>8, FlowParts
<1>w. CASE WriteFails
  <2>1. N = 0
    BY <1>0, <1>w DEF WriteFails, SetupInv
  <2> QED
    BY <1>0, <2>1, FlowParts DEF Filed
<1>10. ASSUME NEW f \in Filters, child[f] = "running" PROVE Flows(f) /\ Carries(f)
  <2>1. dest = "pipe"
    BY <1>10, Waited DEF Live
  <2> QED
    BY <1>1, <1>10, <2>1 DEF Flows, Gone
<1>11. ASSUME NEW f \in Filters, Reads(f) PROVE FlowInv'
  <2>1. /\ hold[f] = <<>> /\ data[f] # <<>> /\ child[f] = "running"
        /\ hold' = [hold EXCEPT ![f] = <<Head(data[f])>>] /\ data' = [data EXCEPT ![f] = Tail(@)]
        /\ UNCHANGED <<child, passed, sent, dest>> /\ ~Finished(f)
    BY <1>11 DEF Reads, others, setup
  <2>2. Carries(f) /\ Len(hold[f]) = 0
    BY <1>10, <2>1
  <2>3. /\ Len(Tail(data[f])) = Len(data[f]) - 1 /\ Head(data[f]) = data[f][1] /\ Len(data[f]) > 0
        /\ \A j \in 1..Len(Tail(data[f])) : Tail(data[f])[j] = data[f][j + 1]
    BY <1>seq, <1>idx, <2>1, HeadTailProperties
  <2>num. passed[f] \in Nat /\ Len(data[f]) \in Nat /\ f \in 1..(N + 1)
    BY <1>num, <1>seq, <1>idx
  <2>4. Head(data[f]) = passed[f] + 1
    BY <2>num, <2>2, <2>3 DEF Carries
  <2>5. /\ hold'[f] = <<passed[f] + 1>> /\ Len(hold'[f]) = 1
        /\ \A g \in Filters \ {f} : hold'[g] = hold[g]
        /\ data'[f] = Tail(data[f]) /\ \A i \in 1..(N + 1) : i # f => data'[i] = data[i]
    BY <2>num, <2>1, <2>4 DEF Types
  <2>6. (Carries(f))'
    <3>1. passed[f] + 1 + Len(data'[f]) = In(f)
      BY <2>num, <2>2, <2>3, <2>5 DEF Carries
    <3>3. (In(f))' = In(f)
      BY <2>1 DEF In
    <3>2. \A j \in 1..Len(data'[f]) : data'[f][j] = passed[f] + 1 + j
      <4> TAKE j \in 1..Len(data'[f])
      <4>1. j + 1 \in 1..Len(data[f])
        BY <2>num, <2>3, <2>5
      <4>2. data[f][j + 1] = passed[f] + 0 + (j + 1)
        BY <2>2, <4>1 DEF Carries
      <4>3. data'[f][j] = data[f][j + 1]
        BY <2>3, <2>5
      <4> QED
        BY <2>num, <4>2, <4>3
    <3> QED
      BY <2>1, <2>5, <3>1, <3>2, <3>3 DEF Carries
  <2>7. \A g \in Filters : ((Flows(g))' <=> Flows(g)) /\ (Flows(g) => (Carries(g))')
    <3>1. \A g \in Filters : (Flows(g))' <=> Flows(g)
      BY <2>1 DEF Flows, Gone
    <3>2. ASSUME NEW g \in Filters, g # f, Flows(g) PROVE (Carries(g))'
      BY <1>idx, <1>1, <2>1, <2>5, <3>2, CarriesSame DEF In
    <3> QED
      BY <2>6, <3>1, <3>2
  <2>8. \A g \in Filters : (Short(g))' /\ (Behind(g))'
    <3>1. (Short(f))'
      BY <1>0, <1>num, <1>1, <2>1, <2>2, <2>5 DEF Short, Finished
    <3>2. \A g \in Filters \ {f} : (Short(g))'
      BY <1>0, <1>1, <2>1, <2>5 DEF Short
    <3> QED
      BY <1>0, <1>1, <2>1, <3>1, <3>2 DEF Behind
  <2>9. Filed'
    <3>1. data'[N + 1] = data[N + 1] /\ (In(N + 1))' = In(N + 1)
      BY <1>0, <1>idx, <2>1, <2>5 DEF In
    <3> QED
      BY <1>0, <1>1, <3>1 DEF Filed
  <2> QED
    BY <1>0, <2>7, <2>8, <2>9, FlowParts
<1>12. ASSUME NEW f \in Filters, Writes(f) PROVE FlowInv'
  <2>1. /\ hold[f] # <<>> /\ child[f] = "running"
        /\ hold' = [hold EXCEPT ![f] = <<>>] /\ data' = [data EXCEPT ![f + 1] = @ \o hold[f]]
        /\ passed' = [passed EXCEPT ![f] = @ + 1] /\ UNCHANGED <<child, sent, dest>>
    BY <1>12 DEF Writes, others, setup
  <2>2. Carries(f) /\ hold[f] = <<passed[f] + 1>> /\ Len(hold[f]) = 1
    <3>1. Carries(f)
      BY <1>10, <2>1
    <3>2. hold[f] = <<passed[f] + 1>>
      BY <2>1, <3>1 DEF Carries
    <3> QED
      BY <3>1, <3>2
  <2>num. /\ passed[f] \in Nat /\ f \in Nat /\ f + 1 \in 1..(N + 1) /\ f \in 1..(N + 1)
          /\ data[f + 1] \in Seq(1..len) /\ Len(data[f + 1]) \in Nat /\ Len(data[f]) \in Nat
    BY <1>0, <1>num, <1>seq, <1>idx
  <2>3. /\ hold'[f] = <<>> /\ Len(hold'[f]) = 0 /\ (\A g \in Filters \ {f} : hold'[g] = hold[g])
        /\ passed'[f] = passed[f] + 1 /\ \A g \in Filters \ {f} : passed'[g] = passed[g]
    BY <2>1 DEF Types
  <2>4. /\ data'[f + 1] = data[f + 1] \o <<passed[f] + 1>>
        /\ \A i \in 1..(N + 1) : i # f + 1 => data'[i] = data[i]
    BY <2>num, <2>1, <2>2 DEF Types
  <2>5. /\ Len(data'[f + 1]) = Len(data[f + 1]) + 1 /\ data'[f + 1][Len(data[f + 1]) + 1] = passed[f] + 1
        /\ \A j \in 1..Len(data[f + 1]) : data'[f + 1][j] = data[f + 1][j]
    BY <2>num, <2>4, OneMore
  <2>6. In(f + 1) = passed[f] /\ (In(f + 1))' = passed[f] + 1
    BY <2>num, <2>3 DEF In
  <2>7. \A j \in 1..(Len(data[f + 1]) + 1) : j \in 1..Len(data[f + 1]) \/ j = Len(data[f + 1]) + 1
    BY <2>num
  <2>8. \A g \in Filters : g # f + 1 => (In(g))' = In(g)
    BY <1>0, <1>idx, <2>num, <2>1, <2>3 DEF In
  <2>9. \A g \in Filters : (Flows(g))' <=> Flows(g)
    BY <2>1 DEF Flows, Gone
  <2>10. (Carries(f))'
    <3>1. data'[f] = data[f] /\ (In(f))' = In(f)
      BY <2>num, <2>4, <2>8
    <3>2. passed[f] + 1 + Len(data[f]) = In(f) /\ \A j \in 1..Len(data[f]) : data[f][j] = passed[f] + 1 + j
      BY <2>2, <2>num DEF Carries
    <3> QED
      BY <2>num, <2>3, <3>1, <3>2 DEF Carries
  <2>11. ASSUME f + 1 \in Filters, Flows(f + 1) PROVE (Carries(f + 1))'
    <3>1. Carries(f + 1) /\ hold'[f + 1] = hold[f + 1] /\ passed'[f + 1] = passed[f + 1]
      BY <2>num, <1>1, <2>3, <2>11
    <3>2. passed[f + 1] \in Nat /\ Len(hold[f + 1]) \in Nat
      BY <1>num, <2>11
    <3> QED
      BY <2>num, <2>5, <2>6, <3>1, <3>2, CarriesMore
  <2>12. ASSUME NEW g \in Filters, g # f, g # f + 1, Flows(g) PROVE (Carries(g))'
    BY <1>idx, <1>1, <2>3, <2>4, <2>8, <2>12, CarriesSame
  <2>13. \A g \in Filters : (Flows(g))' => (Carries(g))'
    BY <2>9, <2>10, <2>11, <2>12
  <2>14. \A g \in Filters : (Short(g))'
    <3>1. (Short(f))'
      <4>1. chain[f] = "head" => passed[f] + 1 <= HeadLen
        BY <1>1, <2>2 DEF Short
      <4> QED
        BY <1>0, <1>num, <2>3, <2>num, <4>1 DEF Short
    <3>2. \A g \in Filters \ {f} : (Short(g))'
      BY <1>0, <1>1, <2>3 DEF Short
    <3> QED
      BY <3>1, <3>2
  <2>15. passed[f] + 1 <= In(f)
    BY <2>num, <2>2 DEF Carries
  <2>16. (Behind(f))'
    <3>1. passed[f] + 1 <= sent
      <4>1. CASE f = 1
        BY <2>15, <4>1 DEF In
      <4>2. CASE f # 1
        <5>1. passed[f - 1] <= sent /\ In(f) = passed[f - 1] /\ sent \in Nat /\ passed[f - 1] \in Nat
          BY <1>idx, <1>num, <1>1, <4>2 DEF Behind, In
        <5> QED
          BY <2>num, <2>15, <5>1
      <4> QED
        BY <4>1, <4>2
    <3>2. ASSUME NEW g \in 1..f, g # f PROVE passed[f] + 1 <= passed'[g]
      <4>1. f # 1 /\ f - 1 \in Filters /\ g \in 1..(f - 1) /\ g \in Filters
        BY <1>0, <1>idx, <3>2
      <4>2. passed[f - 1] <= passed[g] /\ In(f) = passed[f - 1]
        BY <1>1, <4>1 DEF Behind, In
      <4> QED
        BY <1>num, <2>num, <2>3, <2>15, <3>2, <4>1, <4>2
    <3>3. passed'[f] <= sent' /\ passed'[f] = passed[f] + 1
      BY <2>1, <2>3, <3>1
    <3>4. \A g \in 1..f : passed'[f] <= passed'[g]
      BY <2>num, <3>2, <3>3
    <3> QED
      BY <3>3, <3>4 DEF Behind
  <2>17. \A g \in Filters \ {f} : (Behind(g))'
    <3> TAKE g \in Filters \ {f}
    <3>1. passed'[g] <= sent'
      BY <1>1, <2>1, <2>3 DEF Behind
    <3>2. ASSUME NEW h \in 1..g PROVE passed'[g] <= passed'[h]
      <4>1. h \in Filters /\ passed[g] <= passed[h]
        BY <1>0, <1>1 DEF Behind
      <4>2. passed[h] \in Nat /\ passed[g] \in Nat /\ passed'[h] \in {passed[h], passed[h] + 1}
        BY <1>num, <2>3, <4>1
      <4>3. passed'[g] = passed[g]
        BY <2>3
      <4> QED
        BY <4>1, <4>2, <4>3
    <3> QED
      BY <3>1, <3>2 DEF Behind
  <2>18. Filed'
    <3>1. CASE f = N
      <4>1. /\ Len(data[N + 1]) = In(N + 1) /\ Len(data[N + 1]) \in Nat
            /\ \A k \in 1..Len(data[N + 1]) : data[N + 1][k] = k
        BY <1>0, <1>1, <2>num, <3>1 DEF Filed
      <4>i. In(N + 1) = passed[f] /\ (In(N + 1))' = passed[f] + 1
        <5>1. (In(N + 1))' = (In(f + 1))'
          BY <1>0, <3>1 DEF In
        <5> QED
          BY <2>6, <3>1, <5>1
      <4>2. Len(data'[N + 1]) = Len(data[N + 1]) + 1 /\ (In(N + 1))' = In(N + 1) + 1
        BY <2>5, <3>1, <4>i
      <4>3. \A k \in 1..Len(data'[N + 1]) : data'[N + 1][k] = k
        <5> TAKE k \in 1..Len(data'[N + 1])
        <5>1. CASE k \in 1..Len(data[N + 1])
          BY <2>5, <3>1, <4>1, <5>1
        <5>2. CASE k = Len(data[N + 1]) + 1
          BY <2>5, <2>6, <3>1, <4>1, <5>2
        <5> QED
          BY <2>7, <3>1, <4>2, <5>1, <5>2
      <4>4. Len(data'[N + 1]) = (In(N + 1))'
        BY <4>1, <4>2
      <4> QED
        BY <1>0, <4>3, <4>4 DEF Filed
    <3>2. CASE f # N
      <4>1. N + 1 # f + 1 /\ N + 1 \in 1..(N + 1) /\ N \in Filters /\ N # f /\ N + 1 # 1 /\ N + 1 - 1 = N
        BY <1>0, <2>num, <3>2
      <4>2. data'[N + 1] = data[N + 1] /\ (In(N + 1))' = In(N + 1)
        BY <1>0, <2>3, <2>4, <4>1 DEF In
      <4> QED
        BY <1>0, <1>1, <4>2 DEF Filed
    <3> QED
      BY <3>1, <3>2
  <2> QED
    BY <1>0, <2>13, <2>14, <2>16, <2>17, <2>18, FlowParts
<1> QED
  BY <1>4, <1>5, <1>7, <1>8, <1>9, <1>w, <1>11, <1>12 DEF Next, Main, Filter, Terminated

(* A block that main writes to the file itself is there or refused.           *)
LEMMA GapStep ==
  ASSUME Types, SetupInv, GapInv, [Next]_vars PROVE GapInv'
<1>0. Filters = 1..N /\ N' = N /\ N \in Nat /\ sent \in Nat
  BY Fixed DEF Filters, Types
<1>1. ASSUME sent' \in Nat, sent <= sent', refused' = refused, N # 0 PROVE GapInv'
  BY <1>0, <1>1 DEF GapInv
<1>2. ASSUME UNCHANGED <<sent, refused, data>> PROVE GapInv'
  BY <1>0, <1>2 DEF GapInv
<1>3. CASE \/ NoFilters \/ FirstPipe \/ FirstPipeFails \/ CloseEnds \/ NextPipeFails \/ ForkFails
           \/ AllKilled \/ CloseStream \/ Notify \/ Spawn \/ KillNext \/ WaitNext \/ UNCHANGED vars
  BY <1>2, <1>3 DEF NoFilters, FirstPipe, FirstPipeFails, CloseEnds, NextPipeFails, ForkFails,
     AllKilled, CloseStream, Notify, Spawn, KillNext, WaitNext, vars, filters, setup
<1>4. ASSUME NEW f \in Filters, Filter(f) \/ GoesBad(f) PROVE GapInv'
  <2>0. others' = others
    BY <1>4, Zenon DEF Filter, Exec, ExecFails, Reads, Ends, Writes, Sigpipe, GoesBad
  <2>1. N # 0 /\ sent' = sent /\ refused' = refused
    BY <1>0, <2>0 DEF others
  <2> QED
    BY <1>0, <1>1, <2>1
<1>5. CASE WriteStream /\ N # 0
  BY <1>0, <1>1, <1>5 DEF WriteStream
<1>6. ASSUME N = 0 PROVE data[1] \in Seq(1..len) /\ Len(data[1]) \in Nat
  BY <1>0, <1>6 DEF Types, Blocks
<1>7. CASE WriteStream /\ N = 0
  <2> DEFINE d == data[1]
             e == data'[1]
  <2>1. ~Lost /\ sent' = sent + 1 /\ refused' = refused
    BY <1>7 DEF WriteStream, SetupInv, Lost, Broken
  <2>2. e = Append(d, sent + 1)
    BY <1>0, <1>7, <2>1 DEF WriteStream, Types
  <2>3. /\ Len(d) \in Nat /\ Len(e) = Len(d) + 1 /\ e[Len(d) + 1] = sent + 1
        /\ \A j \in 1..Len(d) : e[j] = d[j]
    BY <1>6, <1>7, <2>2, OneMore
  <2>4. /\ refused \subseteq 1..sent /\ \A i, j \in 1..Len(d) : i < j => d[i] < d[j]
        /\ \A b : b \in (1..sent) \ refused <=> \E j \in 1..Len(d) : d[j] = b
        /\ refused = {} => Len(d) = sent /\ \A j \in 1..Len(d) : d[j] = j
    BY <1>7 DEF GapInv
  <2> HIDE DEF d, e
  <2>5. \A j \in 1..Len(d) : d[j] \in 1..sent
    BY <2>4
  <2>6. \A j \in 1..Len(e) : j \in 1..Len(d) \/ j = Len(d) + 1
    BY <2>3
  <2>7. \A i, j \in 1..Len(e) : i < j => e[i] < e[j]
    <3> TAKE i, j \in 1..Len(e)
    <3> HAVE i < j
    <3>1. i \in 1..Len(d)
      BY <2>3
    <3>2. CASE j \in 1..Len(d)
      BY <2>3, <2>4, <3>1, <3>2
    <3>3. CASE j = Len(d) + 1
      BY <1>0, <2>3, <2>5, <3>1, <3>3
    <3> QED
      BY <2>6, <3>2, <3>3
  <2>8. \A b : b \in (1..(sent + 1)) \ refused <=> \E j \in 1..Len(e) : e[j] = b
    <3>1. ASSUME NEW b \in (1..(sent + 1)) \ refused PROVE \E j \in 1..Len(e) : e[j] = b
      <4>1. CASE b = sent + 1
        BY <2>3, <4>1
      <4>2. CASE b # sent + 1
        <5>1. PICK j \in 1..Len(d) : d[j] = b
          BY <1>0, <2>4, <3>1, <4>2
        <5> QED
          BY <2>3, <5>1
      <4> QED
        BY <4>1, <4>2
    <3>2. ASSUME NEW j \in 1..Len(e) PROVE e[j] \in (1..(sent + 1)) \ refused
      <4>1. CASE j \in 1..Len(d)
        BY <1>0, <2>3, <2>4, <4>1
      <4>2. CASE j = Len(d) + 1
        BY <1>0, <2>3, <2>4, <4>2
      <4> QED
        BY <2>6, <4>1, <4>2
    <3> QED
      BY <3>1, <3>2
  <2>9. refused = {} => Len(e) = sent + 1 /\ \A j \in 1..Len(e) : e[j] = j
    BY <2>3, <2>4, <2>6
  <2>10. refused \subseteq 1..(sent + 1)
    BY <1>0, <2>4
  <2> QED
    BY <1>0, <1>7, <2>1, <2>7, <2>8, <2>9, <2>10 DEF GapInv, e
<1>8. CASE WriteFails
  <2>1. N = 0 /\ sent' = sent + 1 /\ refused' = refused \union {sent + 1} /\ data' = data
    BY <1>0, <1>8 DEF WriteFails, SetupInv
  <2>2. refused \subseteq 1..sent
    BY DEF GapInv
  <2>3. (1..(sent + 1)) \ refused' = (1..sent) \ refused /\ refused' \subseteq 1..(sent + 1) /\ refused' # {}
    BY <1>0, <2>1, <2>2
  <2> QED
    BY <1>0, <2>1, <2>3 DEF GapInv
<1> QED
  BY <1>3, <1>4, <1>5, <1>7, <1>8 DEF Next, Main, Terminated

-----------------------------------------------------------------------------
(* No filter passes on more than there is for it.                             *)
LEMMA NotMore ==
  ASSUME Types, FlowInv, NEW f \in Filters
  PROVE  passed[f] <= Upto(f) /\ (chain[f] = "head" => passed[f] <= HeadLen /\ Upto(f) <= HeadLen)
<1>1. /\ HeadLen \in Nat /\ len \in Nat /\ sent \in 0..len /\ f \in 1..N
      /\ \A g \in Filters : passed[g] \in Nat /\ Len(hold[g]) \in Nat
      /\ \A g \in 1..f : g \in Filters
  BY ChainAssumption DEF Types, Filters, Blocks
<1>2. passed[f] <= sent /\ \A g \in 1..f : passed[f] <= passed[g]
  BY DEF FlowInv
<1>3. \A g \in Filters : chain[g] = "head" => passed[g] <= HeadLen
  <2> TAKE g \in Filters
  <2>1. chain[g] = "head" => passed[g] + Len(hold[g]) <= HeadLen
    BY DEF FlowInv
  <2>2. passed[g] \in Nat /\ Len(hold[g]) \in Nat
    BY <1>1
  <2> QED
    BY <1>1, <2>1, <2>2
<1>4. CASE HeadLen < len /\ \E g \in 1..f : chain[g] = "head"
  <2>1. PICK g \in 1..f : chain[g] = "head"
    BY <1>4
  <2>2. passed[f] <= passed[g] /\ passed[g] <= HeadLen /\ passed[f] \in Nat /\ passed[g] \in Nat
    BY <1>1, <1>2, <1>3, <2>1
  <2>3. Upto(f) = HeadLen
    BY <1>4 DEF Upto
  <2> QED
    BY <1>1, <2>2, <2>3
<1>5. CASE ~(HeadLen < len /\ \E g \in 1..f : chain[g] = "head")
  <2>1. Upto(f) = len
    BY <1>5, Zenon DEF Upto
  <2>2. chain[f] = "head" => ~(HeadLen < len) /\ passed[f] <= HeadLen
    BY <1>1, <1>3, <1>5
  <2>3. passed[f] <= len
    BY <1>1, <1>2
  <2> QED
    BY <1>1, <2>1, <2>2, <2>3
<1> QED
  BY <1>4, <1>5

(* A filter that ends well was given all there is, and passed on its share.   *)
LEMMA EndsWell ==
  ASSUME Types, SetupInv, ChildInv, FlowInv, OkInv, NEW f \in Filters, Ends(f)
  PROVE  passed[f] = Upto(f) \/ \E g \in 1..(f - 1) : status[g] \in {"err", "killed"}
<1>1. /\ HeadLen \in Nat /\ len \in Nat /\ f \in 1..N /\ N \in Nat /\ passed[f] \in Nat
      /\ child[f] = "running" /\ hold[f] = <<>> /\ Live(f) /\ dest = "pipe" /\ mpc # "setup"
      /\ mpc \in {"spawn", "forked", "kill", "write", "wait", "end"}
  <2>1. child[f] = "running" /\ hold[f] = <<>> /\ Live(f)
    BY DEF Ends, Live
  <2> QED
    BY <2>1, Waited, ChainAssumption DEF Types, Filters
<1>2. Upto(f) \in Nat /\ passed[f] <= Upto(f) /\ (chain[f] = "head" => Upto(f) <= HeadLen)
  BY <1>1, NotMore DEF Upto
<1>3. CASE Finished(f)
  BY <1>1, <1>2, <1>3 DEF Finished
<1>4. CASE AtEof(f)
  <2>1. passed[f] = In(f)
    <3>1. ~Gone(f) /\ data[f] = <<>>
      BY <1>1, <1>4 DEF Gone, AtEof
    <3>2. passed[f] + Len(hold[f]) + Len(data[f]) = In(f)
      BY <1>1, <3>1 DEF FlowInv
    <3>3. Len(hold[f]) = 0 /\ Len(data[f]) = 0
      BY <1>1, <3>1
    <3> QED
      BY <1>1, <3>2, <3>3
  <2>2. CASE f = 1
    <3>1. W(1) \notin parent
      BY <1>4, <2>2 DEF AtEof, Held
    <3>2. mpc \in {"wait", "end"}
      BY <1>1, <3>1 DEF SetupInv
    <3>3. passed[f] = len
      BY <2>1, <2>2, <3>2 DEF SetupInv, In
    <3>4. Upto(f) <= len
      BY <1>1 DEF Upto
    <3> QED
      BY <1>1, <1>2, <3>3, <3>4
  <2>3. CASE f # 1
    <3> DEFINE e == f - 1
    <3>1. e \in Filters /\ e + 1 = f /\ f > 1 /\ passed[e] \in Nat
      BY <1>1, <2>3 DEF Filters, Types
    <3>2. W(f) \notin ends[e]
      BY <1>4, <3>1 DEF AtEof, Held
    <3>3. child[e] # "none"
      BY <1>1, <3>1 DEF ChildInv
    <3>4. ~Live(e)
      BY <3>1, <3>2 DEF ChildInv, Live
    <3>5. Gone(e)
      BY <3>1, <3>3, <3>4 DEF Gone, Live, Types, States
    <3>6. status[e] \in {"ok", "err", "killed"}
      <4>1. status[e] # "none"
        BY <3>1, <3>5 DEF ChildInv
      <4>2. status[e] # "sigpipe"
        BY <1>1, <3>1 DEF ChildInv, Gone
      <4> QED
        BY <3>1, <4>1, <4>2 DEF Types, Statuses
    <3>7. CASE status[e] \in {"err", "killed"}
      BY <1>1, <3>1, <3>7
    <3>8. CASE status[e] = "ok"
      <4>1. CASE \E g \in 1..(e - 1) : status[g] \in {"err", "killed"}
        BY <1>1, <4>1
      <4>2. CASE passed[e] = Upto(e)
        <5>1. passed[f] = Upto(e)
          BY <2>1, <2>3, <4>2 DEF In
        <5>2. CASE \E g \in 1..e : chain[g] = "head"
          <6>1. \E g \in 1..f : chain[g] = "head"
            BY <1>1, <5>2
          <6>2. Upto(f) = Upto(e)
            BY <5>2, <6>1 DEF Upto
          <6> QED
            BY <5>1, <6>2
        <5>3. CASE ~\E g \in 1..e : chain[g] = "head"
          <6>1. Upto(e) = len
            BY <5>3, Zenon DEF Upto
          <6>2. Upto(f) <= len
            BY <1>1 DEF Upto
          <6> QED
            BY <1>1, <1>2, <5>1, <6>1, <6>2
        <5> QED
          BY <5>2, <5>3
      <4> QED
        BY <3>1, <3>8, <4>1, <4>2 DEF OkInv
    <3> QED
      BY <3>6, <3>7, <3>8
  <2> QED
    BY <2>2, <2>3
<1> QED
  BY <1>3, <1>4 DEF Ends

(* Nothing takes back how a filter ended but err1, which kills them all.      *)
LEMMA OkStep ==
  ASSUME Types, SetupInv, ListInv, ChildInv, FlowInv, OkInv, [Next]_vars PROVE OkInv'
<1>0. /\ Filters' = Filters /\ Filters = 1..N /\ N \in Nat /\ \A f : (Upto(f))' = Upto(f)
      /\ \A f \in Filters : \A g \in 1..(f - 1) : g \in Filters
  BY Fixed DEF Filters, Types, Upto
<1> DEFINE Bad(f) == \E g \in 1..(f - 1) : status[g] \in {"err", "killed"}
<1>1. ASSUME \A f \in Filters : /\ status'[f] = "ok" => status[f] = "ok"
                                /\ status[f] = "ok" => passed'[f] = passed[f]
                                /\ status[f] \in {"err", "killed"} => status'[f] \in {"err", "killed"}
      PROVE  OkInv'
  <2>1. \A f \in Filters : Bad(f) => Bad(f)'
    BY <1>0, <1>1
  <2> HIDE DEF Bad
  <2>2. \A f \in Filters : status'[f] = "ok" => passed'[f] = Upto(f) \/ Bad(f)'
    BY <1>1, <2>1 DEF OkInv, Bad
  <2> QED
    BY <1>0, <2>2 DEF OkInv, Bad
<1>2. CASE \/ NoFilters \/ FirstPipe \/ FirstPipeFails \/ Spawn \/ CloseEnds \/ NextPipeFails
           \/ ForkFails \/ AllKilled \/ WriteStream \/ WriteFails \/ CloseStream \/ WaitNext \/ Notify
           \/ UNCHANGED vars
  <2>1. UNCHANGED <<status, passed>>
    BY <1>2 DEF NoFilters, FirstPipe, FirstPipeFails, Spawn, CloseEnds, NextPipeFails, ForkFails,
       AllKilled, WriteStream, WriteFails, CloseStream, WaitNext, Notify, filters, vars
  <2> QED
    BY <1>1, <2>1
<1>3. CASE KillNext
  <2>1. status' = [status EXCEPT ![Head(list)] = "killed"] /\ passed' = passed
    BY <1>3 DEF KillNext
  <2>2. \A f \in Filters : status'[f] = IF f = Head(list) THEN "killed" ELSE status[f]
    BY <2>1 DEF Types
  <2> QED
    BY <1>1, <2>1, <2>2
<1>4. ASSUME NEW f \in Filters, Exec(f) \/ Reads(f) \/ Writes(f) PROVE OkInv'
  <2>1. status' = status /\ (passed' = passed \/ passed' = [passed EXCEPT ![f] = @ + 1])
    BY <1>4 DEF Exec, Reads, Writes
  <2>2. status[f] = "none"
    BY <1>4 DEF Exec, Reads, Writes, ChildInv, Gone
  <2>3. \A g \in Filters : status[g] = "ok" => passed'[g] = passed[g]
    BY <2>1, <2>2 DEF Types
  <2> QED
    BY <1>1, <2>1, <2>3
<1>5. ASSUME NEW f \in Filters, ExecFails(f) \/ Ends(f) \/ Sigpipe(f) \/ GoesBad(f) PROVE OkInv'
  <2>1. /\ passed' = passed /\ status[f] = "none"
        /\ \E s \in {"ok", "err", "sigpipe"} : status' = [status EXCEPT ![f] = s] /\ (s = "ok" => Ends(f))
    BY <1>5 DEF ExecFails, Ends, Sigpipe, GoesBad, Exits, ChildInv, Gone
  <2>2. PICK s \in {"ok", "err", "sigpipe"} :
          (\A g \in Filters : status'[g] = IF g = f THEN s ELSE status[g]) /\ (s = "ok" => Ends(f))
    BY <2>1 DEF Types
  <2>3. \A g \in Filters : Bad(g) => Bad(g)'
    BY <1>0, <2>1, <2>2
  <2>4. status'[f] = "ok" => passed[f] = Upto(f) \/ Bad(f)
    BY <2>2, EndsWell
  <2> HIDE DEF Bad
  <2>5. \A g \in Filters : status'[g] = "ok" => passed'[g] = Upto(g) \/ Bad(g)'
    BY <2>1, <2>2, <2>3, <2>4 DEF OkInv, Bad
  <2> QED
    BY <1>0, <2>5 DEF OkInv, Bad
<1> QED
  BY <1>2, <1>3, <1>4, <1>5 DEF Next, Main, Filter, Terminated

-----------------------------------------------------------------------------
(* There are no filters yet, and nothing is in any pipe.                      *)
LEMMA InitHolds ==
  ASSUME Init PROVE IndInv
<1>1. PICK n \in 0..MaxFilters : chain \in [1..n -> Kinds]
  BY DEF Init
<1>2. n \in Nat /\ N = n /\ chain \in [1..N -> Kinds] /\ Filters = 1..N
  BY <1>1, ChainAssumption DEF N, Filters
<1>3. /\ len \in Nat /\ named \in BOOLEAN /\ mpc = "setup" /\ cur = 1 /\ dest = "file"
      /\ parent = {W(N + 1)} /\ list = <<>> /\ sent = 0 /\ opened = FALSE /\ notified = FALSE
      /\ logged = {} /\ data = [i \in 1..(N + 1) |-> <<>>] /\ child = [f \in Filters |-> "none"]
      /\ status = [f \in Filters |-> "none"] /\ ends = [f \in Filters |-> {}]
      /\ hold = [f \in Filters |-> <<>>] /\ passed = [f \in Filters |-> 0]
  BY ChainAssumption DEF Init
<1>4. <<>> \in Blocks /\ <<>> \in Lists /\ Len(<<>>) = 0 /\ PipeCap \in Nat
  BY ChainAssumption DEF Blocks, Lists
<1>5. Types
  <2>1. parent \subseteq PipeEnds /\ cur \in 1..(N + 1)
    BY <1>2, <1>3 DEF PipeEnds
  <2>2. data \in [1..(N + 1) -> Blocks] /\ \A i \in 1..N : Len(data[i]) <= PipeCap
    BY <1>2, <1>3, <1>4
  <2>3. hold \in [Filters -> Blocks] /\ \A f \in Filters : Len(hold[f]) <= 1
    BY <1>3, <1>4
  <2>4. /\ child \in [Filters -> States] /\ status \in [Filters -> Statuses]
        /\ ends \in [Filters -> SUBSET PipeEnds] /\ passed \in [Filters -> Nat]
    BY <1>3 DEF States, Statuses
  <2>5. sent \in 0..len
    BY <1>3
  <2> QED
    BY <1>2, <1>3, <1>4, <2>1, <2>2, <2>3, <2>4, <2>5 DEF Types
<1>6. SetupInv
  BY <1>2, <1>3 DEF SetupInv
<1>7. ListInv
  BY <1>3, <1>4 DEF ListInv
<1>8. ChildInv
  BY <1>3 DEF ChildInv, Gone
<1>9. FlowInv
  <2>1. HeadLen \in Nat /\ \A f \in Filters : f \in 1..(N + 1) /\ (f # 1 => f - 1 \in Filters)
    BY <1>2, ChainAssumption
  <2>2. \A f \in Filters : In(f) = 0 /\ data[f] = <<>> /\ hold[f] = <<>> /\ passed[f] = 0
    BY <1>3, <2>1 DEF In
  <2>3. In(N + 1) = 0 /\ data[N + 1] = <<>>
    BY <1>2, <1>3 DEF In
  <2>4. \A g \in Nat : \A f \in Filters : g \in 1..f => g \in Filters
    BY <1>2
  <2>5. Filed
    BY <1>4, <2>3 DEF Filed
  <2>6. \A f \in Filters : Carries(f)
    BY <1>4, <2>2 DEF Carries
  <2>7. \A f \in Filters : Short(f)
    BY <1>4, <2>1, <2>2 DEF Short
  <2>8. \A f \in Filters : Behind(f)
    BY <1>2, <1>3, <2>2 DEF Behind
  <2> QED
    BY <2>5, <2>6, <2>7, <2>8, FlowParts
<1>10. OkInv
  BY <1>3 DEF OkInv
<1>11. GapInv
  <2>1. refused = {} /\ (N = 0 => data[1] = <<>>)
    BY <1>2, <1>3 DEF Init
  <2> QED
    BY <1>3, <1>4, <2>1 DEF GapInv
<1> QED
  BY <1>5, <1>6, <1>7, <1>8, <1>9, <1>10, <1>11 DEF IndInv

(* The inductive invariant, which holds whatever main and the filters do.     *)
THEOREM Invariance == Spec => []IndInv
<1>1. IndInv /\ [Next]_vars => IndInv'
  BY TypesStep, SetupStep, ListStep, ChildStep, FlowStep, GapStep, OkStep DEF IndInv
<1> QED
  BY <1>1, InitHolds, PTL DEF Spec

(* Every variable keeps its type, no pipe is over its capacity, and a filter  *)
(* that runs holds the ends of its own two pipes and no others.               *)
THEOREM TypeCorrect == Spec => []TypeOK
<1>1. IndInv => TypeOK
  <2> SUFFICES ASSUME IndInv PROVE TypeOK
    OBVIOUS
  <2>1. Types
    BY DEF IndInv
  <2>2. \A f \in Filters : child[f] = "running" => ends[f] = {R(f), W(f + 1)}
    BY DEF IndInv, ChildInv
  <2>3. \A f \in Filters : Len(hold[f]) <= 1 /\ passed[f] <= len
    <3> TAKE f \in Filters
    <3>1. passed[f] <= sent /\ sent \in 0..len /\ passed[f] \in Nat /\ len \in Nat
      BY DEF IndInv, FlowInv, Types
    <3> QED
      BY <2>1, <3>1 DEF Types
  <2>4. \A i \in 1..(N + 1) : data[i] \in Seq(1..len) /\ (i <= N => Len(data[i]) <= PipeCap)
    BY <2>1 DEF Types, Blocks
  <2>5. list \in Seq(Filters) /\ parent \subseteq {R(i) : i \in Filters} \union {W(i) : i \in 1..(N + 1)}
    BY <2>1, Zenon DEF Types, Lists, PipeEnds
  <2>6. /\ child \in [Filters -> {"none", "forked", "running", "exited", "reaped"}]
        /\ status \in [Filters -> {"none", "ok", "err", "sigpipe", "killed"}]
    BY <2>1, Zenon DEF Types, States, Statuses
  <2>7. refused \subseteq 1..sent
    BY DEF IndInv, GapInv
  <2> QED
    BY <2>1, <2>2, <2>3, <2>4, <2>5, <2>6, <2>7 DEF Types, TypeOK
<1> QED
  BY <1>1, Invariance, PTL

(* What is in the file, in the order it is there, when it refused nothing.    *)
LEMMA FileHolds ==
  ASSUME IndInv
  PROVE  /\ data[N + 1] \in Seq(Nat) /\ Through \in Seq(Nat)
         /\ In(N + 1) \in Nat /\ In(N + 1) <= Upto(N)
         /\ Len(Through) = Upto(N) /\ Upto(N) \in Nat
         /\ \A j \in 1..Len(Through) : Through[j] = j
         /\ refused = {} => /\ Len(data[N + 1]) = In(N + 1)
                            /\ \A j \in 1..Len(data[N + 1]) : data[N + 1][j] = j
<1>1. N \in Nat /\ Filters = 1..N /\ len \in Nat /\ HeadLen \in Nat /\ sent \in 0..len
  BY ChainAssumption DEF IndInv, Types, Filters
<1>2. Upto(N) \in Nat
  BY <1>1 DEF Upto
<1>3. Through \in Seq(Nat) /\ Len(Through) = Upto(N) /\ \A j \in 1..Len(Through) : Through[j] = j
  <2> DEFINE n == Upto(N)
  <2>1. Through = [k \in 1..n |-> k]
    BY DEF Through
  <2> HIDE DEF n
  <2>2. n \in Nat
    BY <1>2 DEF n
  <2>3. Through \in Seq(Nat) /\ Len(Through) = n /\ \A j \in 1..n : Through[j] = j
    BY <2>1, <2>2
  <2> QED
    BY <2>3 DEF n
<1>4. refused = {} => /\ Len(data[N + 1]) = In(N + 1)
                      /\ \A j \in 1..Len(data[N + 1]) : data[N + 1][j] = j
  <2>1. CASE N = 0
    <3>1. N + 1 = 1 /\ In(1) = sent
      BY <2>1 DEF In
    <3> QED
      BY <2>1, <3>1 DEF IndInv, GapInv
  <2>2. CASE N # 0
    BY <2>2 DEF IndInv, FlowInv
  <2> QED
    BY <2>1, <2>2
<1>5. data[N + 1] \in Seq(Nat) /\ Len(data[N + 1]) \in Nat
  <2>1. data[N + 1] \in Seq(1..len)
    BY <1>1 DEF IndInv, Types, Blocks
  <2>2. \A j \in 1..Len(data[N + 1]) : data[N + 1][j] \in Nat
    <3>1. \A k \in 1..len : k \in Nat
      BY <1>1
    <3> QED
      BY <2>1, <3>1, ElementOfSeq
  <2> QED
    BY <2>1, <2>2
<1>6. In(N + 1) \in Nat /\ In(N + 1) <= Upto(N)
  <2>1. CASE N = 0
    <3>1. Upto(N) = len /\ In(N + 1) = sent
      BY <1>1, <2>1 DEF Upto, In
    <3> QED
      BY <1>1, <3>1
  <2>2. CASE N # 0
    <3>1. N \in Filters /\ In(N + 1) = passed[N]
      BY <1>1, <2>2 DEF In
    <3>2. passed[N] \in Nat
      BY <3>1 DEF IndInv, Types
    <3> QED
      BY <3>1, <3>2, NotMore DEF IndInv
  <2> QED
    BY <2>1, <2>2
<1> QED
  BY <1>2, <1>3, <1>4, <1>5, <1>6

(* Two sequences that count up to the same are the same.                      *)
LEMMA CountSame ==
  ASSUME NEW s \in Seq(Nat), NEW t \in Seq(Nat), Len(s) = Len(t),
         \A j \in 1..Len(s) : s[j] = j, \A j \in 1..Len(t) : t[j] = j
  PROVE  s = t
BY SeqEqual

(* Whatever fails, the file holds a beginning of what the shell pipe of the   *)
(* same filters would have written, less exactly the blocks it refused.       *)
THEOREM NothingStrange == Spec => []FilePrefix
<1>1. IndInv => FilePrefix
  <2> SUFFICES ASSUME IndInv PROVE FilePrefix
    OBVIOUS
  <2> DEFINE d == data[N + 1]
             n == In(N + 1)
  <2>1. d \in Seq(Nat) /\ n \in 0..Upto(N) /\ N \in Nat
    BY FileHolds DEF IndInv, Types
  <2>2. /\ \A i, j \in 1..Len(d) : i < j => d[i] < d[j]
        /\ \A b : b \in (1..n) \ refused <=> \E j \in 1..Len(d) : d[j] = b
    <3>1. CASE N = 0
      <4>1. N + 1 = 1 /\ n = sent
        BY <3>1 DEF In
      <4> QED
        BY <3>1, <4>1 DEF IndInv, GapInv
    <3>2. CASE N # 0
      <4>1. refused = {} /\ Len(d) = n /\ \A j \in 1..Len(d) : d[j] = j
        BY <3>2, FileHolds DEF IndInv, GapInv
      <4> QED
        BY <2>1, <4>1
    <3> QED
      BY <3>1, <3>2
  <2> HIDE DEF d, n
  <2>3. DOMAIN d = 1..Len(d)
    BY <2>1
  <2>4. Range(d) = (1..n) \ refused
    BY <2>2, <2>3 DEF Range
  <2>5. \A i, j \in DOMAIN d : i < j => d[i] < d[j]
    BY <2>2, <2>3
  <2> QED
    BY <2>1, <2>4, <2>5 DEF FilePrefix, d
<1> QED
  BY <1>1, Invariance, PTL

(* A file that lacks more than what it refused itself, or is named though it  *)
(* was not opened, is reported at a level that ends in the return value.      *)
THEOREM NoSilentLoss == Spec => []LossReported
<1>1. IndInv => LossReported
  <2> SUFFICES ASSUME IndInv, mpc = "end", ~Severe
               PROVE  (refused = {} => data[N + 1] = Through) /\ opened
    BY DEF LossReported, Severe
  <2>1. opened /\ dest = (IF N = 0 THEN "file" ELSE "pipe") /\ sent = len /\ list = <<>>
    BY DEF IndInv, SetupInv
  <2>2. In(N + 1) = Upto(N)
    <3>1. CASE N = 0
      BY <2>1, <3>1 DEF In, Upto
    <3>2. CASE N # 0
      <4>1. Filters = 1..N /\ N \in Nat /\ N \in Filters /\ In(N + 1) = passed[N]
        BY <3>2 DEF IndInv, Types, Filters, In
      <4>2. \A f \in Filters : child[f] = "reaped"
        BY <2>1 DEF IndInv, SetupInv, ListInv
      <4>3. \A f \in Filters : status[f] \in {"ok", "sigpipe"} /\ (status[f] = "sigpipe" => f < N)
        <5> TAKE f \in Filters
        <5>1. status[f] # "none" /\ status[f] # "killed" /\ (status[f] = "sigpipe" => f < N)
          BY <2>1, <4>2 DEF IndInv, ChildInv, Gone
        <5>2. status[f] # "err"
          BY <4>2 DEF IndInv, ChildInv, Severe
        <5> QED
          BY <5>1, <5>2 DEF IndInv, Types, Statuses
      <4>4. status[N] = "ok"
        BY <4>1, <4>3
      <4>5. \A g \in 1..(N - 1) : status[g] \notin {"err", "killed"}
        BY <4>1, <4>3
      <4> QED
        BY <4>1, <4>4, <4>5 DEF IndInv, OkInv
    <3> QED
      BY <3>1, <3>2
  <2> QED
    BY <2>1, <2>2, FileHolds, CountSame
<1> QED
  BY <1>1, Invariance, PTL

(* When the notify commands are started every child there was is reaped.      *)
THEOREM NoneLeft == Spec => []AllReaped
<1>1. IndInv => AllReaped
  <2> SUFFICES ASSUME IndInv, mpc = "end", NEW f \in Filters PROVE child[f] \in {"none", "reaped"}
    BY DEF AllReaped
  <2>1. list = <<>>
    BY DEF IndInv, SetupInv
  <2>2. ~\E j \in 1..Len(list) : list[j] = f
    BY <2>1
  <2> QED
    BY <2>2 DEF IndInv, ListInv
<1> QED
  BY <1>1, Invariance, PTL
=============================================================================
