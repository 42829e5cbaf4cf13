----------------------------- MODULE Numbering -----------------------------
(***************************************************************************)
(* What <stream>_exists = sequence promises to runs of crashinfo that write *)
(* to the same place at the same time: as if each of them, in one step,     *)
(* took the first number that is free, and then alone wrote to its file; a  *)
(* run is refused only when all the numbers are taken.                      *)
(***************************************************************************)
EXTENDS Integers, Sequences, FiniteSets

CONSTANTS Runs, Limits, Old

VARIABLES limit, store, own
vars == <<limit, store, own>>

Unset   == -1
Refused == -2

Init ==
  /\ limit \in Limits
  /\ \E k \in 0..Old : store = [n \in 0..(k - 1) |-> <<"old">>]
  /\ own = [r \in Runs |-> Unset]

FirstFree == Cardinality(DOMAIN store)

Claim(r) ==
  /\ own[r] = Unset
  /\ limit <= 0 \/ FirstFree < limit
  /\ own' = [own EXCEPT ![r] = FirstFree]
  /\ store' = [n \in DOMAIN store \union {FirstFree} |->
                 IF n \in DOMAIN store THEN store[n] ELSE <<>>]
  /\ UNCHANGED limit

Refuse(r) ==
  /\ own[r] = Unset
  /\ limit > 0 /\ FirstFree >= limit
  /\ own' = [own EXCEPT ![r] = Refused]
  /\ UNCHANGED <<limit, store>>

Put(r) ==
  /\ own[r] >= 0
  /\ store' = [store EXCEPT ![own[r]] = Append(@, r)]
  /\ UNCHANGED <<limit, own>>

Next == \E r \in Runs : Claim(r) \/ Refuse(r) \/ Put(r)

Spec == Init /\ [][Next]_vars
=============================================================================
