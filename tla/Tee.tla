-------------------------------- MODULE Tee --------------------------------
(***************************************************************************)
(* What one run of crashinfo promises about the core it reads: the core    *)
(* output and the unwinder each get growing prefixes of it, the unwinder   *)
(* is never more than one buffer ahead of the output, and a run that ends  *)
(* well has written the whole core.                                        *)
(***************************************************************************)
EXTENDS Integers, Sequences

CONSTANTS Sizes, Ahead      \* the possible lengths; the blocks in main's buffer

VARIABLES size, core, fed, status
vars == <<size, core, fed, status>>

Prefix(n) == [k \in 1..n |-> k]

Init ==
  /\ size \in Sizes
  /\ core = <<>> /\ fed = <<>> /\ status = "running"

Write ==
  /\ status = "running"
  /\ \E n \in 0..size : n > Len(core) /\ core' = Prefix(n)
  /\ UNCHANGED <<size, fed, status>>

Feed ==
  /\ status = "running"
  /\ Len(fed) < size
  /\ Len(fed) < Len(core) \/ Len(fed) < Ahead
  /\ fed' = Append(fed, Len(fed) + 1)
  /\ UNCHANGED <<size, core, status>>

Finish ==
  /\ status = "running"
  /\ core = Prefix(size)
  /\ status' = "done"
  /\ UNCHANGED <<size, core, fed>>

Fail ==
  /\ status = "running"
  /\ status' = "failed"
  /\ UNCHANGED <<size, core, fed>>

Next == Write \/ Feed \/ Finish \/ Fail

Spec == Init /\ [][Next]_vars
=============================================================================
