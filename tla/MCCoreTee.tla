----------------------------- MODULE MCCoreTee -----------------------------
(* Values of the constants of CoreTee that a configuration cannot write.      *)
EXTENDS CoreTee

MCPids  == {NoPid, OptPid}
MCConfs == [ignore : BOOLEAN, path : BOOLEAN, exe : BOOLEAN]
MCNamed == {[ignore |-> FALSE, path |-> FALSE, exe |-> TRUE]}
=============================================================================
