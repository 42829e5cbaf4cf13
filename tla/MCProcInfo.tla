----------------------------- MODULE MCProcInfo -----------------------------
(* ProcInfo with one option for each parser, and a process of three threads   *)
(* in a namespace of its own.                                                 *)
EXTENDS ProcInfo, TLC

MCParser ==
  ("proc_ignore" :> "enum") @@ ("proc_path" :> "string") @@ ("proc_exe" :> "string")
    @@ ("proc_maps" :> "mapping_multi") @@ ("core_filter" :> "string_multi")
    @@ ("core_exists_seq" :> "int")
MCGiven ==
  ("proc_ignore" :> {0, 1}) @@ ("proc_path" :> {1}) @@ ("proc_exe" :> {1})
    @@ ("proc_maps" :> {1}) @@ ("core_filter" :> {1, 2}) @@ ("core_exists_seq" :> {9})
MCNsPid == (11 :> 1) @@ (12 :> 2) @@ (13 :> 3)
MCProcLines == <<[exec |-> TRUE, val |-> 7], [exec |-> FALSE, val |-> 8], [exec |-> TRUE, val |-> 9]>>
=============================================================================
