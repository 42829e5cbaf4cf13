---------------------------- MODULE MCOpenOutput ----------------------------
(* Values of the constants of OpenOutput that a configuration cannot write.   *)
EXTENDS OpenOutput

Conf(e, s, m, q) == [exists |-> e, seq |-> s, mkdir |-> m, mark |-> q]

MCAllConfs ==
  {Conf(e, 0, TRUE, "none") : e \in Modes \ {"sequence"}}
    \union {Conf("sequence", s, TRUE, q) : s \in {0, 2}, q \in Marks}
    \union {Conf("append", 0, FALSE, "none"), Conf("sequence", 2, FALSE, "file")}
=============================================================================
