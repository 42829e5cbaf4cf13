------------------------------ MODULE MCExpand ------------------------------
(* Expand with executables given with and without a directory, and with a     *)
(* slash at the end.                                                          *)
EXTENDS Expand

MCExes == {<<"/", "a">>, <<"/", "a", "/", "b", "c">>, <<"c", "d">>, <<"a", "/">>}
MCPid  == <<"4", "2", "1">>

(* main.c:124 as it is written, for comparison with IntLen.                   *)
intlen[n \in Nat] == IF n < 10 THEN 1 ELSE 1 + intlen[n \div 10]

ASSUME IntLenIsIntlen ==
  \A n \in (0..1100) \union UNION {{Power[k] - 1, Power[k]} : k \in 1..10} \union {MaxInt} :
    IntLen(n) = intlen[n]
=============================================================================
