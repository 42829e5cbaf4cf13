------------------------------ MODULE MCInfoLog ------------------------------
(* InfoLog as TLC checks it: the configurations give all the constants.       *)
EXTENDS InfoLog
=============================================================================
