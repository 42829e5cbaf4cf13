---------------------------- MODULE MCFilterChain ----------------------------
(* FilterChain as TLC checks it: the configurations give all the constants.   *)
EXTENDS FilterChain
=============================================================================
