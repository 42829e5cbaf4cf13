---------------------------- MODULE MCDescriptors ----------------------------
(* Descriptors as TLC checks it: the configuration gives all the constants.   *)
EXTENDS Descriptors
=============================================================================
