----------------------------- MODULE SpawnArgs -----------------------------
(***************************************************************************)
(* The argument vector that the child of spawn_proc() (main.c) builds from  *)
(* a command: filters get no file names, <stream>_notify gets one and       *)
(* info_core_notify two.  One action is one turn of the loop.               *)
(***************************************************************************)
EXTENDS Integers, Sequences

CONSTANTS
  MaxWords,     \* the words of a command
  Slots         \* ARRAY_SIZE(argv), 32 in the code

NULL == "NULL"
Words == {"word", "@1", "@2"}

VARIABLES
  cmd,            \* the words of the command after its name
  arg1, arg2,     \* NULL, or a file name
  i, argv, pc
vars == <<cmd, arg1, arg2, i, argv, pc>>

Init ==
  /\ \E n \in 0..MaxWords : cmd \in [1..n -> Words]
  /\ arg1 \in {NULL, "file1"} /\ arg2 \in {NULL, "file2"}
  /\ arg2 # NULL => arg1 # NULL
  /\ i = 1 /\ argv = [k \in 1..(Slots - 1) |-> NULL] /\ pc = "loop"

Token == IF i <= Len(cmd) THEN cmd[i] ELSE NULL      \* strtok

Compares == arg1 # NULL \/ arg2 # NULL

(* strcmp is not 0 for words that differ.                                     *)
Chosen ==
  IF arg1 # NULL /\ Token # "@1" THEN arg1
  ELSE IF arg2 # NULL /\ Token # "@2" THEN arg2
  ELSE Token

Turn ==
  /\ pc = "loop" /\ i < Slots - 1
  /\ ~(Token = NULL /\ Compares)
  /\ argv' = [argv EXCEPT ![i] = Chosen]
  /\ i' = i + 1
  /\ UNCHANGED <<cmd, arg1, arg2, pc>>

(* strcmp(NULL, ..) at the end of the command.                                *)
Crash ==
  /\ pc = "loop" /\ i < Slots - 1
  /\ Token = NULL /\ Compares
  /\ pc' = "killed"
  /\ UNCHANGED <<cmd, arg1, arg2, i, argv>>

Exec ==
  /\ pc = "loop" /\ i = Slots - 1
  /\ argv' = [argv EXCEPT ![i] = NULL]
  /\ pc' = "exec"
  /\ UNCHANGED <<cmd, arg1, arg2, i>>

Terminated == pc # "loop" /\ UNCHANGED vars

Next == Turn \/ Crash \/ Exec \/ Terminated

Spec == Init /\ [][Next]_vars

(* crashinfo.1:157-158 and 173-175: isolated occurrences of @1 and @2 are     *)
(* replaced with the file names, the other words are left alone.              *)
Documented(w) ==
  IF w = "@1" /\ arg1 # NULL THEN arg1 ELSE IF w = "@2" /\ arg2 # NULL THEN arg2 ELSE w

NamesReplaced ==
  \A k \in 1..(i - 1) :
    argv[k] = IF k <= Len(cmd) THEN Documented(cmd[k]) ELSE NULL
=============================================================================
