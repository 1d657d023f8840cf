-------------------------------- MODULE Publish --------------------------------
(***************************************************************************)
(* What a run of xrc-gen promises about the files under apis/: it prepares *)
(* all compositions first, then commits to those that did not fail, in     *)
(* some order, and writes them one by one. XrcGen implements it.           *)
(***************************************************************************)
EXTENDS Sequences, SequencesExt

CONSTANTS
  Tasks,              (* The compositions.                                   *)
  OutFile,            (* OutFile[t]: the file of composition t.              *)
  NoFile, Old, Torn   (* What a file holds if not a composition of this run. *)

VARIABLES
  phase,              (* "prepare", "write" or "done".                       *)
  todo,               (* The compositions to be written, in order.           *)
  files,              (* Whose composition each file holds.                  *)
  logged              (* The compositions an error was logged for.           *)

vars == <<phase, todo, files, logged>>

Init ==
  /\ phase = "prepare"
  /\ todo = <<>>
  /\ files \in [{OutFile[t] : t \in Tasks} -> {NoFile, Old}]
  /\ logged = {}

(* Some fail; the others go on. *)
Fail ==
  /\ phase = "prepare"
  /\ \E S \in SUBSET (Tasks \ logged) : logged' = logged \cup S
  /\ UNCHANGED <<phase, todo, files>>

(* The run ends with every file as it was. *)
Abort ==
  /\ phase = "prepare"
  /\ phase' = "done"
  /\ \E t \in Tasks : logged' \in {logged, logged \cup {t}}
  /\ UNCHANGED <<todo, files>>

Commit ==
  /\ phase = "prepare"
  /\ phase' = "write"
  /\ todo' \in SetToSeqs(Tasks \ logged)
  /\ UNCHANGED <<files, logged>>

Put ==
  /\ phase = "write" /\ todo # <<>>
  /\ files' = [files EXCEPT ![OutFile[Head(todo)]] = Head(todo)]
  /\ todo' = Tail(todo)
  /\ UNCHANGED <<phase, logged>>

(* The file is left as it is or torn, and the run ends there. *)
PutFails ==
  /\ phase = "write" /\ todo # <<>>
  /\ files' \in {files, [files EXCEPT ![OutFile[Head(todo)]] = Torn]}
  /\ logged' = logged \cup {Head(todo)}
  /\ phase' = "done" /\ todo' = <<>>

Finish ==
  /\ phase = "write" /\ todo = <<>>
  /\ phase' = "done"
  /\ UNCHANGED <<todo, files, logged>>

Next == Fail \/ Abort \/ Commit \/ Put \/ PutFails \/ Finish

Spec == Init /\ [][Next]_vars

===============================================================================
