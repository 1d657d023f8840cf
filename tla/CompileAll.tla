------------------------------ MODULE CompileAll ------------------------------
(***************************************************************************)
(* What compilePlugins of cmd/xrc-gen/main.go promises, without its        *)
(* workers, channels and WaitGroup: every composition gets exactly one     *)
(* verdict, and once all of them have one the caller receives the          *)
(* compositions whose verdict is "compiled", and no other.                 *)
(***************************************************************************)

CONSTANT Tasks        \* the compositions to compile

VARIABLES
  verdict,            \* verdict[t]: "pending" until t is compiled or has failed
  returned,           \* has compilePlugins returned?
  result              \* the compositions it returned

vars == <<verdict, returned, result>>

Verdicts == {"compiled", "failed"}

TypeOK ==
  /\ verdict \in [Tasks -> Verdicts \cup {"pending"}]
  /\ returned \in BOOLEAN
  /\ result \in SUBSET Tasks

Init ==
  /\ verdict = [t \in Tasks |-> "pending"]
  /\ returned = FALSE
  /\ result = {}

(* One composition gets its verdict; a verdict is never revised. *)
Decide(t) ==
  /\ verdict[t] = "pending"
  /\ \E v \in Verdicts : verdict' = [verdict EXCEPT ![t] = v]
  /\ UNCHANGED <<returned, result>>

(* The call returns, not before the last verdict. *)
Return ==
  /\ ~returned
  /\ \A t \in Tasks : verdict[t] # "pending"
  /\ returned' = TRUE
  /\ result' = {t \in Tasks : verdict[t] = "compiled"}
  /\ UNCHANGED verdict

Next == Return \/ \E t \in Tasks : Decide(t)

Spec == Init /\ [][Next]_vars

FairSpec == Spec /\ WF_vars(Next)

===============================================================================
