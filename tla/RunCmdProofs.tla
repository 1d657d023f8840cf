----------------------------- MODULE RunCmdProofs ------------------------------
(***************************************************************************)
(* The safety properties of RunCmd, for every limit.                       *)
(***************************************************************************)
EXTENDS RunCmd, TLAPS

(* Where runCmd is says how far the process and the goroutine of os/exec     *)
(* are. The process is reaped before the output is waited for, and then      *)
(* nobody can kill it any more.                                              *)
ProcessFollows ==
  /\ main = "start" => /\ child = "none" /\ watcher = "none" /\ canceller = "none"
                       /\ status = "none" /\ err = "none" /\ now = 0
  /\ main = "wait" => child \in {"running", "exited"}
  /\ main \in {"handover", "drain", "scan"} => child = "reaped"
  /\ main = "returned" => child = "reaped" \/ (child = "none" /\ err = "start")
  /\ watcher \in {"watching", "delay"} => main \in {"wait", "handover"}
  /\ status = "none" <=> child \in {"none", "running"}

(* Until runCmd returns, the context can only have ended at the deadline.    *)
ContextEnds ==
  /\ ctx = "deadline" => now >= Limit
  /\ ctx = "canceled" => main = "returned"

(* The WaitDelay begins no later than the deadline, and ends no earlier.     *)
DelayInTime ==
  /\ main \in {"start", "wait", "handover"} => now <= Limit
  /\ watcher = "delay" \/ main = "drain" => timer >= Limit /\ timer <= Limit + Limit
  /\ main = "drain" => now <= timer

(* What each error, and each end of the process, says about the time.        *)
ErrorsTold ==
  /\ status = "killed" => now >= Limit
  /\ err = "exit" => status \in {"failed", "killed"}
  /\ err \in {"deadline", "waitdelay"} => now >= Limit
  /\ cut => err # "none"
  /\ main \in {"handover", "drain", "scan", "returned"} /\ err = "none" => status = "ok"

OutputSettled == SettledOutput /\ (main = "start" => ~copying)

IInv ==
  /\ TypeOK
  /\ ProcessFollows /\ ContextEnds /\ DelayInTime /\ ErrorsTold /\ OutputSettled
  /\ ReturnsInTime

-------------------------------------------------------------------------------

LEMMA InitIInv == Init => IInv
<1> SUFFICES ASSUME Init PROVE IInv
  OBVIOUS
<1> USE LimitAssumption DEF Init
<1>1. TypeOK
  <2>1. held \in BOOLEAN /\ copying \in BOOLEAN /\ cut \in BOOLEAN /\ logged \in BOOLEAN
    OBVIOUS
  <2> QED BY <2>1 DEF TypeOK
<1>2. ProcessFollows /\ ContextEnds /\ DelayInTime
  BY DEF ProcessFollows, ContextEnds, DelayInTime
<1>3. ErrorsTold /\ OutputSettled /\ ReturnsInTime
  BY DEF ErrorsTold, OutputSettled, SettledOutput, ReturnsInTime
<1> QED BY <1>1, <1>2, <1>3 DEF IInv

(* The steps of the process, of its output and of the clock. *)
LEMMA OutsideIInv ==
  ASSUME IInv, Exit \/ Release \/ CopyEnds \/ Deadline \/ Tick
  PROVE  IInv'
<1> USE LimitAssumption DEF IInv, TypeOK, ProcessFollows, ContextEnds, DelayInTime, ErrorsTold,
        OutputSettled, SettledOutput, ReturnsInTime, processVars, outputVars
<1>1. CASE Exit      BY <1>1 DEF Exit
<1>2. CASE Release
  <2>1. held' \in BOOLEAN
    BY <1>2 DEF Release
  <2> QED BY <1>2, <2>1 DEF Release
<1>3. CASE CopyEnds
  <2>1. copying' \in BOOLEAN
    BY <1>3 DEF CopyEnds
  <2> QED BY <1>3, <2>1 DEF CopyEnds
<1>4. CASE Deadline  BY <1>4 DEF Deadline
<1>5. CASE Tick      BY <1>5 DEF Tick
<1> QED BY <1>1, <1>2, <1>3, <1>4, <1>5

(* The steps of runCmd. *)
LEMMA MainIInv ==
  ASSUME IInv, Main
  PROVE  IInv'
<1> USE LimitAssumption DEF IInv, TypeOK, ProcessFollows, ContextEnds, DelayInTime, ErrorsTold,
        OutputSettled, SettledOutput, ReturnsInTime, processVars, outputVars
<1>1. CASE StartFails     BY <1>1 DEF StartFails
<1>2. CASE Start          BY <1>2 DEF Start, WaitFirst, NotYet
<1>3. CASE Reap           BY <1>3 DEF Reap
<1>4. CASE HandOver       BY <1>4 DEF HandOver, WaitDelay
<1>5. CASE HandOverTimer  BY <1>5 DEF HandOverTimer
<1>6. CASE DrainEnds      BY <1>6 DEF DrainEnds
<1>7. CASE DrainExpires
  <2>1. copying' \in BOOLEAN /\ cut' \in BOOLEAN
    BY <1>7 DEF DrainExpires
  <2> QED BY <1>7, <2>1 DEF DrainExpires
<1>8. CASE Finish         BY <1>8 DEF Finish, WaitError
<1> QED BY <1>1, <1>2, <1>3, <1>4, <1>5, <1>6, <1>7, <1>8 DEF Main

(* The steps of the goroutines that wait for the context to end. *)
LEMMA CancelIInv ==
  ASSUME IInv, WatcherCancels \/ Canceller
  PROVE  IInv'
<1> USE LimitAssumption DEF IInv, TypeOK, ProcessFollows, ContextEnds, DelayInTime, ErrorsTold,
        OutputSettled, SettledOutput, ReturnsInTime, processVars, outputVars
<1>1. CASE WatcherCancels BY <1>1 DEF WatcherCancels, Killed, WaitDelay
<1>2. CASE Cancel         BY <1>2 DEF Cancel, Killed
<1>3. CASE LogTimeout     BY <1>3 DEF LogTimeout, TimedOut
<1> QED BY <1>1, <1>2, <1>3 DEF Canceller

LEMMA NextIInv ==
  ASSUME IInv, [Next]_vars
  PROVE  IInv'
<1>1. CASE Exit \/ Release \/ CopyEnds \/ Deadline \/ Tick  BY <1>1, OutsideIInv
<1>2. CASE Main                                             BY <1>2, MainIInv
<1>3. CASE WatcherCancels \/ Canceller                      BY <1>3, CancelIInv
<1>4. CASE UNCHANGED vars
  BY <1>4 DEF vars, IInv, TypeOK, ProcessFollows, ContextEnds, DelayInTime, ErrorsTold,
     OutputSettled, SettledOutput, ReturnsInTime
<1> QED BY <1>1, <1>2, <1>3, <1>4 DEF Next, Terminated

(* The inductive invariant holds throughout. *)
THEOREM Invariance == Spec => []IInv
  BY InitIInv, NextIInv, PTL DEF Spec

(* Types and ranges, with them the ticks: see TypeOK of RunCmd.              *)
THEOREM TypeCorrect == Spec => []TypeOK
<1>1. IInv => TypeOK  BY DEF IInv
<1> QED BY <1>1, Invariance, PTL

(* runCmd takes no longer than the deadline and the WaitDelay (main.go:187-195). *)
THEOREM InTime == Spec => []ReturnsInTime
<1>1. IInv => ReturnsInTime  BY DEF IInv
<1> QED BY <1>1, Invariance, PTL

(* Nobody writes to the buffers that are read (main.go:217-220). *)
THEOREM OutputIsSettled == Spec => []SettledOutput
<1>1. IInv => SettledOutput  BY DEF IInv, OutputSettled
<1> QED BY <1>1, Invariance, PTL

(* nil is returned only for a command that succeeded, with its whole output  *)
(* (main.go:217-227).                                                        *)
THEOREM SuccessTold == Spec => []SuccessIsComplete
<1>1. IInv => SuccessIsComplete  BY DEF IInv, ErrorsTold, SuccessIsComplete
<1> QED BY <1>1, Invariance, PTL

(* An error has its cause in the command or in the time (main.go:187-217). *)
THEOREM FailureTold == Spec => []FailureHasCause
<1>1. IInv => FailureHasCause
  BY DEF IInv, TypeOK, ErrorsTold, FailureHasCause
<1> QED BY <1>1, Invariance, PTL

===============================================================================
