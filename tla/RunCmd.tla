-------------------------------- MODULE RunCmd ---------------------------------
(***************************************************************************)
(* runCmd of cmd/xrc-gen/main.go, which runs `go build` and `go generate`: *)
(* the goroutine of runCmd, the goroutine it starts to cancel the command, *)
(* and, from package os/exec, the goroutine that watches the context and   *)
(* those that copy the output, here as one.                                *)
(*                                                                         *)
(* Time is counted in ticks. What is ready to run runs before the next     *)
(* tick, except for the cancelling goroutine, which may be late, and a     *)
(* process that is killed is gone at once.                                 *)
(***************************************************************************)
EXTENDS Integers

CONSTANT Limit          (* duration: 300 seconds, in ticks.                  *)

ASSUME LimitAssumption == Limit \in Nat \ {0}

Never     == 3 * Limit                            \* mutant: no WaitDelay
WaitDelay == Limit                                (* cmd.WaitDelay = duration *)

VARIABLES
  now,        (* The ticks since runCmd was called.                          *)
  ctx,        (* The context: "live", or what ended it.                      *)
  main,       (* Where runCmd is; "wait", "handover" and "drain" are         *)
              (* cmd.Wait.                                                   *)
  watcher,    (* The goroutine of os/exec that watches the context.          *)
  canceller,  (* The goroutine runCmd starts.                                *)
  child,      (* The process.                                                *)
  status,     (* How it ended.                                               *)
  held,       (* Does another process keep the output open?                  *)
  copying,    (* Is the output still being copied into the buffers?          *)
  cut,        (* Has copying been cut short?                                 *)
  timer,      (* When the WaitDelay runs out.                                *)
  err,        (* The error, so far.                                          *)
  logged      (* Has "timeout exceeded" been logged?                         *)

processVars == <<child, status, held>>
outputVars  == <<copying, cut>>
vars == <<now, ctx, main, watcher, canceller, child, status, held, copying, cut,
          timer, err, logged>>

TypeOK ==
  /\ now \in 0 .. 3 * Limit
  /\ ctx \in {"live", "deadline", "canceled"}
  /\ main \in {"start", "wait", "handover", "drain", "scan", "returned"}
  /\ watcher \in {"none", "watching", "delay", "done"}
  /\ canceller \in {"none", "blocked", "woken", "ended"}
  /\ child \in {"none", "running", "exited", "reaped"}
  /\ status \in {"none", "ok", "failed", "killed"}
  /\ held \in BOOLEAN
  /\ copying \in BOOLEAN /\ cut \in BOOLEAN
  /\ timer \in 0 .. 2 * Limit
  /\ err \in {"none", "start", "exit", "deadline", "waitdelay"}
  /\ logged \in BOOLEAN

(* The context is made with its timeout. *)
Init ==
  /\ now = 0 /\ ctx = "live"
  /\ main = "start" /\ watcher = "none" /\ canceller = "none"
  /\ child = "none" /\ status = "none" /\ held = FALSE
  /\ copying = FALSE /\ cut = FALSE
  /\ timer = 0 /\ err = "none" /\ logged = FALSE

-------------------------------------------------------------------------------
(* The process, its output and the context *)

Killed ==
  IF child = "running"
  THEN child' = "exited" /\ status' = "killed" /\ held' \in BOOLEAN
  ELSE UNCHANGED processVars

(* It may leave a child of its own behind that keeps the output open. *)
Exit ==
  /\ child = "running"
  /\ child' = "exited"
  /\ status' \in {"ok", "failed"}
  /\ held' \in BOOLEAN
  /\ UNCHANGED <<now, ctx, main, watcher, canceller, outputVars, timer, err, logged>>

Release ==
  /\ held
  /\ held' = FALSE
  /\ UNCHANGED <<now, ctx, main, watcher, canceller, child, status, outputVars, timer, err, logged>>

CopyEnds ==
  /\ copying /\ ~held /\ child \in {"exited", "reaped"}
  /\ copying' = FALSE
  /\ UNCHANGED <<now, ctx, main, watcher, canceller, processVars, cut, timer, err, logged>>

Deadline ==
  /\ ctx = "live"
  /\ now = Limit
  /\ ctx' = "deadline"
  /\ UNCHANGED <<now, main, watcher, canceller, processVars, outputVars, timer, err, logged>>

-------------------------------------------------------------------------------
(* runCmd, and cmd.Wait in it *)

StartFails ==
  /\ main = "start"
  /\ main' = "returned" /\ err' = "start" /\ ctx' = "canceled"
  /\ UNCHANGED <<now, watcher, canceller, processVars, outputVars, timer, logged>>

CanceledNow == "canceled"                         \* mutant: cancel() is not deferred
NotYet      == ctx
ScanFirst   == "scan"                             \* mutant: the output is read before Wait
WaitFirst   == "wait"

Start ==
  /\ main = "start"
  /\ main' = WaitFirst /\ ctx' = NotYet
  /\ child' = "running" /\ copying' = TRUE
  /\ watcher' = "watching" /\ canceller' = "blocked"
  /\ UNCHANGED <<now, status, held, cut, timer, err, logged>>

Reap ==
  /\ main = "wait" /\ child = "exited"
  /\ main' = "handover" /\ child' = "reaped"
  /\ err' = IF status = "ok" THEN err ELSE "exit"
  /\ UNCHANGED <<now, ctx, watcher, canceller, status, held, outputVars, timer, logged>>

(* The watcher, which has not seen the context end, is told; the WaitDelay   *)
(* begins.                                                                   *)
HandOver ==
  /\ main = "handover" /\ watcher = "watching"
  /\ main' = "drain" /\ watcher' = "done"
  /\ timer' = now + WaitDelay
  /\ UNCHANGED <<now, ctx, canceller, processVars, outputVars, err, logged>>

(* The context ended: the watcher cancels, and its WaitDelay begins. If the  *)
(* process had not been reaped, the command counts as cancelled.             *)
WatcherCancels ==
  /\ watcher = "watching" /\ ctx # "live"
  /\ watcher' = "delay"
  /\ timer' = now + WaitDelay
  /\ Killed
  /\ err' = IF child \in {"running", "exited"} THEN "deadline" ELSE err
  /\ UNCHANGED <<now, ctx, main, canceller, outputVars, logged>>

HandOverTimer ==
  /\ main = "handover" /\ watcher = "delay"
  /\ main' = "drain" /\ watcher' = "done"
  /\ UNCHANGED <<now, ctx, canceller, processVars, outputVars, timer, err, logged>>

DrainEnds ==
  /\ main = "drain" /\ ~copying
  /\ main' = "scan"
  /\ UNCHANGED <<now, ctx, watcher, canceller, processVars, outputVars, timer, err, logged>>

(* The output is closed; that is the error if there is no other. *)
DrainExpires ==
  /\ main = "drain" /\ copying /\ now = timer
  /\ main' = "scan"
  /\ copying' = FALSE /\ cut' = TRUE
  /\ err' = IF err = "none" THEN "waitdelay" ELSE err
  /\ UNCHANGED <<now, ctx, watcher, canceller, processVars, timer, logged>>

Swallowed == "none"                               \* mutant: the error of Wait is dropped
WaitError == err

(* The output is logged, and the deferred cancel() ends the context. *)
Finish ==
  /\ main = "scan"
  /\ main' = "returned"
  /\ err' = WaitError
  /\ ctx' = IF ctx = "live" THEN "canceled" ELSE ctx
  /\ UNCHANGED <<now, watcher, canceller, processVars, outputVars, timer, logged>>

Main == StartFails \/ Start \/ Reap \/ HandOver \/ HandOverTimer
          \/ DrainEnds \/ DrainExpires \/ Finish

-------------------------------------------------------------------------------
(* The goroutine started by runCmd *)

Cancel ==
  /\ canceller = "blocked" /\ ctx # "live"
  /\ canceller' = "woken"
  /\ Killed
  /\ UNCHANGED <<now, ctx, main, watcher, outputVars, timer, err, logged>>

WasCanceled == ctx = "canceled"                   \* mutant: context.Canceled
TimedOut    == ctx = "deadline"

LogTimeout ==
  /\ canceller = "woken"
  /\ canceller' = "ended"
  /\ logged' = TimedOut
  /\ UNCHANGED <<now, ctx, main, watcher, processVars, outputVars, timer, err>>

Canceller == Cancel \/ LogTimeout

-------------------------------------------------------------------------------
(* Time passes while runCmd waits for the process or for its output. *)
Tick ==
  /\ ctx = "live" => now < Limit
  /\ \/ main = "wait" /\ child = "running" /\ ctx = "live"
     \/ main = "drain" /\ copying /\ held /\ now < timer
  /\ now < 3 * Limit
  /\ now' = now + 1
  /\ UNCHANGED <<ctx, main, watcher, canceller, processVars, outputVars, timer, err, logged>>

Terminated == main = "returned" /\ UNCHANGED vars

Next ==
  \/ Exit \/ Release \/ CopyEnds \/ Deadline
  \/ Main \/ WatcherCancels \/ Canceller \/ Tick
  \/ Terminated

Spec == Init /\ [][Next]_vars

(* Every goroutine that can run does, and time goes on. Nothing makes the    *)
(* process exit, or others close its output.                                 *)
Fairness ==
  /\ WF_vars(Main) /\ WF_vars(WatcherCancels) /\ WF_vars(Canceller)
  /\ WF_vars(CopyEnds) /\ WF_vars(Deadline) /\ WF_vars(Tick)

FairSpec == Spec /\ Fairness

-------------------------------------------------------------------------------
(* Safety *)

(* main.go:187-195: whatever the command and its children do, runCmd takes   *)
(* no longer than the deadline and the WaitDelay together. (Line 186 has     *)
(* five minutes, the deadline alone.)                                        *)
ReturnsInTime == now <= Limit + Limit

(* main.go:217-220: the buffers are read when nobody writes into them any    *)
(* more, also when the WaitDelay ran out with the output still open.         *)
SettledOutput == main \in {"scan", "returned"} => ~copying

(* main.go:217-227: runCmd returns nil only for a command that ended by      *)
(* itself with status 0 and whose output was read to its end.                *)
SuccessIsComplete == main = "returned" /\ err = "none" => status = "ok" /\ ~cut

(* main.go:187-217: a command that is quick enough is not disturbed: runCmd  *)
(* fails only if the command could not start, failed by itself, or time ran  *)
(* out for it or for its output.                                             *)
FailureHasCause ==
  main = "returned" /\ err # "none" => err = "start" \/ status = "failed" \/ now >= Limit

-------------------------------------------------------------------------------
(* Liveness *)

(* main.go:213-215: a command killed at the deadline is logged as such.      *)
TimeoutIsLogged == (status = "killed") ~> logged

(* runCmd returns and leaves no goroutine behind, even if a child of the     *)
(* command keeps the output open for ever. Fairness of CompilePool's workers *)
(* rests on this.                                                            *)
Terminates == <>[](main = "returned" /\ canceller \in {"none", "ended"})

===============================================================================
