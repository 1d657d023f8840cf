------------------------------ MODULE CompilePool ------------------------------
(***************************************************************************)
(* compilePlugins, setupPool and compile of cmd/xrc-gen/main.go.           *)
(*                                                                         *)
(* The main goroutine puts one job per composition on the buffered channel *)
(* `plugins`, waits on a WaitGroup, drains the results from the buffered   *)
(* channel `pchan`, and then stops the pool, one worker after the other,   *)
(* over an unbuffered channel each.  A worker selects between its stop     *)
(* channel and the jobs; for a job it runs `go build` and looks for the    *)
(* .so, at most three times, and reports on `pchan`.                       *)
(*                                                                         *)
(* A job is named by the position of its composition in `paths`.  Jobs are *)
(* put on `plugins` in that order by one goroutine, so the content of the  *)
(* channel is always taken+1 .. sent, and two counters stand for it.       *)
(***************************************************************************)
EXTENDS Integers, Sequences, SequencesExt

CONSTANTS
  Paths,      (* The directories filePathWalkDir found, in order. A path is  *)
              (* the sequence of its segments, and a segment the sequence of *)
              (* its words: "b_c" is <<"b", "c">>.                           *)
  PoolSize,   (* The number of workers: poolSize, 10 in the code.            *)
  NoFile,     (* There is no file at this path.                              *)
  Stale       (* The file at this path is left from an earlier run.          *)

NumPaths == Len(Paths)
Tasks    == 1 .. NumPaths
Workers  == 1 .. PoolSize

(* The .so of a composition: its path split at "/" and joined with "_". *)
LastSegment(t) == Paths[t][Len(Paths[t])]        \* mutant: the last segment only
SoName(t) == FlattenSeq(Paths[t])
SoFiles   == {SoName(t) : t \in Tasks}

MaxTries == 3         \* retries := 3 in compile

PoolSized == PoolSize                            \* mutant: a buffer as large as the pool
PchanCap  == NumPaths                            \* make(chan pathchan, len(paths))

ASSUME PathsAssumption  == NumPaths \in Nat
ASSUME PoolAssumption   == PoolSize \in Nat \ {0}
ASSUME FilesAssumption  == NoFile \notin Tasks /\ Stale \notin Tasks /\ NoFile # Stale

VARIABLES
  main,         (* Where the main goroutine is.                              *)
  sent, taken,  (* Jobs put on `plugins`; jobs taken off it.                 *)
  wg,           (* The counter of the WaitGroup.                             *)
  pchan,        (* The results on `pchan`.                                   *)
  i,            (* The counter of the loop that drains `pchan`.              *)
  pluginPaths,  (* The compositions compiled: the return value.              *)
  errors,       (* The compositions logged as "error compiling".             *)
  stopped,      (* How many workers have been told to stop.                  *)
  pc,           (* Where each worker is.                                     *)
  job,          (* The job of each worker, 0 when it has none.               *)
  retries,      (* retries of compile, in each worker.                       *)
  failed,       (* Is plugin.e set, in each worker?                          *)
  disk,         (* Whose code each .so file holds.                           *)
  late          (* Jobs built whose .so has not shown up yet.                *)

mainVars   == <<main, sent, i, pluginPaths, errors, stopped>>
workerVars == <<pc, job, retries, failed>>
fileVars   == <<disk, late>>
vars       == <<main, sent, taken, wg, pchan, i, pluginPaths, errors, stopped,
                pc, job, retries, failed, disk, late>>

Results == [t : Tasks, e : BOOLEAN]

TypeOK ==
  /\ main \in {"submit", "collect", "stop", "returned"}
  /\ sent \in 0 .. NumPaths
  /\ taken \in 0 .. sent
  /\ wg \in 0 .. NumPaths
  /\ pchan \in Seq(Results)
  /\ i \in Nat \ {0}
  /\ pluginPaths \in Seq(Tasks)
  /\ errors \in Seq(Tasks)
  /\ stopped \in 0 .. PoolSize
  /\ pc \in [Workers -> {"select", "build", "stat", "report", "done", "returned"}]
  /\ job \in [Workers -> 0 .. NumPaths]
  /\ retries \in [Workers -> 0 .. MaxTries]
  /\ failed \in [Workers -> BOOLEAN]
  /\ disk \in [SoFiles -> Tasks \cup {NoFile, Stale}]
  /\ late \in SUBSET Tasks

(* wg.Add(len(paths)) and setupPool have been called; the plugins folder may *)
(* hold files of an earlier run.                                             *)
Init ==
  /\ main = "submit"
  /\ sent = 0
  /\ taken = 0
  /\ wg = NumPaths
  /\ pchan = <<>>
  /\ i = 1
  /\ pluginPaths = <<>>
  /\ errors = <<>>
  /\ stopped = 0
  /\ pc = [w \in Workers |-> "select"]
  /\ job = [w \in Workers |-> 0]
  /\ retries = [w \in Workers |-> 0]
  /\ failed = [w \in Workers |-> FALSE]
  /\ disk \in [SoFiles -> {NoFile, Stale}]
  /\ late = {}

-------------------------------------------------------------------------------
(* The main goroutine *)

(* plugins <- plug{...}: the buffer has room for every job. *)
Submit ==
  /\ main = "submit"
  /\ sent < NumPaths
  /\ sent' = sent + 1
  /\ UNCHANGED <<main, taken, wg, pchan, i, pluginPaths, errors, stopped, workerVars, fileVars>>

NoWait  == TRUE                                  \* mutant: no wg.Wait()
AllDone == wg = 0

(* wg.Wait() returns. *)
Waited ==
  /\ main = "submit"
  /\ sent = NumPaths
  /\ AllDone
  /\ main' = "collect"
  /\ UNCHANGED <<sent, taken, wg, pchan, i, pluginPaths, errors, stopped, workerVars, fileVars>>

LastButOne == i >= NumPaths - 1                  \* mutant: `i` started at 0
LastResult == i = NumPaths

(* One round of `for plugin := range pchan`. *)
Collect ==
  /\ main = "collect"
  /\ pchan # <<>>
  /\ pchan' = Tail(pchan)
  /\ IF Head(pchan).e
       THEN /\ errors' = Append(errors, Head(pchan).t)
            /\ UNCHANGED pluginPaths
       ELSE /\ pluginPaths' = Append(pluginPaths, Head(pchan).t)
            /\ UNCHANGED errors
  /\ IF LastResult
       THEN main' = "stop" /\ UNCHANGED i
       ELSE i' = i + 1     /\ UNCHANGED main
  /\ UNCHANGED <<sent, taken, wg, stopped, workerVars, fileVars>>

(* stop <- true; close(stop): the send is received by the worker's select. *)
StopWorker ==
  /\ main = "stop"
  /\ stopped < PoolSize
  /\ pc[stopped + 1] = "select"
  /\ pc' = [pc EXCEPT ![stopped + 1] = "returned"]
  /\ stopped' = stopped + 1
  /\ UNCHANGED <<main, sent, taken, wg, pchan, i, pluginPaths, errors,
                 job, retries, failed, fileVars>>

AllButOneStopped == stopped >= PoolSize - 1      \* mutant: one stop channel too few
PoolStopped == stopped = PoolSize

(* return pluginPaths; the deferred calls close both channels. *)
Return ==
  /\ main = "stop"
  /\ PoolStopped
  /\ main' = "returned"
  /\ UNCHANGED <<sent, taken, wg, pchan, i, pluginPaths, errors, stopped, workerVars, fileVars>>

Main == Submit \/ Waited \/ Collect \/ StopWorker \/ Return

-------------------------------------------------------------------------------
(* A worker *)

(* case p := <-plugins, and the beginning of compile. *)
Take(w) ==
  /\ pc[w] = "select"
  /\ taken < sent
  /\ taken' = taken + 1
  /\ job' = [job EXCEPT ![w] = taken + 1]
  /\ retries' = [retries EXCEPT ![w] = MaxTries]
  /\ failed' = [failed EXCEPT ![w] = FALSE]
  /\ pc' = [pc EXCEPT ![w] = "build"]
  /\ UNCHANGED <<wg, pchan, mainVars, fileVars>>

(* Mutant: the error is sent at once, and the loop is not left. *)
BuildFailsNoBreak(w) ==
  /\ pc[w] = "build"
  /\ pchan' = Append(pchan, [t |-> job[w], e |-> TRUE])
  /\ pc' = [pc EXCEPT ![w] = "stat"]
  /\ UNCHANGED <<taken, wg, job, retries, failed, mainVars, fileVars>>

(* runCmd returns an error: `go build` failed, could not start or ran out of *)
(* time, perhaps after it had written the .so (see RunCmd).                  *)
BuildFails(w) ==
  /\ pc[w] = "build"
  /\ disk' \in {disk, [disk EXCEPT ![SoName(job[w])] = job[w]]}
  /\ failed' = [failed EXCEPT ![w] = TRUE]
  /\ pc' = [pc EXCEPT ![w] = "report"]
  /\ UNCHANGED <<taken, wg, pchan, job, retries, mainVars, late>>

(* runCmd returns nil and the .so is in place. *)
BuildWrites(w) ==
  /\ pc[w] = "build"
  /\ disk' = [disk EXCEPT ![SoName(job[w])] = job[w]]
  /\ pc' = [pc EXCEPT ![w] = "stat"]
  /\ UNCHANGED <<taken, wg, pchan, job, retries, failed, mainVars, late>>

(* runCmd returns nil and the .so does not show up at once. *)
BuildLags(w) ==
  /\ pc[w] = "build"
  /\ late' = late \cup {job[w]}
  /\ pc' = [pc EXCEPT ![w] = "stat"]
  /\ UNCHANGED <<taken, wg, pchan, job, retries, failed, mainVars, disk>>

(* os.Stat finds a file: the loop is left. *)
StatFinds(w) ==
  /\ pc[w] = "stat"
  /\ disk[SoName(job[w])] # NoFile
  /\ pc' = [pc EXCEPT ![w] = "report"]
  /\ UNCHANGED <<taken, wg, pchan, job, retries, failed, mainVars, fileVars>>

TriesPastEnd(w) == retries[w] >= 0               \* mutant: retries >= 0
MoreTries(w)    == retries[w] > 1                \* retries > 0 after retries--

(* os.Stat finds no file. The test `retries <= 0` that would set plugin.e    *)
(* stands inside a loop whose condition is retries > 0: it never succeeds,   *)
(* and after the last try the loop ends with plugin.e still nil.             *)
StatMisses(w) ==
  /\ pc[w] = "stat"
  /\ disk[SoName(job[w])] = NoFile
  /\ retries' = [retries EXCEPT ![w] = @ - 1]
  /\ pc' = [pc EXCEPT ![w] = IF MoreTries(w) THEN "build" ELSE "report"]
  /\ UNCHANGED <<taken, wg, pchan, job, failed, mainVars, fileVars>>

(* plugins <- plugin: blocks while the buffer of `pchan` is full. *)
Report(w) ==
  /\ pc[w] = "report"
  /\ Len(pchan) < PchanCap
  /\ pchan' = Append(pchan, [t |-> job[w], e |-> failed[w]])
  /\ pc' = [pc EXCEPT ![w] = "done"]
  /\ UNCHANGED <<taken, wg, job, retries, failed, mainVars, fileVars>>

(* Mutant: wg.Done() is not called. *)
NoDone(w) ==
  /\ pc[w] = "done"
  /\ job' = [job EXCEPT ![w] = 0]
  /\ pc' = [pc EXCEPT ![w] = "select"]
  /\ UNCHANGED <<taken, wg, pchan, retries, failed, mainVars, fileVars>>

(* The deferred wg.Done(), and back to the select. *)
Done(w) ==
  /\ pc[w] = "done"
  /\ wg' = wg - 1
  /\ job' = [job EXCEPT ![w] = 0]
  /\ pc' = [pc EXCEPT ![w] = "select"]
  /\ UNCHANGED <<taken, pchan, retries, failed, mainVars, fileVars>>

Worker(w) ==
  \/ Take(w) \/ BuildFails(w) \/ BuildWrites(w) \/ BuildLags(w)
  \/ StatFinds(w) \/ StatMisses(w) \/ Report(w) \/ Done(w)

-------------------------------------------------------------------------------
(* The file system: a late .so shows up. *)
Appears(t) ==
  /\ t \in late
  /\ disk' = [disk EXCEPT ![SoName(t)] = t]
  /\ late' = late \ {t}
  /\ UNCHANGED <<taken, wg, pchan, workerVars, mainVars>>

(* compilePlugins has returned: nothing is left to do. *)
Terminated == main = "returned" /\ UNCHANGED vars

Next ==
  \/ Main
  \/ \E w \in Workers : Worker(w)
  \/ \E t \in Tasks : Appears(t)
  \/ Terminated

Spec == Init /\ [][Next]_vars

(* The Go scheduler runs every goroutine that can run, and a `go build` ends *)
(* because runCmd bounds it by a deadline. A late file need not show up.     *)
Fairness == WF_vars(Main) /\ \A w \in Workers : WF_vars(Worker(w))

FairSpec == Spec /\ Fairness

-------------------------------------------------------------------------------
(* What the properties talk about *)

Busy(w) == pc[w] \in {"build", "stat", "report", "done"}

(* The jobs wg.Done() has not been called for: those nobody has taken and    *)
(* those a worker is in compile for.                                         *)
Unfinished == ((taken + 1) .. NumPaths) \cup {job[w] : w \in {v \in Workers : Busy(v)}}

(* The compositions whose result, good or bad, has left its worker. *)
OkTasks  == {r.t : r \in {q \in Range(pchan) : ~q.e}} \cup Range(pluginPaths)
ErrTasks == {r.t : r \in {q \in Range(pchan) : q.e}} \cup Range(errors)

-------------------------------------------------------------------------------
(* Safety *)

(* The WaitGroup always stands at the number of compositions compile has not *)
(* returned for, so that wg.Wait() ends neither early nor never, and         *)
(* wg.Done() cannot make the counter negative (which panics).                *)
WaitGroupCounts == wg = Cardinality(Unfinished)

(* A worker that has a result never finds the buffer of `pchan` full: main   *)
(* drains it only after wg.Wait(), which waits for that worker.              *)
ReportNeverBlocks == \A w \in Workers : pc[w] = "report" => Len(pchan) < PchanCap

(* When main begins to stop the pool, no job is left on `plugins` and no     *)
(* worker is in compile: the select between stop and job has no job to miss, *)
(* and the stop is not held up by a build.                                   *)
ShutdownIsSafe ==
  main \in {"stop", "returned"} => taken = NumPaths /\ \A w \in Workers : ~Busy(w)

(* When compilePlugins returns, it closes the channels: no worker may be left *)
(* that selects on them, since it would receive zero jobs for ever.           *)
NoWorkerOutlivesChannels ==
  main = "returned" => \A w \in Workers : pc[w] = "returned"

(* Every composition found is returned or logged as an error, once. *)
NothingLost ==
  main = "returned" =>
    /\ Range(pluginPaths) \cup Range(errors) = Tasks
    /\ Len(pluginPaths) + Len(errors) = NumPaths

(* No composition is both returned and logged as an error. *)
OneVerdict == OkTasks \cap ErrTasks = {}

(* No two compositions share a .so: their paths stay apart when "/" becomes "_". *)
PathsApart == \A s, t \in Tasks : SoName(s) = SoName(t) => s = t

(* A composition reported as compiled has its own code in its .so, or that   *)
(* file is one that had not shown up when compile last looked for it. Holds  *)
(* when PathsApart does.                                                     *)
CompiledMeansBuilt ==
  \A t \in OkTasks : disk[SoName(t)] = t \/ t \in late

(* "retries exhausted" (main.go:175-178): a composition whose .so never       *)
(* showed up is an error, so every path returned was seen on disk.           *)
ReturnedPluginExists ==
  main = "returned" => \A t \in Range(pluginPaths) : disk[SoName(t)] # NoFile

-------------------------------------------------------------------------------
(* Liveness *)

(* A build that failed is logged in the end. *)
FailureIsLogged ==
  \A t \in Tasks :
    (\E w \in Workers : job[w] = t /\ pc[w] = "report" /\ failed[w]) ~> (t \in Range(errors))

(* compilePlugins returns (README.md:91-93: the plugins are then loaded). *)
Termination == <>(main = "returned")

-------------------------------------------------------------------------------
(* Refinement: the pool does what CompileAll promises. *)

verdictBar ==
  [t \in Tasks |-> IF t \in OkTasks THEN "compiled" ELSE
                   IF t \in ErrTasks THEN "failed" ELSE "pending"]
returnedBar == main = "returned"
resultBar   == IF main = "returned" THEN Range(pluginPaths) ELSE {}

Abstract == INSTANCE CompileAll WITH
              verdict <- verdictBar, returned <- returnedBar, result <- resultBar

(* Every composition gets one verdict, never revised, and the caller gets    *)
(* exactly those with the verdict "compiled", and does get them.             *)
ImplementsCompileAll == Abstract!FairSpec

-------------------------------------------------------------------------------
(* The inductive invariant that carries the safety properties. *)

Working(w) == pc[w] \in {"build", "stat", "report"}

(* The jobs with no result yet. *)
Unreported == ((taken + 1) .. NumPaths) \cup {job[w] : w \in {v \in Workers : Working(v)}}

(* A busy worker has a job of its own, taken from the channel. *)
JobsApart ==
  /\ \A w \in Workers : Busy(w) => job[w] \in 1 .. taken
  /\ \A w, v \in Workers : Busy(w) /\ Busy(v) /\ job[w] = job[v] => w = v

TriesLeft == \A w \in Workers : pc[w] \in {"build", "stat"} => retries[w] > 0

(* Every composition is in exactly one place, and none is in a place twice. *)
Accounted ==
  /\ OkTasks \cup ErrTasks \cup Unreported = Tasks
  /\ OkTasks \cap ErrTasks = {}
  /\ OkTasks \cap Unreported = {}
  /\ ErrTasks \cap Unreported = {}
  /\ Len(pchan) + Len(pluginPaths) + Len(errors) + Cardinality(Unreported) = NumPaths

(* What main knows from where it stands. *)
MainKnows ==
  /\ main = "submit" => pluginPaths = <<>> /\ errors = <<>>
  /\ main # "submit" => sent = NumPaths /\ Unfinished = {}
  /\ main \in {"submit", "collect"} =>
       /\ i = Len(pluginPaths) + Len(errors) + 1
       /\ stopped = 0
  /\ main \in {"stop", "returned"} => pchan = <<>>
  /\ main = "returned" => stopped = PoolSize

StoppedInOrder == \A w \in Workers : pc[w] = "returned" <=> w <= stopped

(* The worker goroutines, the WaitGroup and the channels agree at every step *)
(* of main.go:60-183 about which compositions are still to come, being built, *)
(* waiting on `pchan`, or drained.                                           *)
IInv ==
  /\ TypeOK
  /\ JobsApart
  /\ TriesLeft
  /\ WaitGroupCounts
  /\ Accounted
  /\ MainKnows
  /\ StoppedInOrder

(* With PathsApart, a .so never holds another composition's code, and a      *)
(* composition that is built stays built.                                    *)
FilesInv ==
  /\ \A t \in Tasks : disk[SoName(t)] \in {t, NoFile, Stale}
  /\ \A w \in Workers : pc[w] \in {"stat", "report"} /\ ~failed[w] =>
       disk[SoName(job[w])] = job[w] \/ job[w] \in late
  /\ CompiledMeansBuilt

===============================================================================
