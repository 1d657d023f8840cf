-------------------------- MODULE CompilePoolProofs ---------------------------
(***************************************************************************)
(* Proofs about CompilePool, for every list of paths and every pool size.  *)
(***************************************************************************)
EXTENDS CompilePool, FiniteSetTheorems, SequenceTheorems, TLAPS

-------------------------------------------------------------------------------
(* Sequences and what is in them *)

(* What is in a sequence is at one of its positions. *)
LEMMA RangeSeq ==
  ASSUME NEW S, NEW s \in Seq(S)
  PROVE  /\ Len(s) \in Nat
         /\ Range(s) = {s[k] : k \in 1 .. Len(s)}
BY LenProperties DEF Range

(* The range of a sequence that was appended to. *)
LEMMA RangeAppend ==
  ASSUME NEW S, NEW s \in Seq(S), NEW x \in S
  PROVE  /\ Append(s, x) \in Seq(S)
         /\ Len(Append(s, x)) = Len(s) + 1
         /\ Range(Append(s, x)) = Range(s) \cup {x}
<1>1. /\ Append(s, x) \in Seq(S)
      /\ Len(Append(s, x)) = Len(s) + 1
      /\ Len(s) \in Nat
      /\ \A k \in 1 .. Len(s) : Append(s, x)[k] = s[k]
      /\ Append(s, x)[Len(s) + 1] = x
  BY AppendProperties, LenProperties
<1>2. 1 .. Len(s) + 1 = (1 .. Len(s)) \cup {Len(s) + 1}
  BY <1>1
<1>3. /\ Range(Append(s, x)) = {Append(s, x)[k] : k \in 1 .. Len(s) + 1}
      /\ Range(s) = {s[k] : k \in 1 .. Len(s)}
  BY <1>1, RangeSeq
<1>4. Range(Append(s, x)) = {Append(s, x)[k] : k \in 1 .. Len(s)} \cup {x}
  BY <1>1, <1>2, <1>3, Zenon
<1> QED  BY <1>1, <1>3, <1>4, Zenon

(* The range of a sequence is its head and the range of its tail. *)
LEMMA RangeTail ==
  ASSUME NEW S, NEW s \in Seq(S), s # <<>>
  PROVE  /\ Head(s) \in S
         /\ Tail(s) \in Seq(S)
         /\ Len(s) \in Nat \ {0}
         /\ Len(Tail(s)) = Len(s) - 1
         /\ Range(s) = Range(Tail(s)) \cup {Head(s)}
<1>1. /\ Head(s) \in S /\ Tail(s) \in Seq(S) /\ Len(Tail(s)) = Len(s) - 1
      /\ Len(s) \in Nat \ {0}
      /\ \A k \in 1 .. Len(Tail(s)) : Tail(s)[k] = s[k + 1]
      /\ Head(s) = s[1]
  BY HeadTailProperties, EmptySeq
<1>2. /\ Range(s) = {s[k] : k \in 1 .. Len(s)}
      /\ Range(Tail(s)) = {Tail(s)[k] : k \in 1 .. Len(Tail(s))}
  BY <1>1, RangeSeq
<1>3. ASSUME NEW k \in 1 .. Len(s)
      PROVE  s[k] \in Range(Tail(s)) \cup {Head(s)}
  <2>1. CASE k = 1
    BY <2>1, <1>1
  <2>2. CASE k # 1
    <3>1. k - 1 \in 1 .. Len(Tail(s)) /\ Tail(s)[k - 1] = s[k]
      BY <2>2, <1>1
    <3> QED  BY <3>1, <1>2
  <2> QED  BY <2>1, <2>2
<1>4. ASSUME NEW k \in 1 .. Len(Tail(s))
      PROVE  Tail(s)[k] \in Range(s)
  <2>1. k + 1 \in 1 .. Len(s) /\ Tail(s)[k] = s[k + 1]
    BY <1>1
  <2> QED  BY <2>1, <1>2
<1>5. Head(s) \in Range(s)
  BY <1>1, <1>2
<1> QED  BY <1>1, <1>2, <1>3, <1>4, <1>5

(* The empty sequence holds nothing. *)
LEMMA RangeEmpty == Range(<<>>) = {} /\ Len(<<>>) = 0
BY DEF Range

(* One more result joins the compiled or the failed ones, as its e says. *)
LEMMA SplitResults ==
  ASSUME NEW R, NEW r, r.e \in BOOLEAN
  PROVE  /\ {q.t : q \in {x \in R \cup {r} : ~x.e}}
              = {q.t : q \in {x \in R : ~x.e}} \cup (IF r.e THEN {} ELSE {r.t})
         /\ {q.t : q \in {x \in R \cup {r} : x.e}}
              = {q.t : q \in {x \in R : x.e}} \cup (IF r.e THEN {r.t} ELSE {})
<1>1. CASE r.e
  <2>1. /\ {x \in R \cup {r} : ~x.e} = {x \in R : ~x.e}
        /\ {x \in R \cup {r} : x.e} = {x \in R : x.e} \cup {r}
    BY <1>1, Zenon
  <2> QED  BY <1>1, <2>1, Zenon
<1>2. CASE ~r.e
  <2>1. /\ {x \in R \cup {r} : ~x.e} = {x \in R : ~x.e} \cup {r}
        /\ {x \in R \cup {r} : x.e} = {x \in R : x.e}
    BY <1>2, Zenon
  <2> QED  BY <1>2, <2>1, Zenon
<1> QED  BY <1>1, <1>2

-------------------------------------------------------------------------------
(* The sets of jobs *)

(* The jobs compile has not returned for are finitely many compositions, and *)
(* those without a result are among them.                                    *)
LEMMA JobSets ==
  ASSUME TypeOK, JobsApart
  PROVE  /\ Unfinished \subseteq Tasks
         /\ Unreported \subseteq Unfinished
         /\ IsFiniteSet(Unfinished)
         /\ IsFiniteSet(Unreported)
         /\ Cardinality(Unfinished) \in Nat
         /\ Cardinality(Unreported) \in Nat
<1>1. Unfinished \subseteq Tasks
  BY PathsAssumption DEF TypeOK, JobsApart, Unfinished, Tasks
<1>2. Unreported \subseteq Unfinished
  BY DEF Unfinished, Unreported, Busy, Working
<1>3. IsFiniteSet(Tasks)
  BY FS_Interval, PathsAssumption DEF Tasks
<1>4. IsFiniteSet(Unfinished) /\ IsFiniteSet(Unreported)
  BY <1>1, <1>2, <1>3, FS_Subset
<1> QED  BY <1>1, <1>2, <1>4, FS_CardinalityType

(* While a job is queued or a worker is in compile, main is submitting or    *)
(* waiting on the WaitGroup.                                                 *)
LEMMA MainWaits ==
  ASSUME IInv, NEW w \in Workers, Busy(w) \/ taken < NumPaths
  PROVE  main = "submit"
<1>1. CASE Busy(w)
  <2>1. job[w] \in Unfinished
    BY <1>1 DEF Unfinished
  <2> QED  BY <2>1 DEF IInv, MainKnows
<1>2. CASE taken < NumPaths
  <2>1. taken + 1 \in Unfinished
    BY <1>2, PathsAssumption DEF IInv, TypeOK, Unfinished
  <2> QED  BY <2>1 DEF IInv, MainKnows
<1> QED  BY <1>1, <1>2

-------------------------------------------------------------------------------
(* IInv is inductive *)

LEMMA InitIInv == Init => IInv
<1> SUFFICES ASSUME Init PROVE IInv
  OBVIOUS
<1>1. TypeOK
  BY PathsAssumption, PoolAssumption DEF Init, TypeOK, Tasks, Workers, MaxTries, Results
<1>2. JobsApart /\ TriesLeft
  BY DEF Init, JobsApart, TriesLeft, Busy
<1>3. Unfinished = Tasks /\ Unreported = Tasks
  BY DEF Init, Unfinished, Unreported, Busy, Working, Tasks
<1>4. Cardinality(Tasks) = NumPaths
  BY PathsAssumption, FS_Interval DEF Tasks
<1>5. OkTasks = {} /\ ErrTasks = {}
  BY RangeEmpty DEF Init, OkTasks, ErrTasks
<1>6. WaitGroupCounts /\ Accounted
  BY <1>3, <1>4, <1>5, PathsAssumption, RangeEmpty DEF WaitGroupCounts, Accounted, Init
<1>7. MainKnows
  BY RangeEmpty DEF MainKnows, Init
<1>8. StoppedInOrder
  BY PoolAssumption DEF StoppedInOrder, Init, Workers
<1> QED  BY <1>1, <1>2, <1>6, <1>7, <1>8 DEF IInv

(* A step inside the retry loop of compile: it moves one worker between      *)
(* building, looking and reporting, and touches nothing main can see.        *)
LEMMA LoopStep ==
  ASSUME IInv, NEW w \in Workers, Working(w),
         NEW x \in {"build", "stat", "report"}, pc' = [pc EXCEPT ![w] = x],
         TypeOK', TriesLeft',
         UNCHANGED <<job, taken, wg, pchan, mainVars>>
  PROVE  IInv'
<1> USE DEF mainVars
<1>1. \A v \in Workers : (Busy(v)' <=> Busy(v)) /\ (Working(v)' <=> Working(v))
  BY DEF IInv, TypeOK, Busy, Working
<1>2. Unfinished' = Unfinished /\ Unreported' = Unreported
  BY <1>1 DEF Unfinished, Unreported
<1>3. OkTasks' = OkTasks /\ ErrTasks' = ErrTasks
  BY DEF OkTasks, ErrTasks
<1>4. JobsApart'
  BY <1>1 DEF IInv, JobsApart
<1>5. WaitGroupCounts' /\ Accounted' /\ MainKnows'
  BY <1>2, <1>3 DEF IInv, WaitGroupCounts, Accounted, MainKnows
<1>6. StoppedInOrder'
  BY DEF IInv, TypeOK, StoppedInOrder, Working
<1> QED  BY <1>4, <1>5, <1>6 DEF IInv

(* Take: the job moves from the channel to its worker. *)
LEMMA TakeIInv == ASSUME IInv, NEW w \in Workers, Take(w) PROVE IInv'
<1> USE PathsAssumption DEF mainVars, fileVars
<1>1. /\ taken \in Nat /\ sent \in 0 .. NumPaths /\ taken < sent /\ taken' = taken + 1
      /\ pc[w] = "select" /\ pc' = [pc EXCEPT ![w] = "build"]
      /\ job' = [job EXCEPT ![w] = taken + 1]
      /\ pc \in [Workers -> {"select", "build", "stat", "report", "done", "returned"}]
      /\ job \in [Workers -> 0 .. NumPaths]
  BY DEF IInv, TypeOK, Take
<1>2. TypeOK'
  BY <1>1 DEF IInv, TypeOK, Take, MaxTries
<1>3. \A v \in Workers : /\ Busy(v)' <=> Busy(v) \/ v = w
                         /\ Working(v)' <=> Working(v) \/ v = w
                         /\ job'[v] = IF v = w THEN taken + 1 ELSE job[v]
  BY <1>1 DEF Busy, Working
<1>4. ~Busy(w) /\ ~Working(w)
  BY <1>1 DEF Busy, Working
<1>5. JobsApart'
  BY <1>1, <1>3, <1>4 DEF IInv, JobsApart
<1>6. (taken + 1) .. NumPaths = ((taken + 2) .. NumPaths) \cup {taken + 1}
  BY <1>1
<1>7. Unfinished' = Unfinished
  <2>1. {job'[v] : v \in {u \in Workers : Busy(u)'}}
          = {job[v] : v \in {u \in Workers : Busy(u)}} \cup {taken + 1}
    BY <1>3, <1>4
  <2> QED  BY <1>1, <1>6, <2>1 DEF Unfinished
<1>8. Unreported' = Unreported
  <2>1. {job'[v] : v \in {u \in Workers : Working(u)'}}
          = {job[v] : v \in {u \in Workers : Working(u)}} \cup {taken + 1}
    BY <1>3, <1>4
  <2> QED  BY <1>1, <1>6, <2>1 DEF Unreported
<1>9. TriesLeft'
  BY <1>1 DEF IInv, TypeOK, TriesLeft, Take, MaxTries
<1>10. OkTasks' = OkTasks /\ ErrTasks' = ErrTasks
  BY DEF Take, OkTasks, ErrTasks
<1>11. WaitGroupCounts' /\ Accounted' /\ MainKnows'
  BY <1>7, <1>8, <1>10 DEF IInv, WaitGroupCounts, Accounted, MainKnows, Take
<1>12. StoppedInOrder'
  BY <1>1 DEF IInv, StoppedInOrder, Take
<1> QED  BY <1>2, <1>5, <1>9, <1>11, <1>12 DEF IInv

(* Report adds its composition to the compiled or to the failed ones. *)
LEMMA ReportMoves ==
  ASSUME IInv, NEW w \in Workers, Report(w)
  PROVE  /\ pchan' \in Seq(Results) /\ Len(pchan') = Len(pchan) + 1 /\ Len(pchan) \in Nat
         /\ OkTasks' = IF failed[w] THEN OkTasks ELSE OkTasks \cup {job[w]}
         /\ ErrTasks' = IF failed[w] THEN ErrTasks \cup {job[w]} ELSE ErrTasks
<1> USE PathsAssumption DEF mainVars, fileVars
<1> DEFINE r == [t |-> job[w], e |-> failed[w]]
<1>1. /\ pc[w] = "report" /\ pchan \in Seq(Results) /\ pchan' = Append(pchan, r)
      /\ UNCHANGED <<failed, job, pluginPaths, errors>>
  BY DEF IInv, TypeOK, Report
<1>2. r \in Results
  BY <1>1 DEF IInv, TypeOK, JobsApart, Busy, Results, Tasks
<1>3. /\ pchan' \in Seq(Results) /\ Len(pchan') = Len(pchan) + 1 /\ Len(pchan) \in Nat
      /\ Range(pchan') = Range(pchan) \cup {r}
  BY <1>1, <1>2, RangeAppend, LenProperties
<1>4. /\ OkTasks' = IF failed[w] THEN OkTasks ELSE OkTasks \cup {job[w]}
      /\ ErrTasks' = IF failed[w] THEN ErrTasks \cup {job[w]} ELSE ErrTasks
  <2>1. r.t = job[w] /\ r.e = failed[w] /\ r.e \in BOOLEAN
    BY <1>1 DEF IInv, TypeOK
  <2> HIDE DEF r
  <2>2. /\ OkTasks'  = OkTasks \cup (IF r.e THEN {} ELSE {r.t})
        /\ ErrTasks' = ErrTasks \cup (IF r.e THEN {r.t} ELSE {})
    <3>1. /\ OkTasks'  = {q.t : q \in {x \in Range(pchan) \cup {r} : ~x.e}} \cup Range(pluginPaths)
          /\ ErrTasks' = {q.t : q \in {x \in Range(pchan) \cup {r} : x.e}} \cup Range(errors)
      BY <1>1, <1>3 DEF OkTasks, ErrTasks
    <3> QED  BY <2>1, <3>1, SplitResults DEF OkTasks, ErrTasks
  <2> QED  BY <2>1, <2>2
<1> QED  BY <1>3, <1>4

(* Report: a composition without a result becomes one with a result. *)
LEMMA ReportIInv == ASSUME IInv, NEW w \in Workers, Report(w) PROVE IInv'
<1> USE PathsAssumption DEF mainVars, fileVars
<1>1. /\ pc \in [Workers -> {"select", "build", "stat", "report", "done", "returned"}]
      /\ pc[w] = "report" /\ pc' = [pc EXCEPT ![w] = "done"]
      /\ UNCHANGED <<taken, wg, job, retries, failed, main, sent, i, pluginPaths, errors,
                     stopped, disk, late>>
  BY DEF IInv, TypeOK, Report
<1>2. /\ pchan' \in Seq(Results) /\ Len(pchan') = Len(pchan) + 1 /\ Len(pchan) \in Nat
      /\ OkTasks' = IF failed[w] THEN OkTasks ELSE OkTasks \cup {job[w]}
      /\ ErrTasks' = IF failed[w] THEN ErrTasks \cup {job[w]} ELSE ErrTasks
  BY ReportMoves
<1>3. TypeOK'
  BY <1>1, <1>2 DEF IInv, TypeOK
<1>4. \A v \in Workers : /\ Busy(v)' <=> Busy(v)
                         /\ Working(v)' <=> Working(v) /\ v # w
  BY <1>1 DEF Busy, Working
<1>5. Busy(w) /\ Working(w)
  BY <1>1 DEF Busy, Working
<1>6. JobsApart' /\ Unfinished' = Unfinished
  BY <1>1, <1>4 DEF IInv, JobsApart, Unfinished
<1>7. job[w] \in 1 .. taken /\ taken \in Nat
  BY <1>5 DEF IInv, TypeOK, JobsApart
<1>8. Unreported' = Unreported \ {job[w]} /\ job[w] \in Unreported
  <2>1. \A v \in Workers : Working(v) /\ job[v] = job[w] => v = w
    BY <1>5 DEF IInv, JobsApart, Busy, Working
  <2>2. job[w] \notin (taken + 1) .. NumPaths
    BY <1>7
  <2>3. {job'[v] : v \in {u \in Workers : Working(u)'}}
          = {job[v] : v \in {u \in Workers : Working(u)}} \ {job[w]}
    BY <1>1, <1>4, <2>1
  <2> QED  BY <1>1, <1>5, <2>2, <2>3 DEF Unreported
<1>9. /\ Cardinality(Unreported') = Cardinality(Unreported) - 1
       /\ Cardinality(Unreported) \in Nat
  BY <1>8, JobSets, FS_RemoveElement DEF IInv
<1>10. Accounted'
  <2>1. Len(pluginPaths) \in Nat /\ Len(errors) \in Nat
    BY LenProperties DEF IInv, TypeOK
  <2>2. Len(pchan') + Len(pluginPaths') + Len(errors') + Cardinality(Unreported') = NumPaths
    BY <1>1, <1>2, <1>9, <2>1 DEF IInv, Accounted
  <2> QED  BY <1>1, <1>2, <1>8, <2>2 DEF IInv, Accounted
<1>11. main = "submit"
  BY <1>5, MainWaits
<1>12. WaitGroupCounts' /\ MainKnows'
  BY <1>1, <1>6, <1>11 DEF IInv, WaitGroupCounts, MainKnows
<1>13. TriesLeft' /\ StoppedInOrder'
  BY <1>1 DEF IInv, TriesLeft, StoppedInOrder
<1> QED  BY <1>3, <1>6, <1>10, <1>12, <1>13 DEF IInv

(* Done: the worker leaves compile, and the WaitGroup counts one less. *)
LEMMA DoneIInv == ASSUME IInv, NEW w \in Workers, Done(w) PROVE IInv'
<1> USE PathsAssumption DEF mainVars, fileVars
<1>1. /\ pc \in [Workers -> {"select", "build", "stat", "report", "done", "returned"}]
      /\ job \in [Workers -> 0 .. NumPaths]
      /\ pc[w] = "done" /\ pc' = [pc EXCEPT ![w] = "select"]
      /\ job' = [job EXCEPT ![w] = 0] /\ wg' = wg - 1
      /\ UNCHANGED <<taken, pchan, retries, failed, main, sent, i, pluginPaths, errors,
                     stopped, disk, late>>
  BY DEF IInv, TypeOK, Done
<1>2. \A v \in Workers : /\ Busy(v)' <=> Busy(v) /\ v # w
                         /\ Working(v)' <=> Working(v)
                         /\ v # w => job'[v] = job[v]
  BY <1>1 DEF Busy, Working
<1>3. Busy(w) /\ ~Working(w)
  BY <1>1 DEF Busy, Working
<1>4. job[w] \in 1 .. taken /\ taken \in Nat
  BY <1>3 DEF IInv, TypeOK, JobsApart
<1>5. Unfinished' = Unfinished \ {job[w]} /\ job[w] \in Unfinished
  <2>1. \A v \in Workers : Busy(v) /\ job[v] = job[w] => v = w
    BY <1>3 DEF IInv, JobsApart
  <2>2. job[w] \notin (taken + 1) .. NumPaths
    BY <1>4
  <2>3. {job'[v] : v \in {u \in Workers : Busy(u)'}}
          = {job[v] : v \in {u \in Workers : Busy(u)}} \ {job[w]}
    BY <1>2, <2>1
  <2> QED  BY <1>1, <1>3, <2>2, <2>3 DEF Unfinished
<1>6. Unreported' = Unreported
  <2>1. {job'[v] : v \in {u \in Workers : Working(u)'}}
          = {job[v] : v \in {u \in Workers : Working(u)}}
    BY <1>2, <1>3
  <2> QED  BY <1>1, <2>1 DEF Unreported
<1>7. WaitGroupCounts' /\ wg' \in 0 .. NumPaths
  <2>1. /\ Cardinality(Unfinished') = Cardinality(Unfinished) - 1
        /\ IsFiniteSet(Unfinished')
    BY <1>5, JobSets, FS_RemoveElement DEF IInv
  <2>2. Cardinality(Unfinished') \in Nat
    BY <2>1, FS_CardinalityType
  <2> QED  BY <1>1, <2>1, <2>2 DEF IInv, TypeOK, WaitGroupCounts
<1>8. TypeOK'
  BY <1>1, <1>7 DEF IInv, TypeOK
<1>9. JobsApart' /\ TriesLeft' /\ StoppedInOrder'
  BY <1>1, <1>2 DEF IInv, JobsApart, TriesLeft, StoppedInOrder
<1>10. OkTasks' = OkTasks /\ ErrTasks' = ErrTasks
  BY <1>1 DEF OkTasks, ErrTasks
<1>11. main = "submit"
  BY <1>3, MainWaits
<1>12. Accounted' /\ MainKnows'
  BY <1>1, <1>6, <1>10, <1>11 DEF IInv, Accounted, MainKnows
<1> QED  BY <1>7, <1>8, <1>9, <1>12 DEF IInv

(* Collect moves a result from the channel to one of main's two lists, which *)
(* changes nothing about which compositions are compiled or failed.          *)
LEMMA CollectMoves ==
  ASSUME IInv, Collect
  PROVE  /\ pchan' \in Seq(Results) /\ Len(pchan) \in Nat \ {0} /\ Len(pchan') = Len(pchan) - 1
         /\ pluginPaths' \in Seq(Tasks) /\ errors' \in Seq(Tasks)
         /\ Len(pluginPaths) \in Nat /\ Len(errors) \in Nat
         /\ Len(pluginPaths') \in Nat /\ Len(errors') \in Nat
         /\ Len(pluginPaths') + Len(errors') = Len(pluginPaths) + Len(errors) + 1
         /\ OkTasks' = OkTasks /\ ErrTasks' = ErrTasks
<1> USE PathsAssumption DEF workerVars, fileVars
<1> DEFINE r == Head(pchan)
<1>1. /\ main = "collect" /\ pchan # <<>> /\ pchan' = Tail(pchan)
      /\ pchan \in Seq(Results) /\ pluginPaths \in Seq(Tasks) /\ errors \in Seq(Tasks)
      /\ UNCHANGED <<sent, taken, wg, stopped, pc, job, retries, failed, disk, late>>
  BY DEF IInv, TypeOK, Collect
<1>2. /\ r \in Results /\ pchan' \in Seq(Results)
      /\ Len(pchan) \in Nat \ {0} /\ Len(pchan') = Len(pchan) - 1
      /\ Range(pchan) = Range(pchan') \cup {r}
  BY <1>1, RangeTail
<1>3. r.t \in Tasks /\ r.e \in BOOLEAN
  BY <1>2 DEF Results
<1>4. Len(pluginPaths) \in Nat /\ Len(errors) \in Nat
  BY <1>1, LenProperties
<1>5. /\ pluginPaths' \in Seq(Tasks) /\ errors' \in Seq(Tasks)
      /\ Len(pluginPaths') + Len(errors') = Len(pluginPaths) + Len(errors) + 1
      /\ Len(pluginPaths') \in Nat /\ Len(errors') \in Nat
      /\ Range(pluginPaths') = IF r.e THEN Range(pluginPaths) ELSE Range(pluginPaths) \cup {r.t}
      /\ Range(errors') = IF r.e THEN Range(errors) \cup {r.t} ELSE Range(errors)
  <2>1. IF r.e THEN errors' = Append(errors, r.t) /\ pluginPaths' = pluginPaths
               ELSE pluginPaths' = Append(pluginPaths, r.t) /\ errors' = errors
    BY DEF Collect
  <2> HIDE DEF r
  <2>2. /\ Append(errors, r.t) \in Seq(Tasks)
        /\ Len(Append(errors, r.t)) = Len(errors) + 1
        /\ Range(Append(errors, r.t)) = Range(errors) \cup {r.t}
    BY <1>1, <1>3, RangeAppend
  <2>3. /\ Append(pluginPaths, r.t) \in Seq(Tasks)
        /\ Len(Append(pluginPaths, r.t)) = Len(pluginPaths) + 1
        /\ Range(Append(pluginPaths, r.t)) = Range(pluginPaths) \cup {r.t}
    BY <1>1, <1>3, RangeAppend
  <2>4. CASE r.e
    <3>1. errors' = Append(errors, r.t) /\ pluginPaths' = pluginPaths
      BY <2>1, <2>4, Zenon
    <3> QED  BY <2>2, <2>4, <3>1, <1>1, <1>4
  <2>5. CASE ~r.e
    <3>1. pluginPaths' = Append(pluginPaths, r.t) /\ errors' = errors
      BY <2>1, <2>5, Zenon
    <3> QED  BY <2>3, <2>5, <3>1, <1>1, <1>4
  <2> QED  BY <2>4, <2>5
<1>6. OkTasks' = OkTasks /\ ErrTasks' = ErrTasks
  <2> HIDE DEF r
  <2>1. /\ {q.t : q \in {x \in Range(pchan) : ~x.e}}
             = {q.t : q \in {x \in Range(pchan') : ~x.e}} \cup (IF r.e THEN {} ELSE {r.t})
        /\ {q.t : q \in {x \in Range(pchan) : x.e}}
             = {q.t : q \in {x \in Range(pchan') : x.e}} \cup (IF r.e THEN {r.t} ELSE {})
    BY <1>2, <1>3, SplitResults
  <2> QED  BY <2>1, <1>3, <1>5 DEF OkTasks, ErrTasks
<1> QED  BY <1>2, <1>4, <1>5, <1>6

(* Collect: one more round of the loop that drains `pchan`. *)
LEMMA CollectIInv == ASSUME IInv, Collect PROVE IInv'
<1> USE PathsAssumption DEF workerVars, fileVars
<1>1. /\ main = "collect"
      /\ UNCHANGED <<sent, taken, wg, stopped, pc, job, retries, failed, disk, late>>
  BY DEF Collect
<1>2. /\ pchan' \in Seq(Results) /\ Len(pchan) \in Nat \ {0} /\ Len(pchan') = Len(pchan) - 1
      /\ pluginPaths' \in Seq(Tasks) /\ errors' \in Seq(Tasks)
      /\ Len(pluginPaths) \in Nat /\ Len(errors) \in Nat
      /\ Len(pluginPaths') \in Nat /\ Len(errors') \in Nat
      /\ Len(pluginPaths') + Len(errors') = Len(pluginPaths) + Len(errors) + 1
      /\ OkTasks' = OkTasks /\ ErrTasks' = ErrTasks
  BY CollectMoves
<1>3. /\ i \in Nat \ {0}
      /\ i = NumPaths => main' = "stop" /\ i' = i
      /\ i # NumPaths => main' = "collect" /\ i' = i + 1
  BY <1>1 DEF IInv, TypeOK, Collect, LastResult
<1>4. TypeOK'
  BY <1>1, <1>2, <1>3 DEF IInv, TypeOK
<1>5. Unfinished' = Unfinished /\ Unreported' = Unreported
  BY <1>1 DEF Unfinished, Unreported, Busy, Working
<1>6. Cardinality(Unreported) \in Nat
  BY JobSets DEF IInv
<1>7. Accounted'
  <2>1. Len(pchan') + Len(pluginPaths') + Len(errors') + Cardinality(Unreported') = NumPaths
    <3>1. Len(pchan) + Len(pluginPaths) + Len(errors) + Cardinality(Unreported) = NumPaths
      BY DEF IInv, Accounted
    <3>2. Cardinality(Unreported') = Cardinality(Unreported)
      BY <1>5
    <3>3. /\ Len(pchan) \in Nat /\ Len(pchan') = Len(pchan) - 1
          /\ Len(pluginPaths) \in Nat /\ Len(errors) \in Nat
          /\ Len(pluginPaths') \in Nat /\ Len(errors') \in Nat
          /\ Len(pluginPaths') + Len(errors') = Len(pluginPaths) + Len(errors) + 1
      BY <1>2
    <3> QED  BY <3>1, <3>2, <3>3, <1>6
  <2> QED  BY <2>1, <1>2, <1>5 DEF IInv, Accounted
<1>8. i = NumPaths => pchan' = <<>>
  <2>1. i = Len(pluginPaths) + Len(errors) + 1
    BY <1>1 DEF IInv, MainKnows
  <2>2. i = NumPaths => Len(pchan') = 0
    BY <2>1, <1>2, <1>5, <1>6, <1>7 DEF Accounted
  <2> QED  BY <2>2, <1>2, EmptySeq
<1>9. MainKnows'
  BY <1>1, <1>2, <1>3, <1>5, <1>8 DEF IInv, MainKnows
<1>10. JobsApart' /\ TriesLeft' /\ WaitGroupCounts' /\ StoppedInOrder'
  BY <1>1, <1>5 DEF IInv, JobsApart, Busy, TriesLeft, WaitGroupCounts, StoppedInOrder
<1> QED  BY <1>4, <1>7, <1>9, <1>10 DEF IInv

(* The other steps of main: it submits, is woken by the WaitGroup, stops a   *)
(* worker, returns.                                                          *)
LEMMA MainIInv ==
  ASSUME IInv, Submit \/ Waited \/ StopWorker \/ Return PROVE IInv'
<1> USE PathsAssumption, PoolAssumption DEF workerVars, fileVars
<1>1. CASE Submit \/ Waited \/ Return
  <2>1. UNCHANGED <<taken, wg, pchan, i, pluginPaths, errors, stopped, pc, job, retries, failed,
                    disk, late>>
    BY <1>1 DEF Submit, Waited, Return
  <2>2. TypeOK'
    BY <1>1, <2>1 DEF IInv, TypeOK, Submit, Waited, Return
  <2>3. /\ Unfinished' = Unfinished /\ Unreported' = Unreported
        /\ OkTasks' = OkTasks /\ ErrTasks' = ErrTasks
    BY <2>1 DEF Unfinished, Unreported, OkTasks, ErrTasks, Busy, Working
  <2>4. JobsApart' /\ TriesLeft' /\ WaitGroupCounts' /\ Accounted' /\ StoppedInOrder'
    BY <2>1, <2>3 DEF IInv, JobsApart, Busy, TriesLeft, WaitGroupCounts, Accounted, StoppedInOrder
  <2>5. CASE Submit
    BY <2>1, <2>2, <2>3, <2>4, <2>5 DEF IInv, MainKnows, Submit
  <2>6. CASE Waited
    <3>1. Unfinished = {}
      BY <2>6, JobSets, FS_EmptySet DEF IInv, WaitGroupCounts, Waited, AllDone
    <3> QED  BY <2>1, <2>2, <2>3, <2>4, <2>6, <3>1 DEF IInv, MainKnows, Waited
  <2>7. CASE Return
    BY <2>1, <2>2, <2>3, <2>4, <2>7 DEF IInv, MainKnows, Return, PoolStopped
  <2> QED  BY <1>1, <2>5, <2>6, <2>7
<1>2. CASE StopWorker
  <2> DEFINE w == stopped + 1
  <2>1. /\ main = "stop" /\ stopped \in 0 .. PoolSize /\ stopped < PoolSize
        /\ w \in Workers /\ pc[w] = "select" /\ stopped' = stopped + 1
        /\ pc \in [Workers -> {"select", "build", "stat", "report", "done", "returned"}]
        /\ pc' = [pc EXCEPT ![w] = "returned"]
        /\ UNCHANGED <<main, sent, taken, wg, pchan, i, pluginPaths, errors, job, retries,
                       failed, disk, late>>
    BY <1>2 DEF IInv, TypeOK, StopWorker, Workers
  <2>2. TypeOK'
    BY <2>1 DEF IInv, TypeOK
  <2>3. \A v \in Workers : (Busy(v)' <=> Busy(v)) /\ (Working(v)' <=> Working(v))
    BY <2>1 DEF Busy, Working
  <2>4. /\ Unfinished' = Unfinished /\ Unreported' = Unreported
        /\ OkTasks' = OkTasks /\ ErrTasks' = ErrTasks
    BY <2>1, <2>3 DEF Unfinished, Unreported, OkTasks, ErrTasks
  <2>5. JobsApart' /\ TriesLeft' /\ WaitGroupCounts' /\ Accounted'
    BY <2>1, <2>3, <2>4 DEF IInv, JobsApart, TriesLeft, WaitGroupCounts, Accounted
  <2>6. MainKnows'
    BY <2>1, <2>4 DEF IInv, MainKnows
  <2>7. StoppedInOrder'
    BY <2>1 DEF IInv, StoppedInOrder, Workers
  <2> QED  BY <2>2, <2>5, <2>6, <2>7 DEF IInv
<1> QED  BY <1>1, <1>2

(* Every step preserves the inductive invariant. *)
LEMMA NextIInv == IInv /\ [Next]_vars => IInv'
<1> SUFFICES ASSUME IInv, [Next]_vars PROVE IInv'
  OBVIOUS
<1> USE PathsAssumption
<1>1. CASE Main
  BY <1>1, MainIInv, CollectIInv DEF Main
<1>2. ASSUME NEW w \in Workers, Worker(w)
      PROVE  IInv'
  <2>1. CASE Take(w)
    BY <2>1, TakeIInv
  <2>2. CASE BuildFails(w)
    <3>1. job[w] \in Tasks
      BY <2>2 DEF IInv, TypeOK, JobsApart, Busy, BuildFails, Tasks
    <3>2. TypeOK' /\ TriesLeft'
      BY <2>2, <3>1 DEF IInv, TypeOK, TriesLeft, BuildFails, mainVars
    <3> QED  BY <2>2, <3>2, LoopStep DEF BuildFails, Working
  <2>3. CASE BuildWrites(w)
    <3>1. job[w] \in Tasks
      BY <2>3 DEF IInv, TypeOK, JobsApart, Busy, BuildWrites, Tasks
    <3>2. TypeOK' /\ TriesLeft'
      BY <2>3, <3>1 DEF IInv, TypeOK, TriesLeft, BuildWrites, mainVars
    <3> QED  BY <2>3, <3>2, LoopStep DEF BuildWrites, Working
  <2>4. CASE BuildLags(w)
    <3>1. job[w] \in Tasks
      BY <2>4 DEF IInv, TypeOK, JobsApart, Busy, BuildLags, Tasks
    <3>2. TypeOK' /\ TriesLeft'
      BY <2>4, <3>1 DEF IInv, TypeOK, TriesLeft, BuildLags, mainVars
    <3> QED  BY <2>4, <3>2, LoopStep DEF BuildLags, Working
  <2>5. CASE StatFinds(w)
    <3>1. TypeOK' /\ TriesLeft'
      BY <2>5 DEF IInv, TypeOK, TriesLeft, StatFinds, mainVars, fileVars
    <3> QED  BY <2>5, <3>1, LoopStep DEF StatFinds, Working
  <2>6. CASE StatMisses(w)
    <3>1. retries[w] \in 1 .. MaxTries
      BY <2>6 DEF IInv, TypeOK, TriesLeft, StatMisses, MaxTries
    <3>2. TypeOK' /\ TriesLeft'
      BY <2>6, <3>1 DEF IInv, TypeOK, TriesLeft, StatMisses, MoreTries, mainVars, fileVars, MaxTries
    <3> QED  BY <2>6, <3>2, LoopStep DEF StatMisses, MoreTries, Working
  <2>7. CASE Report(w)
    BY <2>7, ReportIInv
  <2>8. CASE Done(w)
    BY <2>8, DoneIInv
  <2> QED  BY <1>2, <2>1, <2>2, <2>3, <2>4, <2>5, <2>6, <2>7, <2>8 DEF Worker
<1>3. ASSUME NEW t \in Tasks, Appears(t)
      PROVE  IInv'
  <2>1. UNCHANGED <<taken, wg, pchan, pc, job, retries, failed, mainVars>>
    BY <1>3 DEF Appears, workerVars
  <2>2. TypeOK'
    BY <1>3, <2>1 DEF IInv, TypeOK, Appears, mainVars
  <2> QED  BY <2>1, <2>2 DEF IInv, JobsApart, TriesLeft, WaitGroupCounts, Accounted, MainKnows,
             StoppedInOrder, Unfinished, Unreported, OkTasks, ErrTasks, Busy, Working, mainVars
<1>4. CASE UNCHANGED vars
  <2>1. TypeOK'
    BY <1>4 DEF IInv, TypeOK, vars
  <2>2. /\ Unfinished' = Unfinished /\ Unreported' = Unreported
        /\ OkTasks' = OkTasks /\ ErrTasks' = ErrTasks
    BY <1>4 DEF Unfinished, Unreported, OkTasks, ErrTasks, Busy, Working, vars
  <2> QED  BY <1>4, <2>1, <2>2 DEF IInv, JobsApart, TriesLeft, WaitGroupCounts, Accounted,
             MainKnows, StoppedInOrder, Busy, vars
<1> QED  BY <1>1, <1>2, <1>3, <1>4 DEF Next, Terminated

-------------------------------------------------------------------------------
(* What follows *)

(* The invariant holds in every reachable state, for every list of paths and *)
(* every pool size.                                                          *)
THEOREM Invariance == Spec => []IInv
BY InitIInv, NextIInv, PTL DEF Spec

(* Type correctness: among others the WaitGroup never goes below zero and no *)
(* worker tries more than three times.                                       *)
THEOREM TypeCorrect == Spec => []TypeOK
<1>1. IInv => TypeOK
  BY DEF IInv
<1> QED  BY <1>1, Invariance, PTL

(* The safety properties of one state that IInv implies. *)
LEMMA IInvSafe ==
  ASSUME IInv
  PROVE  /\ WaitGroupCounts
         /\ ReportNeverBlocks
         /\ ShutdownIsSafe
         /\ NoWorkerOutlivesChannels
         /\ NothingLost
         /\ OneVerdict
<1> USE PathsAssumption
<1>1. WaitGroupCounts /\ OneVerdict
  BY DEF IInv, Accounted, OneVerdict
<1>2. /\ Len(pchan) \in Nat /\ Len(pluginPaths) \in Nat /\ Len(errors) \in Nat
      /\ IsFiniteSet(Unreported) /\ Cardinality(Unreported) \in Nat
      /\ Unreported \subseteq Unfinished
  BY LenProperties, JobSets DEF IInv, TypeOK
<1>3. ASSUME NEW w \in Workers, pc[w] = "report"
      PROVE  Len(pchan) < NumPaths
  <2>1. job[w] \in Unreported
    BY <1>3 DEF Unreported, Working
  <2>2. Cardinality(Unreported) # 0
    BY <1>2, <2>1, FS_EmptySet
  <2> QED  BY <1>2, <2>2 DEF IInv, Accounted
<1>4. ReportNeverBlocks
  BY <1>3 DEF ReportNeverBlocks, PchanCap
<1>5. ShutdownIsSafe
  <2> SUFFICES ASSUME main \in {"stop", "returned"}
               PROVE  taken = NumPaths /\ \A w \in Workers : ~Busy(w)
    BY DEF ShutdownIsSafe
  <2>1. taken \in 0 .. NumPaths /\ 1 \in Workers
    BY PoolAssumption DEF IInv, TypeOK, Workers
  <2>2. taken = NumPaths
    BY <2>1, MainWaits
  <2>3. ASSUME NEW w \in Workers PROVE ~Busy(w)
    BY <2>3, MainWaits
  <2> QED  BY <2>2, <2>3
<1>6. NoWorkerOutlivesChannels
  BY PoolAssumption DEF IInv, MainKnows, StoppedInOrder, NoWorkerOutlivesChannels, Workers
<1>7. NothingLost
  <2> SUFFICES ASSUME main = "returned"
               PROVE  /\ Range(pluginPaths) \cup Range(errors) = Tasks
                      /\ Len(pluginPaths) + Len(errors) = NumPaths
    BY DEF NothingLost
  <2>1. pchan = <<>> /\ Unreported = {}
    BY <1>2 DEF IInv, MainKnows
  <2>2. Range(pchan) = {} /\ Len(pchan) = 0 /\ Cardinality(Unreported) = 0
    BY <2>1, RangeEmpty, FS_EmptySet
  <2>3. OkTasks = Range(pluginPaths) /\ ErrTasks = Range(errors)
    BY <2>2 DEF OkTasks, ErrTasks
  <2> QED  BY <1>2, <2>1, <2>2, <2>3 DEF IInv, Accounted
<1> QED  BY <1>1, <1>4, <1>5, <1>6, <1>7

(* main.go:86-107, 140: the WaitGroup stands at the number of compositions   *)
(* compile has not returned for, whatever the order the workers finish in.   *)
THEOREM WaitGroupCorrect == Spec => []WaitGroupCounts
BY IInvSafe, Invariance, PTL

(* main.go:90, 182: the buffer of `pchan` always has room for a result. *)
THEOREM NeverBlocksOnReport == Spec => []ReportNeverBlocks
BY IInvSafe, Invariance, PTL

(* main.go:107-131: the pool is stopped only when it has nothing left to do. *)
THEOREM SafeShutdown == Spec => []ShutdownIsSafe
BY IInvSafe, Invariance, PTL

(* main.go:91-92, 127-134: the channels are closed after the last worker has *)
(* returned.                                                                 *)
THEOREM ChannelsOutliveWorkers == Spec => []NoWorkerOutlivesChannels
BY IInvSafe, Invariance, PTL

(* main.go:112-125: every composition is returned or logged, and only once. *)
THEOREM EveryResultCollected == Spec => []NothingLost
BY IInvSafe, Invariance, PTL

(* main.go:159-182: compile reports once, either an error or a path.         *)
THEOREM VerdictsApart == Spec => []OneVerdict
BY IInvSafe, Invariance, PTL

-------------------------------------------------------------------------------
(* The files, when no two compositions share one *)

LEMMA InitFiles == Init => FilesInv
<1> SUFFICES ASSUME Init PROVE FilesInv
  OBVIOUS
<1>1. OkTasks = {}
  BY RangeEmpty DEF Init, OkTasks
<1> QED  BY <1>1 DEF Init, FilesInv, CompiledMeansBuilt, SoFiles

(* A step that leaves the files and the workers that looked for them alone. *)
LEMMA FilesKept ==
  ASSUME FilesInv, UNCHANGED <<disk, late>>, OkTasks' = OkTasks,
         \A w \in Workers : pc'[w] \in {"stat", "report"} /\ ~failed'[w] =>
           /\ pc[w] \in {"stat", "report"} /\ ~failed[w]
           /\ job'[w] = job[w]
  PROVE  FilesInv'
BY DEF FilesInv, CompiledMeansBuilt

LEMMA NextFiles ==
  ASSUME PathsApart, IInv, FilesInv, [Next]_vars PROVE FilesInv'
<1> USE DEF mainVars, workerVars, fileVars
<1>1. /\ pc \in [Workers -> {"select", "build", "stat", "report", "done", "returned"}]
      /\ job \in [Workers -> 0 .. NumPaths] /\ failed \in [Workers -> BOOLEAN]
      /\ disk \in [SoFiles -> Tasks \cup {NoFile, Stale}]
      /\ \A t \in Tasks : SoName(t) \in SoFiles
      /\ \A w \in Workers : Busy(w) => job[w] \in Tasks
  BY PathsAssumption DEF IInv, TypeOK, JobsApart, Tasks, SoFiles
<1>2. ASSUME UNCHANGED <<pchan, pluginPaths>> PROVE OkTasks' = OkTasks
  BY <1>2 DEF OkTasks
<1>3. CASE Main
  <2>1. OkTasks' = OkTasks
    BY <1>2, <1>3, CollectMoves DEF Main, Submit, Waited, StopWorker, Return
  <2>2. UNCHANGED <<disk, late, failed, job>>
    BY <1>3 DEF Main, Submit, Waited, Collect, StopWorker, Return
  <2>3. \A w \in Workers : pc'[w] = pc[w] \/ pc'[w] = "returned"
    BY <1>1, <1>3 DEF Main, Submit, Waited, Collect, StopWorker, Return
  <2> QED  BY <2>1, <2>2, <2>3, FilesKept
<1>4. ASSUME NEW w \in Workers, Take(w) \/ Done(w)
      PROVE  FilesInv'
  <2>1. UNCHANGED <<disk, late>> /\ OkTasks' = OkTasks
    BY <1>2, <1>4 DEF Take, Done
  <2>2. \A v \in Workers : pc'[v] \in {"stat", "report"} /\ ~failed'[v] =>
          pc[v] \in {"stat", "report"} /\ ~failed[v] /\ job'[v] = job[v]
    BY <1>1, <1>4 DEF Take, Done
  <2> QED  BY <2>1, <2>2, FilesKept
<1>5. ASSUME NEW w \in Workers, StatFinds(w) \/ StatMisses(w)
      PROVE  FilesInv'
  <2>1. UNCHANGED <<disk, late>> /\ OkTasks' = OkTasks
    BY <1>2, <1>5 DEF StatFinds, StatMisses
  <2>2. \A v \in Workers : pc'[v] \in {"stat", "report"} /\ ~failed'[v] =>
          pc[v] \in {"stat", "report"} /\ ~failed[v] /\ job'[v] = job[v]
    BY <1>1, <1>5 DEF StatFinds, StatMisses
  <2> QED  BY <2>1, <2>2, FilesKept
<1>6. ASSUME NEW w \in Workers, BuildLags(w)
      PROVE  FilesInv'
  <2>1. /\ disk' = disk /\ late' = late \cup {job[w]} /\ job' = job /\ failed' = failed
        /\ pc' = [pc EXCEPT ![w] = "stat"] /\ OkTasks' = OkTasks
    BY <1>2, <1>6 DEF BuildLags
  <2> QED  BY <1>1, <2>1 DEF FilesInv, CompiledMeansBuilt
<1>7. ASSUME NEW t \in Tasks, disk' = [disk EXCEPT ![SoName(t)] = t], late' \in {late, late \ {t}}
      PROVE  /\ \A s \in Tasks : disk'[SoName(s)] = IF s = t THEN t ELSE disk[SoName(s)]
             /\ \A s \in Tasks : disk[SoName(s)] = s \/ s \in late =>
                                   disk'[SoName(s)] = s \/ s \in late'
  <2>1. \A s \in Tasks : disk'[SoName(s)] = IF s = t THEN t ELSE disk[SoName(s)]
    BY <1>1, <1>7 DEF PathsApart
  <2> QED  BY <2>1, <1>7
<1>8. OkTasks \subseteq Tasks
  BY DEF IInv, Accounted
<1>9. ASSUME NEW w \in Workers, BuildWrites(w)
      PROVE  FilesInv'
  <2>1. /\ disk' = [disk EXCEPT ![SoName(job[w])] = job[w]] /\ late' = late
        /\ job' = job /\ failed' = failed /\ job[w] \in Tasks
        /\ pc' = [pc EXCEPT ![w] = "stat"] /\ OkTasks' = OkTasks
    BY <1>1, <1>2, <1>9 DEF BuildWrites, Busy
  <2>2. /\ \A s \in Tasks : disk'[SoName(s)] = IF s = job[w] THEN job[w] ELSE disk[SoName(s)]
        /\ \A s \in Tasks : disk[SoName(s)] = s \/ s \in late =>
                              disk'[SoName(s)] = s \/ s \in late'
    BY <1>7, <2>1
  <2> QED  BY <1>1, <1>8, <2>1, <2>2 DEF FilesInv, CompiledMeansBuilt, Busy
<1>13. ASSUME NEW w \in Workers, BuildFails(w)
       PROVE  FilesInv'
  <2>1. /\ late' = late /\ job' = job /\ job[w] \in Tasks /\ OkTasks' = OkTasks
        /\ disk' = disk \/ disk' = [disk EXCEPT ![SoName(job[w])] = job[w]]
        /\ \A v \in Workers : pc'[v] \in {"stat", "report"} /\ ~failed'[v] =>
             pc[v] \in {"stat", "report"} /\ ~failed[v]
    BY <1>1, <1>2, <1>13 DEF BuildFails, Busy
  <2>2. CASE disk' = disk
    BY <2>1, <2>2, FilesKept
  <2>3. CASE disk' = [disk EXCEPT ![SoName(job[w])] = job[w]]
    <3>1. /\ \A s \in Tasks : disk'[SoName(s)] = IF s = job[w] THEN job[w] ELSE disk[SoName(s)]
          /\ \A s \in Tasks : disk[SoName(s)] = s \/ s \in late =>
                                disk'[SoName(s)] = s \/ s \in late'
      BY <1>7, <2>1, <2>3
    <3> QED  BY <1>1, <1>8, <2>1, <3>1 DEF FilesInv, CompiledMeansBuilt, Busy
  <2> QED  BY <2>1, <2>2, <2>3
<1>10. ASSUME NEW t \in Tasks, Appears(t)
       PROVE  FilesInv'
  <2>1. /\ disk' = [disk EXCEPT ![SoName(t)] = t] /\ late' = late \ {t}
        /\ UNCHANGED <<pc, job, failed>> /\ OkTasks' = OkTasks
    BY <1>2, <1>10 DEF Appears
  <2>2. /\ \A s \in Tasks : disk'[SoName(s)] = IF s = t THEN t ELSE disk[SoName(s)]
        /\ \A s \in Tasks : disk[SoName(s)] = s \/ s \in late =>
                              disk'[SoName(s)] = s \/ s \in late'
    BY <1>7, <2>1
  <2> QED  BY <1>1, <1>8, <2>1, <2>2 DEF FilesInv, CompiledMeansBuilt, Busy
<1>11. ASSUME NEW w \in Workers, Report(w)
       PROVE  FilesInv'
  <2>1. /\ UNCHANGED <<disk, late, job, failed>> /\ pc[w] = "report"
        /\ pc' = [pc EXCEPT ![w] = "done"]
        /\ OkTasks' = IF failed[w] THEN OkTasks ELSE OkTasks \cup {job[w]}
    BY <1>11, ReportMoves DEF Report
  <2>2. CompiledMeansBuilt'
    BY <2>1 DEF FilesInv, CompiledMeansBuilt
  <2> QED  BY <1>1, <2>1, <2>2 DEF FilesInv
<1>12. CASE UNCHANGED vars
  <2>1. UNCHANGED <<disk, late, pc, job, failed>> /\ OkTasks' = OkTasks
    BY <1>2, <1>12 DEF vars
  <2> QED  BY <2>1, FilesKept
<1> QED  BY <1>3, <1>4, <1>5, <1>6, <1>9, <1>10, <1>11, <1>12, <1>13 DEF Next, Worker, Terminated

(* main.go:98-99, 159-182: when no two compositions share a .so, a           *)
(* composition reported as compiled has its own code in its .so, or had not  *)
(* shown up when compile gave up looking for it.                             *)
THEOREM BuiltWhenReported ==
  ASSUME PathsApart
  PROVE  Spec => []CompiledMeansBuilt
<1>1. IInv /\ FilesInv /\ [Next]_vars => FilesInv'
  BY NextFiles
<1>2. FilesInv => CompiledMeansBuilt
  BY DEF FilesInv
<1> QED  BY <1>1, <1>2, InitFiles, Invariance, PTL DEF Spec

-------------------------------------------------------------------------------
(* CompilePool implements CompileAll *)

LEMMA AbstractInit == Init => Abstract!Init
<1> SUFFICES ASSUME Init PROVE Abstract!Init
  OBVIOUS
<1>1. OkTasks = {} /\ ErrTasks = {}
  BY RangeEmpty DEF Init, OkTasks, ErrTasks
<1> QED  BY <1>1 DEF Init, Abstract!Init, verdictBar, returnedBar, resultBar

(* A step that neither reports nor returns is a stutter. *)
LEMMA Stutter ==
  ASSUME OkTasks' = OkTasks, ErrTasks' = ErrTasks,
         (main' # "returned" /\ main # "returned") \/ UNCHANGED <<main, pluginPaths>>
  PROVE  UNCHANGED Abstract!vars
<1>1. verdictBar' = verdictBar
  BY DEF verdictBar
<1>2. returnedBar' = returnedBar /\ resultBar' = resultBar
  BY DEF returnedBar, resultBar
<1> QED  BY <1>1, <1>2 DEF Abstract!vars

(* Every step of the pool is a step of CompileAll or a stutter. *)
LEMMA AbstractStep == IInv /\ [Next]_vars => [Abstract!Next]_Abstract!vars
<1> SUFFICES ASSUME IInv, [Next]_vars PROVE [Abstract!Next]_Abstract!vars
  OBVIOUS
<1>1. CASE Return
  <2>1. /\ main = "stop" /\ main' = "returned" /\ OkTasks' = OkTasks /\ ErrTasks' = ErrTasks
        /\ pluginPaths' = pluginPaths
    BY <1>1 DEF Return, OkTasks, ErrTasks
  <2>2. OkTasks = Range(pluginPaths) /\ ErrTasks = Range(errors) /\ OkTasks \cup ErrTasks = Tasks
    <3>1. pchan = <<>> /\ Unreported = {}
      BY <2>1, JobSets DEF IInv, MainKnows
    <3> QED  BY <3>1, RangeEmpty DEF IInv, Accounted, OkTasks, ErrTasks
  <2>3. verdictBar' = verdictBar /\ \A t \in Tasks : verdictBar[t] # "pending"
    BY <2>1, <2>2 DEF verdictBar
  <2>4. resultBar' = {t \in Tasks : verdictBar[t] = "compiled"}
    BY <2>1, <2>2 DEF resultBar, verdictBar
  <2>5. ~returnedBar /\ returnedBar' = TRUE
    BY <2>1 DEF returnedBar
  <2>6. Abstract!Return
    BY <2>3, <2>4, <2>5 DEF Abstract!Return
  <2> QED  BY <2>6 DEF Abstract!Next
<1>2. CASE Collect
  BY <1>2, CollectMoves, Stutter DEF Collect
<1>3. CASE Submit \/ Waited \/ StopWorker
  BY <1>3, Stutter DEF Submit, Waited, StopWorker, OkTasks, ErrTasks
<1>4. ASSUME NEW w \in Workers, Report(w)
      PROVE  [Abstract!Next]_Abstract!vars
  <2>1. /\ main' = main /\ pluginPaths' = pluginPaths
        /\ OkTasks' = IF failed[w] THEN OkTasks ELSE OkTasks \cup {job[w]}
        /\ ErrTasks' = IF failed[w] THEN ErrTasks \cup {job[w]} ELSE ErrTasks
    BY <1>4, ReportMoves DEF Report, mainVars
  <2>2. job[w] \in Tasks /\ job[w] \notin OkTasks /\ job[w] \notin ErrTasks
    <3>1. job[w] \in Unreported
      BY <1>4 DEF Report, Unreported, Working
    <3> QED  BY <3>1 DEF IInv, Accounted
  <2>3. verdictBar[job[w]] = "pending"
    BY <2>2 DEF verdictBar
  <2>4. verdictBar' = [verdictBar EXCEPT ![job[w]] = IF failed[w] THEN "failed" ELSE "compiled"]
    BY <2>1, <2>2 DEF verdictBar
  <2>5. UNCHANGED <<returnedBar, resultBar>>
    BY <2>1 DEF returnedBar, resultBar
  <2>6. Abstract!Decide(job[w])
    BY <2>3, <2>4, <2>5 DEF Abstract!Decide, Abstract!Verdicts
  <2> QED  BY <2>2, <2>6 DEF Abstract!Next
<1>5. ASSUME NEW w \in Workers, Worker(w), ~Report(w)
      PROVE  [Abstract!Next]_Abstract!vars
  <2>1. UNCHANGED <<main, pchan, pluginPaths, errors>>
    BY <1>5 DEF Worker, Take, BuildFails, BuildWrites, BuildLags, StatFinds, StatMisses, Done,
       mainVars
  <2> QED  BY <2>1, Stutter DEF OkTasks, ErrTasks
<1>6. CASE UNCHANGED vars \/ \E t \in Tasks : Appears(t)
  <2>1. UNCHANGED <<main, pchan, pluginPaths, errors>>
    BY <1>6 DEF Appears, mainVars, vars
  <2> QED  BY <2>1, Stutter DEF OkTasks, ErrTasks
<1> QED  BY <1>1, <1>2, <1>3, <1>4, <1>5, <1>6 DEF Next, Main, Terminated

(* compilePlugins (main.go:60-135) gives every composition one verdict, never *)
(* revised, and returns exactly those it compiled, for every number of       *)
(* compositions and workers.                                                 *)
THEOREM Refinement == Spec => Abstract!Spec
BY Invariance, AbstractInit, AbstractStep, PTL DEF Spec, Abstract!Spec

===============================================================================
