# Verification of crossbuilder

TLA+ models of crossbuilder, the TLC runs that check them and the TLAPS proofs
about them. Everything is translated from the Go source; where a document or a
comment and the code disagree, the model follows the code and a run shows the
difference. Paths are relative to the repository, and `build/` stands for
`pkg/generate/composition/build/`, `xrd/` for `pkg/generate/xrd/`.

## 1. The system

Crossbuilder is two programs. `xrd-gen` turns Go API types into Crossplane
XRDs. `xrc-gen` runs the generators of a repository, compiles every directory
with a `main.go` into a Go plugin, loads the plugins, has each of them build a
composition through a fluent API, checks the patches of the composition against
the Go types, and writes it as YAML.

| component | state | operations | module |
|---|---|---|---|
| compile pool, `cmd/xrc-gen/main.go:42-183` | ten worker goroutines, the channels `plugins`, `pchan` and `stop[i]`, a WaitGroup, the `.so` files | submit, wait, drain, stop, return; take, build, stat, retry, report, done | `CompilePool`, promise in `CompileAll` |
| main sequence, `main.go:230-354` | `packages`, what is on disk, what was logged | generators, compile, load, build, write | `XrcGen` |
| runner and writer, `build/builder.go`, `writer.go` | the compositions built, the output files | `Build`, `Write` | `XrcGen`, promise in `Publish` |
| skeleton, `build/composite.go`, `composed.go`, `pipeline.go`, `patches.go` | mode, registered paths, resources with their patches, pipeline steps | the `With*`, `New*` and `Register*` calls, `ToComposition` | `Skeleton` |
| field paths, `build/fieldpath.go` | the walk: type and segment | `ValidateFieldPath` | `FieldPath` |
| `runCmd`, `main.go:185-228` | context, process, output buffers, four goroutines, the clock | start, wait, cancel, log | `RunCmd` |
| templates, `build/templates.go` | the globals `templates`, `TemplateBasePath` | `SetBasePath`, `AddTemplate`, `LoadTemplate` | `Templates`, in `XrcGen` |
| XRD generator and markers, `xrd/*.go`, `xrd/markers/*.go`, `utils/io` | the marker registry, the parser's indexes, the CRDs in memory, the XRDs, what the output rule was given | `RegisterMarkers`, `NeedPackage`, `Generate`, `ApplyForXRD`, the output rule | `XrdGen` |
| command line of `xrd-gen`, `cmd/xrd-gen/main.go` | the options registry, generators still to run, errors so far, exit status | version, help, marker docs, options, run, usage | `XrdCmd` |
| `utils`, examples | none of their own | | not modelled |

How they interact. `main` calls the generators, then `compilePlugins`, which
talks to its workers over channels and returns paths; `loadPlugin` puts each
builder into the global `packages`, in the order in which the builds finished;
`Runner.Build` first lets all builders build in that order (each calls back into
its skeleton, and may load templates through globals all of them share) and
only then hands the compositions to the writer. Generators and builds are
commands run by `runCmd`. `ToComposition` calls `ValidateFieldPath` for the paths of every
safe patch. `xrd-gen` runs as a child process of the generators, perhaps with
a second generator over the same packages, whose errors it shares. Inside, the
XRD parser and the CRD generator of controller-tools read the same packages,
and the CRDs come back through a writer that parses what it was given when it
is closed.

What is hard to test here: the interleavings of main and ten workers around
five synchronisation objects; builds that fail, do not show up or take three
tries; a command that ends, is killed or leaves a child with its output behind,
at any moment around its deadline; globals shared by plugins that run in an
order nobody chose; one file under two names; a run that ends in the middle and what it
leaves on disk; registrations in any order relative to the patches that need
them; types inlined in types; and loops over Go maps, which take another order
every time. PROJECT.json lists each of these at its line, with the property
that covers it.

## 2. Modules

Each definition that models code carries its source lines in PROJECT.json.
Operators marked `mutant` in a comment are wrong variants of the definition
below them, the way a plausible bug would have it; they are not part of any
specification. For each property one of them makes TLC find a violation.

**CompileAll** is what a caller of `compilePlugins` may rely on: every
composition gets one verdict, never revised; the call returns after the last
one, with exactly the compositions compiled.

**CompilePool** is the implementation. A job is the index of its composition.
One goroutine fills `plugins` in order and the channel is FIFO, so two counters
(`sent`, `taken`) are its content; `pchan` is a sequence because its order
matters. The unbuffered stop channel is a rendezvous: `StopWorker` is enabled
when the worker is in its `select`. Steps are as fine as the synchronisation:
a worker's build, its `os.Stat`, its report and its `wg.Done()` are steps of
their own. `runCmd` either fails (`BuildFails`), perhaps after the file was
written, or succeeds and its file is there (`BuildWrites`) or not yet
(`BuildLags`, `Appears`). `.so` files may be
left from an earlier run. A path is a sequence of segments of words, so that
joining with `_` can make two paths one. Nothing is bounded by hand: the
numbers of compositions and of workers are constants.

**RunCmd** is one call of `runCmd`: its own goroutine, the one it starts to
cancel the command, and the two kinds that os/exec starts, of which it models
what `runCmd` relies on: `Wait` hands over to the goroutine that watches the
context, then waits for the output to end or for `WaitDelay` to run out. Time is
counted in ticks and passes only while `runCmd` has to wait for the process or
its output; the cancelling goroutine may be late all the same, so it may find the
context cancelled by `runCmd` itself. `Limit` is the number of ticks in 300
seconds, and the only parameter.

**Publish** is what a run of `xrc-gen` does to the output: compositions may fail
as long as nothing is written; then the run commits to an order of those left
and writes one after the other; a write that fails is logged and ends the run,
with that one file as it was or torn.

**Templates** is the three functions and two globals of `templates.go`. Of a
template the model knows its file; `text` is what the builder that runs got last.

**XrcGen** is one run of the program, and implements `Publish`. The pool is
`CompileAll` (which `CompilePool` is shown to implement), and each builder may
call `Templates` any number of times before it returns. A composition is its directory; of a
directory the model knows the word its path starts with, which is what the code
tests. Every step that can fail may fail, at any point, and builders may panic.
What is kept of the output is whose composition each file holds.

**Skeleton** is one composition. The builder may make its calls in any order,
and `ToComposition` is split into a step for each resource and each patch. A
patch is its type, the paths it reads (one, or one per variable of a combine)
and the path it writes; a path is a model value with a number of segments, and
whether it exists in a type is a constant, because that is what `FieldPath` is
about. A base is a reference: two resources may have one object, and the kind
set on an object is told by the resource it was given with. Patches of pipeline steps are only counted, since nothing looks at
them. `MaxParts`, `MaxPatches` and `MaxRegistered` bound the builder's calls and
nothing else.

**FieldPath** is the walk along one path. Its inputs are tables of types as
reflection shows them (kind, fields in order with key and inline flag, element
type; interfaces, and types with a JSON form of their own making, are not told
apart from scalars). The reference it is compared with, `JsonTypes`, knows nothing of field
order or recursion: it computes the set of fields of a JSON object (those of
all structs in every set closed under inlining) and the types a path can lead
to. In the reference a map has every key, as in JSON; the code has none for it, and
refuses a path into a map as not supported (`build/fieldpath.go:18, 90-92`). Looking a key up recurs on the struct in the code; here it is a recursive
function over the types of the table (`GetObjectField`), which the proofs need to
be defined: a Go struct cannot contain itself, so structs inlined are less deep
(`TablesAssumption`).

**XrdGen** is the generator `xrd`: `RegisterMarkers`, and one call of `Generate`. Map iteration is a choice at
each step: the order in which CRDs are converted and in which packages apply
their markers is free. Markers that do not parse are reported twice, once by
each of the calls in `indexTypes` that need them (`errors`). The CRD generator is
external: which kinds it finds, that it may fail, and that it may leave errors on
packages and end well (`crdErrors`) is taken from how `generator.go` uses it. It
gives each CRD to the writer of `crd_storage.go`, whose `Close` parses it
(`StoreCRD`) or not: the error of `Close` is dropped by the caller, and the CRD is
missing from then on (`LoseCRD`, remembered in `lost`). `output` is the XRDs that
`ctx.WriteYAML` was called with. Schemas, printer columns and names are data and
left out.

**XrdCmd** extends it to the program `xrd-gen`: what the flags and options make
it do, the generators in turn (`object`, the deepcopy generator of
controller-tools, may fail or not; they run in the order of the command line, so
that the line is a sequence of generators and a set of other options), where the
output rule of the line puts the XRDs (`files` for `dir` and `artifacts`, `stdout`,
nowhere for `none`), and with which status and with or without
the usage it exits. A flag or option that does not parse, and packages that do
not load, are `NotUnderstood`, whatever the line says. The panic at
`cmd/xrd-gen/main.go:202`, for an error while the usage is printed, is left out.

**MC...** modules give the constants their values for TLC.
**CompilePoolProofs**, **RunCmdProofs**, **XrcGenProofs**, **SkeletonProofs**,
**XrdGenProofs**, **XrdCmdProofs** and **FieldPathProofs** hold the theorems about the module they are
named after, **SequenceFacts** the lemmas on sequences that they share.

## 3. Runs

Passing runs:

| run | instance | shows |
|---|---|---|
| MCCompilePool | 3 compositions, 2 workers, with stale files or none | `WaitGroupCounts`, `ReportNeverBlocks`, `ShutdownIsSafe`, `NoWorkerOutlivesChannels`, `NothingLost`, `OneVerdict`, `CompiledMeansBuilt`, and the inductive invariant `IInv` that the proofs use |
| MCCompilePoolLive | 2 compositions, 3 workers | `ImplementsCompileAll` with its liveness, `FailureIsLogged` |
| MCRunCmd | a limit of 3 ticks | `ReturnsInTime`, `SettledOutput`, `SuccessIsComplete`, `FailureHasCause`; `TimeoutIsLogged`, `Terminates` |
| MCXrcGen | 6 directories: 3 compositions, 2 of them with one output file; 3 with generators; `pkg`, `crossbuilder`; templates at the root and under 2 compositions | `PrimaryFirst`, `AllOrNothing`, `ErrorsAreNotWritten`, `EveryCompositionAccounted`, `OwnTemplates`, `ImplementsPublish` |
| MCSkeleton | 2 resources or steps, 2 patches of 8 kinds, 1 registration | `SafePatchesChecked`, `NoFalseRefusal`, `OutputFaithful`, `KindsKept`, `PipelineWhole` |
| MCFieldPath | 864 type tables, 40 paths, registered paths or none | `WalkIsSound`, `WalkIsComplete` |
| MCXrdCmd | 48 command lines, with XRDs to files, to the standard output and nowhere; 7 packages, 2 groups, one API in three versions that disagree, 2 kinds with one plural | `MarkersFromOwnGroup`, `MarkersApplied`, `NothingWrittenEarly`, `ExitZeroMeansWritten`, `UsageIfToBlame` |

Runs in which the code does not do what a document says:

| run | what happens |
|---|---|
| MCCompilePoolEmpty | with no composition, `compilePlugins` never returns (`main.go:113`; README.md:91) |
| MCCompilePoolRetries | used-up retries are no error: `retries <= 0` is dead code (`main.go:175`) |
| MCFieldPathKnown | one registered path admits all paths of its length (`build/fieldpath.go:68`) |
| MCSkeletonKnown | the annotations known by default are registered too late (`build/composed.go:92`) |
| MCSkeletonStep | a pipeline step with patches gets no function, and the program panics (`build/composite.go:258`; `skeleton.go:136-139`) |

More differences are plain from a line or two each and have no run; the models
contain them all the same:

- `a/b` and `a_b` share a `.so` (`main.go:98`): the later build overwrites the
  earlier, and one composition is loaded with the other's code. The pool's
  `CompiledMeansBuilt` therefore assumes `PathsApart`, as `XrcGen` does.
- A command may take ten minutes where `main.go:186` has five: `WaitDelay` adds
  the deadline once more (`ReturnsInTime`).
- `AddTemplate` has no effect: `LoadTemplate` empties the list first
  (`build/templates.go:14, 24`).
- The example `pipelineexample` loads its templates without setting the base
  path, so what it finds depends on the builders before it in the load order.
  `OwnTemplates` is about builders that do what README.md:54-57 shows.
- The examples in the help of `xrd-gen` (`cmd/xrd-gen/main.go:132-146`) use `rbac`,
  `crd` and `schemapatch`, which are not registered, and run "all the generators"
  by naming none, which line 171 refuses.
- `xrd-gen -wwwww` prints nothing and exits with 0 (`cmd/xrd-gen/main.go:225`).
- A generator that fails ends the others, and compilation goes on
  (`main.go:319-322`); README.md:82-86 has xrd-gen run on all directories first.
- Only paths with the prefix `crossbuilder` are left out (`main.go:266`);
  README.md:85-86 also names `pkg` and `internal`.
- Two compositions with the same name and group prefix are written to one file
  without an error (`build/writer.go:56-69`): the one that was loaded last is left.
- When two versions of a type have one marker with different values, the order of
  the Go map `GroupVersions` says which of them the XRD gets (`xrd/parser.go:128`),
  so it may change from run to run. The model has every order;
  `MarkersFromOwnGroup` and `MarkersApplied` hold of each winner.
- A CRD that does not parse when it is stored is lost without a trace
  (`xrd/crd_storage.go:45-48`): its error is that of `Close`, which nobody looks
  at. `xrd-gen` writes the other XRDs and exits with 0.
- Of several versions of an XRD none is referenceable (`xrd/generator.go:202`);
  the comment above asks for exactly one and says that this case breaks.

Why the bounds are enough. Pool: three compositions are more than two workers,
so jobs queue, a worker takes a second job and results of all three wait in
`pchan`; two compositions for three workers leave a worker idle from start to
stop. The proofs remove the bounds for everything but liveness. RunCmd: three
ticks let everything happen before, at and after the deadline and the end of
the `WaitDelay`, and the proofs hold for any limit. XrcGen: three compositions
give a first, a middle and a last one to every loop, and two that share a file
leave one that does not; a builder has none, one or two templates to find, and
`MaxAdded` lets one be added to a load of one or two. Skeleton: a second
resource shows what leaks from one to the other, a second patch what leaks
within one, and one registration is enough to help a path it should not help;
the paths exist on either side, on neither, are known by default, empty, or do
not parse. Field paths: three segments go through every pair of kinds, and
structs are inlined two deep. XrdCmd: three versions that disagree, of which
two may fail to parse, a second group with a type of the same name, and every
reason for which a package does not count.

`XrcGen` without compositions stops short of `Compiled`, since the pool does not
return; that case is MCCompilePoolEmpty's: main then waits for ever, which is
what the run is about, so it does not check for deadlock. `FieldPath`'s `WalkIsComplete` is about plain types: no pointers to pointers, no inlined
pointers (`getObjectField` refuses both) and no key twice; and a path into a map is
excused, such as `metadata.labels[x]`, which exists in JSON and is refused as not
supported (`build/fieldpath.go:18, 90-92`). `CompiledMeansBuilt`
needs distinct `.so` names. `ExitZeroMeansWritten` says nothing of the output rule
`none`, and excuses by name a kind whose place another of the same plural took
and a CRD that did not parse. `SuccessIsComplete` is about what was copied into
the buffers: `bufio.Scanner` may still stop at a line that is too long
(`main.go:219`).

Fairness. `RunCmd` and the pool have liveness properties. In `RunCmd` every
goroutine that can run does, the output is read to its end once it is closed,
and the clock goes on; no fairness makes the process exit or others close its
output, and none is needed. A killed process is taken to be gone at once. In the
pool: `WF_vars(Main)` and
`WF_vars(Worker(w))`: the Go scheduler is preemptive and runs every goroutine
that can run, and a step of a worker that stands for `go build` ends because
of `Terminates` of `RunCmd`. No fairness is assumed
of `Appears`: a file that is late may never come. A worker that loops in
`select` cannot starve main: `StopWorker` becomes enabled when the worker is
idle and stays so, as no job is left by then (`ShutdownIsSafe`).

## 4. Proofs

`CompilePoolProofs` proves, for every number of compositions and workers, from
`PathsAssumption`, `PoolAssumption` (at least one worker) and `FilesAssumption`:

- `Invariance`: `Spec => []IInv`
- `TypeCorrect`, `WaitGroupCorrect`, `NeverBlocksOnReport`, `SafeShutdown`,
  `ChannelsOutliveWorkers`, `EveryResultCollected`, `VerdictsApart`: the
  invariants of MCCompilePool
- `BuiltWhenReported`: `CompiledMeansBuilt`, assuming `PathsApart`
- `Refinement`: `Spec => Abstract!Spec`, the safety part of `ImplementsCompileAll`

The argument. That main finds all results and no busy worker after `wg.Wait()`
follows from where each composition is, not from the counter alone. `IInv`
says that every composition is in exactly one place: not taken, with one
worker, in `pchan`, or drained (`Accounted`, `JobsApart`); that the WaitGroup
is the number of those in the first two, workers that have reported and not
called `Done` included (`WaitGroupCounts`); and what main knows at each
program point (`MainKnows`, `StoppedInOrder`). `Accounted` bounds the length
of `pchan` together with the jobs without result by `NumPaths`, so a worker
with a result finds room (`ReportNeverBlocks`). When the counter is zero nobody
is busy and everything is taken, and as nothing can be taken any more this stays
so (`ShutdownIsSafe`). The drain loop's counter is one more than what has been
drained (`MainKnows`), so it ends with the channel empty (`NothingLost`). None of
the safety properties is inductive alone; `IInv` is, and TLC checks it as well.

The proofs are one lemma per group of steps (`TakeIInv`, `ReportIInv`, `DoneIInv`,
`CollectIInv`, `MainIInv`, `LoopStep` for the steps that only move a worker
through its loop), lemmas on the range of a sequence, and `FilesInv` for the
`.so` files, kept apart because it needs `PathsApart`.

`RunCmdProofs` proves, for every `Limit` above 0 (`LimitAssumption`),
`Invariance` (`Spec => []IInv`), `TypeCorrect`, `InTime` (`ReturnsInTime`),
`OutputIsSettled` (`SettledOutput`), `SuccessTold` (`SuccessIsComplete`) and
`FailureTold` (`FailureHasCause`). The argument: where `runCmd` is says how far
the process and the goroutine of os/exec are (`ProcessFollows`); before `runCmd`
returns, only the deadline ends the context (`ContextEnds`), so the WaitDelay
begins at the deadline at the latest and nobody waits beyond it (`DelayInTime`,
which gives `ReturnsInTime`); a process killed and an error that names the
deadline or the WaitDelay mean that the deadline has passed, and output cut
short always comes with an error (`ErrorsTold`, which gives the last two
theorems).

`XrcGenProofs` proves, for any directories, output files and templates
(`DirsAssumption`, `MarksAssumption`, `TemplatesAssumption`), `Invariance`,
`TypeCorrect`, `PrimaryGeneratorsFirst` (`PrimaryFirst`), `BuildsBeforeWrites`
(`AllOrNothing`), `NoFileWithAnError` (`ErrorsAreNotWritten`), `AllAccounted`
(`EveryCompositionAccounted`), `BuildersGetTheirOwn` (`OwnTemplates`) and
`Implementation`: `Spec => ImplementsPublish`. The argument. A composition is
still to be loaded, or its builder is there, once, or its error was logged
(`Accounted`); both of the latter only where that error ended the run before the
composition was written (`LoggedLate`). With what each file holds, the last of
those written to it or a torn one (`LastWritten`), this says that no file has a
composition with an error and that none is forgotten, also where two share a file.
While a builder runs, a base path that it set is still its own, and what it loads
is its own, because the builders run one after the other and each load starts
from an empty list (`BasePathSet`). The refinement maps the compositions loaded to the order
`Publish` commits to: everything up to the end of the builds is a step of `Publish`
that fails a composition, its commit or a stutter (`PrepareStep`,
`CommitStep`), and each write is a write (`WriteStep`). Publish's commit needs
that the builders loaded are a permutation of the compositions without an error,
which is `Accounted` again.

`SkeletonProofs` proves, for any paths and patches that `PathsAssumption` and
`PatchesAssumption` admit and for any number of resources, patches and
registrations (`BoundsAssumption` has the bounds be natural numbers and no more),
`Invariance`, `TypeCorrect`, `PatchesAreChecked` (`SafePatchesChecked`),
`RefusalsHaveCause` (`NoFalseRefusal`), `FaithfulOutput` (`OutputFaithful`),
`KindsAreKept` (`KindsKept`) and `PipelinesAreWhole` (`PipelineWhole`). The
argument. The paths a patch is checked against are exactly those registered for its
own resource and for the composite, but for the annotations known by default
(`ParsedAreRegistered`), so that what is accepted had reason to be, and what is
refused too. The templates made are the first resources, each with the patches
given, in their order and as given, except that of the type
`FromCompositeFieldPath` may be left out, which is what it then means (`PatchesFollow`); a base has the kind of the last resource made with it
(`KindsFollow`); the pipeline steps made all have a function (`StepsFollow`).

`XrdGenProofs` proves that `XInv` is an invariant of the generator
(`GeneratorInvariance`) for any packages, kinds and markers that
`InfoAssumption`, `RootsAssumption` and `UnsetAssumption` admit, and
`XrdCmdProofs` carries it over to the program, for any command line
(`LinesAssumption`): `CmdInvariance`, `TypeCorrect` (`CmdTypeOK`),
`ValuesOfTheirGroup` (`MarkersFromOwnGroup`), `WrittenWithMarkers`
(`MarkersApplied`), `ConvertsBeforeWrites` (`NothingWrittenEarly`),
`ExitZeroIsTrue` (`ExitZeroMeansWritten`) and `UsageForTheUser`
(`UsageIfToBlame`). The argument. A package that was loaded does not parse, and then
there is an error of it, or does not count, or is in `GroupVersions` (`PackagesSorted`).
While markers are applied, each package that has one has yet to be asked, or the
field is set (`CurrentMarked`); what the XRDs have stays (`XrdsMarked`). Every
CRD waits, is being converted or is an XRD, which is said once of their number
(`Counted`) and once of their contents (`XrdsComplete`), and every API kind that is
not lost has a CRD of its plural with all versions of its kind (`CrdsComplete`).
`XrdTurn` adds what the program needs to know: when no generator is left, `xrd` has
ended, and if it failed `hadErrs` says so. Exit status 0 then means that
`Generate` returned without an error, that no package has one, and that all CRDs
in memory went to the output rule. The command needs no more of its steps than that each is a step of
the generator or leaves it alone (`GeneratorSteps`).

`FieldPathProofs` proves, for any finite tables of types without a struct inlined
in itself (`TablesAssumption`) and any paths (`PathsAssumption`), `Invariance`,
`TypeCorrect`, `AcceptedExists` (`WalkIsSound`) and `RefusedDoesNotExist`
(`WalkIsComplete`, for plain types and paths that do not lead into a map). The library's theorems on recursive definitions take
operators as parameters, so the inductions are done by hand, each from the least
number for which the claim fails (`Least`): that `JsonTypes` and `GetObjectField`
are functions that satisfy their definitions (`JsonTypesDef`, segment by segment;
`GetObjectFieldDef`, depth by depth, since `Search` looks only at what is less
deep, `SearchAgrees`), and that what is found is a field of the JSON object
(`FoundIsAField`, by the depth of the struct). That nothing is missed is no
induction: the structs in which nothing is found are closed under inlining
(`AFieldIsFound`). With both, a segment leads to one of the types its value can
have, and of plain types to the only one (`SegmentFacts`). `WalkIsComplete` is not
inductive without the latter, which is `OnlyType` in `IInv`: a type that is
one of several would say nothing about the others.

Each of these invariants was checked by TLC on the instance of its run before it
was proved. The proofs are one lemma per action, or per group of actions, and for
`XrdGen` one per part of the invariant, from two lemmas on which action changes
what (`WhoChangesWhat`, `WhereItGoes`). The theorems about `Skeleton`, `XrdGen`
and `XrdCmd` hold for whatever the external parts do within the models of them.

Only model-checked: the liveness of the pool (`FailureIsLogged`, and that part of
`ImplementsCompileAll`) and of `RunCmd` (`TimeoutIsLogged`, `Terminates`), since
temporal properties under fairness are beyond the proof system. Every safety
property of a passing run is proved.

## 5. Not modelled

Labels, annotations, connection details, readiness checks and inputs of steps,
which the skeleton passes through; JSON schemas, printer columns and names; the
text of templates; what is logged beyond errors and timeouts; `writerWriter`,
which neither program uses; package overrides of the XRD parser, which nobody
sets; the wording of help and usage. `utils/wrappers.go` and `utils/pointer.go`
construct values and keep no state. The examples are compositions and API types
for users to copy, and were read for how builders call the skeleton.

External code, modelled as far as `src/` relies on it: os/exec in `RunCmd`, the
file system in `CompilePool`, the runtime, the CRD and the deepcopy generator of
controller-tools in `XrdGen` and `XrdCmd`.

## 6. Plan

- The pool inside `XrcGen`: state that `XrcGen` relies on nothing of the pool
  but `CompileAll`, and that `Refinement` therefore carries over.
- An abstract specification of `xrd-gen` (what is asked for, what is written, which
  status) with `XrdCmd` as its refinement.
