-------------------------------- MODULE XrcGen ---------------------------------
(***************************************************************************)
(* One run of xrc-gen: main, runGenerators, filePathWalkDir and loadPlugin *)
(* of cmd/xrc-gen/main.go, Runner.Build of composition/build/builder.go    *)
(* and the directoryWriter of composition/build/writer.go.                 *)
(*                                                                         *)
(* Compiling the plugins is CompileAll, which CompilePool implements. The  *)
(* builders call Templates.                                                *)
(***************************************************************************)
EXTENDS Integers, Sequences, SequencesExt

CONSTANTS
  Dirs,       (* The directories of the repository in the order WalkDir      *)
              (* visits them. Of each: the word its path starts with, and    *)
              (* whether it has a generate.go and a main.go.                 *)
  OutFile,    (* OutFile[d]: the <group prefix>/<name>.yaml of the           *)
              (* composition in directory d.                                 *)
  NoFile,     (* There is no file.                                           *)
  Old,        (* The file is left from an earlier run.                       *)
  Torn,       (* The file was truncated by a write that failed.              *)
  NoBase, Size, MaxAdded      (* See Templates.                              *)

Words == {"internal", "pkg", "crossbuilder", "other"}

DirIds == 1 .. Len(Dirs)

ASSUME DirsAssumption ==
  /\ Dirs \in Seq([starts : Words, gen : BOOLEAN, main : BOOLEAN])
  /\ DOMAIN OutFile = DirIds
ASSUME MarksAssumption ==
  {NoFile, Old, Torn} \cap DirIds = {} /\ NoFile # Old /\ Old # Torn /\ NoFile # Torn

(* filePathWalkDir(".", file): the directories that hold the file, except    *)
(* where the path has the prefix "crossbuilder".                             *)
WalkDir(has) == {d \in DirIds : has[d] /\ Dirs[d].starts # "crossbuilder"}

Found == WalkDir([d \in DirIds |-> Dirs[d].main])

ASSUME TemplatesAssumption ==
  NoBase \notin Found /\ Size \in [Found \cup {NoBase} -> Nat] /\ MaxAdded \in Nat

OutFiles == {OutFile[d] : d \in Found}

(* runGenerators: what starts with "internal" or "pkg" comes first, and of   *)
(* two that do or do not the one that is walked first.                       *)
Primary(d)     == Dirs[d].starts \in {"internal", "pkg"}
GenPaths       == WalkDir([d \in DirIds |-> Dirs[d].gen])
AsWalked(d, e) == d < e                           \* mutant: in the order of the walk
Before(d, e)   == IF Primary(d) <=> Primary(e) THEN d < e ELSE Primary(d)

VARIABLES
  stage,      (* Where main is.                                              *)
  gen,        (* The directories whose generators have succeeded.            *)
  verdict, returned, result,   (* compilePlugins: see CompileAll.            *)
  unloaded,   (* The compositions main has yet to load.                      *)
  packages,   (* The builders loaded, in order.                              *)
  built,      (* How many builders have built their composition.             *)
  written,    (* How many compositions have been written.                    *)
  files,      (* Whose composition each output file holds.                   *)
  logged,     (* The compositions an error was logged for.                   *)
  TemplateBasePath, templates, set, text     (* See Templates.               *)

templateVars == <<TemplateBasePath, templates, set, text>>

vars == <<stage, gen, verdict, returned, result, unloaded, packages, built, written, files,
          logged, templateVars>>

compileVars == <<verdict, returned, result>>
runnerVars  == <<built, written, files>>

Compile == INSTANCE CompileAll WITH Tasks <- Found

Template == INSTANCE Templates WITH Bases <- Found

TypeOK ==
  /\ stage \in {"generate", "compile", "load", "build", "write", "exit", "crashed"}
  /\ gen \subseteq GenPaths
  /\ Compile!TypeOK
  /\ unloaded \in SUBSET Found
  /\ packages \in Seq(Found)
  /\ built \in 0 .. Len(packages)
  /\ written \in 0 .. built
  /\ files \in [OutFiles -> Found \cup {NoFile, Old, Torn}]
  /\ logged \in SUBSET Found
  /\ Template!TypeOK

Init ==
  /\ stage = "generate"
  /\ gen = {}
  /\ Compile!Init
  /\ unloaded = {}
  /\ packages = <<>>
  /\ built = 0
  /\ written = 0
  /\ files \in [OutFiles -> {NoFile, Old}]
  /\ logged = {}
  /\ Template!Init

-------------------------------------------------------------------------------
(* runGenerators *)

Everywhere == DirIds \ gen                        \* mutant: also without a generate.go
ToGenerate == GenPaths \ gen

(* The next `go generate` succeeds. *)
Generate(d) ==
  /\ stage = "generate"
  /\ d \in ToGenerate
  /\ \A e \in ToGenerate \ {d} : Before(d, e)
  /\ gen' = gen \cup {d}
  /\ UNCHANGED <<stage, compileVars, unloaded, packages, runnerVars, logged, templateVars>>

(* All generators have run, or one fails and is logged: main goes on. So it  *)
(* does when the working directory or the walk fails, before the first one.  *)
GeneratorsEnd ==
  /\ stage = "generate"
  /\ stage' = "compile"
  /\ UNCHANGED <<gen, compileVars, unloaded, packages, runnerVars, logged, templateVars>>

-------------------------------------------------------------------------------
(* compilePlugins *)

(* A composition is compiled, or the error is logged. *)
Decide(t) ==
  /\ stage = "compile"
  /\ Compile!Decide(t)
  /\ logged' = IF verdict'[t] = "failed" THEN logged \cup {t} ELSE logged
  /\ UNCHANGED <<stage, gen, unloaded, packages, runnerVars, templateVars>>

TakesAll == Found                                 \* mutant: errors are not filtered out
Returned == result'

(* compilePlugins returns. Over no compositions it never does: see           *)
(* CompilePool.                                                              *)
Compiled ==
  /\ stage = "compile"
  /\ Found # {}
  /\ Compile!Return
  /\ unloaded' = Returned
  /\ stage' = "load"
  /\ UNCHANGED <<gen, packages, runnerVars, logged, templateVars>>

(* The walk for main.go fails: compilePlugins logs that and returns nil. *)
WalkFails ==
  /\ stage = "compile"
  /\ \A t \in Found : verdict[t] = "pending"
  /\ stage' = "load"
  /\ logged' = Found
  /\ UNCHANGED <<gen, compileVars, unloaded, packages, runnerVars, templateVars>>

-------------------------------------------------------------------------------
(* main: loading *)

(* loadPlugin appends the builder. The results come in the order in which the *)
(* workers finished, so any order.                                           *)
Load(t) ==
  /\ stage = "load"
  /\ t \in unloaded
  /\ unloaded' = unloaded \ {t}
  /\ packages' = Append(packages, t)
  /\ UNCHANGED <<stage, gen, compileVars, runnerVars, logged, templateVars>>

(* plugin.Open or Lookup fails, or Builder has the wrong type. *)
LoadFails(t) ==
  /\ stage = "load"
  /\ t \in unloaded
  /\ unloaded' = unloaded \ {t}
  /\ logged' = logged \cup {t}
  /\ UNCHANGED <<stage, gen, compileVars, packages, runnerVars, templateVars>>

BreakOnError == unloaded = {} \/ unloaded \cup ToSet(packages) # result   \* mutant: break
AllTried     == unloaded = {}                     \* continue: a failed load skips only itself

Loaded ==
  /\ stage = "load"
  /\ AllTried
  /\ stage' = "build"
  /\ UNCHANGED <<gen, compileVars, unloaded, packages, runnerVars, logged, templateVars>>

-------------------------------------------------------------------------------
(* Runner.Build *)

(* The next builder, which may set the base path and load templates. *)
UseTemplates ==
  /\ stage = "build"
  /\ built < Len(packages)
  /\ Template!Calls(packages[built + 1])
  /\ UNCHANGED <<stage, gen, compileVars, unloaded, packages, runnerVars, logged>>

Build ==
  /\ stage = "build"
  /\ built < Len(packages)
  /\ built' = built + 1
  /\ Template!NextBuilder
  /\ UNCHANGED <<stage, gen, compileVars, unloaded, packages, written, files, logged>>

(* ToComposition returns an error: Build returns it, and main logs it. *)
BuildFails ==
  /\ stage = "build"
  /\ built < Len(packages)
  /\ logged' = logged \cup {packages[built + 1]}
  /\ stage' = "exit"
  /\ UNCHANGED <<gen, compileVars, unloaded, packages, runnerVars, templateVars>>

(* The builder panics. *)
BuildPanics ==
  /\ stage = "build"
  /\ built < Len(packages)
  /\ stage' = "crashed"
  /\ UNCHANGED <<gen, compileVars, unloaded, packages, runnerVars, logged, templateVars>>

SomeBuilt == Len(packages) > 0 => built > 0              \* mutant: write before the last is built
AllBuilt  == built = Len(packages)

BuildsDone ==
  /\ stage = "build"
  /\ AllBuilt
  /\ stage' = "write"
  /\ UNCHANGED <<gen, compileVars, unloaded, packages, runnerVars, logged, templateVars>>

NextPackage == packages[written + 1]

Write ==
  /\ stage = "write"
  /\ written < built
  /\ written' = written + 1
  /\ files' = [files EXCEPT ![OutFile[NextPackage]] = NextPackage]
  /\ UNCHANGED <<stage, gen, compileVars, unloaded, packages, built, logged, templateVars>>

GoesOn       == "write"                           \* mutant: Build does not return
AfterFailure == "exit"

(* Marshalling, MkdirAll or opening the file fails and leaves the file as it *)
(* is, or writing fails after it was truncated. The rest is not written.     *)
WriteFails ==
  /\ stage = "write"
  /\ written < built
  /\ files' \in {files, [files EXCEPT ![OutFile[NextPackage]] = Torn]}
  /\ logged' = logged \cup {NextPackage}
  /\ stage' = AfterFailure
  /\ UNCHANGED <<gen, compileVars, unloaded, packages, built, written, templateVars>>

WritesDone ==
  /\ stage = "write"
  /\ written = built
  /\ stage' = "exit"
  /\ UNCHANGED <<gen, compileVars, unloaded, packages, runnerVars, logged, templateVars>>

Terminated == stage \in {"exit", "crashed"} /\ UNCHANGED vars

Steps ==
  \/ GeneratorsEnd
  \/ \E d \in DirIds : Generate(d)
  \/ \E t \in Found : Decide(t) \/ Load(t) \/ LoadFails(t)
  \/ Compiled \/ WalkFails \/ Loaded
  \/ UseTemplates \/ Build \/ BuildFails \/ BuildPanics \/ BuildsDone
  \/ Write \/ WriteFails \/ WritesDone

Next == Steps \/ Terminated

Spec == Init /\ [][Next]_vars

-------------------------------------------------------------------------------
(* Safety *)

(* main.go:297-309: the code under internal and pkg, which compositions may  *)
(* embed, is generated before anything else is.                              *)
PrimaryFirst ==
  \A d \in gen : Primary(d) \/ \A e \in GenPaths : Primary(e) => e \in gen

(* No file is touched before every builder loaded has built: a composition   *)
(* that cannot be built leaves the output of all of them as it was.          *)
AllOrNothing ==
  (\E f \in OutFiles : files[f] \notin {NoFile, Old}) => built = Len(packages)

(* A composition with an error, from the compiler, the loader, its builder   *)
(* or the writer, has no file of this run.                                   *)
ErrorsAreNotWritten == \A t \in logged : \A f \in OutFiles : files[f] # t

(* main.go:336-342, writer.go:55-69: if the run got to its end, every        *)
(* composition found was written or an error was logged for it, and never    *)
(* both. A file several of them share holds the one loaded last; one that    *)
(* nobody wrote is as it was, though its composition may have failed.        *)
EveryCompositionAccounted ==
  stage = "exit" /\ written = Len(packages) =>
    /\ ToSet(packages) = Found \ logged
    /\ \A f \in OutFiles :
         LET writers == {i \in DOMAIN packages : OutFile[packages[i]] = f}
         IN  IF writers = {} THEN files[f] \in {NoFile, Old} ELSE files[f] = packages[Max(writers)]

(* README.md:54-57: a builder that passes its TemplateBasePath on before it  *)
(* loads gets the templates under its own directory, all of those it asked   *)
(* for and nothing that an earlier builder left, whatever the load order.    *)
OwnTemplates ==
  text.own => text.files = Template!Named(packages[built + 1], text.path)

-------------------------------------------------------------------------------
(* Refinement *)

publishPhase ==
  CASE stage = "write"               -> "write"
    [] stage \in {"exit", "crashed"} -> "done"
    [] OTHER                         -> "prepare"

publishTodo == IF stage = "write" THEN SubSeq(packages, written + 1, built) ELSE <<>>

(* Of the files on disk a run keeps what Publish promises: see there. *)
Published == INSTANCE Publish WITH
  Tasks <- Found, phase <- publishPhase, todo <- publishTodo

ImplementsPublish == Published!Spec

===============================================================================
