------------------------------- MODULE Skeleton --------------------------------
(***************************************************************************)
(* One composition of pkg/generate/composition/build: a builder calls the  *)
(* methods of CompositionSkeleton, ComposedTemplateSkeleton and            *)
(* PipelineStepSkeleton in any order, and then the runner calls            *)
(* ToComposition, which checks every patch and makes the composition.      *)
(*                                                                         *)
(* Whether a field path exists in a Go type is validatePath of             *)
(* fieldpath.go, which module FieldPath models; here it is a constant.     *)
(***************************************************************************)
EXTENDS Integers, Sequences, SequencesExt

CONSTANTS
  Paths,            (* The field paths.                                      *)
  Size,             (* Size[p]: the number of segments p parses to.          *)
  Malformed,        (* The paths that do not parse.                          *)
  CompositeFields,  (* The paths that exist in the type of the composite.    *)
  ResourceFields,   (* The paths that exist in the type of a base resource.  *)
  KnownComposite,   (* KnownCompositeLabels and KnownCompositeAnnotations.   *)
  KnownResource,    (* KnownResourceLabels and KnownResourceAnnotations.     *)
  Patches,          (* The patches the builder has. Of each: the type, the   *)
                    (* paths read (one, or one per variable) and the path    *)
                    (* written.                                              *)
  MaxParts, MaxPatches, MaxRegistered
                    (* How many resources and pipeline steps together the    *)
                    (* builder makes, how many patches it adds and how many  *)
                    (* paths it registers, in all: bounds for TLC.           *)

FromTypes == {"", "FromCompositeFieldPath", "CombineFromComposite"}
ToTypes   == {"ToCompositeFieldPath", "CombineToComposite"}
PatchTypes == FromTypes \cup ToTypes \cup {"PatchSet", "unknown"}
Modes      == {"", "Resources", "Pipeline", "unknown"}

Patch == [type : PatchTypes, from : Seq(Paths), to : Paths]

ASSUME PathsAssumption ==
  /\ Size \in [Paths -> Nat]
  /\ Malformed \cup CompositeFields \cup ResourceFields \cup KnownComposite \cup KnownResource
       \subseteq Paths
  /\ Malformed \cap (CompositeFields \cup ResourceFields \cup KnownComposite \cup KnownResource) = {}
ASSUME PatchesAssumption == Patches \subseteq Patch
ASSUME BoundsAssumption  == {MaxParts, MaxPatches, MaxRegistered} \subseteq Nat

VARIABLES
  phase,      (* "calls" while the builder runs, then the loop ToComposition *)
              (* is in, then "done".                                         *)
  named,      (* Is the name not empty?                                      *)
  mode,       (* The mode of the composition.                                *)
  registered, (* The composite paths registered.                             *)
  resources,  (* The resources, in the order of NewResource. Of each: the    *)
              (* base object, the paths registered, and the patches with     *)
              (* their unsafe flag.                                          *)
  steps,      (* The pipeline steps, in the order of NewPipelineStep. Of     *)
              (* each: has it a function reference, and how many patches.    *)
  parsedC,    (* registeredCompositePaths of ToComposedTemplate.             *)
  parsedR,    (* registeredPaths of ToComposedTemplate.                      *)
  checked,    (* How many patches of the current resource have been checked. *)
  templates,  (* The composed templates made: the patches of each.           *)
  gvk,        (* The resource whose GroupVersionKind was last set on each    *)
              (* base object, or 0.                                          *)
  pipeline,   (* The pipeline steps made.                                    *)
  outcome     (* "none", or how ToComposition ended.                         *)

builderVars == <<named, mode, registered, resources, steps>>
outVars     == <<parsedC, parsedR, checked, templates, gvk, pipeline>>
vars        == <<phase, named, mode, registered, resources, steps,
                 parsedC, parsedR, checked, templates, gvk, pipeline, outcome>>

Guarded == [patch : Patch, unsafe : BOOLEAN]

TypeOK ==
  /\ phase \in {"calls", "resources", "patches", "pipeline", "done"}
  /\ named \in BOOLEAN
  /\ mode \in Modes
  /\ registered \in SUBSET Paths
  /\ resources \in Seq([base : 1 .. MaxParts, registered : SUBSET Paths, patches : Seq(Guarded)])
  /\ steps \in Seq([ref : BOOLEAN, patches : Nat])
  /\ parsedC \in SUBSET (Paths \ Malformed)
  /\ parsedR \in SUBSET (Paths \ Malformed)
  /\ checked \in Nat
  /\ templates \in Seq(Seq(Patch))
  /\ gvk \in [1 .. MaxParts -> 0 .. Len(resources)]
  /\ pipeline \in Nat
  /\ outcome \in {"none", "ok", "error", "panic"}

Init ==
  /\ phase = "calls"
  /\ named = FALSE
  /\ mode = ""
  /\ registered = {}
  /\ resources = <<>>
  /\ steps = <<>>
  /\ parsedC = {}
  /\ parsedR = {}
  /\ checked = 0
  /\ templates = <<>>
  /\ gvk = [b \in 1 .. MaxParts |-> 0]
  /\ pipeline = 0
  /\ outcome = "none"

-------------------------------------------------------------------------------
(* The builder's calls *)

(* With a name, or with the empty one. *)
WithName ==
  /\ phase = "calls"
  /\ named' \in BOOLEAN
  /\ UNCHANGED <<phase, mode, registered, resources, steps, outVars, outcome>>

WithMode(m) ==
  /\ phase = "calls"
  /\ mode' = m
  /\ UNCHANGED <<phase, named, registered, resources, steps, outVars, outcome>>

SumOf(counts) == FoldSeq(LAMBDA x, y : x + y, 0, counts)

(* The registrations so far, composite paths being those of resource 0. *)
Registrations ==
  ({0} \X registered) \cup UNION {{r} \X resources[r].registered : r \in DOMAIN resources}
MayRegister == phase = "calls" /\ Cardinality(Registrations) < MaxRegistered

(* RegisterCompositeFieldPaths, and with the paths they make of the keys     *)
(* RegisterCompositeAnnotations and RegisterCompositeLabels.                 *)
RegisterCompositeFieldPaths(p) ==
  /\ MayRegister
  /\ registered' = registered \cup {p}
  /\ UNCHANGED <<phase, named, mode, resources, steps, outVars, outcome>>

MayMakePart  == phase = "calls" /\ Len(resources) + Len(steps) < MaxParts
MayAddPatch  ==
  /\ phase = "calls"
  /\ SumOf([r \in DOMAIN resources |-> Len(resources[r].patches)])
       + SumOf([s \in DOMAIN steps |-> steps[s].patches]) < MaxPatches

(* The base is a new object, or one that is shared with another resource.    *)
NewResource(base) ==
  /\ MayMakePart
  /\ base \in {resources[r].base : r \in DOMAIN resources} \cup {Len(resources) + 1}
  /\ resources' = Append(resources, [base |-> base, registered |-> {}, patches |-> <<>>])
  /\ UNCHANGED <<phase, named, mode, registered, steps, outVars, outcome>>

(* RegisterFieldPaths, RegisterAnnotations and RegisterLabels. *)
RegisterFieldPaths(r, p) ==
  /\ MayRegister
  /\ resources' = [resources EXCEPT ![r].registered = @ \cup {p}]
  /\ UNCHANGED <<phase, named, mode, registered, steps, outVars, outcome>>

(* WithPatches and WithUnsafePatches. *)
WithPatches(r, patch, unsafe) ==
  /\ MayAddPatch
  /\ resources' = [resources EXCEPT ![r].patches = Append(@, [patch |-> patch, unsafe |-> unsafe])]
  /\ UNCHANGED <<phase, named, mode, registered, steps, outVars, outcome>>

NewPipelineStep ==
  /\ MayMakePart
  /\ steps' = Append(steps, [ref |-> FALSE, patches |-> 0])
  /\ UNCHANGED <<phase, named, mode, registered, resources, outVars, outcome>>

WithFunctionRef(s) ==
  /\ phase = "calls"
  /\ steps' = [steps EXCEPT ![s].ref = TRUE]
  /\ UNCHANGED <<phase, named, mode, registered, resources, outVars, outcome>>

(* WithPatch of a step, or one round of its WithPatches. *)
WithStepPatch(s) ==
  /\ MayAddPatch
  /\ steps' = [steps EXCEPT ![s].patches = @ + 1]
  /\ UNCHANGED <<phase, named, mode, registered, resources, outVars, outcome>>

Calls ==
  \/ WithName
  \/ \E m \in Modes : WithMode(m)
  \/ \E p \in Paths : RegisterCompositeFieldPaths(p)
  \/ \E base \in 1 .. MaxParts : NewResource(base)
  \/ \E r \in DOMAIN resources :
       \/ \E p \in Paths : RegisterFieldPaths(r, p)
       \/ \E patch \in Patches, unsafe \in BOOLEAN : WithPatches(r, patch, unsafe)
  \/ NewPipelineStep
  \/ \E s \in DOMAIN steps :
       WithFunctionRef(s) \/ WithStepPatch(s)

-------------------------------------------------------------------------------
(* Checking a patch *)

(* ValidateFieldPath. isKnownPath accepts every path that has as many        *)
(* segments as one that is known: the `continue` for a segment that differs  *)
(* continues the inner loop.                                                 *)
ValidPath(p, fields, known) ==
  /\ p \notin Malformed
  /\ Size[p] > 0
  /\ p \in fields \/ \E k \in known : Size[k] = Size[p]

(* validatePatch: what a patch reads and what it writes. *)
Reads(patch) ==
  IF patch.type \in FromTypes THEN <<CompositeFields, parsedC>> ELSE <<ResourceFields, parsedR>>
Writes(patch) ==
  IF patch.type \in FromTypes THEN <<ResourceFields, parsedR>> ELSE <<CompositeFields, parsedC>>

ValidPatch(patch) ==
  /\ patch.type \in FromTypes \cup ToTypes
  /\ patch.from # <<>>
  /\ \A p \in ToSet(patch.from) : ValidPath(p, Reads(patch)[1], Reads(patch)[2])
  /\ ValidPath(patch.to, Writes(patch)[1], Writes(patch)[2])

-------------------------------------------------------------------------------
(* ToComposition *)

Current == Len(templates) + 1

(* The builder has returned. Without a name there is no composition. *)
NoName ==
  /\ phase = "calls"
  /\ ~named
  /\ phase' = "done"
  /\ outcome' = "error"
  /\ UNCHANGED <<builderVars, outVars>>

(* The known paths are registered; the mode says what is set up. With a mode *)
(* that is not known nothing is, and there is no error.                      *)
ToComposition ==
  /\ phase = "calls"
  /\ named
  /\ registered' = registered \cup KnownComposite
  /\ \/ /\ mode \in {"", "Resources"}
        /\ mode' = "Resources"
        /\ phase' = "resources"
        /\ UNCHANGED outcome
     \/ /\ mode = "Pipeline"
        /\ phase' = "pipeline"
        /\ UNCHANGED <<mode, outcome>>
     \/ /\ mode = "unknown"
        /\ phase' = "done"
        /\ outcome' = "ok"
        /\ UNCHANGED mode
  /\ UNCHANGED <<named, resources, steps, outVars>>

NoneParsed == TRUE                                        \* mutant: the error is dropped
AllParse   == (registered \cup resources[Current].registered) \cap Malformed = {}

Accumulated   == parsedR \cup resources[Current].registered   \* mutant: one list for all
OwnRegistered == resources[Current].registered

(* ToComposedTemplate of the next resource: the registered paths are parsed, *)
(* and only then are the known ones added to those of the resource.          *)
OpenResource ==
  /\ phase = "resources"
  /\ Len(templates) < Len(resources)
  /\ AllParse
  /\ parsedC' = registered
  /\ parsedR' = OwnRegistered
  /\ resources' = [resources EXCEPT ![Current].registered = @ \cup KnownResource]
  /\ checked' = 0
  /\ templates' = Append(templates, <<>>)
  /\ phase' = "patches"
  /\ UNCHANGED <<named, mode, registered, steps, gvk, pipeline, outcome>>

(* A registered path does not parse. *)
ResourceFails ==
  /\ phase = "resources"
  /\ Len(templates) < Len(resources)
  /\ ~AllParse
  /\ phase' = "done"
  /\ outcome' = "error"
  /\ UNCHANGED <<builderVars, outVars>>

Opened      == Len(templates)                     \* the resource whose template is made
FirstAgain  == resources[Opened].patches[1]       \* mutant: a loop variable that is shared
NextPatch   == resources[Opened].patches[checked + 1]

ChecksAll(g) == ValidPatch(g.patch)               \* mutant: unsafe is not looked at
Accepted(g)  == g.unsafe \/ ValidPatch(g.patch)

(* validatePatch gives a safe patch without a type its default.              *)
Defaulted ==
  IF ~NextPatch.unsafe /\ NextPatch.patch.type = ""
  THEN [resources EXCEPT ![Opened].patches[checked + 1].patch.type = "FromCompositeFieldPath"]
  ELSE resources

(* The next patch is accepted. The template gets the copy of it that was     *)
(* made before its type was defaulted.                                       *)
AcceptPatch ==
  /\ phase = "patches"
  /\ checked < Len(resources[Opened].patches)
  /\ Accepted(NextPatch)
  /\ templates' = [templates EXCEPT ![Opened] = Append(@, NextPatch.patch)]
  /\ resources' = Defaulted
  /\ checked' = checked + 1
  /\ UNCHANGED <<phase, named, mode, registered, steps, parsedC, parsedR, gvk, pipeline, outcome>>

RefusePatch ==
  /\ phase = "patches"
  /\ checked < Len(resources[Opened].patches)
  /\ ~Accepted(NextPatch)
  /\ resources' = Defaulted
  /\ phase' = "done"
  /\ outcome' = "error"
  /\ UNCHANGED <<named, mode, registered, steps, outVars>>

OfTheFirst == 1                                   \* mutant: the first resource's
KindGiven  == Opened

(* The kind is set on the object itself, which is marshalled when the        *)
(* composition is written.                                                   *)
CloseResource ==
  /\ phase = "patches"
  /\ checked = Len(resources[Opened].patches)
  /\ gvk' = [gvk EXCEPT ![resources[Opened].base] = KindGiven]
  /\ phase' = "resources"
  /\ UNCHANGED <<builderVars, parsedC, parsedR, checked, templates, pipeline, outcome>>

AnyStep(s) == s \in DOMAIN steps                          \* mutant: nil is not looked at
HasRef(s)  == steps[s].ref

(* toPipelineStep dereferences functionRef and does not look at the patches. *)
MakeStep ==
  /\ phase = "pipeline"
  /\ pipeline < Len(steps)
  /\ IF HasRef(pipeline + 1)
       THEN pipeline' = pipeline + 1 /\ UNCHANGED <<phase, outcome>>
       ELSE phase' = "done" /\ outcome' = "panic" /\ UNCHANGED pipeline
  /\ UNCHANGED <<builderVars, parsedC, parsedR, checked, templates, gvk>>

Finish ==
  /\ \/ phase = "resources" /\ Len(templates) = Len(resources)
     \/ phase = "pipeline" /\ pipeline = Len(steps)
  /\ phase' = "done"
  /\ outcome' = "ok"
  /\ UNCHANGED <<builderVars, outVars>>

Terminated == phase = "done" /\ UNCHANGED vars

Next ==
  \/ Calls
  \/ NoName \/ ToComposition
  \/ OpenResource \/ ResourceFails \/ AcceptPatch \/ RefusePatch \/ CloseResource
  \/ MakeStep \/ Finish
  \/ Terminated

Spec == Init /\ [][Next]_vars

-------------------------------------------------------------------------------
(* Safety *)

(* What a patch reads and writes: the paths, each with the side it is on.    *)
Sides(patch) ==
  LET from == IF patch.type \in FromTypes THEN "composite" ELSE "resource"
      to   == IF patch.type \in FromTypes THEN "resource" ELSE "composite"
  IN  {[path |-> p, side |-> from] : p \in ToSet(patch.from)} \cup
        {[path |-> patch.to, side |-> to]}

Fields(side)         == IF side = "composite" THEN CompositeFields ELSE ResourceFields
Registered(r, side)  == IF side = "composite" THEN registered ELSE resources[r].registered

(* The path exists in the type on its side, or was registered for that side. *)
Exists(r, u) == u.path \in Fields(u.side) \cup Registered(r, u.side)

(* The path has as many segments as one registered for its own side. *)
FitsRegistered(r, u) == \E k \in Registered(r, u.side) : Size[k] = Size[u.path]

(* composed.go:95-103, patches.go:16-43: no path of a safe patch goes        *)
(* unchecked. On whichever side of whichever resource it is, it parses, it   *)
(* is not empty, and it exists there or is as long as one registered there;  *)
(* what is registered for another resource or the other side does not help.  *)
SafePatchesChecked ==
  \A r \in DOMAIN templates : \A j \in DOMAIN templates[r] :
    resources[r].patches[j].unsafe \/ \A u \in Sides(templates[r][j]) :
      /\ u.path \notin Malformed /\ Size[u.path] > 0
      /\ u.path \in Fields(u.side) \/ FitsRegistered(r, u)

(* Why a patch may be refused: a path that neither exists nor is registered  *)
(* (or is in `excused`), or a patch that is not supported or reads nothing.  *)
Refusable(r, patch, excused) ==
  \/ patch.type \notin FromTypes \cup ToTypes
  \/ patch.from = <<>>
  \/ \E u \in Sides(patch) :
       \/ Size[u.path] = 0 \/ ~Exists(r, u)
       \/ u.side = "resource" /\ u.path \in excused \ ResourceFields

SomethingWrong(excused) ==
  \/ ~named
  \/ \E r \in DOMAIN resources :
       \/ (registered \cup resources[r].registered) \cap Malformed # {}
       \/ \E g \in ToSet(resources[r].patches) : ~g.unsafe /\ Refusable(r, g.patch, excused)

(* A composition all of whose safe patches have paths that exist or that the *)
(* builder registered is never refused, wherever among the calls it          *)
(* registered them. The paths in KnownResource are excused: see              *)
(* KnownPathsRegistered.                                                     *)
NoFalseRefusal == outcome = "error" => SomethingWrong(KnownResource)

(* A patch without a type is one of the type FromCompositeFieldPath, and     *)
(* keeps no type in the template while the builder's copy is given that one. *)
AsGiven(made, given) ==
  \/ made = given
  \/ given.type = "FromCompositeFieldPath" /\ made = [given EXCEPT !.type = ""]

(* What is put out is what the builder asked for: a template for each        *)
(* resource, in order, with every patch, safe or not, in the order given, as *)
(* it was given. In another mode than Resources, known or not, the resources *)
(* are left out in silence.                                                  *)
OutputFaithful ==
  outcome = "ok" =>
    /\ Len(templates) = IF mode = "Resources" THEN Len(resources) ELSE 0
    /\ mode = "Resources" => \A r \in DOMAIN resources :
         /\ Len(templates[r]) = Len(resources[r].patches)
         /\ \A j \in DOMAIN templates[r] : AsGiven(templates[r][j], resources[r].patches[j].patch)

(* composed.go:105-106: a resource put out is of the kind that was given     *)
(* with its base, however many resources there are and in whatever order; if *)
(* several have the same object as their base, all are of the kind given     *)
(* with the last of them.                                                    *)
KindsKept ==
  outcome = "ok" /\ mode = "Resources" =>
    \A r \in DOMAIN resources :
      LET sharing == {q \in DOMAIN resources : resources[q].base = resources[r].base}
      IN  gvk[resources[r].base] = Max(sharing)

(* A pipeline is put out whole, or the program panics at the first step      *)
(* that has no function reference; it is never refused.                      *)
PipelineWhole ==
  mode = "Pipeline" /\ named =>
    /\ outcome # "error"
    /\ outcome = "ok" => pipeline = Len(steps) /\ \A s \in DOMAIN steps : steps[s].ref
    /\ outcome = "panic" => ~steps[pipeline + 1].ref

(* skeleton.go:41-42: KnownResourceAnnotations "are annotations that will be *)
(* registered by default".                                                   *)
KnownPathsRegistered == outcome = "error" => SomethingWrong({})

(* skeleton.go:136-139: WithPatches "will automatically register the         *)
(* patch-and-transform function if not already registered".                  *)
StepPatchesRegisterFunction ==
  outcome = "panic" => steps[pipeline + 1].patches = 0

===============================================================================
