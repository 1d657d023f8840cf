---------------------------- MODULE SkeletonProofs -----------------------------
(***************************************************************************)
(* Proofs about Skeleton: a composition of any size, with any paths and    *)
(* patches.                                                                *)
(***************************************************************************)
EXTENDS Skeleton, SequenceTheorems, SequenceFacts, TLAPS

(* While the builder runs nothing has been put out. *)
NothingYet ==
  phase = "calls" => templates = <<>> /\ pipeline = 0 /\ outcome = "none"

(* What ToComposition knows where it is. *)
ModeTold ==
  /\ outcome = "none" <=> phase # "done"
  /\ phase \in {"resources", "patches"} \/ templates # <<>> => mode = "Resources"
  /\ phase = "pipeline" \/ outcome = "panic" => mode = "Pipeline"
  /\ phase \in {"resources", "patches", "pipeline"} => named
  /\ outcome = "error" /\ mode = "Pipeline" => ~named

(* The resources whose template is made. *)
Closed == IF phase = "patches" THEN Len(templates) - 1 ELSE Len(templates)

(* The paths that the patches of the resource being made are checked against *)
(* are those registered for it and for the composite, except the known ones. *)
ParsedAreRegistered ==
  phase = "patches" =>
    /\ templates # <<>>
    /\ parsedC = registered
    /\ parsedR \subseteq resources[Opened].registered
    /\ resources[Opened].registered \subseteq parsedR \cup KnownResource

(* The patches that have been accepted are put out as they were given. *)
PatchesFollow ==
  /\ Len(templates) <= Len(resources)
  /\ \A r \in DOMAIN templates :
       /\ Len(templates[r]) <= Len(resources[r].patches)
       /\ \A j \in DOMAIN templates[r] : AsGiven(templates[r][j], resources[r].patches[j].patch)
  /\ phase # "done" \/ outcome = "ok" =>
       \A r \in 1 .. Closed : Len(templates[r]) = Len(resources[r].patches)
  /\ phase = "patches" => Len(templates[Opened]) = checked
  /\ phase = "done" /\ outcome = "ok" /\ mode = "Resources" => Len(templates) = Len(resources)

(* Each base has the kind of the last resource made with it. *)
KindsFollow ==
  phase # "done" \/ outcome = "ok" =>
    /\ \A b \in DOMAIN gvk : gvk[b] \in 0 .. Closed
    /\ \A b \in DOMAIN gvk : gvk[b] # 0 => resources[gvk[b]].base = b
    /\ \A r \in 1 .. Closed : r <= gvk[resources[r].base]

(* Of the pipeline, the steps made are those before the first that has no    *)
(* function reference.                                                       *)
StepsFollow ==
  /\ phase = "pipeline" => pipeline <= Len(steps)
  /\ phase \in {"resources", "patches"} => pipeline = 0
  /\ phase = "pipeline" \/ outcome \in {"ok", "panic"} => \A s \in 1 .. pipeline : steps[s].ref
  /\ outcome = "ok" /\ mode = "Pipeline" => pipeline = Len(steps)
  /\ outcome = "panic" => pipeline < Len(steps) /\ ~steps[pipeline + 1].ref

IInv ==
  /\ TypeOK
  /\ NothingYet /\ ModeTold /\ ParsedAreRegistered /\ PatchesFollow /\ KindsFollow /\ StepsFollow
  /\ SafePatchesChecked /\ NoFalseRefusal

-------------------------------------------------------------------------------
(* What a resource and a step are *)

Resource == [base : 1 .. MaxParts, registered : SUBSET Paths, patches : Seq(Guarded)]
Step     == [ref : BOOLEAN, patches : Nat]

(* A resource or a step with one field replaced. *)
LEMMA ResourceUpdates ==
  ASSUME NEW x \in Resource, NEW P \in SUBSET Paths, NEW q \in Seq(Guarded)
  PROVE  /\ [x EXCEPT !.registered = P] \in Resource
         /\ [x EXCEPT !.patches = q] \in Resource
         /\ x.base \in 1 .. MaxParts /\ x.registered \in SUBSET Paths
         /\ x.patches \in Seq(Guarded)
  BY DEF Resource

LEMMA StepUpdates ==
  ASSUME NEW x \in Step
  PROVE  [x EXCEPT !.ref = TRUE] \in Step /\ [x EXCEPT !.patches = @ + 1] \in Step
<1> USE DEF Step
<1>1. TRUE \in BOOLEAN
  OBVIOUS
<1>2. [x EXCEPT !.ref = TRUE] \in Step
  BY <1>1
<1>3. [x EXCEPT !.patches = @ + 1] \in Step
  OBVIOUS
<1> QED  BY <1>2, <1>3

-------------------------------------------------------------------------------
(* The inductive invariant *)

LEMMA InitIInv == Init => IInv
<1> SUFFICES ASSUME Init PROVE IInv
  OBVIOUS
<1>1. /\ phase = "calls" /\ named = FALSE /\ mode = "" /\ outcome = "none"
      /\ registered = {} /\ parsedC = {} /\ parsedR = {} /\ checked = 0 /\ pipeline = 0
      /\ resources = <<>> /\ steps = <<>> /\ templates = <<>>
  BY DEF Init
<1>2. gvk = [b \in 1 .. MaxParts |-> 0]
  BY DEF Init
<1>3. Len(resources) = 0 /\ Len(templates) = 0 /\ DOMAIN resources = {} /\ DOMAIN templates = {}
  <2>1. Len(<< >>) = 0 /\ DOMAIN << >> = {}
    BY NoElements
  <2> QED  BY <1>1, <2>1
<1>4. TypeOK
  <2>1. named \in BOOLEAN /\ mode \in Modes /\ outcome \in {"none", "ok", "error", "panic"}
    BY <1>1 DEF Modes
  <2>2. gvk \in [1 .. MaxParts -> 0 .. Len(resources)]
    BY <1>2, <1>3
  <2>3. /\ resources \in Seq([base : 1 .. MaxParts, registered : SUBSET Paths, patches : Seq(Guarded)])
        /\ steps \in Seq([ref : BOOLEAN, patches : Nat])
        /\ templates \in Seq(Seq(Patch))
    BY <1>1, NoElements
  <2> QED  BY <1>1, <2>1, <2>2, <2>3 DEF TypeOK
<1>5. NothingYet /\ ModeTold /\ ParsedAreRegistered /\ StepsFollow
  BY <1>1 DEF NothingYet, ModeTold, ParsedAreRegistered, StepsFollow
<1>6. PatchesFollow /\ SafePatchesChecked /\ NoFalseRefusal
  <2>1. Closed = 0
    BY <1>1, <1>3 DEF Closed
  <2>2. \A r \in 1 .. Closed : FALSE
    BY <2>1
  <2>4. PatchesFollow
    <3>1. phase = "calls"
      BY <1>1
    <3>2. Len(templates) <= Len(resources)
      BY <1>3
    <3> QED  BY <1>3, <2>2, <3>1, <3>2 DEF PatchesFollow
  <2>3. SafePatchesChecked
    BY <1>3 DEF SafePatchesChecked
  <2> QED  BY <1>1, <2>3, <2>4 DEF NoFalseRefusal
<1>7. KindsFollow
  <2>1. Closed = 0 /\ DOMAIN gvk = 1 .. MaxParts /\ \A b \in DOMAIN gvk : gvk[b] = 0
    BY <1>1, <1>2, <1>3 DEF Closed
  <2> QED  BY <2>1 DEF KindsFollow
<1> QED  BY <1>4, <1>5, <1>6, <1>7 DEF IInv

(* The builder's calls change what it asks for, and put nothing out. *)
LEMMA CallsKeepTypes ==
  ASSUME TypeOK, Calls
  PROVE  TypeOK' /\ phase = "calls" /\ phase' = "calls" /\ UNCHANGED <<outVars, outcome>>
<1> USE BoundsAssumption DEF TypeOK, outVars, MayMakePart, MayRegister, MayAddPatch
<1>0. resources \in Seq(Resource) /\ steps \in Seq(Step) /\ Len(resources) \in Nat
  BY LenProperties DEF Resource, Step
<1>1. CASE WithName
  BY <1>1 DEF WithName
<1>2. ASSUME NEW m \in Modes, WithMode(m)
      PROVE  TypeOK' /\ phase = "calls" /\ phase' = "calls" /\ UNCHANGED <<outVars, outcome>>
  BY <1>2 DEF WithMode
<1>3. ASSUME NEW p \in Paths, RegisterCompositeFieldPaths(p)
      PROVE  TypeOK' /\ phase = "calls" /\ phase' = "calls" /\ UNCHANGED <<outVars, outcome>>
  BY <1>3 DEF RegisterCompositeFieldPaths
<1>4. ASSUME NEW base \in 1 .. MaxParts, NewResource(base)
      PROVE  TypeOK' /\ phase = "calls" /\ phase' = "calls" /\ UNCHANGED <<outVars, outcome>>
  <2> DEFINE new == [base |-> base, registered |-> {}, patches |-> <<>>]
  <2>1. new \in Resource
    BY EmptySeq DEF Resource
  <2> HIDE DEF new
  <2>2. resources' = Append(resources, new)
    BY <1>4 DEF NewResource, new
  <2>3. resources' \in Seq(Resource) /\ Len(resources') = Len(resources) + 1
    BY <1>0, <2>1, <2>2, AppendFacts
  <2>4. gvk' \in [1 .. MaxParts -> 0 .. Len(resources')]
    BY <1>0, <1>4, <2>3 DEF NewResource
  <2> QED  BY <1>4, <2>3, <2>4 DEF NewResource, Resource
<1>5. ASSUME NEW r \in DOMAIN resources, NEW p \in Paths, RegisterFieldPaths(r, p)
      PROVE  TypeOK' /\ phase = "calls" /\ phase' = "calls" /\ UNCHANGED <<outVars, outcome>>
  <2> DEFINE new == [resources[r] EXCEPT !.registered = @ \cup {p}]
  <2>1. new \in Resource
    <3>1. resources[r] \in Resource
      BY <1>0
    <3>2. resources[r].registered \cup {p} \in SUBSET Paths /\ resources[r].patches \in Seq(Guarded)
      BY <3>1 DEF Resource
    <3> HIDE DEF TypeOK
    <3> QED  BY <3>1, <3>2, ResourceUpdates
  <2>2. resources' = [resources EXCEPT ![r] = new]
    BY <1>5 DEF RegisterFieldPaths
  <2> HIDE DEF new
  <2>3. resources' \in Seq(Resource) /\ Len(resources') = Len(resources)
    BY <1>0, <2>1, <2>2, ReplaceFacts
  <2> QED  BY <1>5, <2>3 DEF RegisterFieldPaths, Resource
<1>6. ASSUME NEW r \in DOMAIN resources, NEW patch \in Patches, NEW unsafe \in BOOLEAN,
             WithPatches(r, patch, unsafe)
      PROVE  TypeOK' /\ phase = "calls" /\ phase' = "calls" /\ UNCHANGED <<outVars, outcome>>
  <2> DEFINE g   == [patch |-> patch, unsafe |-> unsafe]
             new == [resources[r] EXCEPT !.patches = Append(@, g)]
  <2>1. g \in Guarded
    BY PatchesAssumption DEF Guarded
  <2> HIDE DEF g
  <2>2. resources[r] \in Resource
    BY <1>0
  <2>3. resources[r].patches \in Seq(Guarded)
    BY <2>2 DEF Resource
  <2>4. new \in Resource
    <3>1. Append(resources[r].patches, g) \in Seq(Guarded)
      BY <2>1, <2>3, AppendFacts
    <3> HIDE DEF TypeOK
    <3> QED  BY <2>2, <3>1, ResourceUpdates
  <2>5. resources' = [resources EXCEPT ![r] = new]
    BY <1>6 DEF WithPatches, g
  <2> HIDE DEF new
  <2>6. resources' \in Seq(Resource) /\ Len(resources') = Len(resources)
    BY <1>0, <2>4, <2>5, ReplaceFacts
  <2> QED  BY <1>6, <2>6 DEF WithPatches, Resource
<1>7. CASE NewPipelineStep
  <2>1. [ref |-> FALSE, patches |-> 0] \in Step
    BY DEF Step
  <2>2. steps' \in Seq(Step)
    BY <1>0, <1>7, <2>1, AppendFacts DEF NewPipelineStep
  <2> QED  BY <1>7, <2>2 DEF NewPipelineStep, Step
<1>8. ASSUME NEW s \in DOMAIN steps, WithFunctionRef(s) \/ WithStepPatch(s)
      PROVE  TypeOK' /\ phase = "calls" /\ phase' = "calls" /\ UNCHANGED <<outVars, outcome>>
  <2>1. steps[s] \in Step
    BY <1>0
  <2>2. /\ [steps[s] EXCEPT !.ref = TRUE] \in Step
        /\ [steps[s] EXCEPT !.patches = @ + 1] \in Step
    BY <2>1, StepUpdates
  <2>3. PICK x \in Step : steps' = [steps EXCEPT ![s] = x]
    BY <1>8, <2>2 DEF WithFunctionRef, WithStepPatch
  <2>4. steps' \in Seq(Step)
    <3> HIDE DEF TypeOK
    <3> QED  BY <1>0, <2>3, ReplaceFacts
  <2> QED  BY <1>8, <2>4 DEF WithFunctionRef, WithStepPatch, Step
<1> QED  BY <1>1, <1>2, <1>3, <1>4, <1>5, <1>6, <1>7, <1>8 DEF Calls

LEMMA CallsIInv ==
  ASSUME IInv, Calls
  PROVE  IInv'
<1>1. TypeOK' /\ phase = "calls" /\ phase' = "calls" /\ UNCHANGED <<outVars, outcome>>
  BY CallsKeepTypes DEF IInv
<1>2. templates' = << >> /\ pipeline' = 0 /\ outcome' = "none"
  BY <1>1 DEF IInv, NothingYet, outVars
<1>3. NothingYet' /\ ModeTold' /\ ParsedAreRegistered' /\ StepsFollow'
  BY <1>1, <1>2 DEF NothingYet, ModeTold, ParsedAreRegistered, StepsFollow
<1>4. PatchesFollow' /\ SafePatchesChecked' /\ NoFalseRefusal'
  <2>1. Len(resources') \in Nat
    BY <1>1, LenProperties DEF TypeOK
  <2> QED  BY <1>1, <1>2, <2>1 DEF PatchesFollow, Closed, SafePatchesChecked, NoFalseRefusal
<1>5. KindsFollow'
  <2>1. \A b \in DOMAIN gvk : gvk[b] = 0
    BY <1>1, <1>2 DEF IInv, KindsFollow, Closed, outVars, TypeOK
  <2> QED  BY <1>1, <1>2, <2>1 DEF KindsFollow, Closed, outVars
<1> QED  BY <1>1, <1>3, <1>4, <1>5 DEF IInv

(* Resources, templates and the steps by their numbers. *)
LEMMA Numbers ==
  ASSUME TypeOK
  PROVE  /\ resources \in Seq(Resource) /\ templates \in Seq(Seq(Patch)) /\ steps \in Seq(Step)
         /\ Len(resources) \in Nat /\ DOMAIN resources = 1 .. Len(resources)
         /\ Len(templates) \in Nat /\ DOMAIN templates = 1 .. Len(templates)
         /\ Len(steps) \in Nat /\ DOMAIN steps = 1 .. Len(steps)
         /\ \A r \in DOMAIN resources :
              /\ resources[r] \in Resource
              /\ resources[r].patches \in Seq(Guarded)
              /\ Len(resources[r].patches) \in Nat
              /\ DOMAIN resources[r].patches = 1 .. Len(resources[r].patches)
              /\ resources[r].base \in 1 .. MaxParts
         /\ \A r \in DOMAIN templates :
              /\ templates[r] \in Seq(Patch)
              /\ Len(templates[r]) \in Nat
              /\ DOMAIN templates[r] = 1 .. Len(templates[r])
<1>1. resources \in Seq(Resource) /\ templates \in Seq(Seq(Patch)) /\ steps \in Seq(Step)
  BY DEF TypeOK, Resource, Step
<1>2. /\ Len(resources) \in Nat /\ DOMAIN resources = 1 .. Len(resources)
      /\ Len(templates) \in Nat /\ DOMAIN templates = 1 .. Len(templates)
      /\ Len(steps) \in Nat /\ DOMAIN steps = 1 .. Len(steps)
  BY <1>1, LenProperties
<1>3. ASSUME NEW r \in DOMAIN resources
      PROVE  /\ resources[r] \in Resource
             /\ resources[r].patches \in Seq(Guarded)
             /\ Len(resources[r].patches) \in Nat
             /\ DOMAIN resources[r].patches = 1 .. Len(resources[r].patches)
             /\ resources[r].base \in 1 .. MaxParts
  <2>1. resources[r] \in Resource
    BY <1>1, <1>2, ElementOfSeq
  <2>2. resources[r].patches \in Seq(Guarded) /\ resources[r].base \in 1 .. MaxParts
    BY <2>1 DEF Resource
  <2> QED  BY <2>1, <2>2, LenProperties
<1>4. ASSUME NEW r \in DOMAIN templates
      PROVE  /\ templates[r] \in Seq(Patch)
             /\ Len(templates[r]) \in Nat
             /\ DOMAIN templates[r] = 1 .. Len(templates[r])
  <2>1. templates[r] \in Seq(Patch)
    BY <1>1, <1>2, ElementOfSeq
  <2> QED  BY <2>1, LenProperties
<1> QED  BY <1>1, <1>2, <1>3, <1>4

(* ToComposition begins, or there is no name. *)
LEMMA BeginIInv ==
  ASSUME IInv, NoName \/ ToComposition
  PROVE  IInv'
<1>0. /\ templates = <<>> /\ templates' = <<>> /\ phase = "calls" /\ phase' # "calls"
      /\ pipeline = 0 /\ pipeline' = 0
      /\ UNCHANGED <<resources, steps, named, gvk, outVars>>
  BY DEF IInv, NothingYet, NoName, ToComposition, builderVars, outVars
<1>1. TypeOK'
  <2>1. registered' \in SUBSET Paths /\ mode' \in Modes
    BY PathsAssumption DEF IInv, TypeOK, NoName, ToComposition, builderVars, Modes
  <2>2. phase' \in {"resources", "pipeline", "done"} /\ outcome' \in {"none", "ok", "error"}
    BY DEF IInv, TypeOK, NoName, ToComposition, NothingYet
  <2> QED  BY <1>0, <2>1, <2>2 DEF IInv, TypeOK, outVars
<1>2. NothingYet' /\ ModeTold'
  BY <1>0 DEF IInv, NothingYet, ModeTold, NoName, ToComposition, builderVars
<1>3. phase' # "patches" /\ Len(templates') = 0 /\ DOMAIN templates' = {}
  <2>1. Len(<< >>) = 0 /\ DOMAIN << >> = {}
    BY NoElements
  <2> QED  BY <1>0, <2>1 DEF NoName, ToComposition
<1>4. Closed = 0 /\ Closed' = 0
  <2>1. phase # "patches" /\ Len(templates) = 0
    BY <1>0, <1>3
  <2> QED  BY <1>3, <2>1 DEF Closed
<1>5. ParsedAreRegistered' /\ SafePatchesChecked'
  BY <1>3 DEF ParsedAreRegistered, SafePatchesChecked
<1>6. PatchesFollow'
  <2>1. Len(resources') \in Nat /\ \A r \in 1 .. Closed' : FALSE
    BY <1>1, <1>4, Numbers
  <2>2. phase' = "done" /\ outcome' = "ok" => mode' # "Resources"
    BY <1>0 DEF NoName, ToComposition
  <2> QED  BY <1>3, <2>1, <2>2 DEF PatchesFollow
<1>7. KindsFollow'
  <2>1. \A r \in 1 .. Closed' : FALSE
    BY <1>4
  <2>2. \A b \in DOMAIN gvk : gvk[b] = 0
    <3>1. \A b \in DOMAIN gvk : gvk[b] \in 0 .. 0
      BY <1>0, <1>4 DEF IInv, KindsFollow
    <3> QED  BY <3>1
  <2> QED  BY <1>0, <1>4, <2>1, <2>2 DEF KindsFollow
<1>8. StepsFollow'
  <2>1. phase' = "pipeline" => 0 <= Len(steps')
    BY <1>1, Numbers
  <2>2. outcome' # "panic" /\ ~(outcome' = "ok" /\ mode' = "Pipeline")
    BY <1>0 DEF NoName, ToComposition, IInv, NothingYet
  <2>3. \A s \in 1 .. 0 : FALSE
    OBVIOUS
  <2> QED  BY <1>0, <2>1, <2>2, <2>3 DEF StepsFollow
<1>9. NoFalseRefusal'
  <2>1. outcome' = "error" => ~named'
    BY <1>0 DEF NoName, ToComposition, IInv, NothingYet, builderVars
  <2> QED  BY <2>1 DEF NoFalseRefusal, SomethingWrong
<1> QED  BY <1>1, <1>2, <1>5, <1>6, <1>7, <1>8, <1>9 DEF IInv

(* ToComposedTemplate begins with the next resource. *)
LEMMA OpenIInv ==
  ASSUME IInv, OpenResource
  PROVE  IInv'
<1> DEFINE new == [resources[Current] EXCEPT !.registered = @ \cup KnownResource]
<1>0. /\ phase = "resources" /\ phase' = "patches" /\ mode = "Resources" /\ outcome = "none"
      /\ UNCHANGED <<named, mode, registered, steps, gvk, pipeline, outcome>>
      /\ checked' = 0 /\ parsedC' = registered
      /\ Len(templates) < Len(resources)
      /\ TypeOK
  BY DEF IInv, ModeTold, OpenResource
<1>1. Current \in DOMAIN resources /\ Current = Len(templates) + 1
  BY <1>0, Numbers DEF Current
<1>2. new \in Resource /\ KnownResource \subseteq Paths
  <2>1. resources[Current] \in Resource
    BY <1>0, <1>1, Numbers
  <2>2. /\ resources[Current].registered \cup KnownResource \in SUBSET Paths
        /\ resources[Current].patches \in Seq(Guarded)
    BY <2>1, PathsAssumption DEF Resource
  <2> QED  BY <2>1, <2>2, ResourceUpdates
<1>3. /\ new.patches = resources[Current].patches /\ new.base = resources[Current].base
      /\ new.registered = resources[Current].registered \cup KnownResource
  BY <1>0, <1>1, Numbers DEF Resource
<1>4. resources' = [resources EXCEPT ![Current] = new]
  BY DEF OpenResource
<1> HIDE DEF new
<1>5. /\ resources' \in Seq(Resource) /\ Len(resources') = Len(resources)
      /\ DOMAIN resources' = DOMAIN resources /\ resources'[Current] = new
      /\ \A r \in DOMAIN resources : r # Current => resources'[r] = resources[r]
  BY <1>0, <1>1, <1>2, <1>4, ReplaceFacts, Numbers
<1>6. \A r \in DOMAIN resources :
         /\ resources'[r].patches = resources[r].patches /\ resources'[r].base = resources[r].base
         /\ resources[r].registered \subseteq resources'[r].registered
  BY <1>3, <1>5
<1>7. /\ templates' \in Seq(Seq(Patch)) /\ Len(templates') = Len(templates) + 1
      /\ DOMAIN templates' = 1 .. Len(templates) + 1
      /\ \A r \in 1 .. Len(templates) : templates'[r] = templates[r]
      /\ templates'[Len(templates) + 1] = <<>>
  <2>1. << >> \in Seq(Patch) /\ templates' = Append(templates, <<>>)
    BY NoElements DEF OpenResource
  <2> QED  BY <1>0, <2>1, AppendFacts, Numbers
<1>8. TypeOK'
  <2>1. parsedC' \in SUBSET (Paths \ Malformed) /\ parsedR' \in SUBSET (Paths \ Malformed)
    <3>1. registered \in SUBSET Paths /\ resources[Current].registered \in SUBSET Paths
      BY <1>0, <1>1, Numbers DEF TypeOK, Resource
    <3> QED  BY <3>1 DEF OpenResource, AllParse, OwnRegistered
  <2>2. gvk' \in [1 .. MaxParts -> 0 .. Len(resources')]
    BY <1>0, <1>5 DEF TypeOK
  <2> QED  BY <1>0, <1>5, <1>7, <2>1, <2>2 DEF TypeOK, Resource
<1>9. NothingYet' /\ ModeTold' /\ StepsFollow'
  BY <1>0 DEF IInv, NothingYet, ModeTold, StepsFollow
<1>10. ParsedAreRegistered'
  <2>1. Opened' = Current /\ templates' # << >>
    <3>1. Len(<< >>) = 0
      BY NoElements
    <3> QED  BY <1>0, <1>1, <1>7, <3>1, Numbers DEF Opened
  <2>2. parsedR' = resources[Current].registered
    BY DEF OpenResource, OwnRegistered
  <2>3. resources'[Opened'].registered = resources[Current].registered \cup KnownResource
    BY <1>3, <1>5, <2>1
  <2> QED  BY <1>0, <2>1, <2>2, <2>3 DEF ParsedAreRegistered
<1>11. Closed = Len(templates) /\ Closed' = Len(templates)
  BY <1>0, <1>7, Numbers DEF Closed
<1>12. PatchesFollow'
  <2>1. Len(<< >>) = 0 /\ DOMAIN << >> = {}
    BY NoElements
  <2>2. Len(templates') <= Len(resources')
    BY <1>0, <1>5, <1>7, Numbers
  <2>3. ASSUME NEW r \in DOMAIN templates'
        PROVE  /\ Len(templates'[r]) <= Len(resources'[r].patches)
               /\ \A j \in DOMAIN templates'[r] :
                    AsGiven(templates'[r][j], resources'[r].patches[j].patch)
    <3>1. CASE r \in 1 .. Len(templates)
      <4>1. r \in DOMAIN templates /\ r \in DOMAIN resources
        BY <3>1, <1>0, Numbers
      <4>2. templates'[r] = templates[r] /\ resources'[r].patches = resources[r].patches
        BY <3>1, <4>1, <1>6, <1>7
      <4> QED  BY <4>1, <4>2 DEF IInv, PatchesFollow
    <3>2. CASE r = Len(templates) + 1
      <4>1. Len(resources[r].patches) \in Nat
        BY <1>0, <1>1, <3>2, Numbers
      <4>2. Len(templates'[r]) = 0 /\ DOMAIN templates'[r] = {}
        BY <1>7, <2>1, <3>2
      <4> QED  BY <1>1, <1>6, <3>2, <4>1, <4>2
    <3> QED  BY <3>1, <3>2, <1>0, <1>7, Numbers
  <2>4. ASSUME NEW r \in 1 .. Closed'
        PROVE  Len(templates'[r]) = Len(resources'[r].patches)
    <3>1. r \in 1 .. Len(templates) /\ r \in 1 .. Closed /\ r \in DOMAIN resources
      BY <1>0, <1>11, Numbers
    <3>2. templates'[r] = templates[r] /\ resources'[r].patches = resources[r].patches
      BY <3>1, <1>6, <1>7
    <3> QED  BY <1>0, <3>1, <3>2 DEF IInv, PatchesFollow
  <2>5. Len(templates'[Opened']) = checked'
    BY <1>0, <1>7, <2>1, Numbers DEF Opened
  <2> QED  BY <1>0, <2>2, <2>3, <2>4, <2>5 DEF PatchesFollow
<1>13. KindsFollow'
  <2>1. \A r \in 1 .. Closed : r \in DOMAIN resources
    BY <1>0, <1>11, Numbers
  <2>2. /\ \A b \in DOMAIN gvk : gvk[b] \in 0 .. Closed
        /\ \A b \in DOMAIN gvk : gvk[b] # 0 => resources[gvk[b]].base = b
        /\ \A r \in 1 .. Closed : r <= gvk[resources[r].base]
    BY <1>0 DEF IInv, KindsFollow
  <2>3. \A b \in DOMAIN gvk : gvk[b] # 0 => gvk[b] \in 1 .. Closed
    BY <1>0, <1>11, <2>2, Numbers
  <2>4. /\ \A b \in DOMAIN gvk : gvk[b] # 0 => resources'[gvk[b]].base = b
        /\ \A r \in 1 .. Closed : r <= gvk[resources'[r].base]
    BY <1>6, <2>1, <2>2, <2>3
  <2> QED  BY <1>0, <1>11, <2>2, <2>4 DEF KindsFollow
<1>14. SafePatchesChecked'
  <2> SUFFICES ASSUME NEW r \in DOMAIN templates', NEW j \in DOMAIN templates'[r],
                      ~resources'[r].patches[j].unsafe, NEW u \in Sides(templates'[r][j])
               PROVE  /\ u.path \notin Malformed /\ Size[u.path] > 0
                      /\ u.path \in Fields(u.side) \/ FitsRegistered(r, u)'
    BY DEF SafePatchesChecked
  <2>1. r \in 1 .. Len(templates)
    <3>1. DOMAIN << >> = {}
      BY NoElements
    <3> QED  BY <1>0, <1>7, <3>1, Numbers
  <2>2. r \in DOMAIN templates /\ r \in DOMAIN resources /\ templates'[r] = templates[r]
    BY <1>0, <1>7, <2>1, Numbers
  <2>3. /\ u.path \notin Malformed /\ Size[u.path] > 0
        /\ u.path \in Fields(u.side) \/ FitsRegistered(r, u)
    BY <1>6, <2>2 DEF IInv, SafePatchesChecked
  <2>4. FitsRegistered(r, u) => FitsRegistered(r, u)'
    BY <1>0, <1>6, <2>2 DEF FitsRegistered, Registered
  <2> QED  BY <2>3, <2>4
<1>15. NoFalseRefusal'
  BY <1>0 DEF NoFalseRefusal
<1> QED  BY <1>8, <1>9, <1>10, <1>12, <1>13, <1>14, <1>15 DEF IInv

(* What validatePatch accepts, every path it reads or writes passes.         *)
LEMMA ValidSides ==
  ASSUME ParsedAreRegistered, phase = "patches", NEW patch \in Patch, ValidPatch(patch),
         NEW u \in Sides(patch)
  PROVE  /\ u.path \notin Malformed /\ Size[u.path] > 0
         /\ u.path \in Fields(u.side) \/ FitsRegistered(Opened, u)
<1> DEFINE known(side) == IF side = "composite" THEN parsedC ELSE parsedR
<1>1. ValidPath(u.path, Fields(u.side), known(u.side))
  <2>1. CASE patch.type \in FromTypes
    <3>1. /\ \A p \in ToSet(patch.from) : ValidPath(p, CompositeFields, parsedC)
          /\ ValidPath(patch.to, ResourceFields, parsedR)
      BY <2>1 DEF ValidPatch, Reads, Writes
    <3>2. \/ u.path \in ToSet(patch.from) /\ u.side = "composite"
          \/ u.path = patch.to /\ u.side = "resource"
      BY <2>1 DEF Sides
    <3> QED  BY <3>1, <3>2 DEF Fields
  <2>2. CASE patch.type \notin FromTypes
    <3>1. /\ \A p \in ToSet(patch.from) : ValidPath(p, ResourceFields, parsedR)
          /\ ValidPath(patch.to, CompositeFields, parsedC)
      BY <2>2 DEF ValidPatch, Reads, Writes
    <3>2. \/ u.path \in ToSet(patch.from) /\ u.side = "resource"
          \/ u.path = patch.to /\ u.side = "composite"
      BY <2>2 DEF Sides
    <3> QED  BY <3>1, <3>2 DEF Fields
  <2> QED  BY <2>1, <2>2
<1>2. known(u.side) \subseteq Registered(Opened, u.side)
  BY DEF ParsedAreRegistered, Registered
<1> HIDE DEF known
<1> QED  BY <1>1, <1>2 DEF ValidPath, FitsRegistered

(* What it refuses has a path that is neither there nor registered, or is    *)
(* not supported, or reads nothing.                                          *)
LEMMA InvalidRefusable ==
  ASSUME TypeOK, ParsedAreRegistered, phase = "patches", NEW patch \in Patch, ~ValidPatch(patch)
  PROVE  Refusable(Opened, patch, KnownResource)
<1> SUFFICES ASSUME patch.type \in FromTypes \cup ToTypes, patch.from # << >>
             PROVE  \E u \in Sides(patch) :
                      \/ Size[u.path] = 0 \/ ~Exists(Opened, u)
                      \/ u.side = "resource" /\ u.path \in KnownResource \ ResourceFields
  BY DEF Refusable
<1> DEFINE known(side) == IF side = "composite" THEN parsedC ELSE parsedR
<1>1. PICK u \in Sides(patch) : ~ValidPath(u.path, Fields(u.side), known(u.side))
  <2>1. CASE patch.type \in FromTypes
    <3>1. CASE ~ValidPath(patch.to, ResourceFields, parsedR)
      <4>1. [path |-> patch.to, side |-> "resource"] \in Sides(patch)
        BY <2>1 DEF Sides
      <4> QED  BY <3>1, <4>1 DEF Fields
    <3>2. ASSUME NEW p \in ToSet(patch.from), ~ValidPath(p, CompositeFields, parsedC)
          PROVE  \E u \in Sides(patch) : ~ValidPath(u.path, Fields(u.side), known(u.side))
      <4>1. [path |-> p, side |-> "composite"] \in Sides(patch)
        BY <2>1 DEF Sides
      <4> QED  BY <3>2, <4>1 DEF Fields
    <3> QED  BY <2>1, <3>1, <3>2 DEF ValidPatch, Reads, Writes
  <2>2. CASE patch.type \notin FromTypes
    <3>1. CASE ~ValidPath(patch.to, CompositeFields, parsedC)
      <4>1. [path |-> patch.to, side |-> "composite"] \in Sides(patch)
        BY <2>2 DEF Sides
      <4> QED  BY <3>1, <4>1 DEF Fields
    <3>2. ASSUME NEW p \in ToSet(patch.from), ~ValidPath(p, ResourceFields, parsedR)
          PROVE  \E u \in Sides(patch) : ~ValidPath(u.path, Fields(u.side), known(u.side))
      <4>1. [path |-> p, side |-> "resource"] \in Sides(patch)
        BY <2>2 DEF Sides
      <4> QED  BY <3>2, <4>1 DEF Fields
    <3> QED  BY <2>2, <3>1, <3>2 DEF ValidPatch, Reads, Writes
  <2> QED  BY <2>1, <2>2
<1>2. u.path \in Paths /\ u.side \in {"composite", "resource"}
  <2>1. patch.to \in Paths /\ patch.from \in Seq(Paths)
    BY DEF Patch
  <2>2. ToSet(patch.from) \subseteq Paths
    BY <2>1, LenProperties, ElementOfSeq DEF ToSet
  <2> QED  BY <2>1, <2>2 DEF Sides
<1>3. /\ Registered(Opened, u.side) \subseteq known(u.side) \cup
              (IF u.side = "resource" THEN KnownResource ELSE {})
      /\ known(u.side) \cap Malformed = {}
  BY <1>2 DEF ParsedAreRegistered, Registered, TypeOK
<1>4. Fields(u.side) \cap Malformed = {} /\ KnownResource \cap Malformed = {}
  BY <1>2, PathsAssumption DEF Fields
<1>5. Size[u.path] \in Nat
  BY <1>2, PathsAssumption
<1> HIDE DEF known
<1>6. CASE u.path \in Malformed
  BY <1>3, <1>4, <1>6 DEF Exists
<1>7. CASE u.path \notin Malformed /\ Size[u.path] > 0
  <2>1. u.path \notin Fields(u.side) /\ u.path \notin known(u.side)
    BY <1>1, <1>7 DEF ValidPath
  <2> QED  BY <1>3, <2>1 DEF Exists, Fields
<1> QED  BY <1>5, <1>6, <1>7

(* validatePatch may fill in the type of the patch at hand, and changes      *)
(* nothing else of the resources.                                            *)
LEMMA DefaultedFacts ==
  ASSUME TypeOK, phase = "patches", templates # << >>, Len(templates) <= Len(resources),
         checked < Len(resources[Opened].patches), resources' = Defaulted
  PROVE  /\ Opened \in DOMAIN resources /\ checked + 1 \in DOMAIN resources[Opened].patches
         /\ NextPatch \in Guarded
         /\ resources' \in Seq(Resource) /\ Len(resources') = Len(resources)
         /\ DOMAIN resources' = DOMAIN resources
         /\ \A r \in DOMAIN resources :
              /\ resources'[r].base = resources[r].base
              /\ resources'[r].registered = resources[r].registered
              /\ Len(resources'[r].patches) = Len(resources[r].patches)
              /\ \A j \in DOMAIN resources[r].patches :
                   r # Opened \/ j # checked + 1 =>
                     resources'[r].patches[j] = resources[r].patches[j]
         /\ LET after == resources'[Opened].patches[checked + 1]
            IN  /\ after.unsafe = NextPatch.unsafe
                /\ \/ after.patch = NextPatch.patch
                   \/ /\ NextPatch.patch.type = ""
                      /\ after.patch = [NextPatch.patch EXCEPT !.type = "FromCompositeFieldPath"]
<1>1. /\ Opened \in DOMAIN resources /\ resources \in Seq(Resource)
      /\ resources[Opened] \in Resource
      /\ resources[Opened].patches \in Seq(Guarded)
      /\ checked + 1 \in DOMAIN resources[Opened].patches
  <2>1. Len(templates) \in Nat /\ Len(templates) # 0
    <3>1. templates \in Seq(Seq(Patch))
      BY DEF TypeOK
    <3> QED  BY <3>1, EmptySeq
  <2>2. Opened \in DOMAIN resources
    BY <2>1, Numbers DEF Opened
  <2>3. checked \in Nat
    BY DEF TypeOK
  <2> QED  BY <2>2, <2>3, Numbers
<1>2. NextPatch \in Guarded
  BY <1>1, LenProperties, ElementOfSeq DEF NextPatch
<1>3. CASE resources' = resources
  BY <1>1, <1>2, <1>3 DEF NextPatch
<1>4. CASE /\ NextPatch.patch.type = ""
           /\ resources' = [resources EXCEPT
                ![Opened].patches[checked + 1].patch.type = "FromCompositeFieldPath"]
  <2> DEFINE p   == [NextPatch.patch EXCEPT !.type = "FromCompositeFieldPath"]
             g   == [NextPatch EXCEPT !.patch = p]
             ps  == [resources[Opened].patches EXCEPT ![checked + 1] = g]
             new == [resources[Opened] EXCEPT !.patches = ps]
  <2>1. resources' = [resources EXCEPT ![Opened] = new]
    BY <1>4 DEF NextPatch
  <2>2. p \in Patch
    BY <1>2 DEF Guarded, Patch, PatchTypes, FromTypes
  <2> HIDE DEF p
  <2>3. g \in Guarded /\ g.patch = p /\ g.unsafe = NextPatch.unsafe
    BY <1>2, <2>2 DEF Guarded
  <2> HIDE DEF g
  <2>4. /\ ps \in Seq(Guarded) /\ Len(ps) = Len(resources[Opened].patches)
        /\ ps[checked + 1] = g
        /\ \A j \in DOMAIN resources[Opened].patches :
             j # checked + 1 => ps[j] = resources[Opened].patches[j]
    BY <1>1, <2>3, ReplaceFacts
  <2> HIDE DEF ps
  <2>5. new \in Resource
    <3>1. resources[Opened].registered \in SUBSET Paths
      BY <1>1 DEF Resource
    <3> QED  BY <1>1, <2>4, <3>1, ResourceUpdates
  <2>6. /\ new.patches = ps /\ new.base = resources[Opened].base
        /\ new.registered = resources[Opened].registered
    BY <1>1 DEF Resource
  <2> HIDE DEF new
  <2>7. /\ resources' \in Seq(Resource) /\ Len(resources') = Len(resources)
        /\ DOMAIN resources' = DOMAIN resources /\ resources'[Opened] = new
        /\ \A r \in DOMAIN resources : r # Opened => resources'[r] = resources[r]
    BY <1>1, <2>1, <2>5, ReplaceFacts
  <2>8. \A r \in DOMAIN resources :
          /\ resources'[r].base = resources[r].base
          /\ resources'[r].registered = resources[r].registered
          /\ Len(resources'[r].patches) = Len(resources[r].patches)
          /\ \A j \in DOMAIN resources[r].patches :
               r # Opened \/ j # checked + 1 =>
                 resources'[r].patches[j] = resources[r].patches[j]
    BY <2>4, <2>6, <2>7
  <2>9. resources'[Opened].patches[checked + 1] = g
    BY <2>4, <2>6, <2>7
  <2> QED  BY <1>1, <1>2, <1>4, <2>3, <2>7, <2>8, <2>9 DEF p
<1> QED  BY <1>3, <1>4 DEF Defaulted

(* A patch is accepted. *)
LEMMA AcceptIInv ==
  ASSUME IInv, AcceptPatch
  PROVE  IInv'
<1>0. /\ phase = "patches" /\ phase' = "patches" /\ outcome = "none"
      /\ UNCHANGED <<named, mode, registered, steps, parsedC, parsedR, gvk, pipeline, outcome>>
      /\ templates # << >> /\ Len(templates) <= Len(resources)
      /\ checked < Len(resources[Opened].patches) /\ checked' = checked + 1
      /\ resources' = Defaulted
      /\ TypeOK
  BY DEF IInv, ModeTold, ParsedAreRegistered, PatchesFollow, AcceptPatch
<1>1. /\ Opened \in DOMAIN resources /\ checked + 1 \in DOMAIN resources[Opened].patches
      /\ NextPatch \in Guarded
      /\ resources' \in Seq(Resource) /\ Len(resources') = Len(resources)
      /\ DOMAIN resources' = DOMAIN resources
      /\ \A r \in DOMAIN resources :
           /\ resources'[r].base = resources[r].base
           /\ resources'[r].registered = resources[r].registered
           /\ Len(resources'[r].patches) = Len(resources[r].patches)
           /\ \A j \in DOMAIN resources[r].patches :
                r # Opened \/ j # checked + 1 =>
                  resources'[r].patches[j] = resources[r].patches[j]
  BY <1>0, DefaultedFacts
<1>2. LET after == resources'[Opened].patches[checked + 1]
      IN  /\ after.unsafe = NextPatch.unsafe
          /\ \/ after.patch = NextPatch.patch
             \/ /\ NextPatch.patch.type = ""
                /\ after.patch = [NextPatch.patch EXCEPT !.type = "FromCompositeFieldPath"]
  BY <1>0, DefaultedFacts
<1>3. /\ Len(resources) \in Nat /\ DOMAIN resources = 1 .. Len(resources)
      /\ Len(templates) \in Nat /\ DOMAIN templates = 1 .. Len(templates)
      /\ templates \in Seq(Seq(Patch)) /\ Opened = Len(templates) /\ Opened \in DOMAIN templates
      /\ checked \in Nat
      /\ \A r \in DOMAIN templates :
           /\ templates[r] \in Seq(Patch) /\ r \in DOMAIN resources
           /\ Len(templates[r]) \in Nat /\ DOMAIN templates[r] = 1 .. Len(templates[r])
      /\ \A r \in DOMAIN resources :
           /\ Len(resources[r].patches) \in Nat
           /\ DOMAIN resources[r].patches = 1 .. Len(resources[r].patches)
  <2>1. checked \in Nat
    BY <1>0 DEF TypeOK
  <2> QED  BY <1>0, <1>1, <2>1, Numbers DEF Opened
<1>4. NextPatch.patch \in Patch
  BY <1>1 DEF Guarded
<1>5. /\ Len(templates[Opened]) = checked
      /\ \A r \in DOMAIN templates :
           /\ Len(templates[r]) <= Len(resources[r].patches)
           /\ \A j \in DOMAIN templates[r] :
                AsGiven(templates[r][j], resources[r].patches[j].patch)
      /\ \A r \in 1 .. Closed : Len(templates[r]) = Len(resources[r].patches)
  BY <1>0 DEF IInv, PatchesFollow
<1> DEFINE longer == Append(templates[Opened], NextPatch.patch)
<1>6. /\ longer \in Seq(Patch) /\ Len(longer) = checked + 1 /\ DOMAIN longer = 1 .. checked + 1
      /\ \A j \in 1 .. checked : longer[j] = templates[Opened][j]
      /\ longer[checked + 1] = NextPatch.patch
  BY <1>3, <1>4, <1>5, AppendFacts
<1>7. templates' = [templates EXCEPT ![Opened] = longer]
  BY DEF AcceptPatch
<1> HIDE DEF longer
<1>8. /\ templates' \in Seq(Seq(Patch)) /\ Len(templates') = Len(templates)
      /\ DOMAIN templates' = DOMAIN templates /\ templates'[Opened] = longer
      /\ \A r \in DOMAIN templates : r # Opened => templates'[r] = templates[r]
  BY <1>3, <1>6, <1>7, ReplaceFacts
<1>9. Opened' = Opened /\ Closed' = Closed /\ Closed = Len(templates) - 1
  BY <1>0, <1>8 DEF Opened, Closed
<1>10. templates' # << >>
  <2>1. Len(<< >>) = 0 /\ Len(templates') # 0
    BY <1>3, <1>8, NoElements
  <2> QED  BY <2>1
<1>11. TypeOK'
  <2>1. gvk' \in [1 .. MaxParts -> 0 .. Len(resources')] /\ checked' \in Nat
    BY <1>0, <1>1, <1>3 DEF TypeOK
  <2>2. resources' \in Seq([base : 1 .. MaxParts, registered : SUBSET Paths, patches : Seq(Guarded)])
    BY <1>1 DEF Resource
  <2> QED  BY <1>0, <1>8, <2>1, <2>2 DEF TypeOK
<1>12. NothingYet' /\ ModeTold' /\ StepsFollow'
  BY <1>0 DEF IInv, NothingYet, ModeTold, StepsFollow
<1>13. ParsedAreRegistered'
  BY <1>0, <1>1, <1>9, <1>10 DEF IInv, ParsedAreRegistered
<1>14. PatchesFollow'
  <2>1. ASSUME NEW r \in DOMAIN templates'
        PROVE  /\ Len(templates'[r]) <= Len(resources'[r].patches)
               /\ \A j \in DOMAIN templates'[r] :
                    AsGiven(templates'[r][j], resources'[r].patches[j].patch)
    <3>1. CASE r # Opened
      <4>1. templates'[r] = templates[r] /\ r \in DOMAIN templates /\ r \in DOMAIN resources
        BY <1>3, <1>8, <3>1
      <4>2. \A j \in DOMAIN resources[r].patches :
              resources'[r].patches[j] = resources[r].patches[j]
        BY <1>1, <3>1, <4>1
      <4>3. \A j \in DOMAIN templates[r] : j \in DOMAIN resources[r].patches
        BY <1>3, <1>5, <4>1
      <4> QED  BY <1>1, <1>5, <4>1, <4>2, <4>3
    <3>2. CASE r = Opened
      <4>1. Len(longer) <= Len(resources'[Opened].patches)
        BY <1>0, <1>1, <1>3, <1>6
      <4>2. ASSUME NEW j \in 1 .. checked
            PROVE  AsGiven(longer[j], resources'[Opened].patches[j].patch)
        <5>1. j \in DOMAIN templates[Opened] /\ j \in DOMAIN resources[Opened].patches /\ j # checked + 1
          BY <1>0, <1>3, <1>5
        <5>2. resources'[Opened].patches[j] = resources[Opened].patches[j]
          BY <1>1, <5>1
        <5> QED  BY <1>3, <1>5, <1>6, <5>1, <5>2
      <4>3. AsGiven(longer[checked + 1], resources'[Opened].patches[checked + 1].patch)
        <5>1. NextPatch.patch.type = "" =>
                NextPatch.patch = [[NextPatch.patch EXCEPT !.type = "FromCompositeFieldPath"]
                                     EXCEPT !.type = ""]
          BY <1>4 DEF Patch
        <5> QED  BY <1>2, <1>6, <5>1 DEF AsGiven
      <4>4. \A j \in DOMAIN longer : j \in 1 .. checked \/ j = checked + 1
        BY <1>3, <1>6
      <4> QED  BY <1>8, <3>2, <4>1, <4>2, <4>3, <4>4
    <3> QED  BY <3>1, <3>2
  <2>2. ASSUME NEW r \in 1 .. Closed'
        PROVE  Len(templates'[r]) = Len(resources'[r].patches)
    <3>1. r \in 1 .. Closed /\ r # Opened /\ r \in DOMAIN templates /\ r \in DOMAIN resources
      BY <1>3, <1>9
    <3> QED  BY <1>1, <1>5, <1>8, <3>1
  <2>3. Len(templates') <= Len(resources') /\ Len(templates'[Opened']) = checked'
    BY <1>0, <1>1, <1>6, <1>8, <1>9
  <2> QED  BY <1>0, <2>1, <2>2, <2>3 DEF PatchesFollow
<1>15. KindsFollow'
  <2>1. /\ \A b \in DOMAIN gvk : gvk[b] \in 0 .. Closed
        /\ \A b \in DOMAIN gvk : gvk[b] # 0 => resources[gvk[b]].base = b
        /\ \A r \in 1 .. Closed : r <= gvk[resources[r].base]
    BY <1>0 DEF IInv, KindsFollow
  <2>2. \A r \in 1 .. Closed : r \in DOMAIN resources
    BY <1>3, <1>9
  <2>3. \A b \in DOMAIN gvk : gvk[b] # 0 => gvk[b] \in 1 .. Closed
    BY <1>3, <1>9, <2>1
  <2> QED  BY <1>0, <1>1, <1>9, <2>1, <2>2, <2>3 DEF KindsFollow
<1>16. SafePatchesChecked'
  <2> SUFFICES ASSUME NEW r \in DOMAIN templates', NEW j \in DOMAIN templates'[r],
                      ~resources'[r].patches[j].unsafe, NEW u \in Sides(templates'[r][j])
               PROVE  /\ u.path \notin Malformed /\ Size[u.path] > 0
                      /\ u.path \in Fields(u.side) \/ FitsRegistered(r, u)'
    BY DEF SafePatchesChecked
  <2>1. r \in DOMAIN templates /\ r \in DOMAIN resources
    BY <1>3, <1>8
  <2>2. FitsRegistered(r, u) => FitsRegistered(r, u)'
    BY <1>0, <1>1, <2>1 DEF FitsRegistered, Registered
  <2>3. CASE r = Opened /\ j = checked + 1
    <3>1. ~NextPatch.unsafe /\ templates'[r][j] = NextPatch.patch
      BY <1>2, <1>6, <1>8, <2>3
    <3>2. ValidPatch(NextPatch.patch)
      BY <3>1 DEF AcceptPatch, Accepted
    <3> QED  BY <1>0, <1>4, <2>2, <2>3, <3>1, <3>2, ValidSides DEF IInv
  <2>4. CASE r # Opened \/ j # checked + 1
    <3>1. j \in DOMAIN templates[r] /\ templates'[r][j] = templates[r][j]
      <4>1. CASE r # Opened
        BY <4>1, <1>8, <2>1
      <4>2. CASE r = Opened
        <5>1. j \in 1 .. checked
          BY <4>2, <2>4, <1>3, <1>6, <1>8
        <5> QED  BY <4>2, <5>1, <1>3, <1>5, <1>6, <1>8
      <4> QED  BY <4>1, <4>2
    <3>2. j \in DOMAIN resources[r].patches
      BY <1>3, <1>5, <2>1, <3>1
    <3>3. resources'[r].patches[j] = resources[r].patches[j]
      BY <1>1, <2>1, <2>4, <3>2
    <3> QED  BY <2>1, <2>2, <3>1, <3>3 DEF IInv, SafePatchesChecked
  <2> QED  BY <2>3, <2>4
<1>17. NoFalseRefusal'
  BY <1>0 DEF NoFalseRefusal
<1> QED  BY <1>11, <1>12, <1>13, <1>14, <1>15, <1>16, <1>17 DEF IInv

(* A registered path does not parse, or a patch is refused. *)
LEMMA FailIInv ==
  ASSUME IInv, ResourceFails \/ RefusePatch
  PROVE  IInv'
<1>0. /\ phase \in {"resources", "patches"} /\ phase' = "done" /\ outcome' = "error"
      /\ mode = "Resources" /\ named
      /\ UNCHANGED <<named, mode, registered, steps, outVars>>
      /\ Len(templates) <= Len(resources)
      /\ TypeOK
  BY DEF IInv, ModeTold, PatchesFollow, ResourceFails, RefusePatch, builderVars
<1>1. /\ resources' \in Seq(Resource) /\ Len(resources') = Len(resources)
      /\ DOMAIN resources' = DOMAIN resources
      /\ \A r \in DOMAIN resources :
           /\ resources'[r].registered = resources[r].registered
           /\ Len(resources'[r].patches) = Len(resources[r].patches)
           /\ \A j \in DOMAIN resources[r].patches :
                \/ resources'[r].patches[j] = resources[r].patches[j]
                \/ r = Len(templates) /\ j = checked + 1
  <2>1. CASE ResourceFails
    BY <1>0, <2>1, Numbers DEF ResourceFails, builderVars
  <2>2. CASE RefusePatch
    <3>1. /\ phase = "patches" /\ templates # << >> /\ checked < Len(resources[Opened].patches)
          /\ resources' = Defaulted
      BY <2>2 DEF RefusePatch, IInv, ParsedAreRegistered
    <3> QED  BY <1>0, <3>1, DefaultedFacts DEF Opened
  <2> QED  BY <2>1, <2>2
<1>2. /\ DOMAIN templates = 1 .. Len(templates) /\ Len(templates) \in Nat
      /\ DOMAIN resources = 1 .. Len(resources) /\ Len(resources) \in Nat
      /\ \A r \in DOMAIN templates : Len(templates[r]) \in Nat /\ DOMAIN templates[r] = 1 .. Len(templates[r])
      /\ \A r \in DOMAIN resources :
           /\ Len(resources[r].patches) \in Nat
           /\ DOMAIN resources[r].patches = 1 .. Len(resources[r].patches)
  BY <1>0, Numbers
<1>3. /\ \A r \in DOMAIN templates :
           /\ Len(templates[r]) <= Len(resources[r].patches)
           /\ \A j \in DOMAIN templates[r] :
                AsGiven(templates[r][j], resources[r].patches[j].patch)
      /\ phase = "resources" => resources' = resources
      /\ phase = "patches" => Len(templates[Opened]) = checked
  BY <1>0 DEF IInv, PatchesFollow, ResourceFails, RefusePatch, builderVars
(* The patches already made stay as they were. *)
<1>4. ASSUME NEW r \in DOMAIN templates, NEW j \in DOMAIN templates[r]
      PROVE  /\ r \in DOMAIN resources /\ j \in DOMAIN resources[r].patches
             /\ resources'[r].patches[j] = resources[r].patches[j]
  <2>1. r \in DOMAIN resources
    BY <1>0, <1>2
  <2>2. j \in DOMAIN resources[r].patches
    BY <1>2, <1>3, <2>1
  <2>3. CASE phase = "resources"
    BY <1>3, <2>1, <2>2, <2>3
  <2>4. CASE phase = "patches"
    <3>1. r = Len(templates) => j # checked + 1
      BY <1>2, <1>3, <2>4 DEF Opened
    <3> QED  BY <1>1, <2>1, <2>2, <3>1
  <2> QED  BY <1>0, <2>1, <2>2, <2>3, <2>4
<1>5. TypeOK'
  <2>1. resources' \in Seq([base : 1 .. MaxParts, registered : SUBSET Paths, patches : Seq(Guarded)])
    BY <1>1 DEF Resource
  <2> QED  BY <1>0, <1>1, <2>1 DEF TypeOK, outVars
<1>6. NothingYet' /\ ModeTold' /\ ParsedAreRegistered' /\ KindsFollow' /\ StepsFollow'
  BY <1>0 DEF NothingYet, ModeTold, ParsedAreRegistered, KindsFollow, StepsFollow
<1>7. PatchesFollow'
  <2>1. UNCHANGED templates
    BY <1>0 DEF outVars
  <2>2. ASSUME NEW r \in DOMAIN templates
        PROVE  /\ Len(templates[r]) <= Len(resources'[r].patches)
               /\ \A j \in DOMAIN templates[r] :
                    AsGiven(templates[r][j], resources'[r].patches[j].patch)
    <3>1. r \in DOMAIN resources
      BY <1>0, <1>2
    <3> QED  BY <1>1, <1>3, <1>4, <3>1
  <2> QED  BY <1>0, <1>1, <2>1, <2>2 DEF PatchesFollow
<1>8. SafePatchesChecked'
  <2> SUFFICES ASSUME NEW r \in DOMAIN templates, NEW j \in DOMAIN templates[r],
                      ~resources'[r].patches[j].unsafe, NEW u \in Sides(templates[r][j])
               PROVE  /\ u.path \notin Malformed /\ Size[u.path] > 0
                      /\ u.path \in Fields(u.side) \/ FitsRegistered(r, u)'
    BY <1>0 DEF SafePatchesChecked, outVars
  <2>1. FitsRegistered(r, u) => FitsRegistered(r, u)'
    BY <1>0, <1>1, <1>4 DEF FitsRegistered, Registered
  <2> QED  BY <1>4, <2>1 DEF IInv, SafePatchesChecked
<1>9. NoFalseRefusal'
  <2>1. CASE ResourceFails
    <3>1. Current \in DOMAIN resources
      BY <1>2, <2>1 DEF ResourceFails, Current
    <3>2. (registered \cup resources[Current].registered) \cap Malformed # {}
      BY <2>1 DEF ResourceFails, AllParse
    <3> QED  BY <1>0, <2>1, <3>1, <3>2 DEF ResourceFails, builderVars, NoFalseRefusal, SomethingWrong
  <2>2. CASE RefusePatch
    <3>1. /\ phase = "patches" /\ templates # << >> /\ checked < Len(resources[Opened].patches)
          /\ resources' = Defaulted /\ ~Accepted(NextPatch)
      BY <2>2 DEF RefusePatch, IInv, ParsedAreRegistered
    <3> DEFINE after == resources'[Opened].patches[checked + 1]
    <3>2. /\ Opened \in DOMAIN resources /\ checked + 1 \in DOMAIN resources[Opened].patches
          /\ NextPatch \in Guarded
          /\ after.unsafe = NextPatch.unsafe
          /\ \/ after.patch = NextPatch.patch
             \/ /\ NextPatch.patch.type = ""
                /\ after.patch = [NextPatch.patch EXCEPT !.type = "FromCompositeFieldPath"]
      BY <1>0, <3>1, DefaultedFacts
    <3>3. NextPatch.patch \in Patch /\ ~NextPatch.unsafe /\ ~ValidPatch(NextPatch.patch)
      BY <3>1, <3>2 DEF Guarded, Accepted
    <3>4. Refusable(Opened, NextPatch.patch, KnownResource)
      BY <1>0, <3>1, <3>3, InvalidRefusable DEF IInv
    <3>5. Refusable(Opened, after.patch, KnownResource)
      <4>1. CASE after.patch = NextPatch.patch
        BY <3>4, <4>1
      <4>2. CASE /\ NextPatch.patch.type = ""
                 /\ after.patch = [NextPatch.patch EXCEPT !.type = "FromCompositeFieldPath"]
        <5>1. /\ after.patch.from = NextPatch.patch.from /\ after.patch.to = NextPatch.patch.to
              /\ after.patch.type = "FromCompositeFieldPath"
          BY <3>3, <4>2 DEF Patch
        <5>2. after.patch.type \in FromTypes /\ NextPatch.patch.type \in FromTypes
          BY <4>2, <5>1 DEF FromTypes
        <5>3. Sides(after.patch) = Sides(NextPatch.patch)
          BY <5>1, <5>2 DEF Sides
        <5> HIDE DEF after
        <5> QED  BY <3>4, <5>1, <5>2, <5>3 DEF Refusable
      <4> QED  BY <3>2, <4>1, <4>2
    <3>6. resources'[Opened].registered = resources[Opened].registered
      BY <1>1, <3>2
    <3> HIDE DEF after
    <3>7. /\ \E r \in DOMAIN resources' : \E g \in ToSet(resources'[r].patches) :
               /\ ~g.unsafe
               /\ \/ g.patch.type \notin FromTypes \cup ToTypes
                  \/ g.patch.from = <<>>
                  \/ \E u \in Sides(g.patch) :
                       \/ Size[u.path] = 0
                       \/ u.path \notin Fields(u.side) \cup
                            (IF u.side = "composite" THEN registered' ELSE resources'[r].registered)
                       \/ u.side = "resource" /\ u.path \in KnownResource \ ResourceFields
      <4>1. after \in ToSet(resources'[Opened].patches)
        <5>1. resources'[Opened] \in Resource
          BY <1>1, <1>2, <3>2, ElementOfSeq
        <5>2. resources'[Opened].patches \in Seq(Guarded)
          BY <5>1 DEF Resource
        <5>3. checked + 1 \in DOMAIN resources'[Opened].patches
          <6>1. DOMAIN resources'[Opened].patches = 1 .. Len(resources'[Opened].patches)
            BY <5>2, LenProperties
          <6>2. Len(resources'[Opened].patches) = Len(resources[Opened].patches)
            BY <1>1, <3>2
          <6>3. checked + 1 \in 1 .. Len(resources[Opened].patches)
            BY <1>2, <3>2
          <6> QED  BY <6>1, <6>2, <6>3
        <5> QED  BY <5>3 DEF ToSet, after
      <4>2. Opened \in DOMAIN resources' /\ ~after.unsafe
        BY <1>1, <3>2, <3>3
      <4> QED  BY <1>0, <3>5, <3>6, <4>1, <4>2 DEF Refusable, Exists, Registered
    <3> QED  BY <1>0, <3>7 DEF NoFalseRefusal, SomethingWrong, Refusable, Exists, Registered
  <2> QED  BY <2>1, <2>2
<1> QED  BY <1>5, <1>6, <1>7, <1>8, <1>9 DEF IInv

(* All patches of a resource are accepted: its base gets its kind. *)
LEMMA CloseIInv ==
  ASSUME IInv, CloseResource
  PROVE  IInv'
<1>0. /\ phase = "patches" /\ phase' = "resources" /\ mode = "Resources" /\ named
      /\ outcome = "none"
      /\ UNCHANGED <<builderVars, parsedC, parsedR, checked, templates, pipeline, outcome>>
      /\ checked = Len(resources[Opened].patches)
      /\ Len(templates[Opened]) = checked
      /\ templates # << >> /\ Len(templates) <= Len(resources)
      /\ gvk' = [gvk EXCEPT ![resources[Opened].base] = Opened]
      /\ TypeOK
  BY DEF IInv, ModeTold, ParsedAreRegistered, PatchesFollow, CloseResource, KindGiven
<1>1. UNCHANGED <<named, mode, registered, resources, steps>>
  BY <1>0 DEF builderVars
<1>2. /\ Len(templates) \in Nat /\ Len(templates) # 0 /\ Opened = Len(templates)
      /\ Opened \in 1 .. Len(resources) /\ Opened \in DOMAIN resources
      /\ resources[Opened].base \in 1 .. MaxParts
      /\ DOMAIN resources = 1 .. Len(resources) /\ Len(resources) \in Nat
      /\ \A r \in DOMAIN resources : resources[r].base \in 1 .. MaxParts
  <2>1. templates \in Seq(Seq(Patch))
    BY <1>0 DEF TypeOK
  <2>2. Len(templates) # 0
    BY <1>0, <2>1, EmptySeq
  <2> QED  BY <1>0, <2>2, Numbers DEF Opened
<1>3. Closed = Opened - 1 /\ Closed' = Opened
  BY <1>0, <1>2 DEF Closed, Opened
<1>4. /\ gvk \in [1 .. MaxParts -> 0 .. Len(resources)]
      /\ gvk' \in [1 .. MaxParts -> 0 .. Len(resources)]
  BY <1>0, <1>2 DEF TypeOK
<1>5. TypeOK'
  BY <1>0, <1>1, <1>4 DEF TypeOK
<1>6. NothingYet' /\ ModeTold' /\ ParsedAreRegistered' /\ StepsFollow'
  BY <1>0, <1>1 DEF IInv, NothingYet, ModeTold, ParsedAreRegistered, StepsFollow
<1>7. PatchesFollow'
  <2>1. /\ \A r \in DOMAIN templates :
             /\ Len(templates[r]) <= Len(resources[r].patches)
             /\ \A j \in DOMAIN templates[r] :
                  AsGiven(templates[r][j], resources[r].patches[j].patch)
        /\ \A r \in 1 .. Closed : Len(templates[r]) = Len(resources[r].patches)
    BY <1>0 DEF IInv, PatchesFollow
  <2>2. \A r \in 1 .. Closed' : r \in 1 .. Closed \/ r = Opened
    BY <1>2, <1>3
  <2> QED  BY <1>0, <1>1, <2>1, <2>2 DEF PatchesFollow
<1>8. KindsFollow'
  <2>1. /\ \A b \in DOMAIN gvk : gvk[b] \in 0 .. Closed
        /\ \A b \in DOMAIN gvk : gvk[b] # 0 => resources[gvk[b]].base = b
        /\ \A r \in 1 .. Closed : r <= gvk[resources[r].base]
    BY <1>0 DEF IInv, KindsFollow
  <2>2. DOMAIN gvk' = DOMAIN gvk /\ DOMAIN gvk = 1 .. MaxParts
    BY <1>4
  <2>3. gvk'[resources[Opened].base] = Opened
    BY <1>0, <1>2, <2>2
  <2>4. \A b \in DOMAIN gvk : b # resources[Opened].base => gvk'[b] = gvk[b]
    BY <1>0, <2>2
  <2>5. \A b \in DOMAIN gvk : gvk'[b] \in 0 .. Opened
    BY <1>2, <1>3, <2>1, <2>3, <2>4
  <2>6. \A b \in DOMAIN gvk : gvk'[b] # 0 => resources[gvk'[b]].base = b
    BY <2>1, <2>3, <2>4
  <2>7. ASSUME NEW r \in 1 .. Opened
        PROVE  r <= gvk'[resources[r].base]
    <3>1. r \in DOMAIN resources /\ resources[r].base \in DOMAIN gvk
      BY <1>2, <2>2
    <3>2. CASE resources[r].base = resources[Opened].base
      BY <1>2, <2>3, <3>2
    <3>3. CASE resources[r].base # resources[Opened].base
      <4>1. r \in 1 .. Closed
        BY <1>2, <1>3, <3>3
      <4> QED  BY <2>1, <2>4, <3>1, <3>3, <4>1
    <3> QED  BY <3>2, <3>3
  <2> QED  BY <1>1, <1>3, <2>2, <2>5, <2>6, <2>7 DEF KindsFollow
<1>9. SafePatchesChecked' /\ NoFalseRefusal'
  BY <1>0, <1>1 DEF IInv, SafePatchesChecked, FitsRegistered, Registered, NoFalseRefusal
<1> QED  BY <1>5, <1>6, <1>7, <1>8, <1>9 DEF IInv

(* The next pipeline step, or the end of the loop. *)
LEMMA EndIInv ==
  ASSUME IInv, MakeStep \/ Finish
  PROVE  IInv'
<1>0. /\ phase \in {"resources", "pipeline"} /\ phase' \in {phase, "done"} /\ named /\ TypeOK
      /\ outcome = "none" /\ outcome' # "error"
      /\ UNCHANGED <<named, mode, registered, resources, steps, parsedC, parsedR, checked,
                     templates, gvk>>
  BY DEF IInv, ModeTold, MakeStep, Finish, builderVars, outVars
<1>1. /\ pipeline \in Nat /\ Len(steps) \in Nat
      /\ phase = "pipeline" => pipeline <= Len(steps) /\ \A s \in 1 .. pipeline : steps[s].ref
  BY <1>0, Numbers DEF IInv, TypeOK, StepsFollow
<1>2. pipeline' \in Nat /\ outcome' \in {"none", "ok", "panic"}
  BY <1>0, <1>1 DEF MakeStep, Finish, outVars
<1>3. TypeOK'
  BY <1>0, <1>2 DEF TypeOK
<1>4. NothingYet' /\ ParsedAreRegistered' /\ NoFalseRefusal'
  BY <1>0 DEF NothingYet, ParsedAreRegistered, NoFalseRefusal
<1>5. ModeTold'
  BY <1>0 DEF IInv, ModeTold, MakeStep, Finish
<1>6. Closed' = Closed
  BY <1>0 DEF Closed
<1>7. PatchesFollow'
  <2>1. phase' = "done" /\ outcome' = "ok" /\ mode = "Resources" => Len(templates) = Len(resources)
    BY <1>0 DEF Finish, MakeStep, IInv, ModeTold
  <2> QED  BY <1>0, <1>6, <2>1 DEF IInv, PatchesFollow
<1>8. KindsFollow'
  BY <1>0, <1>6 DEF IInv, KindsFollow
<1>9. StepsFollow'
  <2>1. CASE MakeStep
    <3>1. pipeline < Len(steps)
      BY <2>1 DEF MakeStep
    <3>2. CASE steps[pipeline + 1].ref
      <4>1. phase' = "pipeline" /\ outcome' = "none" /\ pipeline' = pipeline + 1
        BY <1>0, <2>1, <3>2 DEF MakeStep, HasRef
      <4>2. \A s \in 1 .. pipeline + 1 : s \in 1 .. pipeline \/ s = pipeline + 1
        BY <1>1
      <4> QED  BY <1>0, <1>1, <2>1, <3>1, <3>2, <4>1, <4>2 DEF MakeStep, StepsFollow
    <3>3. CASE ~steps[pipeline + 1].ref
      <4>1. phase' = "done" /\ outcome' = "panic" /\ pipeline' = pipeline
        BY <2>1, <3>3 DEF MakeStep, HasRef
      <4> QED  BY <1>0, <1>1, <2>1, <3>1, <3>3, <4>1 DEF MakeStep, StepsFollow
    <3> QED  BY <3>2, <3>3
  <2>2. CASE Finish
    <3>1. CASE phase = "pipeline"
      BY <1>0, <1>1, <2>2, <3>1 DEF Finish, StepsFollow, outVars
    <3>2. CASE phase = "resources"
      <4>1. pipeline' = pipeline /\ mode = "Resources" /\ outcome' = "ok" /\ phase' = "done"
        BY <2>2, <3>2 DEF Finish, outVars, IInv, ModeTold
      <4>2. pipeline = 0
        BY <3>2 DEF IInv, StepsFollow
      <4> QED  BY <1>0, <4>1, <4>2 DEF StepsFollow
    <3> QED  BY <1>0, <3>1, <3>2
  <2> QED  BY <2>1, <2>2
<1>10. SafePatchesChecked'
  BY <1>0 DEF IInv, SafePatchesChecked, FitsRegistered, Registered
<1> QED  BY <1>3, <1>4, <1>5, <1>7, <1>8, <1>9, <1>10 DEF IInv

LEMMA NextIInv ==
  ASSUME IInv, [Next]_vars
  PROVE  IInv'
<1>1. CASE Calls                        BY <1>1, CallsIInv
<1>2. CASE NoName \/ ToComposition      BY <1>2, BeginIInv
<1>3. CASE OpenResource                 BY <1>3, OpenIInv
<1>4. CASE ResourceFails \/ RefusePatch BY <1>4, FailIInv
<1>5. CASE AcceptPatch                  BY <1>5, AcceptIInv
<1>6. CASE CloseResource                BY <1>6, CloseIInv
<1>7. CASE MakeStep \/ Finish           BY <1>7, EndIInv
<1>8. CASE UNCHANGED vars
  <2> USE <1>8 DEF vars, IInv
  <2>1. TypeOK'
    BY DEF TypeOK
  <2>2. NothingYet' /\ ModeTold' /\ ParsedAreRegistered' /\ StepsFollow'
    BY DEF NothingYet, ModeTold, ParsedAreRegistered, Opened, StepsFollow
  <2>3. PatchesFollow' /\ KindsFollow'
    BY DEF PatchesFollow, KindsFollow, Closed, Opened
  <2>4. SafePatchesChecked' /\ NoFalseRefusal'
    <3>1. SafePatchesChecked'
      BY DEF SafePatchesChecked, FitsRegistered, Registered
    <3>2. NoFalseRefusal'
      BY DEF NoFalseRefusal, SomethingWrong, Refusable, Exists, Registered
    <3> QED  BY <3>1, <3>2
  <2> QED  BY <2>1, <2>2, <2>3, <2>4
<1> QED  BY <1>1, <1>2, <1>3, <1>4, <1>5, <1>6, <1>7, <1>8 DEF Next, Terminated

-------------------------------------------------------------------------------
(* Theorems *)

(* The parts of IInv hold in every state of every run. *)
THEOREM Invariance == Spec => []IInv
<1>1. Init => IInv                    BY InitIInv
<1>2. IInv /\ [Next]_vars => IInv'    BY NextIInv
<1> QED  BY <1>1, <1>2, PTL DEF Spec

(* Every variable keeps its type; what was parsed parses (composed.go:75-91). *)
THEOREM TypeCorrect == Spec => []TypeOK
<1>1. IInv => TypeOK  BY DEF IInv
<1> QED  BY <1>1, Invariance, PTL

(* composed.go:95-103, patches.go:16-43: no path of a safe patch that is put *)
(* out went unchecked, whatever the builder registers and wherever.          *)
THEOREM PatchesAreChecked == Spec => []SafePatchesChecked
<1>1. IInv => SafePatchesChecked  BY DEF IInv
<1> QED  BY <1>1, Invariance, PTL

(* A composition whose safe patches have paths that exist or are registered  *)
(* is not refused.                                                           *)
THEOREM RefusalsHaveCause == Spec => []NoFalseRefusal
<1>1. IInv => NoFalseRefusal  BY DEF IInv
<1> QED  BY <1>1, Invariance, PTL

(* What is put out is what the builder asked for: each patch as it was       *)
(* given, FromCompositeFieldPath being the type of one without               *)
(* (composition.go, composed.go:81-117).                                     *)
THEOREM FaithfulOutput == Spec => []OutputFaithful
<1>1. IInv => OutputFaithful
  <2> SUFFICES ASSUME IInv, outcome = "ok"
               PROVE  /\ Len(templates) = IF mode = "Resources" THEN Len(resources) ELSE 0
                      /\ mode = "Resources" => \A r \in DOMAIN resources :
                           /\ Len(templates[r]) = Len(resources[r].patches)
                           /\ \A j \in DOMAIN templates[r] :
                                AsGiven(templates[r][j], resources[r].patches[j].patch)
    BY DEF OutputFaithful
  <2>1. phase = "done" /\ (mode = "Resources" => Len(templates) = Len(resources))
    BY DEF IInv, ModeTold, PatchesFollow
  <2>2. mode # "Resources" => Len(templates) = 0
    <3>1. Len(<< >>) = 0
      BY NoElements
    <3> QED  BY <3>1 DEF IInv, ModeTold
  <2>3. ASSUME mode = "Resources", NEW r \in DOMAIN resources
        PROVE  /\ Len(templates[r]) = Len(resources[r].patches)
               /\ \A j \in DOMAIN templates[r] :
                    AsGiven(templates[r][j], resources[r].patches[j].patch)
    <3>1. r \in DOMAIN templates /\ r \in 1 .. Closed
      BY <2>1, <2>3, Numbers DEF IInv, Closed
    <3> QED  BY <2>1, <3>1 DEF IInv, PatchesFollow
  <2> QED  BY <2>1, <2>2, <2>3
<1> QED  BY <1>1, Invariance, PTL

(* composed.go:105-106: each resource has the kind given with its base, the  *)
(* last one if several were given.                                           *)
THEOREM KindsAreKept == Spec => []KindsKept
<1>1. IInv => KindsKept
  <2> SUFFICES ASSUME IInv, outcome = "ok", mode = "Resources", NEW r \in DOMAIN resources
               PROVE  gvk[resources[r].base] =
                        Max({q \in DOMAIN resources : resources[q].base = resources[r].base})
    BY DEF KindsKept
  <2> DEFINE b       == resources[r].base
             sharing == {q \in DOMAIN resources : resources[q].base = b}
  <2>1. phase = "done" /\ Len(templates) = Len(resources)
    BY DEF IInv, ModeTold, PatchesFollow
  <2>2. Closed = Len(resources) /\ Len(resources) \in Nat /\ DOMAIN resources = 1 .. Len(resources)
    BY <2>1, Numbers DEF IInv, Closed
  <2>3. b \in 1 .. MaxParts
    BY Numbers DEF IInv
  <2>4. b \in DOMAIN gvk
    BY <2>3 DEF IInv, TypeOK
  <2>5. /\ gvk[b] \in 0 .. Closed
        /\ gvk[b] # 0 => resources[gvk[b]].base = b
        /\ \A q \in 1 .. Closed : q <= gvk[resources[q].base]
    BY <2>4 DEF IInv, KindsFollow
  <2> HIDE DEF b
  <2>6. \A q \in sharing : q <= gvk[b]
    BY <2>2, <2>5
  <2>7. gvk[b] \in sharing
    <3>1. r \in sharing /\ r <= gvk[b]
      BY <2>6 DEF b
    <3> QED  BY <2>2, <2>5, <3>1
  <2>8. \A m \in sharing : (\A q \in sharing : m >= q) => m = gvk[b]
    BY <2>2, <2>5, <2>6, <2>7
  <2> HIDE DEF sharing
  <2>9. Max(sharing) = gvk[b]
    <3>1. \A q \in sharing : gvk[b] >= q
      BY <2>2, <2>5, <2>6 DEF sharing
    <3> QED  BY <2>7, <2>8, <3>1 DEF Max
  <2> QED  BY <2>9 DEF b, sharing
<1> QED  BY <1>1, Invariance, PTL

(* A pipeline is put out whole, or the program panics at the first step      *)
(* that has no function reference (pipeline.go).                             *)
THEOREM PipelinesAreWhole == Spec => []PipelineWhole
<1>1. IInv => PipelineWhole
  <2> SUFFICES ASSUME IInv, mode = "Pipeline", named
               PROVE  /\ outcome # "error"
                      /\ outcome = "ok" => pipeline = Len(steps) /\ \A s \in DOMAIN steps : steps[s].ref
                      /\ outcome = "panic" => ~steps[pipeline + 1].ref
    BY DEF PipelineWhole
  <2>1. DOMAIN steps = 1 .. Len(steps)
    BY Numbers DEF IInv
  <2> QED  BY <2>1 DEF IInv, ModeTold, StepsFollow
<1> QED  BY <1>1, Invariance, PTL

===============================================================================
