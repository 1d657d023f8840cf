----------------------------- MODULE XrdGenProofs ------------------------------
(***************************************************************************)
(* Proofs about XrdGen: any packages, markers and kinds.                   *)
(***************************************************************************)
EXTENDS XrdGen, FiniteSetTheorems, SequenceTheorems, SequenceFacts, TLAPS

(* The generator has gone through all packages. *)
Parsed == phase \in {"crds", "convert", "apply", "write"} \/ outcome # "none"

(* Where the generator is. *)
Stages ==
  /\ outcome # "none" => phase = "done"
  /\ phase = "register" => errors = <<>> /\ ~crdErrors
  /\ phase \notin {"register", "done"} \/ outcome # "none" => registered = Markers
  /\ phase = "done" /\ outcome = "none" => registered # Markers
  /\ Parsed => need = Len(Roots)

(* What has become of the packages that have been loaded. *)
PackagesSorted ==
  /\ \A p \in grouped : p \notin bad /\ ~Info[p].skip /\ Info[p].group # NoGroup
  /\ \A p \in packages :
       p \in bad \/ Info[p].skip \/ Info[p].group = NoGroup \/ p \in grouped
  /\ \A p \in packages \cap bad : errors # <<>>

(* An XRD has values of its own group only. *)
OwnValues(x) == \A m \in Markers : x.fields[m] \in Given(x, m) \cup {Unset}

(* The markers that have not been applied are still to be. *)
CurrentMarked ==
  /\ phase # "apply" => toApply = {}
  /\ phase = "apply" =>
       /\ OwnValues(current)
       /\ \A p \in toApply : Info[p].group = current.group
       /\ \A m \in Markers : \A p \in Marking(current, m) :
            p \in toApply \/ current.fields[m] # Unset

XrdsMarked ==
  \A x \in ToSet(xrds) :
    /\ OwnValues(x)
    /\ \A m \in Markers : Marking(x, m) # {} => x.fields[m] # Unset

(* Every CRD is waiting, being converted or an XRD. *)
BeingMade == IF phase = "apply" THEN 1 ELSE 0

Counted ==
  /\ IsFiniteSet(crds)
  /\ phase \in {"register", "index", "crds"} => xrds = <<>> /\ unconverted = {}
  /\ phase \in {"convert", "apply", "write"} =>
       Len(xrds) + Cardinality(unconverted) + BeingMade = Cardinality(crds)
  /\ phase = "write" \/ outcome = "ok" => unconverted = {}
  /\ phase \notin {"write", "done"} => written = 0
  /\ written # 0 => Len(xrds) = Cardinality(crds)
  /\ outcome = "ok" => written = Len(xrds)

(* An API kind has a CRD, or one of its group and plural took its place, or  *)
(* its CRD got lost; each CRD has all versions of its kind.                  *)
CrdsComplete ==
  /\ \A c \in crds : c.versions = Versions(c.group, c.kind)
  /\ Parsed => \A g \in Groups, k \in Kinds :
       IsKubeKind(g, k) =>
         \/ <<g, k>> \in crdsLeft \cup lost
         \/ \E c \in crds : c.group = g /\ Plural[c.kind] = Plural[k]
  /\ phase \in {"convert", "apply", "write"} \/ outcome = "ok" => crdsLeft = {}

MadeFrom(x, c) == x.group = c.group /\ x.kind = c.kind /\ x.versions = c.versions

XrdsComplete ==
  phase \in {"convert", "apply", "write"} \/ outcome = "ok" =>
    \A c \in crds :
      \/ c \in unconverted
      \/ phase = "apply" /\ MadeFrom(current, c)
      \/ \E x \in ToSet(xrds) : MadeFrom(x, c)

XInv ==
  /\ TypeOK
  /\ Stages /\ PackagesSorted /\ CurrentMarked /\ XrdsMarked
  /\ Counted /\ CrdsComplete /\ XrdsComplete

-------------------------------------------------------------------------------
(* The packages and what their types say *)

LEMMA RootFacts ==
  ASSUME TypeOK
  PROVE  /\ Len(Roots) \in Nat /\ need \in Nat
         /\ packages \subseteq Packages
         /\ need = Len(Roots) => packages = Packages
         /\ need < Len(Roots) =>
              /\ need + 1 \in 0 .. Len(Roots)
              /\ Root \in Packages
              /\ {Roots[i] : i \in 1 .. need + 1} = packages \cup {Root}
<1>1. /\ Len(Roots) \in Nat /\ DOMAIN Roots = 1 .. Len(Roots)
      /\ need \in 0 .. Len(Roots) /\ packages = {Roots[i] : i \in 1 .. need}
  BY RootsAssumption, LenProperties DEF TypeOK
<1>2. 1 .. need \subseteq DOMAIN Roots
  BY <1>1
<1>3. ASSUME need < Len(Roots)
      PROVE  /\ need + 1 \in 0 .. Len(Roots) /\ need + 1 \in DOMAIN Roots
             /\ 1 .. need + 1 = (1 .. need) \cup {need + 1}
  BY <1>1, <1>3
<1>4. Packages = {Roots[i] : i \in DOMAIN Roots}
  BY DEF Packages, ToSet
<1>5. packages \subseteq Packages
  BY <1>1, <1>2, <1>4
<1>6. need = Len(Roots) => packages = Packages
  BY <1>1, <1>4
<1>7. need < Len(Roots) => Root \in Packages
  BY <1>3, <1>4 DEF Root
<1>8. need < Len(Roots) => {Roots[i] : i \in 1 .. need + 1} = packages \cup {Root}
  BY <1>1, <1>3 DEF Root
<1>9. need \in Nat
  BY <1>1
<1> QED  BY <1>1, <1>3, <1>5, <1>6, <1>7, <1>8, <1>9

(* The last of the values of a marker that a type has. *)
LEMMA LastFacts ==
  ASSUME NEW p \in Packages, NEW k \in DOMAIN Info[p].types, NEW m \in Markers,
         Info[p].types[k][m] # <<>>
  PROVE  Last(Info[p].types[k][m]) \in Values /\ Last(Info[p].types[k][m]) # Unset
<1> DEFINE given == Info[p].types[k][m]
<1>1. given \in Seq(Values)
  BY InfoAssumption
<1>2. Len(given) \in Nat /\ Len(given) # 0
  BY <1>1, EmptySeq
<1>3. given[Len(given)] \in Values
  BY <1>1, <1>2, ElementOfSeq
<1>4. Last(given) = given[Len(given)]
  BY DEF Last
<1> QED  BY <1>3, <1>4, UnsetAssumption

-------------------------------------------------------------------------------
(* What the steps change *)

LEMMA WhoChangesWhat ==
  ASSUME Next
  PROVE  /\ bad' = bad
         /\ registered' = registered \/ RegisterMarkers \/ RegisterFails
         /\ UNCHANGED <<need, packages, indexed, grouped, errors>> \/ NeedPackage
         /\ \/ UNCHANGED <<crdsLeft, lost>> \/ Indexed
            \/ \E g \in Groups, k \in Kinds : StoreCRD(g, k) \/ LoseCRD(g, k)
         /\ crds' = crds \/ \E g \in Groups, k \in Kinds : StoreCRD(g, k)
         /\ crdErrors' = crdErrors \/ GeneratedCRDs
         /\ unconverted' = unconverted \/ GeneratedCRDs \/ \E c \in unconverted : ConvertCRDToXRD(c)
         /\ \/ UNCHANGED <<current, toApply>>
            \/ \E c \in unconverted : ConvertCRDToXRD(c)
            \/ \E p \in toApply : ApplyMarkers(p)
         /\ xrds' = xrds \/ Applied
         /\ written' = written \/ WriteXRD
<1> USE DEF parserVars, crdVars, xrdVars, Return
<1>1. ASSUME RegisterMarkers \/ RegisterFails PROVE bad' = bad /\ UNCHANGED <<need, packages, indexed, grouped, errors, crdVars, xrdVars, written>>
  BY <1>1 DEF RegisterMarkers, RegisterFails
<1>2. ASSUME NeedPackage PROVE UNCHANGED <<bad, registered, crdVars, xrdVars, written>>
  BY <1>2 DEF NeedPackage
<1>3. ASSUME Indexed PROVE UNCHANGED <<parserVars, crds, crdErrors, xrdVars, written>>
  BY <1>3 DEF Indexed
<1>4. ASSUME NEW g \in Groups, NEW k \in Kinds, StoreCRD(g, k)
      PROVE  UNCHANGED <<parserVars, lost, crdErrors, xrdVars, written>>
  BY <1>4 DEF StoreCRD
<1>11. ASSUME NEW g \in Groups, NEW k \in Kinds, LoseCRD(g, k)
       PROVE  UNCHANGED <<parserVars, crds, crdErrors, xrdVars, written>>
  BY <1>11 DEF LoseCRD
<1>5. ASSUME GeneratedCRDs
      PROVE  UNCHANGED <<parserVars, crdsLeft, crds, lost, current, toApply, xrds, written>>
  BY <1>5 DEF GeneratedCRDs
<1>6. ASSUME NEW c \in unconverted, ConvertCRDToXRD(c)
      PROVE  UNCHANGED <<parserVars, crdVars, xrds, written>>
  BY <1>6 DEF ConvertCRDToXRD
<1>7. ASSUME NEW p \in toApply, ApplyMarkers(p)
      PROVE  UNCHANGED <<parserVars, crdVars, unconverted, xrds, written>>
  BY <1>7 DEF ApplyMarkers
<1>8. ASSUME Applied PROVE UNCHANGED <<parserVars, crdVars, unconverted, current, toApply, written>>
  BY <1>8 DEF Applied
<1>9. ASSUME WriteXRD PROVE UNCHANGED <<parserVars, crdVars, xrdVars>>
  BY <1>9 DEF WriteXRD
<1>10. ASSUME GenerateCRDsFails \/ ConvertFails \/ ConvertsDone \/ WriteFails \/ WritesDone \/ Terminated
       PROVE  UNCHANGED <<parserVars, crdVars, xrdVars, written>>
  BY <1>10 DEF GenerateCRDsFails, ConvertFails, ConvertsDone, WriteFails, WritesDone, Terminated, vars
<1> QED  BY <1>1, <1>2, <1>3, <1>4, <1>5, <1>6, <1>7, <1>8, <1>9, <1>10, <1>11 DEF Next, Generate

(* How the generator gets on. *)
LEMMA WhereItGoes ==
  ASSUME Next
  PROVE  \/ RegisterMarkers \/ RegisterFails \/ Indexed \/ GeneratedCRDs
         \/ \E c \in unconverted : ConvertCRDToXRD(c)
         \/ Applied \/ ConvertsDone \/ WritesDone
         \/ phase \in {"crds", "convert", "write"} /\ Return("error")
         \/ UNCHANGED <<phase, outcome>>
<1> USE DEF Return
<1>1. NeedPackage => UNCHANGED <<phase, outcome>>
  BY DEF NeedPackage
<1>2. \A g \in Groups, k \in Kinds : StoreCRD(g, k) \/ LoseCRD(g, k) => UNCHANGED <<phase, outcome>>
  BY DEF StoreCRD, LoseCRD
<1>3. \A p \in toApply : ApplyMarkers(p) => UNCHANGED <<phase, outcome>>
  BY DEF ApplyMarkers
<1>4. WriteXRD \/ Terminated => UNCHANGED <<phase, outcome>>
  BY DEF WriteXRD, Terminated, vars
<1>5. GenerateCRDsFails \/ ConvertFails \/ WriteFails =>
        phase \in {"crds", "convert", "write"} /\ Return("error")
  BY DEF GenerateCRDsFails, ConvertFails, WriteFails
<1> QED  BY <1>1, <1>2, <1>3, <1>4, <1>5 DEF Next, Generate

-------------------------------------------------------------------------------
(* The inductive invariant: the types *)

LEMMA NewXrd ==
  ASSUME NEW crd \in Crd
  PROVE  [group |-> crd.group, kind |-> crd.kind, versions |-> crd.versions,
          referenceable |-> Referenceable(crd.versions),
          fields |-> [m \in Markers |-> Unset]] \in Xrd
<1>1. Referenceable(crd.versions) \in SUBSET Packages
  BY DEF Referenceable, Crd
<1>2. [m \in Markers |-> Unset] \in [Markers -> Values \cup {Unset}]
  OBVIOUS
<1> QED  BY <1>1, <1>2 DEF Crd, Xrd

(* What the markers of a package make of the fields. *)
FieldsWith(p) == ApplyToXRD(current.fields, Info[p].types[current.kind])

LEMMA ApplyFacts ==
  ASSUME TypeOK, NEW p \in toApply, ApplyMarkers(p)
  PROVE  /\ p \in Packages
         /\ toApply' = toApply \ {p}
         /\ HasType(p) => current' = [current EXCEPT !.fields = FieldsWith(p)]
         /\ ~HasType(p) => current' = current
         /\ current' \in Xrd
<1>1. p \in Packages
  BY RootFacts DEF TypeOK
<1>2. toApply' = toApply \ {p}
  BY DEF ApplyMarkers, Others
<1>3. current \in Xrd
  BY DEF TypeOK, ApplyMarkers
<1>4. ASSUME HasType(p)
      PROVE  current' = [current EXCEPT !.fields = FieldsWith(p)]
  BY <1>4 DEF ApplyMarkers, FieldsWith
<1>5. ASSUME ~HasType(p) PROVE current' = current
  BY <1>5 DEF ApplyMarkers
<1>6. ASSUME HasType(p) PROVE FieldsWith(p) \in [Markers -> Values \cup {Unset}]
  BY <1>1, <1>3, <1>6, LastFacts DEF FieldsWith, ApplyToXRD, HasType, Xrd
<1>7. ASSUME HasType(p) PROVE [current EXCEPT !.fields = FieldsWith(p)] \in Xrd
  BY <1>3, <1>6, <1>7 DEF Xrd
<1> QED  BY <1>1, <1>2, <1>3, <1>4, <1>5, <1>7

(* A package that has not been loaded has no error yet: the two are new.     *)
LEMMA AddErrorFacts ==
  ASSUME NEW S, errors \in Seq(S \X Calls), IsInjective(errors), Root \notin S
  PROVE  /\ AddError \in Seq((S \cup {Root}) \X Calls) /\ IsInjective(AddError)
         /\ AddError # <<>>
<1> DEFINE e1  == <<Root, "PackageMarkers">>
           e2  == <<Root, "EachType">>
           one == Append(errors, e1)
<1>2. e1 \notin S \X Calls /\ e2 \notin (S \X Calls) \cup {e1}
  OBVIOUS
<1>3. e1 \in (S \cup {Root}) \X Calls /\ e2 \in (S \cup {Root}) \X Calls
  BY DEF Calls
<1>4. errors \in Seq((S \cup {Root}) \X Calls)
  BY SeqMonotonic
<1>5. one \in Seq((S \X Calls) \cup {e1})
  <2>1. errors \in Seq((S \X Calls) \cup {e1})
    BY SeqMonotonic
  <2> HIDE DEF e1
  <2> QED  BY <2>1, AppendProperties
<1> HIDE DEF e1, e2
<1>6. IsInjective(one)
  BY <1>2, InjectiveAppend
<1>7. IsInjective(Append(one, e2))
  <2> HIDE DEF one
  <2> QED  BY <1>2, <1>5, <1>6, InjectiveAppend
<1>8. Append(one, e2) \in Seq((S \cup {Root}) \X Calls) /\ Append(one, e2) # <<>>
  BY <1>3, <1>4, AppendProperties
<1>1. AddError = Append(one, e2)
  BY <1>3, <1>4, AppendTwice DEF AddError, e1, e2
<1> QED  BY <1>1, <1>7, <1>8

LEMMA TypeStep ==
  ASSUME TypeOK, Counted, Next
  PROVE  TypeOK'
<1>1. phase' \in {"register", "index", "crds", "convert", "apply", "write", "done"}
  BY WhereItGoes DEF TypeOK, RegisterMarkers, RegisterFails, Indexed, GeneratedCRDs, ConvertCRDToXRD,
     Applied, ConvertsDone, WritesDone, Return
<1>2. outcome' \in {"none", "ok", "error"}
  BY WhereItGoes DEF TypeOK, RegisterMarkers, RegisterFails, Indexed, GeneratedCRDs, ConvertCRDToXRD,
     Applied, ConvertsDone, WritesDone, Return
<1>3. registered' \subseteq Markers /\ bad' \subseteq Packages
  BY WhoChangesWhat DEF TypeOK, RegisterMarkers, RegisterFails
<1>4. /\ need' \in 0 .. Len(Roots) /\ packages' = {Roots[i] : i \in 1 .. need'}
      /\ indexed' \subseteq packages' /\ grouped' \subseteq indexed' /\ grouped \subseteq grouped'
      /\ errors' \in Seq(packages' \X Calls) /\ IsInjective(errors')
  <2>1. CASE UNCHANGED <<need, packages, indexed, grouped, errors>>
    BY <2>1 DEF TypeOK
  <2>2. CASE NeedPackage
    <3>1. /\ need < Len(Roots) /\ need' = need + 1 /\ packages' = packages \cup {Root}
          /\ errors' = errors \/ (Root \notin packages /\ errors' = AddError)
          /\ indexed' \subseteq indexed \cup {Root} /\ grouped' \subseteq grouped \cup {Root}
          /\ indexed \subseteq indexed' /\ grouped \subseteq grouped'
          /\ Root \in grouped' => Root \in grouped \/ Root \in indexed'
      BY <2>2 DEF NeedPackage, Loaded
    <3>2. need' \in 0 .. Len(Roots) /\ packages' = {Roots[i] : i \in 1 .. need'}
      BY <3>1, RootFacts
    <3>3. indexed \subseteq packages /\ grouped \subseteq indexed
          /\ errors \in Seq(packages \X Calls) /\ IsInjective(errors)
      BY DEF TypeOK
    <3>4. indexed' \subseteq packages' /\ grouped' \subseteq indexed'
      BY <3>1, <3>3
    <3>5. errors \in Seq(packages' \X Calls)
      BY <3>1, <3>3, SeqMonotonic
    <3>6. errors' \in Seq(packages' \X Calls) /\ IsInjective(errors')
      BY <3>1, <3>3, <3>5, AddErrorFacts
    <3> QED  BY <3>1, <3>2, <3>4, <3>6
  <2> QED  BY <2>1, <2>2, WhoChangesWhat
<1>5. crdsLeft' \subseteq Groups \X Kinds /\ lost' \subseteq Groups \X Kinds /\ crdErrors' \in BOOLEAN
  <2>1. Indexed => crdsLeft' \subseteq Groups \X Kinds /\ lost' = lost
    BY DEF Indexed
  <2>2. \A g \in Groups, k \in Kinds :
          StoreCRD(g, k) => crdsLeft' \subseteq crdsLeft /\ lost' = lost
    BY DEF StoreCRD
  <2>3. \A g \in Groups, k \in Kinds :
          LoseCRD(g, k) => crdsLeft' \subseteq crdsLeft /\ lost' = lost \cup {<<g, k>>}
    BY DEF LoseCRD
  <2>4. crdErrors' \in BOOLEAN
    BY WhoChangesWhat DEF TypeOK, GeneratedCRDs
  <2> QED  BY <2>1, <2>2, <2>3, <2>4, WhoChangesWhat DEF TypeOK
<1>6. crds' \subseteq Crd
  <2>1. ASSUME NEW g \in Groups, NEW k \in Kinds, StoreCRD(g, k) PROVE crds' \subseteq Crd
    <3>1. [group |-> g, kind |-> k, versions |-> Versions(g, k)] \in Crd
      BY DEF Crd, Versions
    <3> QED  BY <2>1, <3>1 DEF StoreCRD, TypeOK
  <2> QED  BY <2>1, WhoChangesWhat DEF TypeOK
<1>7. unconverted' \subseteq crds'
  <2>1. ASSUME NEW g \in Groups, NEW k \in Kinds, StoreCRD(g, k) PROVE unconverted' = {}
    BY <2>1 DEF StoreCRD, xrdVars, Counted
  <2>2. GeneratedCRDs => unconverted' = crds /\ crds' = crds
    BY DEF GeneratedCRDs, crdVars
  <2>3. \A c \in unconverted : ConvertCRDToXRD(c) => unconverted' \subseteq unconverted
    BY DEF ConvertCRDToXRD
  <2> QED  BY <2>1, <2>2, <2>3, WhoChangesWhat DEF TypeOK
<1>8. phase' = "apply" => current' \in Xrd
  <2>1. ASSUME NEW c \in unconverted, ConvertCRDToXRD(c) PROVE current' \in Xrd
    <3>1. c \in Crd
      BY DEF TypeOK
    <3> QED  BY <2>1, <3>1, NewXrd DEF ConvertCRDToXRD
  <2>2. ASSUME NEW p \in toApply, ApplyMarkers(p) PROVE current' \in Xrd
    BY <2>2, ApplyFacts
  <2>3. ASSUME phase' = "apply", ~\E c \in unconverted : ConvertCRDToXRD(c) PROVE phase = "apply"
    BY <2>3, WhereItGoes DEF RegisterMarkers, RegisterFails, Indexed, GeneratedCRDs, Applied, ConvertsDone,
       WritesDone, Return
  <2> QED  BY <2>1, <2>2, <2>3, WhoChangesWhat DEF TypeOK
<1>9. toApply' \subseteq grouped'
  <2>1. ASSUME NEW c \in unconverted, ConvertCRDToXRD(c) PROVE toApply' \subseteq grouped
    BY <2>1 DEF ConvertCRDToXRD
  <2>2. ASSUME NEW p \in toApply, ApplyMarkers(p) PROVE toApply' \subseteq toApply
    BY <2>2, ApplyFacts
  <2> QED  BY <1>4, <2>1, <2>2, WhoChangesWhat DEF TypeOK
<1>10. xrds' \in Seq(Xrd) /\ written' \in 0 .. Len(xrds')
  <2>1. xrds \in Seq(Xrd) /\ written \in 0 .. Len(xrds) /\ Len(xrds) \in Nat
    BY LenProperties DEF TypeOK
  <2>2. CASE Applied
    <3>1. xrds' = Append(xrds, current) /\ written' = written /\ current \in Xrd
      BY <2>2 DEF Applied, TypeOK
    <3>2. Append(xrds, current) \in Seq(Xrd) /\ Len(Append(xrds, current)) = Len(xrds) + 1
      BY <2>1, <3>1, AppendFacts
    <3>3. written \in 0 .. Len(xrds) + 1
      BY <2>1
    <3> QED  BY <3>1, <3>2, <3>3
  <2>3. CASE WriteXRD
    <3>1. xrds' = xrds /\ written' = written + 1 /\ written < Len(xrds)
      BY <2>3 DEF WriteXRD, xrdVars
    <3> QED  BY <2>1, <3>1
  <2> QED  BY <2>1, <2>2, <2>3, WhoChangesWhat
<1> QED  BY <1>1, <1>2, <1>3, <1>4, <1>5, <1>6, <1>7, <1>8, <1>9, <1>10 DEF TypeOK

-------------------------------------------------------------------------------
(* The inductive invariant: how far the generator is, and the packages *)

LEMMA StagesStep ==
  ASSUME TypeOK, Stages, Next
  PROVE  Stages'
<1> USE DEF Return
<1>1. CASE UNCHANGED <<phase, outcome>>
  <2>1. RegisterMarkers \/ RegisterFails \/ registered' = registered
    BY WhoChangesWhat
  <2>2. registered' = registered
    BY <1>1, <2>1 DEF RegisterMarkers, RegisterFails
  <2>3. NeedPackage => phase = "index" /\ need < Len(Roots)
    BY DEF NeedPackage
  <2>4. Parsed' <=> Parsed
    BY <1>1 DEF Parsed
  <2>5. phase = "register" => errors' = errors /\ crdErrors' = crdErrors
    BY <2>3, WhoChangesWhat DEF GeneratedCRDs
  <2>6. Parsed => need' = need
    BY <2>3, RootFacts, WhoChangesWhat DEF Stages
  <2> QED  BY <1>1, <2>2, <2>4, <2>5, <2>6 DEF Stages
<1>2. CASE RegisterMarkers
  BY <1>2 DEF RegisterMarkers, Stages, Parsed
<1>3. CASE RegisterFails
  <2>1. /\ phase = "register" /\ phase' = "done" /\ outcome' = outcome
        /\ registered' # Markers
    BY <1>3 DEF RegisterFails
  <2>2. outcome = "none"
    BY <2>1 DEF Stages
  <2> QED  BY <2>1, <2>2 DEF Stages, Parsed
<1>4. CASE Indexed
  BY <1>4 DEF Indexed, Stages, Parsed, parserVars
<1>5. CASE GeneratedCRDs
  BY <1>5 DEF GeneratedCRDs, Stages, Parsed, parserVars
<1>6. ASSUME NEW c \in unconverted, ConvertCRDToXRD(c) PROVE Stages'
  BY <1>6 DEF ConvertCRDToXRD, Stages, Parsed, parserVars
<1>7. CASE Applied
  BY <1>7 DEF Applied, Stages, Parsed, parserVars
<1>8. CASE ConvertsDone
  BY <1>8 DEF ConvertsDone, Stages, Parsed, parserVars
<1>9. CASE WritesDone
  BY <1>9 DEF WritesDone, Stages, Parsed, parserVars
<1>10. CASE phase \in {"crds", "convert", "write"} /\ Return("error")
  <2>1. UNCHANGED <<registered, need, errors>>
    BY <1>10, WhoChangesWhat DEF RegisterMarkers, RegisterFails, NeedPackage
  <2> QED  BY <1>10, <2>1 DEF Stages, Parsed
<1> QED  BY <1>1, <1>2, <1>3, <1>4, <1>5, <1>6, <1>7, <1>8, <1>9, <1>10, WhereItGoes

LEMMA SortedStep ==
  ASSUME TypeOK, PackagesSorted, Next
  PROVE  PackagesSorted'
<1>1. bad' = bad
  BY WhoChangesWhat
<1>2. CASE UNCHANGED <<need, packages, indexed, grouped, errors>>
  BY <1>1, <1>2 DEF PackagesSorted
<1>3. CASE NeedPackage
  <2>1. packages' = packages \cup {Root}
    BY <1>3 DEF NeedPackage
  <2>2. ASSUME NEW p \in grouped'
        PROVE  p \notin bad /\ ~Info[p].skip /\ Info[p].group # NoGroup
    BY <1>3, <2>2 DEF NeedPackage, PackagesSorted
  <2>3. Root \in packages \/ Root \in bad \/ Info[Root].skip \/ Info[Root].group = NoGroup \/ Root \in grouped'
    BY <1>3 DEF NeedPackage, Loaded
  <2>4. grouped \subseteq grouped'
    BY <1>3 DEF NeedPackage
  <2>5. /\ errors # <<>> => errors' # <<>>
        /\ Root \in bad => Root \in packages \/ errors' # <<>>
    <3>1. errors \in Seq(packages \X Calls) /\ IsInjective(errors)
      BY DEF TypeOK
    <3>2. errors' = IF Root \notin packages /\ Root \in bad THEN AddError ELSE errors
      BY <1>3 DEF NeedPackage, Loaded
    <3>3. Root \notin packages => AddError # <<>>
      BY <3>1, AddErrorFacts
    <3> QED  BY <3>2, <3>3
  <2> QED  BY <1>1, <2>1, <2>2, <2>3, <2>4, <2>5 DEF PackagesSorted
<1> QED  BY <1>2, <1>3, WhoChangesWhat

-------------------------------------------------------------------------------
(* The inductive invariant: the markers *)

(* A package whose type of the XRD's name has a marker has been indexed.     *)
LEMMA MarkingAreGrouped ==
  ASSUME TypeOK, Stages, PackagesSorted, Parsed, NEW x, x.group \in Groups,
         NEW m, NEW p \in Marking(x, m)
  PROVE  p \in grouped /\ Info[p].group = x.group
<1>1. packages = Packages
  BY RootFacts DEF Stages
<1>2. p \in Packages /\ p \notin bad /\ ~Info[p].skip /\ Info[p].group = x.group
  BY DEF Marking, Versions
<1> QED  BY <1>1, <1>2 DEF PackagesSorted, Groups

LEMMA CurrentStep ==
  ASSUME TypeOK, Stages, PackagesSorted, CurrentMarked, Next
  PROVE  CurrentMarked'
<1>1. bad' = bad
  BY WhoChangesWhat
<1>2. ASSUME NEW c \in unconverted, ConvertCRDToXRD(c) PROVE CurrentMarked'
  <2>1. /\ current' = [group |-> c.group, kind |-> c.kind, versions |-> c.versions,
                       referenceable |-> Referenceable(c.versions),
                       fields |-> [m \in Markers |-> Unset]]
        /\ toApply' = {p \in grouped : Info[p].group = c.group}
        /\ phase' = "apply" /\ phase = "convert"
    BY <1>2 DEF ConvertCRDToXRD, SameGroup
  <2>2. current'.group = c.group /\ \A m \in Markers : current'.fields[m] = Unset
    BY <2>1
  <2>3. OwnValues(current)'
    BY <2>2 DEF OwnValues
  <2>4. current'.group \in Groups
    BY <2>2 DEF TypeOK, Crd
  <2>5. ASSUME NEW m \in Markers, NEW p \in Marking(current, m)' PROVE p \in toApply'
    <3>1. p \in Marking(current', m)
      BY <1>1, <2>5 DEF Marking, Versions
    <3>2. Parsed
      BY <2>1 DEF Parsed
    <3>3. p \in grouped /\ Info[p].group = current'.group
      BY <2>4, <3>1, <3>2, MarkingAreGrouped
    <3> QED  BY <2>1, <2>2, <3>3
  <2>6. \A p \in toApply' : Info[p].group = current'.group
    BY <2>1, <2>2
  <2> QED  BY <2>1, <2>3, <2>5, <2>6 DEF CurrentMarked
<1>3. ASSUME NEW p \in toApply, ApplyMarkers(p) PROVE CurrentMarked'
  <2>1. /\ p \in Packages /\ toApply' = toApply \ {p}
        /\ HasType(p) => current' = [current EXCEPT !.fields = FieldsWith(p)]
        /\ ~HasType(p) => current' = current
    BY <1>3, ApplyFacts
  <2>2. phase = "apply" /\ phase' = "apply" /\ current \in Xrd
    BY <1>3 DEF ApplyMarkers, TypeOK
  <2>3. current'.group = current.group /\ current'.kind = current.kind
    BY <2>1, <2>2 DEF Xrd
  <2>4. HasType(p) => current'.fields = FieldsWith(p)
    BY <2>1, <2>2 DEF Xrd
  <2>5. ASSUME NEW m \in Markers
        PROVE  Marking(current, m)' = Marking(current, m) /\ Given(current, m)' = Given(current, m)
    BY <1>1, <2>3 DEF Given, Marking, Versions
  <2>6. registered = Markers
    BY <2>2 DEF Stages
  <2>7. p \notin bad /\ ~Info[p].skip /\ Info[p].group = current.group
    BY <2>2 DEF CurrentMarked, PackagesSorted, TypeOK
  <2>8. ASSUME NEW m \in Markers, HasType(p), Info[p].types[current.kind][m] # <<>>
        PROVE  /\ current'.fields[m] \in Given(current, m)
               /\ current'.fields[m] # Unset
    <3>1. current'.fields[m] = Last(Info[p].types[current.kind][m])
      BY <2>4, <2>6, <2>8 DEF FieldsWith, ApplyToXRD
    <3>2. p \in Marking(current, m)
      BY <2>1, <2>7, <2>8 DEF Marking, Versions, HasType
    <3>3. current'.fields[m] \in Given(current, m)
      BY <3>1, <3>2 DEF Given
    <3> QED  BY <2>1, <2>8, <3>1, <3>3, LastFacts DEF HasType
  <2>9. ASSUME NEW m \in Markers, ~(HasType(p) /\ Info[p].types[current.kind][m] # <<>>)
        PROVE  /\ current'.fields[m] = current.fields[m]
               /\ p \notin Marking(current, m)
    <3>1. current'.fields[m] = current.fields[m]
      BY <2>1, <2>4, <2>9 DEF FieldsWith, ApplyToXRD
    <3> QED  BY <2>9, <3>1 DEF Marking, Versions, HasType
  <2>10. OwnValues(current)'
    BY <2>2, <2>5, <2>8, <2>9 DEF OwnValues, CurrentMarked
  <2>11. \A q \in toApply' : Info[q].group = current'.group
    BY <2>1, <2>2, <2>3 DEF CurrentMarked
  <2>12. ASSUME NEW m \in Markers, NEW q \in Marking(current, m)
         PROVE  q \in toApply' \/ current'.fields[m] # Unset
    BY <2>1, <2>2, <2>8, <2>9 DEF CurrentMarked
  <2> QED  BY <2>2, <2>5, <2>10, <2>11, <2>12 DEF CurrentMarked
<1>4. ASSUME UNCHANGED <<current, toApply>>, ~\E c \in unconverted : ConvertCRDToXRD(c)
      PROVE  CurrentMarked'
  <2>1. phase' = "apply" => phase = "apply"
    BY <1>4, WhereItGoes DEF RegisterMarkers, RegisterFails, Indexed, GeneratedCRDs, Applied,
       ConvertsDone, WritesDone, Return
  <2>2. phase = "apply" /\ phase' # "apply" => toApply = {}
    BY <1>4, WhereItGoes DEF RegisterMarkers, RegisterFails, Indexed, GeneratedCRDs, Applied,
       ConvertsDone, WritesDone, Return
  <2>3. ASSUME NEW m \in Markers
        PROVE  Marking(current, m)' = Marking(current, m) /\ Given(current, m)' = Given(current, m)
    BY <1>1, <1>4 DEF Given, Marking, Versions
  <2>4. OwnValues(current) => OwnValues(current)'
    BY <1>4, <2>3 DEF OwnValues
  <2> QED  BY <1>4, <2>1, <2>2, <2>3, <2>4 DEF CurrentMarked
<1> QED  BY <1>2, <1>3, <1>4, WhoChangesWhat

LEMMA XrdsStep ==
  ASSUME TypeOK, CurrentMarked, XrdsMarked, Next
  PROVE  XrdsMarked'
<1>1. bad' = bad
  BY WhoChangesWhat
<1>2. ASSUME NEW x, NEW m \in Markers
      PROVE  Marking(x, m)' = Marking(x, m) /\ Given(x, m)' = Given(x, m)
  BY <1>1 DEF Given, Marking, Versions
<1>3. ASSUME NEW x PROVE OwnValues(x)' <=> OwnValues(x)
  BY <1>2 DEF OwnValues
<1>4. ASSUME NEW x \in ToSet(xrds')
      PROVE  OwnValues(x) /\ \A m \in Markers : Marking(x, m) # {} => x.fields[m] # Unset
  <2>1. CASE x \in ToSet(xrds)
    BY <2>1 DEF XrdsMarked
  <2>2. CASE Applied
    <3>1. xrds' = Append(xrds, current) /\ phase = "apply" /\ toApply = {}
      BY <2>2 DEF Applied
    <3>2. current \in Xrd /\ xrds \in Seq(Xrd)
      BY <3>1 DEF TypeOK
    <3>3. x \in ToSet(xrds) \/ x = current
      BY <3>1, <3>2, ToSetAppend
    <3> QED  BY <2>1, <3>1, <3>3 DEF CurrentMarked
  <2> QED  BY <2>1, <2>2, WhoChangesWhat
<1> QED  BY <1>2, <1>3, <1>4 DEF XrdsMarked

-------------------------------------------------------------------------------
(* The inductive invariant: the CRDs and the XRDs *)

LEMMA CountedStep ==
  ASSUME TypeOK, Stages, Counted, Next
  PROVE  Counted'
<1> USE DEF Return
<1>1. xrds \in Seq(Xrd) /\ Len(xrds) \in Nat /\ written \in 0 .. Len(xrds)
  BY LenProperties DEF TypeOK
<1>2. IsFiniteSet(crds) /\ Cardinality(crds) \in Nat
  BY FS_CardinalityType DEF Counted
<1>3. IsFiniteSet(unconverted) /\ Cardinality(unconverted) \in Nat
  BY <1>2, FS_Subset, FS_CardinalityType DEF TypeOK
<1>4. Len(<< >>) = 0 /\ Cardinality({}) = 0
  BY NoElements, FS_EmptySet
<1>5. CASE RegisterMarkers \/ RegisterFails \/ NeedPackage \/ Indexed \/ GenerateCRDsFails
  BY <1>2, <1>5 DEF Counted, BeingMade, Stages, RegisterMarkers, RegisterFails, NeedPackage, Indexed, GenerateCRDsFails,
     crdVars, xrdVars
<1>6. ASSUME NEW g \in Groups, NEW k \in Kinds, StoreCRD(g, k) PROVE Counted'
  <2>1. PICK c, d : crds' = {e \in crds : CrdName(e) # d} \cup {c}
    BY <1>6 DEF StoreCRD
  <2>2. IsFiniteSet(crds')
    BY <1>2, <2>1, FS_Subset, FS_AddElement
  <2> QED  BY <1>6, <2>2 DEF Counted, BeingMade, StoreCRD, Stages, xrdVars
<1>15. ASSUME NEW g \in Groups, NEW k \in Kinds, LoseCRD(g, k) PROVE Counted'
  BY <1>2, <1>15 DEF Counted, BeingMade, LoseCRD, Stages, xrdVars
<1>7. CASE GeneratedCRDs
  <2>1. /\ phase = "crds" /\ phase' = "convert" /\ unconverted' = crds /\ xrds = <<>>
        /\ UNCHANGED <<crds, xrds, written, outcome>>
    BY <1>7 DEF GeneratedCRDs, Counted, crdVars
  <2>2. Len(xrds) = 0
    BY <1>4, <2>1
  <2>3. Len(xrds') + Cardinality(unconverted') + BeingMade' = Cardinality(crds')
    BY <1>2, <2>1, <2>2 DEF BeingMade
  <2>4. written = 0 /\ outcome # "ok"
    BY <2>1 DEF Counted, Stages
  <2> QED  BY <1>2, <2>1, <2>3, <2>4 DEF Counted
<1>8. ASSUME NEW c \in unconverted, ConvertCRDToXRD(c) PROVE Counted'
  <2>1. /\ phase = "convert" /\ phase' = "apply" /\ unconverted' = unconverted \ {c}
        /\ UNCHANGED <<crds, xrds, written, outcome>>
    BY <1>8 DEF ConvertCRDToXRD, crdVars
  <2>2. Cardinality(unconverted \ {c}) = Cardinality(unconverted) - 1
    BY <1>3, FS_RemoveElement
  <2>3. Len(xrds') + Cardinality(unconverted') + BeingMade' = Cardinality(crds')
    BY <1>1, <1>2, <1>3, <2>1, <2>2 DEF BeingMade, Counted
  <2>4. written = 0 /\ outcome # "ok"
    BY <2>1 DEF Counted, Stages
  <2> QED  BY <1>2, <2>1, <2>3, <2>4 DEF Counted
<1>9. ASSUME NEW p \in toApply, ApplyMarkers(p) PROVE Counted'
  BY <1>2, <1>9 DEF Counted, BeingMade, ApplyMarkers, crdVars
<1>10. CASE Applied
  <2>1. /\ phase = "apply" /\ phase' = "convert" /\ xrds' = Append(xrds, current)
        /\ UNCHANGED <<crds, unconverted, written, outcome>>
    BY <1>10 DEF Applied, crdVars
  <2>2. Len(xrds') = Len(xrds) + 1
    BY <1>1, <2>1, AppendFacts DEF TypeOK
  <2>3. Len(xrds') + Cardinality(unconverted') + BeingMade' = Cardinality(crds')
    BY <1>1, <1>2, <1>3, <2>1, <2>2 DEF BeingMade, Counted
  <2>4. written = 0 /\ outcome # "ok"
    BY <2>1 DEF Counted, Stages
  <2> QED  BY <1>2, <2>1, <2>3, <2>4 DEF Counted
<1>11. CASE ConvertsDone
  BY <1>2, <1>11 DEF Counted, BeingMade, ConvertsDone, AllConverted, crdVars, xrdVars
<1>12. CASE WriteXRD
  <2>1. phase = "write" /\ written' = written + 1
        /\ UNCHANGED <<phase, crds, unconverted, xrds, outcome>>
    BY <1>12 DEF WriteXRD, crdVars, xrdVars
  <2>2. Len(xrds) = Cardinality(crds)
    <3>1. Cardinality(unconverted) = 0 /\ BeingMade = 0
      BY <1>4, <2>1 DEF Counted, BeingMade
    <3>2. Len(xrds) + Cardinality(unconverted) + BeingMade = Cardinality(crds)
      BY <2>1 DEF Counted
    <3> QED  BY <1>1, <1>2, <3>1, <3>2
  <2>3. outcome # "ok"
    BY <2>1 DEF Stages
  <2> QED  BY <1>2, <2>1, <2>2, <2>3 DEF Counted, BeingMade
<1>13. CASE ConvertFails \/ WriteFails \/ WritesDone
  BY <1>2, <1>13 DEF Counted, BeingMade, ConvertFails, WriteFails, WritesDone, crdVars, xrdVars
<1>14. CASE Terminated
  BY <1>14 DEF Counted, BeingMade, Terminated, vars
<1> QED  BY <1>5, <1>6, <1>7, <1>8, <1>9, <1>10, <1>11, <1>12, <1>13, <1>14, <1>15 DEF Next, Generate

LEMMA CrdsStep ==
  ASSUME TypeOK, Stages, CrdsComplete, Next
  PROVE  CrdsComplete'
<1> USE DEF Return
<1>1. ASSUME NEW g, NEW k
      PROVE  Versions(g, k)' = Versions(g, k) /\ (IsKubeKind(g, k)' <=> IsKubeKind(g, k))
  BY WhoChangesWhat DEF Versions, IsKubeKind
<1>2. CASE Indexed
  <2>1. /\ phase = "index" /\ phase' = "crds" /\ crds' = crds /\ outcome' = outcome
        /\ crdsLeft' = {gk \in Groups \X Kinds : IsKubeKind(gk[1], gk[2])}
    BY <1>2 DEF Indexed
  <2>2. \A g \in Groups, k \in Kinds : IsKubeKind(g, k) => <<g, k>> \in crdsLeft'
    BY <2>1
  <2>3. outcome # "ok"
    BY <2>1 DEF Stages
  <2> QED  BY <1>1, <2>1, <2>2, <2>3 DEF CrdsComplete
<1>3. ASSUME NEW g \in Groups, NEW k \in Kinds, StoreCRD(g, k) PROVE CrdsComplete'
  <2> DEFINE crd == [group |-> g, kind |-> k, versions |-> Versions(g, k)]
  <2>1. /\ phase = "crds" /\ UNCHANGED <<phase, outcome>>
        /\ crds' = {c \in crds : CrdName(c) # CrdName(crd)} \cup {crd}
        /\ crdsLeft' = crdsLeft \ {<<g, k>>} /\ lost' = lost
    BY <1>3 DEF StoreCRD
  <2>2. crd.group = g /\ crd.kind = k /\ crd.versions = Versions(g, k) /\ crd \in crds'
    BY <2>1
  <2>3. \A c \in crds' : c.versions = Versions(c.group, c.kind)
    BY <2>1, <2>2 DEF CrdsComplete
  <2>4. ASSUME NEW g2 \in Groups, NEW k2 \in Kinds, IsKubeKind(g2, k2)
        PROVE  \/ <<g2, k2>> \in (crdsLeft \cup lost)'
               \/ \E c \in crds' : c.group = g2 /\ Plural[c.kind] = Plural[k2]
    <3>1. CASE <<g2, k2>> \in crdsLeft \cup lost
      <4>1. CASE g2 = g /\ k2 = k
        BY <2>2, <4>1
      <4>2. CASE ~(g2 = g /\ k2 = k)
        BY <2>1, <3>1, <4>2
      <4> QED  BY <4>1, <4>2
    <3>2. CASE <<g2, k2>> \notin crdsLeft \cup lost
      <4>1. PICK c \in crds : c.group = g2 /\ Plural[c.kind] = Plural[k2]
        BY <2>1, <2>4, <3>2 DEF CrdsComplete, Parsed
      <4>2. CASE CrdName(c) # CrdName(crd)
        BY <2>1, <4>1, <4>2
      <4>3. CASE CrdName(c) = CrdName(crd)
        <5>1. Plural[c.kind] = Plural[k] /\ c.group = g
          BY <2>2, <4>3 DEF CrdName
        <5> QED  BY <2>2, <4>1, <5>1
      <4> QED  BY <4>2, <4>3
    <3> QED  BY <3>1, <3>2
  <2>5. outcome # "ok"
    BY <2>1 DEF Stages
  <2> HIDE DEF crd
  <2> QED  BY <1>1, <2>1, <2>3, <2>4, <2>5 DEF CrdsComplete
<1>5. ASSUME NEW g \in Groups, NEW k \in Kinds, LoseCRD(g, k) PROVE CrdsComplete'
  <2>1. /\ phase = "crds" /\ UNCHANGED <<phase, outcome, crds>>
        /\ crdsLeft \cup lost \subseteq crdsLeft' \cup lost'
    BY <1>5 DEF LoseCRD
  <2>2. Parsed /\ outcome # "ok"
    BY <2>1 DEF Parsed, Stages
  <2> QED  BY <1>1, <2>1, <2>2 DEF CrdsComplete
<1>4. ASSUME UNCHANGED <<crds, crdsLeft, lost>>, ~Indexed PROVE CrdsComplete'
  <2>1. Parsed' => Parsed
    BY <1>4, WhereItGoes DEF RegisterMarkers, RegisterFails, GeneratedCRDs, ConvertCRDToXRD, Applied,
       ConvertsDone, WritesDone, Parsed, Stages
  <2>2. (phase \in {"convert", "apply", "write"} \/ outcome = "ok")' =>
          \/ phase \in {"convert", "apply", "write"} \/ outcome = "ok"
          \/ crdsLeft = {}
    BY <1>4, WhereItGoes DEF RegisterMarkers, RegisterFails, GeneratedCRDs, ConvertCRDToXRD, Applied,
       ConvertsDone, WritesDone, Stages
  <2> QED  BY <1>1, <1>4, <2>1, <2>2 DEF CrdsComplete
<1> QED  BY <1>2, <1>3, <1>4, <1>5, WhoChangesWhat

LEMMA XrdsCompleteStep ==
  ASSUME TypeOK, Stages, Counted, XrdsComplete, Next
  PROVE  XrdsComplete'
<1> USE DEF Return
<1> DEFINE Made(c) == \/ c \in unconverted
                      \/ phase = "apply" /\ MadeFrom(current, c)
                      \/ \E x \in ToSet(xrds) : MadeFrom(x, c)
           Converting == phase \in {"convert", "apply", "write"} \/ outcome = "ok"
<1>1. CASE GeneratedCRDs
  BY <1>1 DEF GeneratedCRDs, XrdsComplete, crdVars
<1>2. ASSUME NEW c \in unconverted, ConvertCRDToXRD(c) PROVE XrdsComplete'
  <2>1. /\ phase = "convert" /\ phase' = "apply" /\ unconverted' = unconverted \ {c}
        /\ MadeFrom(current', c)
        /\ UNCHANGED <<crds, xrds>>
    BY <1>2 DEF ConvertCRDToXRD, crdVars, MadeFrom
  <2>2. ASSUME NEW d \in crds PROVE Made(d)'
    BY <2>1, <2>2 DEF XrdsComplete, MadeFrom
  <2> QED  BY <2>1, <2>2 DEF XrdsComplete
<1>3. ASSUME NEW p \in toApply, ApplyMarkers(p) PROVE XrdsComplete'
  <2>1. /\ phase = "apply" /\ UNCHANGED <<phase, outcome, crds, unconverted, xrds>>
        /\ current \in Xrd
    BY <1>3 DEF ApplyMarkers, crdVars, TypeOK
  <2>2. current' = [current EXCEPT !.fields = FieldsWith(p)] \/ current' = current
    BY <1>3, ApplyFacts
  <2>3. /\ current'.group = current.group /\ current'.kind = current.kind
        /\ current'.versions = current.versions
    BY <2>1, <2>2 DEF Xrd
  <2>4. \A d : MadeFrom(current, d) => MadeFrom(current', d)
    BY <2>3 DEF MadeFrom
  <2> QED  BY <2>1, <2>4 DEF XrdsComplete
<1>4. CASE Applied
  <2>1. /\ phase = "apply" /\ phase' = "convert" /\ xrds' = Append(xrds, current)
        /\ UNCHANGED <<crds, unconverted>> /\ current \in Xrd /\ xrds \in Seq(Xrd)
    BY <1>4 DEF Applied, crdVars, TypeOK
  <2>2. ToSet(xrds') = ToSet(xrds) \cup {current}
    BY <2>1, ToSetAppend
  <2>3. ASSUME NEW d \in crds PROVE Made(d)'
    BY <2>1, <2>2, <2>3 DEF XrdsComplete
  <2> QED  BY <2>1, <2>3 DEF XrdsComplete
<1>5. ASSUME NEW g \in Groups, NEW k \in Kinds, StoreCRD(g, k) PROVE XrdsComplete'
  BY <1>5 DEF StoreCRD, XrdsComplete, Stages
<1>6. ASSUME UNCHANGED <<crds, unconverted, current, toApply, xrds>>, ~GeneratedCRDs, ~Applied,
             ~\E c \in unconverted : ConvertCRDToXRD(c)
      PROVE  XrdsComplete'
  <2>1. Converting' => Converting
    BY <1>6, WhereItGoes DEF RegisterMarkers, RegisterFails, Indexed, ConvertsDone, WritesDone, Stages
  <2>2. phase = "apply" => phase' = "apply"
    BY <1>6, WhereItGoes DEF RegisterMarkers, RegisterFails, Indexed, ConvertsDone, WritesDone, Stages
  <2> QED  BY <1>6, <2>1, <2>2 DEF XrdsComplete
<1> QED  BY <1>1, <1>2, <1>3, <1>4, <1>5, <1>6, WhoChangesWhat

-------------------------------------------------------------------------------
(* The inductive invariant holds of the generator *)

LEMMA InitXInv == Init => XInv
<1> SUFFICES ASSUME Init PROVE XInv
  OBVIOUS
<1>1. /\ phase = "register" /\ registered = {} /\ need = 0 /\ outcome = "none"
      /\ packages = {} /\ indexed = {} /\ grouped = {} /\ errors = <<>>
      /\ crdsLeft = {} /\ crds = {} /\ lost = {} /\ crdErrors = FALSE
      /\ unconverted = {} /\ toApply = {}
      /\ xrds = <<>> /\ written = 0 /\ bad \subseteq Packages
  BY DEF Init
<1>2. /\ <<>> \in Seq({} \X Calls) /\ <<>> \in Seq(Xrd) /\ Len(<< >>) = 0 /\ ToSet(<< >>) = {}
      /\ IsInjective(<< >>)
  BY NoElements, ToSetEmpty DEF IsInjective
<1>3. Len(Roots) \in Nat
  BY RootsAssumption, LenProperties
<1>4. errors \in Seq(packages \X Calls) /\ IsInjective(errors) /\ xrds \in Seq(Xrd) /\ Len(xrds) = 0 /\ ToSet(xrds) = {}
  BY <1>1, <1>2
<1>5. TypeOK
  <2>1. need \in 0 .. Len(Roots) /\ packages = {Roots[i] : i \in 1 .. need} /\ written \in 0 .. Len(xrds)
    BY <1>1, <1>3, <1>4
  <2> QED  BY <1>1, <1>4, <2>1 DEF TypeOK
<1>6. Stages /\ PackagesSorted /\ CurrentMarked
  BY <1>1 DEF Stages, Parsed, PackagesSorted, CurrentMarked
<1>7. XrdsMarked
  BY <1>4 DEF XrdsMarked
<1>8. Counted
  BY <1>1, FS_EmptySet DEF Counted
<1>9. CrdsComplete /\ XrdsComplete
  BY <1>1 DEF CrdsComplete, XrdsComplete, Parsed
<1> QED  BY <1>5, <1>6, <1>7, <1>8, <1>9 DEF XInv

LEMMA StutterXInv ==
  ASSUME XInv, UNCHANGED vars
  PROVE  XInv'
<1>1. TypeOK'
  BY DEF XInv, vars, TypeOK
<1>2. Stages' /\ PackagesSorted'
  BY DEF XInv, vars, Stages, Parsed, PackagesSorted
<1>3. CurrentMarked' /\ XrdsMarked'
  BY DEF XInv, vars, CurrentMarked, XrdsMarked, OwnValues, Marking, Given, Versions
<1>4. Counted' /\ CrdsComplete' /\ XrdsComplete'
  BY DEF XInv, vars, Counted, BeingMade, CrdsComplete, XrdsComplete, Versions, IsKubeKind, Parsed
<1> QED  BY <1>1, <1>2, <1>3, <1>4 DEF XInv

LEMMA NextXInv ==
  ASSUME XInv, [Next]_vars
  PROVE  XInv'
<1>1. CASE Next
  BY <1>1, TypeStep, StagesStep, SortedStep, CurrentStep, XrdsStep, CountedStep, CrdsStep,
     XrdsCompleteStep DEF XInv
<1> QED  BY <1>1, StutterXInv

-------------------------------------------------------------------------------
(* What follows from it *)

(* parser.go:128-139: no XRD gets the values of another group.               *)
LEMMA OwnGroupOnly == XInv => MarkersFromOwnGroup
  BY DEF XInv, XrdsMarked, OwnValues, MarkersFromOwnGroup

LEMMA OutputIsXrds == TypeOK => output \subseteq ToSet(xrds) /\ (written = Len(xrds) => output = ToSet(xrds))
<1> SUFFICES ASSUME TypeOK PROVE output \subseteq ToSet(xrds) /\ (written = Len(xrds) => output = ToSet(xrds))
  OBVIOUS
<1>1. written \in 0 .. Len(xrds) /\ Len(xrds) \in Nat /\ DOMAIN xrds = 1 .. Len(xrds)
  BY LenProperties DEF TypeOK
<1> QED  BY <1>1 DEF output, ToSet

LEMMA AllMarkersApplied == XInv => MarkersApplied
  BY OutputIsXrds DEF XInv, XrdsMarked, MarkersApplied

LEMMA WrittenAfterAll == XInv => NothingWrittenEarly
<1> SUFFICES ASSUME XInv, output # {} PROVE Len(xrds) = Cardinality(crds)
  BY DEF NothingWrittenEarly
<1>1. written # 0
  BY DEF output
<1> QED  BY <1>1 DEF XInv, Counted

(* The generator by itself, whoever calls it.                                *)
THEOREM GeneratorInvariance == Spec => []XInv
<1>1. Init => XInv
  BY InitXInv
<1>2. XInv /\ [Next]_vars => XInv'
  BY NextXInv
<1> QED  BY <1>1, <1>2, PTL DEF Spec

===============================================================================
