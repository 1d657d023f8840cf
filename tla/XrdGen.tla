-------------------------------- MODULE XrdGen ---------------------------------
(***************************************************************************)
(* Generator.Generate of pkg/generate/xrd: the parser indexes the packages *)
(* and their markers (parser.go), the CRD generator of controller-tools    *)
(* puts its CRDs into memory (crd_storage.go, utils/io), and each of them  *)
(* becomes an XRD, to which the markers are applied and which is written   *)
(* (generator.go, markers/markers.go, markers/register.go).                *)
(*                                                                         *)
(* A version of an API is named by its package.                            *)
(***************************************************************************)
EXTENDS Integers, Sequences, SequencesExt

CONSTANTS
  Roots,      (* The packages given to xrd-gen, in order.                    *)
  Info,       (* Of each package: may its markers not parse, has it          *)
              (* kubebuilder:skip, its groupName; its types, and of each the *)
              (* values of each XRD marker in order; and which of the types  *)
              (* are API kinds.                                              *)
  Markers,    (* The XRD markers: each sets a field of the XRD of its own.   *)
  Plural,     (* The plural of each kind.                                    *)
  NoGroup,    (* There is no groupName.                                      *)
  Unset       (* The field of an XRD is not set.                             *)

Packages == ToSet(Roots)
Kinds    == DOMAIN Plural
Groups   == {Info[p].group : p \in Packages} \ {NoGroup}
Values   == UNION {UNION {UNION {ToSet(Info[p].types[k][m]) : m \in Markers} :
                            k \in DOMAIN Info[p].types} : p \in Packages}

ASSUME InfoAssumption ==
  \A p \in Packages :
    /\ Info[p].bad \in BOOLEAN /\ Info[p].skip \in BOOLEAN
    /\ Info[p].apis \subseteq DOMAIN Info[p].types
    /\ DOMAIN Info[p].types \subseteq Kinds
    /\ \A k \in DOMAIN Info[p].types : Info[p].types[k] \in [Markers -> Seq(Values)]
ASSUME RootsAssumption == Roots \in Seq(Packages)
ASSUME UnsetAssumption == Unset \notin Values

VARIABLES
  phase,      (* Where the generator is.                                     *)
  registered, (* The markers the registry knows; others are not collected.   *)
  bad,        (* The packages whose markers do not parse.                    *)
  need,       (* How many roots NeedPackage has been called for.             *)
  packages,   (* The packages the parser has loaded.                         *)
  indexed,    (* The packages whose types are in Types.                      *)
  grouped,    (* The packages in GroupVersions.                              *)
  errors,     (* What indexTypes has reported: the package and which of its  *)
              (* two calls failed.                                           *)
  crdsLeft,   (* What the CRD generator has yet to generate.                 *)
  crds,       (* The CRDs in memory, one for each name.                      *)
  lost,       (* Those that did not get there, for the properties.           *)
  crdErrors,  (* Has the CRD generator added an error to a package?          *)
  unconverted,(* The CRDs the loop has yet to come to.                       *)
  current,    (* The XRD markers are applied to; the CRD it is made from.    *)
  toApply,    (* The packages whose markers have yet to be applied to it.    *)
  xrds,       (* The XRDs made.                                              *)
  written,    (* How many of them the output rule has been given.            *)
  outcome     (* "none" until Generate returns.                              *)

parserVars == <<registered, bad, need, packages, indexed, grouped, errors>>
crdVars    == <<crdsLeft, crds, lost, crdErrors>>
xrdVars    == <<unconverted, current, toApply, xrds>>
vars       == <<phase, registered, bad, need, packages, indexed, grouped, errors,
                crdsLeft, crds, lost, crdErrors, unconverted, current, toApply, xrds,
                written, outcome>>

Calls == {"PackageMarkers", "EachType"}

Crd == [group : Groups, kind : Kinds, versions : SUBSET Packages]
Xrd == [group : Groups, kind : Kinds, versions : SUBSET Packages,
        referenceable : SUBSET Packages, fields : [Markers -> Values \cup {Unset}]]

TypeOK ==
  /\ phase \in {"register", "index", "crds", "convert", "apply", "write", "done"}
  /\ registered \subseteq Markers
  /\ bad \subseteq Packages
  /\ need \in 0 .. Len(Roots)
  /\ packages = {Roots[i] : i \in 1 .. need}
  /\ indexed \subseteq packages /\ grouped \subseteq indexed
  /\ errors \in Seq(packages \X Calls) /\ IsInjective(errors)
  /\ crdsLeft \subseteq Groups \X Kinds /\ lost \subseteq Groups \X Kinds
  /\ crdErrors \in BOOLEAN
  /\ crds \subseteq Crd
  /\ unconverted \subseteq crds
  /\ phase = "apply" => current \in Xrd
  /\ toApply \subseteq grouped
  /\ xrds \in Seq(Xrd)
  /\ written \in 0 .. Len(xrds)
  /\ outcome \in {"none", "ok", "error"}

Init ==
  /\ phase = "register" /\ registered = {}
  /\ bad \in SUBSET {p \in Packages : Info[p].bad}
  /\ need = 0
  /\ packages = {} /\ indexed = {} /\ grouped = {}
  /\ errors = <<>>
  /\ crdsLeft = {} /\ crds = {} /\ lost = {} /\ crdErrors = FALSE
  /\ unconverted = {} /\ current = Unset /\ toApply = {}
  /\ xrds = <<>>
  /\ written = 0
  /\ outcome = "none"

Return(o) == phase' = "done" /\ outcome' = o

-------------------------------------------------------------------------------
(* Generator.RegisterMarkers, before anything is generated *)

RegisterMarkers ==
  /\ phase = "register"
  /\ registered' = Markers
  /\ phase' = "index"
  /\ UNCHANGED <<bad, need, packages, indexed, grouped, errors, crdVars, xrdVars, written, outcome>>

(* Those of the CRD generator, or one of AllDefinitions, cannot be registered.*)
RegisterFails ==
  /\ phase = "register"
  /\ registered' \in (SUBSET Markers) \ {Markers}
  /\ phase' = "done"
  /\ UNCHANGED <<bad, need, packages, indexed, grouped, errors, crdVars, xrdVars, written, outcome>>

-------------------------------------------------------------------------------
(* Parser.NeedPackage. Generate gives the parser no overrides. *)

Root == Roots[need + 1]

NeverLoaded == FALSE                              \* mutant: no early return
Loaded      == Root \in packages

Silent   == errors                                \* mutant: the errors are dropped
AddError == errors \o << <<Root, "PackageMarkers">>, <<Root, "EachType">> >>

(* A package loaded before is left alone. Markers that do not parse fail     *)
(* PackageMarkers and EachType alike, and indexTypes goes on from the one to *)
(* the other: the package gets two errors, and nothing of it is indexed.     *)
NeedPackage ==
  /\ phase = "index"
  /\ need < Len(Roots)
  /\ need' = need + 1
  /\ packages' = packages \cup {Root}
  /\ errors' = IF ~Loaded /\ Root \in bad THEN AddError ELSE errors
  /\ IF Loaded \/ Root \in bad \/ Info[Root].skip
       THEN UNCHANGED <<indexed, grouped>>
       ELSE /\ indexed' = indexed \cup {Root}
            /\ grouped' = IF Info[Root].group = NoGroup THEN grouped ELSE grouped \cup {Root}
  /\ UNCHANGED <<phase, registered, bad, crdVars, xrdVars, written, outcome>>

-------------------------------------------------------------------------------
(* crd.Generator.Generate, with the output rule of crdStorage *)

(* NeedCRDFor: the packages of group g that have a type k.                   *)
Versions(g, k) ==
  {p \in Packages : /\ p \notin bad /\ ~Info[p].skip
                    /\ Info[p].group = g
                    /\ k \in DOMAIN Info[p].types}

(* FindKubeKinds: in one of them it is an API kind.                          *)
IsKubeKind(g, k) == \E p \in Versions(g, k) : k \in Info[p].apis

Indexed ==
  /\ phase = "index"
  /\ need = Len(Roots)
  /\ crdsLeft' = {gk \in Groups \X Kinds : IsKubeKind(gk[1], gk[2])}
  /\ phase' = "crds"
  /\ UNCHANGED <<parserVars, crds, lost, crdErrors, xrdVars, written, outcome>>

CrdName(c) == <<Plural[c.kind], c.group>>

(* The CRD is written to the OnCloseWriter, and closing that parses it and   *)
(* puts it into memory under its name.                                       *)
StoreCRD(g, k) ==
  /\ phase = "crds"
  /\ <<g, k>> \in crdsLeft
  /\ LET crd == [group |-> g, kind |-> k, versions |-> Versions(g, k)]
     IN  crds' = {c \in crds : CrdName(c) # CrdName(crd)} \cup {crd}
  /\ crdsLeft' = crdsLeft \ {<<g, k>>}
  /\ UNCHANGED <<phase, parserVars, lost, crdErrors, xrdVars, written, outcome>>

(* It does not parse. The error is Close's, which the WriteYAML of genall    *)
(* defers and whose result it drops: the CRD generator goes on.              *)
LoseCRD(g, k) ==
  /\ phase = "crds"
  /\ <<g, k>> \in crdsLeft
  /\ lost' = lost \cup {<<g, k>>}
  /\ crdsLeft' = crdsLeft \ {<<g, k>>}
  /\ UNCHANGED <<phase, parserVars, crds, crdErrors, xrdVars, written, outcome>>

GenerateCRDsFails ==
  /\ phase = "crds"
  /\ Return("error")
  /\ UNCHANGED <<parserVars, crdVars, xrdVars, written>>

(* It may have added errors to packages, as for a kind that has no storage   *)
(* version, and ends without an error all the same.                          *)
GeneratedCRDs ==
  /\ phase = "crds"
  /\ crdsLeft = {}
  /\ crdErrors' \in BOOLEAN
  /\ unconverted' = crds
  /\ phase' = "convert"
  /\ UNCHANGED <<parserVars, crdsLeft, crds, lost, current, toApply, xrds, written, outcome>>

-------------------------------------------------------------------------------
(* convertCRDToXRD and Parser.ApplyForXRD *)

(* buildXRDVersions: a version that is the only one is referenceable. *)
Referenceable(versions) == IF Cardinality(versions) = 1 THEN versions ELSE {}

AnyGroup(p, crd)  == TRUE                         \* mutant: the groups are not compared
SameGroup(p, crd) == Info[p].group = crd.group

(* The loop is over a map: the CRDs come in any order. *)
ConvertCRDToXRD(crd) ==
  /\ phase = "convert"
  /\ crd \in unconverted
  /\ unconverted' = unconverted \ {crd}
  /\ current' = [group |-> crd.group, kind |-> crd.kind, versions |-> crd.versions,
                 referenceable |-> Referenceable(crd.versions),
                 fields |-> [m \in Markers |-> Unset]]
  /\ toApply' = {p \in grouped : SameGroup(p, crd)}
  /\ phase' = "apply"
  /\ UNCHANGED <<parserVars, crdVars, xrds, written, outcome>>

(* A schema does not marshal. *)
ConvertFails ==
  /\ phase = "convert"
  /\ unconverted # {}
  /\ Return("error")
  /\ UNCHANGED <<parserVars, crdVars, xrdVars, written>>

HasType(p) == current.kind \in DOMAIN Info[p].types

ReturnsEarly(p) == IF HasType(p) THEN toApply \ {p} ELSE {}   \* mutant: return for continue
Others(p)       == toApply \ {p}

(* A marker sets its field, and the last of several of one name wins.        *)
ApplyToXRD(fields, given) ==
  [m \in Markers |-> IF m \notin registered \/ given[m] = <<>> THEN fields[m] ELSE Last(given[m])]

(* The markers the type of this name has in a package of the group.          *)
(* GroupVersions is a map: the packages come in any order.                   *)
ApplyMarkers(p) ==
  /\ phase = "apply"
  /\ p \in toApply
  /\ toApply' = Others(p)
  /\ current' =
       IF HasType(p)
       THEN [current EXCEPT !.fields = ApplyToXRD(@, Info[p].types[current.kind])]
       ELSE current
  /\ UNCHANGED <<phase, parserVars, crdVars, unconverted, xrds, written, outcome>>

Applied ==
  /\ phase = "apply"
  /\ toApply = {}
  /\ xrds' = Append(xrds, current)
  /\ phase' = "convert"
  /\ UNCHANGED <<parserVars, crdVars, unconverted, current, toApply, written, outcome>>

SomeConverted == xrds # <<>> \/ unconverted = {}  \* mutant: write as soon as there is one
AllConverted  == unconverted = {}

ConvertsDone ==
  /\ phase = "convert"
  /\ AllConverted
  /\ phase' = "write"
  /\ UNCHANGED <<parserVars, crdVars, xrdVars, written, outcome>>

-------------------------------------------------------------------------------
(* ctx.WriteYAML *)

WriteXRD ==
  /\ phase = "write"
  /\ written < Len(xrds)
  /\ written' = written + 1
  /\ UNCHANGED <<phase, parserVars, crdVars, xrdVars, outcome>>

WriteFails ==
  /\ phase = "write"
  /\ written < Len(xrds)
  /\ Return("error")
  /\ UNCHANGED <<parserVars, crdVars, xrdVars, written>>

WritesDone ==
  /\ phase = "write"
  /\ written = Len(xrds)
  /\ Return("ok")
  /\ UNCHANGED <<parserVars, crdVars, xrdVars, written>>

Terminated == phase = "done" /\ UNCHANGED vars

Generate ==
  \/ NeedPackage \/ Indexed
  \/ \E g \in Groups, k \in Kinds : StoreCRD(g, k) \/ LoseCRD(g, k)
  \/ GenerateCRDsFails \/ GeneratedCRDs
  \/ \E crd \in unconverted : ConvertCRDToXRD(crd)
  \/ ConvertFails
  \/ \E p \in toApply : ApplyMarkers(p)
  \/ Applied \/ ConvertsDone
  \/ WriteXRD \/ WriteFails \/ WritesDone

Next == RegisterMarkers \/ RegisterFails \/ Generate \/ Terminated

Spec == Init /\ [][Next]_vars

-------------------------------------------------------------------------------
(* Safety *)

(* What the output rule has been given. *)
output == {xrds[i] : i \in 1 .. written}

(* The packages of the XRD's group that have a type of its name and on it    *)
(* the marker, and what they say.                                            *)
Marking(x, m) == {p \in Versions(x.group, x.kind) : Info[p].types[x.kind][m] # <<>>}
Given(x, m)   == {Last(Info[p].types[x.kind][m]) : p \in Marking(x, m)}

(* parser.go:128-139: an XRD never gets what a marker says on a type of the  *)
(* same name in another group, in whatever order the CRDs and the packages   *)
(* come.                                                                     *)
MarkersFromOwnGroup ==
  \A x \in ToSet(xrds) : \A m \in Markers : x.fields[m] \in Given(x, m) \cup {Unset}

(* parser.go:134-155: an XRD written has every marker that any version of    *)
(* its type has, also if other packages of the group do not have the type.   *)
MarkersApplied ==
  \A x \in output : \A m \in Markers : Marking(x, m) # {} => x.fields[m] # Unset

(* generator.go:133-148: no XRD is written before all CRDs are converted; a  *)
(* conversion that fails leaves the output as it was.                        *)
NothingWrittenEarly == output # {} => Len(xrds) = Cardinality(crds)

===============================================================================
