------------------------------- MODULE FieldPath -------------------------------
(***************************************************************************)
(* ValidateFieldPath of composition/build/fieldpath.go: does a field path  *)
(* exist in the JSON form of a Go type?                                    *)
(*                                                                         *)
(* The walk goes one segment at a time. Its inputs, a table of types, a    *)
(* path and the known paths, are chosen in Init.                           *)
(***************************************************************************)
EXTENDS Integers, Sequences, FiniteSets, SequencesExt

CONSTANTS
  Tables,     (* Tables of types: from the name of a type to what reflection *)
              (* tells of it, its kind and its fields or element type.       *)
  Root,       (* The type of the object validated.                           *)
  FieldPaths, (* The paths: sequences of keys and of Index.                  *)
  Index,      (* An index segment.                                           *)
  KnownPaths  (* What may be registered.                                     *)

Kinds == {"struct", "ptr", "slice", "map", "scalar"}

NoType == "no type"

Structs(table)   == {t \in DOMAIN table : table[t].kind = "struct"}
FieldOf(table)   == [json : STRING, inline : BOOLEAN, type : DOMAIN table]

(* A struct cannot contain itself: those inlined in it are less deep.        *)
Deeper(table, depth) ==
  \A t \in Structs(table) : \A f \in ToSet(table[t].fields) :
    f.inline /\ f.type \in Structs(table) => depth[f.type] < depth[t]

ASSUME TablesAssumption ==
  \A table \in Tables :
    /\ IsFiniteSet(DOMAIN table) /\ Root \in DOMAIN table /\ NoType \notin DOMAIN table
    /\ \A t \in DOMAIN table :
         /\ table[t].kind \in Kinds
         /\ table[t].kind = "struct" => table[t].fields \in Seq(FieldOf(table))
         /\ table[t].kind \in {"ptr", "slice", "map"} => table[t].elem \in DOMAIN table
    /\ \E depth \in [Structs(table) -> 0 .. Cardinality(Structs(table))] : Deeper(table, depth)
ASSUME PathsAssumption == FieldPaths \subseteq Seq(STRING)

VARIABLES
  types,      (* The table of types.                                         *)
  path,       (* The path, parsed.                                           *)
  known,      (* The known paths.                                            *)
  n,          (* How many segments have been walked.                         *)
  current,    (* The type they lead to.                                      *)
  verdict     (* "none" until the path is accepted or refused.               *)

input == <<types, path, known>>
vars  == <<types, path, known, n, current, verdict>>

TypeOK ==
  /\ known \subseteq KnownPaths
  /\ n \in 0 .. Len(path)
  /\ current \in DOMAIN types
  /\ verdict \in {"none", "accepted", "refused"}

Init ==
  /\ types \in Tables
  /\ path \in FieldPaths
  /\ known \in SUBSET KnownPaths
  /\ n = 0
  /\ current = Root
  /\ verdict = "none"

-------------------------------------------------------------------------------

(* What a field has for a key: an inlined struct is searched where it stands. *)
Hit(field, key, inlined) ==
  IF field.inline THEN inlined[field.type]
  ELSE IF field.json = key THEN field.type ELSE NoType

(* The first field that has something; NoType if none has. What is not a     *)
(* struct, and so a pointer that is inlined, has no fields.                  *)
Search(table, t, key, inlined) ==
  LET fields == IF t \in Structs(table) THEN table[t].fields ELSE <<>>
      hits   == {f \in DOMAIN fields : Hit(fields[f], key, inlined) # NoType}
  IN  IF hits = {} THEN NoType
      ELSE Hit(fields[CHOOSE f \in hits : \A g \in hits : f <= g], key, inlined)

GetObjectField(table, key) ==
  LET Get[t \in DOMAIN table] == Search(table, t, key, Get)
  IN  Get

IsKnownPath == \E k \in known : Len(k) = Len(path)

(* One level of pointer is followed before each segment. *)
AsIs(t)  == t                                             \* mutant: Elem() is forgotten
Deref(t) == IF types[t].kind = "ptr" THEN types[t].elem ELSE t

InPlace(t, segment) ==                                    \* mutant: Elem() of a slice is forgotten
  IF segment # Index THEN GetObjectField(types, segment)[t]
  ELSE IF types[t].kind = "slice" THEN t ELSE NoType

(* The type a segment leads to from a type that is no pointer. *)
Follow(t, segment) ==
  IF segment # Index THEN GetObjectField(types, segment)[t]
  ELSE IF types[t].kind = "slice" THEN types[t].elem ELSE NoType

NeverMissing(t) == FALSE                                  \* mutant: the error is dropped
Missing(t)      == t = NoType

(* The empty path is refused, a known one accepted without a walk. *)
Start ==
  /\ verdict = "none" /\ n = 0
  /\ path = <<>> \/ IsKnownPath
  /\ verdict' = IF path = <<>> THEN "refused" ELSE "accepted"
  /\ UNCHANGED <<input, n, current>>

Walking == verdict = "none" /\ path # <<>> /\ ~IsKnownPath

Walk ==
  /\ Walking
  /\ n < Len(path)
  /\ LET next == Follow(Deref(current), path[n + 1])
     IN  IF Missing(next) THEN verdict' = "refused" /\ UNCHANGED <<n, current>>
                           ELSE n' = n + 1 /\ current' = next /\ UNCHANGED verdict
  /\ UNCHANGED input

Exists ==
  /\ Walking
  /\ n = Len(path)
  /\ verdict' = "accepted"
  /\ UNCHANGED <<input, n, current>>

Terminated == verdict # "none" /\ UNCHANGED vars

Next == Start \/ Walk \/ Exists \/ Terminated

Spec == Init /\ [][Next]_vars

-------------------------------------------------------------------------------
(* The reference: JSON documents and not an order of fields decide. *)

Target(table, t)   == IF table[t].kind = "ptr" THEN table[t].elem ELSE t
FieldsOf(table, t) == IF t \in Structs(table) THEN ToSet(table[t].fields) ELSE {}

(* The structs inlined in a struct, also those that a pointer leads to.      *)
Inlines(table, s) ==
  {Target(table, f.type) : f \in {f \in FieldsOf(table, s) : f.inline}} \cap Structs(table)

Closed(table, S) == \A s \in S : Inlines(table, s) \subseteq S

(* The structs whose fields show up in the JSON object of t: t and what is   *)
(* inlined, at whatever depth.                                               *)
InlinedIn(table, t) ==
  {s \in Structs(table) :
     \A S \in SUBSET Structs(table) :
       (t \in Structs(table) => t \in S) /\ Closed(table, S) => s \in S}

(* The fields of that object. *)
JsonFields(table, t) ==
  {sf \in UNION {{s} \X FieldsOf(table, s) : s \in InlinedIn(table, t)} : ~sf[2].inline}

(* The types the value of a segment can have in the JSON form of t: of an    *)
(* element of a list, of a field of a struct, of what a map has at any key.  *)
ElemOf(table, t, kind) == IF table[t].kind = kind THEN {table[t].elem} ELSE {}

JsonStep(table, t, segment) ==
  LET u == Target(table, t)
  IN  IF segment = Index THEN ElemOf(table, u, "slice")
      ELSE ElemOf(table, u, "map") \cup
           {sf[2].type : sf \in {sf \in JsonFields(table, u) : sf[2].json = segment}}

(* The types that the first k segments of a path can lead to. *)
JsonTypes(table, p) ==
  LET After[k \in 0 .. Len(p)] ==
        IF k = 0 THEN {Root} ELSE UNION {JsonStep(table, t, p[k]) : t \in After[k - 1]}
  IN  After

-------------------------------------------------------------------------------
(* Safety *)

(* What the walk accepts exists in the JSON form of the type, however structs *)
(* are inlined and whatever pointers are on the way, and the type it has     *)
(* arrived at is one the value at the path can have.                         *)
WalkIsSound ==
  /\ Walking => current \in JsonTypes(types, path)[n]
  /\ verdict = "accepted" /\ ~IsKnownPath => current \in JsonTypes(types, path)[Len(path)]

(* Of the types, as far as they are used: no pointer leads to a pointer, no  *)
(* struct inlines one, and no JSON object has a key twice.                   *)
Plain(table) ==
  \A t \in DOMAIN table :
    /\ table[Target(table, t)].kind # "ptr"
    /\ \A f \in FieldsOf(table, t) : f.inline => f.type \in Structs(table)
    /\ \A sf, sg \in JsonFields(table, t) : sf[2].json = sg[2].json => sf = sg

(* A path goes on from a map to one of its keys, or would. *)
ThroughMap(table, p) ==
  \E k \in 0 .. Len(p) - 1 : \E t \in JsonTypes(table, p)[k] :
    table[Target(table, t)].kind = "map"

(* What the walk refuses does not exist, unless it is a path into a map: the *)
(* keys of a map exist in JSON, and the code refuses each of them because    *)
(* "static path validation is not supported for maps" (fieldpath.go:18). The *)
(* order of the fields and the depth a struct is inlined at make no          *)
(* difference to plain types.                                                *)
WalkIsComplete ==
  Plain(types) /\ verdict = "refused" =>
    \/ path = <<>> \/ ThroughMap(types, path)
    \/ JsonTypes(types, path)[Len(path)] = {}

(* README.md:46-48: what validation lets pass exists, or was registered. *)
KnownIsRegistered ==
  verdict = "accepted" => path \in known \/ JsonTypes(types, path)[Len(path)] # {}

===============================================================================
