---------------------------- MODULE FieldPathProofs ----------------------------
(***************************************************************************)
(* What ValidateFieldPath promises, for every table of types and path.     *)
(***************************************************************************)
EXTENDS FieldPath, SequenceFacts, FiniteSetTheorems, WellFoundedInduction

(* The least element of a set of naturals. *)
LEMMA Least ==
  ASSUME NEW T, T \subseteq Nat, T # {}
  PROVE  \E m \in T : \A k \in T : m <= k
<1>1. IsWellFoundedOn(OpToRel(<, Nat), Nat)
  BY NatLessThanWellFounded
<1>2. PICK m \in T : \A k \in T : ~ (<<k, m>> \in OpToRel(<, Nat))
  BY <1>1, WFMin
<1>3. \A k \in T : ~ (k < m)
  BY <1>2 DEF OpToRel
<1> QED  BY <1>3

-------------------------------------------------------------------------------
(* The recursive functions. *)

(* What the k-th segment makes of the types that the ones before lead to. *)
After(table, p, f, k) ==
  IF k = 0 THEN {Root} ELSE UNION {JsonStep(table, t, p[k]) : t \in f[k - 1]}

(* The definition of JsonTypes defines a function. *)
LEMMA JsonTypesDef ==
  ASSUME NEW table, NEW p, Len(p) \in Nat
  PROVE  JsonTypes(table, p) = [k \in 0 .. Len(p) |-> After(table, p, JsonTypes(table, p), k)]
<1> DEFINE T == {m \in 0 .. Len(p) : ~ \E f : f = [k \in 0 .. m |-> After(table, p, f, k)]}
<1>1. T = {}
  <2> SUFFICES ASSUME T # {} PROVE FALSE
    OBVIOUS
  <2>1. PICK m \in T : \A k \in T : m <= k
    <3>1. T \subseteq Nat
      OBVIOUS
    <3> HIDE DEF T
    <3> QED  BY <3>1, Least
  <2>2. m # 0
    <3> DEFINE f == [k \in 0 .. 0 |-> {Root}]
    <3>1. f = [k \in 0 .. 0 |-> After(table, p, f, k)]
      BY DEF After
    <3> QED  BY <2>1, <3>1
  <2>3. m - 1 \in 0 .. Len(p) /\ m - 1 \notin T
    BY <2>1, <2>2
  <2>4. PICK f : f = [k \in 0 .. m - 1 |-> After(table, p, f, k)]
    BY <2>3
  <2> DEFINE g == [k \in 0 .. m |-> IF k = m THEN After(table, p, f, m) ELSE f[k]]
  <2>5. \A k \in 0 .. m : g[k] = After(table, p, g, k)
    <3> SUFFICES ASSUME NEW k \in 0 .. m PROVE g[k] = After(table, p, g, k)
      OBVIOUS
    <3>1. g[k] = After(table, p, f, k)
      BY <2>4
    <3>2. k # 0 => g[k - 1] = f[k - 1]
      BY <2>1
    <3> HIDE DEF g
    <3> QED  BY <3>1, <3>2 DEF After
  <2>6. g = [k \in 0 .. m |-> After(table, p, g, k)]
    <3>1. g = [k \in 0 .. m |-> g[k]]
      OBVIOUS
    <3> HIDE DEF g
    <3> QED  BY <2>5, <3>1
  <2> QED  BY <2>1, <2>6
<1>2. \E f : f = [k \in 0 .. Len(p) |-> After(table, p, f, k)]
  BY <1>1
<1>3. JsonTypes(table, p) = CHOOSE f : f = [k \in 0 .. Len(p) |-> After(table, p, f, k)]
  BY DEF JsonTypes, After
<1> QED  BY <1>2, <1>3

(* What the assumption on tables says of one type. *)
LEMMA TypeFacts ==
  ASSUME NEW table \in Tables, NEW t \in DOMAIN table
  PROVE  /\ NoType \notin DOMAIN table
         /\ table[t].kind \in {"ptr", "slice", "map"} => table[t].elem \in DOMAIN table
         /\ Target(table, t) \in DOMAIN table
         /\ t \in Structs(table) => /\ Target(table, t) = t
                                    /\ FieldsOf(table, t) \subseteq FieldOf(table)
                                    /\ DOMAIN table[t].fields \subseteq Nat
                                    /\ FieldsOf(table, t) = {table[t].fields[i] : i \in DOMAIN table[t].fields}
<1>1. /\ NoType \notin DOMAIN table
      /\ table[t].kind = "struct" => table[t].fields \in Seq(FieldOf(table))
      /\ table[t].kind \in {"ptr", "slice", "map"} => table[t].elem \in DOMAIN table
  BY TablesAssumption
<1>2. ASSUME t \in Structs(table)
      PROVE  /\ FieldsOf(table, t) \subseteq FieldOf(table)
             /\ DOMAIN table[t].fields \subseteq Nat
             /\ FieldsOf(table, t) = {table[t].fields[i] : i \in DOMAIN table[t].fields}
  <2> DEFINE fields == table[t].fields
  <2>1. fields \in Seq(FieldOf(table))
    BY <1>1, <1>2 DEF Structs
  <2> HIDE DEF fields
  <2>2. DOMAIN fields \subseteq Nat /\ \A i \in DOMAIN fields : fields[i] \in FieldOf(table)
    BY <2>1, LenProperties, ElementOfSeq
  <2>3. FieldsOf(table, t) = {fields[i] : i \in DOMAIN fields}
    BY <1>2 DEF FieldsOf, ToSet, fields
  <2> QED  BY <2>2, <2>3 DEF fields
<1>3. Target(table, t) \in DOMAIN table /\ (t \in Structs(table) => Target(table, t) = t)
  BY <1>1 DEF Target, Structs
<1> QED  BY <1>1, <1>2, <1>3

(* What Search finds is what some field has, and if it finds nothing none    *)
(* has anything.                                                             *)
LEMMA SearchFacts ==
  ASSUME NEW table \in Tables, NEW t \in DOMAIN table, NEW key, NEW inlined
  PROVE  LET r == Search(table, t, key, inlined)
         IN  /\ t \notin Structs(table) => r = NoType
             /\ r # NoType => \E f \in FieldsOf(table, t) : Hit(f, key, inlined) = r
             /\ r = NoType => \A f \in FieldsOf(table, t) : Hit(f, key, inlined) = NoType
<1> DEFINE fields == IF t \in Structs(table) THEN table[t].fields ELSE <<>>
           hits   == {f \in DOMAIN fields : Hit(fields[f], key, inlined) # NoType}
           first  == CHOOSE f \in hits : \A g \in hits : f <= g
           r      == Search(table, t, key, inlined)
<1>1. r = IF hits = {} THEN NoType ELSE Hit(fields[first], key, inlined)
  BY DEF Search
<1>2. /\ DOMAIN fields \subseteq Nat
      /\ FieldsOf(table, t) = {fields[f] : f \in DOMAIN fields}
      /\ t \notin Structs(table) => DOMAIN fields = {}
  <2>1. CASE t \in Structs(table)
    BY <2>1, TypeFacts
  <2>2. CASE t \notin Structs(table)
    BY <2>2, NoElements DEF FieldsOf
  <2> QED  BY <2>1, <2>2
<1> HIDE DEF fields
<1>3. hits \subseteq DOMAIN fields /\ \A f \in hits : Hit(fields[f], key, inlined) # NoType
  OBVIOUS
<1>4. \A f \in DOMAIN fields \ hits : Hit(fields[f], key, inlined) = NoType
  OBVIOUS
<1> HIDE DEF hits
<1>5. hits # {} => first \in hits
  <2> SUFFICES ASSUME hits # {} PROVE first \in hits
    OBVIOUS
  <2>1. \E f \in hits : \A g \in hits : f <= g
    BY <1>2, <1>3, Least
  <2> QED  BY <2>1
<1> HIDE DEF first, r
<1>6. t \notin Structs(table) => r = NoType
  BY <1>1, <1>2, <1>3
<1>7. r # NoType => \E f \in FieldsOf(table, t) : Hit(f, key, inlined) = r
  BY <1>1, <1>2, <1>3, <1>5
<1>8. r = NoType => \A f \in FieldsOf(table, t) : Hit(f, key, inlined) = NoType
  BY <1>1, <1>2, <1>3, <1>4, <1>5
<1> QED  BY <1>6, <1>7, <1>8 DEF r

(* Search looks only at what it is told of the structs inlined, and of       *)
(* other types that are inlined.                                             *)
LEMMA SearchAgrees ==
  ASSUME NEW table \in Tables, NEW t \in DOMAIN table, NEW key, NEW g, NEW h,
         \A f \in FieldsOf(table, t) : f.inline => g[f.type] = h[f.type]
  PROVE  Search(table, t, key, g) = Search(table, t, key, h)
<1> DEFINE fields  == IF t \in Structs(table) THEN table[t].fields ELSE <<>>
           hits(i) == {f \in DOMAIN fields : Hit(fields[f], key, i) # NoType}
<1>1. /\ FieldsOf(table, t) = {fields[f] : f \in DOMAIN fields}
  <2>1. CASE t \in Structs(table)
    BY <2>1, TypeFacts
  <2>2. CASE t \notin Structs(table)
    BY <2>2, NoElements DEF FieldsOf
  <2> QED  BY <2>1, <2>2
<1> HIDE DEF fields
<1>2. \A f \in DOMAIN fields : Hit(fields[f], key, g) = Hit(fields[f], key, h)
  BY <1>1 DEF Hit
<1>3. hits(g) = hits(h)
  BY <1>2
<1>4. hits(h) # {} => (CHOOSE f \in hits(h) : \A k \in hits(h) : f <= k) \in hits(h)
  <2> SUFFICES ASSUME hits(h) # {} PROVE (CHOOSE f \in hits(h) : \A k \in hits(h) : f <= k) \in hits(h)
    OBVIOUS
  <2>1. \E f \in hits(h) : \A k \in hits(h) : f <= k
    <3>1. hits(h) \subseteq Nat
      BY NoElements, TypeFacts DEF fields
    <3> HIDE DEF hits
    <3> QED  BY <3>1, Least
  <2> QED  BY <2>1
<1> QED  BY <1>2, <1>3, <1>4 DEF Search, fields

(* The definition of GetObjectField defines a function: structs inlined are  *)
(* less deep, and the deepest one has a depth.                               *)
LEMMA GetObjectFieldDef ==
  ASSUME NEW table \in Tables, NEW key
  PROVE  LET g == GetObjectField(table, key)
         IN  g = [t \in DOMAIN table |-> Search(table, t, key, g)]
<1> DEFINE N == Cardinality(Structs(table))
<1>1. PICK depth \in [Structs(table) -> 0 .. N] : Deeper(table, depth)
  BY TablesAssumption
<1> HIDE DEF N
<1> DEFINE Upto(g, d) == \A t \in DOMAIN table :
                           t \notin Structs(table) \/ depth[t] < d => g[t] = Search(table, t, key, g)
           T == {d \in Nat : ~ \E g : Upto(g, d)}
<1>2. \A d \in Nat : \E g : Upto(g, d)
  <2> SUFFICES ASSUME T # {} PROVE FALSE
    OBVIOUS
  <2>1. PICK d \in T : \A k \in T : d <= k
    <3>1. T \subseteq Nat
      OBVIOUS
    <3> HIDE DEF T
    <3> QED  BY <3>1, Least
  <2>2. d # 0
    <3> DEFINE g == [t \in DOMAIN table |-> NoType]
    <3>1. \A t \in DOMAIN table : t \notin Structs(table) => Search(table, t, key, g) = NoType
      BY SearchFacts
    <3>2. \A t \in Structs(table) : depth[t] \in 0 .. N
      BY <1>1
    <3>3. \A t \in DOMAIN table : t \notin Structs(table) \/ depth[t] < 0 => t \notin Structs(table)
      BY <3>2
    <3>4. Upto(g, 0)
      BY <3>1, <3>3
    <3> QED  BY <2>1, <3>4
  <2>3. d - 1 \in Nat /\ d - 1 \notin T
    BY <2>1, <2>2
  <2>4. PICK g : Upto(g, d - 1)
    BY <2>3
  <2> DEFINE h == [t \in DOMAIN table |-> Search(table, t, key, g)]
  <2>5. ASSUME NEW t \in DOMAIN table, t \notin Structs(table) \/ depth[t] < d
        PROVE  h[t] = Search(table, t, key, h)
    <3>1. ASSUME NEW f \in FieldsOf(table, t), f.inline PROVE g[f.type] = h[f.type]
      <4>1. t \in Structs(table) /\ f.type \in DOMAIN table
        BY TypeFacts DEF FieldsOf, FieldOf
      <4>2. f.type \in Structs(table) => depth[f.type] < depth[t]
        BY <1>1, <3>1, <4>1 DEF Deeper, FieldsOf
      <4>3. f.type \in Structs(table) => depth[f.type] < d - 1
        <5>1. f.type \in Structs(table) => depth[t] \in Int /\ depth[f.type] \in Int
          BY <1>1, <4>1
        <5> QED  BY <2>1, <2>5, <4>1, <4>2, <5>1
      <4>4. g[f.type] = Search(table, f.type, key, g)
        BY <2>4, <4>1, <4>3
      <4> QED  BY <4>1, <4>4
    <3>2. Search(table, t, key, g) = Search(table, t, key, h)
      <4> HIDE DEF h
      <4> QED  BY <3>1, SearchAgrees
    <3> QED  BY <3>2
  <2>6. Upto(h, d)
    <3> HIDE DEF h
    <3> QED  BY <2>5
  <2> QED  BY <2>1, <2>6
<1> HIDE DEF T
<1>3. \E g : g = [t \in DOMAIN table |-> Search(table, t, key, g)]
  <2>1. N \in Nat
    <3>1. IsFiniteSet(DOMAIN table) /\ Structs(table) \subseteq DOMAIN table
      BY TablesAssumption DEF Structs
    <3>2. IsFiniteSet(Structs(table))
      BY <3>1, FS_Subset
    <3> QED  BY <3>2, FS_CardinalityType DEF N
  <2>2. PICK g : Upto(g, N + 1)
    <3>1. N + 1 \in Nat
      BY <2>1
    <3> HIDE DEF Upto
    <3> QED  BY <1>2, <3>1
  <2>3. \A t \in DOMAIN table : t \notin Structs(table) \/ depth[t] < N + 1
    BY <1>1, <2>1
  <2>4. \A t \in DOMAIN table : g[t] = Search(table, t, key, g)
    BY <2>2, <2>3
  <2> HIDE DEF Upto
  <2> DEFINE h == [t \in DOMAIN table |-> g[t]]
  <2>5. ASSUME NEW t \in DOMAIN table PROVE Search(table, t, key, g) = Search(table, t, key, h)
    <3>1. \A f \in FieldsOf(table, t) : g[f.type] = h[f.type]
      BY TypeFacts DEF FieldsOf, FieldOf
    <3> HIDE DEF h
    <3> QED  BY <3>1, SearchAgrees
  <2>6. h = [t \in DOMAIN table |-> Search(table, t, key, h)]
    <3>1. /\ h = [t \in DOMAIN table |-> h[t]]
          /\ \A t \in DOMAIN table : h[t] = g[t]
      OBVIOUS
    <3> HIDE DEF h
    <3> QED  BY <2>4, <2>5, <3>1
  <2> QED  BY <2>6
<1>4. GetObjectField(table, key) = CHOOSE g : g = [t \in DOMAIN table |-> Search(table, t, key, g)]
  BY DEF GetObjectField
<1> QED  BY <1>3, <1>4

-------------------------------------------------------------------------------
(* Looking a key up. *)

(* A struct is inlined in itself, and what is inlined in a struct it inlines *)
(* is inlined in it.                                                         *)
LEMMA InlinedFacts ==
  ASSUME NEW table \in Tables, NEW t \in Structs(table)
  PROVE  /\ t \in InlinedIn(table, t)
         /\ \A f \in FieldsOf(table, t) :
              f.inline /\ f.type \in Structs(table) =>
                InlinedIn(table, f.type) \subseteq InlinedIn(table, t)
<1>1. t \in InlinedIn(table, t)
  BY DEF InlinedIn
<1>2. ASSUME NEW f \in FieldsOf(table, t), f.inline, f.type \in Structs(table),
             NEW s \in InlinedIn(table, f.type)
      PROVE  s \in InlinedIn(table, t)
  <2>1. f.type \in Inlines(table, t)
    <3>1. Target(table, f.type) = f.type
      BY <1>2, TypeFacts DEF Structs
    <3> QED  BY <1>2, <3>1 DEF Inlines
  <2>2. ASSUME NEW S \in SUBSET Structs(table), t \in S, Closed(table, S)
        PROVE  s \in S
    <3>1. f.type \in S
      BY <2>1, <2>2 DEF Closed
    <3> QED  BY <1>2, <2>2, <3>1 DEF InlinedIn
  <2>3. s \in Structs(table)
    BY <1>2 DEF InlinedIn
  <2> QED  BY <2>2, <2>3 DEF InlinedIn
<1> QED  BY <1>1, <1>2

(* The fields of the JSON object of t that have the key. *)
WithKey(table, t, key) == {sf \in JsonFields(table, t) : sf[2].json = key}

LEMMA WithKeyFacts ==
  ASSUME NEW table, NEW t, NEW key
  PROVE  /\ \A sf \in WithKey(table, t, key) :
              /\ sf[1] \in InlinedIn(table, t) /\ sf[2] \in FieldsOf(table, sf[1])
              /\ ~sf[2].inline /\ sf[2].json = key
         /\ \A s \in InlinedIn(table, t) : \A f \in FieldsOf(table, s) :
              ~f.inline /\ f.json = key => <<s, f>> \in WithKey(table, t, key)
<1>1. ASSUME NEW sf \in WithKey(table, t, key)
      PROVE  /\ sf[1] \in InlinedIn(table, t) /\ sf[2] \in FieldsOf(table, sf[1])
             /\ ~sf[2].inline /\ sf[2].json = key
  <2>1. PICK s \in InlinedIn(table, t) : sf \in {s} \X FieldsOf(table, s)
    BY DEF WithKey, JsonFields
  <2> QED  BY <2>1 DEF WithKey, JsonFields
<1>2. ASSUME NEW s \in InlinedIn(table, t), NEW f \in FieldsOf(table, s), ~f.inline, f.json = key
      PROVE  <<s, f>> \in WithKey(table, t, key)
  <2>1. <<s, f>> \in {s} \X FieldsOf(table, s)
    OBVIOUS
  <2>2. <<s, f>> \in UNION {{r} \X FieldsOf(table, r) : r \in InlinedIn(table, t)}
    BY <2>1
  <2>3. <<s, f>>[2] = f
    OBVIOUS
  <2> QED  BY <1>2, <2>2, <2>3 DEF WithKey, JsonFields
<1> QED  BY <1>1, <1>2

(* What is found is a field of the JSON object that has the key.             *)
LEMMA FoundIsAField ==
  ASSUME NEW table \in Tables, NEW t \in DOMAIN table, NEW key,
         GetObjectField(table, key)[t] # NoType
  PROVE  \E sf \in WithKey(table, t, key) : sf[2].type = GetObjectField(table, key)[t]
<1> DEFINE g     == GetObjectField(table, key)
           OK(s) == \E sf \in WithKey(table, s, key) : sf[2].type = g[s]
<1>1. \A s \in DOMAIN table : g[s] = Search(table, s, key, g)
  BY GetObjectFieldDef
<1> HIDE DEF g
<1>2. PICK depth \in [Structs(table) -> 0 .. Cardinality(Structs(table))] : Deeper(table, depth)
  BY TablesAssumption
<1> DEFINE Bad(s) == s \in Structs(table) /\ g[s] # NoType /\ ~OK(s)
           T      == {d \in Nat : \E s \in Structs(table) : Bad(s) /\ depth[s] = d}
<1>3. T = {}
  <2> SUFFICES ASSUME T # {} PROVE FALSE
    OBVIOUS
  <2>1. PICK d \in T : \A k \in T : d <= k
    <3>1. T \subseteq Nat
      OBVIOUS
    <3> HIDE DEF T
    <3> QED  BY <3>1, Least
  <2>2. PICK s \in Structs(table) : Bad(s) /\ depth[s] = d
    BY <2>1
  <2>3. s \in DOMAIN table
    BY DEF Structs
  <2>4. PICK f \in FieldsOf(table, s) : Hit(f, key, g) = g[s]
    BY <1>1, <2>2, <2>3, SearchFacts
  <2>5. f.type \in DOMAIN table
    BY <2>3, TypeFacts DEF FieldOf
  <2>6. s \in InlinedIn(table, s)
    BY InlinedFacts
  <2>7. CASE ~f.inline
    <3>1. f.json = key /\ f.type = g[s]
      BY <2>2, <2>4, <2>7 DEF Hit
    <3>2. <<s, f>> \in WithKey(table, s, key)
      BY <2>6, <2>7, <3>1, WithKeyFacts
    <3> QED  BY <2>2, <3>1, <3>2
  <2>8. CASE f.inline
    <3> DEFINE u == f.type
    <3>1. g[u] = g[s]
      BY <2>4, <2>8 DEF Hit
    <3>2. u \in Structs(table)
      BY <1>1, <2>2, <2>5, <3>1, SearchFacts
    <3>3. depth[u] < depth[s] /\ depth[u] \in Nat /\ depth[s] \in Nat
      BY <1>2, <2>8, <3>2 DEF Deeper, FieldsOf
    <3>4. ~Bad(u)
      BY <2>1, <2>2, <3>2, <3>3
    <3>5. PICK sf \in WithKey(table, u, key) : sf[2].type = g[u]
      BY <2>2, <3>1, <3>2, <3>4
    <3>6. InlinedIn(table, u) \subseteq InlinedIn(table, s)
      BY <2>8, <3>2, InlinedFacts
    <3>7. <<sf[1], sf[2]>> \in WithKey(table, s, key)
      BY <3>6, WithKeyFacts
    <3>8. <<sf[1], sf[2]>>[2].type = g[s]
      BY <3>1, <3>5
    <3> QED  BY <2>2, <3>7, <3>8
  <2> QED  BY <2>7, <2>8
<1>4. t \in Structs(table)
  BY <1>1, SearchFacts DEF g
<1>5. depth[t] \in Nat
  BY <1>2, <1>4
<1>6. ~Bad(t)
  BY <1>3, <1>4, <1>5
<1> QED  BY <1>4, <1>6 DEF g

(* Where no struct inlines a pointer, a field that has the key is found.     *)
LEMMA AFieldIsFound ==
  ASSUME NEW table \in Tables, NEW t \in DOMAIN table, NEW key, Plain(table),
         GetObjectField(table, key)[t] = NoType
  PROVE  WithKey(table, t, key) = {}
<1> DEFINE g == GetObjectField(table, key)
           S == {s \in Structs(table) : g[s] = NoType}
<1>1. \A s \in DOMAIN table : g[s] = Search(table, s, key, g)
  BY GetObjectFieldDef
<1> HIDE DEF g
<1>2. ASSUME NEW s \in S, NEW f \in FieldsOf(table, s)
      PROVE  Hit(f, key, g) = NoType /\ f.type \in DOMAIN table
  BY <1>1, SearchFacts, TypeFacts DEF Structs, FieldOf
<1>3. Closed(table, S)
  <2> SUFFICES ASSUME NEW s \in S, NEW f \in FieldsOf(table, s), f.inline
               PROVE  Target(table, f.type) \in S
    BY DEF Closed, Inlines
  <2>1. f.type \in Structs(table)
    BY DEF Plain, Structs
  <2>2. Target(table, f.type) = f.type
    BY <2>1, TypeFacts DEF Structs
  <2> QED  BY <1>2, <2>1, <2>2 DEF Hit
<1>4. InlinedIn(table, t) \subseteq S
  BY <1>3 DEF InlinedIn, g
<1>5. NoType \notin DOMAIN table
  BY TypeFacts
<1>6. ASSUME NEW sf \in WithKey(table, t, key) PROVE FALSE
  <2>1. sf[1] \in S /\ sf[2] \in FieldsOf(table, sf[1]) /\ ~sf[2].inline /\ sf[2].json = key
    BY <1>4, WithKeyFacts
  <2> QED  BY <1>2, <1>5, <2>1 DEF Hit
<1> QED  BY <1>6

-------------------------------------------------------------------------------
(* A segment and a path. *)

(* What a segment is taken to lead to is among the types its value can have; *)
(* of plain types there is no other, and none if it leads nowhere and not    *)
(* into a map.                                                               *)
LEMMA SegmentFacts ==
  ASSUME types \in Tables, NEW t \in DOMAIN types, NEW segment
  PROVE  LET next == Follow(Deref(t), segment)
         IN  /\ next # NoType => next \in JsonStep(types, t, segment) /\ next \in DOMAIN types
             /\ Plain(types) /\ (next = NoType => types[Target(types, t)].kind # "map") =>
                  JsonStep(types, t, segment) = IF next = NoType THEN {} ELSE {next}
<1> DEFINE u    == Target(types, t)
           next == Follow(Deref(t), segment)
<1>1. Deref(t) = u
  BY DEF Deref, Target
<1>2. u \in DOMAIN types /\ NoType \notin DOMAIN types
  BY TypeFacts
<1>3. CASE segment = Index
  <2>1. next = IF types[u].kind = "slice" THEN types[u].elem ELSE NoType
    BY <1>1, <1>3 DEF Follow
  <2>2. JsonStep(types, t, segment) = IF types[u].kind = "slice" THEN {types[u].elem} ELSE {}
    BY <1>3 DEF JsonStep, ElemOf
  <2>3. types[u].kind = "slice" => types[u].elem \in DOMAIN types
    BY <1>2, TypeFacts
  <2> HIDE DEF next, u
  <2> QED  BY <1>2, <2>1, <2>2, <2>3 DEF next
<1>4. CASE segment # Index
  <2> DEFINE fields == WithKey(types, u, segment)
  <2>1. next = GetObjectField(types, segment)[u]
    BY <1>1, <1>4 DEF Follow
  <2>2. types[u].kind # "map" => JsonStep(types, t, segment) = {sf[2].type : sf \in fields}
    BY <1>4 DEF JsonStep, ElemOf, WithKey
  <2> HIDE DEF next, u
  <2>3. next # NoType => \E sf \in fields : sf[2].type = next
    BY <1>2, <2>1, FoundIsAField
  <2>4. Plain(types) /\ next = NoType => fields = {}
    BY <1>2, <2>1, AFieldIsFound
  <2>5. Plain(types) => \A sf, sg \in fields : sf = sg
    <3>1. Plain(types) => \A sf, sg \in JsonFields(types, u) : sf[2].json = sg[2].json => sf = sg
      BY <1>2 DEF Plain
    <3> QED  BY <3>1 DEF WithKey
  <2>6. \A sf \in fields : sf[2].type \in DOMAIN types
    <3> SUFFICES ASSUME NEW sf \in fields PROVE sf[2].type \in DOMAIN types
      OBVIOUS
    <3>1. sf[1] \in Structs(types) /\ sf[2] \in FieldsOf(types, sf[1])
      BY WithKeyFacts DEF InlinedIn
    <3> QED  BY <3>1, TypeFacts DEF Structs, FieldOf
  <2>7. next # NoType => types[u].kind # "map"
    <3>1. next # NoType => u \in Structs(types)
      BY <1>2, <2>1, GetObjectFieldDef, SearchFacts
    <3> QED  BY <3>1 DEF Structs
  <2> HIDE DEF fields
  <2> QED  BY <2>2, <2>3, <2>4, <2>5, <2>6, <2>7 DEF next, u
<1> QED  BY <1>3, <1>4

(* What the reference makes of the empty path and of one more segment.       *)
LEMMA JsonTypesFacts ==
  ASSUME NEW table, NEW p, Len(p) \in Nat
  PROVE  LET reached == JsonTypes(table, p)
         IN  /\ reached[0] = {Root}
             /\ \A k \in 0 .. Len(p) - 1 :
                  reached[k + 1] = UNION {JsonStep(table, t, p[k + 1]) : t \in reached[k]}
             /\ \A k \in 0 .. Len(p) : reached[k] = {} => reached[Len(p)] = {}
<1> DEFINE J == JsonTypes(table, p)
<1>1. \A k \in 0 .. Len(p) : J[k] = After(table, p, J, k)
  BY JsonTypesDef
<1> HIDE DEF J
<1>2. J[0] = {Root}
  <2>1. 0 \in 0 .. Len(p)
    OBVIOUS
  <2> QED  BY <1>1, <2>1 DEF After
<1>3. ASSUME NEW k \in 0 .. Len(p) - 1
      PROVE  J[k + 1] = UNION {JsonStep(table, t, p[k + 1]) : t \in J[k]}
  <2>1. k + 1 \in 0 .. Len(p) /\ k + 1 # 0 /\ (k + 1) - 1 = k
    OBVIOUS
  <2> QED  BY <1>1, <2>1 DEF After
<1>4. ASSUME NEW k \in 0 .. Len(p), J[k] = {} PROVE J[Len(p)] = {}
  <2> DEFINE T == {m \in k .. Len(p) : J[m] # {}}
  <2>1. T = {}
    <3> SUFFICES ASSUME T # {} PROVE FALSE
      OBVIOUS
    <3>1. PICK m \in T : \A i \in T : m <= i
      <4>1. T \subseteq Nat
        OBVIOUS
      <4> HIDE DEF T
      <4> QED  BY <4>1, Least
    <3>2. m # k
      BY <1>4
    <3>3. m - 1 \in 0 .. Len(p) - 1 /\ (m - 1) + 1 = m /\ m - 1 \in k .. Len(p)
      BY <3>1, <3>2
    <3>4. J[m - 1] = {}
      BY <3>1, <3>3
    <3>5. J[(m - 1) + 1] = UNION {JsonStep(table, t, p[(m - 1) + 1]) : t \in J[m - 1]}
      BY <1>3, <3>3
    <3>6. J[m] = {}
      BY <3>3, <3>4, <3>5
    <3> QED  BY <3>1, <3>6
  <2> QED  BY <2>1
<1> QED  BY <1>2, <1>3, <1>4 DEF J

-------------------------------------------------------------------------------
(* The invariant. *)

(* The walk reads tables and paths of the instance, and of plain types the   *)
(* type it is at is the only one the segments walked lead to.                *)
InputOK  == types \in Tables /\ path \in FieldPaths

OnlyType == Plain(types) /\ Walking => JsonTypes(types, path)[n] = {current}

IInv == TypeOK /\ InputOK /\ WalkIsSound /\ OnlyType /\ WalkIsComplete

LEMMA PathLength == ASSUME InputOK PROVE Len(path) \in Nat /\ (path = <<>> <=> Len(path) = 0)
<1>1. path \in Seq(STRING)
  BY PathsAssumption DEF InputOK
<1> QED  BY <1>1, EmptySeq, LenProperties

LEMMA InitIInv == Init => IInv
<1> SUFFICES ASSUME Init PROVE IInv
  OBVIOUS
<1>1. InputOK
  BY DEF Init, InputOK
<1>2. Len(path) \in Nat
  BY <1>1, PathLength
<1>3. TypeOK
  BY <1>2, TablesAssumption DEF Init, TypeOK
<1>4. JsonTypes(types, path)[n] = {current}
  BY <1>2, JsonTypesFacts DEF Init
<1> QED  BY <1>1, <1>3, <1>4 DEF Init, IInv, WalkIsSound, OnlyType, WalkIsComplete

LEMMA StartIInv == ASSUME IInv, Start PROVE IInv'
<1>1. TypeOK' /\ InputOK'
  BY DEF IInv, Start, TypeOK, InputOK, input
<1>2. WalkIsSound' /\ OnlyType'
  BY DEF Start, WalkIsSound, OnlyType, Walking, IsKnownPath, input
<1>3. WalkIsComplete'
  BY DEF Start, WalkIsComplete, input
<1> QED  BY <1>1, <1>2, <1>3 DEF IInv

LEMMA WalkIInv == ASSUME IInv, Walk PROVE IInv'
<1> DEFINE next == Follow(Deref(current), path[n + 1])
           J    == JsonTypes(types, path)
<1>1. /\ current \in DOMAIN types /\ types \in Tables /\ Len(path) \in Nat
      /\ n \in 0 .. Len(path) - 1
      /\ current \in J[n] /\ (Plain(types) => J[n] = {current})
  BY PathLength DEF IInv, TypeOK, InputOK, Walk, WalkIsSound, OnlyType
<1>2. J[n + 1] = UNION {JsonStep(types, t, path[n + 1]) : t \in J[n]}
  BY <1>1, JsonTypesFacts
<1>3. /\ next # NoType => next \in JsonStep(types, current, path[n + 1]) /\ next \in DOMAIN types
      /\ Plain(types) /\ (next = NoType => types[Target(types, current)].kind # "map") =>
           JsonStep(types, current, path[n + 1]) = IF next = NoType THEN {} ELSE {next}
  BY <1>1, SegmentFacts
<1>4. /\ next # NoType => next \in J[n + 1]
      /\ Plain(types) /\ (next = NoType => ~ThroughMap(types, path)) =>
           J[n + 1] = IF next = NoType THEN {} ELSE {next}
  <2>1. types[Target(types, current)].kind = "map" => ThroughMap(types, path)
    BY <1>1 DEF ThroughMap
  <2> HIDE DEF next, J
  <2> QED  BY <1>1, <1>2, <1>3, <2>1
<1>5. IF next = NoType THEN verdict' = "refused" /\ UNCHANGED <<n, current>>
                       ELSE n' = n + 1 /\ current' = next /\ UNCHANGED verdict
  BY DEF Walk, Missing
<1>6. UNCHANGED input /\ Walking /\ J' = J
  BY DEF Walk, input
<1>7. (Plain(types)' <=> Plain(types)) /\ (ThroughMap(types, path)' <=> ThroughMap(types, path))
  BY <1>6 DEF input
<1>8. Len(path)' = Len(path) /\ (IsKnownPath' <=> IsKnownPath)
  BY <1>6 DEF input, IsKnownPath
<1>9. TypeOK' /\ InputOK'
  <2> HIDE DEF next
  <2> QED  BY <1>1, <1>3, <1>5, <1>6, <1>8 DEF IInv, TypeOK, InputOK, input
<1>10. CASE next = NoType
  <2>1. verdict' = "refused" /\ WalkIsSound' /\ OnlyType'
    BY <1>5, <1>10 DEF WalkIsSound, OnlyType, Walking
  <2>2. Plain(types) /\ ~ThroughMap(types, path) => J[Len(path)] = {}
    <3>1. /\ n + 1 \in 0 .. Len(path)
          /\ Plain(types) /\ ~ThroughMap(types, path) => J[n + 1] = {}
      BY <1>1, <1>4, <1>10
    <3> HIDE DEF J
    <3>2. \A k \in 0 .. Len(path) : J[k] = {} => J[Len(path)] = {}
      BY <1>1, JsonTypesFacts DEF J
    <3> QED  BY <3>1, <3>2
  <2>3. WalkIsComplete'
    BY <1>6, <1>7, <1>8, <2>2 DEF WalkIsComplete
  <2> QED  BY <1>9, <2>1, <2>3 DEF IInv
<1>11. CASE next # NoType
  <2>1. n' = n + 1 /\ current' = next /\ verdict' = "none"
    BY <1>5, <1>6, <1>11 DEF Walking
  <2> HIDE DEF next
  <2>2. current' \in J'[n'] /\ (Plain(types)' => J'[n'] = {current'})
    BY <1>4, <1>6, <1>7, <1>11, <2>1
  <2>3. WalkIsSound' /\ OnlyType' /\ WalkIsComplete'
    BY <2>1, <2>2 DEF WalkIsSound, OnlyType, WalkIsComplete
  <2> QED  BY <1>9, <2>3 DEF IInv
<1> QED  BY <1>10, <1>11

LEMMA ExistsIInv == ASSUME IInv, Exists PROVE IInv'
<1>1. TypeOK' /\ InputOK'
  BY DEF IInv, Exists, TypeOK, InputOK, input
<1>2. verdict' = "accepted" /\ OnlyType' /\ WalkIsComplete'
  BY DEF Exists, OnlyType, Walking, WalkIsComplete
<1>3. WalkIsSound'
  BY <1>2 DEF IInv, Exists, WalkIsSound, Walking, input
<1> QED  BY <1>1, <1>2, <1>3 DEF IInv

LEMMA StutterIInv == ASSUME IInv, UNCHANGED vars PROVE IInv'
<1>1. TypeOK' /\ InputOK' /\ WalkIsComplete'
  BY DEF IInv, TypeOK, InputOK, WalkIsComplete, vars
<1>2. WalkIsSound' /\ OnlyType'
  BY DEF IInv, WalkIsSound, OnlyType, Walking, IsKnownPath, vars
<1> QED  BY <1>1, <1>2 DEF IInv

(* The invariant holds of every walk, over any tables, paths and known paths. *)
THEOREM Invariance == Spec => []IInv
<1>1. ASSUME IInv, [Next]_vars PROVE IInv'
  <2>1. CASE Start
    BY <1>1, <2>1, StartIInv
  <2>2. CASE Walk
    BY <1>1, <2>2, WalkIInv
  <2>3. CASE Exists
    BY <1>1, <2>3, ExistsIInv
  <2>4. CASE Terminated \/ UNCHANGED vars
    BY <1>1, <2>4, StutterIInv DEF Terminated
  <2> QED  BY <1>1, <2>1, <2>2, <2>3, <2>4 DEF Next
<1> QED  BY <1>1, InitIInv, PTL DEF Spec

(* The walk never leaves the types of the table nor the path. *)
THEOREM TypeCorrect == Spec => []TypeOK
<1>1. IInv => TypeOK
  BY DEF IInv
<1> QED  BY <1>1, Invariance, PTL

(* validatePath accepts only a path that exists in the JSON form of the      *)
(* type, through any structs inlined, pointers and slices.                   *)
THEOREM AcceptedExists == Spec => []WalkIsSound
<1>1. IInv => WalkIsSound
  BY DEF IInv
<1> QED  BY <1>1, Invariance, PTL

(* It refuses only one that does not, if the path does not lead into a map,  *)
(* no pointer leads to a pointer, no struct inlines one, and no JSON object  *)
(* has a key twice.                                                          *)
THEOREM RefusedDoesNotExist == Spec => []WalkIsComplete
<1>1. IInv => WalkIsComplete
  BY DEF IInv
<1> QED  BY <1>1, Invariance, PTL

===============================================================================
