------------------------------ MODULE MCFieldPath ------------------------------
(***************************************************************************)
(* Instances of FieldPath for TLC: a struct of two fields that may inline  *)
(* another, point to it, or hold structs, pointers, slices, maps, scalars. *)
(***************************************************************************)
EXTENDS FieldPath

Struct(fields)    == [kind |-> "struct", fields |-> fields]
Of(kind, t)       == [kind |-> kind, elem |-> t]
Tagged(key, t)    == [json |-> key, inline |-> FALSE, type |-> t]
Inlined(t)        == [json |-> "", inline |-> TRUE, type |-> t]

RootFields ==
  {Inlined("In"), Inlined("PtrIn")} \cup
  {Tagged(key, t) : key \in {"a", "b"}, t \in {"Leaf", "Ptr", "Slice", "Map", "Scalar"}}
InFields   == {Tagged("a", "Slice"), Tagged("b", "Scalar"), Inlined("Leaf")}
LeafFields == {Tagged("b", "Scalar"), Tagged("a", "Ptr")}

Table(f, g, in, leaf) ==
  ("Root" :> Struct(<<f, g>>)) @@ ("In" :> Struct(<<in>>)) @@ ("Leaf" :> Struct(<<leaf>>)) @@
  ("Ptr" :> Of("ptr", "Leaf")) @@ ("PtrIn" :> Of("ptr", "In")) @@ ("Slice" :> Of("slice", "Leaf")) @@
  ("Map" :> Of("map", "Leaf")) @@ ("Scalar" :> [kind |-> "scalar"])

SomeTables ==
  {Table(f, g, in, leaf) : f \in RootFields, g \in RootFields, in \in InFields, leaf \in LeafFields}

ShortPaths == UNION {[1 .. k -> {"a", "b", "[0]"}] : k \in 0 .. 3}

RegisteredPaths == {<<"a", "b">>}

===============================================================================
