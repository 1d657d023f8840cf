------------------------------ MODULE MCSkeleton -------------------------------
(***************************************************************************)
(* Instances of Skeleton for TLC.                                          *)
(***************************************************************************)
EXTENDS Skeleton

CONSTANTS
  specA,    \* spec.a, a field of the composite
  specB,    \* spec.b, a field of the base
  specX,    \* spec.x, a field of neither
  claim,    \* metadata.labels[crossplane.io/claim-name]
  extName,  \* metadata.annotations[crossplane.io/external-name]
  open,     \* "spec[", which does not parse
  empty     \* the empty path

AllPaths == {specA, specB, specX, claim, extName, open, empty}
Sizes == [p \in AllPaths |->
            CASE p \in {claim, extName} -> 3 [] p \in {open, empty} -> 0 [] OTHER -> 2]

APatch(type, from, to) == [type |-> type, from |-> from, to |-> to]

(* Right and wrong in each direction, and each way a patch can be refused. *)
SomePatches == {
  APatch("", <<specA>>, specB),
  APatch("FromCompositeFieldPath", <<specA>>, extName),
  APatch("ToCompositeFieldPath", <<specB>>, specX),
  APatch("ToCompositeFieldPath", <<specA>>, claim),
  APatch("CombineFromComposite", <<specA, specX>>, specB),
  APatch("CombineToComposite", <<>>, specA),
  APatch("FromCompositeFieldPath", <<open>>, empty),
  APatch("PatchSet", <<specA>>, specB) }

TwoPatches == { APatch("", <<specA>>, specB), APatch("ToCompositeFieldPath", <<specB>>, specX) }

===============================================================================
