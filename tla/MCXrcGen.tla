------------------------------- MODULE MCXrcGen --------------------------------
(***************************************************************************)
(* Instances of XrcGen for TLC.                                            *)
(***************************************************************************)
EXTENDS XrcGen

Dir(word, g, m) == [starts |-> word, gen |-> g, main |-> m]

(* ".", three compositions, crossbuilder and pkg/api, as WalkDir finds them *)
RepoDirs == << Dir("other", TRUE, FALSE),
               Dir("other", FALSE, TRUE),
               Dir("other", TRUE, TRUE),
               Dir("other", FALSE, TRUE),
               Dir("crossbuilder", FALSE, TRUE),
               Dir("pkg", TRUE, FALSE) >>

(* The second and the third composition have the same prefix and name. *)
RepoFiles == << 1, 2, 3, 3, 5, 6 >>

(* The second composition has no templates, and there are some at the root. *)
RepoSizes == [b \in Found \cup {NoBase} |-> IF b = NoBase THEN 1 ELSE IF b = 3 THEN 0 ELSE 2]

===============================================================================
