------------------------------- MODULE MCXrdCmd --------------------------------
(* Instances of XrdCmd for TLC. *)
EXTENDS XrdCmd

(* Foo is an API of group g1 in three versions, which all have the claim     *)
(* marker and disagree, and of group g2. Bar is an API of g1's v1 only, and  *)
(* Baz, with the same plural, of v2 only. The markers of g1v2 and g1bad may  *)
(* not parse; a package of g1 is skipped, and one has a type Foo that is no  *)
(* API; one package has no groupName. g1bad is given twice.                  *)
MCRoots == <<"g1v1", "g1v2", "g1bad", "g2v1", "g1bad", "g1skip", "g1none", "plain">>

MCMarkers == {"claimNames", "connectionSecretKeys"}

Marks(claim, keys) == [m \in MCMarkers |-> IF m = "claimNames" THEN claim ELSE keys]

Foo(claim, keys) == [k \in {"Foo"} |-> Marks(claim, keys)]

FooBar == [k \in {"Foo", "Bar"} |->
             IF k = "Foo" THEN Marks(<<"a">>, <<>>) ELSE Marks(<<>>, <<"k1", "k2">>)]

Package(maybe, skip, group, types, apis) ==
  [bad |-> maybe, skip |-> skip, group |-> group, types |-> types, apis |-> apis]

FooBaz == [k \in {"Foo", "Baz"} |->
             IF k = "Foo" THEN Marks(<<"b", "c">>, <<>>) ELSE Marks(<<"h">>, <<>>)]

MCInfo == [p \in ToSet(MCRoots) |->
  CASE p = "g1v1"   -> Package(FALSE, FALSE, "g1", FooBar, {"Foo", "Bar"})
    [] p = "g1v2"   -> Package(TRUE, FALSE, "g1", FooBaz, {"Foo", "Baz"})
    [] p = "g2v1"   -> Package(FALSE, FALSE, "g2", Foo(<<"d">>, <<"k3">>), {"Foo"})
    [] p = "g1bad"  -> Package(TRUE, FALSE, "g1", Foo(<<"e">>, <<>>), {"Foo"})
    [] p = "g1skip" -> Package(FALSE, TRUE, "g1", Foo(<<"f">>, <<>>), {"Foo"})
    [] p = "g1none" -> Package(FALSE, FALSE, "g1", Foo(<<>>, <<"k4">>), {})
    [] p = "plain"  -> Package(FALSE, FALSE, "none", Foo(<<"g">>, <<>>), {"Foo"})]

(* The options: README.md's and what is refused; the flags: none, and all of *)
(* them, with the levels that make a difference.                             *)
Out(g, form) == <<"output", g, form>>

Options(gens, others) == [generators |-> gens, others |-> others]

MCOptions == { Options(<<"xrd", "object">>, {<<"paths">>, Out("all", "artifacts")}),
               Options(<<"object", "xrd">>, {Out("xrd", "none"), Out("all", "dir")}),
               Options(<<"xrd">>, {Out("all", "stdout")}),
               Options(<<"object">>, {}),
               Options(<<"xrd">>, {Out("object", "dir")}),
               Options(<<"xrd", "xrd">>, {}),
               Options(<<"rbac", "xrd">>, {}),
               Options(<<>>, {<<"paths">>}) }

Flags(h, v, hl, wl, o) ==
  [help |-> h, version |-> v, helpLevel |-> hl, whichLevel |-> wl,
   generators |-> o.generators, options |-> o.others]

MCLines == UNION {{ Flags(FALSE, FALSE, 0, 0, o), Flags(TRUE, TRUE, 2, 1, o),
                    Flags(FALSE, TRUE, 1, 1, o), Flags(FALSE, FALSE, 5, 1, o),
                    Flags(FALSE, FALSE, 0, 4, o), Flags(FALSE, FALSE, 0, 5, o) } : o \in MCOptions}

MCPlural == [k \in {"Foo", "Bar", "Baz"} |-> IF k = "Foo" THEN "foos" ELSE "bars"]

===============================================================================
