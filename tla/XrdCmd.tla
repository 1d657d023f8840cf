-------------------------------- MODULE XrdCmd ---------------------------------
(***************************************************************************)
(* xrd-gen, cmd/xrd-gen/main.go: the flags, the options, the generators it *)
(* runs and how it exits. XrdGen is the generator "xrd". cobra and the     *)
(* runtime of controller-tools (genall) are external.                      *)
(***************************************************************************)
EXTENDS XrdGen

CONSTANT CommandLines     (* The flags, the generators asked for in order,    *)
                          (* whether there are such or not, and the other     *)
                          (* options: of several output rules for the same    *)
                          (* generator, the last.                             *)

Generators  == {"xrd", "object"}                  (* allGenerators            *)
OutputRules == {"dir", "none", "stdout", "artifacts"}

(* The registry main.init fills: an option for each generator, one for each  *)
(* output rule of a generator or of all, and those common to generators.     *)
optionsRegistry ==
  {<<"generator", g>> : g \in Generators}
    \cup ({"output"} \X (Generators \cup {"all"}) \X OutputRules)
    \cup {<<"paths">>}

jsonHelp == 4

ASSUME LinesAssumption ==
  \A l \in CommandLines :
    /\ l.help \in BOOLEAN /\ l.version \in BOOLEAN
    /\ l.helpLevel \in Nat /\ l.whichLevel \in Nat
    /\ l.generators \in Seq(STRING)
    /\ \A o, q \in l.options : o[1] = "output" /\ q[1] = "output" /\ o[2] = q[2] => o = q

VARIABLES
  line,       (* The command line.                                           *)
  at,         (* "start", "run" in rt.Run, exited with 0 or exited with 1.   *)
  todo,       (* The generators rt.Run has yet to run.                       *)
  hadErrs,    (* Has one of them failed?                                     *)
  printed     (* What has been printed.                                      *)

cmdVars == <<line, at, todo, hadErrs, printed>>

CmdTypeOK ==
  /\ TypeOK
  /\ line \in CommandLines
  /\ at \in {"start", "run", "exit0", "exit1"}
  /\ todo \in Seq(Generators)
  /\ hadErrs \in BOOLEAN
  /\ printed \subseteq {"version", "usage", "options", "markers"}

CmdInit ==
  /\ Init
  /\ line \in CommandLines
  /\ at = "start"
  /\ todo = <<>>
  /\ hadErrs = FALSE
  /\ printed = {}

Invoked == line.generators

(* What genall refuses, apart from values and packages that do not load.     *)
Refused ==
  \/ ~IsInjective(Invoked)
  \/ \E g \in ToSet(Invoked) : <<"generator", g>> \notin optionsRegistry
  \/ \E o \in line.options :
       \/ o \notin optionsRegistry
       \/ o[1] = "output" /\ o[2] \notin ToSet(Invoked) \cup {"all"}

(* The output rule of a generator: its own, else the one for all, else       *)
(* genall's, a directory.                                                    *)
OutputRule(g) ==
  LET For(t) == {o[3] : o \in {o \in line.options : o[1] = "output" /\ o[2] = t}}
      forms  == IF For(g) # {} THEN For(g) ELSE IF For("all") # {} THEN For("all") ELSE {"dir"}
  IN  CHOOSE form \in forms : TRUE

(* What of the XRDs ends up in files and what on the standard output. *)
files  == IF OutputRule("xrd") \in {"none", "stdout"} THEN {} ELSE output
stdout == IF OutputRule("xrd") = "stdout" THEN output ELSE {}

-------------------------------------------------------------------------------
(* Help and usage *)

(* Beyond the level for JSON nothing is printed. *)
HelpForLevels(what, level) == IF level \in 1 .. jsonHelp THEN {what} ELSE {}

Usage == {"usage"} \cup HelpForLevels("options", IF line.helpLevel = 0 THEN 1 ELSE line.helpLevel)

Exit(status, shown) ==
  /\ at' = status
  /\ printed' = shown
  /\ UNCHANGED <<line, todo>>

Asked == ~line.help /\ ~line.version /\ line.helpLevel = 0 /\ line.whichLevel = 0

(* cobra answers --help before RunE. *)
ShowHelp ==
  /\ at = "start"
  /\ line.help \/ (~line.version /\ line.helpLevel > 0)
  /\ Exit("exit0", Usage)
  /\ UNCHANGED <<vars, hadErrs>>

ShowVersion ==
  /\ at = "start"
  /\ ~line.help /\ line.version
  /\ Exit("exit0", {"version"})
  /\ UNCHANGED <<vars, hadErrs>>

PrintMarkerDocs ==
  /\ at = "start"
  /\ ~line.help /\ ~line.version /\ line.helpLevel = 0 /\ line.whichLevel > 0
  /\ ~Refused
  /\ Exit("exit0", HelpForLevels("markers", line.whichLevel))
  /\ UNCHANGED <<vars, hadErrs>>

(* A flag or an option is refused or does not parse, the packages do not     *)
(* load, or there is no generator.                                           *)
NotUnderstood ==
  /\ at = "start"
  /\ Exit("exit1", Usage)
  /\ UNCHANGED <<vars, hadErrs>>

-------------------------------------------------------------------------------
(* The generators *)

(* FromOptions, which has the generators register their markers. *)
FromOptions ==
  /\ at = "start"
  /\ Asked /\ ~Refused /\ Invoked # <<>>
  /\ at' = "run" /\ todo' = Invoked
  /\ IF "xrd" \in ToSet(Invoked) THEN RegisterMarkers ELSE UNCHANGED vars
  /\ UNCHANGED <<line, hadErrs, printed>>

FromOptionsFails ==
  /\ at = "start"
  /\ Asked /\ ~Refused /\ "xrd" \in ToSet(Invoked)
  /\ RegisterFails
  /\ Exit("exit1", Usage)
  /\ UNCHANGED hadErrs

Turn(g) == at = "run" /\ todo # <<>> /\ Head(todo) = g

RunXrd ==
  /\ Turn("xrd")
  /\ Generate
  /\ UNCHANGED cmdVars

(* A generator that fails does not keep the next one from running. *)
XrdReturns ==
  /\ Turn("xrd")
  /\ phase = "done"
  /\ todo' = Tail(todo)
  /\ hadErrs' = (hadErrs \/ outcome = "error")
  /\ UNCHANGED <<vars, line, at, printed>>

(* deepcopy.Generator, whose errors may be on the packages as well. *)
RunObject ==
  /\ Turn("object")
  /\ todo' = Tail(todo)
  /\ hadErrs' \in {hadErrs, TRUE}
  /\ UNCHANGED <<vars, line, at, printed>>

PlainError   == Usage                             \* mutant: not a noUsageError
NoUsageError == {}

RunEnds ==
  /\ at = "run" /\ todo = <<>>
  /\ IF hadErrs \/ errors # <<>> \/ crdErrors THEN Exit("exit1", NoUsageError)
                                             ELSE Exit("exit0", {})
  /\ UNCHANGED <<vars, hadErrs>>

Exited == at \in {"exit0", "exit1"} /\ UNCHANGED <<vars, cmdVars>>

CmdNext ==
  \/ ShowHelp \/ ShowVersion \/ PrintMarkerDocs \/ NotUnderstood
  \/ FromOptions \/ FromOptionsFails
  \/ RunXrd \/ XrdReturns \/ RunObject \/ RunEnds
  \/ Exited

CmdSpec == CmdInit /\ [][CmdNext]_<<vars, cmdVars>>

-------------------------------------------------------------------------------
(* Safety *)

(* generator.go:125-150, parser.go:60-89, main.go:174-206: if xrd-gen was    *)
(* asked for XRDs, not to write them nowhere, and exits with 0, every API    *)
(* kind has each of its versions in a file or on the standard output.        *)
(* Markers that do not parse, a step of Generate that fails, and errors that *)
(* a later generator has nothing to do with, all show in the status. Two     *)
(* things do not: another kind of the group with the same plural may have    *)
(* taken the place of a kind, and then with all versions of its own          *)
(* (crd_storage.go:50), and a CRD may not have parsed (crd_storage.go:47).   *)
ExitZeroMeansWritten ==
  at = "exit0" /\ Asked /\ "xrd" \in ToSet(Invoked) /\ OutputRule("xrd") # "none" =>
    \A p \in {q \in Packages : ~Info[q].skip /\ Info[q].group # NoGroup} : \A k \in Info[p].apis :
      \/ <<Info[p].group, k>> \in lost
      \/ \E x \in files \cup stdout :
           /\ x.group = Info[p].group /\ Plural[x.kind] = Plural[k]
           /\ IF x.kind = k THEN p \in x.versions ELSE x.versions = Versions(x.group, x.kind)

(* main.go:118-121, 175: when xrd-gen fails, the usage is printed exactly if *)
(* no generator has begun, the command line, the packages or the markers     *)
(* being to blame; it does not obscure what a generator had to say.          *)
UsageIfToBlame ==
  at = "exit1" =>
    ("usage" \in printed <=> ~hadErrs /\ errors = <<>> /\ ~crdErrors /\ outcome = "none")

===============================================================================
