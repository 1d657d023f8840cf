----------------------------- MODULE XrdCmdProofs ------------------------------
(***************************************************************************)
(* Proofs about XrdCmd: any command line.                                  *)
(***************************************************************************)
EXTENDS XrdCmd, XrdGenProofs

(* Before the command line is understood the generator has not begun.        *)
NotBegun == at = "start" => phase = "register" /\ ~hadErrs

(* While the generators run, "xrd" is still to come or has ended, and then   *)
(* its failure is remembered.                                                *)
XrdTurn ==
  at = "run" =>
    /\ Asked
    /\ "xrd" \in ToSet(Invoked) =>
         /\ phase # "register" /\ registered = Markers
         /\ \/ "xrd" \in ToSet(todo)
            \/ phase = "done" /\ (outcome = "error" => hadErrs)

(* xrd-gen exits with 0 only if all went well.                               *)
ZeroIsSuccess ==
  at = "exit0" /\ Asked /\ "xrd" \in ToSet(Invoked) => outcome = "ok" /\ errors = <<>>

CmdInv ==
  /\ XInv
  /\ CmdTypeOK /\ NotBegun /\ XrdTurn /\ ZeroIsSuccess /\ UsageIfToBlame

-------------------------------------------------------------------------------
(* The command line *)

(* Of the names that are not refused each is a generator.                    *)
LEMMA InvokedAreGenerators ==
  ASSUME CmdTypeOK, ~Refused
  PROVE  Invoked \in Seq(Generators)
<1>1. Invoked \in Seq(STRING)
  BY LinesAssumption DEF Invoked, CmdTypeOK
<1>2. Len(Invoked) \in Nat /\ DOMAIN Invoked = 1 .. Len(Invoked) /\ Invoked = [i \in 1 .. Len(Invoked) |-> Invoked[i]]
  BY <1>1, LenProperties
<1>3. ASSUME NEW i \in 1 .. Len(Invoked) PROVE Invoked[i] \in Generators
  <2>1. <<"generator", Invoked[i]>> \in optionsRegistry
    BY <1>2 DEF Refused, ToSet
  <2>2. <<"generator", Invoked[i]>> \in {<<"generator", g>> : g \in Generators}
    <3>1. <<"generator", Invoked[i]>> \notin {"output"} \X (Generators \cup {"all"}) \X OutputRules
      OBVIOUS
    <3>2. <<"generator", Invoked[i]>> # <<"paths">>
      OBVIOUS
    <3> QED  BY <2>1, <3>1, <3>2 DEF optionsRegistry
  <2> QED  BY <2>2
<1> QED  BY <1>2, <1>3, SeqDef

-------------------------------------------------------------------------------
(* The inductive invariant *)

LEMMA InitCmdInv == CmdInit => CmdInv
<1> SUFFICES ASSUME CmdInit PROVE CmdInv
  OBVIOUS
<1>1. Init /\ line \in CommandLines /\ at = "start" /\ todo = <<>> /\ hadErrs = FALSE /\ printed = {}
  BY DEF CmdInit
<1>2. XInv
  BY <1>1, InitXInv
<1>3. TypeOK /\ phase = "register"
  BY <1>1, <1>2 DEF XInv, Init
<1>4. CmdTypeOK
  BY <1>1, <1>3, NoElements DEF CmdTypeOK
<1> QED  BY <1>1, <1>2, <1>3, <1>4 DEF CmdInv, NotBegun, XrdTurn, ZeroIsSuccess, UsageIfToBlame

(* What the generator does while xrd-gen stays where it is.                  *)
LEMMA GeneratorSteps ==
  ASSUME CmdNext
  PROVE  [Next]_vars
<1>1. RunXrd => Generate
  BY DEF RunXrd
<1>2. FromOptions => RegisterMarkers \/ UNCHANGED vars
  BY DEF FromOptions
<1>3. FromOptionsFails => RegisterFails
  BY DEF FromOptionsFails
<1>4. ShowHelp \/ ShowVersion \/ PrintMarkerDocs \/ NotUnderstood => UNCHANGED vars
  BY DEF ShowHelp, ShowVersion, PrintMarkerDocs, NotUnderstood
<1>5. XrdReturns \/ RunObject \/ RunEnds \/ Exited => UNCHANGED vars
  BY DEF XrdReturns, RunObject, RunEnds, Exited
<1> QED  BY <1>1, <1>2, <1>3, <1>4, <1>5 DEF CmdNext, Next

(* Generate begins nothing anew and does not touch the registry.             *)
LEMMA GenerateFacts ==
  ASSUME Generate, phase # "register"
  PROVE  phase' # "register" /\ registered' = registered /\ phase # "done"
<1> USE DEF parserVars, Return
<1>1. Generate => Next
  BY DEF Next
<1>2. registered' = registered
  BY <1>1, WhoChangesWhat DEF RegisterMarkers, RegisterFails
<1>3. NeedPackage \/ Indexed => phase = "index" /\ phase' \in {"index", "crds"}
  BY DEF NeedPackage, Indexed
<1>4. \A g \in Groups, k \in Kinds :
        StoreCRD(g, k) \/ LoseCRD(g, k) => phase = "crds" /\ phase' = "crds"
  BY DEF StoreCRD, LoseCRD
<1>5. GenerateCRDsFails \/ GeneratedCRDs => phase = "crds" /\ phase' \in {"done", "convert"}
  BY DEF GenerateCRDsFails, GeneratedCRDs
<1>6. \A c \in unconverted : ConvertCRDToXRD(c) => phase = "convert" /\ phase' = "apply"
  BY DEF ConvertCRDToXRD
<1>7. \A p \in toApply : ApplyMarkers(p) => phase = "apply" /\ phase' = "apply"
  BY DEF ApplyMarkers
<1>8. ConvertFails \/ Applied \/ ConvertsDone =>
        phase \in {"convert", "apply"} /\ phase' \in {"done", "convert", "write"}
  BY DEF ConvertFails, Applied, ConvertsDone
<1>9. WriteXRD \/ WriteFails \/ WritesDone => phase = "write" /\ phase' \in {"write", "done"}
  BY DEF WriteXRD, WriteFails, WritesDone
<1> QED  BY <1>2, <1>3, <1>4, <1>5, <1>6, <1>7, <1>8, <1>9 DEF Generate

LEMMA NextCmdInv ==
  ASSUME CmdInv, CmdNext
  PROVE  CmdInv'
<1>1. XInv' /\ TypeOK'
  BY GeneratorSteps, NextXInv DEF CmdInv, XInv
<1>2. /\ XInv /\ TypeOK /\ Stages /\ CmdTypeOK /\ NotBegun /\ XrdTurn /\ ZeroIsSuccess /\ UsageIfToBlame
  BY DEF CmdInv, XInv
<1>3. /\ line \in CommandLines /\ at \in {"start", "run", "exit0", "exit1"}
      /\ todo \in Seq(Generators) /\ hadErrs \in BOOLEAN
      /\ printed \subseteq {"version", "usage", "options", "markers"}
  BY <1>2 DEF CmdTypeOK
<1>4. Usage \subseteq {"version", "usage", "options", "markers"} /\ "usage" \in Usage
  BY DEF Usage, HelpForLevels
<1>5. CASE ShowHelp \/ ShowVersion \/ PrintMarkerDocs
  <2>1. /\ at' = "exit0" /\ ~Asked' /\ UNCHANGED <<vars, line, todo, hadErrs>>
        /\ printed' \subseteq {"version", "usage", "options", "markers"}
    <3>1. line.helpLevel \in Nat /\ line.whichLevel \in Nat
      BY <1>3, LinesAssumption
    <3>2. ~Asked
      BY <1>5, <3>1 DEF ShowHelp, ShowVersion, PrintMarkerDocs, Asked
    <3>3. at' = "exit0" /\ UNCHANGED <<vars, line, todo, hadErrs>>
      BY <1>5 DEF ShowHelp, ShowVersion, PrintMarkerDocs, Exit
    <3>4. Asked' = Asked
      BY <3>3 DEF Asked
    <3>5. printed' \in {Usage, {"version"}, HelpForLevels("markers", line.whichLevel)}
      BY <1>5 DEF ShowHelp, ShowVersion, PrintMarkerDocs, Exit
    <3>6. HelpForLevels("markers", line.whichLevel) \subseteq {"markers"}
      BY DEF HelpForLevels
    <3> QED  BY <1>4, <3>2, <3>3, <3>4, <3>5, <3>6
  <2> QED  BY <1>1, <1>3, <2>1 DEF CmdTypeOK, NotBegun, XrdTurn, ZeroIsSuccess, UsageIfToBlame, CmdInv
<1>6. CASE NotUnderstood
  <2>1. at = "start" /\ at' = "exit1" /\ printed' = Usage /\ UNCHANGED <<vars, line, todo, hadErrs>>
    BY <1>6 DEF NotUnderstood, Exit
  <2>2. /\ ~hadErrs /\ errors = <<>> /\ ~crdErrors /\ outcome = "none"
        /\ UNCHANGED <<errors, crdErrors, outcome>>
    BY <1>2, <2>1 DEF NotBegun, Stages, vars
  <2> QED  BY <1>1, <1>3, <1>4, <2>1, <2>2 DEF CmdTypeOK, NotBegun, XrdTurn, ZeroIsSuccess, UsageIfToBlame, CmdInv
<1>7. CASE FromOptions
  <2>1. /\ at = "start" /\ at' = "run" /\ todo' = Invoked /\ Asked /\ ~Refused
        /\ UNCHANGED <<line, hadErrs, printed>>
        /\ "xrd" \in ToSet(Invoked) => RegisterMarkers
    BY <1>7 DEF FromOptions
  <2>2. todo' \in Seq(Generators)
    BY <1>2, <2>1, InvokedAreGenerators
  <2>3. "xrd" \in ToSet(Invoked) => phase' # "register" /\ registered' = Markers
    BY <2>1 DEF RegisterMarkers
  <2>4. Asked' /\ Invoked' = Invoked
    BY <2>1 DEF Asked, Invoked
  <2> QED  BY <1>1, <1>3, <2>1, <2>2, <2>3, <2>4 DEF CmdTypeOK, NotBegun, XrdTurn, ZeroIsSuccess, UsageIfToBlame, CmdInv
<1>8. CASE FromOptionsFails
  <2>1. /\ at = "start" /\ at' = "exit1" /\ printed' = Usage /\ UNCHANGED <<line, todo, hadErrs>>
        /\ UNCHANGED <<errors, crdErrors, outcome>>
    BY <1>8 DEF FromOptionsFails, Exit, RegisterFails, crdVars
  <2>2. ~hadErrs /\ errors = <<>> /\ ~crdErrors /\ outcome = "none"
    BY <1>2, <2>1 DEF NotBegun, Stages
  <2> QED  BY <1>1, <1>3, <1>4, <2>1, <2>2 DEF CmdTypeOK, NotBegun, XrdTurn, ZeroIsSuccess, UsageIfToBlame, CmdInv
<1>9. CASE RunXrd
  <2>1. at = "run" /\ todo # <<>> /\ Head(todo) = "xrd" /\ Generate /\ UNCHANGED cmdVars
    BY <1>9 DEF RunXrd, Turn
  <2>2. "xrd" \in ToSet(todo)
    BY <1>3, <2>1, TailFacts
  <2>3. ASSUME "xrd" \in ToSet(Invoked) PROVE phase' # "register" /\ registered' = Markers
    BY <1>2, <2>1, <2>3, GenerateFacts DEF XrdTurn
  <2>4. UNCHANGED <<line, at, todo, hadErrs, printed>> /\ Asked' = Asked /\ Invoked' = Invoked
    BY <2>1 DEF cmdVars, Asked, Invoked
  <2> QED  BY <1>1, <1>2, <1>3, <2>1, <2>2, <2>3, <2>4 DEF CmdTypeOK, NotBegun, XrdTurn, ZeroIsSuccess, UsageIfToBlame, CmdInv
<1>10. CASE XrdReturns \/ RunObject
  <2>1. /\ at = "run" /\ todo # <<>> /\ todo' = Tail(todo)
        /\ UNCHANGED <<vars, line, at, printed>>
    BY <1>10 DEF XrdReturns, RunObject, Turn
  <2>2. hadErrs' \in BOOLEAN /\ (hadErrs => hadErrs')
    BY <1>3, <1>10 DEF XrdReturns, RunObject
  <2>3. todo' \in Seq(Generators) /\ ToSet(todo) = {Head(todo)} \cup ToSet(todo')
    BY <1>3, <2>1, TailFacts
  <2>4. UNCHANGED <<phase, registered, outcome, errors>> /\ Asked' = Asked /\ Invoked' = Invoked
    BY <2>1 DEF vars, Asked, Invoked
  <2>5. ASSUME Head(todo) = "xrd" PROVE phase = "done" /\ (outcome = "error" => hadErrs')
    BY <1>10, <2>5 DEF XrdReturns, RunObject, Turn
  <2>6. XrdTurn'
    BY <1>2, <2>1, <2>2, <2>3, <2>4, <2>5 DEF XrdTurn
  <2> QED  BY <1>1, <1>3, <2>1, <2>2, <2>3, <2>6 DEF CmdTypeOK, NotBegun, ZeroIsSuccess, UsageIfToBlame, CmdInv
<1>11. CASE RunEnds
  <2>1. /\ at = "run" /\ todo = <<>> /\ UNCHANGED <<vars, line, todo, hadErrs>>
        /\ \/ (hadErrs \/ errors # <<>> \/ crdErrors) /\ at' = "exit1" /\ printed' = {}
           \/ ~hadErrs /\ errors = <<>> /\ at' = "exit0" /\ printed' = {}
    BY <1>11 DEF RunEnds, Exit, NoUsageError
  <2>2. UNCHANGED <<phase, registered, outcome, errors, crdErrors>> /\ Asked' = Asked /\ Invoked' = Invoked
    BY <2>1 DEF vars, Asked, Invoked
  <2>3. ASSUME "xrd" \in ToSet(Invoked), ~hadErrs PROVE outcome = "ok"
    <3>1. "xrd" \notin ToSet(todo)
      BY <2>1, ToSetEmpty
    <3>2. phase = "done" /\ outcome # "error" /\ registered = Markers
      BY <1>2, <2>1, <2>3, <3>1 DEF XrdTurn
    <3> QED  BY <1>2, <3>2 DEF Stages, TypeOK
  <2>4. ZeroIsSuccess'
    BY <2>1, <2>2, <2>3 DEF ZeroIsSuccess
  <2> QED  BY <1>1, <1>3, <2>1, <2>2, <2>4 DEF CmdTypeOK, NotBegun, XrdTurn, UsageIfToBlame, CmdInv
<1>12. CASE Exited
  <2>1. UNCHANGED <<phase, registered, outcome, errors, crdErrors>> /\ Asked' = Asked /\ Invoked' = Invoked
        /\ UNCHANGED <<line, at, todo, hadErrs, printed>> /\ at \in {"exit0", "exit1"}
    BY <1>12 DEF Exited, cmdVars, vars, Asked, Invoked
  <2> QED  BY <1>1, <1>2, <1>3, <2>1 DEF CmdTypeOK, NotBegun, XrdTurn, ZeroIsSuccess, UsageIfToBlame, CmdInv
<1> QED  BY <1>1, <1>5, <1>6, <1>7, <1>8, <1>9, <1>10, <1>11, <1>12 DEF CmdNext

-------------------------------------------------------------------------------
(* The theorems *)

(* The inductive invariant of xrd-gen.                                       *)
THEOREM CmdInvariance == CmdSpec => []CmdInv
<1>1. CmdInit => CmdInv
  BY InitCmdInv
<1>2. CmdInv /\ [CmdNext]_<<vars, cmdVars>> => CmdInv'
  <2>1. ASSUME CmdInv, UNCHANGED <<vars, cmdVars>> PROVE CmdInv'
    <3>1. XInv'
      BY <2>1, StutterXInv DEF CmdInv
    <3>2. TypeOK' /\ UNCHANGED <<phase, registered, errors, crdErrors, outcome, line, at, todo, hadErrs, printed>>
      BY <2>1, <3>1 DEF XInv, vars, cmdVars
    <3>3. Asked' = Asked /\ Invoked' = Invoked
      BY <3>2 DEF Asked, Invoked
    <3> QED  BY <2>1, <3>1, <3>2, <3>3 DEF CmdInv, CmdTypeOK, NotBegun, XrdTurn, ZeroIsSuccess, UsageIfToBlame
  <2> QED  BY <2>1, NextCmdInv
<1> QED  BY <1>1, <1>2, PTL DEF CmdSpec

(* The state of the generator and of the command are what they should be; in *)
(* particular a package given twice is indexed and reported only once, with  *)
(* one error of each call that fails (parser.go:60-89, 110-114), and each    *)
(* generator run is one of allGenerators (main.go:47-54).                    *)
THEOREM TypeCorrect == CmdSpec => []CmdTypeOK
<1>1. CmdInv => CmdTypeOK
  BY DEF CmdInv
<1> QED  BY <1>1, CmdInvariance, PTL

(* parser.go:128-139: an XRD never gets what a marker says on a type of the  *)
(* same name in another group, whatever the order of the CRDs and packages.  *)
THEOREM ValuesOfTheirGroup == CmdSpec => []MarkersFromOwnGroup
<1>1. CmdInv => MarkersFromOwnGroup
  BY OwnGroupOnly DEF CmdInv
<1> QED  BY <1>1, CmdInvariance, PTL

(* parser.go:134-155: an XRD written has every marker that any version of    *)
(* its type has.                                                             *)
THEOREM WrittenWithMarkers == CmdSpec => []MarkersApplied
<1>1. CmdInv => MarkersApplied
  BY AllMarkersApplied DEF CmdInv
<1> QED  BY <1>1, CmdInvariance, PTL

(* generator.go:133-148: no XRD is written before all CRDs are converted.    *)
THEOREM ConvertsBeforeWrites == CmdSpec => []NothingWrittenEarly
<1>1. CmdInv => NothingWrittenEarly
  BY WrittenAfterAll DEF CmdInv
<1> QED  BY <1>1, CmdInvariance, PTL

(* main.go:118-121, 175: the usage is printed exactly if xrd-gen fails before *)
(* a generator begins.                                                       *)
THEOREM UsageForTheUser == CmdSpec => []UsageIfToBlame
<1>1. CmdInv => UsageIfToBlame
  BY DEF CmdInv
<1> QED  BY <1>1, CmdInvariance, PTL

(* At exit 0 each kind of a package that is not skipped has its XRD.         *)
LEMMA SuccessIsWritten == CmdInv => ExitZeroMeansWritten
<1> SUFFICES ASSUME CmdInv, at = "exit0", Asked, "xrd" \in ToSet(Invoked),
                    OutputRule("xrd") # "none",
                    NEW p \in Packages, ~Info[p].skip, Info[p].group # NoGroup,
                    NEW k \in Info[p].apis, <<Info[p].group, k>> \notin lost
             PROVE  \E x \in files \cup stdout :
                      /\ x.group = Info[p].group /\ Plural[x.kind] = Plural[k]
                      /\ IF x.kind = k THEN p \in x.versions
                                       ELSE x.versions = Versions(x.group, x.kind)
  BY DEF ExitZeroMeansWritten
<1>1. outcome = "ok" /\ errors = <<>>
  BY DEF CmdInv, ZeroIsSuccess
<1>2. /\ TypeOK /\ Stages /\ PackagesSorted /\ Counted /\ CrdsComplete /\ XrdsComplete
  BY DEF CmdInv, XInv
<1>3. Parsed /\ phase = "done"
  BY <1>1, <1>2 DEF Parsed, Stages
<1>4. packages = Packages
  BY <1>2, <1>3, RootFacts DEF Stages
<1>5. p \notin bad
  BY <1>1, <1>2, <1>4 DEF PackagesSorted
<1>6. k \in Kinds /\ k \in DOMAIN Info[p].types /\ Info[p].group \in Groups
  BY InfoAssumption DEF Groups
<1>7. p \in Versions(Info[p].group, k) /\ IsKubeKind(Info[p].group, k)
  BY <1>5, <1>6 DEF Versions, IsKubeKind
<1>8. PICK c \in crds : c.group = Info[p].group /\ Plural[c.kind] = Plural[k]
  <2>1. crdsLeft = {}
    BY <1>1, <1>2 DEF CrdsComplete
  <2>2. \A g \in Groups, j \in Kinds : IsKubeKind(g, j) =>
          <<g, j>> \in crdsLeft \cup lost \/ \E c \in crds : c.group = g /\ Plural[c.kind] = Plural[j]
    BY <1>2, <1>3 DEF CrdsComplete
  <2> HIDE DEF Groups, Kinds, Versions, IsKubeKind
  <2> QED  BY <1>6, <1>7, <2>1, <2>2
<1>9. PICK x \in ToSet(xrds) : MadeFrom(x, c)
  BY <1>1, <1>2, <1>3 DEF XrdsComplete, Counted
<1>10. x \in files \cup stdout
  <2>1. x \in output
    BY <1>1, <1>2, OutputIsXrds DEF Counted
  <2>2. files \cup stdout = output
    BY DEF files, stdout
  <2> QED  BY <2>1, <2>2
<1>11. x.group = Info[p].group /\ x.kind = c.kind /\ x.versions = Versions(x.group, x.kind)
  BY <1>2, <1>8, <1>9 DEF MadeFrom, CrdsComplete
<1>12. x.kind = k => p \in x.versions
  BY <1>7, <1>11
<1> QED  BY <1>8, <1>10, <1>11, <1>12

(* generator.go:125-150, parser.go:60-89, main.go:174-206: xrd-gen exits     *)
(* with 0 after it was asked for XRDs only if every API kind has each of its *)
(* versions in a file or on the standard output, whichever the output rule   *)
(* says, unless that says none, another kind of its plural has taken its     *)
(* place, or its CRD did not parse.                                          *)
THEOREM ExitZeroIsTrue == CmdSpec => []ExitZeroMeansWritten
<1> QED  BY SuccessIsWritten, CmdInvariance, PTL

===============================================================================
