----------------------------- MODULE XrcGenProofs ------------------------------
(***************************************************************************)
(* Proofs about XrcGen: a run over any directories, with any output files  *)
(* and templates.                                                          *)
(***************************************************************************)
EXTENDS XrcGen, FiniteSetTheorems, SequenceTheorems, SequenceFacts, TLAPS

Untouched == \A f \in OutFiles : files[f] \in {NoFile, Old}

(* What main has done when it is where it is. Once it writes, every builder   *)
(* loaded has built; a run that ended before that has written nothing.       *)
MainKnows ==
  /\ stage \in {"generate", "compile"} => unloaded = {} /\ packages = <<>>
  /\ stage \in {"generate", "compile", "load"} => built = 0
  /\ stage \in {"generate", "compile", "load", "build", "crashed"} => written = 0 /\ Untouched
  /\ stage \in {"build", "write", "exit"} => unloaded = {}
  /\ stage = "write" => built = Len(packages)
  /\ built < Len(packages) => written = 0 /\ Untouched

(* What has been logged while compiling are the verdicts that are "failed".  *)
VerdictsLogged ==
  stage \in {"generate", "compile"} =>
    ~returned /\ logged = {t \in Found : verdict[t] = "failed"}

(* From then on every composition is still to be loaded, or its builder is   *)
(* there, once, or its error was logged; both only if that error ended the   *)
(* run.                                                                      *)
Accounted ==
  /\ \A i, j \in DOMAIN packages : packages[i] = packages[j] => i = j
  /\ \A i \in DOMAIN packages : packages[i] \notin unloaded
  /\ stage \notin {"generate", "compile"} =>
       Found = unloaded \cup ToSet(packages) \cup logged
  /\ unloaded \cap logged = {}

LoggedLate ==
  /\ \A i \in DOMAIN packages : packages[i] \in logged =>
       stage = "exit" /\ written < Len(packages)
  /\ \A i \in 1 .. written : packages[i] \notin logged

WrittenTo(f) == {i \in 1 .. written : OutFile[packages[i]] = f}

(* An output file holds the last of the compositions that were written to    *)
(* it; a torn one is what a failed write has left.                           *)
LastWritten ==
  \A f \in OutFiles :
    \/ files[f] = Torn /\ stage = "exit" /\ written < Len(packages)
    \/ WrittenTo(f) = {} /\ files[f] \in {NoFile, Old}
    \/ \E i \in WrittenTo(f) : files[f] = packages[i] /\ \A j \in WrittenTo(f) : j <= i

(* A base path set by the builder that runs is its own, and so is what it    *)
(* loaded since.                                                             *)
BasePathSet ==
  /\ set => /\ stage \notin {"generate", "compile", "load"}
            /\ built < Len(packages)
            /\ TemplateBasePath = packages[built + 1]
  /\ text.own => set /\ text.files = Template!Named(packages[built + 1], text.path)

IInv ==
  /\ TypeOK
  /\ PrimaryFirst /\ MainKnows /\ VerdictsLogged /\ Accounted /\ LoggedLate /\ LastWritten
  /\ BasePathSet

-------------------------------------------------------------------------------
(* Directories, sequences and templates *)

(* The compositions are finitely many directories, which are no marks, and   *)
(* each has its output file.                                                 *)
LEMMA FoundDirs ==
  /\ Len(Dirs) \in Nat
  /\ DirIds \subseteq Nat
  /\ Found \subseteq DirIds /\ GenPaths \subseteq DirIds
  /\ IsFiniteSet(Found)
  /\ {NoFile, Old, Torn} \cap Found = {}
  /\ \A t \in Found : OutFile[t] \in OutFiles
<1>1. Len(Dirs) \in Nat
  BY DirsAssumption
<1>2. Found \subseteq DirIds /\ GenPaths \subseteq DirIds
  BY DEF Found, GenPaths, WalkDir
<1>3. DirIds \subseteq Nat /\ IsFiniteSet(DirIds)
  BY <1>1, FS_Interval DEF DirIds
<1>4. IsFiniteSet(Found)
  BY <1>2, <1>3, FS_Subset
<1>5. {NoFile, Old, Torn} \cap Found = {}
  BY <1>2, MarksAssumption
<1> QED  BY <1>1, <1>2, <1>3, <1>4, <1>5 DEF OutFiles

(* What a load finds is a sequence of files. *)
LEMMA NamedType ==
  ASSUME NEW b \in Found \cup {NoBase}, NEW p \in Template!Paths
  PROVE  /\ Template!Named(b, p) \in Seq(Template!Files)
         /\ \A k \in 0 .. Size[b] :
              SubSeq(Template!Named(b, "directory"), 1, k) \in Seq(Template!Files)
         /\ SubSeq(Template!Named(b, "file"), 1, 1) \in Seq(Template!Files)
<1>1. Size[b] \in Nat
  BY TemplatesAssumption
<1>2. [k \in 1 .. Size[b] |-> <<b, k>>] \in [1 .. Size[b] -> Template!Files]
  BY <1>1 DEF Template!Files
<1>3. [k \in 1 .. Size[b] |-> <<b, k>>] \in Seq(Template!Files)
  BY <1>1, <1>2, SeqDef
<1>4. <<b, 1>> \in Template!Files
  BY DEF Template!Files
<1>5. << <<b, 1>> >> \in Seq(Template!Files)
  BY <1>4
<1>6. ASSUME NEW k \in 0 .. Size[b]
      PROVE  SubSeq([i \in 1 .. Size[b] |-> <<b, i>>], 1, k) \in Seq(Template!Files)
  <2> DEFINE all == [i \in 1 .. Size[b] |-> <<b, i>>]
  <2>1. \A i \in 1 .. k : all[i] \in Template!Files
    BY <1>1, <1>2
  <2> HIDE DEF all
  <2>2. SubSeq(all, 1, k) \in Seq(Template!Files)
    BY <2>1, <1>1, SubSeqProperties
  <2> QED  BY <2>2 DEF all
<1>7. SubSeq(<< <<b, 1>> >>, 1, 1) \in Seq(Template!Files)
  BY <1>4
<1> QED  BY <1>3, <1>5, <1>6, <1>7 DEF Template!Named, Template!Paths

(* The types of Templates, whatever a builder calls. *)
LEMMA TemplateTypes ==
  ASSUME Template!TypeOK, NEW b \in Found, Template!Calls(b) \/ Template!NextBuilder
  PROVE  Template!TypeOK'
<1> USE DEF Template!TypeOK
<1>1. CASE Template!SetBasePath(b)
  BY <1>1 DEF Template!SetBasePath
<1>2. CASE Template!AddTemplate(b)
  <2>1. <<b, 1>> \in Template!Files
    BY DEF Template!Files
  <2> QED  BY <1>2, <2>1, AppendProperties DEF Template!AddTemplate
<1>3. ASSUME NEW p \in Template!Paths, Template!LoadTemplate(p)
      PROVE  Template!TypeOK'
  <2>1. Template!Named(TemplateBasePath, p) \in Seq(Template!Files)
    BY NamedType
  <2>2. templates' = Template!Named(TemplateBasePath, p)
    BY <1>3, <2>1, ConcatEmptySeq DEF Template!LoadTemplate, Template!Reset
  <2> QED  BY <1>3, <2>1, <2>2 DEF Template!LoadTemplate
<1>4. ASSUME NEW p \in Template!Paths, Template!LoadTemplateFails(p)
      PROVE  Template!TypeOK'
  <2>1. templates' \in Seq(Template!Files)
    BY <1>4, NamedType DEF Template!LoadTemplateFails, Template!Paths
  <2> QED  BY <1>4, <2>1 DEF Template!LoadTemplateFails, Template!Nothing
<1>5. CASE Template!NextBuilder
  <2>1. set' \in BOOLEAN
    BY <1>5 DEF Template!NextBuilder
  <2>2. text' \in [own : BOOLEAN, path : Template!Paths \cup {"none"}, files : Seq(Template!Files)]
    <3>1. << >> \in Seq(Template!Files) /\ FALSE \in BOOLEAN
      OBVIOUS
    <3> QED  BY <1>5, <3>1 DEF Template!NextBuilder, Template!Nothing
  <2> QED  BY <1>5, <2>1, <2>2 DEF Template!NextBuilder
<1> QED  BY <1>1, <1>2, <1>3, <1>4, <1>5 DEF Template!Calls

-------------------------------------------------------------------------------
(* The inductive invariant *)

LEMMA InitIInv == Init => IInv
<1> SUFFICES ASSUME Init PROVE IInv
  OBVIOUS
<1> USE DEF Init
<1>1. TypeOK
  <2>1. Template!TypeOK
    <3>1. set \in BOOLEAN
      BY DEF Template!Init
    <3>2. text \in [own : BOOLEAN, path : Template!Paths \cup {"none"}, files : Seq(Template!Files)]
      <4>1. << >> \in Seq(Template!Files) /\ FALSE \in BOOLEAN
        OBVIOUS
      <4> QED  BY <4>1 DEF Template!Init, Template!Nothing
    <3> QED  BY <3>1, <3>2 DEF Template!Init, Template!TypeOK
  <2>2. Compile!TypeOK
    BY DEF Compile!Init, Compile!TypeOK
  <2> QED  BY <2>1, <2>2 DEF TypeOK
<1>2. PrimaryFirst
  BY DEF PrimaryFirst
<1>3. MainKnows
  BY DEF MainKnows, Untouched
<1>4. VerdictsLogged
  BY DEF Compile!Init, VerdictsLogged
<1>5. Accounted /\ LoggedLate
  BY DEF Accounted, LoggedLate
<1>6. LastWritten
  BY DEF LastWritten, WrittenTo
<1>7. BasePathSet
  BY DEF BasePathSet, Template!Init, Template!Nothing
<1> QED  BY <1>1, <1>2, <1>3, <1>4, <1>5, <1>6, <1>7 DEF IInv

(* runGenerators *)
LEMMA GenerateIInv ==
  ASSUME IInv, GeneratorsEnd \/ \E d \in DirIds : Generate(d)
  PROVE  IInv'
<1> USE DEF IInv, TypeOK, MainKnows, VerdictsLogged, Accounted, LoggedLate, LastWritten, WrittenTo,
        BasePathSet, Untouched, compileVars, runnerVars, templateVars
<1>1. CASE GeneratorsEnd
  BY <1>1 DEF GeneratorsEnd, Compile!TypeOK, Template!TypeOK, PrimaryFirst
<1>2. ASSUME NEW d \in DirIds, Generate(d)
      PROVE  IInv'
  <2>1. gen' \subseteq GenPaths
    BY <1>2 DEF Generate, ToGenerate
  <2>2. PrimaryFirst'
    BY <1>2 DEF Generate, PrimaryFirst, ToGenerate, Before
  <2> QED  BY <1>2, <2>1, <2>2 DEF Generate, Compile!TypeOK, Template!TypeOK
<1> QED  BY <1>1, <1>2

(* compilePlugins *)
LEMMA CompileIInv ==
  ASSUME IInv, Compiled \/ WalkFails \/ \E t \in Found : Decide(t)
  PROVE  IInv'
<1> USE DEF IInv, TypeOK, MainKnows, VerdictsLogged, Accounted, LoggedLate, LastWritten, WrittenTo,
        BasePathSet, Untouched, compileVars, runnerVars, templateVars, Compile!TypeOK,
        Compile!Verdicts
<1>1. ASSUME NEW t \in Found, Decide(t)
      PROVE  IInv'
  <2>1. PICK v \in Compile!Verdicts : verdict' = [verdict EXCEPT ![t] = v]
    BY <1>1 DEF Decide, Compile!Decide
  <2>2. Compile!TypeOK'
    BY <1>1, <2>1 DEF Decide, Compile!Decide
  <2>3. logged' = {u \in Found : verdict'[u] = "failed"}
    BY <1>1, <2>1 DEF Decide, Compile!Decide
  <2> QED  BY <1>1, <2>2, <2>3 DEF Decide, Compile!Decide, Template!TypeOK, PrimaryFirst
<1>2. CASE Compiled
  <2>1. unloaded' = {t \in Found : verdict[t] = "compiled"} /\ unloaded' = Found \ logged
    BY <1>2 DEF Compiled, Compile!Return, Returned
  <2>2. Compile!TypeOK'
    BY <1>2 DEF Compiled, Compile!Return
  <2>3. TypeOK' /\ PrimaryFirst' /\ VerdictsLogged'
    BY <1>2, <2>1, <2>2 DEF Compiled, Template!TypeOK, PrimaryFirst
  <2>4. packages = << >> /\ DOMAIN packages = {}
    BY <1>2 DEF Compiled
  <2>5. MainKnows' /\ LastWritten' /\ BasePathSet'
    BY <1>2, <2>4 DEF Compiled
  <2>6. Accounted' /\ LoggedLate'
    BY <1>2, <2>1, <2>4 DEF Compiled, ToSet
  <2> QED  BY <2>3, <2>5, <2>6
<1>3. CASE WalkFails
  <2>1. TypeOK' /\ PrimaryFirst' /\ VerdictsLogged'
    BY <1>3 DEF WalkFails, Template!TypeOK, PrimaryFirst
  <2>2. packages = << >> /\ unloaded = {} /\ DOMAIN packages = {}
    BY <1>3 DEF WalkFails
  <2>3. MainKnows' /\ LastWritten' /\ BasePathSet'
    BY <1>3, <2>2 DEF WalkFails
  <2>4. Accounted' /\ LoggedLate'
    BY <1>3, <2>2 DEF WalkFails, ToSet
  <2> QED  BY <2>1, <2>3, <2>4
<1> QED  BY <1>1, <1>2, <1>3

(* main, loading *)
LEMMA LoadIInv ==
  ASSUME IInv, Loaded \/ \E t \in Found : Load(t) \/ LoadFails(t)
  PROVE  IInv'
<1> USE DEF IInv, TypeOK, MainKnows, VerdictsLogged, Accounted, LoggedLate, LastWritten, WrittenTo,
        BasePathSet, Untouched, compileVars, runnerVars, templateVars, Compile!TypeOK,
        Template!TypeOK
<1>1. ASSUME NEW t \in Found, Load(t)
      PROVE  IInv'
  <2> USE <1>1 DEF Load
  <2>1. /\ Len(packages) \in Nat /\ DOMAIN packages = 1 .. Len(packages)
        /\ packages' \in Seq(Found)
        /\ Len(packages') = Len(packages) + 1
        /\ DOMAIN packages' = 1 .. Len(packages) + 1
        /\ \A k \in 1 .. Len(packages) : packages'[k] = packages[k]
        /\ packages'[Len(packages) + 1] = t
        /\ ToSet(packages') = ToSet(packages) \cup {t}
    BY AppendFacts, ToSetAppend
  <2>2. TypeOK'
    BY <2>1
  <2>3. PrimaryFirst' /\ MainKnows' /\ VerdictsLogged'
    BY <2>1 DEF PrimaryFirst
  <2>4. Accounted'
    <3>1. \A i, j \in DOMAIN packages' : packages'[i] = packages'[j] => i = j
      BY <2>1
    <3>2. \A i \in DOMAIN packages' : packages'[i] \notin unloaded'
      BY <2>1
    <3>3. Found = unloaded' \cup ToSet(packages') \cup logged'
      BY <2>1
    <3> QED  BY <3>1, <3>2, <3>3
  <2>5. LoggedLate' /\ LastWritten'
    BY <2>1
  <2>6. BasePathSet'
    BY <2>1
  <2> QED  BY <2>2, <2>3, <2>4, <2>5, <2>6
<1>2. ASSUME NEW t \in Found, LoadFails(t)
      PROVE  IInv'
  <2> USE <1>2 DEF LoadFails
  <2>1. TypeOK' /\ PrimaryFirst' /\ MainKnows' /\ VerdictsLogged'
    BY DEF PrimaryFirst
  <2>2. Accounted' /\ LoggedLate'
    OBVIOUS
  <2>3. LastWritten' /\ BasePathSet'
    OBVIOUS
  <2> QED  BY <2>1, <2>2, <2>3
<1>3. CASE Loaded
  BY <1>3 DEF Loaded, AllTried, PrimaryFirst
<1> QED  BY <1>1, <1>2, <1>3

(* Runner.Build, the builders *)
LEMMA BuildIInv ==
  ASSUME IInv, UseTemplates \/ Build \/ BuildFails \/ BuildPanics \/ BuildsDone
  PROVE  IInv'
<1> USE DEF IInv, TypeOK, MainKnows, VerdictsLogged, Accounted, LoggedLate, LastWritten, WrittenTo,
        BasePathSet, Untouched, compileVars, runnerVars, templateVars, Compile!TypeOK
<1>0. /\ Len(packages) \in Nat /\ DOMAIN packages = 1 .. Len(packages)
      /\ built < Len(packages) =>
           built + 1 \in DOMAIN packages /\ packages[built + 1] \in Found
  BY LenProperties
<1>1. CASE UseTemplates
  <2> DEFINE b == packages[built + 1]
  <2> USE <1>1 DEF UseTemplates
  <2>1. Template!TypeOK'
    BY <1>0, TemplateTypes
  <2>2. TypeOK' /\ PrimaryFirst'
    BY <2>1 DEF PrimaryFirst
  <2>3. MainKnows' /\ VerdictsLogged' /\ Accounted' /\ LoggedLate' /\ LastWritten'
    OBVIOUS
  <2>4. BasePathSet'
    <3> USE <1>0 DEF Template!TypeOK
    <3>1. CASE Template!SetBasePath(b)
      BY <3>1 DEF Template!SetBasePath
    <3>2. CASE Template!AddTemplate(b)
      BY <3>2 DEF Template!AddTemplate
    <3>3. ASSUME NEW p \in Template!Paths, Template!LoadTemplate(p)
          PROVE  BasePathSet'
      <4>1. Template!Named(TemplateBasePath, p) \in Seq(Template!Files)
        BY NamedType
      <4>2. templates' = Template!Named(TemplateBasePath, p)
        BY <3>3, <4>1, ConcatEmptySeq DEF Template!LoadTemplate, Template!Reset
      <4> QED  BY <3>3, <4>2 DEF Template!LoadTemplate
    <3>4. ASSUME NEW p \in Template!Paths, Template!LoadTemplateFails(p)
          PROVE  BasePathSet'
      BY <3>4 DEF Template!LoadTemplateFails, Template!Nothing
    <3> QED  BY <3>1, <3>2, <3>3, <3>4 DEF Template!Calls
  <2> QED  BY <2>2, <2>3, <2>4
<1>2. CASE Build
  <2> USE <1>2 DEF Build
  <2>1. Template!TypeOK'
    BY <1>0, TemplateTypes
  <2>2. TypeOK' /\ PrimaryFirst'
    BY <1>0, <2>1 DEF PrimaryFirst
  <2>3. MainKnows' /\ VerdictsLogged' /\ Accounted' /\ LoggedLate' /\ LastWritten'
    BY <1>0
  <2>4. BasePathSet'
    BY DEF Template!NextBuilder, Template!Nothing
  <2> QED  BY <2>2, <2>3, <2>4
<1>3. CASE BuildFails
  <2> USE <1>3 DEF BuildFails
  <2>1. TypeOK' /\ PrimaryFirst' /\ MainKnows' /\ VerdictsLogged'
    BY <1>0 DEF PrimaryFirst, Template!TypeOK
  <2>2. Accounted' /\ LoggedLate'
    BY <1>0
  <2>3. LastWritten' /\ BasePathSet'
    OBVIOUS
  <2> QED  BY <2>1, <2>2, <2>3
<1>4. CASE BuildPanics
  <2> USE <1>4 DEF BuildPanics
  <2>1. TypeOK' /\ PrimaryFirst' /\ MainKnows' /\ VerdictsLogged'
    BY <1>0 DEF PrimaryFirst, Template!TypeOK
  <2>2. Accounted' /\ LoggedLate' /\ LastWritten' /\ BasePathSet'
    BY <1>0
  <2> QED  BY <2>1, <2>2
<1>5. CASE BuildsDone
  <2> USE <1>5 DEF BuildsDone
  <2>1. TypeOK' /\ PrimaryFirst' /\ MainKnows' /\ VerdictsLogged'
    BY <1>0 DEF PrimaryFirst, Template!TypeOK, AllBuilt
  <2>2. Accounted' /\ LoggedLate' /\ LastWritten' /\ BasePathSet'
    BY <1>0
  <2> QED  BY <2>1, <2>2
<1> QED  BY <1>1, <1>2, <1>3, <1>4, <1>5

(* Runner.Build, the writer *)
LEMMA WriteIInv ==
  ASSUME IInv, Write \/ WriteFails \/ WritesDone
  PROVE  IInv'
<1> USE DEF IInv, TypeOK, MainKnows, VerdictsLogged, Accounted, LoggedLate, BasePathSet, Untouched,
        compileVars, runnerVars, templateVars, Compile!TypeOK, Template!TypeOK
<1>0. /\ Len(packages) \in Nat /\ DOMAIN packages = 1 .. Len(packages)
      /\ \A i \in 1 .. written : i \in DOMAIN packages
      /\ stage = "write" /\ written < built =>
           /\ written + 1 \in DOMAIN packages
           /\ NextPackage \in Found /\ NextPackage = packages[written + 1]
           /\ OutFile[NextPackage] \in OutFiles
  <2>1. Len(packages) \in Nat /\ DOMAIN packages = 1 .. Len(packages)
    BY LenProperties
  <2>2. \A i \in 1 .. Len(packages) : packages[i] \in Found
    BY ElementOfSeq
  <2>3. \A t \in Found : OutFile[t] \in OutFiles
    BY FoundDirs
  <2>4. \A i \in 1 .. written : i \in DOMAIN packages
    <3>1. built \in 0 .. Len(packages) /\ written \in 0 .. built
      OBVIOUS
    <3> HIDE DEF IInv
    <3> QED  BY <2>1, <3>1
  <2>5. stage = "write" /\ written < built => written + 1 \in DOMAIN packages
    BY <2>1
  <2> QED  BY <2>1, <2>2, <2>3, <2>4, <2>5 DEF NextPackage
<1>1. CASE Write
  <2> USE <1>1 DEF Write
  <2>1. TypeOK'
    <3>1. files' \in [OutFiles -> Found \cup {NoFile, Old, Torn}]
      BY <1>0
    <3> QED  BY <3>1, <1>0
  <2>2. PrimaryFirst' /\ MainKnows' /\ VerdictsLogged' /\ Accounted' /\ BasePathSet'
    BY <1>0 DEF PrimaryFirst
  <2>3. LoggedLate'
    BY <1>0
  <2>4. LastWritten'
    <3> SUFFICES ASSUME NEW f \in OutFiles
                 PROVE  \/ WrittenTo(f)' = {} /\ files'[f] \in {NoFile, Old}
                        \/ \E i \in WrittenTo(f)' : /\ files'[f] = packages[i]
                                                   /\ \A j \in WrittenTo(f)' : j <= i
      BY DEF LastWritten
    <3>1. CASE f = OutFile[NextPackage]
      <4>1. written + 1 \in WrittenTo(f)' /\ \A j \in WrittenTo(f)' : j <= written + 1
        BY <1>0, <3>1 DEF WrittenTo
      <4>2. files'[f] = packages[written + 1]
        BY <1>0, <3>1
      <4> QED  BY <4>1, <4>2
    <3>2. CASE f # OutFile[NextPackage]
      <4>1. WrittenTo(f)' = WrittenTo(f)
        BY <1>0, <3>2 DEF WrittenTo
      <4>2. files'[f] = files[f]
        BY <3>2
      <4> QED  BY <4>1, <4>2 DEF LastWritten
    <3> QED  BY <3>1, <3>2
  <2> QED  BY <2>1, <2>2, <2>3, <2>4
<1>2. CASE WriteFails
  <2> USE <1>2 DEF WriteFails, AfterFailure
  <2>1. TypeOK'
    <3>1. files' \in [OutFiles -> Found \cup {NoFile, Old, Torn}]
      BY <1>0
    <3> QED  BY <3>1, <1>0
  <2>2. PrimaryFirst' /\ MainKnows' /\ VerdictsLogged' /\ BasePathSet'
    BY <1>0 DEF PrimaryFirst
  <2>3. Accounted'
    BY <1>0
  <2>4. LoggedLate'
    <3>1. \A i \in 1 .. written : packages[i] # NextPackage
      BY <1>0
    <3> QED  BY <1>0, <3>1
  <2>5. LastWritten'
    <3> SUFFICES ASSUME NEW f \in OutFiles
                 PROVE  \/ files'[f] = Torn
                        \/ WrittenTo(f) = {} /\ files'[f] \in {NoFile, Old}
                        \/ \E i \in WrittenTo(f) : /\ files'[f] = packages[i]
                                                  /\ \A j \in WrittenTo(f) : j <= i
      BY <1>0 DEF LastWritten, WrittenTo
    <3>1. files'[f] \in {files[f], Torn}
      BY <1>0
    <3> QED  BY <3>1 DEF LastWritten
  <2> QED  BY <2>1, <2>2, <2>3, <2>4, <2>5
<1>3. CASE WritesDone
  BY <1>3, <1>0 DEF WritesDone, PrimaryFirst, LastWritten, WrittenTo
<1> QED  BY <1>1, <1>2, <1>3

LEMMA NextIInv ==
  ASSUME IInv, [Next]_vars
  PROVE  IInv'
<1>1. CASE GeneratorsEnd \/ \E d \in DirIds : Generate(d)
  BY <1>1, GenerateIInv
<1>2. CASE Compiled \/ WalkFails \/ \E t \in Found : Decide(t)
  BY <1>2, CompileIInv
<1>3. CASE Loaded \/ \E t \in Found : Load(t) \/ LoadFails(t)
  BY <1>3, LoadIInv
<1>4. CASE UseTemplates \/ Build \/ BuildFails \/ BuildPanics \/ BuildsDone
  BY <1>4, BuildIInv
<1>5. CASE Write \/ WriteFails \/ WritesDone
  BY <1>5, WriteIInv
<1>6. CASE UNCHANGED vars
  <2> USE <1>6 DEF vars, templateVars, IInv
  <2>1. TypeOK'
    BY DEF TypeOK, Compile!TypeOK, Template!TypeOK
  <2>2. PrimaryFirst' /\ MainKnows' /\ VerdictsLogged' /\ Accounted' /\ LoggedLate'
    BY DEF PrimaryFirst, MainKnows, Untouched, VerdictsLogged, Accounted, LoggedLate
  <2>3. LastWritten' /\ BasePathSet'
    BY DEF LastWritten, WrittenTo, BasePathSet
  <2> QED  BY <2>1, <2>2, <2>3
<1> QED  BY <1>1, <1>2, <1>3, <1>4, <1>5, <1>6 DEF Next, Steps, Terminated

-------------------------------------------------------------------------------
(* Theorems *)

(* The parts of IInv hold in every state of every run. *)
THEOREM Invariance == Spec => []IInv
<1>1. Init => IInv                    BY InitIInv
<1>2. IInv /\ [Next]_vars => IInv'    BY NextIInv
<1> QED  BY <1>1, <1>2, PTL DEF Spec

(* Every variable keeps its type: in particular no step reads a builder that *)
(* is not there (builder.go:50-67), and no more is written than was built.   *)
THEOREM TypeCorrect == Spec => []TypeOK
<1>1. IInv => TypeOK  BY DEF IInv
<1> QED  BY <1>1, Invariance, PTL

(* main.go:297-309: the generators under internal and pkg run before any     *)
(* other, whatever directories there are and in whatever order they are      *)
(* walked.                                                                   *)
THEOREM PrimaryGeneratorsFirst == Spec => []PrimaryFirst
<1>1. IInv => PrimaryFirst  BY DEF IInv
<1> QED  BY <1>1, Invariance, PTL

(* No file is touched before every builder loaded has built                  *)
(* (builder.go:50-82).                                                       *)
THEOREM BuildsBeforeWrites == Spec => []AllOrNothing
<1>1. IInv => AllOrNothing
  <2> SUFFICES ASSUME IInv, built # Len(packages)
               PROVE  \A f \in OutFiles : files[f] \in {NoFile, Old}
    BY DEF AllOrNothing
  <2>1. built < Len(packages)
    BY LenProperties DEF IInv, TypeOK
  <2> QED  BY <2>1 DEF IInv, MainKnows, Untouched
<1> QED  BY <1>1, Invariance, PTL

(* A composition with an error, wherever it met it, has no file of this run, *)
(* however many compositions share a file.                                   *)
THEOREM NoFileWithAnError == Spec => []ErrorsAreNotWritten
<1>1. IInv => ErrorsAreNotWritten
  <2> SUFFICES ASSUME IInv, NEW t \in logged, NEW f \in OutFiles, files[f] = t
               PROVE  FALSE
    BY DEF ErrorsAreNotWritten
  <2>1. t \notin {NoFile, Old, Torn}
    BY FoundDirs DEF IInv, TypeOK
  <2>2. PICK i \in WrittenTo(f) : files[f] = packages[i]
    BY <2>1 DEF IInv, LastWritten
  <2>3. i \in 1 .. written /\ packages[i] \in logged
    BY <2>2 DEF WrittenTo
  <2> QED  BY <2>3 DEF IInv, LoggedLate
<1> QED  BY <1>1, Invariance, PTL

(* The run accounts for every composition it found, and a file several of    *)
(* them share holds the one loaded last (main.go:336-342, writer.go:55-69).  *)
THEOREM AllAccounted == Spec => []EveryCompositionAccounted
<1>1. IInv => EveryCompositionAccounted
  <2> SUFFICES ASSUME IInv, stage = "exit", written = Len(packages)
               PROVE  /\ ToSet(packages) = Found \ logged
                      /\ \A f \in OutFiles :
                           LET writers == {i \in DOMAIN packages : OutFile[packages[i]] = f}
                           IN  IF writers = {} THEN files[f] \in {NoFile, Old}
                                               ELSE files[f] = packages[Max(writers)]
    BY DEF EveryCompositionAccounted
  <2>1. Len(packages) \in Nat /\ DOMAIN packages = 1 .. Len(packages)
    BY LenProperties DEF IInv, TypeOK
  <2>2. ToSet(packages) = Found \ logged
    <3>1. Found = ToSet(packages) \cup logged
      BY DEF IInv, MainKnows, Accounted
    <3>2. ToSet(packages) \cap logged = {}
      BY <2>1 DEF IInv, LoggedLate, ToSet
    <3> QED  BY <3>1, <3>2
  <2>3. ASSUME NEW f \in OutFiles
        PROVE  IF WrittenTo(f) = {} THEN files[f] \in {NoFile, Old}
                                    ELSE files[f] = packages[Max(WrittenTo(f))]
    <3>1. CASE WrittenTo(f) = {}
      BY <2>1, <3>1 DEF IInv, LastWritten
    <3>2. CASE WrittenTo(f) # {}
      <4>1. PICK i \in WrittenTo(f) : files[f] = packages[i] /\ \A j \in WrittenTo(f) : j <= i
        BY <2>1, <3>2 DEF IInv, LastWritten
      <4>2. \A j \in WrittenTo(f) : (\A k \in WrittenTo(f) : j >= k) => j = i
        BY <4>1, <2>1 DEF WrittenTo
      <4>3. Max(WrittenTo(f)) = i
        BY <4>1, <4>2, <2>1 DEF Max, WrittenTo
      <4> QED  BY <3>2, <4>1, <4>3
    <3> QED  BY <3>1, <3>2
  <2> QED  BY <2>1, <2>2, <2>3 DEF WrittenTo
<1> QED  BY <1>1, Invariance, PTL

(* README.md:54-57, templates.go: a builder that sets its own base path gets *)
(* its own templates, whatever the other plugins did to the two globals.     *)
THEOREM BuildersGetTheirOwn == Spec => []OwnTemplates
<1>1. IInv => OwnTemplates  BY DEF IInv, BasePathSet, OwnTemplates
<1> QED  BY <1>1, Invariance, PTL

-------------------------------------------------------------------------------
(* Refinement *)

(* A sequence without repetitions is an order of the set of its elements. *)
LEMMA OrderOfElements ==
  ASSUME NEW S, NEW s \in Seq(S), \A i, j \in DOMAIN s : s[i] = s[j] => i = j
  PROVE  s \in SetToSeqs(ToSet(s))
<1>1. Len(s) \in Nat /\ DOMAIN s = 1 .. Len(s) /\ s \in [1 .. Len(s) -> ToSet(s)]
  BY LenProperties DEF ToSet
<1>2. IsFiniteSet(1 .. Len(s)) /\ Cardinality(1 .. Len(s)) = Len(s)
  BY <1>1, FS_Interval
<1>3. s \in Bijection(1 .. Len(s), ToSet(s))
  <2>1. s \in Injection(1 .. Len(s), ToSet(s))
    BY <1>1 DEF Injection, IsInjective
  <2>2. s \in Surjection(1 .. Len(s), ToSet(s))
    BY <1>1 DEF Surjection, ToSet
  <2> QED  BY <2>1, <2>2 DEF Bijection
<1>4. Cardinality(ToSet(s)) = Len(s)
  BY <1>2, <1>3, FS_Bijection DEF ExistsBijection
<1> QED  BY <1>1, <1>4 DEF SetToSeqs

LEMMA PublishInit == Init => Published!Init
  BY DEF Init, Published!Init, publishPhase, publishTodo, OutFiles

(* While main prepares, a step logs errors of compositions that had none, or *)
(* nothing that Publish knows of.                                            *)
LEMMA PrepareStep ==
  ASSUME IInv,
         \/ GeneratorsEnd \/ Compiled \/ WalkFails \/ Loaded \/ UseTemplates \/ Build
         \/ \E d \in DirIds : Generate(d)
         \/ \E t \in Found : Decide(t) \/ Load(t) \/ LoadFails(t)
  PROVE  Published!Fail \/ UNCHANGED Published!vars
<1> USE DEF Published!vars, publishPhase, publishTodo, compileVars, runnerVars, templateVars
<1>1. ASSUME NEW t \in Found, Decide(t)
      PROVE  Published!Fail \/ UNCHANGED Published!vars
  <2>1. stage = "compile" /\ t \notin logged
    BY <1>1 DEF Decide, Compile!Decide, IInv, VerdictsLogged
  <2>2. logged' = logged \/ logged' = logged \cup {t}
    BY <1>1 DEF Decide
  <2> QED  BY <1>1, <2>1, <2>2 DEF Decide, Published!Fail
<1>2. ASSUME NEW t \in Found, LoadFails(t)
      PROVE  Published!Fail
  <2>1. t \notin logged
    BY <1>2 DEF LoadFails, IInv, Accounted
  <2>2. {t} \in SUBSET (Found \ logged)
    BY <2>1
  <2> QED  BY <1>2, <2>2 DEF LoadFails, Published!Fail
<1>3. CASE WalkFails
  <2>1. Found \ logged \in SUBSET (Found \ logged) /\ logged' = logged \cup (Found \ logged)
    BY <1>3 DEF WalkFails, IInv, TypeOK
  <2> QED  BY <1>3, <2>1 DEF WalkFails, Published!Fail
<1>4. CASE GeneratorsEnd \/ \E d \in DirIds : Generate(d)
  BY <1>4 DEF GeneratorsEnd, Generate
<1>5. CASE Compiled \/ Loaded \/ \E t \in Found : Load(t)
  BY <1>5 DEF Compiled, Loaded, Load
<1>6. CASE UseTemplates \/ Build
  BY <1>6 DEF UseTemplates, Build
<1> QED  BY <1>1, <1>2, <1>3, <1>4, <1>5, <1>6

(* Runner.Build commits to the builders loaded once the last one has built,  *)
(* or the run ends there.                                                    *)
LEMMA CommitStep ==
  ASSUME IInv, BuildFails \/ BuildPanics \/ BuildsDone
  PROVE  Published!Abort \/ Published!Commit
<1> USE DEF publishPhase, publishTodo, compileVars, runnerVars, templateVars
<1>0. /\ Len(packages) \in Nat /\ DOMAIN packages = 1 .. Len(packages)
      /\ packages \in Seq(Found)
      /\ built \in 0 .. Len(packages)
  BY LenProperties DEF IInv, TypeOK
<1>1. CASE BuildFails
  <2>1. packages[built + 1] \in Found
    BY <1>0, <1>1, ElementOfSeq DEF BuildFails
  <2> QED  BY <1>1, <2>1 DEF BuildFails, Published!Abort
<1>2. CASE BuildPanics
  <2>1. PICK t \in Found : t = packages[built + 1]
    BY <1>0, <1>2, ElementOfSeq DEF BuildPanics
  <2> QED  BY <1>2 DEF BuildPanics, Published!Abort
<1>3. CASE BuildsDone
  <2>1. ToSet(packages) = Found \ logged
    <3>1. Found = ToSet(packages) \cup logged
      BY <1>3 DEF BuildsDone, IInv, MainKnows, Accounted
    <3>2. ToSet(packages) \cap logged = {}
      BY <1>3 DEF BuildsDone, IInv, LoggedLate, ToSet
    <3> QED  BY <3>1, <3>2
  <2>2. packages \in SetToSeqs(Found \ logged)
    BY <1>0, <2>1, OrderOfElements DEF IInv, Accounted
  <2>3. publishTodo' = packages
    <3>1. written = 0 /\ built = Len(packages)
      BY <1>3 DEF BuildsDone, AllBuilt, IInv, MainKnows
    <3>2. publishTodo' = SubSeq(packages, 1, Len(packages))
      BY <1>3, <3>1 DEF BuildsDone
    <3> QED  BY <1>0, <3>2, SubSeqFull
  <2> HIDE DEF publishTodo
  <2>4. publishTodo' \in Published!SetToSeqs(Found \ logged)
    <3>1. Published!Cardinality(Found \ logged) = Cardinality(Found \ logged)
      BY DEF Cardinality, Published!Cardinality
    <3> QED  BY <2>2, <2>3, <3>1 DEF SetToSeqs, Published!SetToSeqs
  <2>5. publishPhase = "prepare" /\ publishPhase' = "write"
    BY <1>3 DEF BuildsDone
  <2>6. UNCHANGED <<files, logged>>
    BY <1>3 DEF BuildsDone
  <2> HIDE DEF publishPhase
  <2> QED  BY <2>4, <2>5, <2>6 DEF Published!Commit
<1> QED  BY <1>1, <1>2, <1>3

(* Each file is put in turn; the first that fails ends the run. *)
LEMMA WriteStep ==
  ASSUME IInv, Write \/ WriteFails \/ WritesDone
  PROVE  Published!Put \/ Published!PutFails \/ Published!Finish
<1> USE DEF publishPhase, compileVars, runnerVars, templateVars
<1>0. /\ Len(packages) \in Nat /\ packages \in Seq(Found)
      /\ stage = "write" => built = Len(packages)
      /\ written \in 0 .. built
  BY LenProperties DEF IInv, TypeOK, MainKnows
<1>1. ASSUME stage = "write", written < built
      PROVE  /\ publishTodo # << >>
             /\ Head(publishTodo) = NextPackage
             /\ Tail(publishTodo) = SubSeq(packages, written + 2, built)
  <2>1. written + 1 \in 1 .. Len(packages) /\ built \in written + 1 .. Len(packages)
    BY <1>0, <1>1
  <2>2. /\ Head(SubSeq(packages, written + 1, built)) = packages[written + 1]
        /\ Tail(SubSeq(packages, written + 1, built)) = SubSeq(packages, written + 1 + 1, built)
    BY <1>0, <2>1, HeadTailOfSubSeq
  <2>3. Len(SubSeq(packages, written + 1, built)) = built - (written + 1) + 1
    <3>1. \A i \in written + 1 .. built : packages[i] \in Found
      BY <1>0, <1>1, ElementOfSeq
    <3> QED  BY <1>0, <1>1, <3>1, SubSeqProperties
  <2>4. SubSeq(packages, written + 1, built) # << >>
    <3>1. Len(<< >>) = 0 /\ built - (written + 1) + 1 # 0
      BY <1>0, <1>1
    <3> QED  BY <2>3, <3>1
  <2>5. written + 1 + 1 = written + 2
    BY <1>0
  <2> QED  BY <1>1, <2>2, <2>4, <2>5 DEF publishTodo, NextPackage
<1>2. CASE Write
  <2>1. publishTodo' = Tail(publishTodo)
    <3>1. written + 1 + 1 = written + 2
      BY <1>0
    <3>2. publishTodo' = SubSeq(packages, written + 1 + 1, built)
      BY <1>2 DEF Write, publishTodo
    <3> QED  BY <1>1, <1>2, <3>1, <3>2 DEF Write
  <2> QED  BY <1>1, <1>2, <2>1 DEF Write, Published!Put
<1>3. CASE WriteFails
  <2>1. publishTodo' = << >>
    BY <1>3 DEF WriteFails, AfterFailure, publishTodo
  <2> QED  BY <1>1, <1>3, <2>1 DEF WriteFails, AfterFailure, Published!PutFails
<1>4. CASE WritesDone
  <2>1. publishTodo = << >>
    BY <1>0, <1>4, SubSeqEmpty DEF WritesDone, publishTodo
  <2>2. publishTodo' = << >>
    BY <1>4 DEF WritesDone, publishTodo
  <2> QED  BY <1>4, <2>1, <2>2 DEF WritesDone, Published!Finish
<1> QED  BY <1>2, <1>3, <1>4

(* Publish: xrc-gen prepares all compositions, then commits to those that    *)
(* did not fail, and writes them one by one (main.go:118-158,                *)
(* builder.go:47-84).                                                        *)
THEOREM Implementation == Spec => ImplementsPublish
<1>1. Init => Published!Init
  BY PublishInit
<1>2. IInv /\ [Next]_vars => [Published!Next]_(Published!vars)
  <2> SUFFICES ASSUME IInv, [Next]_vars
               PROVE  Published!Next \/ UNCHANGED Published!vars
    OBVIOUS
  <2>1. CASE \/ GeneratorsEnd \/ Compiled \/ WalkFails \/ Loaded \/ UseTemplates \/ Build
             \/ \E d \in DirIds : Generate(d)
             \/ \E t \in Found : Decide(t) \/ Load(t) \/ LoadFails(t)
    BY <2>1, PrepareStep DEF Published!Next
  <2>2. CASE BuildFails \/ BuildPanics \/ BuildsDone
    BY <2>2, CommitStep DEF Published!Next
  <2>3. CASE Write \/ WriteFails \/ WritesDone
    BY <2>3, WriteStep DEF Published!Next
  <2>4. CASE UNCHANGED vars
    BY <2>4 DEF vars, Published!vars, publishPhase, publishTodo
  <2> QED  BY <2>1, <2>2, <2>3, <2>4 DEF Next, Steps, Terminated
<1> QED  BY <1>1, <1>2, Invariance, PTL DEF Spec, Published!Spec, ImplementsPublish

===============================================================================
