------------------------------- MODULE Templates -------------------------------
(***************************************************************************)
(* The template functions of composition/build/templates.go. Their two     *)
(* variables are global: every plugin of a run shares them.                *)
(***************************************************************************)
EXTENDS Integers, Sequences

CONSTANTS
  Bases,        (* The directories of the compositions.                      *)
  NoBase,       (* TemplateBasePath is empty.                                *)
  Size,         (* Size[b]: how many templates there are under b; if none,   *)
                (* there is no directory for them.                           *)
  MaxAdded      (* Bound: AddTemplate is called while there are fewer.       *)

(* What a builder passes to LoadTemplate: the directory of its templates,    *)
(* with or without a "*" to be trimmed, or one of them.                      *)
Paths == {"directory", "file"}

VARIABLES
  TemplateBasePath,   (* Joined with the path to be loaded.                  *)
  templates,          (* The files of the last load, and those added since.  *)
  set,                (* Has the builder that runs set TemplateBasePath?     *)
  text                (* Its last load: the files whose text it got.         *)

templateVars == <<TemplateBasePath, templates, set, text>>

Files == (Bases \cup {NoBase}) \X (Nat \ {0})

TypeOK ==
  /\ TemplateBasePath \in Bases \cup {NoBase}
  /\ templates \in Seq(Files)
  /\ set \in BOOLEAN
  /\ text \in [own : BOOLEAN, path : Paths \cup {"none"}, files : Seq(Files)]

Nothing == [own |-> FALSE, path |-> "none", files |-> <<>>]

Init ==
  /\ TemplateBasePath = NoBase
  /\ templates = <<>>
  /\ set = FALSE
  /\ text = Nothing

(* The next builder runs. *)
NextBuilder ==
  /\ set' = FALSE /\ text' = Nothing
  /\ UNCHANGED <<TemplateBasePath, templates>>

(* Builder b passes on the path that was linked into it. *)
SetBasePath(b) ==
  /\ TemplateBasePath' = b
  /\ set' = TRUE
  /\ UNCHANGED <<templates, text>>

AddTemplate(b) ==
  /\ Len(templates) < MaxAdded
  /\ templates' = Append(templates, <<b, 1>>)
  /\ UNCHANGED <<TemplateBasePath, set, text>>

(* The files filepath.WalkDir visits below the base path, or the one file. *)
Named(b, p) ==
  IF p = "directory" THEN [k \in 1 .. Size[b] |-> <<b, k>>] ELSE << <<b, 1>> >>

Leftover == templates                             \* mutant: templates is not reset
Reset    == <<>>

LoadTemplate(p) ==
  /\ Size[TemplateBasePath] > 0
  /\ templates' = Reset \o Named(TemplateBasePath, p)
  /\ text' = [own |-> set, path |-> p, files |-> templates']
  /\ UNCHANGED <<TemplateBasePath, set>>

(* The walk, Stat or ReadFile fails at some file, at the first if there is   *)
(* nothing below the base path: the builder gets an error and no text.       *)
LoadTemplateFails(p) ==
  /\ \E k \in IF p = "directory" THEN 0 .. Size[TemplateBasePath] ELSE {1} :
       templates' = SubSeq(Named(TemplateBasePath, p), 1, k)
  /\ text' = Nothing
  /\ UNCHANGED <<TemplateBasePath, set>>

Calls(b) ==
  \/ SetBasePath(b) \/ AddTemplate(b)
  \/ \E p \in Paths : LoadTemplate(p) \/ LoadTemplateFails(p)

===============================================================================
