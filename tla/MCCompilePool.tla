---------------------------- MODULE MCCompilePool -----------------------------
(***************************************************************************)
(* Instances of CompilePool for TLC.                                       *)
(***************************************************************************)
EXTENDS CompilePool

CONSTANTS a, b, c

(* compositions a/b, a/c and b: three directories with distinct .so names *)
ThreePaths == << <<<<a>>, <<b>>>>, <<<<a>>, <<c>>>>, <<<<b>>>> >>
TwoPaths   == << <<<<a>>, <<b>>>>, <<<<b>>>> >>
NoPaths    == <<>>

===============================================================================
