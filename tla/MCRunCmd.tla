------------------------------- MODULE MCRunCmd --------------------------------
(* Instances of RunCmd for TLC: the cfg chooses the number of ticks. *)
EXTENDS RunCmd
===============================================================================
