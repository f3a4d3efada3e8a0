---------------------------- MODULE MCTargetGen ----------------------------
(***************************************************************************)
(* All programs of a few statements, from the text to the instructions.    *)
(***************************************************************************)
EXTENDS TargetGen

=============================================================================
