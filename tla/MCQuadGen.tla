----------------------------- MODULE MCQuadGen -----------------------------
(***************************************************************************)
(* All programs of a few statements.                                       *)
(***************************************************************************)
EXTENDS QuadGen

=============================================================================
