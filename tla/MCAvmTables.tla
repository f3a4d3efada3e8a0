---------------------------- MODULE MCAvmTables ----------------------------
(***************************************************************************)
(* Two cells of the stack, retval and two tables; hash keys 0 and 1 fall   *)
(* into the first and another bucket.                                      *)
(***************************************************************************)
EXTENDS AvmTables, TLC

CONSTANTS s1, s2, t1, t2, true

MCSymmetry == Permutations(Stack) \cup Permutations(Tables)

=============================================================================
