--------------------------- MODULE MCBinaryFile ---------------------------
(***************************************************************************)
(* All texts of a few expressions, from the parser to the machine.         *)
(***************************************************************************)
EXTENDS BinaryFile

MCLiterals == {Num(1), Parens}

=============================================================================
