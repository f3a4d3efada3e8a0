--------------------------- MODULE MCSymbolTable ---------------------------
(* Small instances of SymbolTable for TLC. *)
EXTENDS SymbolTable, TLC

NameSymmetry == Permutations(Names)

=============================================================================
