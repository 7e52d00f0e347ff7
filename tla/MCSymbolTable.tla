--------------------------- MODULE MCSymbolTable ---------------------------
(* Small instance of SymbolTable.  Names, values and threads are alike; the *)
(* properties checked with the symmetry are all safety.                     *)
EXTENDS SymbolTable, TLC

Alike == Permutations(Name) \cup Permutations(Value) \cup Permutations(Thread)
=============================================================================
