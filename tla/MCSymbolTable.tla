----------------------------- MODULE MCSymbolTable ----------------------------
(* SymbolTableRefinement on a small instance: names are interchangeable.     *)
EXTENDS SymbolTableRefinement, TLC

NameSymmetry == Permutations(Name)
===============================================================================
