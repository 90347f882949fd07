------------------------------- MODULE MCLists --------------------------------
(* Lists with items and lists that are alike.                              *)
EXTENDS Lists, TLC

Symmetry == Permutations(Item) \cup Permutations(List)
===============================================================================
