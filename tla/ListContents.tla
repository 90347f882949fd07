----------------------------- MODULE ListContents -----------------------------
(***************************************************************************)
(* What the lists of adt/LinkedList.hpp and adt/CircularList.hpp promise:  *)
(* several lists, each a sequence of items.  An item has one pair of links *)
(* and so is in one list at most, and there once.                          *)
(***************************************************************************)
EXTENDS Integers, Sequences

CONSTANTS
  Item,            \* the objects with links
  List,            \* the list objects
  Null             \* the null pointer

ASSUME PointerAssumption ==
  /\ Item \cap List = {}
  /\ Null \notin Item \cup List

(* s is put behind the first k elements of c.                              *)
Insert(c, k, s) ==
  [i \in 1..(Len(c) + Len(s)) |->
     IF i <= k THEN c[i] ELSE IF i <= k + Len(s) THEN s[i - k] ELSE c[i - Len(s)]]

(* c without its element k                                                 *)
Without(c, k) == [i \in 1..(Len(c) - 1) |-> IF i < k THEN c[i] ELSE c[i + 1]]

(* Element i of c; e is what an iterator holds before the first and behind *)
(* the last one.                                                           *)
At(c, i, e) == IF i \in 1..Len(c) THEN c[i] ELSE e

Contents == [List -> Seq(Item)]

(* All elements of all lists differ.                                       *)
Apart(contents) ==
  \A l, m \in List : \A i \in 1..Len(contents[l]), j \in 1..Len(contents[m]) :
    contents[l][i] = contents[m][j] => l = m /\ i = j

Elements(contents, l) == {contents[l][i] : i \in 1..Len(contents[l])}

Free(contents) == {x \in Item : \A l \in List : x \notin Elements(contents, l)}

===============================================================================
