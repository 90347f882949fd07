-------------------------------- MODULE Lists ---------------------------------
(***************************************************************************)
(* Both kinds of lists, one at a time: while one is used the other is in   *)
(* its initial state.                                                      *)
(***************************************************************************)
EXTENDS LinkedList

VARIABLES cPrev, cNext, cContents, cDebug

cVars == <<cPrev, cNext, cContents, cDebug>>

Circular == INSTANCE CircularList
  WITH prev <- cPrev, next <- cNext, contents <- cContents, debug <- cDebug

ListsInit == Init /\ Circular!Init

ListsNext ==
  \/ Circular!Init /\ Next /\ UNCHANGED cVars
  \/ Init /\ Circular!Next /\ UNCHANGED vars

ListsSpec == ListsInit /\ [][ListsNext]_<<vars, cVars>>

(* Whatever calls made a list of either kind, iterating over it from       *)
(* either end visits what was put into it and not removed, in order        *)
(* (see LinkedList and CircularList).                                      *)
ContentsAreIterated == IteratesContents /\ Circular!RingIsContents

(* The assertions of LinkedList's constructor and of CircularList's        *)
(* insertAfterEntry hold for every item in no list; the variables keep to  *)
(* their types.                                                            *)
AssertionsHold ==
  /\ FreeUnlinked /\ Circular!FreeUnlinked
  /\ TypeOK /\ Circular!TypeOK

===============================================================================
