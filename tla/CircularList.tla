----------------------------- MODULE CircularList -----------------------------
(***************************************************************************)
(* CircularList (adt/CircularList.hpp), the list of the variables of a     *)
(* frame: a ring of links through the list's own, m_root.  A list object   *)
(* stands for its m_root.                                                  *)
(*                                                                         *)
(* "contents" is not in the code: it is what the calls so far have put     *)
(* into the lists and not removed.  "debug" is the build: NDEBUG is not    *)
(* defined.  A removed item loses its links in a debug build only.         *)
(*                                                                         *)
(* A definition marked "Faulty" is not part of the model: it is what a     *)
(* plausible slip would make of the one behind it.                         *)
(***************************************************************************)
EXTENDS ListContents

VARIABLES
  prev, next,      \* of each ListEntry
  contents,
  debug

vars == <<prev, next, contents, debug>>

ListEntry == Item \cup List

(* The constructor; items are made with debugClear.                        *)
Init ==
  /\ prev = [e \in ListEntry |-> IF e \in List THEN e ELSE Null]
  /\ next = [e \in ListEntry |-> IF e \in List THEN e ELSE Null]
  /\ contents = [l \in List |-> <<>>]
  /\ debug \in BOOLEAN

empty(l) == next[l] = l

(* The accessors: m_root is the null pointer to callers.                   *)
OrNull(l, e) == IF e = l THEN Null ELSE e
first(l) == OrNull(l, next[l])
last(l) == OrNull(l, prev[l])
NextOf(l, item) == OrNull(l, next[item])
PrevOf(l, item) == OrNull(l, prev[item])

(* The iterators, which do not stop at m_root                              *)
begin(l) == next[l]
end(l) == l
Increment(p) == next[p]
Decrement(p) == prev[p]

-----------------------------------------------------------------------------
(* insertAfterEntry with one entry.  Its assertion is FreeUnlinked.        *)
insertAfterEntry(after, entry) ==
  /\ next' = [next EXCEPT ![entry] = next[after], ![after] = entry]
  /\ prev' = [prev EXCEPT ![entry] = after, ![next[after]] = entry]

PushBack(l, item) ==
  /\ insertAfterEntry(prev[l], item)
  /\ contents' = [contents EXCEPT ![l] = Append(@, item)]
  /\ UNCHANGED debug

(* Behind element k; at the front, if k is 0.                              *)
InsertAfter(l, k, item) ==
  /\ insertAfterEntry(At(contents[l], k, l), item)
  /\ contents' = [contents EXCEPT ![l] = Insert(@, k, <<item>>)]
  /\ UNCHANGED debug

(* removeEntry; the links are cleared for the assertion of insertAfterEntry. *)
(* Faulty: they never are.                                                 *)
Kept(link) == link

Cleared(link) == IF debug THEN Null ELSE link

Remove(l, k) ==
  LET entry == contents[l][k]
  IN  /\ next' = [next EXCEPT ![prev[entry]] = next[entry], ![entry] = Cleared(@)]
      /\ prev' = [prev EXCEPT ![next[entry]] = prev[entry], ![entry] = Cleared(@)]
      /\ contents' = [contents EXCEPT ![l] = Without(@, k)]
      /\ UNCHANGED debug

(* Faulty: the other list keeps its ring.                                  *)
destructiveAppendToo(l, lst) ==
  LET after == prev[l]
  IN  /\ IF empty(lst) THEN UNCHANGED <<prev, next, contents>>
         ELSE /\ next' = [next EXCEPT ![prev[lst]] = next[after], ![after] = next[lst]]
              /\ prev' = [prev EXCEPT ![next[lst]] = after, ![next[after]] = prev[lst]]
              /\ contents' = [contents EXCEPT ![l] = @ \o contents[lst], ![lst] = <<>>]
      /\ UNCHANGED debug

(* ... with insertAfterEntry of several entries                            *)
destructiveAppend(l, lst) ==
  LET after == prev[l]
  IN  /\ IF empty(lst) THEN UNCHANGED <<prev, next, contents>>
         ELSE /\ next' = [next EXCEPT ![prev[lst]] = next[after], ![after] = next[lst],
                                      ![lst] = lst]
              /\ prev' = [prev EXCEPT ![next[lst]] = after, ![next[after]] = prev[lst],
                                      ![lst] = lst]
              /\ contents' = [contents EXCEPT ![l] = @ \o contents[lst], ![lst] = <<>>]
      /\ UNCHANGED debug

Next ==
  \/ \E l \in List, item \in Free(contents) :
       \/ PushBack(l, item)
       \/ \E k \in 0..Len(contents[l]) : InsertAfter(l, k, item)
  \/ \E l \in List : \E k \in 1..Len(contents[l]) : Remove(l, k)
  \/ \E l, lst \in List : l # lst /\ destructiveAppend(l, lst)

Spec == Init /\ [][Next]_vars

-----------------------------------------------------------------------------
TypeOK ==
  /\ prev \in [ListEntry -> ListEntry \cup {Null}]
  /\ next \in [ListEntry -> ListEntry \cup {Null}]
  /\ contents \in Contents
  /\ debug \in BOOLEAN

(* Whatever calls made a list, its ring is its contents and m_root:        *)
(* iterating from either end visits what was put into it and not removed,  *)
(* in order, and the accessors give null pointers at the ends only.        *)
RingIsContents ==
  \A l \in List :
    /\ begin(l) = At(contents[l], 1, end(l))
    /\ Decrement(end(l)) = At(contents[l], Len(contents[l]), end(l))
    /\ \A i \in 1..Len(contents[l]) :
         /\ Increment(contents[l][i]) = At(contents[l], i + 1, end(l))
         /\ Decrement(contents[l][i]) = At(contents[l], i - 1, end(l))
    /\ first(l) = At(contents[l], 1, Null)
    /\ last(l) = At(contents[l], Len(contents[l]), Null)
    /\ \A i \in 1..Len(contents[l]) :
         /\ NextOf(l, contents[l][i]) = At(contents[l], i + 1, Null)
         /\ PrevOf(l, contents[l][i]) = At(contents[l], i - 1, Null)

(* In a debug build every item in no list may be inserted: the assertion   *)
(* of insertAfterEntry holds for items that were removed, however the      *)
(* lists they were in have changed and been appended to others since.      *)
FreeUnlinked == debug => \A x \in Free(contents) : prev[x] = Null /\ next[x] = Null

===============================================================================
