------------------------------ MODULE LinkedList ------------------------------
(***************************************************************************)
(* LinkedList (adt/LinkedList.hpp), the list of expressions in the AST:    *)
(* links end in null pointers, the list holds the first and the last item. *)
(*                                                                         *)
(* "contents" is not in the code: it is what the calls so far have put     *)
(* into the lists.  "live" are the lists in use: copying a list copies its *)
(* two pointers only, and one of the two lists that share their items then *)
(* must be given up.                                                       *)
(*                                                                         *)
(* A definition marked "Faulty" is not part of the model: it is what a     *)
(* plausible slip would make of the one behind it.                         *)
(***************************************************************************)
EXTENDS ListContents

VARIABLES
  m_first, m_last,  \* of each list
  prev, next,       \* of each item
  contents, live

pointers == <<m_first, m_last, prev, next>>
vars == <<pointers, contents, live>>

Init ==
  /\ m_first = [l \in List |-> Null]
  /\ m_last = [l \in List |-> Null]
  /\ prev = [x \in Item |-> Null]
  /\ next = [x \in Item |-> Null]
  /\ contents = [l \in List |-> <<>>]
  /\ live = List

empty(l) == m_first[l] = Null

(* The iterators                                                           *)
begin(l) == m_first[l]
end == Null
Increment(p) == next[p]
Decrement(p) == prev[p]

-----------------------------------------------------------------------------
push_back(l, item) ==
  /\ prev' = [prev EXCEPT ![item] = m_last[l]]
  /\ next' = IF m_last[l] = Null THEN [next EXCEPT ![item] = Null]
             ELSE [next EXCEPT ![item] = Null, ![m_last[l]] = item]
  /\ m_first' = IF m_last[l] = Null THEN [m_first EXCEPT ![l] = item] ELSE m_first
  /\ m_last' = [m_last EXCEPT ![l] = item]

push_front(l, item) ==
  /\ prev' = IF empty(l) THEN [prev EXCEPT ![item] = Null]
             ELSE [prev EXCEPT ![item] = Null, ![m_first[l]] = item]
  /\ next' = [next EXCEPT ![item] = m_first[l]]
  /\ m_first' = [m_first EXCEPT ![l] = item]
  /\ m_last' = IF empty(l) THEN [m_last EXCEPT ![l] = item] ELSE m_last

(* Both insertAfter: of a chain of items, and of one item.                 *)
NextItem(l, after) == IF after = Null THEN m_first[l] ELSE next[after]

insertAfter(l, after, toInsertFirst, toInsertLast) ==
  LET nextItem == NextItem(l, after)
  IN  /\ prev' = IF nextItem = Null THEN [prev EXCEPT ![toInsertFirst] = after]
                 ELSE [prev EXCEPT ![toInsertFirst] = after, ![nextItem] = toInsertLast]
      /\ next' = IF after = Null THEN [next EXCEPT ![toInsertLast] = nextItem]
                 ELSE [next EXCEPT ![after] = toInsertFirst, ![toInsertLast] = nextItem]

FirstThen(l, after, toInsertFirst) == IF after = Null THEN toInsertFirst ELSE m_first[l]

LastThen(l, after, toInsertLast) ==
  IF NextItem(l, after) = Null THEN toInsertLast ELSE m_last[l]

-----------------------------------------------------------------------------
(* Calls.  Items that are inserted are in no list.                         *)
PushBack(l, item) ==
  /\ push_back(l, item)
  /\ contents' = [contents EXCEPT ![l] = Append(@, item)]
  /\ UNCHANGED live

PushFront(l, item) ==
  /\ push_front(l, item)
  /\ contents' = [contents EXCEPT ![l] = <<item>> \o @]
  /\ UNCHANGED live

(* Behind element k; at the front, if k is 0.                              *)
InsertAfter(l, k, item) ==
  LET after == At(contents[l], k, Null)
  IN  /\ insertAfter(l, after, item, item)
      /\ m_first' = [m_first EXCEPT ![l] = FirstThen(l, after, item)]
      /\ m_last' = [m_last EXCEPT ![l] = LastThen(l, after, item)]
      /\ contents' = [contents EXCEPT ![l] = Insert(@, k, <<item>>)]
      /\ UNCHANGED live

(* The constructor with an item.  Its assertion is FreeUnlinked.           *)
NewWith(l, item) ==
  /\ contents[l] = <<>>
  /\ m_first' = [m_first EXCEPT ![l] = item]
  /\ m_last' = [m_last EXCEPT ![l] = item]
  /\ prev' = [prev EXCEPT ![item] = Null]
  /\ next' = [next EXCEPT ![item] = Null]
  /\ contents' = [contents EXCEPT ![l] = <<item>>]
  /\ live' = live \cup {l}

destructiveAppend(l, lst) ==
  /\ IF empty(lst) THEN UNCHANGED <<pointers, contents>>
     ELSE /\ insertAfter(l, m_last[l], m_first[lst], m_last[lst])
          /\ m_first' = [m_first EXCEPT ![l] = FirstThen(l, m_last[l], m_first[lst]),
                                        ![lst] = Null]
          /\ m_last' = [m_last EXCEPT ![l] = LastThen(l, m_last[l], m_last[lst]),
                                      ![lst] = Null]
          /\ contents' = [contents EXCEPT ![l] = @ \o contents[lst], ![lst] = <<>>]
  /\ UNCHANGED live

(* The copy constructor and operator =                                     *)
Assign(l, from) ==
  /\ contents[l] = <<>>
  /\ m_first' = [m_first EXCEPT ![l] = m_first[from]]
  /\ m_last' = [m_last EXCEPT ![l] = m_last[from]]
  /\ contents' = [contents EXCEPT ![l] = contents[from], ![from] = <<>>]
  /\ live' = (live \cup {l}) \ (IF empty(from) THEN {} ELSE {from})
  /\ UNCHANGED <<prev, next>>

Next ==
  \/ \E l \in live, item \in Free(contents) :
       \/ PushBack(l, item)
       \/ PushFront(l, item)
       \/ \E k \in 0..Len(contents[l]) : InsertAfter(l, k, item)
  \/ \E l \in List, item \in Free(contents) : NewWith(l, item)
  \/ \E l, lst \in live : l # lst /\ destructiveAppend(l, lst)
  \/ \E l \in List, from \in live : l # from /\ Assign(l, from)

Spec == Init /\ [][Next]_vars

-----------------------------------------------------------------------------
TypeOK ==
  /\ m_first \in [List -> Item \cup {Null}]
  /\ m_last \in [List -> Item \cup {Null}]
  /\ prev \in [Item -> Item \cup {Null}]
  /\ next \in [Item -> Item \cup {Null}]
  /\ contents \in Contents
  /\ live \subseteq List

(* Whatever calls made a list, iterating from either end visits what they  *)
(* put into it, in order, and ends: the links and both ends of every list  *)
(* in use agree with its contents, the empty ones included.                *)
IteratesContents ==
  \A l \in live :
    /\ begin(l) = At(contents[l], 1, end)
    /\ m_last[l] = At(contents[l], Len(contents[l]), end)
    /\ \A i \in 1..Len(contents[l]) :
         /\ Increment(contents[l][i]) = At(contents[l], i + 1, end)
         /\ Decrement(contents[l][i]) = At(contents[l], i - 1, end)

(* The assertion of the constructor holds for every item in no list.       *)
FreeUnlinked == \A x \in Free(contents) : prev[x] = Null /\ next[x] = Null

===============================================================================
