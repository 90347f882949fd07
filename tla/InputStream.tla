------------------------------ MODULE InputStream -----------------------------
(***************************************************************************)
(* What an input promises its reader: the elements of the source, in order *)
(* and each once, with elements put back in front of the rest, and an      *)
(* offset that counts the elements taken.  No buffer is visible.           *)
(***************************************************************************)
EXTENDS Integers, Sequences

CONSTANTS
  Elem,        \* the elements of a source
  Source       \* the possible sources

VARIABLES
  rest,        \* what is still to be read
  offset,      \* elements taken, less those put back
  res          \* what the last call returned, <<>> for end of file

vars == <<rest, offset, res>>

Init ==
  /\ rest \in Source
  /\ offset = 0
  /\ res = <<>>

(* n elements are read; none at an end of file, which need not be final.   *)
Take(n) ==
  /\ res' = SubSeq(rest, 1, n)
  /\ rest' = SubSeq(rest, n + 1, Len(rest))
  /\ offset' = offset + n

(* The next element is looked at, or an end of file is met.                *)
Look(n) ==
  /\ res' = SubSeq(rest, 1, n)
  /\ UNCHANGED <<rest, offset>>

(* n elements that were looked at are skipped.                             *)
Skip(n) ==
  /\ rest' = SubSeq(rest, n + 1, Len(rest))
  /\ offset' = offset + n
  /\ UNCHANGED res

PutBack(x) ==
  /\ rest' = <<x>> \o rest
  /\ offset' = offset - 1
  /\ UNCHANGED res

Next ==
  \/ \E n \in 0..Len(rest) : Take(n) \/ Skip(n)
  \/ \E n \in {0, 1} : n <= Len(rest) /\ Look(n)
  \/ \E x \in Elem : PutBack(x)

Spec == Init /\ [][Next]_vars

===============================================================================
