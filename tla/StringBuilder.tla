----------------------------- MODULE StringBuilder ----------------------------
(***************************************************************************)
(* What a collector of strings promises: the text put together so far, and *)
(* the strings made of it, which never change again.  No buffer is         *)
(* visible.                                                                *)
(***************************************************************************)
EXTENDS Sequences

CONSTANT Piece     \* what can be added at once

VARIABLES
  text,            \* what was appended since the last string or reset
  strings          \* the strings made, in order

Init ==
  /\ text = <<>>
  /\ strings = <<>>

Add(piece) ==
  /\ text' = text \o piece
  /\ UNCHANGED strings

Clear ==
  /\ text' = <<>>
  /\ UNCHANGED strings

Make ==
  /\ strings' = Append(strings, text)
  /\ text' = <<>>

Next ==
  \/ \E piece \in Piece : Add(piece)
  \/ Clear
  \/ Make

Spec == Init /\ [][Next]_<<text, strings>>

===============================================================================
