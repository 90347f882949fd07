---------------------------- MODULE MCUTF8Decoder -----------------------------
(* UTF8Decoder on the texts of at most three pieces: characters of every      *)
(* length at the limits of their ranges, and every kind of ill-formed one.   *)
EXTENDS UTF8Decoder

Characters ==
  { <<65>>, <<127>>,
    <<194, 128>>, <<223, 191>>,
    <<224, 160, 128>>, <<237, 159, 191>>, <<238, 128, 128>>, <<239, 191, 191>>,
    <<240, 144, 128, 128>>, <<244, 143, 191, 191>> }

Malformed ==
  { <<192, 128>>,            \* not the shortest encoding
    <<224, 159, 191>>,
    <<240, 143, 191, 191>>,
    <<237, 160, 128>>,       \* surrogates
    <<237, 191, 191>>,
    <<244, 144, 128, 128>>,  \* beyond the last code point
    <<195>>,                 \* cut off
    <<230, 151>>,
    <<240, 163, 142>>,
    <<226, 130, 65>>,        \* the last byte does not continue the character
    <<128>>,                 \* cannot lead
    <<248>> }

Pieces == Characters \cup Malformed

Text1 == Pieces \cup {<<>>}
MCSource == {p \o q \o r : p, q, r \in Text1}
===============================================================================
