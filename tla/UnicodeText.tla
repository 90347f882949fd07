------------------------------ MODULE UnicodeText -----------------------------
(***************************************************************************)
(* What decoding UTF-8 promises: the code points of a sequence of bytes,   *)
(* by the table of well-formed byte sequences of the Unicode standard      *)
(* (table 3-7), with a replacement character for every ill-formed one.     *)
(* The lead byte alone says how many bytes are replaced.  No buffer, no    *)
(* bit operation is visible.                                               *)
(***************************************************************************)
EXTENDS Integers, Sequences

Replacement == 65533           \* U+FFFD
ScalarValue == (0..55295) \cup (57344..1114111)

Trail == 128..191

WellFormedRows ==
  { <<0..127>>,
    <<194..223, Trail>>,
    <<{224}, 160..191, Trail>>,
    <<(225..236) \cup {238, 239}, Trail, Trail>>,
    <<{237}, 128..159, Trail>>,
    <<{240}, 144..191, Trail, Trail>>,
    <<241..243, Trail, Trail, Trail>>,
    <<{244}, 128..143, Trail, Trail>> }

(* The bytes a lead byte announces, itself included.                       *)
Announced(lead) ==
  CASE lead \in 192..223 -> 2
    [] lead \in 224..239 -> 3
    [] lead \in 240..247 -> 4
    [] OTHER             -> 1

(* The code point of a well-formed sequence s: the bits of the lead byte   *)
(* below its marker, then six bits of every other byte.                    *)
CodePoint(s) ==
  CASE Len(s) = 1 -> s[1]
    [] Len(s) = 2 -> (s[1] - 192) * 64 + s[2] - 128
    [] Len(s) = 3 -> (s[1] - 224) * 4096 + (s[2] - 128) * 64 + s[3] - 128
    [] Len(s) = 4 -> (s[1] - 240) * 262144 + (s[2] - 128) * 4096
                       + (s[3] - 128) * 64 + s[4] - 128

WellFormed(s) ==
  \E row \in WellFormedRows :
    Len(row) = Len(s) /\ \A i \in DOMAIN s : s[i] \in row[i]

(* The offsets at which characters begin, and the number of characters.    *)
StartOf(bytes) ==
  LET start[k \in 0..Len(bytes)] ==
        IF k = 0 THEN 0
        ELSE LET p == start[k - 1]
             IN  IF p < Len(bytes) THEN p + Announced(bytes[p + 1]) ELSE p
  IN  start

CharCount(bytes) ==
  LET start == StartOf(bytes)
  IN  CHOOSE n \in 0..Len(bytes) :
        start[n] >= Len(bytes) /\ \A k \in 0..(n - 1) : start[k] < Len(bytes)

(* Character k of bytes; a sequence cut off by the end is ill-formed.      *)
BytesOfChar(bytes, k) ==
  LET p == StartOf(bytes)[k - 1]
  IN  SubSeq(bytes, p + 1,
             IF p + Announced(bytes[p + 1]) <= Len(bytes)
             THEN p + Announced(bytes[p + 1]) ELSE Len(bytes))

Decoding(bytes) ==
  [k \in 1..CharCount(bytes) |->
     LET s == BytesOfChar(bytes, k)
     IN  IF WellFormed(s) THEN CodePoint(s) ELSE Replacement]

(* The offsets of the ill-formed characters.                               *)
IllFormed(bytes) ==
  {StartOf(bytes)[k - 1] : k \in {j \in 1..CharCount(bytes) :
                                    ~WellFormed(BytesOfChar(bytes, j))}}

===============================================================================
