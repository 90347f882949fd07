---------------------------- MODULE MCSyntaxReader ----------------------------
(* SyntaxReader on short sequences of tokens: all those of some kinds, of    *)
(* more kinds those whose brackets match, and longer lists and vectors.      *)
EXTENDS SyntaxReaderText

CONSTANTS
  MaxTokens, Kinds,                \* any sequence
  MaxBracketed, BracketedKinds,    \* sequences with matching brackets
  MaxParts,        \* between the brackets of a longer list or vector
  NestedComments   \* may a datum comment directly follow another's #; ?

Strings(kinds, max) == UNION {[1..n -> kinds] : n \in 0..max}

(* The brackets still open after the tokens of t up to n: "bad" once one   *)
(* was closed that was not open, or a dot was met within one.             *)
Brackets(t) ==
  LET open[n \in 0..Len(t)] ==
        IF n = 0 THEN <<>>
        ELSE LET o == open[n - 1]
             IN  IF o = <<"bad">> THEN o
                 ELSE IF t[n] \in Opening THEN Append(o, t[n])
                 ELSE IF t[n] \in {")", "]"}
                 THEN IF o # <<>> /\ Closing(o[Len(o)]) = t[n]
                      THEN SubSeq(o, 1, Len(o) - 1) ELSE <<"bad">>
                 ELSE IF t[n] = "." /\ \E i \in 1..Len(o) : o[i] = "#("
                 THEN <<"bad">>
                 ELSE o
  IN  open[Len(t)]

(* Data, commented data, dots and lists between brackets                     *)
Bracketed ==
  LET part == {<<"atom">>, <<"#;", "atom">>, <<".">>, <<"[", "]">>}
      parts[n \in 0..MaxParts] ==
        IF n = 0 THEN {<<>>} ELSE {s \o p : s \in parts[n - 1], p \in part}
  IN  {<<open>> \o s \o <<")">> : open \in {"(", "#("}, s \in UNION {parts[n] : n \in 1..MaxParts}}

MCSource ==
  {t \in Bracketed \cup Strings(Kinds, MaxTokens)
         \cup {t \in Strings(BracketedKinds, MaxBracketed) : Brackets(t) # <<"bad">>} :
     NestedComments \/ \A i \in 1..(Len(t) - 1) : ~(t[i] = "#;" /\ t[i + 1] = "#;")}

(* An invalid token is skipped (the comment "Skip invalid tokens",         *)
(* SyntaxReader.cpp:114): reading goes on behind it.                       *)
SkipsInvalidTokens ==
  \A p \in 1..MaxTokens : (pos = p /\ mode = "read" /\ tok \in Invalid) ~> (pos > p)
===============================================================================
