----------------------------- MODULE LexicalGrammar ---------------------------
(***************************************************************************)
(* The lexical syntax that the lexer is there to read: the lexemes as sets *)
(* of texts, and a text as a sequence of longest lexemes.  No position is  *)
(* stepped through, no character is looked at twice for want of a buffer.  *)
(***************************************************************************)
EXTENDS Integers, SequencesExt

CONSTANTS Code, IntegerLimit

Blank == {"LF", "SP", "HT"}
Delimiting == Blank \cup {"(", ")", "[", "]", "\"", ";", "#"}
Letter == {"a", "b", "e", "f", "n", "p", "t", "u", "x", "B", "E", "F", "P", "T", "U", "X"}
Digit == {"0", "1", "7", "9"}
NameChar == Letter \cup Digit \cup {"!", "_", "+", "-", ".", "@", "/", "*"}
HexDigit == Digit \cup {"a", "b", "e", "f", "B", "E", "F"}

All(s, S) == \A i \in 1..Len(s) : s[i] \in S
Has(s, S) == \E i \in 1..Len(s) : s[i] \in S
From(s, i) == SubSeq(s, i, Len(s))
Begins(s, p) == IsPrefix(p, s)
Ends(s, p) == IsSuffix(p, s)
Inner(s, n) == SubSeq(s, n + 1, Len(s) - 1)

(* Line ends of every kind are one LF.                                     *)
OneLineEnd(t) ==
  LET kept == SelectSeq([i \in 1..Len(t) |-> i],
                        LAMBDA i : ~(t[i] = "LF" /\ i > 1 /\ t[i - 1] = "CR"))
  IN  [k \in 1..Len(kept) |-> IF t[kept[k]] \in {"CR", "NEL"} THEN "LF" ELSE t[kept[k]]]

(* s cut into the longest pieces that are parts, as far as that goes       *)
Pieces(s, IsPart(_)) ==
  LET longest(p) == CHOOSE n \in 0..(Len(s) - p) :
                      /\ n > 0 => IsPart(SubSeq(s, p + 1, p + n))
                      /\ \A k \in (n + 1)..(Len(s) - p) : ~IsPart(SubSeq(s, p + 1, p + k))
      cut[p \in 0..Len(s)] ==
        LET n == longest(p)
        IN  IF n = 0 THEN <<>> ELSE <<SubSeq(s, p + 1, p + n)>> \o cut[p + n]
  IN  cut[0]

MadeOf(s, IsPart(_)) == FlattenSeq(Pieces(s, IsPart)) = s

DigitValue(c) ==
  LET digits == <<"0", "1", "2", "3", "4", "5", "6", "7", "8", "9", "a", "b", "c", "d", "e", "f">>
      small == CASE c = "B" -> "b" [] c = "E" -> "e" [] c = "F" -> "f" [] OTHER -> c
  IN  (CHOOSE i \in 1..16 : digits[i] = small) - 1

Positional(s, base) ==
  LET upTo[k \in 0..Len(s)] == IF k = 0 THEN 0 ELSE upTo[k - 1] * base + DigitValue(s[k])
  IN  upTo[Len(s)]

-----------------------------------------------------------------------------
(* Escapes                                                                 *)
IsCodePointEscape(s) ==
  /\ (Begins(s, <<"\\", "u">>) /\ Len(s) = 6) \/ (Begins(s, <<"\\", "U">>) /\ Len(s) = 10)
  /\ All(From(s, 3), HexDigit)
  /\ Len(s) = 10 => All(SubSeq(s, 3, 4), {"0"})
  /\ LET cp == Positional(From(s, 3), 16)
     IN  cp < 1114112 /\ cp \notin 55296..57343

IsLineEscape(s) ==
  Len(s) >= 2 /\ s[1] = "\\" /\ All(Inner(s, 1), Blank \ {"LF"}) /\ s[Len(s)] = "LF"

IsByteEscape(s) ==
  /\ Len(s) >= 2 /\ s[1] = "\\"
  /\ \/ Len(s) = 2 /\ s[2] \in {"a", "b", "t", "n", "f", "\"", "\\"}
     \/ Len(s) <= 4 /\ All(From(s, 2), {"0", "1", "7"})
     \/ Len(s) = 4 /\ s[2] = "x" /\ All(From(s, 3), HexDigit)

IsPlain(s) == Len(s) = 1 /\ s[1] \notin {"\\", "\"", "LF"}
IsStringPart(s) ==
  IsPlain(s) \/ IsByteEscape(s) \/ IsLineEscape(s) \/ IsCodePointEscape(s)

(* What a part is worth.  In a string, a code point from 128 on is more    *)
(* than one byte: it is kept apart from the bytes.                         *)
Worth(s) ==
  CASE IsPlain(s) -> Code[s[1]]
    [] IsCodePointEscape(s) -> Positional(From(s, 3), 16)
    [] IsByteEscape(s) ->
         CASE s[2] = "x" -> Positional(From(s, 3), 16)
           [] s[2] \in {"0", "1", "7"} -> Positional(From(s, 2), 8) % 256
           [] s[2] = "a" -> 7 [] s[2] = "b" -> 8 [] s[2] = "t" -> 9 [] s[2] = "n" -> 10
           [] s[2] = "f" -> 12 [] OTHER -> Code[s[2]]

Stored(s) == LET w == Worth(s) IN IF w < 128 \/ IsByteEscape(s) THEN w ELSE w + 256

(* Strings and names are C strings: a NUL ends them.                       *)
Text(parts) ==
  LET kept == SelectSeq(parts, LAMBDA p : ~IsLineEscape(p))
      all == [k \in 1..Len(kept) |-> Stored(kept[k])]
      n == CHOOSE k \in 0..Len(all) :
             /\ \A j \in 1..k : all[j] # 0
             /\ k < Len(all) => all[k + 1] = 0
  IN  SubSeq(all, 1, n)

IsString(s) ==
  Len(s) >= 2 /\ s[1] = "\"" /\ s[Len(s)] = "\"" /\ MadeOf(Inner(s, 1), IsStringPart)

(* A character: one part, behind escaped line ends if any                  *)
CharacterParts(s) == SelectSeq(Pieces(Inner(s, 2), IsStringPart), LAMBDA p : ~IsLineEscape(p))
IsCharacter(s) ==
  /\ Len(s) >= 4 /\ Begins(s, <<"#", "\"">>) /\ s[Len(s)] = "\""
  /\ MadeOf(Inner(s, 2), IsStringPart) /\ Len(CharacterParts(s)) = 1

-----------------------------------------------------------------------------
(* Names                                                                   *)
IsNamePart(s) == (Len(s) = 1 /\ s[1] \in NameChar) \/ IsCodePointEscape(s)

IsName(s) ==
  /\ s # <<>> /\ s[1] \in (NameChar \ (Digit \cup {"@"})) \cup {"\\"}
  /\ All(s, NameChar) \/ (Contains(s, "\\") /\ MadeOf(s, IsNamePart))
  /\ \A i \in 2..Len(s) : ~(s[i - 1] = "*" /\ s[i] = "/")
  /\ ~Begins(s, <<"/", "/">>) /\ ~Begins(s, <<"/", "*">>)
  /\ s # <<".">>
  /\ Len(s) > 1 => /\ s[1] \in {"+", "-", "."} => s[2] \notin Digit
                   /\ s[1] \in {"+", "-"} => s[2] # "."

(* Numbers: a sign, a prefix, digits and underscores.                      *)
Unsigned(s) == IF Begins(s, <<"+">>) \/ Begins(s, <<"-">>) THEN From(s, 2) ELSE s

IsDigits(s, S) == All(s, S \cup {"_"}) /\ Has(s, S)
IsOctal(s) == Len(s) >= 2 /\ s[1] = "0" /\ s[2] \in {"0", "1", "7"}
IsPrefixed(s, letters) == Len(s) >= 2 /\ s[1] = "0" /\ s[2] \in letters

IntegerValue(s) ==
  LET u == Unsigned(s)
      digits(t) == SelectSeq(t, LAMBDA c : c # "_")
      size == CASE IsPrefixed(u, {"x", "X"}) -> Positional(digits(From(u, 3)), 16)
                [] IsPrefixed(u, {"b", "B"}) -> Positional(digits(From(u, 3)), 2)
                [] OTHER -> Positional(digits(u), 10)
  IN  IF s[1] = "-" THEN -size ELSE size

IsInteger(s) ==
  LET u == Unsigned(s)
  IN  /\ \/ u # <<>> /\ u[1] \in Digit /\ IsDigits(u, Digit) /\ ~IsOctal(u)
         \/ IsPrefixed(u, {"x", "X"}) /\ IsDigits(From(u, 3), HexDigit)
         \/ IsPrefixed(u, {"b", "B"}) /\ IsDigits(From(u, 3), {"0", "1"})
      /\ IntegerValue(s) \in -IntegerLimit..(IntegerLimit - 1)

(* The exponent, its letter included.  Its digits may be missing.          *)
IsExponent(s, letters) ==
  s # <<>> /\ s[1] \in letters /\ All(Unsigned(From(s, 2)), Digit \cup {"_"})

(* Digits with a point, or without if that may be                          *)
IsMantissa(s, S, pointed) ==
  \/ ~pointed /\ IsDigits(s, S)
  \/ \E i \in 1..Len(s) :
       /\ s[i] = "."
       /\ All(SubSeq(s, 1, i - 1), S \cup {"_"}) /\ All(From(s, i + 1), S \cup {"_"})
       /\ Has(s, S)

IsDecimalReal(s) ==
  LET u == Unsigned(s)
  IN  /\ s # <<>> /\ u # <<>> /\ u[1] \in Digit \cup {"."} /\ ~IsOctal(u)
      /\ (s = u /\ u[1] = ".") => Len(u) > 1 /\ u[2] \in Digit
      /\ \/ IsMantissa(u, Digit, TRUE)
         \/ \E i \in 2..Len(u) : /\ IsMantissa(SubSeq(u, 1, i - 1), Digit, FALSE)
                                 /\ IsExponent(From(u, i), {"e", "E"})

IsHexadecimalReal(s) ==
  LET u == Unsigned(s)
  IN  /\ IsPrefixed(u, {"x", "X"})
      /\ \E i \in 4..Len(u) : /\ IsMantissa(SubSeq(u, 3, i - 1), HexDigit, FALSE)
                              /\ IsExponent(From(u, i), {"p", "P"})

(* A real is known by its spelling, without what is there for the eye.     *)
Spelling(s) ==
  LET bare == SelectSeq(s, LAMBDA c : c \notin {"_", "+"})
      hex == IsHexadecimalReal(s)
      small(c) == CASE c = "X" -> "x" [] c = "P" -> "p" [] c = "E" /\ ~hex -> "e" [] OTHER -> c
  IN  [i \in 1..Len(bare) |-> Code[small(bare[i])]]

-----------------------------------------------------------------------------
(* Space and comments                                                      *)
IsLineComment(s) ==
  (Begins(s, <<";">>) \/ Begins(s, <<"/", "/">>)) /\ ~Has(s, {"LF"})

(* The parts of a nested comment are tokens, right or wrong: its end is    *)
(* not looked for in strings and line comments, its start not in names.    *)
Opens(s) == s = <<"/", "*">>
Closes(s) ==
  /\ Ends(s, <<"*", "/">>)
  /\ LET name == SubSeq(s, 1, Len(s) - 2)
     IN  name = <<>> \/ (IsName(name) /\ ~Begins(s, <<"/", "*">>))
IsCommentPart(s) ==
  \/ Len(s) = 1
  \/ Opens(s) \/ Closes(s) \/ IsLineComment(s) \/ IsName(s) \/ IsString(s)
  \/ Begins(s, <<"#">>) /\ Len(s) = 2
  \/ s[1] = "\"" /\ MadeOf(From(s, 2), IsStringPart)

IsNestedComment(s) ==
  /\ Len(s) >= 4 /\ Opens(SubSeq(s, 1, 2)) /\ Ends(s, <<"*", "/">>)
  /\ LET parts == Pieces(s, IsCommentPart)
         depth[k \in 0..Len(parts)] ==
           IF k = 0 THEN 0
           ELSE LET d == depth[k - 1]
                IN  d + (CASE Opens(parts[k]) -> 1 [] Closes(parts[k]) -> -1 [] OTHER -> 0)
     IN  \A k \in 1..Len(parts) : depth[k] = 0 <=> k = Len(parts)

IsSpace(s) == (Len(s) = 1 /\ s[1] \in Blank) \/ IsLineComment(s) \/ IsNestedComment(s)

Punctuation ==
  {<<c>> : c \in {"(", ")", "[", "]", "apostr", "accent", ","}} \cup {<<",", "@">>}
  \cup {<<"#", c>> : c \in {"(", "apostr", "accent", ",", ";"}} \cup {<<"#", ",", "@">>}

IsBool(s) == Len(s) = 2 /\ s[1] = "#" /\ s[2] \in {"t", "T", "f", "F"}

-----------------------------------------------------------------------------
IsReal(s) == IsDecimalReal(s) \/ IsHexadecimalReal(s)

(* Lexemes that only a delimiter, or the end, may follow                   *)
IsDelimited(s) ==
  \/ s = <<".">> \/ IsBool(s)
  \/ IsName(s) \/ IsInteger(s) \/ IsReal(s) \/ IsString(s) \/ IsCharacter(s)
IsLexeme(s) == IsSpace(s) \/ s \in Punctuation \/ IsDelimited(s)

Meaning(s) ==
  LET is(kind, value) == [kind |-> kind, value |-> value]
  IN  CASE s \in Punctuation \cup {<<".">>} -> is(s, <<>>)
        [] IsBool(s) -> is(<<"bool">>, <<IF s[2] \in {"t", "T"} THEN 1 ELSE 0>>)
        [] IsString(s) -> is(<<"string">>, Text(Pieces(Inner(s, 1), IsStringPart)))
        [] IsCharacter(s) -> is(<<"integer">>, <<Worth(CharacterParts(s)[1])>>)
        [] IsName(s) -> is(<<"symbol">>, Text(Pieces(s, IsNamePart)))
        [] IsInteger(s) -> is(<<"integer">>, <<IntegerValue(s)>>)
        [] IsReal(s) -> is(<<"real">>, Spelling(s))

(* The lexemes of t, and whether they are all of it and rightly separated  *)
Lexemes(t) == Pieces(OneLineEnd(t), IsLexeme)

IsRight(t) ==
  LET l == Lexemes(t)
  IN  /\ FlattenSeq(l) = OneLineEnd(t)
      /\ \A k \in 1..(Len(l) - 1) : IsDelimited(l[k]) => l[k + 1][1] \in Delimiting

(* The tokens of a right text, with the line and column they begin at      *)
Tokens(t) ==
  LET l == Lexemes(t)
      read(k) == FlattenSeq(SubSeq(l, 1, k - 1))
      line(k) == 1 + Len(SelectSeq(read(k), LAMBDA c : c = "LF"))
      column(k) == 1 + CHOOSE n \in 0..Len(read(k)) :
                         /\ ~Has(SubSeq(read(k), Len(read(k)) - n + 1, Len(read(k))), {"LF"})
                         /\ n < Len(read(k)) => read(k)[Len(read(k)) - n] = "LF"
      token(k) == LET m == Meaning(l[k])
                  IN  [kind |-> m.kind, value |-> m.value, line |-> line(k), column |-> column(k)]
      kept == SelectSeq([k \in 1..Len(l) |-> k], LAMBDA k : ~IsSpace(l[k]))
  IN  [i \in 1..Len(kept) |-> token(kept[i])]

===============================================================================
