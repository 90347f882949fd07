--------------------------------- MODULE Lexer --------------------------------
(***************************************************************************)
(* Lexer (parser/Lexer.{hpp,cpp}) between the decoder and a reader that    *)
(* takes tokens until the end of the file.                                 *)
(*                                                                         *)
(* The lexer looks at one character, m_curChar.  "scan" says which of its  *)
(* functions is at work; each action is a round of that function's loop,   *)
(* or the choice that it makes.  Nested comments are read as tokens: the   *)
(* loop of scanNestedComment is "level", its reporter that ignores errors  *)
(* is Report.                                                              *)
(*                                                                         *)
(* A character is named by a string.  m_strBuf holds bytes; a code point   *)
(* that takes several is kept in one piece (Unit).  Positions count        *)
(* characters, as m_decoder.offset() does.  Wording and coordinates of     *)
(* errors are left out.                                                    *)
(*                                                                         *)
(* A definition marked "Faulty" is not part of the model: it is what a     *)
(* plausible slip would make of the one behind it.                         *)
(***************************************************************************)
EXTENDS Integers, Sequences

CONSTANTS
  Source,          \* the possible texts: sequences of characters
  Code,            \* the code point of a character
  IntegerLimit     \* what int64_t holds is in -IntegerLimit..(IntegerLimit - 1)

Char == DOMAIN Code

ASSUME SourceAssumption == Source \subseteq Seq(Char)
ASSUME LimitAssumption == IntegerLimit \in Nat

VARIABLES
  text,            \* the characters of the file
  in,              \* where the lexer is: [offset, cur, line, lineOffset]
  scan,            \* the function at work
  at,              \* m_tokCoords: [line, column]
  num,             \* scanNumber's variables: [base, real, err, nnum, expo]
  strBuf,          \* the contents of m_strBuf
  level,           \* of nested comments, 0 outside
  tokens,          \* the tokens delivered: [kind, value, line, column]
  errors           \* errors reported

vars == <<text, in, scan, at, num, strBuf, level, tokens, errors>>

-----------------------------------------------------------------------------
(* Classes of characters                                                   *)
EOF == "eof"
LineEnd == {"LF", "CR", "NEL"}     \* NEL, as the separators of lines and paragraphs
Whitespace == {"LF", "SP", "HT"}
Delimiter == Whitespace \cup {"(", ")", "[", "]", "\"", ";", "#", EOF}
isAlpha == {"a", "b", "e", "f", "n", "p", "t", "u", "x", "B", "E", "F", "P", "T", "U", "X"}
Binary == {"0", "1"}
Octal == Binary \cup {"7"}
Decimal == Octal \cup {"9"}
SpecialInitial == {"!", "_"}
Subsequent == isAlpha \cup Decimal \cup SpecialInitial \cup {"+", "-", ".", "@", "/"}

(* isBaseDigit.  In base 16 it also takes some control characters; they    *)
(* are left out.                                                           *)
Hexadecimal == Decimal \cup {"a", "b", "e", "f", "B", "E", "F"}
Digits(base) == CASE base = 2 -> Binary [] base = 10 -> Decimal [] base = 16 -> Hexadecimal

(* ASCII: the digits, and the letters of hexadecimal ones.  The end of the *)
(* file is no character.                                                   *)
ASSUME CodeAssumption ==
  /\ \A c \in Char : Code[c] \in Nat
  /\ \A c \in Hexadecimal : Code[c] \in (48..57) \cup (65..70) \cup (97..102)
  /\ Hexadecimal \cup {"x", "p", "-", ".", "LF"} \subseteq Char
  /\ EOF \notin Char

(* The value of a digit, given by its code point                           *)
baseDigitToInt(cp) ==
  CASE cp <= 57 -> cp - 48 [] cp \in 58..96 -> cp - 55 [] cp > 96 -> cp - 87

NumberOf(digits, base) ==
  LET v[i \in 0..Len(digits)] ==
        IF i = 0 THEN 0 ELSE v[i - 1] * base + baseDigitToInt(digits[i])
  IN  v[Len(digits)]

(* One code point in m_strBuf.  encodeUTF8 is one-to-one.                  *)
Unit(cp) == IF cp < 128 THEN cp ELSE cp + 256

isValidCodePoint(cp) == cp <= 1114111 /\ ~(cp >= 55296 /\ cp <= 57343)

Space == 32

(* What a C string holds, and what it points to, up to the first NUL       *)
CString(s) ==
  LET bytes == Append(s, 0)
      nul == CHOOSE i \in 1..Len(bytes) : bytes[i] = 0 /\ \A j \in 1..(i - 1) : bytes[j] # 0
  IN  SubSeq(bytes, 1, nul - 1)

-----------------------------------------------------------------------------
(* nextChar, from r on.  All line ends are LF, CR LF is one.  Faulty: it   *)
(* counts as two.                                                          *)
nextCharApart(r) ==
  IF r.offset = Len(text) THEN [r EXCEPT !.cur = EOF]
  ELSE IF text[r.offset + 1] \in LineEnd
  THEN [offset |-> r.offset + 1, cur |-> "LF", line |-> r.line + 1, lineOffset |-> r.offset + 1]
  ELSE [r EXCEPT !.offset = @ + 1, !.cur = text[r.offset + 1]]

nextChar(r) ==
  IF r.offset = Len(text) THEN [r EXCEPT !.cur = EOF]
  ELSE LET c == text[r.offset + 1]
           pair == c = "CR" /\ r.offset + 2 <= Len(text) /\ text[r.offset + 2] = "LF"
           offset == r.offset + (IF pair THEN 2 ELSE 1)
       IN  IF c \in LineEnd
           THEN [offset |-> offset, cur |-> "LF", line |-> r.line + 1, lineOffset |-> offset]
           ELSE [r EXCEPT !.offset = offset, !.cur = c]

(* nextChar n times, over characters none of which ends a line             *)
Skip(r, n) == IF n = 0 THEN r ELSE nextChar([r EXCEPT !.offset = @ + n - 1])

(* A loop that goes on while m_curChar is one of S, max times at most: the *)
(* characters it meets.  S has no line ends.                               *)
While(r, S, max) ==
  LET left == IF r.cur = EOF THEN 0 ELSE Len(text) - r.offset + 1
      most == IF max < left THEN max ELSE left
      n == CHOOSE k \in 0..most :
             /\ \A i \in 1..k : text[r.offset + i - 1] \in S
             /\ k < most => text[r.offset + k] \notin S
  IN  SubSeq(text, r.offset, r.offset + n - 1)

Here == [line |-> in.line, column |-> in.offset - in.lineOffset]

Codes(chars) == [i \in 1..Len(chars) |-> Code[chars[i]]]

-----------------------------------------------------------------------------
(* Errors, and tokens, within a nested comment are ignored.                *)
Report(n) == errors' = IF level = 0 THEN errors + n ELSE errors
NoReport == UNCHANGED errors

If(condition) == IF condition THEN 1 ELSE 0

Deliver(kind, value, where) ==
  tokens' = IF level > 0 THEN tokens
            ELSE Append(tokens, [kind |-> kind, value |-> value,
                                 line |-> where.line, column |-> where.column])

(* Start(s): _nextToken hands over to the function s; Finish: it returns.  *)
Start(s, r, buf) ==
  /\ scan' = s
  /\ in' = r
  /\ strBuf' = buf
  /\ at' = Here
  /\ UNCHANGED <<text, num, level, tokens, errors>>

Init ==
  /\ text \in Source
  /\ in = nextChar([offset |-> 0, cur |-> EOF, line |-> 1, lineOffset |-> 0])
  /\ scan = "token"
  /\ at = [line |-> 0, column |-> 0]
  /\ num = [base |-> 10, real |-> FALSE, err |-> FALSE, nnum |-> FALSE, expo |-> FALSE]
  /\ strBuf = <<>>
  /\ level = 0
  /\ tokens = <<>>
  /\ errors = 0

-----------------------------------------------------------------------------
(* _nextToken: the choice by the first character.                          *)
Look == scan = "token"

(* EOF ends a nested comment too, which is reported then.                  *)
ReadEof ==
  /\ Look /\ in.cur = EOF
  /\ IF level = 0 THEN scan' = "done" /\ NoReport
     ELSE scan' = scan /\ errors' = errors + 1
  /\ level' = 0
  /\ UNCHANGED <<text, in, at, num, strBuf, tokens>>

(* A token is complete, r is behind it.                                    *)
Complete(kind, value, r) ==
  /\ Deliver(kind, value, Here)
  /\ in' = r
  /\ at' = Here
  /\ UNCHANGED <<text, scan, num, strBuf, level>>

ReadWhitespace ==
  /\ Look /\ in.cur \in Whitespace
  /\ Start("token", nextChar(in), strBuf)

ReadPunctuation ==
  /\ Look /\ in.cur \in {"(", ")", "[", "]", "apostr", "accent"}
  /\ Complete(<<in.cur>>, <<>>, nextChar(in))
  /\ NoReport

ReadComma ==
  LET r == nextChar(in)
  IN  /\ Look /\ in.cur = ","
      /\ IF r.cur = "@" THEN Complete(<<",", "@">>, <<>>, nextChar(r))
         ELSE Complete(<<",">>, <<>>, r)
      /\ NoReport

(* The forms that begin with #                                             *)
AfterHash == nextChar(in)
Hash == Look /\ in.cur = "#"

ReadHashPunctuation ==
  /\ Hash /\ AfterHash.cur \in {";", "(", "apostr", "accent"}
  /\ Complete(<<"#", AfterHash.cur>>, <<>>, nextChar(AfterHash))
  /\ NoReport

ReadHashComma ==
  LET r == nextChar(AfterHash)
  IN  /\ Hash /\ AfterHash.cur = ","
      /\ IF r.cur = "@" THEN Complete(<<"#", ",", "@">>, <<>>, nextChar(r))
         ELSE Complete(<<"#", ",">>, <<>>, r)
      /\ NoReport

ReadBool ==
  LET r == nextChar(AfterHash)
  IN  /\ Hash /\ AfterHash.cur \in {"t", "T", "f", "F"}
      /\ Complete(<<"bool">>, <<If(AfterHash.cur \in {"t", "T"})>>, r)
      /\ Report(If(r.cur \notin Delimiter))

ReadCharacterConstant ==
  /\ Hash /\ AfterHash.cur = "\""
  /\ Start("character", nextChar(AfterHash), strBuf)

IllegalLexeme ==
  /\ Hash /\ AfterHash.cur \notin {";", "(", "apostr", "accent", ",", "t", "T", "f", "F", "\""}
  /\ Report(1)
  /\ in' = nextChar(AfterHash)
  /\ UNCHANGED <<text, scan, at, num, strBuf, level, tokens>>

ReadString ==
  /\ Look /\ in.cur = "\""
  /\ Start("string", nextChar(in), <<>>)

(* The end of a nested comment.  Faulty: taken for one where none is open. *)
EndCommentAnywhere(r) ==
  /\ in' = r
  /\ scan' = "token"
  /\ level' = level - 1
  /\ UNCHANGED <<text, num, tokens, errors>>

EndComment(r) ==
  /\ in' = r
  /\ scan' = IF level > 0 THEN "token" ELSE scan
  /\ level' = IF level > 0 THEN level - 1 ELSE 0
  /\ Report(1)
  /\ UNCHANGED <<text, num, tokens>>

ReadStar ==
  LET r == nextChar(in)
  IN  /\ Look /\ in.cur = "*"
      /\ IF r.cur = "/" THEN EndComment(nextChar(r)) /\ at' = Here /\ UNCHANGED strBuf
         ELSE Start("identifier", r, <<Code["*"]>>)

(* A line comment, the start of a nested one, or an identifier             *)
ReadSlash ==
  LET r == nextChar(in)
  IN  /\ Look /\ in.cur = "/"
      /\ \/ r.cur = "/" /\ Start("line comment", r, strBuf)
         \/ /\ r.cur = "*"
            /\ in' = nextChar(r)
            /\ level' = level + 1
            /\ UNCHANGED <<text, scan, at, num, strBuf, tokens, errors>>
         \/ r.cur \notin {"/", "*"} /\ Start("identifier", r, <<Code["/"]>>)

ReadSemicolon ==
  /\ Look /\ in.cur = ";"
  /\ Start("line comment", in, strBuf)

(* Faulty: the end of the file does not end the comment.                   *)
LineCommentToLineEnd ==
  /\ scan = "line comment"
  /\ in' = nextChar(in)
  /\ scan' = IF in'.cur = "LF" THEN "token" ELSE scan
  /\ UNCHANGED <<text, at, num, strBuf, level, tokens, errors>>

LineComment ==
  /\ scan = "line comment"
  /\ in' = nextChar(in)
  /\ scan' = IF in'.cur \in {"LF", EOF} THEN "token" ELSE scan
  /\ UNCHANGED <<text, at, num, strBuf, level, tokens, errors>>

(* scanNumber is entered at a digit, or behind a sign or point.            *)
StartNumber(stage, r, buf) ==
  /\ scan' = stage
  /\ in' = r
  /\ at' = Here
  /\ num' = [base |-> 10, real |-> FALSE, err |-> FALSE, nnum |-> FALSE, expo |-> FALSE]
  /\ strBuf' = buf
  /\ UNCHANGED <<text, level, tokens, errors>>

ReadDigit ==
  /\ Look /\ in.cur \in Decimal
  /\ StartNumber("integer", in, <<>>)

ReadSign ==
  LET r == nextChar(in)
      sign == IF in.cur = "-" THEN <<Code["-"]>> ELSE <<>>
  IN  /\ Look /\ in.cur \in {"+", "-"}
      /\ \/ r.cur \in Decimal /\ StartNumber("integer", r, sign)
         \/ r.cur = "." /\ StartNumber("point", r, sign)
         \/ r.cur \notin Decimal \cup {"."} /\ Start("identifier", r, <<Code[in.cur]>>)

ReadDot ==
  LET r == nextChar(in)
  IN  /\ Look /\ in.cur = "."
      /\ \/ r.cur \in Delimiter /\ Complete(<<".">>, <<>>, r) /\ NoReport
         \/ r.cur \in Decimal /\ StartNumber("fraction", r, <<>>)
         \/ r.cur \notin Delimiter \cup Decimal /\ Start("identifier", r, <<Code["."]>>)

ReadInitial ==
  /\ Look /\ in.cur \in SpecialInitial \cup isAlpha
  /\ Start("identifier", nextChar(in), <<Code[in.cur]>>)

(* m_strBuf is not reset: an identifier that begins with an escape goes on *)
(* from what was left there.                                               *)
ReadBackslash ==
  /\ Look /\ in.cur = "\\"
  /\ Start("identifier", in, strBuf)

CannotStart ==
  /\ Look
  /\ in.cur \notin Delimiter \cup isAlpha \cup Decimal \cup SpecialInitial
                   \cup {"apostr", "accent", ",", "*", "/", "+", "-", ".", "\\"}
  /\ Report(1)
  /\ in' = nextChar(in)
  /\ UNCHANGED <<text, scan, at, num, strBuf, level, tokens>>

-----------------------------------------------------------------------------
(* scanNumber, in stages.  n is where it has got to: position, m_strBuf    *)
(* and variables.  Only the first error is reported.                       *)
Reached == [r |-> in, buf |-> strBuf, v |-> num]

Fail(n, condition) == [n EXCEPT !.v.err = @ \/ condition]
Advance(n, count) == [n EXCEPT !.r = Skip(@, count)]
Keep(n, chars) == [n EXCEPT !.buf = @ \o Codes(chars)]

(* The digits of a run of digits and underscores                           *)
Significant(run) ==
  LET kept[i \in 0..Len(run)] ==
        IF i = 0 THEN <<>>
        ELSE IF run[i] = "_" THEN kept[i - 1] ELSE Append(kept[i - 1], run[i])
  IN  kept[Len(run)]

scanUInt(n, base) ==
  LET run == While(n.r, Digits(base) \cup {"_"}, Len(text))
      digits == Significant(run)
  IN  [Keep(Advance(n, Len(run)), digits) EXCEPT !.v.nnum = @ \/ digits # <<>>]

Stage(next, n) ==
  /\ scan' = next
  /\ \E m \in {n} : in' = m.r /\ strBuf' = m.buf /\ num' = m.v
  /\ UNCHANGED <<text, at, level, tokens, errors>>

(* What begins with 0: a number in base 2 keeps no prefix.                 *)
Prefixed ==
  LET m == Advance(Reached, 1)
      c == m.r.cur
  IN  CASE c \in {"x", "X"} ->
             scanUInt([Keep(Advance(m, 1), <<"0", "x">>) EXCEPT !.v.base = 16], 16)
        [] c \in {"b", "B"} ->
             scanUInt([Advance(m, 1) EXCEPT !.v.base = 2], 2)
        [] OTHER ->
             scanUInt([Fail(Keep(m, <<"0">>), c \in Octal) EXCEPT !.v.nnum = TRUE], 10)

NumberInteger ==
  /\ scan = "integer"
  /\ Stage("point", IF in.cur = "0" THEN Prefixed ELSE scanUInt(Reached, 10))

NumberPoint ==
  /\ scan = "point"
  /\ IF in.cur = "." THEN Stage("fraction", Advance(Reached, 1))
     ELSE Stage("exponent", Fail(Reached, ~num.nnum))

NumberFraction ==
  LET n == scanUInt(Keep(Reached, <<".">>), num.base)
  IN  /\ scan = "fraction"
      /\ Stage("exponent", [Fail(n, num.base = 2 \/ ~n.v.nnum) EXCEPT !.v.real = TRUE])

(* Digits of the exponent are not required.                                *)
NumberExponent ==
  LET letter == IF in.cur \in {"e", "E"} THEN "e" ELSE "p"
      base == IF letter = "e" THEN 10 ELSE 16
      m == Advance(Keep(Fail(Reached, num.base # base), <<letter>>), 1)
      signed == CASE m.r.cur = "+" -> Advance(m, 1)
                  [] m.r.cur = "-" -> Advance(Keep(m, <<"-">>), 1)
                  [] OTHER -> m
  IN  /\ scan = "exponent"
      /\ IF in.cur \in {"e", "E", "p", "P"}
         THEN Stage("number end", [scanUInt(signed, 10) EXCEPT !.v.real = TRUE, !.v.expo = TRUE])
         ELSE Stage("number end", Reached)

(* What strtoll makes of m_strBuf                                          *)
Value ==
  LET sign == If(strBuf # <<>> /\ strBuf[1] = Code["-"])
      prefix == IF num.base = 16 THEN 2 ELSE 0
      size == NumberOf(SubSeq(strBuf, 1 + sign + prefix, Len(strBuf)), num.base)
  IN  IF sign = 1 THEN -size ELSE size

Overflow == ~num.real /\ ~(-IntegerLimit <= Value /\ Value < IntegerLimit)

(* Faulty: what follows the number is not looked at.                       *)
BadAnyEnd == num.err \/ (num.real /\ num.base = 16 /\ ~num.expo) \/ Overflow

Bad ==
  \/ num.err
  \/ num.real /\ num.base = 16 /\ ~num.expo
  \/ in.cur \notin Delimiter
  \/ Overflow

(* The value of a real is left to strtod: its spelling stands for it, none *)
(* for NaN.                                                                *)
NumberEnds ==
  /\ scan = "number end"
  /\ \/ num.real /\ Deliver(<<"real">>, IF Bad THEN <<>> ELSE strBuf, at)
     \/ ~num.real /\ Deliver(<<"integer">>, <<IF Bad THEN 0 ELSE Value>>, at)
  /\ Report(If(Bad))
  /\ scan' = "token"
  /\ strBuf' = Append(strBuf, 0)
  /\ UNCHANGED <<text, in, at, num, level>>

-----------------------------------------------------------------------------
(* scanUnicodeEscape from r on: the code point, where it ends, and errors. *)
(* What has more than six significant digits is beyond every code point.   *)
scanUnicodeEscape(r, len) ==
  LET digits == Codes(While(r, Hexadecimal, len))
      valid == /\ Len(digits) = len
               /\ \A i \in 1..(len - 6) : digits[i] = Code["0"]
               /\ isValidCodePoint(NumberOf(digits, 16))
  IN  [value |-> IF valid THEN NumberOf(digits, 16) ELSE Space,
       in |-> Skip(r, Len(digits)), errors |-> If(~valid)]

(* scanRemainingIdentifier                                                 *)
Remaining == scan = "identifier"

IdentifierChar ==
  /\ Remaining /\ in.cur \in Subsequent
  /\ strBuf' = Append(strBuf, Code[in.cur])
  /\ in' = nextChar(in)
  /\ UNCHANGED <<text, scan, at, num, level, tokens, errors>>

IdentifierStar ==
  LET r == nextChar(in)
  IN  /\ Remaining /\ in.cur = "*"
      /\ IF r.cur = "/" THEN EndComment(nextChar(r)) /\ UNCHANGED <<at, strBuf>>
         ELSE /\ strBuf' = Append(strBuf, Code["*"])
              /\ in' = r
              /\ UNCHANGED <<text, scan, at, num, level, tokens, errors>>

(* The character of an invalid escape is left for the next round.          *)
IdentifierEscape ==
  LET r == nextChar(in)
      escape == scanUnicodeEscape(nextChar(r), IF r.cur = "u" THEN 4 ELSE 8)
  IN  /\ Remaining /\ in.cur = "\\"
      /\ IF r.cur \in {"u", "U"}
         THEN /\ strBuf' = Append(strBuf, Unit(escape.value))
              /\ in' = escape.in
              /\ Report(escape.errors)
         ELSE /\ in' = r
              /\ Report(1)
              /\ UNCHANGED strBuf
      /\ UNCHANGED <<text, scan, at, num, level, tokens>>

(* createGCString empties the collector.                                   *)
IdentifierEnds ==
  /\ Remaining /\ in.cur \notin Subsequent \cup {"*", "\\"}
  /\ Report(If(in.cur \notin Delimiter))
  /\ Deliver(<<"symbol">>, CString(strBuf), at)
  /\ scan' = "token"
  /\ strBuf' = <<>>
  /\ UNCHANGED <<text, in, at, num, level>>

-----------------------------------------------------------------------------
(* scanSingleCharacter from r on.  what: "unit", a byte or code point;     *)
(* "none", an error; "end", stop here; "again", go on behind a line end.   *)
Got(what, value, r, n) == [what |-> what, value |-> value, in |-> r, errors |-> n]

Simple == {"a", "b", "t", "n", "v", "f", "r", "\"", "\\"}
SimpleValue(c) ==
  CASE c = "a" -> 7 [] c = "b" -> 8 [] c = "t" -> 9 [] c = "n" -> 10 [] c = "v" -> 11
    [] c = "f" -> 12 [] c = "r" -> 13 [] OTHER -> Code[c]

scanOctalEscape(r) ==
  LET digits == While(r, Octal, 3)
  IN  Got("byte", NumberOf(Codes(digits), 8) % 256, Skip(r, Len(digits)), 0)

scanHexEscape(r) ==
  LET digits == While(r, Hexadecimal, 2)
      bad == Len(digits) < 2
  IN  Got("byte", IF bad THEN Space ELSE NumberOf(Codes(digits), 16),
          Skip(r, Len(digits)), If(bad))

Unicode(escape) == Got("code point", escape.value, escape.in, escape.errors)

(* A backslash, blanks and the end of a line, or nothing that is known     *)
LineEscape(r) ==
  LET blanks == While(r, Whitespace \ {"LF"}, Len(text))
      end == Skip(r, Len(blanks))
  IN  CASE end.cur = "LF" -> Got("again", 0, nextChar(end), 0)
        [] end.cur = EOF -> Got("end", 0, end, 1)
        [] OTHER -> Got("none", 0, nextChar(end), 1)

Escape(r) ==
  CASE r.cur = EOF -> Got("end", 0, r, 1)
    [] r.cur \in Simple -> Got("byte", SimpleValue(r.cur), nextChar(r), 0)
    [] r.cur \in Octal -> scanOctalEscape(r)
    [] r.cur = "x" -> scanHexEscape(nextChar(r))
    [] r.cur = "u" -> Unicode(scanUnicodeEscape(nextChar(r), 4))
    [] r.cur = "U" -> Unicode(scanUnicodeEscape(nextChar(r), 8))
    [] OTHER -> LineEscape(r)

scanSingleCharacter(r) ==
  CASE r.cur \in {EOF, "LF"} -> Got("end", 0, r, 1)
    [] r.cur = "\\" -> Escape(nextChar(r))
    [] OTHER -> Got("code point", Code[r.cur], nextChar(r), 0)

-----------------------------------------------------------------------------
(* scanString.  Behind an escaped line end, "string continued", the code   *)
(* does not look for the closing quote.                                    *)
FinishString(r, n) ==
  /\ Deliver(<<"string">>, CString(strBuf), at)
  /\ Report(n + If(r.cur \notin Delimiter))
  /\ scan' = "token"
  /\ in' = r
  /\ strBuf' = <<>>
  /\ UNCHANGED <<text, at, num, level>>

StringEnds ==
  /\ scan = "string" /\ in.cur = "\""
  /\ FinishString(nextChar(in), 0)

StringGets ==
  /\ (scan = "string" /\ in.cur # "\"") \/ scan = "string continued"
  /\ \E c \in {scanSingleCharacter(in)} :
       IF c.what = "end" THEN FinishString(c.in, c.errors)
       ELSE /\ strBuf' = CASE c.what = "byte" -> Append(strBuf, c.value)
                           [] c.what = "code point" -> Append(strBuf, Unit(c.value))
                           [] OTHER -> strBuf
            /\ scan' = IF c.what = "again" THEN "string continued" ELSE "string"
            /\ in' = c.in
            /\ Report(c.errors)
            /\ UNCHANGED <<text, at, num, level, tokens>>

(* scanCharacterConstant                                                   *)
FinishCharacter(value, r, n) ==
  /\ Deliver(<<"integer">>, <<value>>, at)
  /\ Report(n)
  /\ scan' = "token"
  /\ in' = r
  /\ UNCHANGED <<text, at, num, strBuf, level>>

CharacterEmpty ==
  /\ scan = "character" /\ in.cur = "\""
  /\ FinishCharacter(Space, nextChar(in), 1)

CharacterGets ==
  /\ (scan = "character" /\ in.cur # "\"") \/ scan = "character continued"
  /\ \E c \in {scanSingleCharacter(in)} :
       CASE c.what = "again" ->
              /\ scan' = "character continued"
              /\ in' = c.in
              /\ UNCHANGED <<text, at, num, strBuf, level, tokens, errors>>
         [] c.what = "end" -> FinishCharacter(Space, c.in, c.errors)
         [] c.what \in {"byte", "code point", "none"} ->
              LET value == IF c.what = "none" THEN Space ELSE c.value
                  closed == nextChar(c.in)
              IN  IF c.in.cur = "\""
                  THEN FinishCharacter(value, closed, c.errors + If(closed.cur \notin Delimiter))
                  ELSE FinishCharacter(value, c.in, c.errors + 1)

-----------------------------------------------------------------------------
Next ==
  \/ ReadEof \/ ReadWhitespace \/ ReadPunctuation \/ ReadComma
  \/ ReadHashPunctuation \/ ReadHashComma \/ ReadBool \/ ReadCharacterConstant
  \/ IllegalLexeme \/ ReadString \/ ReadStar \/ ReadSlash \/ ReadSemicolon
  \/ ReadDigit \/ ReadSign \/ ReadDot \/ ReadInitial \/ ReadBackslash \/ CannotStart
  \/ LineComment
  \/ IdentifierChar \/ IdentifierStar \/ IdentifierEscape \/ IdentifierEnds
  \/ NumberInteger \/ NumberPoint \/ NumberFraction \/ NumberExponent \/ NumberEnds
  \/ StringEnds \/ StringGets \/ CharacterEmpty \/ CharacterGets

Spec == Init /\ [][Next]_vars

(* The reader asks for tokens until the end of the file.                   *)
FairSpec == Spec /\ WF_vars(Next)

Reads == {"token", "line comment", "identifier", "string", "string continued",
          "character", "character continued",
          "integer", "point", "fraction", "exponent", "number end"}

(* The lexer stays within its text, the position it keeps of the last line *)
(* end is behind the current character's line, and comments are closed as  *)
(* often as they were opened: m_inNestedComment is never left set.         *)
TypeOK ==
  /\ scan \in Reads \cup {"done"}
  /\ in.offset \in 0..Len(text) /\ in.lineOffset \in 0..in.offset /\ in.line \in Nat \ {0}
  /\ in.cur \in Char \cup {EOF}
  /\ strBuf \in Seq(Nat)
  /\ level \in Nat /\ errors \in Nat
  /\ scan = "done" => level = 0 /\ in.cur = EOF

(* Whatever the text, errors included, the lexer comes to its end: every   *)
(* loop of every scanner gets on, also at the end of the file.             *)
Terminates == <>(scan = "done")

===============================================================================
