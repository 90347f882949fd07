------------------------------- MODULE MCLexer --------------------------------
(* Lexer on the concatenations of a few pieces, by family: numbers, strings   *)
(* and characters, names and punctuation, comments.                          *)
EXTENDS LexerText

MCCode ==
  [c \in {"LF", "CR", "NEL", "SP", "HT", "(", ")", "[", "]", "\"", ";", "#", "apostr",
          "accent", ",", "@", "*", "/", "+", "-", ".", "\\", "!", "_", "{",
          "0", "1", "7", "9", "a", "b", "e", "f", "n", "p", "t", "u", "x",
          "B", "E", "F", "P", "T", "U", "X", "alpha"} |->
     CASE c = "LF" -> 10 [] c = "CR" -> 13 [] c = "NEL" -> 133 [] c = "SP" -> 32
       [] c = "HT" -> 9 [] c = "(" -> 40 [] c = ")" -> 41 [] c = "[" -> 91 [] c = "]" -> 93
       [] c = "\"" -> 34 [] c = ";" -> 59 [] c = "#" -> 35 [] c = "apostr" -> 39
       [] c = "accent" -> 96 [] c = "," -> 44 [] c = "@" -> 64 [] c = "*" -> 42
       [] c = "/" -> 47 [] c = "+" -> 43 [] c = "-" -> 45 [] c = "." -> 46
       [] c = "\\" -> 92 [] c = "!" -> 33 [] c = "_" -> 95 [] c = "{" -> 123
       [] c = "0" -> 48 [] c = "1" -> 49 [] c = "7" -> 55 [] c = "9" -> 57
       [] c = "a" -> 97 [] c = "b" -> 98 [] c = "e" -> 101 [] c = "f" -> 102
       [] c = "n" -> 110 [] c = "p" -> 112 [] c = "t" -> 116 [] c = "u" -> 117
       [] c = "x" -> 120 [] c = "B" -> 66 [] c = "E" -> 69 [] c = "F" -> 70 [] c = "P" -> 80
       [] c = "T" -> 84 [] c = "U" -> 85 [] c = "X" -> 88 [] c = "alpha" -> 945]

(* The concatenations of one piece of each set in turn                       *)
Concatenations(sets) ==
  LET upTo[k \in 0..Len(sets)] ==
        IF k = 0 THEN {<<>>} ELSE {s \o p : s \in upTo[k - 1], p \in sets[k]}
  IN  upTo[Len(sets)]

Chars(S) == {<<c>> : c \in S}
None == {<<>>}

Numbers ==
  Concatenations(<<None \cup Chars({"+", "-"}),
                   {<<>>, <<"0">>, <<"1", "7">>, <<"0", "1">>, <<"9", "_", "1">>,
                    <<"0", "x">>, <<"0", "X", "f", "1">>, <<"0", "b">>, <<"0", "B", "1", "0">>},
                   {<<>>, <<".">>, <<".", "7">>, <<"_">>, <<"1">>, <<"9", "9">>},
                   {<<>>, <<"e">>, <<"E", "+", "1">>, <<"p">>, <<"P", "-", "7">>, <<"a">>},
                   {<<>>, <<"SP", "1">>, <<"apostr">>}>>)

Quoted(S) == Concatenations(<<{<<"\"">>, <<"#", "\"">>}, S, {<<>>, <<"\"">>, <<"\"", "a">>}>>)

StringPieces ==
  {<<"a">>, <<"alpha">>, <<"SP">>, <<"LF">>, <<"7">>, <<"f">>,
   <<"\\">>, <<"\\", "n">>, <<"\\", "\"">>, <<"\\", "\\">>,
   <<"\\", "1">>, <<"\\", "7", "7">>, <<"\\", "0">>, <<"\\", "x">>, <<"\\", "x", "f">>,
   <<"\\", "u", "0", "0", "E">>, <<"\\", "u", "E", "E", "9", "1">>,
   <<"\\", "U", "0", "0", "1", "1", "0", "0", "0">>}

Following == Chars({"a", "alpha", "SP", "LF", "7", "f", "\\"}) \cup {<<"\\", "1">>}

QuotedTexts ==
  Quoted(None \cup Concatenations(<<StringPieces, None \cup Following>>)
         \cup Concatenations(<<None \cup Chars({"a", "alpha"}),
                               {<<"\\", "LF">>, <<"\\", "SP", "CR", "LF">>,
                                <<"\\", "LF", "\\", "HT", "LF">>},
                               Chars({"a", "SP", "LF"}) \cup {<<"\\", "7">>}>>))

(* The quote right behind an escaped line end is left out: see the README.   *)
Strings ==
  {s \in QuotedTexts :
     ~\E i \in 3..Len(s) : s[i] = "\"" /\ s[i - 1] = "LF" /\ s[i - 2] = "\\"}

NamePieces ==
  Chars({"a", "t", "1", "+", "-", ".", "/", "*", "@", "!", "alpha", "{", "\\", "#",
         ",", "apostr", "accent", "(", ")", "[", "]", ";", "SP", "LF", "CR", "NEL"})
  \cup {<<"\\", "u", "0", "0", "0", "1">>, <<"\\", "u", "0">>, <<"\"", "a", "\"">>}

Core == Chars({"a", "t", "1", "+", ".", "/", "*", "#", "SP"})

(* A name that begins with an escape goes on from what the collector holds;  *)
(* it is read here where that is nothing.                                    *)
Names ==
  {s \in Concatenations(<<NamePieces, None \cup NamePieces>>)
         \cup Concatenations(<<Core, Core, Core \cup Chars({"\\", "@"})>>) :
     \A i \in 2..Len(s) : s[i] = "\\" => \A j \in 1..(i - 1) : s[j] \in {"a", "t", "!", "/", "@"}}

(* Names that begin with an escape, behind another name or a number          *)
EscapedNames == Concatenations(<<{<<>>, <<"a", "SP">>, <<"1", "SP">>},
                                 {<<"\\", "u", "0", "0", "E", "1">>}, {<<>>, <<"a">>}>>)

CommentPieces ==
  {<<"/", "*">>, <<"*", "/">>, <<"/", "/">>, <<"a">>, <<"*">>, <<"/">>, <<"LF">>, <<"\"">>,
   <<";">>, <<"SP">>, <<"#">>}

Comments ==
  {s \in Concatenations(<<{<<"/", "*">>}, CommentPieces, None \cup CommentPieces,
                          None \cup CommentPieces, {<<>>, <<"*", "/">>, <<"*", "/", "a">>}>>) :
     \A i \in 1..(Len(s) - 1) : ~(s[i] = "#" /\ s[i + 1] \in {"\"", ";"})}

MCSource == Numbers \cup Strings \cup Names \cup Comments
===============================================================================
