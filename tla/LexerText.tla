------------------------------ MODULE LexerText -------------------------------
(***************************************************************************)
(* What the lexer delivers, against the lexical syntax.                    *)
(***************************************************************************)
EXTENDS Lexer

Grammar == INSTANCE LexicalGrammar

(* The lexer, which looks at one character and never goes back, reads      *)
(* every right text as the longest lexemes it is made of, without an       *)
(* error: kinds, values and coordinates (TestLexer).                       *)
TokenizesTheText ==
  scan = "done" /\ Grammar!IsRight(text) => errors = 0 /\ tokens = Grammar!Tokens(text)

(* Anything else is reported, wherever in the text it is, and however the  *)
(* lexer recovers from it.                                                 *)
ReportsWrongText == scan = "done" /\ ~Grammar!IsRight(text) => errors > 0

(* "\u -> identifier starting with an inline Unicode escape"              *)
(* (Lexer.cpp:803): such a name is the characters it is written with,      *)
(* whatever was read before.                                               *)
EscapeStartsIdentifier == TokenizesTheText

===============================================================================
