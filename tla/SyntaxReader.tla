------------------------------ MODULE SyntaxReader ----------------------------
(***************************************************************************)
(* SyntaxReader (parser/SyntaxReader.{hpp,cpp}) with the ListBuilder, and  *)
(* the driver that calls parseDatum until it returns DAT_EOF.              *)
(*                                                                         *)
(* The reader is recursive: "stack" holds the activations of parseDatum,   *)
(* list and vector, and of the read that a datum comment makes; the last   *)
(* one has called read (mode "read") or is in its own loop.  read calls    *)
(* list and vector in tail position, so it needs no activation.  Tokens    *)
(* are known by their kind, atoms by their position.                       *)
(*                                                                         *)
(* A definition marked "Faulty" is not part of the model: it is what a     *)
(* plausible slip would make of the one behind it.                         *)
(***************************************************************************)
EXTENDS Naturals, Sequences

CONSTANTS
  Source,          \* the possible inputs: sequences of token kinds
  MaxItems,        \* bound on the elements of a list that are kept ...
  MaxErrors        \* ... and on the errors that are counted

Opening == {"(", "[", "#("}
Abbreviation == {"'"}                  \* eight of them, all alike
Invalid == {".", ")", "]", "none"}     \* no datum begins with these
Token == {"atom", "#;"} \cup Opening \cup Abbreviation \cup Invalid

ASSUME SourceAssumption == Source \subseteq Seq(Token)
ASSUME BoundsAssumption == MaxItems \in Nat /\ MaxErrors \in Nat

VARIABLES
  input,           \* the tokens of the file
  pos,             \* m_tok is the token at pos
  stack,           \* activations: [call, close, set, items, tail]
  mode,            \* what the last activation is doing
  val,             \* the value being returned to it
  inError,         \* read's inError
  results,         \* what parseDatum has returned
  errors           \* errors reported

vars == <<input, pos, stack, mode, val, inError, results, errors>>

(* Data.  A chain of pairs is kept as the sequence of its cars and its     *)
(* last cdr.                                                               *)
SyntaxNil == <<"nil">>
DAT_EOF == <<"eof">>
DAT_COM == <<"comment">>
Atom(p) == <<"atom", p>>
SyntaxVector(items) == <<"vector", items>>

(* ListBuilder::toList ( cdr ).  Faulty: the cdr is forgotten.             *)
toProperList(items, cdr) ==
  IF items = <<>> THEN SyntaxNil ELSE <<"list", items, SyntaxNil>>

toList(items, cdr) ==
  IF items = <<>> THEN cdr
  ELSE IF cdr[1] = "list" THEN <<"list", items \o cdr[2], cdr[3]>>
  ELSE <<"list", items, cdr>>

tok == IF pos <= Len(input) THEN input[pos] ELSE "eof"

-----------------------------------------------------------------------------
Top == stack[Len(stack)]
Callers == SubSeq(stack, 1, Len(stack) - 1)

Activation(call, close, set) ==
  [call |-> call, close |-> close, set |-> set, items |-> <<>>, tail |-> SyntaxNil]

ClosingParen(t) == ")"       \* faulty
Closing(t) == IF t = "[" THEN "]" ELSE ")"

(* The termSet of the read that an activation makes: list adds DOT for     *)
(* the cars.                                                               *)
ReadSet(a) == IF a.call = "list" THEN a.set \cup {"."} ELSE a.set

(* The termSet that list and vector are called with: read's own and their  *)
(* terminator.  Faulty: only that.                                         *)
InnerSetAlone(close) == {close}
InnerSet(close) == ReadSet(Top) \cup {close}

(* The tokens at which skipping ends.  Faulty: the terminator only.        *)
SkipSetOwn == {Top.close}
SkipSet == Top.set

Init ==
  /\ input \in Source
  /\ pos = 1
  /\ stack = <<Activation("parseDatum", "eof", {"eof"})>>
  /\ mode = "read"
  /\ val = SyntaxNil
  /\ inError = FALSE
  /\ results = <<>>
  /\ errors = 0

(* The lexer stays at the end of the file.                                 *)
next == pos' = IF tok = "eof" THEN pos ELSE pos + 1
Report == errors' = IF errors < MaxErrors THEN errors + 1 ELSE errors
Return(v) == mode' = "return" /\ val' = v
CallRead == mode' = "read" /\ inError' = FALSE
Keep(items, v) == IF Len(items) < MaxItems THEN Append(items, v) ELSE items
SetTop(a) == stack' = [stack EXCEPT ![Len(stack)] = a]

-----------------------------------------------------------------------------
(* SyntaxReader::read, one round of its loop                               *)
ReadEof ==
  /\ mode = "read"
  /\ tok = "eof"
  /\ Return(DAT_EOF)
  /\ UNCHANGED <<input, pos, stack, inError, results, errors>>

ReadAtom ==
  /\ mode = "read"
  /\ tok = "atom"
  /\ next
  /\ Return(Atom(pos))
  /\ UNCHANGED <<input, stack, inError, results, errors>>

ReadCompound ==
  /\ mode = "read"
  /\ tok \in Opening
  /\ next
  /\ stack' = Append(stack, Activation(IF tok = "#(" THEN "vector" ELSE "list",
                                       Closing(tok), InnerSet(Closing(tok))))
  /\ mode' = "loop"
  /\ UNCHANGED <<input, val, inError, results, errors>>

ReadComment ==
  /\ mode = "read"
  /\ tok = "#;"
  /\ next
  /\ stack' = Append(stack, Activation("comment", "eof", ReadSet(Top)))
  /\ CallRead
  /\ UNCHANGED <<input, val, results, errors>>

(* abbrev: the SyntaxValue constructor that is chosen for a Symbol * takes *)
(* a bool, and asserts that the kind is BOOL.                              *)
ReadAbbreviation ==
  /\ mode = "read"
  /\ tok \in Abbreviation
  /\ mode' = "abort"
  /\ UNCHANGED <<input, pos, stack, val, inError, results, errors>>

ReadInvalid ==
  /\ mode = "read"
  /\ tok \in Invalid
  /\ IF inError THEN UNCHANGED errors ELSE Report
  /\ IF tok \in ReadSet(Top)
     THEN Return(SyntaxNil) /\ UNCHANGED <<pos, inError>>
     ELSE next /\ inError' = TRUE /\ UNCHANGED <<mode, val>>
  /\ UNCHANGED <<input, stack, results>>

-----------------------------------------------------------------------------
(* The loops of list and vector: the terminator is looked for before each  *)
(* element.                                                                *)
Loop ==
  /\ mode = "loop"
  /\ IF tok = Top.close
     THEN /\ next
          /\ stack' = Callers
          /\ Return(IF Top.call = "vector" THEN SyntaxVector(Top.items)
                                           ELSE toList(Top.items, SyntaxNil))
          /\ UNCHANGED inError
     ELSE CallRead /\ UNCHANGED <<pos, stack, val>>
  /\ UNCHANGED <<input, results, errors>>

(* read returns to readSkipDatCom, called by parseDatum.                   *)
ParseDatumReturns ==
  /\ mode = "return"
  /\ Top.call = "parseDatum"
  /\ results' = IF val \in {DAT_COM, DAT_EOF} THEN results ELSE Keep(results, val)
  /\ IF val = DAT_EOF THEN mode' = "done" /\ UNCHANGED inError ELSE CallRead
  /\ UNCHANGED <<input, pos, stack, val, errors>>

(* Whatever the read of a datum comment returns, its caller gets DAT_COM.  *)
CommentReturns ==
  /\ mode = "return"
  /\ Top.call = "comment"
  /\ stack' = Callers
  /\ Return(DAT_COM)
  /\ UNCHANGED <<input, pos, inError, results, errors>>

(* An element of a list; behind it there may be a dot.                     *)
ListGetsCar ==
  /\ mode = "return"
  /\ Top.call = "list"
  /\ \/ /\ val = DAT_COM
        /\ mode' = "loop"
        /\ UNCHANGED <<pos, stack, val, inError, errors>>
     \/ /\ val = DAT_EOF
        /\ Report
        /\ stack' = Callers
        /\ Return(toList(Top.items, SyntaxNil))
        /\ UNCHANGED <<pos, inError>>
     \/ /\ val \notin {DAT_COM, DAT_EOF}
        /\ IF tok = "."
           THEN /\ next
                /\ SetTop([Top EXCEPT !.call = "cdr", !.items = Keep(@, val)])
                /\ CallRead
           ELSE /\ SetTop([Top EXCEPT !.items = Keep(@, val)])
                /\ mode' = "loop"
                /\ UNCHANGED <<pos, inError>>
        /\ UNCHANGED <<val, errors>>
  /\ UNCHANGED <<input, results>>

(* The datum behind the dot                                                *)
ListGetsCdr ==
  /\ mode = "return"
  /\ Top.call = "cdr"
  /\ \/ /\ val = DAT_COM
        /\ CallRead
        /\ UNCHANGED <<pos, stack, val, errors>>
     \/ /\ val = DAT_EOF
        /\ Report
        /\ stack' = Callers
        /\ Return(toList(Top.items, SyntaxNil))
        /\ UNCHANGED <<pos, inError>>
     \/ /\ val \notin {DAT_COM, DAT_EOF}
        /\ IF tok = Top.close
           THEN /\ next
                /\ stack' = Callers
                /\ Return(toList(Top.items, val))
                /\ UNCHANGED errors
           ELSE /\ Report
                /\ SetTop([Top EXCEPT !.tail = val])
                /\ mode' = "skip"
                /\ UNCHANGED <<pos, val>>
        /\ UNCHANGED inError
  /\ UNCHANGED <<input, results>>

(* ... and the tokens that should not follow it                            *)
SkipToTerminator ==
  /\ mode = "skip"
  /\ IF tok \in SkipSet
     THEN /\ IF tok = Top.close THEN next ELSE UNCHANGED pos
          /\ stack' = Callers
          /\ Return(toList(Top.items, Top.tail))
     ELSE next /\ UNCHANGED <<stack, mode, val>>
  /\ UNCHANGED <<input, inError, results, errors>>

VectorGetsElement ==
  /\ mode = "return"
  /\ Top.call = "vector"
  /\ \/ /\ val = DAT_COM
        /\ mode' = "loop"
        /\ UNCHANGED <<stack, val, errors>>
     \/ /\ val = DAT_EOF
        /\ Report
        /\ stack' = Callers
        /\ Return(SyntaxVector(<<>>))
     \/ /\ val \notin {DAT_COM, DAT_EOF}
        /\ SetTop([Top EXCEPT !.items = Keep(@, val)])
        /\ mode' = "loop"
        /\ UNCHANGED <<val, errors>>
  /\ UNCHANGED <<input, pos, inError, results>>

Next ==
  \/ ReadEof \/ ReadAtom \/ ReadCompound \/ ReadComment
  \/ ReadAbbreviation \/ ReadInvalid
  \/ Loop
  \/ ParseDatumReturns \/ CommentReturns
  \/ ListGetsCar \/ ListGetsCdr \/ SkipToTerminator \/ VectorGetsElement

Spec == Init /\ [][Next]_vars

(* The reader is never interrupted.                                        *)
FairSpec == Spec /\ WF_vars(Next)

-----------------------------------------------------------------------------
Call == {"parseDatum", "list", "cdr", "vector", "comment"}
Mode == {"read", "return", "loop", "skip", "done", "abort"}

(* Every activation stops at the terminators of the ones it is inside of,  *)
(* and at the end of the file: the assertion of list ("all sets should     *)
(* include EOF", SyntaxReader.cpp:177), without which skipping to the      *)
(* terminator would not stop.                                              *)
TerminatorsNest ==
  /\ \A i \in 1..Len(stack) :
       /\ "eof" \in stack[i].set
       /\ stack[i].close \in stack[i].set
       /\ \A j \in 1..i : stack[j].close \in stack[i].set
  /\ mode \in {"loop", "skip"} => Top.call \in {"list", "cdr", "vector"}
  /\ mode = "skip" => Top.call = "cdr"

TypeOK ==
  /\ input \in Seq(Token)
  /\ pos \in 1..(Len(input) + 1)
  /\ Len(stack) > 0
  /\ \A i \in 1..Len(stack) :
       /\ stack[i].call \in Call
       /\ stack[i].close \in {")", "]", "eof"}
       /\ stack[i].set \subseteq {".", ")", "]", "eof"}
  /\ mode \in Mode
  /\ inError \in BOOLEAN
  /\ errors \in 0..MaxErrors
  /\ TerminatorsNest

(* Reading ends for every input.                                           *)
Terminates == <>(mode \in {"done", "abort"})

(* The assertion of the SyntaxValue constructors: the value given is of    *)
(* the kind given (Syntax.hpp:138-139).                                    *)
ValuesMatchKinds == mode # "abort"

===============================================================================
