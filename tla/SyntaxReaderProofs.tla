--------------------------- MODULE SyntaxReaderProofs --------------------------
(***************************************************************************)
(* Theorems about SyntaxReader, for every set of inputs.                   *)
(***************************************************************************)
EXTENDS SyntaxReaderText, TLAPS, SequenceTheorems, WellFoundedInduction

-----------------------------------------------------------------------------
(* Sequences whose elements need no common type                            *)
IsSequence(s) == \E S : s \in Seq(S)

LEMMA EmptySequence == IsSequence(<<>>) /\ Len(<<>>) = 0
BY DEF IsSequence

LEMMA SequenceLen ==
  ASSUME NEW s, IsSequence(s)
  PROVE  Len(s) \in Nat /\ (s # <<>> <=> Len(s) > 0) /\ DOMAIN s = 1..Len(s)
<1>1. PICK S : s \in Seq(S)
  BY DEF IsSequence
<1> QED BY <1>1, LenProperties, EmptySeq

LEMMA AppendSequence ==
  ASSUME NEW s, NEW e, IsSequence(s)
  PROVE  /\ IsSequence(Append(s, e))
         /\ Len(Append(s, e)) = Len(s) + 1
         /\ Append(s, e)[Len(s) + 1] = e
         /\ \A i \in 1..Len(s) : Append(s, e)[i] = s[i]
<1>1. PICK S : s \in Seq(S)
  BY DEF IsSequence
<1>2. s \in Seq(S \cup {e}) /\ e \in S \cup {e}
  BY <1>1, SeqMonotonic
<1> QED BY <1>2, AppendProperties DEF IsSequence

LEMMA ConcatSequence ==
  ASSUME NEW s, NEW t, IsSequence(s), IsSequence(t)
  PROVE  /\ IsSequence(s \o t)
         /\ Len(s \o t) = Len(s) + Len(t)
         /\ \A i \in 1..Len(s) : (s \o t)[i] = s[i]
         /\ \A i \in 1..Len(t) : (s \o t)[Len(s) + i] = t[i]
<1>1. PICK S : s \in Seq(S)
  BY DEF IsSequence
<1>2. PICK T : t \in Seq(T)
  BY DEF IsSequence
<1>3. s \in Seq(S \cup T) /\ t \in Seq(S \cup T)
  BY <1>1, <1>2, SeqMonotonic
<1>4. /\ s \o t \in Seq(S \cup T)
      /\ Len(s \o t) = Len(s) + Len(t)
      /\ \A i \in 1..Len(s) + Len(t) : (s \o t)[i] = IF i <= Len(s) THEN s[i] ELSE t[i - Len(s)]
  BY <1>3, ConcatProperties
<1>5. Len(s) \in Nat /\ Len(t) \in Nat
  BY <1>3, LenProperties
<1>6. IsSequence(s \o t)
  BY <1>4 DEF IsSequence
<1>7. \A i \in 1..Len(s) : (s \o t)[i] = s[i]
  BY <1>4, <1>5
<1>8. \A i \in 1..Len(t) : (s \o t)[Len(s) + i] = t[i]
  BY <1>4, <1>5
<1> QED BY <1>4, <1>6, <1>7, <1>8

LEMMA CallersSequence ==
  ASSUME NEW s, IsSequence(s), Len(s) > 0
  PROVE  LET c == SubSeq(s, 1, Len(s) - 1)
         IN  /\ IsSequence(c) /\ Len(c) = Len(s) - 1
             /\ \A i \in 1..(Len(s) - 1) : c[i] = s[i]
<1> DEFINE n == Len(s) - 1
           c == SubSeq(s, 1, n)
<1>1. PICK S : s \in Seq(S)
  BY DEF IsSequence
<1>2. Len(s) \in Nat /\ n \in Nat /\ n <= Len(s) /\ n - 1 + 1 = n
  BY <1>1, LenProperties
<1>3. c \in Seq(S) /\ Len(c) = n /\ \A i \in 1..n : c[i] = s[i]
  BY <1>1, <1>2, SubSeqProperties
<1> QED BY <1>3 DEF IsSequence

LEMMA ExceptSequence ==
  ASSUME NEW s, IsSequence(s), NEW k \in 1..Len(s), NEW e
  PROVE  LET c == [s EXCEPT ![k] = e]
         IN  /\ IsSequence(c) /\ Len(c) = Len(s) /\ c[k] = e
             /\ \A i \in 1..Len(s) : i # k => c[i] = s[i]
<1>1. PICK S : s \in Seq(S)
  BY DEF IsSequence
<1>2. s \in Seq(S \cup {e}) /\ e \in S \cup {e}
  BY <1>1, SeqMonotonic
<1>3. [s EXCEPT ![k] = e] \in Seq(S \cup {e})
  BY <1>2, ExceptSeq
<1> QED BY <1>2, <1>3, ExceptSeq DEF IsSequence

-----------------------------------------------------------------------------
(* Induction on natural numbers, for a set of them                         *)
LEMMA Induction ==
  ASSUME NEW T, 0 \in T, \A n \in Nat : n \in T => n + 1 \in T
  PROVE  \A n \in Nat : n \in T
<1> DEFINE R == OpToRel(<, Nat)
           U == {n \in Nat : n \notin T}
<1>1. SUFFICES ASSUME U # {} PROVE FALSE
  OBVIOUS
<1>2. IsWellFoundedOn(R, Nat)
  BY NatLessThanWellFounded
<1>3. \A y, x \in Nat : y < x => <<y, x>> \in R
  BY DEF OpToRel
<1>4. U \subseteq Nat
  OBVIOUS
<1> HIDE DEF R
<1>5. PICK x \in U : \A y \in U : ~(<<y, x>> \in R)
  <2> HIDE DEF U
  <2> QED BY <1>1, <1>2, <1>4, WFMin
<1>6. x \in Nat /\ x # 0 /\ x \notin T
  OBVIOUS
<1>7. x - 1 \in Nat /\ x - 1 < x /\ (x - 1) + 1 = x
  BY <1>6
<1>8. x - 1 \in U
  BY <1>6, <1>7
<1> QED BY <1>3, <1>5, <1>6, <1>7, <1>8

-----------------------------------------------------------------------------
(* The activations: those inside of the first, which is parseDatum's, have *)
(* every terminator of the ones they are inside of.                        *)
Set == SUBSET {".", ")", "]", "eof"}
Close == {")", "]", "eof"}

IsActivation(a) ==
  a \in [call : Call, close : Close, set : Set, items : {a.items}, tail : {a.tail}]

Stacked(s) ==
  /\ IsSequence(s) /\ Len(s) > 0
  /\ \A i \in 1..Len(s) :
       /\ IsActivation(s[i])
       /\ s[i].call = "parseDatum" <=> i = 1
       /\ "eof" \in s[i].set
       /\ \A j \in 1..i : s[j].close \in s[i].set

IInv ==
  /\ input \in Seq(Token)
  /\ pos \in 1..(Len(input) + 1)
  /\ Stacked(stack)
  /\ mode \in Mode
  /\ mode \in {"loop", "skip"} => Top.call \in {"list", "cdr", "vector"}
  /\ mode = "skip" => Top.call = "cdr"
  /\ inError \in BOOLEAN
  /\ errors \in 0..MaxErrors

LEMMA IInvTypeOK == IInv => TypeOK
<1> SUFFICES ASSUME IInv PROVE TypeOK
  OBVIOUS
<1>1. Len(stack) \in Nat /\ Len(stack) > 0
  BY SequenceLen DEF IInv, Stacked
<1>2. \A i \in 1..Len(stack) :
        /\ stack[i].call \in Call /\ stack[i].close \in Close /\ stack[i].set \in Set
        /\ "eof" \in stack[i].set
        /\ \A j \in 1..i : stack[j].close \in stack[i].set
  BY DEF IInv, Stacked, IsActivation
<1>3. \A i \in 1..Len(stack) : stack[i].close \in stack[i].set
  BY <1>2
<1>4. TerminatorsNest
  BY <1>2, <1>3 DEF IInv, TerminatorsNest
<1> QED BY <1>1, <1>2, <1>4 DEF IInv, TypeOK, Set, Close

LEMMA TopIsActivation ==
  ASSUME NEW s, Stacked(s)
  PROVE  LET top == s[Len(s)]
         IN  /\ Len(s) \in Nat /\ Len(s) > 0 /\ Len(s) \in 1..Len(s)
             /\ IsActivation(top)
             /\ top.call = "parseDatum" <=> Len(s) = 1
             /\ "eof" \in top.set
             /\ \A j \in 1..Len(s) : s[j].close \in top.set
<1>1. Len(s) \in Nat /\ Len(s) > 0
  BY SequenceLen DEF Stacked
<1>2. Len(s) \in 1..Len(s)
  BY <1>1
<1> QED BY <1>1, <1>2 DEF Stacked

LEMMA PushStacked ==
  ASSUME NEW s, Stacked(s), NEW a, IsActivation(a), a.call # "parseDatum", a.close \in a.set,
         s[Len(s)].set \subseteq a.set
  PROVE  /\ Stacked(Append(s, a))
         /\ Len(Append(s, a)) = Len(s) + 1
         /\ Append(s, a)[Len(s) + 1] = a
         /\ \A i \in 1..Len(s) : Append(s, a)[i] = s[i]
<1> DEFINE p == Append(s, a)
<1>1. /\ IsSequence(p) /\ Len(p) = Len(s) + 1 /\ p[Len(s) + 1] = a
      /\ \A i \in 1..Len(s) : p[i] = s[i]
  BY AppendSequence DEF Stacked
<1>2. /\ Len(s) \in Nat /\ Len(s) > 0 /\ "eof" \in s[Len(s)].set
      /\ \A j \in 1..Len(s) : s[j].close \in s[Len(s)].set
  BY TopIsActivation
<1> HIDE DEF p
<1>3. ASSUME NEW i \in 1..Len(p)
      PROVE  /\ IsActivation(p[i])
             /\ p[i].call = "parseDatum" <=> i = 1
             /\ "eof" \in p[i].set
             /\ \A j \in 1..i : p[j].close \in p[i].set
  <2>1. CASE i \in 1..Len(s)
    <3>1. \A j \in 1..i : j \in 1..Len(s)
      BY <1>2, <2>1
    <3> QED BY <1>1, <2>1, <3>1 DEF Stacked
  <2>2. CASE i = Len(s) + 1
    <3>1. \A j \in 1..i : j \in 1..Len(s) \/ j = Len(s) + 1
      BY <1>2, <2>2
    <3>2. \A j \in 1..i : p[j].close \in p[i].set
      BY <1>1, <1>2, <2>2, <3>1
    <3> QED BY <1>1, <1>2, <2>2, <3>2
  <2> QED BY <1>1, <1>2, <2>1, <2>2
<1>4. Stacked(p)
  BY <1>1, <1>2, <1>3 DEF Stacked
<1> QED BY <1>1, <1>4 DEF p

LEMMA PopStacked ==
  ASSUME NEW s, Stacked(s), s[Len(s)].call # "parseDatum"
  PROVE  LET c == SubSeq(s, 1, Len(s) - 1)
         IN  /\ Stacked(c)
             /\ Len(c) = Len(s) - 1
             /\ \A i \in 1..(Len(s) - 1) : c[i] = s[i]
<1> DEFINE c == SubSeq(s, 1, Len(s) - 1)
<1>1. Len(s) \in Nat /\ Len(s) > 1
  <2>1. Len(s) \in Nat /\ Len(s) > 0 /\ Len(s) # 1
    BY TopIsActivation
  <2>2. \A m \in Nat : m > 0 /\ m # 1 => m > 1 /\ m \in 1..m
    OBVIOUS
  <2> QED BY <2>1, <2>2
<1>2. /\ IsSequence(c) /\ Len(c) = Len(s) - 1
      /\ \A i \in 1..(Len(s) - 1) : c[i] = s[i]
  BY <1>1, CallersSequence DEF Stacked
<1> HIDE DEF c
<1>3. \A i \in 1..Len(c) : i \in 1..Len(s) /\ \A j \in 1..i : j \in 1..(Len(s) - 1)
  BY <1>1, <1>2
<1>4. Stacked(c)
  BY <1>1, <1>2, <1>3 DEF Stacked
<1> QED BY <1>2, <1>4 DEF c

LEMMA SetTopStacked ==
  ASSUME NEW s, Stacked(s), NEW a, IsActivation(a), a.call # "parseDatum",
         s[Len(s)].call # "parseDatum",
         a.close = s[Len(s)].close, a.set = s[Len(s)].set
  PROVE  LET c == [s EXCEPT ![Len(s)] = a]
         IN  /\ Stacked(c)
             /\ Len(c) = Len(s)
             /\ c[Len(s)] = a
             /\ \A i \in 1..(Len(s) - 1) : c[i] = s[i]
<1> DEFINE n == Len(s)
           c == [s EXCEPT ![n] = a]
<1>1. n \in Nat /\ n > 1 /\ n \in 1..n
  <2>1. Len(s) \in Nat /\ Len(s) > 0 /\ Len(s) # 1
    BY TopIsActivation
  <2>2. \A m \in Nat : m > 0 /\ m # 1 => m > 1 /\ m \in 1..m
    OBVIOUS
  <2> QED BY <2>1, <2>2
<1>2. IsSequence(c) /\ Len(c) = n /\ c[n] = a /\ \A i \in 1..n : i # n => c[i] = s[i]
  BY <1>1, ExceptSequence DEF Stacked
<1> HIDE DEF c
<1>3. \A i \in 1..(n - 1) : i \in 1..n /\ i # n
  BY <1>1
<1>4. \A i \in 1..n : c[i].close = s[i].close /\ c[i].set = s[i].set /\ IsActivation(c[i])
  BY <1>2 DEF Stacked
<1>5. \A i \in 1..n : c[i].call = "parseDatum" <=> i = 1
  BY <1>1, <1>2 DEF Stacked
<1>6. \A i \in 1..n : \A j \in 1..i : j \in 1..n
  BY <1>1
<1>7. Stacked(c)
  BY <1>1, <1>2, <1>4, <1>5, <1>6 DEF Stacked
<1> QED BY <1>2, <1>3, <1>7 DEF c

LEMMA ActivationProperties ==
  ASSUME NEW call \in Call, NEW close \in Close, NEW set \in Set
  PROVE  LET a == Activation(call, close, set)
         IN  /\ IsActivation(a)
             /\ a.call = call /\ a.close = close /\ a.set = set
             /\ a.items = <<>> /\ a.tail = SyntaxNil
BY DEF Activation, IsActivation

LEMMA ExceptItems ==
  ASSUME NEW a, IsActivation(a), NEW x
  PROVE  LET b == [a EXCEPT !.items = x]
         IN  /\ IsActivation(b) /\ b.call = a.call /\ b.close = a.close /\ b.set = a.set
             /\ b.items = x /\ b.tail = a.tail
<1> DEFINE b == [a EXCEPT !.items = x]
<1>1. b \in [call : {a.call}, close : {a.close}, set : {a.set}, items : {x}, tail : {a.tail}]
  BY DEF IsActivation
<1>2. a.call \in Call /\ a.close \in Close /\ a.set \in Set
  BY DEF IsActivation
<1> HIDE DEF b
<1>3. /\ IsActivation(b) /\ b.call = a.call /\ b.close = a.close /\ b.set = a.set
      /\ b.items = x /\ b.tail = a.tail
  BY <1>1, <1>2 DEF IsActivation
<1> QED BY <1>3 DEF b

LEMMA ExceptTail ==
  ASSUME NEW a, IsActivation(a), NEW x
  PROVE  LET b == [a EXCEPT !.tail = x]
         IN  /\ IsActivation(b) /\ b.call = a.call /\ b.close = a.close /\ b.set = a.set
             /\ b.items = a.items /\ b.tail = x
<1> DEFINE b == [a EXCEPT !.tail = x]
<1>1. b \in [call : {a.call}, close : {a.close}, set : {a.set}, items : {a.items}, tail : {x}]
  BY DEF IsActivation
<1>2. a.call \in Call /\ a.close \in Close /\ a.set \in Set
  BY DEF IsActivation
<1> HIDE DEF b
<1>3. /\ IsActivation(b) /\ b.call = a.call /\ b.close = a.close /\ b.set = a.set
      /\ b.items = a.items /\ b.tail = x
  BY <1>1, <1>2 DEF IsActivation
<1> QED BY <1>3 DEF b

-----------------------------------------------------------------------------
(* Every step keeps the invariant.                                         *)
LEMMA TokenAt ==
  ASSUME IInv
  PROVE  /\ Len(input) \in Nat /\ pos \in Nat
         /\ pos <= Len(input) => tok = input[pos] /\ tok \in Token
         /\ tok = "eof" <=> pos = Len(input) + 1
<1>1. Len(input) \in Nat /\ pos \in 1..(Len(input) + 1) /\ input \in Seq(Token)
  BY LenProperties DEF IInv
<1>2. CASE pos <= Len(input)
  <2>1. pos \in 1..Len(input) /\ pos \in Nat /\ pos # Len(input) + 1
    BY <1>1, <1>2
  <2>2. input[pos] \in Token
    BY <1>1, <2>1, ElementOfSeq
  <2>3. tok = input[pos]
    BY <1>2 DEF tok
  <2>4. "eof" \notin Token
    BY DEF Token, Opening, Abbreviation, Invalid
  <2> QED BY <1>1, <2>1, <2>2, <2>3, <2>4
<1>3. CASE ~(pos <= Len(input))
  <2>1. tok = "eof" /\ pos = Len(input) + 1 /\ pos \in Nat
    BY <1>1, <1>3 DEF tok
  <2> QED BY <1>1, <1>3, <2>1
<1> QED BY <1>2, <1>3

LEMMA NextPosition ==
  ASSUME IInv, next
  PROVE  /\ pos' \in 1..(Len(input) + 1)
         /\ tok # "eof" => pos <= Len(input) /\ pos' = pos + 1
<1>1. CASE tok = "eof"
  BY <1>1 DEF next, IInv
<1>2. CASE tok # "eof"
  <2>1. pos' = pos + 1 /\ pos # Len(input) + 1 /\ pos \in 1..(Len(input) + 1)
        /\ Len(input) \in Nat
    BY <1>2, TokenAt DEF next, IInv
  <2>2. pos <= Len(input) /\ pos + 1 \in 1..(Len(input) + 1)
    BY <2>1
  <2> QED BY <2>1, <2>2
<1> QED BY <1>1, <1>2

LEMMA ReportBounded ==
  ASSUME IInv, Report
  PROVE  errors' \in 0..MaxErrors
<1>1. errors \in 0..MaxErrors /\ MaxErrors \in Nat
  BY BoundsAssumption DEF IInv
<1>2. CASE errors < MaxErrors
  BY <1>1, <1>2 DEF Report
<1>3. CASE ~(errors < MaxErrors)
  BY <1>1, <1>3 DEF Report
<1> QED BY <1>2, <1>3

LEMMA TopProperties ==
  ASSUME IInv
  PROVE  /\ Len(stack) \in Nat /\ Len(stack) > 0
         /\ Top = stack[Len(stack)] /\ IsActivation(Top)
         /\ Top.call = "parseDatum" <=> Len(stack) = 1
         /\ Top.call \in Call /\ Top.close \in Close /\ Top.set \in Set
         /\ "eof" \in Top.set /\ Top.close \in Top.set
<1>1. Stacked(stack)
  BY DEF IInv
<1>2. Len(stack) \in 1..Len(stack)
  BY <1>1, TopIsActivation
<1>3. IsActivation(Top) /\ Top.close \in Top.set
  BY <1>1, <1>2, TopIsActivation DEF Top
<1> QED BY <1>1, <1>3, TopIsActivation DEF Top, IsActivation

LEMMA BecomesCdr ==
  ASSUME IInv, NEW x
  PROVE  LET b == [Top EXCEPT !.call = "cdr", !.items = x]
         IN  /\ IsActivation(b) /\ b.call = "cdr" /\ b.close = Top.close /\ b.set = Top.set
             /\ b.items = x /\ b.tail = Top.tail
<1> DEFINE a == Top
           b == [a EXCEPT !.call = "cdr", !.items = x]
<1>1. IsActivation(a) /\ "cdr" \in Call
  BY TopProperties DEF Call
<1> HIDE DEF a
<1>2. b \in [call : {"cdr"}, close : {a.close}, set : {a.set}, items : {x}, tail : {a.tail}]
  BY <1>1 DEF IsActivation
<1>3. a.close \in Close /\ a.set \in Set
  BY <1>1 DEF IsActivation
<1> HIDE DEF b
<1>4. /\ IsActivation(b) /\ b.call = "cdr" /\ b.close = a.close /\ b.set = a.set
      /\ b.items = x /\ b.tail = a.tail
  BY <1>1, <1>2, <1>3 DEF IsActivation
<1> QED BY <1>4 DEF b, a

LEMMA PopIInv ==
  ASSUME IInv, stack' = Callers, Top.call # "parseDatum"
  PROVE  Stacked(stack')
BY PopStacked DEF IInv, Callers, Top

LEMMA ReadSetProperties ==
  ASSUME IInv
  PROVE  ReadSet(Top) \in Set /\ Top.set \subseteq ReadSet(Top)
BY TopProperties DEF ReadSet, Set

LEMMA ReadIInv ==
  IInv /\ (ReadEof \/ ReadAtom \/ ReadAbbreviation \/ ReadInvalid) => IInv'
<1> SUFFICES ASSUME IInv PROVE ReadEof \/ ReadAtom \/ ReadAbbreviation \/ ReadInvalid => IInv'
  OBVIOUS
<1>1. ReadEof \/ ReadAbbreviation => IInv'
  BY DEF ReadEof, ReadAbbreviation, Return, IInv, Mode, Top
<1>2. ReadAtom => IInv'
  BY NextPosition DEF ReadAtom, Return, IInv, Mode, Top
<1>3. ReadInvalid => IInv'
  <2> SUFFICES ASSUME ReadInvalid PROVE IInv'
    OBVIOUS
  <2>1. errors' \in 0..MaxErrors
    BY ReportBounded DEF ReadInvalid, IInv
  <2>2. pos' \in 1..(Len(input) + 1) /\ inError' \in BOOLEAN /\ mode' \in {"return", "read"}
    BY NextPosition DEF ReadInvalid, Return, IInv
  <2>3. UNCHANGED <<input, stack>>
    BY DEF ReadInvalid
  <2> QED BY <2>1, <2>2, <2>3 DEF IInv, Mode, Top
<1> QED BY <1>1, <1>2, <1>3

LEMMA ReadCompoundPush ==
  ASSUME IInv, ReadCompound
  PROVE  LET a == Activation(IF tok = "#(" THEN "vector" ELSE "list",
                             Closing(tok), InnerSet(Closing(tok)))
         IN  /\ stack' = Append(stack, a) /\ IsActivation(a)
             /\ a.call = (IF tok = "#(" THEN "vector" ELSE "list") /\ a.close = Closing(tok)
             /\ a.set = InnerSet(Closing(tok)) /\ a.items = <<>>
             /\ Stacked(stack') /\ Len(stack') = Len(stack) + 1
             /\ stack'[Len(stack) + 1] = a
             /\ \A i \in 1..Len(stack) : stack'[i] = stack[i]
<1> DEFINE call == IF tok = "#(" THEN "vector" ELSE "list"
           close == Closing(tok)
           set == InnerSet(close)
           a == Activation(call, close, set)
<1>1. call \in Call /\ close \in Close
  BY DEF Call, Close, Closing
<1>2. set \in Set /\ close \in set /\ Top.set \subseteq set
  BY <1>1, ReadSetProperties DEF InnerSet, Set, Close
<1>3. call # "parseDatum"
  OBVIOUS
<1>4. stack' = Append(stack, a)
  BY DEF ReadCompound
<1> HIDE DEF call, close, set
<1>5. IsActivation(a) /\ a.call = call /\ a.close = close /\ a.set = set /\ a.items = <<>>
  BY <1>1, <1>2, ActivationProperties
<1> HIDE DEF a
<1>6. Stacked(stack) /\ stack[Len(stack)].set \subseteq a.set
  BY <1>2, <1>5 DEF IInv, Top
<1>7. /\ Stacked(stack') /\ Len(stack') = Len(stack) + 1
      /\ stack'[Len(stack) + 1] = a
      /\ \A i \in 1..Len(stack) : stack'[i] = stack[i]
  BY <1>2, <1>3, <1>4, <1>5, <1>6, PushStacked
<1> QED BY <1>4, <1>5, <1>7 DEF a, call, close, set

LEMMA ReadCompoundIInv == IInv /\ ReadCompound => IInv'
<1> SUFFICES ASSUME IInv, ReadCompound PROVE IInv'
  OBVIOUS
<1>1. /\ Stacked(stack') /\ Len(stack') = Len(stack) + 1
      /\ stack'[Len(stack) + 1].call = (IF tok = "#(" THEN "vector" ELSE "list")
  BY ReadCompoundPush
<1>2. Top'.call \in {"list", "vector"}
  BY <1>1 DEF Top
<1>3. pos' \in 1..(Len(input) + 1) /\ mode' = "loop" /\ UNCHANGED <<input, inError, errors>>
  BY NextPosition DEF ReadCompound
<1> QED BY <1>1, <1>2, <1>3 DEF IInv, Mode

LEMMA ReadCommentPush ==
  ASSUME IInv, ReadComment
  PROVE  LET a == Activation("comment", "eof", ReadSet(Top))
         IN  /\ stack' = Append(stack, a) /\ IsActivation(a) /\ a.call = "comment"
             /\ a.set = ReadSet(Top) /\ a.close = "eof" /\ a.items = <<>>
             /\ Stacked(stack') /\ Len(stack') = Len(stack) + 1
             /\ stack'[Len(stack) + 1] = a
             /\ \A i \in 1..Len(stack) : stack'[i] = stack[i]
<1> DEFINE a == Activation("comment", "eof", ReadSet(Top))
<1>1. "comment" \in Call /\ "eof" \in Close
  BY DEF Call, Close
<1>2. ReadSet(Top) \in Set /\ Top.set \subseteq ReadSet(Top) /\ "eof" \in ReadSet(Top)
  BY ReadSetProperties, TopProperties
<1>3. /\ IsActivation(a) /\ a.call = "comment" /\ a.close = "eof" /\ a.set = ReadSet(Top)
      /\ a.items = <<>>
  BY <1>1, <1>2, ActivationProperties
<1>4. stack' = Append(stack, a)
  BY DEF ReadComment
<1> HIDE DEF a
<1>5. Stacked(stack) /\ stack[Len(stack)].set \subseteq a.set
  BY <1>2, <1>3 DEF IInv, Top
<1>6. /\ Stacked(stack') /\ Len(stack') = Len(stack) + 1
      /\ stack'[Len(stack) + 1] = a
      /\ \A i \in 1..Len(stack) : stack'[i] = stack[i]
  BY <1>2, <1>3, <1>4, <1>5, PushStacked
<1> QED BY <1>3, <1>4, <1>6 DEF a

LEMMA ReadCommentIInv == IInv /\ ReadComment => IInv'
<1> SUFFICES ASSUME IInv, ReadComment PROVE IInv'
  OBVIOUS
<1>1. Stacked(stack')
  BY ReadCommentPush
<1>2. /\ pos' \in 1..(Len(input) + 1) /\ mode' = "read" /\ inError' = FALSE
      /\ UNCHANGED <<input, errors>>
  BY NextPosition DEF ReadComment, CallRead
<1> QED BY <1>1, <1>2 DEF IInv, Mode

LEMMA LoopIInv == IInv /\ Loop => IInv'
<1> SUFFICES ASSUME IInv, Loop PROVE IInv'
  OBVIOUS
<1>1. Top.call # "parseDatum" /\ UNCHANGED <<input, errors>>
  BY DEF Loop, IInv
<1>2. CASE tok = Top.close
  <2>1. next /\ stack' = Callers /\ mode' = "return" /\ UNCHANGED inError
    BY <1>2 DEF Loop, Return
  <2>2. Stacked(stack') /\ pos' \in 1..(Len(input) + 1)
    BY <1>1, <2>1, PopIInv, NextPosition
  <2> QED BY <1>1, <2>1, <2>2 DEF IInv, Mode
<1>3. CASE tok # Top.close
  BY <1>1, <1>3 DEF Loop, CallRead, IInv, Mode
<1> QED BY <1>2, <1>3

LEMMA ParseDatumReturnsIInv == IInv /\ ParseDatumReturns => IInv'
BY DEF ParseDatumReturns, CallRead, IInv, Mode

LEMMA CommentReturnsIInv == IInv /\ CommentReturns => IInv'
<1> SUFFICES ASSUME IInv, CommentReturns PROVE IInv'
  OBVIOUS
<1>1. Stacked(stack')
  BY PopIInv DEF CommentReturns
<1> QED BY <1>1 DEF CommentReturns, Return, IInv, Mode

(* What the loops do with their activation                                 *)
LEMMA SetTopEffect ==
  ASSUME IInv, Top.call # "parseDatum", NEW a, IsActivation(a), a.call # "parseDatum",
         a.close = Top.close, a.set = Top.set, SetTop(a)
  PROVE  /\ Stacked(stack') /\ Len(stack') = Len(stack) /\ Top' = a
         /\ \A i \in 1..(Len(stack) - 1) : stack'[i] = stack[i]
<1>1. /\ Stacked(stack) /\ stack[Len(stack)].call # "parseDatum"
      /\ a.close = stack[Len(stack)].close /\ a.set = stack[Len(stack)].set
      /\ stack' = [stack EXCEPT ![Len(stack)] = a]
  BY DEF IInv, Top, SetTop
<1>2. /\ Stacked(stack') /\ Len(stack') = Len(stack) /\ stack'[Len(stack)] = a
      /\ \A i \in 1..(Len(stack) - 1) : stack'[i] = stack[i]
  BY <1>1, SetTopStacked
<1> QED BY <1>2 DEF Top

LEMMA ListGetsCarIInv == IInv /\ ListGetsCar => IInv'
<1> SUFFICES ASSUME IInv, ListGetsCar PROVE IInv'
  OBVIOUS
<1>1. Top.call = "list" /\ UNCHANGED input
  BY DEF ListGetsCar
<1>2. CASE val = DAT_COM /\ mode' = "loop" /\ UNCHANGED <<pos, stack, val, inError, errors>>
  BY <1>1, <1>2 DEF IInv, Mode, Top
<1>3. CASE Report /\ stack' = Callers /\ mode' = "return" /\ UNCHANGED <<pos, inError>>
  <2>1. Stacked(stack') /\ errors' \in 0..MaxErrors
    BY <1>1, <1>3, PopIInv, ReportBounded
  <2> QED BY <1>1, <1>3, <2>1 DEF IInv, Mode
<1>4. CASE /\ next /\ SetTop([Top EXCEPT !.call = "cdr", !.items = Keep(@, val)]) /\ CallRead
           /\ UNCHANGED errors
  <2> DEFINE a == [Top EXCEPT !.call = "cdr", !.items = Keep(Top.items, val)]
  <2>1. IsActivation(Top) /\ "cdr" \in Call
    BY TopProperties DEF Call
  <2>2. IsActivation(a) /\ a.call = "cdr" /\ a.close = Top.close /\ a.set = Top.set
    BY BecomesCdr
  <2>3. SetTop(a)
    BY <1>4
  <2> HIDE DEF a
  <2>4. Stacked(stack')
    BY <1>1, <2>2, <2>3, SetTopEffect
  <2>5. pos' \in 1..(Len(input) + 1)
    BY <1>4, NextPosition
  <2> QED BY <1>1, <1>4, <2>4, <2>5 DEF IInv, Mode, CallRead
<1>5. CASE /\ SetTop([Top EXCEPT !.items = Keep(@, val)]) /\ mode' = "loop"
           /\ UNCHANGED <<pos, inError, errors>>
  <2> DEFINE a == [Top EXCEPT !.items = Keep(Top.items, val)]
  <2>1. IsActivation(Top) /\ "cdr" \in Call
    BY TopProperties DEF Call
  <2>2. IsActivation(a) /\ a.call = "list" /\ a.close = Top.close /\ a.set = Top.set
    BY <1>1, <2>1, ExceptItems
  <2>3. SetTop(a)
    BY <1>5
  <2> HIDE DEF a
  <2>4. Stacked(stack') /\ Top'.call = "list"
    BY <1>1, <2>2, <2>3, SetTopEffect
  <2> QED BY <1>1, <1>5, <2>4 DEF IInv, Mode
<1> QED BY <1>2, <1>3, <1>4, <1>5 DEF ListGetsCar, Return

LEMMA ListGetsCdrIInv == IInv /\ ListGetsCdr => IInv'
<1> SUFFICES ASSUME IInv, ListGetsCdr PROVE IInv'
  OBVIOUS
<1>1. Top.call = "cdr" /\ UNCHANGED input
  BY DEF ListGetsCdr
<1>2. CASE CallRead /\ UNCHANGED <<pos, stack, val, errors>>
  BY <1>1, <1>2 DEF IInv, Mode, CallRead
<1>3. CASE Report /\ stack' = Callers /\ mode' = "return" /\ UNCHANGED <<pos, inError>>
  <2>1. Stacked(stack') /\ errors' \in 0..MaxErrors
    BY <1>1, <1>3, PopIInv, ReportBounded
  <2> QED BY <1>1, <1>3, <2>1 DEF IInv, Mode
<1>4. CASE next /\ stack' = Callers /\ mode' = "return" /\ UNCHANGED <<errors, inError>>
  <2>1. Stacked(stack') /\ pos' \in 1..(Len(input) + 1)
    BY <1>1, <1>4, PopIInv, NextPosition
  <2> QED BY <1>1, <1>4, <2>1 DEF IInv, Mode
<1>5. CASE /\ Report /\ SetTop([Top EXCEPT !.tail = val]) /\ mode' = "skip"
           /\ UNCHANGED <<pos, inError>>
  <2> DEFINE a == [Top EXCEPT !.tail = val]
  <2>1. IsActivation(Top) /\ "cdr" \in Call
    BY TopProperties DEF Call
  <2>2. IsActivation(a) /\ a.call = "cdr" /\ a.close = Top.close /\ a.set = Top.set
    BY <1>1, <2>1, ExceptTail
  <2>3. SetTop(a)
    BY <1>5
  <2> HIDE DEF a
  <2>4. Stacked(stack') /\ Top'.call = "cdr" /\ errors' \in 0..MaxErrors
    BY <1>1, <1>5, <2>2, <2>3, SetTopEffect, ReportBounded
  <2> QED BY <1>1, <1>5, <2>4 DEF IInv, Mode
<1> QED BY <1>2, <1>3, <1>4, <1>5 DEF ListGetsCdr, Return

LEMMA SkipToTerminatorIInv == IInv /\ SkipToTerminator => IInv'
<1> SUFFICES ASSUME IInv, SkipToTerminator PROVE IInv'
  OBVIOUS
<1>1. Top.call = "cdr" /\ mode = "skip" /\ UNCHANGED <<input, inError, errors>>
  BY DEF SkipToTerminator, IInv
<1>2. CASE tok \in SkipSet
  <2>1. stack' = Callers /\ mode' = "return" /\ (next \/ pos' = pos)
    BY <1>2 DEF SkipToTerminator, Return
  <2>2. Stacked(stack') /\ pos' \in 1..(Len(input) + 1)
    BY <1>1, <2>1, PopIInv, NextPosition DEF IInv
  <2> QED BY <1>1, <2>1, <2>2 DEF IInv, Mode
<1>3. CASE tok \notin SkipSet
  <2>1. next /\ UNCHANGED <<stack, mode>>
    BY <1>3 DEF SkipToTerminator
  <2>2. pos' \in 1..(Len(input) + 1)
    BY <2>1, NextPosition
  <2> QED BY <1>1, <2>1, <2>2 DEF IInv, Mode, Top
<1> QED BY <1>2, <1>3

LEMMA VectorGetsElementIInv == IInv /\ VectorGetsElement => IInv'
<1> SUFFICES ASSUME IInv, VectorGetsElement PROVE IInv'
  OBVIOUS
<1>1. Top.call = "vector" /\ UNCHANGED <<input, pos, inError>>
  BY DEF VectorGetsElement
<1>2. CASE mode' = "loop" /\ UNCHANGED <<stack, val, errors>>
  BY <1>1, <1>2 DEF IInv, Mode, Top
<1>3. CASE Report /\ stack' = Callers /\ mode' = "return"
  <2>1. Stacked(stack') /\ errors' \in 0..MaxErrors
    BY <1>1, <1>3, PopIInv, ReportBounded
  <2> QED BY <1>1, <1>3, <2>1 DEF IInv, Mode
<1>4. CASE /\ SetTop([Top EXCEPT !.items = Keep(@, val)]) /\ mode' = "loop"
           /\ UNCHANGED errors
  <2> DEFINE a == [Top EXCEPT !.items = Keep(Top.items, val)]
  <2>1. IsActivation(Top) /\ "cdr" \in Call
    BY TopProperties DEF Call
  <2>2. IsActivation(a) /\ a.call = "vector" /\ a.close = Top.close /\ a.set = Top.set
    BY <1>1, <2>1, ExceptItems
  <2>3. SetTop(a)
    BY <1>4
  <2> HIDE DEF a
  <2>4. Stacked(stack') /\ Top'.call = "vector"
    BY <1>1, <2>2, <2>3, SetTopEffect
  <2> QED BY <1>1, <1>4, <2>4 DEF IInv, Mode
<1> QED BY <1>2, <1>3, <1>4 DEF VectorGetsElement, Return

LEMMA InitIInv == Init => IInv
<1> SUFFICES ASSUME Init PROVE IInv
  OBVIOUS
<1> DEFINE a == Activation("parseDatum", "eof", {"eof"})
<1>1. "parseDatum" \in Call /\ "eof" \in Close /\ {"eof"} \in Set
  BY DEF Call, Close, Set
<1>2. IsActivation(a) /\ a.call = "parseDatum" /\ a.close = "eof" /\ a.set = {"eof"}
  BY <1>1, ActivationProperties
<1>3. stack = <<a>>
  BY DEF Init
<1> HIDE DEF a
<1>4. stack \in Seq({a}) /\ Len(stack) = 1 /\ stack[1] = a
  BY <1>3
<1>5. IsSequence(stack)
  BY <1>4 DEF IsSequence
<1>6. \A i \in 1..1 : i = 1
  OBVIOUS
<1>7. Stacked(stack)
  BY <1>2, <1>4, <1>5, <1>6 DEF Stacked
<1>8. input \in Seq(Token) /\ 1 \in 1..(Len(input) + 1) /\ 0 \in 0..MaxErrors
  <2>1. input \in Seq(Token)
    BY SourceAssumption DEF Init
  <2>2. Len(input) \in Nat
    BY <2>1, LenProperties
  <2> QED BY <2>1, <2>2, BoundsAssumption
<1> QED BY <1>7, <1>8 DEF Init, IInv, Mode

LEMMA IInvStep == IInv /\ [Next]_vars => IInv'
<1>1. IInv /\ Next => IInv'
  BY ReadIInv, ReadCompoundIInv, ReadCommentIInv, LoopIInv, ParseDatumReturnsIInv,
     CommentReturnsIInv, ListGetsCarIInv, ListGetsCdrIInv, SkipToTerminatorIInv,
     VectorGetsElementIInv
  DEF Next
<1>2. IInv /\ UNCHANGED vars => IInv'
  BY DEF IInv, vars, Top
<1> QED BY <1>1, <1>2

(* The inductive invariant, for every set of inputs                        *)
THEOREM SyntaxReaderInvariant == Spec => []IInv
<1> QED BY InitIInv, IInvStep, PTL DEF Spec

(* Whatever the input: every activation stops at the terminators of all    *)
(* those it is inside of and at the end of the file (the assertion of      *)
(* list, SyntaxReader.cpp:177), and only lists and vectors loop or skip.   *)
THEOREM TypeCorrect == Spec => []TypeOK
<1> QED BY SyntaxReaderInvariant, IInvTypeOK, PTL

-----------------------------------------------------------------------------
(* The grammar of data: Of(t) follows its rules.                           *)
Kind == {"items", "cars", "single"}
First(t) == 1..(Len(t) + 1)
Last(t) == 0..Len(t)
Part(kind, i, j) == <<kind, i, j>>

Rule(t, of, s) ==
  IF s[1] = "items" THEN Grammar!ItemsOf(t, of, s[2], s[3])
  ELSE IF s[1] = "cars" THEN Grammar!CarsOf(t, of, s[2], s[3])
  ELSE Grammar!SingleOf(t, of, s[2], s[3])

(* f and g have the same readings of parts of less than n tokens.          *)
Agree(t, f, g, n) ==
  \A kind \in Kind, i \in First(t), j \in Last(t) :
    j + 1 < i + n => f[Part(kind, i, j)] = g[Part(kind, i, j)]

LEMMA AgreeAt ==
  ASSUME NEW t \in Seq(Token), NEW n \in Nat, NEW f, NEW g, Agree(t, f, g, n),
         NEW kind \in Kind, NEW i \in First(t), NEW j \in Last(t), j + 1 < i + n
  PROVE  f[<<kind, i, j>>] = g[<<kind, i, j>>]
BY DEF Agree, Part

LEMMA DatumAgrees ==
  ASSUME NEW t \in Seq(Token), NEW n \in Nat, NEW f, NEW g, Agree(t, f, g, n),
         NEW i \in First(t), NEW j \in Last(t), j < i + n
  PROVE  Grammar!DatumOf(t, f, i, j) = Grammar!DatumOf(t, g, i, j)
<1>1. Len(t) \in Nat
  BY LenProperties
<1>2. CASE i < j
  <2> DEFINE K == {k \in (i + 1)..(j - 1) : t[k] = "."}
             P(k) == {Grammar!Joined(items, cdr) : items \in f[<<"cars", i + 1, k - 1>>],
                                                   cdr \in f[<<"single", k + 1, j - 1>>]}
             Q(k) == {Grammar!Joined(items, cdr) : items \in g[<<"cars", i + 1, k - 1>>],
                                                   cdr \in g[<<"single", k + 1, j - 1>>]}
  <2>1. i + 1 \in First(t) /\ j - 1 \in Last(t) /\ (j - 1) + 1 < (i + 1) + n
    BY <1>1, <1>2 DEF First, Last
  <2>2. f[<<"items", i + 1, j - 1>>] = g[<<"items", i + 1, j - 1>>]
    BY <2>1, AgreeAt DEF Kind
  <2>3. ASSUME NEW k \in K PROVE P(k) = Q(k)
    <3>1. /\ k - 1 \in Last(t) /\ (k - 1) + 1 < (i + 1) + n
          /\ k + 1 \in First(t) /\ (j - 1) + 1 < (k + 1) + n
      BY <1>1, <1>2 DEF First, Last
    <3>2. f[<<"cars", i + 1, k - 1>>] = g[<<"cars", i + 1, k - 1>>]
      BY <2>1, <3>1, AgreeAt DEF Kind
    <3>3. f[<<"single", k + 1, j - 1>>] = g[<<"single", k + 1, j - 1>>]
      BY <2>1, <3>1, AgreeAt DEF Kind
    <3> QED BY <3>2, <3>3
  <2> HIDE DEF K, P, Q
  <2>4. UNION {P(k) : k \in K} = UNION {Q(k) : k \in K}
    BY <2>3
  <2> DEFINE List(I) == {Grammar!Joined(items, Grammar!Nil) : items \in I}
             Vector(I) == {<<"vector", items>> : items \in I}
             Rest(L, U, V) ==
               IF i = j /\ t[i] = "atom" THEN {<<"atom", i>>}
               ELSE IF i < j /\ <<t[i], t[j]>> \in {<<"(", ")">>, <<"[", "]">>} THEN L \cup U
               ELSE IF i < j /\ <<t[i], t[j]>> = <<"#(", ")">> THEN V
               ELSE {}
  <2>5. Grammar!DatumOf(t, f, i, j) =
          Rest(List(f[<<"items", i + 1, j - 1>>]), UNION {P(k) : k \in K},
               Vector(f[<<"items", i + 1, j - 1>>]))
    BY DEF Grammar!DatumOf, K, P
  <2>6. Grammar!DatumOf(t, g, i, j) =
          Rest(List(g[<<"items", i + 1, j - 1>>]), UNION {Q(k) : k \in K},
               Vector(g[<<"items", i + 1, j - 1>>]))
    BY DEF Grammar!DatumOf, K, Q
  <2> HIDE DEF List, Vector, Rest
  <2> QED BY <2>2, <2>4, <2>5, <2>6
<1>3. CASE ~(i < j)
  BY <1>3 DEF Grammar!DatumOf
<1> QED BY <1>2, <1>3

LEMMA RuleAgrees ==
  ASSUME NEW t \in Seq(Token), NEW n \in Nat, NEW f, NEW g, Agree(t, f, g, n),
         NEW i \in First(t), NEW j \in Last(t), j < i + n
  PROVE  /\ Grammar!ItemsOf(t, f, i, j) = Grammar!ItemsOf(t, g, i, j)
         /\ Grammar!CarsOf(t, f, i, j) = Grammar!CarsOf(t, g, i, j)
         /\ Grammar!SingleOf(t, f, i, j) = Grammar!SingleOf(t, g, i, j)
<1>1. Len(t) \in Nat
  BY LenProperties
<1>2. Grammar!ItemsOf(t, f, i, j) = Grammar!ItemsOf(t, g, i, j)
  <2>1. CASE i > j
    BY <2>1 DEF Grammar!ItemsOf
  <2>2. CASE ~(i > j)
    <3> DEFINE Joins(D, R) == {<<d>> \o rest : d \in D, rest \in R}
               P(k) == Joins(Grammar!DatumOf(t, f, i, k), f[<<"items", k + 1, j>>])
               Q(k) == Joins(Grammar!DatumOf(t, g, i, k), g[<<"items", k + 1, j>>])
               K == {k \in i..j : Grammar!CommentOf(t, f, i, k)}
               L == {k \in i..j : Grammar!CommentOf(t, g, i, k)}
    <3>1. ASSUME NEW k \in i..j
          PROVE  /\ k \in Last(t) /\ k < i + n /\ k + 1 \in First(t)
                 /\ j + 1 < (k + 1) + n
                 /\ i < k => i + 1 \in First(t) /\ k + 1 < (i + 1) + n
      BY <1>1, <2>2 DEF First, Last
    <3>2. ASSUME NEW k \in i..j
          PROVE  f[<<"items", k + 1, j>>] = g[<<"items", k + 1, j>>]
      <4>1. k + 1 \in First(t) /\ j + 1 < (k + 1) + n /\ "items" \in Kind
        BY <3>1 DEF Kind
      <4> QED BY <4>1, AgreeAt
    <3>3. ASSUME NEW k \in i..j
          PROVE  P(k) = Q(k)
      <4>1. Grammar!DatumOf(t, f, i, k) = Grammar!DatumOf(t, g, i, k)
        BY <3>1, DatumAgrees
      <4> HIDE DEF Joins
      <4> QED BY <3>2, <4>1
    <3>4. ASSUME NEW k \in i..j
          PROVE  Grammar!CommentOf(t, f, i, k) <=> Grammar!CommentOf(t, g, i, k)
      <4>1. i < k => f[<<"single", i + 1, k>>] = g[<<"single", i + 1, k>>]
        BY <3>1, AgreeAt DEF Kind
      <4> QED BY <4>1 DEF Grammar!CommentOf
    <3>5. K = L
      BY <3>4
    <3> HIDE DEF P, Q, K, L, Joins
    <3>6. UNION {P(k) : k \in i..j} = UNION {Q(k) : k \in i..j}
      BY <3>3
    <3>7. UNION {f[<<"items", k + 1, j>>] : k \in K} = UNION {g[<<"items", k + 1, j>>] : k \in L}
      <4>1. \A k \in K : k \in i..j
        BY DEF K
      <4>2. UNION {f[<<"items", k + 1, j>>] : k \in K}
            = UNION {g[<<"items", k + 1, j>>] : k \in K}
        BY <3>2, <4>1
      <4> QED BY <3>5, <4>2
    <3>8. Grammar!ItemsOf(t, f, i, j) =
            (UNION {P(k) : k \in i..j}) \cup UNION {f[<<"items", k + 1, j>>] : k \in K}
      BY <2>2 DEF Grammar!ItemsOf, P, K, Joins
    <3>9. Grammar!ItemsOf(t, g, i, j) =
            (UNION {Q(k) : k \in i..j}) \cup UNION {g[<<"items", k + 1, j>>] : k \in L}
      BY <2>2 DEF Grammar!ItemsOf, Q, L, Joins
    <3> QED BY <3>6, <3>7, <3>8, <3>9, Zenon
  <2> QED BY <2>1, <2>2
<1>3. ASSUME NEW k \in i..j
      PROVE  /\ f[<<"items", i, k - 1>>] = g[<<"items", i, k - 1>>]
             /\ Grammar!DatumOf(t, f, k, j) = Grammar!DatumOf(t, g, k, j)
  <2>1. k - 1 \in Last(t) /\ (k - 1) + 1 < i + n /\ k \in First(t) /\ j < k + n
    BY <1>1 DEF First, Last
  <2>2. f[<<"items", i, k - 1>>] = g[<<"items", i, k - 1>>]
    <3>1. k - 1 \in Last(t) /\ (k - 1) + 1 < i + n /\ "items" \in Kind
      BY <2>1 DEF Kind
    <3> QED BY <3>1, AgreeAt
  <2> QED BY <2>1, <2>2, DatumAgrees
<1>4. Grammar!CarsOf(t, f, i, j) = Grammar!CarsOf(t, g, i, j)
  <2> DEFINE Joins(I, D) == {Append(items, d) : items \in I, d \in D}
             P(k) == Joins(f[<<"items", i, k - 1>>], Grammar!DatumOf(t, f, k, j))
             Q(k) == Joins(g[<<"items", i, k - 1>>], Grammar!DatumOf(t, g, k, j))
  <2>1. ASSUME NEW k \in i..j
        PROVE  P(k) = Q(k)
    <3> HIDE DEF Joins
    <3> QED BY <1>3
  <2>2. Grammar!CarsOf(t, f, i, j) = UNION {P(k) : k \in i..j}
    BY DEF Grammar!CarsOf
  <2>3. Grammar!CarsOf(t, g, i, j) = UNION {Q(k) : k \in i..j}
    BY DEF Grammar!CarsOf
  <2> HIDE DEF P, Q
  <2>4. UNION {P(k) : k \in i..j} = UNION {Q(k) : k \in i..j}
    BY <2>1
  <2> QED BY <2>2, <2>3, <2>4
<1>5. Grammar!SingleOf(t, f, i, j) = Grammar!SingleOf(t, g, i, j)
  <2> DEFINE K == {k \in i..j : <<>> \in f[<<"items", i, k - 1>>]}
             L == {k \in i..j : <<>> \in g[<<"items", i, k - 1>>]}
  <2>1. K = L
    BY <1>3
  <2>2. UNION {Grammar!DatumOf(t, f, k, j) : k \in K}
        = UNION {Grammar!DatumOf(t, g, k, j) : k \in K}
    BY <1>3
  <2> QED BY <2>1, <2>2 DEF Grammar!SingleOf
<1> QED BY <1>2, <1>4, <1>5

(* Readings that follow the rules for parts of less than n tokens          *)
Follows(t, f, n) ==
  \A kind \in Kind, i \in First(t), j \in Last(t) :
    j + 1 < i + n => f[Part(kind, i, j)] = Rule(t, f, Part(kind, i, j))

LEMMA RuleAt ==
  ASSUME NEW t \in Seq(Token), NEW n \in Nat, NEW f, NEW g, Agree(t, f, g, n),
         NEW kind \in Kind, NEW i \in First(t), NEW j \in Last(t), j < i + n
  PROVE  Rule(t, f, Part(kind, i, j)) = Rule(t, g, Part(kind, i, j))
<1>1. /\ Grammar!ItemsOf(t, f, i, j) = Grammar!ItemsOf(t, g, i, j)
      /\ Grammar!CarsOf(t, f, i, j) = Grammar!CarsOf(t, g, i, j)
      /\ Grammar!SingleOf(t, f, i, j) = Grammar!SingleOf(t, g, i, j)
  BY RuleAgrees
<1> QED BY <1>1 DEF Rule, Part

LEMMA EmptyPart ==
  ASSUME NEW t \in Seq(Token), NEW f, NEW i \in First(t), NEW j \in Last(t), j < i
  PROVE  /\ Grammar!ItemsOf(t, f, i, j) = {<<>>}
         /\ Grammar!CarsOf(t, f, i, j) = {}
         /\ Grammar!SingleOf(t, f, i, j) = {}
<1>1. Len(t) \in Nat /\ i \in Nat /\ j \in Nat
  BY LenProperties DEF First, Last
<1>2. i..j = {}
  BY <1>1
<1>3. Grammar!CarsOf(t, f, i, j) = {}
  <2> DEFINE P(k) == {Append(items, d) : items \in f[<<"items", i, k - 1>>],
                                         d \in Grammar!DatumOf(t, f, k, j)}
  <2>1. Grammar!CarsOf(t, f, i, j) = UNION {P(k) : k \in i..j}
    BY DEF Grammar!CarsOf
  <2> HIDE DEF P
  <2> QED BY <1>2, <2>1
<1>4. {k \in i..j : <<>> \in f[<<"items", i, k - 1>>]} = {}
  BY <1>2
<1>5. Grammar!SingleOf(t, f, i, j) = {}
  BY <1>4 DEF Grammar!SingleOf
<1> QED BY <1>1, <1>3, <1>5 DEF Grammar!ItemsOf

IsReading(t, f) == f = [s \in Grammar!Parts(t) |-> f[s]]

LEMMA FollowsExist ==
  ASSUME NEW t \in Seq(Token), NEW n \in Nat
  PROVE  \E f : IsReading(t, f) /\ Follows(t, f, n)
<1> DEFINE T == {m \in Nat : \E f : IsReading(t, f) /\ Follows(t, f, m)}
<1>1. Len(t) \in Nat
  BY LenProperties
<1>2. \A kind \in Kind, i \in First(t), j \in Last(t) : Part(kind, i, j) \in Grammar!Parts(t)
  BY DEF Kind, First, Last, Part, Grammar!Parts
<1>3. 0 \in T
  <2> DEFINE f == [s \in Grammar!Parts(t) |-> {}]
             g == [s \in Grammar!Parts(t) |-> Rule(t, f, s)]
  <2>1. IsReading(t, g)
    BY DEF IsReading
  <2>2. ASSUME NEW kind \in Kind, NEW i \in First(t), NEW j \in Last(t), j + 1 < i + 0
        PROVE  g[Part(kind, i, j)] = Rule(t, g, Part(kind, i, j))
    <3>1. j < i
      BY <1>1, <2>2 DEF First, Last
    <3>2. g[Part(kind, i, j)] = Rule(t, f, Part(kind, i, j))
      BY <1>2
    <3> HIDE DEF f, g
    <3>3. Rule(t, f, Part(kind, i, j)) = Rule(t, g, Part(kind, i, j))
      BY <3>1, EmptyPart DEF Rule, Part
    <3> QED BY <3>2, <3>3
  <2> HIDE DEF g
  <2>3. Follows(t, g, 0)
    BY <2>2 DEF Follows
  <2> QED BY <2>1, <2>3
<1>4. ASSUME NEW m \in Nat, m \in T
      PROVE  m + 1 \in T
  <2>1. PICK f : IsReading(t, f) /\ Follows(t, f, m)
    BY <1>4
  <2> DEFINE g == [s \in Grammar!Parts(t) |-> Rule(t, f, s)]
  <2>2. IsReading(t, g)
    BY DEF IsReading
  <2>3. \A kind \in Kind, i \in First(t), j \in Last(t) :
          g[Part(kind, i, j)] = Rule(t, f, Part(kind, i, j))
    BY <1>2
  <2> HIDE DEF g
  <2>4. Agree(t, f, g, m)
    BY <2>1, <2>3 DEF Agree, Follows
  <2>5. ASSUME NEW kind \in Kind, NEW i \in First(t), NEW j \in Last(t), j + 1 < i + (m + 1)
        PROVE  g[Part(kind, i, j)] = Rule(t, g, Part(kind, i, j))
    <3>1. j < i + m
      BY <1>1, <2>5 DEF First, Last
    <3>2. Rule(t, f, Part(kind, i, j)) = Rule(t, g, Part(kind, i, j))
      BY <2>4, <3>1, RuleAt
    <3> QED BY <2>3, <3>2
  <2>6. Follows(t, g, m + 1)
    BY <2>5 DEF Follows
  <2>7. m + 1 \in Nat
    OBVIOUS
  <2> QED BY <2>2, <2>6, <2>7
<1> HIDE DEF T
<1>5. n \in T
  BY <1>3, <1>4, Induction
<1> QED BY <1>5 DEF T

IsOf(t, f) == f = [s \in Grammar!Parts(t) |-> Rule(t, f, s)]

LEMMA OfFollows ==
  ASSUME NEW t \in Seq(Token)
  PROVE  IsOf(t, Grammar!Of(t))
<1>1. Len(t) \in Nat /\ Len(t) + 2 \in Nat
  BY LenProperties
<1>2. PICK f : IsReading(t, f) /\ Follows(t, f, Len(t) + 2)
  BY <1>1, FollowsExist
<1>3. ASSUME NEW s \in Grammar!Parts(t)
      PROVE  f[s] = Rule(t, f, s)
  <2>1. PICK kind \in Kind, i \in First(t), j \in Last(t) : s = Part(kind, i, j)
    BY DEF Kind, First, Last, Part, Grammar!Parts
  <2>2. j + 1 < i + (Len(t) + 2)
    BY <1>1 DEF First, Last
  <2> QED BY <1>2, <2>1, <2>2 DEF Follows
<1>4. IsOf(t, f)
  BY <1>2, <1>3 DEF IsOf, IsReading
<1>5. Grammar!Of(t) = CHOOSE g : IsOf(t, g)
  BY DEF IsOf, Rule, Grammar!Of
<1> QED BY <1>4, <1>5

LEMMA OfAt ==
  ASSUME NEW t \in Seq(Token), NEW i \in First(t), NEW j \in Last(t)
  PROVE  /\ Grammar!Items(t, i, j) = Grammar!ItemsOf(t, Grammar!Of(t), i, j)
         /\ Grammar!Cars(t, i, j) = Grammar!CarsOf(t, Grammar!Of(t), i, j)
         /\ Grammar!Single(t, i, j) = Grammar!SingleOf(t, Grammar!Of(t), i, j)
<1> DEFINE f == Grammar!Of(t)
<1>1. /\ <<"items", i, j>> \in Grammar!Parts(t) /\ <<"items", i, j>>[1] = "items"
      /\ <<"cars", i, j>> \in Grammar!Parts(t) /\ <<"cars", i, j>>[1] = "cars"
      /\ <<"single", i, j>> \in Grammar!Parts(t) /\ <<"single", i, j>>[1] = "single"
  BY DEF First, Last, Grammar!Parts
<1>2. f = [s \in Grammar!Parts(t) |-> Rule(t, f, s)]
  BY OfFollows DEF IsOf
<1> HIDE DEF f
<1>3. /\ f[<<"items", i, j>>] = Rule(t, f, <<"items", i, j>>)
      /\ f[<<"cars", i, j>>] = Rule(t, f, <<"cars", i, j>>)
      /\ f[<<"single", i, j>>] = Rule(t, f, <<"single", i, j>>)
  BY <1>1, <1>2
<1>4. /\ f[<<"items", i, j>>] = Grammar!ItemsOf(t, f, i, j)
      /\ f[<<"cars", i, j>>] = Grammar!CarsOf(t, f, i, j)
      /\ f[<<"single", i, j>>] = Grammar!SingleOf(t, f, i, j)
  BY <1>3 DEF Rule
<1> QED BY <1>4 DEF f, Grammar!Items, Grammar!Cars, Grammar!Single

-----------------------------------------------------------------------------
(* What the rules say of the members of readings                           *)
IsListPair(open, close) == <<open, close>> \in {<<"(", ")">>, <<"[", "]">>}
IsVectorPair(open, close) == <<open, close>> = <<"#(", ")">>

IsDotted(t, i, j, k) == k \in (i + 1)..(j - 1) /\ t[k] = "."

LEMMA DatumRules ==
  ASSUME NEW t \in Seq(Token), NEW i \in First(t), NEW j \in Last(t)
  PROVE  /\ i = j /\ t[i] = "atom" => <<"atom", i>> \in Grammar!Datum(t, i, j)
         /\ i < j /\ IsListPair(t[i], t[j]) =>
              /\ \A items \in Grammar!Items(t, i + 1, j - 1) :
                   Grammar!Joined(items, Grammar!Nil) \in Grammar!Datum(t, i, j)
              /\ \A k : IsDotted(t, i, j, k) =>
                   \A items \in Grammar!Cars(t, i + 1, k - 1),
                      cdr \in Grammar!Single(t, k + 1, j - 1) :
                     Grammar!Joined(items, cdr) \in Grammar!Datum(t, i, j)
         /\ i < j /\ IsVectorPair(t[i], t[j]) =>
              \A items \in Grammar!Items(t, i + 1, j - 1) :
                <<"vector", items>> \in Grammar!Datum(t, i, j)
<1> DEFINE I == Grammar!Items(t, i + 1, j - 1)
           C(k) == Grammar!Cars(t, i + 1, k - 1)
           S(k) == Grammar!Single(t, k + 1, j - 1)
           K == {k \in (i + 1)..(j - 1) : t[k] = "."}
           D == Grammar!Datum(t, i, j)
<1>1. i \in Int /\ j \in Int
  BY LenProperties DEF First, Last
<1>2. D = IF i = j /\ t[i] = "atom" THEN {<<"atom", i>>}
          ELSE IF i < j /\ <<t[i], t[j]>> \in {<<"(", ")">>, <<"[", "]">>}
          THEN {Grammar!Joined(items, Grammar!Nil) : items \in I}
               \cup UNION {{Grammar!Joined(items, cdr) : items \in C(k), cdr \in S(k)} : k \in K}
          ELSE IF i < j /\ <<t[i], t[j]>> = <<"#(", ")">>
          THEN {<<"vector", items>> : items \in I}
          ELSE {}
  BY DEF Grammar!Datum, Grammar!DatumOf, Grammar!Items, Grammar!Cars, Grammar!Single
<1> HIDE DEF I, C, S, D, K
<1>3. i = j /\ t[i] = "atom" => <<"atom", i>> \in D
  BY <1>2
<1>4. ASSUME i < j, IsListPair(t[i], t[j])
      PROVE  D = {Grammar!Joined(items, Grammar!Nil) : items \in I}
                 \cup UNION {{Grammar!Joined(items, cdr) : items \in C(k), cdr \in S(k)} :
                               k \in K}
  <2>1. ~(i = j)
    BY <1>1, <1>4
  <2> QED BY <1>2, <1>4, <2>1 DEF IsListPair
<1>5. ASSUME i < j, IsListPair(t[i], t[j])
      PROVE  /\ \A items \in I : Grammar!Joined(items, Grammar!Nil) \in D
             /\ \A k \in K : \A items \in C(k), cdr \in S(k) : Grammar!Joined(items, cdr) \in D
  BY <1>4, <1>5
<1>6. ASSUME i < j, IsVectorPair(t[i], t[j])
      PROVE  D = {<<"vector", items>> : items \in I}
  <2>1. ~(i = j)
    BY <1>1, <1>6
  <2>2. <<t[i], t[j]>> \notin {<<"(", ")">>, <<"[", "]">>}
    BY <1>6 DEF IsVectorPair
  <2> QED BY <1>2, <1>6, <2>1, <2>2 DEF IsVectorPair
<1>7. ASSUME i < j, IsVectorPair(t[i], t[j])
      PROVE  \A items \in I : <<"vector", items>> \in D
  BY <1>6, <1>7
<1> QED BY <1>3, <1>5, <1>7 DEF I, C, S, D, K, IsDotted

(* The three kinds of a datum                                              *)
AtomAt(t, i, j, d) == i = j /\ t[i] = "atom" /\ d = <<"atom", i>>

ProperAt(t, i, j, d) ==
  \E items \in Grammar!Items(t, i + 1, j - 1) : d = Grammar!Joined(items, Grammar!Nil)

DottedAt(t, i, j, d) ==
  \E k : /\ IsDotted(t, i, j, k)
         /\ \E items \in Grammar!Cars(t, i + 1, k - 1), cdr \in Grammar!Single(t, k + 1, j - 1) :
              d = Grammar!Joined(items, cdr)

VectorAt(t, i, j, d) ==
  \E items \in Grammar!Items(t, i + 1, j - 1) : d = <<"vector", items>>

LEMMA DatumCases ==
  ASSUME NEW t \in Seq(Token), NEW i \in First(t), NEW j \in Last(t),
         NEW d \in Grammar!Datum(t, i, j)
  PROVE  \/ AtomAt(t, i, j, d)
         \/ i < j /\ IsListPair(t[i], t[j]) /\ (ProperAt(t, i, j, d) \/ DottedAt(t, i, j, d))
         \/ i < j /\ IsVectorPair(t[i], t[j]) /\ VectorAt(t, i, j, d)
<1> DEFINE I == Grammar!Items(t, i + 1, j - 1)
           C(k) == Grammar!Cars(t, i + 1, k - 1)
           S(k) == Grammar!Single(t, k + 1, j - 1)
           K == {k \in (i + 1)..(j - 1) : t[k] = "."}
           D == Grammar!Datum(t, i, j)
           P == i < j /\ <<t[i], t[j]>> \in {<<"(", ")">>, <<"[", "]">>}
           V == i < j /\ <<t[i], t[j]>> = <<"#(", ")">>
<1>2. D = IF i = j /\ t[i] = "atom" THEN {<<"atom", i>>}
          ELSE IF P
          THEN {Grammar!Joined(items, Grammar!Nil) : items \in I}
               \cup UNION {{Grammar!Joined(items, cdr) : items \in C(k), cdr \in S(k)} : k \in K}
          ELSE IF V
          THEN {<<"vector", items>> : items \in I}
          ELSE {}
  BY DEF Grammar!Datum, Grammar!DatumOf, Grammar!Items, Grammar!Cars, Grammar!Single
<1>3. d \in D
  OBVIOUS
<1> HIDE DEF I, C, S, D, K, P, V
<1>4. CASE i = j /\ t[i] = "atom"
  BY <1>2, <1>3, <1>4 DEF AtomAt
<1>5. CASE ~(i = j /\ t[i] = "atom") /\ P
  <2>1. d \in {Grammar!Joined(items, Grammar!Nil) : items \in I}
              \cup UNION {{Grammar!Joined(items, cdr) : items \in C(k), cdr \in S(k)} : k \in K}
    BY <1>2, <1>3, <1>5
  <2>2. \/ \E items \in I : d = Grammar!Joined(items, Grammar!Nil)
        \/ \E k \in K : \E items \in C(k), cdr \in S(k) : d = Grammar!Joined(items, cdr)
    BY <2>1
  <2>3. ProperAt(t, i, j, d) \/ DottedAt(t, i, j, d)
    BY <2>2 DEF ProperAt, DottedAt, IsDotted, I, C, S, K
  <2> QED BY <1>5, <2>3 DEF P, IsListPair
<1>6. CASE ~(i = j /\ t[i] = "atom") /\ ~P /\ V
  <2>1. d \in {<<"vector", items>> : items \in I}
    BY <1>2, <1>3, <1>6
  <2>2. VectorAt(t, i, j, d)
    BY <2>1 DEF VectorAt, I
  <2> QED BY <1>6, <2>2 DEF V, IsVectorPair
<1>7. CASE ~(i = j /\ t[i] = "atom") /\ ~P /\ ~V
  <2>1. d \in {}
    BY <1>2, <1>3, <1>7
  <2> QED BY <2>1
<1> QED BY <1>4, <1>5, <1>6, <1>7

LEMMA DatumSpan ==
  ASSUME NEW t \in Seq(Token), NEW i \in First(t), NEW j \in Last(t),
         NEW d \in Grammar!Datum(t, i, j)
  PROVE  i <= j /\ j \in Nat /\ i \in Nat
<1>1. i \in Nat /\ j \in Nat
  BY LenProperties DEF First, Last
<1> QED BY <1>1, DatumCases DEF AtomAt

LEMMA ItemsNone ==
  ASSUME NEW t \in Seq(Token), NEW i \in First(t), NEW j \in Last(t), j < i
  PROVE  /\ Grammar!Items(t, i, j) = {<<>>}
         /\ Grammar!Cars(t, i, j) = {}
         /\ Grammar!Single(t, i, j) = {}
BY OfAt, EmptyPart

Cons(d, rest) == <<d>> \o rest

(* Items that begin with a datum to n, and behind a comment to n           *)
DatumThen(t, i, j, n) ==
  {Cons(d, rest) : d \in Grammar!Datum(t, i, n), rest \in Grammar!Items(t, n + 1, j)}

CommentThen(t, i, j, n) ==
  IF Grammar!Comment(t, i, n) THEN Grammar!Items(t, n + 1, j) ELSE {}

LEMMA ItemsParts ==
  ASSUME NEW t \in Seq(Token), NEW i \in First(t), NEW j \in Last(t), i <= j, NEW x
  PROVE  x \in Grammar!Items(t, i, j) <=>
           \E n \in i..j : x \in DatumThen(t, i, j, n) \/ x \in CommentThen(t, i, j, n)
<1> DEFINE I(n) == Grammar!Items(t, n + 1, j)
           C(n) == Grammar!Comment(t, i, n)
           P(n) == DatumThen(t, i, j, n)
           K == {n \in i..j : C(n)}
           U == UNION {P(n) : n \in i..j}
           V == UNION {I(n) : n \in K}
<1>1. ~(i > j)
  BY LenProperties DEF First, Last
<1>2. Grammar!Items(t, i, j) = Grammar!ItemsOf(t, Grammar!Of(t), i, j)
  BY OfAt
<1>3. Grammar!ItemsOf(t, Grammar!Of(t), i, j) = IF i > j THEN {<<>>} ELSE U \cup V
  BY DEF Grammar!ItemsOf, Grammar!Items, Grammar!Datum, Grammar!Comment, DatumThen, Cons
<1> HIDE DEF U, V
<1>4. Grammar!Items(t, i, j) = U \cup V
  BY <1>1, <1>2, <1>3
<1> HIDE DEF P, I, C
<1>5. x \in U <=> \E n \in i..j : x \in P(n)
  BY DEF U
<1>6. x \in V <=> \E n \in i..j : C(n) /\ x \in I(n)
  BY DEF V
<1>7. \A n : x \in CommentThen(t, i, j, n) <=> C(n) /\ x \in I(n)
  BY DEF CommentThen, C, I
<1> QED BY <1>4, <1>5, <1>6, <1>7 DEF P

LEMMA ItemsRules ==
  ASSUME NEW t \in Seq(Token), NEW i \in First(t), NEW j \in Last(t), NEW k \in i..j
  PROVE  /\ \A d \in Grammar!Datum(t, i, k), rest \in Grammar!Items(t, k + 1, j) :
              Cons(d, rest) \in Grammar!Items(t, i, j)
         /\ Grammar!Comment(t, i, k) =>
              \A rest \in Grammar!Items(t, k + 1, j) : rest \in Grammar!Items(t, i, j)
<1>1. i <= j
  BY LenProperties DEF First, Last
<1>2. \A d \in Grammar!Datum(t, i, k), rest \in Grammar!Items(t, k + 1, j) :
        Cons(d, rest) \in DatumThen(t, i, j, k)
  BY DEF DatumThen
<1>3. Grammar!Comment(t, i, k) =>
        \A rest \in Grammar!Items(t, k + 1, j) : rest \in CommentThen(t, i, j, k)
  BY DEF CommentThen
<1>4. \A x \in DatumThen(t, i, j, k) : x \in Grammar!Items(t, i, j)
  BY <1>1, ItemsParts
<1>5. \A x \in CommentThen(t, i, j, k) : x \in Grammar!Items(t, i, j)
  BY <1>1, ItemsParts
<1> QED BY <1>2, <1>3, <1>4, <1>5

(* The first of some items                                                 *)
DatumFirst(t, i, j, x, k) ==
  \E d \in Grammar!Datum(t, i, k), rest \in Grammar!Items(t, k + 1, j) : x = Cons(d, rest)

CommentFirst(t, i, j, x, k) ==
  Grammar!Comment(t, i, k) /\ x \in Grammar!Items(t, k + 1, j)

LEMMA ItemsCases ==
  ASSUME NEW t \in Seq(Token), NEW i \in First(t), NEW j \in Last(t), i <= j,
         NEW x \in Grammar!Items(t, i, j)
  PROVE  \E k \in i..j : DatumFirst(t, i, j, x, k) \/ CommentFirst(t, i, j, x, k)
<1>1. PICK n \in i..j : x \in DatumThen(t, i, j, n) \/ x \in CommentThen(t, i, j, n)
  BY ItemsParts
<1>2. x \in DatumThen(t, i, j, n) => DatumFirst(t, i, j, x, n)
  BY DEF DatumThen, DatumFirst
<1>3. x \in CommentThen(t, i, j, n) => CommentFirst(t, i, j, x, n)
  BY DEF CommentThen, CommentFirst
<1> QED BY <1>1, <1>2, <1>3

LEMMA CarsRule ==
  ASSUME NEW t \in Seq(Token), NEW i \in First(t), NEW j \in Last(t), NEW k \in i..j
  PROVE  \A items \in Grammar!Items(t, i, k - 1), d \in Grammar!Datum(t, k, j) :
           Append(items, d) \in Grammar!Cars(t, i, j)
<1> DEFINE I(n) == Grammar!Items(t, i, n - 1)
           D(n) == Grammar!Datum(t, n, j)
           Joins(n) == {Append(items, d) : items \in I(n), d \in D(n)}
<1>1. Grammar!Cars(t, i, j) = Grammar!CarsOf(t, Grammar!Of(t), i, j)
  BY OfAt
<1>2. Grammar!CarsOf(t, Grammar!Of(t), i, j) = UNION {Joins(n) : n \in i..j}
  BY DEF Grammar!CarsOf, Grammar!Items, Grammar!Datum
<1> HIDE DEF I, D
<1>3. \A items \in I(k), d \in D(k) : Append(items, d) \in Joins(k)
  OBVIOUS
<1> HIDE DEF Joins
<1>4. Joins(k) \subseteq Grammar!Cars(t, i, j)
  BY <1>1, <1>2
<1> QED BY <1>3, <1>4 DEF I, D

LEMMA CarsCases ==
  ASSUME NEW t \in Seq(Token), NEW i \in First(t), NEW j \in Last(t),
         NEW x \in Grammar!Cars(t, i, j)
  PROVE  \E k \in i..j :
           \E items \in Grammar!Items(t, i, k - 1), d \in Grammar!Datum(t, k, j) :
             x = Append(items, d)
<1> DEFINE I(n) == Grammar!Items(t, i, n - 1)
           D(n) == Grammar!Datum(t, n, j)
           Joins(n) == {Append(items, d) : items \in I(n), d \in D(n)}
<1>1. Grammar!Cars(t, i, j) = Grammar!CarsOf(t, Grammar!Of(t), i, j)
  BY OfAt
<1>2. Grammar!CarsOf(t, Grammar!Of(t), i, j) = UNION {Joins(n) : n \in i..j}
  BY DEF Grammar!CarsOf, Grammar!Items, Grammar!Datum
<1>3. x \in Grammar!Cars(t, i, j)
  OBVIOUS
<1> HIDE DEF I, D, Joins
<1>4. \E k \in i..j : x \in Joins(k)
  BY <1>1, <1>2, <1>3
<1>5. \A k : x \in Joins(k) => \E items \in I(k), d \in D(k) : x = Append(items, d)
  BY DEF Joins
<1> QED BY <1>4, <1>5 DEF I, D

LEMMA SingleMembers ==
  ASSUME NEW t \in Seq(Token), NEW i \in First(t), NEW j \in Last(t), NEW d
  PROVE  d \in Grammar!Single(t, i, j) <=>
           \E k \in i..j : <<>> \in Grammar!Items(t, i, k - 1) /\ d \in Grammar!Datum(t, k, j)
<1> DEFINE I(n) == Grammar!Items(t, i, n - 1)
           D(n) == Grammar!Datum(t, n, j)
<1>1. Grammar!Single(t, i, j) = UNION {D(n) : n \in {n \in i..j : <<>> \in I(n)}}
  BY OfAt DEF Grammar!SingleOf, Grammar!Items, Grammar!Datum
<1> HIDE DEF I, D
<1>2. d \in Grammar!Single(t, i, j) <=> \E k \in i..j : <<>> \in I(k) /\ d \in D(k)
  BY <1>1
<1> QED BY <1>2 DEF I, D

LEMMA CommentMembers ==
  ASSUME NEW t, NEW i, NEW j
  PROVE  Grammar!Comment(t, i, j) <=> i < j /\ t[i] = "#;" /\ Grammar!Single(t, i + 1, j) # {}
BY DEF Grammar!Comment, Grammar!CommentOf, Grammar!Single

-----------------------------------------------------------------------------
(* Items are sequences.                                                    *)
LEMMA ConcatAssociates ==
  ASSUME NEW a, NEW b, NEW c, IsSequence(a), IsSequence(b), IsSequence(c)
  PROVE  (a \o b) \o c = a \o (b \o c)
<1>1. PICK A : a \in Seq(A)
  BY DEF IsSequence
<1>2. PICK B : b \in Seq(B)
  BY DEF IsSequence
<1>3. PICK C : c \in Seq(C)
  BY DEF IsSequence
<1> DEFINE S == (A \cup B) \cup C
<1>4. a \in Seq(S) /\ b \in Seq(S) /\ c \in Seq(S)
  BY <1>1, <1>2, <1>3, SeqMonotonic
<1> QED BY <1>4, ConcatAssociative

LEMMA ConsSequence ==
  ASSUME NEW d, NEW s, IsSequence(s)
  PROVE  IsSequence(Cons(d, s)) /\ Len(Cons(d, s)) = 1 + Len(s) /\ Cons(d, s) # <<>>
<1> DEFINE one == <<d>>
<1>1. one \in Seq({d}) /\ Len(one) = 1
  OBVIOUS
<1>2. IsSequence(one)
  BY <1>1 DEF IsSequence
<1>3. Cons(d, s) = one \o s
  BY DEF Cons
<1> HIDE DEF one
<1>4. IsSequence(one \o s) /\ Len(one \o s) = Len(one) + Len(s)
  BY <1>2, ConcatSequence
<1>5. Len(s) \in Nat
  BY SequenceLen
<1>6. IsSequence(Cons(d, s)) /\ Len(Cons(d, s)) = 1 + Len(s)
  BY <1>1, <1>3, <1>4
<1>7. 1 + Len(s) # 0
  BY <1>5
<1> QED BY <1>6, <1>7, SequenceLen

LEMMA SpanNumbers ==
  ASSUME NEW t \in Seq(Token)
  PROVE  /\ Len(t) \in Nat
         /\ \A i \in First(t) : i \in Nat /\ i > 0 /\ i - 1 \in Last(t)
         /\ \A j \in Last(t) : j \in Nat /\ j <= Len(t) /\ j + 1 \in First(t)
         /\ \A i \in First(t), j \in Last(t) : \A k \in i..j : k \in First(t) /\ k \in Last(t)
<1>1. Len(t) \in Nat
  BY LenProperties
<1> QED BY <1>1 DEF First, Last

SequencesOnly(t, n) ==
  \A i \in First(t), j \in Last(t) : j < i + n => \A s \in Grammar!Items(t, i, j) : IsSequence(s)

LEMMA ItemsSequence ==
  ASSUME NEW t \in Seq(Token), NEW i \in First(t), NEW j \in Last(t),
         NEW s \in Grammar!Items(t, i, j)
  PROVE  IsSequence(s)
<1> DEFINE T == {n \in Nat : SequencesOnly(t, n)}
<1>1. 0 \in T
  <2>1. ASSUME NEW a \in First(t), NEW b \in Last(t), b < a + 0, NEW x \in Grammar!Items(t, a, b)
        PROVE  IsSequence(x)
    <3>1. b < a
      BY <2>1, SpanNumbers
    <3>2. x = <<>>
      BY <3>1, ItemsNone
    <3> QED BY <3>2, EmptySequence
  <2> QED BY <2>1 DEF SequencesOnly
<1>2. ASSUME NEW n \in Nat, n \in T
      PROVE  n + 1 \in T
  <2>1. ASSUME NEW a \in First(t), NEW b \in Last(t), b < a + (n + 1),
               NEW x \in Grammar!Items(t, a, b)
        PROVE  IsSequence(x)
    <3>1. a \in Nat /\ b \in Nat
      BY SpanNumbers
    <3>2. CASE b < a
      BY <3>2, ItemsNone, EmptySequence
    <3>3. CASE a <= b
      <4>1. PICK k \in a..b : DatumFirst(t, a, b, x, k) \/ CommentFirst(t, a, b, x, k)
        BY <3>3, ItemsCases
      <4>2. k \in Nat /\ a <= k /\ k <= b /\ k + 1 \in First(t)
        BY <3>1, SpanNumbers
      <4>3. b < (k + 1) + n
        BY <2>1, <3>1, <4>2
      <4>4. \A y \in Grammar!Items(t, k + 1, b) : IsSequence(y)
        <5>1. SequencesOnly(t, n)
          BY <1>2
        <5> QED BY <4>2, <4>3, <5>1 DEF SequencesOnly
      <4>5. DatumFirst(t, a, b, x, k) => IsSequence(x)
        BY <4>4, ConsSequence DEF DatumFirst
      <4>6. CommentFirst(t, a, b, x, k) => IsSequence(x)
        BY <4>4 DEF CommentFirst
      <4> QED BY <4>1, <4>5, <4>6
    <3> QED BY <3>1, <3>2, <3>3
  <2>2. SequencesOnly(t, n + 1)
    BY <2>1 DEF SequencesOnly
  <2> QED BY <2>2
<1> HIDE DEF T
<1>3. Len(t) + 1 \in T
  <2>1. Len(t) + 1 \in Nat
    BY SpanNumbers
  <2> QED BY <1>1, <1>2, <2>1, Induction
<1>4. SequencesOnly(t, Len(t) + 1)
  BY <1>3 DEF T
<1>5. j < i + (Len(t) + 1)
  BY SpanNumbers
<1> QED BY <1>4, <1>5 DEF SequencesOnly

LEMMA EmptyConcat ==
  ASSUME NEW s, IsSequence(s)
  PROVE  <<>> \o s = s /\ s \o <<>> = s
<1>1. PICK S : s \in Seq(S)
  BY DEF IsSequence
<1> QED BY <1>1, ConcatEmptySeq

-----------------------------------------------------------------------------
(* The first element of a part: a datum, or a comment, which has no value. *)
Start == {"atom", "#;"} \cup Opening

Element(t, i, k, e) ==
  e \in Grammar!Datum(t, i, k) \/ (e = DAT_COM /\ Grammar!Comment(t, i, k))

With(e, rest) == IF e = DAT_COM THEN rest ELSE Cons(e, rest)
Grown(items, e) == IF e = DAT_COM THEN items ELSE Append(items, e)

LEMMA CarsNotEmpty ==
  ASSUME NEW t \in Seq(Token), NEW i \in First(t), NEW j \in Last(t),
         NEW x \in Grammar!Cars(t, i, j)
  PROVE  IsSequence(x) /\ x # <<>> /\ i <= j
<1>1. PICK k \in i..j :
        \E items \in Grammar!Items(t, i, k - 1), d \in Grammar!Datum(t, k, j) :
          x = Append(items, d)
  BY CarsCases
<1>2. PICK items \in Grammar!Items(t, i, k - 1), d \in Grammar!Datum(t, k, j) :
        x = Append(items, d)
  BY <1>1
<1>3. k - 1 \in Last(t) /\ i <= j
  BY SpanNumbers
<1>4. IsSequence(items)
  BY <1>3, ItemsSequence
<1>5. IsSequence(x) /\ Len(x) = Len(items) + 1 /\ Len(items) \in Nat
  BY <1>2, <1>4, AppendSequence, SequenceLen
<1>6. Len(x) > 0
  BY <1>5
<1> QED BY <1>3, <1>5, <1>6, SequenceLen

LEMMA DatumValue ==
  ASSUME NEW t \in Seq(Token), NEW i \in First(t), NEW j \in Last(t),
         NEW d \in Grammar!Datum(t, i, j)
  PROVE  d \notin {DAT_COM, DAT_EOF} /\ t[i] \in Start \ {"#;"} /\ i <= j
<1>1. DAT_COM[1] = "comment" /\ DAT_EOF[1] = "eof"
  BY DEF DAT_COM, DAT_EOF
<1>2. i <= j /\ i \in Nat /\ j \in Nat
  BY DatumSpan
<1>3. t[i] \in {"atom", "(", "[", "#("}
  BY DatumCases DEF AtomAt, IsListPair, IsVectorPair
<1>4. d[1] \in {"atom", "nil", "list", "vector"}
  <2>1. CASE AtomAt(t, i, j, d)
    BY <2>1 DEF AtomAt
  <2>2. CASE ProperAt(t, i, j, d)
    BY <2>2 DEF ProperAt, Grammar!Joined, Grammar!Nil
  <2>3. CASE i < j /\ DottedAt(t, i, j, d)
    <3>1. PICK k : /\ IsDotted(t, i, j, k)
                   /\ \E items \in Grammar!Cars(t, i + 1, k - 1),
                         cdr \in Grammar!Single(t, k + 1, j - 1) :
                        d = Grammar!Joined(items, cdr)
      BY <2>3 DEF DottedAt
    <3>2. PICK items \in Grammar!Cars(t, i + 1, k - 1), cdr \in Grammar!Single(t, k + 1, j - 1) :
            d = Grammar!Joined(items, cdr)
      BY <3>1
    <3>3. i + 1 \in First(t) /\ k - 1 \in Last(t)
      BY <1>2, <2>3, <3>1, SpanNumbers DEF IsDotted, First, Last
    <3>4. items # <<>>
      BY <3>3, CarsNotEmpty
    <3> QED BY <3>2, <3>4 DEF Grammar!Joined
  <2>4. CASE VectorAt(t, i, j, d)
    BY <2>4 DEF VectorAt
  <2> QED BY <2>1, <2>2, <2>3, <2>4, DatumCases
<1> QED BY <1>1, <1>2, <1>3, <1>4 DEF Start, Opening

LEMMA ElementFacts ==
  ASSUME NEW t \in Seq(Token), NEW i \in First(t), NEW k \in Last(t), NEW e,
         Element(t, i, k, e)
  PROVE  /\ i <= k /\ k \in i..k /\ k + 1 \in First(t)
         /\ t[i] \in Start
         /\ e # DAT_EOF
         /\ e = DAT_COM => Grammar!Comment(t, i, k)
         /\ e # DAT_COM => e \in Grammar!Datum(t, i, k)
<1>1. i \in Nat /\ k \in Nat /\ k + 1 \in First(t) /\ DAT_COM # DAT_EOF
  BY SpanNumbers DEF DAT_COM, DAT_EOF
<1>2. CASE e \in Grammar!Datum(t, i, k)
  <2>1. e \notin {DAT_COM, DAT_EOF} /\ t[i] \in Start /\ i <= k
    BY <1>2, DatumValue
  <2> QED BY <1>1, <1>2, <2>1
<1>3. CASE e = DAT_COM /\ Grammar!Comment(t, i, k)
  <2>1. i < k
    BY <1>3, CommentMembers
  <2>2. i <= k /\ k \in i..k
    BY <1>1, <2>1
  <2>3. t[i] \in Start
    BY <1>3, CommentMembers DEF Start
  <2> QED BY <1>1, <1>3, <2>2, <2>3
<1> QED BY <1>2, <1>3 DEF Element

(* Items, cars and a single datum by their first element                   *)
ItemsFrom(t, i, j, x) ==
  \E k \in i..j :
    \E e : Element(t, i, k, e) /\ \E rest \in Grammar!Items(t, k + 1, j) : x = With(e, rest)

LEMMA ItemsByElement ==
  ASSUME NEW t \in Seq(Token), NEW i \in First(t), NEW j \in Last(t), i <= j, NEW x
  PROVE  x \in Grammar!Items(t, i, j) <=> ItemsFrom(t, i, j, x)
<1>1. \A k \in i..j : k \in Last(t)
  BY SpanNumbers
<1>2. ASSUME x \in Grammar!Items(t, i, j)
      PROVE  ItemsFrom(t, i, j, x)
  <2>1. PICK k \in i..j : DatumFirst(t, i, j, x, k) \/ CommentFirst(t, i, j, x, k)
    BY <1>2, ItemsCases
  <2>2. CASE DatumFirst(t, i, j, x, k)
    <3>1. PICK d \in Grammar!Datum(t, i, k), rest \in Grammar!Items(t, k + 1, j) :
          x = Cons(d, rest)
      BY <2>2 DEF DatumFirst
    <3>2. d # DAT_COM
      BY <1>1, DatumValue
    <3>3. Element(t, i, k, d) /\ x = With(d, rest)
      BY <3>1, <3>2 DEF Element, With
    <3> QED BY <3>3 DEF ItemsFrom
  <2>3. CASE CommentFirst(t, i, j, x, k)
    <3>1. Element(t, i, k, DAT_COM) /\ x \in Grammar!Items(t, k + 1, j) /\ x = With(DAT_COM, x)
      BY <2>3 DEF CommentFirst, Element, With
    <3> QED BY <3>1 DEF ItemsFrom
  <2> QED BY <2>1, <2>2, <2>3
<1>3. ASSUME ItemsFrom(t, i, j, x)
      PROVE  x \in Grammar!Items(t, i, j)
  <2>1. PICK k \in i..j :
          \E e : Element(t, i, k, e) /\ \E rest \in Grammar!Items(t, k + 1, j) : x = With(e, rest)
    BY <1>3 DEF ItemsFrom
  <2>2. PICK e : Element(t, i, k, e) /\ \E rest \in Grammar!Items(t, k + 1, j) : x = With(e, rest)
    BY <2>1
  <2>3. PICK rest \in Grammar!Items(t, k + 1, j) : x = With(e, rest)
    BY <2>2
  <2>4. e = DAT_COM => Grammar!Comment(t, i, k)
    BY <1>1, <2>2, ElementFacts
  <2>5. e # DAT_COM => e \in Grammar!Datum(t, i, k)
    BY <1>1, <2>2, ElementFacts
  <2> QED BY <2>3, <2>4, <2>5, ItemsRules DEF With
<1> QED BY <1>2, <1>3

LEMMA AppendIsLast ==
  ASSUME NEW s, NEW d, IsSequence(s)
  PROVE  Append(s, d) = s \o <<d>>
<1>1. PICK S : s \in Seq(S)
  BY DEF IsSequence
<1>2. s \in Seq(S \cup {d}) /\ d \in S \cup {d}
  BY <1>1, SeqMonotonic
<1> QED BY <1>2, AppendIsConcat

LEMMA OneSequence ==
  ASSUME NEW d
  PROVE  IsSequence(<<d>>)
<1>1. <<d>> \in Seq({d})
  OBVIOUS
<1> QED BY <1>1 DEF IsSequence

LEMMA AppendWith ==
  ASSUME NEW s, NEW d, NEW e, IsSequence(s)
  PROVE  Append(With(e, s), d) = With(e, Append(s, d))
<1> DEFINE one == <<d>>
           first == <<e>>
<1>1. IsSequence(one) /\ IsSequence(first)
  BY OneSequence
<1>2. IsSequence(Cons(e, s))
  BY ConsSequence
<1>3. Append(s, d) = s \o one /\ Append(Cons(e, s), d) = Cons(e, s) \o one
  BY <1>2, AppendIsLast
<1>4. Cons(e, s) = first \o s /\ Cons(e, s \o one) = first \o (s \o one)
  BY DEF Cons
<1> HIDE DEF one, first
<1>5. (first \o s) \o one = first \o (s \o one)
  BY <1>1, ConcatAssociates
<1> QED BY <1>3, <1>4, <1>5 DEF With

(* An element read behind items is the first of the rest.                  *)
Joins(items, e, rest) ==
  IsSequence(Grown(items, e)) /\ Grown(items, e) \o rest = items \o With(e, rest)

LEMMA GrownConcat ==
  ASSUME NEW items, NEW e, NEW rest, IsSequence(items), IsSequence(rest)
  PROVE  Joins(items, e, rest)
<1> DEFINE one == <<e>>
<1>1. IsSequence(one)
  BY OneSequence
<1>2. IsSequence(Append(items, e)) /\ Append(items, e) = items \o one
  BY AppendSequence, AppendIsLast
<1>3. Cons(e, rest) = one \o rest
  BY DEF Cons
<1> HIDE DEF one
<1>4. (items \o one) \o rest = items \o (one \o rest)
  BY <1>1, ConcatAssociates
<1> QED BY <1>2, <1>3, <1>4 DEF Joins, With, Grown

(* The element e to k is the last one, or cars begin behind it.            *)
CarsThen(t, j, k, e, x) ==
  \/ k = j /\ e # DAT_COM /\ x = <<e>>
  \/ \E rest \in Grammar!Cars(t, k + 1, j) : x = With(e, rest)

CarsFrom(t, i, j, x) ==
  \E k \in i..j : \E e : Element(t, i, k, e) /\ CarsThen(t, j, k, e, x)

LEMMA CarsByElement ==
  ASSUME NEW t \in Seq(Token), NEW i \in First(t), NEW j \in Last(t), i <= j, NEW x
  PROVE  x \in Grammar!Cars(t, i, j) <=> CarsFrom(t, i, j, x)
<1>1. /\ i \in Nat /\ j \in Nat
      /\ \A k \in i..j : /\ k \in Nat /\ k - 1 \in Last(t) /\ k \in Last(t) /\ k + 1 \in First(t)
                         /\ k \in First(t)
  BY SpanNumbers
<1>2. ASSUME x \in Grammar!Cars(t, i, j)
      PROVE  CarsFrom(t, i, j, x)
  <2>1. PICK k \in i..j :
          \E items \in Grammar!Items(t, i, k - 1), d \in Grammar!Datum(t, k, j) :
            x = Append(items, d)
    BY <1>2, CarsCases
  <2>2. PICK items \in Grammar!Items(t, i, k - 1), d \in Grammar!Datum(t, k, j) :
          x = Append(items, d)
    BY <2>1
  <2>3. d # DAT_COM
    BY <1>1, DatumValue
  <2>4. CASE i = k
    <3>1. k - 1 < i
      BY <1>1, <2>4
    <3>2. items = <<>>
      BY <1>1, <3>1, ItemsNone
    <3>3. x = <<d>>
      BY <2>2, <3>2
    <3>4. Element(t, i, j, d)
      BY <2>4 DEF Element
    <3>5. CarsThen(t, j, j, d, x)
      BY <2>3, <3>3 DEF CarsThen
    <3>6. j \in i..j
      BY <1>1
    <3> QED BY <3>4, <3>5, <3>6 DEF CarsFrom
  <2>5. CASE i < k
    <3>1. i <= k - 1 /\ k - 1 \in Last(t)
      BY <1>1, <2>5
    <3>2. ItemsFrom(t, i, k - 1, items)
      BY <3>1, ItemsByElement
    <3>3. PICK m \in i..(k - 1) :
            \E e : Element(t, i, m, e)
                   /\ \E rest \in Grammar!Items(t, m + 1, k - 1) : items = With(e, rest)
      BY <3>2 DEF ItemsFrom
    <3>4. PICK e : Element(t, i, m, e)
                   /\ \E rest \in Grammar!Items(t, m + 1, k - 1) : items = With(e, rest)
      BY <3>3
    <3>5. PICK rest \in Grammar!Items(t, m + 1, k - 1) : items = With(e, rest)
      BY <3>4
    <3>6. m \in i..j /\ k \in (m + 1)..j /\ m + 1 \in First(t)
      BY <1>1
    <3>7. IsSequence(rest)
      BY <3>1, <3>6, ItemsSequence
    <3>8. x = With(e, Append(rest, d))
      BY <2>2, <3>5, <3>7, AppendWith
    <3>9. Append(rest, d) \in Grammar!Cars(t, m + 1, j)
      BY <3>6, CarsRule
    <3>10. CarsThen(t, j, m, e, x)
      BY <3>8, <3>9 DEF CarsThen
    <3> QED BY <3>4, <3>6, <3>10 DEF CarsFrom
  <2> QED BY <1>1, <2>4, <2>5
<1>3. ASSUME CarsFrom(t, i, j, x)
      PROVE  x \in Grammar!Cars(t, i, j)
  <2>1. PICK k \in i..j : \E e : Element(t, i, k, e) /\ CarsThen(t, j, k, e, x)
    BY <1>3 DEF CarsFrom
  <2>2. PICK e : Element(t, i, k, e) /\ CarsThen(t, j, k, e, x)
    BY <2>1
  <2>3. e # DAT_COM => e \in Grammar!Datum(t, i, k)
    BY <1>1, <2>2, ElementFacts
  <2>4. CASE k = j /\ e # DAT_COM /\ x = <<e>>
    <3>1. i - 1 < i /\ i - 1 \in Last(t) /\ i \in i..j
      BY <1>1
    <3>2. <<>> \in Grammar!Items(t, i, i - 1)
      BY <3>1, ItemsNone
    <3>3. Append(<<>>, e) \in Grammar!Cars(t, i, j)
      BY <2>3, <2>4, <3>1, <3>2, CarsRule
    <3>4. Append(<<>>, e) = <<e>>
      OBVIOUS
    <3> QED BY <2>4, <3>3, <3>4
  <2>5. CASE \E rest \in Grammar!Cars(t, k + 1, j) : x = With(e, rest)
    <3>1. PICK cars \in Grammar!Cars(t, k + 1, j) : x = With(e, cars)
      BY <2>5
    <3>2. PICK n \in (k + 1)..j :
            \E items \in Grammar!Items(t, k + 1, n - 1), d \in Grammar!Datum(t, n, j) :
              cars = Append(items, d)
      BY <1>1, CarsCases
    <3>3. PICK items \in Grammar!Items(t, k + 1, n - 1), d \in Grammar!Datum(t, n, j) :
            cars = Append(items, d)
      BY <3>2
    <3>4. n \in i..j /\ k \in i..(n - 1) /\ i <= n - 1 /\ n - 1 \in Last(t)
      BY <1>1
    <3>5. With(e, items) \in Grammar!Items(t, i, n - 1)
      <4>1. ItemsFrom(t, i, n - 1, With(e, items))
        BY <2>2, <3>4 DEF ItemsFrom
      <4> QED BY <3>4, <4>1, ItemsByElement
    <3>6. IsSequence(items)
      BY <1>1, <3>4, ItemsSequence
    <3>7. x = Append(With(e, items), d)
      BY <3>1, <3>3, <3>6, AppendWith
    <3> QED BY <3>4, <3>5, <3>7, CarsRule
  <2> QED BY <2>2, <2>4, <2>5 DEF CarsThen
<1> QED BY <1>2, <1>3

(* A comment may go before a single datum.                                 *)
SingleThen(t, j, k, e, d) ==
  IF e = DAT_COM THEN d \in Grammar!Single(t, k + 1, j) ELSE k = j /\ d = e

SingleFrom(t, i, j, d) ==
  \E k \in i..j : \E e : Element(t, i, k, e) /\ SingleThen(t, j, k, e, d)

LEMMA SingleByElement ==
  ASSUME NEW t \in Seq(Token), NEW i \in First(t), NEW j \in Last(t), i <= j, NEW d
  PROVE  d \in Grammar!Single(t, i, j) <=> SingleFrom(t, i, j, d)
<1>1. /\ i \in Nat /\ j \in Nat /\ i \in i..j /\ j \in i..j
      /\ \A k \in i..j : /\ k \in Nat /\ k - 1 \in Last(t) /\ k \in Last(t) /\ k + 1 \in First(t)
                         /\ k \in First(t)
  BY SpanNumbers
<1>2. ASSUME d \in Grammar!Single(t, i, j)
      PROVE  SingleFrom(t, i, j, d)
  <2>1. PICK k \in i..j : <<>> \in Grammar!Items(t, i, k - 1) /\ d \in Grammar!Datum(t, k, j)
    BY <1>2, SingleMembers
  <2>2. CASE i = k
    <3>1. Element(t, i, j, d) /\ d # DAT_COM
      BY <1>1, <2>1, <2>2, DatumValue DEF Element
    <3> QED BY <1>1, <3>1 DEF SingleFrom, SingleThen
  <2>3. CASE i < k
    <3>1. i <= k - 1 /\ k - 1 \in Last(t)
      BY <1>1, <2>3
    <3>2. ItemsFrom(t, i, k - 1, <<>>)
      BY <2>1, <3>1, ItemsByElement
    <3>3. PICK m \in i..(k - 1) :
            \E e : Element(t, i, m, e)
                   /\ \E rest \in Grammar!Items(t, m + 1, k - 1) : <<>> = With(e, rest)
      BY <3>2 DEF ItemsFrom
    <3>4. PICK e : Element(t, i, m, e)
                   /\ \E rest \in Grammar!Items(t, m + 1, k - 1) : <<>> = With(e, rest)
      BY <3>3
    <3>5. PICK rest \in Grammar!Items(t, m + 1, k - 1) : <<>> = With(e, rest)
      BY <3>4
    <3>6. m \in i..j /\ k \in (m + 1)..j /\ m + 1 \in First(t)
      BY <1>1
    <3>7. e = DAT_COM /\ rest = <<>>
      BY <3>1, <3>5, <3>6, ItemsSequence, ConsSequence DEF With
    <3>8. d \in Grammar!Single(t, m + 1, j)
      BY <2>1, <3>6, <3>7, SingleMembers
    <3> QED BY <3>4, <3>6, <3>7, <3>8 DEF SingleFrom, SingleThen
  <2> QED BY <1>1, <2>2, <2>3
<1>3. ASSUME SingleFrom(t, i, j, d)
      PROVE  d \in Grammar!Single(t, i, j)
  <2>1. PICK k \in i..j : \E e : Element(t, i, k, e) /\ SingleThen(t, j, k, e, d)
    BY <1>3 DEF SingleFrom
  <2>2. PICK e : Element(t, i, k, e) /\ SingleThen(t, j, k, e, d)
    BY <2>1
  <2>3. CASE e # DAT_COM
    <3>1. d \in Grammar!Datum(t, i, j)
      BY <1>1, <2>2, <2>3, ElementFacts DEF SingleThen
    <3>2. i - 1 < i /\ i - 1 \in Last(t)
      BY <1>1
    <3>3. <<>> \in Grammar!Items(t, i, i - 1)
      BY <3>2, ItemsNone
    <3> QED BY <1>1, <3>1, <3>3, SingleMembers
  <2>4. CASE e = DAT_COM
    <3>1. d \in Grammar!Single(t, k + 1, j)
      BY <2>2, <2>4 DEF SingleThen
    <3>2. PICK n \in (k + 1)..j :
            <<>> \in Grammar!Items(t, k + 1, n - 1) /\ d \in Grammar!Datum(t, n, j)
      BY <1>1, <3>1, SingleMembers
    <3>3. n \in i..j /\ k \in i..(n - 1) /\ i <= n - 1 /\ n - 1 \in Last(t)
      BY <1>1
    <3>4. <<>> = With(e, <<>>)
      BY <2>4 DEF With
    <3>5. ItemsFrom(t, i, n - 1, <<>>)
      BY <2>2, <3>2, <3>3, <3>4 DEF ItemsFrom
    <3>6. <<>> \in Grammar!Items(t, i, n - 1)
      BY <3>3, <3>5, ItemsByElement
    <3> QED BY <3>2, <3>3, <3>6, SingleMembers
  <2> QED BY <2>3, <2>4
<1> QED BY <1>2, <1>3

LEMMA NoElement ==
  ASSUME NEW t \in Seq(Token), NEW i \in First(t), NEW j \in Last(t), i <= j, t[i] \notin Start
  PROVE  /\ Grammar!Items(t, i, j) = {}
         /\ Grammar!Cars(t, i, j) = {}
         /\ Grammar!Single(t, i, j) = {}
<1>1. ASSUME NEW k \in i..j, NEW e
      PROVE  ~Element(t, i, k, e)
  <2>1. k \in Last(t)
    BY SpanNumbers
  <2> QED BY <2>1, ElementFacts
<1>2. \A x : ~ItemsFrom(t, i, j, x) /\ ~CarsFrom(t, i, j, x) /\ ~SingleFrom(t, i, j, x)
  BY <1>1 DEF ItemsFrom, CarsFrom, SingleFrom
<1>3. \A x : x \notin Grammar!Items(t, i, j)
  BY <1>2, ItemsByElement
<1>4. \A x : x \notin Grammar!Cars(t, i, j)
  BY <1>2, CarsByElement
<1>5. \A x : x \notin Grammar!Single(t, i, j)
  BY <1>2, SingleByElement
<1> QED BY <1>3, <1>4, <1>5

LEMMA NoStart ==
  /\ Close \cap Start = {}
  /\ "." \notin Start
  /\ "." \notin Close
  /\ (Invalid \cup Abbreviation) \cap Start = {}
<1>1. \A x \in Close : x \notin Start
  BY DEF Close, Start, Opening
<1>2. \A x \in Invalid \cup Abbreviation : x \notin Start
  BY DEF Invalid, Abbreviation, Start, Opening
<1>3. "." \notin Start
  BY DEF Start, Opening
<1>4. "." \notin Close
  BY DEF Close
<1> QED BY <1>1, <1>2, <1>3, <1>4

-----------------------------------------------------------------------------
(* What the text lets the reader do.  read at p may give e, having read    *)
(* the tokens to q: a datum, DAT_COM for a comment, which may be cut off   *)
(* by the end of the text, or DAT_EOF.                                     *)
TokenIs(t, p, x) == p <= Len(t) /\ t[p] = x
IsCut(t) == t # <<>> /\ t[Len(t)] = "#;"

Gives(t, p, q, e) ==
  /\ q \in Last(t)
  /\ \/ Element(t, p, q, e)
     \/ e = DAT_COM /\ p = q /\ q = Len(t) /\ IsCut(t)
     \/ e = DAT_EOF /\ p = Len(t) + 1 /\ q = Len(t)

(* The activations that have kept "items" may return v, having read the    *)
(* tokens from p to m.                                                     *)
TextFrom(t, p) ==
  Grammar!Items(t, p, Len(t)) \cup IF IsCut(t) THEN Grammar!Items(t, p, Len(t) - 1) ELSE {}

ParsesFrom(t, items, p, v) == \E x \in TextFrom(t, p) : v = items \o x

ProperFrom(t, items, p, m, v) ==
  \E x \in Grammar!Items(t, p, m - 1) : v = toList(items \o x, SyntaxNil)

DottedFrom(t, items, p, m, v) ==
  \E k \in p..(m - 1) :
    /\ t[k] = "."
    /\ \E x \in Grammar!Cars(t, p, k - 1), d \in Grammar!Single(t, k + 1, m - 1) :
         v = toList(items \o x, d)

ListFrom(t, items, close, p, m, v) ==
  /\ m \in p..Len(t) /\ t[m] = close
  /\ ProperFrom(t, items, p, m, v) \/ DottedFrom(t, items, p, m, v)

CdrFrom(t, items, close, p, m, v) ==
  /\ m \in p..Len(t) /\ t[m] = close
  /\ \E d \in Grammar!Single(t, p, m - 1) : v = toList(items, d)

VectorFrom(t, items, close, p, m, v) ==
  /\ m \in p..Len(t) /\ t[m] = close
  /\ \E x \in Grammar!Items(t, p, m - 1) : v = SyntaxVector(items \o x)

(* The same once their read has given e, up to p.                          *)
AfterDatum(t, items, e, p, v) ==
  IF e = DAT_EOF THEN v = items ELSE ParsesFrom(t, Grown(items, e), p, v)

AfterComment(p, m, v) == m = p - 1 /\ v = DAT_COM

AfterCar(t, items, close, e, p, m, v) ==
  /\ e # DAT_EOF
  /\ IF e # DAT_COM /\ TokenIs(t, p, ".")
     THEN CdrFrom(t, Append(items, e), close, p + 1, m, v)
     ELSE ListFrom(t, Grown(items, e), close, p, m, v)

AfterCdr(t, items, close, e, p, m, v) ==
  /\ e # DAT_EOF
  /\ IF e = DAT_COM THEN CdrFrom(t, items, close, p, m, v)
     ELSE TokenIs(t, p, close) /\ m = p /\ v = toList(items, e)

AfterElement(t, items, close, e, p, m, v) ==
  e # DAT_EOF /\ VectorFrom(t, Grown(items, e), close, p, m, v)

After(t, call, close, items, e, p, m, v) ==
  \/ call = "parseDatum" /\ AfterDatum(t, items, e, p, v)
  \/ call = "comment" /\ AfterComment(p, m, v)
  \/ call = "list" /\ AfterCar(t, items, close, e, p, m, v)
  \/ call = "cdr" /\ AfterCdr(t, items, close, e, p, m, v)
  \/ call = "vector" /\ AfterElement(t, items, close, e, p, m, v)

Reads(t, call, close, items, p, m, v) ==
  \E q, e : Gives(t, p, q, e) /\ After(t, call, close, items, e, q + 1, m, v)

LEMMA GivesFacts ==
  ASSUME NEW t \in Seq(Token), NEW p \in First(t), NEW q, NEW e, Gives(t, p, q, e)
  PROVE  /\ q \in Last(t) /\ q + 1 \in First(t) /\ q + 1 \in Nat /\ p <= q + 1
         /\ p <= Len(t) => /\ Element(t, p, q, e) \/ (e = DAT_COM /\ p = q /\ q = Len(t) /\ IsCut(t))
                           /\ e # DAT_EOF /\ p <= q /\ t[p] \in Start
         /\ p = Len(t) + 1 => e = DAT_EOF /\ q = Len(t)
<1>1. q \in Last(t) /\ q \in Nat /\ p \in Nat /\ Len(t) \in Nat /\ q <= Len(t)
      /\ q + 1 \in First(t)
  BY SpanNumbers DEF Gives
<1>2. CASE Element(t, p, q, e)
  <2>1. p <= q /\ t[p] \in Start /\ e # DAT_EOF
    BY <1>1, <1>2, ElementFacts
  <2> QED BY <1>1, <1>2, <2>1
<1>3. CASE e = DAT_COM /\ p = q /\ q = Len(t) /\ IsCut(t)
  <2>1. t[p] \in Start
    BY <1>3 DEF IsCut, Start
  <2>2. DAT_COM # DAT_EOF
    BY DEF DAT_COM, DAT_EOF
  <2> QED BY <1>1, <1>3, <2>1, <2>2
<1>4. CASE e = DAT_EOF /\ p = Len(t) + 1 /\ q = Len(t)
  BY <1>1, <1>4
<1> QED BY <1>2, <1>3, <1>4 DEF Gives

LEMMA ElementGiven ==
  ASSUME NEW t, NEW p, NEW q \in Last(t), NEW e, Element(t, p, q, e)
  PROVE  Gives(t, p, q, e)
BY DEF Gives

(* The loop of parseDatum's caller                                         *)
IsEnd(t, j) == j = Len(t) \/ (IsCut(t) /\ j = Len(t) - 1)

LEMMA TextMembers ==
  ASSUME NEW t \in Seq(Token), NEW p \in First(t), NEW x
  PROVE  /\ x \in TextFrom(t, p)
            <=> \E j \in Last(t) : IsEnd(t, j) /\ x \in Grammar!Items(t, p, j)
         /\ x \in TextFrom(t, p) => IsSequence(x)
<1>1. Len(t) \in Nat /\ Len(t) \in Last(t)
  BY SpanNumbers DEF Last
<1>2. IsCut(t) => Len(t) # 0
  BY EmptySeq DEF IsCut
<1>3. IsCut(t) => Len(t) - 1 \in Last(t)
  BY <1>1, <1>2 DEF Last
<1>4. x \in TextFrom(t, p) <=> \E j \in Last(t) : IsEnd(t, j) /\ x \in Grammar!Items(t, p, j)
  BY <1>1, <1>3 DEF TextFrom, IsEnd
<1> QED BY <1>4, ItemsSequence

LEMMA EndNumbers ==
  ASSUME NEW t \in Seq(Token), NEW j \in Last(t), IsEnd(t, j)
  PROVE  /\ j \in Nat /\ Len(t) \in Nat /\ Len(t) \in Last(t) /\ IsEnd(t, Len(t))
         /\ j <= Len(t) /\ Len(t) <= j + 1
         /\ j # Len(t) => IsCut(t)
BY SpanNumbers DEF IsEnd, Last

LEMMA TextReads ==
  ASSUME NEW t \in Seq(Token), NEW p \in First(t), NEW items, IsSequence(items),
         NEW close, NEW m, NEW v
  PROVE  ParsesFrom(t, items, p, v) <=> Reads(t, "parseDatum", close, items, p, m, v)
<1>1. \A e, q : After(t, "parseDatum", close, items, e, q, m, v) <=> AfterDatum(t, items, e, q, v)
  BY DEF After
<1>2. p \in Nat /\ Len(t) \in Nat /\ p <= Len(t) + 1 /\ Len(t) \in Last(t) /\ IsEnd(t, Len(t))
      /\ Len(t) + 1 \in First(t)
  BY SpanNumbers DEF First, Last, IsEnd
<1>3. <<>> \in TextFrom(t, Len(t) + 1)
  <2>1. Len(t) < Len(t) + 1
    BY <1>2
  <2>2. <<>> \in Grammar!Items(t, Len(t) + 1, Len(t))
    BY <1>2, <2>1, ItemsNone
  <2> QED BY <1>2, <2>2, TextMembers
<1>4. ASSUME ParsesFrom(t, items, p, v)
      PROVE  Reads(t, "parseDatum", close, items, p, m, v)
  <2>1. PICK x \in TextFrom(t, p) : v = items \o x
    BY <1>4 DEF ParsesFrom
  <2>2. PICK j \in Last(t) : IsEnd(t, j) /\ x \in Grammar!Items(t, p, j)
    BY <2>1, TextMembers
  <2>3. j \in Nat /\ j <= Len(t) /\ Len(t) <= j + 1 /\ (j # Len(t) => IsCut(t))
    BY <2>2, EndNumbers
  <2>4. CASE p <= j
    <3>1. ItemsFrom(t, p, j, x)
      BY <2>2, <2>4, ItemsByElement
    <3>2. PICK k \in p..j :
            \E e : Element(t, p, k, e)
              /\ \E rest \in Grammar!Items(t, k + 1, j) : x = With(e, rest)
      BY <3>1 DEF ItemsFrom
    <3>3. PICK e : Element(t, p, k, e)
          /\ \E rest \in Grammar!Items(t, k + 1, j) : x = With(e, rest)
      BY <3>2
    <3>4. PICK rest \in Grammar!Items(t, k + 1, j) : x = With(e, rest)
      BY <3>3
    <3>5. k \in Last(t) /\ k + 1 \in First(t)
      BY SpanNumbers
    <3>6. rest \in TextFrom(t, k + 1) /\ IsSequence(rest)
      BY <2>2, <3>5, TextMembers
    <3>7. v = Grown(items, e) \o rest
      <4>1. Joins(items, e, rest)
        BY <3>6, GrownConcat
      <4> QED BY <2>1, <3>4, <4>1 DEF Joins
    <3>8. e # DAT_EOF
      BY <3>3, <3>5, ElementFacts
    <3>9. AfterDatum(t, items, e, k + 1, v)
      BY <3>6, <3>7, <3>8 DEF AfterDatum, ParsesFrom
    <3>10. Gives(t, p, k, e)
      BY <3>3, <3>5, ElementGiven
    <3> QED BY <1>1, <3>9, <3>10 DEF Reads
  <2>5. CASE j < p
    <3>1. v = items
      <4>1. x = <<>>
        BY <2>2, <2>5, ItemsNone
      <4> QED BY <2>1, <4>1, EmptyConcat
    <3>2. CASE p = Len(t) + 1
      <4>1. Gives(t, p, Len(t), DAT_EOF)
        BY <1>2, <3>2 DEF Gives
      <4>2. AfterDatum(t, items, DAT_EOF, Len(t) + 1, v)
        BY <3>1 DEF AfterDatum
      <4> QED BY <1>1, <4>1, <4>2 DEF Reads
    <3>3. CASE p = Len(t) /\ j # Len(t)
      <4>1. Gives(t, p, Len(t), DAT_COM)
        BY <1>2, <2>3, <3>3 DEF Gives
      <4>2. Grown(items, DAT_COM) = items /\ v = items \o <<>>
        BY <3>1, EmptyConcat DEF Grown
      <4>3. DAT_COM # DAT_EOF
        BY DEF DAT_COM, DAT_EOF
      <4>4. AfterDatum(t, items, DAT_COM, Len(t) + 1, v)
        BY <1>3, <4>2, <4>3 DEF AfterDatum, ParsesFrom
      <4> QED BY <1>1, <4>1, <4>4 DEF Reads
    <3>4. p = Len(t) + 1 \/ (p = Len(t) /\ j # Len(t))
      BY <1>2, <2>3, <2>5
    <3> QED BY <3>2, <3>3, <3>4
  <2> QED BY <1>2, <2>3, <2>4, <2>5
<1>5. ASSUME Reads(t, "parseDatum", close, items, p, m, v)
      PROVE  ParsesFrom(t, items, p, v)
  <2>1. PICK q, e : Gives(t, p, q, e) /\ AfterDatum(t, items, e, q + 1, v)
    BY <1>1, <1>5 DEF Reads
  <2>2. q \in Last(t) /\ q + 1 \in First(t) /\ q \in Nat /\ q <= Len(t)
    BY <2>1, GivesFacts, SpanNumbers
  <2>3. CASE p = Len(t) + 1
    <3>1. v = items \o <<>>
      BY <2>1, <2>3, GivesFacts, EmptyConcat DEF AfterDatum
    <3> QED BY <1>3, <2>3, <3>1 DEF ParsesFrom
  <2>4. CASE p <= Len(t)
    <3>1. e # DAT_EOF /\ (Element(t, p, q, e) \/ (e = DAT_COM /\ p = q /\ q = Len(t) /\ IsCut(t)))
      BY <2>1, <2>4, GivesFacts
    <3>2. PICK x \in TextFrom(t, q + 1) : v = Grown(items, e) \o x
      BY <2>1, <3>1 DEF AfterDatum, ParsesFrom
    <3>3. IsSequence(x)
      BY <2>2, TextMembers
    <3>4. v = items \o With(e, x)
      <4>1. Joins(items, e, x)
        BY <3>3, GrownConcat
      <4> QED BY <3>2, <4>1 DEF Joins
    <3>5. PICK j \in Last(t) : IsEnd(t, j) /\ x \in Grammar!Items(t, q + 1, j)
      BY <2>2, TextMembers
    <3>6. j \in Nat /\ j <= Len(t) /\ Len(t) <= j + 1
      BY <3>5, EndNumbers
    <3>7. CASE Element(t, p, q, e)
      <4>1. PICK l \in Last(t) : IsEnd(t, l) /\ q <= l /\ x \in Grammar!Items(t, q + 1, l)
        <5>1. CASE q <= j
          BY <3>5, <5>1
        <5>2. CASE j < q
          <6>1. q = Len(t) /\ j < q + 1 /\ Len(t) < q + 1
            BY <2>2, <3>6, <5>2
          <6>2. x \in Grammar!Items(t, q + 1, Len(t))
            BY <1>2, <2>2, <3>5, <6>1, ItemsNone
          <6> QED BY <1>2, <2>2, <6>2
        <5> QED BY <2>2, <3>6, <5>1, <5>2
      <4>2. p <= q /\ l \in Nat
        BY <2>2, <3>7, ElementFacts, SpanNumbers
      <4>3. q \in p..l /\ p <= l
        BY <1>2, <2>2, <4>1, <4>2
      <4>4. ItemsFrom(t, p, l, With(e, x))
        BY <3>7, <4>1, <4>3 DEF ItemsFrom
      <4>5. With(e, x) \in TextFrom(t, p)
        BY <4>1, <4>3, <4>4, ItemsByElement, TextMembers
      <4> QED BY <3>4, <4>5 DEF ParsesFrom
    <3>8. CASE e = DAT_COM /\ p = q /\ q = Len(t) /\ IsCut(t)
      <4>1. j < q + 1
        BY <2>2, <3>6, <3>8
      <4>2. x = <<>>
        BY <2>2, <3>5, <4>1, ItemsNone
      <4>3. With(e, x) = <<>>
        BY <3>8, <4>2 DEF With
      <4>4. Len(t) - 1 \in Last(t) /\ IsEnd(t, Len(t) - 1)
        <5>1. Len(t) # 0
          BY <3>8, EmptySeq DEF IsCut
        <5>2. Len(t) - 1 \in Last(t)
          BY <1>2, <5>1 DEF Last
        <5> QED BY <3>8, <5>2 DEF IsEnd
      <4>5. Len(t) - 1 < p
        BY <1>2, <3>8
      <4>6. <<>> \in TextFrom(t, p)
        BY <4>4, <4>5, ItemsNone, TextMembers
      <4> QED BY <3>4, <4>3, <4>6 DEF ParsesFrom
    <3> QED BY <3>1, <3>7, <3>8
  <2> QED BY <1>2, <2>3, <2>4
<1> QED BY <1>4, <1>5

(* The loop of list                                                        *)
LEMMA ListReads ==
  ASSUME NEW t \in Seq(Token), NEW p \in First(t), NEW items, IsSequence(items),
         NEW close \in Close, NEW m, NEW v, ~TokenIs(t, p, close)
  PROVE  ListFrom(t, items, close, p, m, v) <=> Reads(t, "list", close, items, p, m, v)
<1>1. \A e, q : After(t, "list", close, items, e, q, m, v)
                <=> AfterCar(t, items, close, e, q, m, v)
  BY DEF After
<1>2. p \in Nat /\ Len(t) \in Nat /\ close # "."
  BY SpanNumbers, NoStart
<1>3. ASSUME ListFrom(t, items, close, p, m, v)
      PROVE  Reads(t, "list", close, items, p, m, v)
  <2>1. m \in p..Len(t) /\ t[m] = close
    BY <1>3 DEF ListFrom
  <2>2. m # p
    BY <1>2, <2>1 DEF TokenIs
  <2>3. /\ m \in Nat /\ p <= m - 1 /\ m - 1 \in Last(t)
        /\ \A k \in p..(m - 1) : /\ k \in Last(t) /\ k + 1 \in First(t) /\ k \in First(t)
                                 /\ k - 1 \in Last(t) /\ k \in Nat
    BY <1>2, <2>1, <2>2 DEF First, Last
  <2>4. CASE ProperFrom(t, items, p, m, v)
    <3>1. PICK x \in Grammar!Items(t, p, m - 1) : v = toList(items \o x, SyntaxNil)
      BY <2>4 DEF ProperFrom
    <3>2. ItemsFrom(t, p, m - 1, x)
      BY <2>3, <3>1, ItemsByElement
    <3>3. PICK k \in p..(m - 1) :
            \E e : Element(t, p, k, e)
                   /\ \E rest \in Grammar!Items(t, k + 1, m - 1) : x = With(e, rest)
      BY <3>2 DEF ItemsFrom
    <3>4. PICK e : Element(t, p, k, e)
                   /\ \E rest \in Grammar!Items(t, k + 1, m - 1) : x = With(e, rest)
      BY <3>3
    <3>5. PICK rest \in Grammar!Items(t, k + 1, m - 1) : x = With(e, rest)
      BY <3>4
    <3>6. e # DAT_EOF /\ Gives(t, p, k, e)
      BY <2>3, <3>4, ElementFacts, ElementGiven
    <3>7. ~TokenIs(t, k + 1, ".")
      <4>1. CASE k + 1 = m
        BY <1>2, <2>1, <4>1 DEF TokenIs
      <4>2. CASE k + 1 <= m - 1
        BY <2>3, <3>5, <4>2, NoElement, NoStart DEF TokenIs
      <4> QED BY <2>3, <4>1, <4>2
    <3>8. IsSequence(rest)
      BY <2>3, ItemsSequence
    <3>9. v = toList(Grown(items, e) \o rest, SyntaxNil)
      <4>1. Joins(items, e, rest)
        BY <3>8, GrownConcat
      <4> QED BY <3>1, <3>5, <4>1 DEF Joins
    <3>10. m \in (k + 1)..Len(t)
      BY <2>1, <2>3
    <3>11. ListFrom(t, Grown(items, e), close, k + 1, m, v)
      BY <2>1, <3>9, <3>10 DEF ListFrom, ProperFrom
    <3>12. AfterCar(t, items, close, e, k + 1, m, v)
      BY <3>6, <3>7, <3>11 DEF AfterCar
    <3> QED BY <1>1, <3>6, <3>12 DEF Reads
  <2>5. CASE DottedFrom(t, items, p, m, v)
    <3>1. PICK n \in p..(m - 1) :
            /\ t[n] = "."
            /\ \E x \in Grammar!Cars(t, p, n - 1), d \in Grammar!Single(t, n + 1, m - 1) :
                 v = toList(items \o x, d)
      BY <2>5 DEF DottedFrom
    <3>2. PICK x \in Grammar!Cars(t, p, n - 1), d \in Grammar!Single(t, n + 1, m - 1) :
            v = toList(items \o x, d)
      BY <3>1
    <3>3. n \in Nat /\ n - 1 \in Last(t) /\ p <= n - 1 /\ n <= m - 1
      BY <2>3, CarsNotEmpty
    <3>4. CarsFrom(t, p, n - 1, x)
      BY <3>2, <3>3, CarsByElement
    <3>5. PICK k \in p..(n - 1) : \E e : Element(t, p, k, e) /\ CarsThen(t, n - 1, k, e, x)
      BY <3>4 DEF CarsFrom
    <3>6. PICK e : Element(t, p, k, e) /\ CarsThen(t, n - 1, k, e, x)
      BY <3>5
    <3>7. k \in p..(m - 1) /\ k \in Nat /\ k <= n - 1
      <4>1. m \in Nat
        BY <2>3
      <4> QED BY <1>2, <3>3, <4>1
    <3>8. e # DAT_EOF /\ Gives(t, p, k, e)
      BY <2>3, <3>6, <3>7, ElementFacts, ElementGiven
    <3>9. CASE k = n - 1 /\ e # DAT_COM /\ x = <<e>>
      <4>1. k + 1 = n /\ TokenIs(t, n, ".") /\ n + 1 \in Nat /\ m \in (n + 1)..Len(t)
        BY <2>1, <2>3, <3>1, <3>3, <3>9 DEF TokenIs
      <4>2. v = toList(Append(items, e), d)
        BY <3>2, <3>9, AppendIsLast
      <4>3. CdrFrom(t, Append(items, e), close, n + 1, m, v)
        BY <2>1, <4>1, <4>2 DEF CdrFrom
      <4>4. AfterCar(t, items, close, e, k + 1, m, v)
        BY <3>8, <3>9, <4>1, <4>3 DEF AfterCar
      <4> QED BY <1>1, <3>8, <4>4 DEF Reads
    <3>10. CASE \E rest \in Grammar!Cars(t, k + 1, n - 1) : x = With(e, rest)
      <4>1. PICK rest \in Grammar!Cars(t, k + 1, n - 1) : x = With(e, rest)
        BY <3>10
      <4>2. k + 1 \in First(t)
        BY <2>3, <3>7
      <4>3. IsSequence(rest) /\ k + 1 <= n - 1
        BY <3>3, <4>2, CarsNotEmpty
      <4>4. t[k + 1] \in Start
        BY <3>3, <4>1, <4>2, <4>3, NoElement
      <4>5. ~TokenIs(t, k + 1, ".")
        BY <4>4, NoStart DEF TokenIs
      <4>6. v = toList(Grown(items, e) \o rest, d)
        <5>1. Joins(items, e, rest)
          BY <4>3, GrownConcat
        <5> QED BY <3>2, <4>1, <5>1 DEF Joins
      <4>7. n \in (k + 1)..(m - 1) /\ m \in (k + 1)..Len(t)
        BY <2>1, <2>3, <3>3, <3>7, <4>3
      <4>8. DottedFrom(t, Grown(items, e), k + 1, m, v)
        BY <3>1, <4>6, <4>7 DEF DottedFrom
      <4>9. ListFrom(t, Grown(items, e), close, k + 1, m, v)
        BY <2>1, <4>7, <4>8 DEF ListFrom
      <4>10. AfterCar(t, items, close, e, k + 1, m, v)
        BY <3>8, <4>5, <4>9 DEF AfterCar
      <4> QED BY <1>1, <3>8, <4>10 DEF Reads
    <3> QED BY <3>6, <3>9, <3>10 DEF CarsThen
  <2> QED BY <1>3, <2>4, <2>5 DEF ListFrom
<1>4. ASSUME Reads(t, "list", close, items, p, m, v)
      PROVE  ListFrom(t, items, close, p, m, v)
  <2>1. PICK q, e : Gives(t, p, q, e) /\ AfterCar(t, items, close, e, q + 1, m, v)
    BY <1>1, <1>4 DEF Reads
  <2>2. /\ q \in Last(t) /\ q + 1 \in First(t) /\ q \in Nat /\ q <= Len(t)
        /\ p <= Len(t) \/ p = Len(t) + 1
    BY <1>2, <2>1, GivesFacts, SpanNumbers DEF First
  <2>3. e # DAT_EOF
    BY <2>1 DEF AfterCar
  <2>4. p <= Len(t)
    BY <2>1, <2>2, <2>3, GivesFacts
  <2>5. p <= q /\ (Element(t, p, q, e) \/ (e = DAT_COM /\ q = Len(t)))
    BY <2>1, <2>4, GivesFacts
  <2>6. CASE e # DAT_COM /\ TokenIs(t, q + 1, ".")
    <3>1. CdrFrom(t, Append(items, e), close, q + 2, m, v)
      <4>1. (q + 1) + 1 = q + 2
        BY <2>2
      <4> QED BY <2>1, <2>6, <4>1 DEF AfterCar
    <3>2. m \in (q + 2)..Len(t) /\ t[m] = close
      BY <3>1 DEF CdrFrom
    <3>3. PICK d \in Grammar!Single(t, q + 2, m - 1) : v = toList(Append(items, e), d)
      BY <3>1 DEF CdrFrom
    <3>4. Element(t, p, q, e)
      BY <2>5, <2>6
    <3>5. q \in p..q /\ m \in p..Len(t) /\ q + 1 \in p..(m - 1) /\ (q + 1) - 1 = q
          /\ (q + 1) + 1 = q + 2
      BY <1>2, <2>2, <2>5, <3>2
    <3>6. CarsFrom(t, p, q, <<e>>)
      BY <2>6, <3>4, <3>5 DEF CarsFrom, CarsThen
    <3>7. <<e>> \in Grammar!Cars(t, p, q)
      BY <2>2, <2>5, <3>6, CarsByElement
    <3>8. v = toList(items \o <<e>>, d)
      BY <3>3, AppendIsLast
    <3>9. DottedFrom(t, items, p, m, v)
      <4>1. t[q + 1] = "."
        BY <2>6 DEF TokenIs
      <4>2. \E x \in Grammar!Cars(t, p, (q + 1) - 1),
               s \in Grammar!Single(t, (q + 1) + 1, m - 1) : v = toList(items \o x, s)
        BY <3>3, <3>5, <3>7, <3>8
      <4> QED BY <3>5, <4>1, <4>2 DEF DottedFrom
    <3> QED BY <3>2, <3>5, <3>9 DEF ListFrom
  <2>7. CASE ~(e # DAT_COM /\ TokenIs(t, q + 1, "."))
    <3>1. ListFrom(t, Grown(items, e), close, q + 1, m, v)
      BY <2>1, <2>7 DEF AfterCar
    <3>2. m \in (q + 1)..Len(t) /\ t[m] = close
      BY <3>1 DEF ListFrom
    <3>3. /\ m \in p..Len(t) /\ q \in p..(m - 1) /\ p <= m - 1 /\ m \in Nat /\ m - 1 \in Last(t)
          /\ q # Len(t)
      BY <1>2, <2>2, <2>5, <3>2 DEF Last
    <3>4. Element(t, p, q, e)
      BY <2>5, <3>3
    <3>5. CASE ProperFrom(t, Grown(items, e), q + 1, m, v)
      <4>1. PICK x \in Grammar!Items(t, q + 1, m - 1) :
            v = toList(Grown(items, e) \o x, SyntaxNil)
        BY <3>5 DEF ProperFrom
      <4>2. IsSequence(x)
        BY <2>2, <3>3, ItemsSequence
      <4>3. ItemsFrom(t, p, m - 1, With(e, x))
        BY <3>3, <3>4 DEF ItemsFrom
      <4>4. With(e, x) \in Grammar!Items(t, p, m - 1)
        BY <3>3, <4>3, ItemsByElement
      <4>5. v = toList(items \o With(e, x), SyntaxNil)
        <5>1. Joins(items, e, x)
          BY <4>2, GrownConcat
        <5> QED BY <4>1, <5>1 DEF Joins
      <4>6. ProperFrom(t, items, p, m, v)
        BY <4>4, <4>5 DEF ProperFrom
      <4> QED BY <3>2, <3>3, <4>6 DEF ListFrom
    <3>6. CASE DottedFrom(t, Grown(items, e), q + 1, m, v)
      <4>1. PICK n \in (q + 1)..(m - 1) :
              /\ t[n] = "."
              /\ \E x \in Grammar!Cars(t, q + 1, n - 1), d \in Grammar!Single(t, n + 1, m - 1) :
                   v = toList(Grown(items, e) \o x, d)
        BY <3>6 DEF DottedFrom
      <4>2. PICK x \in Grammar!Cars(t, q + 1, n - 1), d \in Grammar!Single(t, n + 1, m - 1) :
              v = toList(Grown(items, e) \o x, d)
        BY <4>1
      <4>3. /\ n \in p..(m - 1) /\ n - 1 \in Last(t) /\ q \in p..(n - 1) /\ p <= n - 1
        BY <1>2, <2>2, <2>5, <3>2, <3>3 DEF Last
      <4>4. IsSequence(x)
        BY <2>2, <4>3, CarsNotEmpty
      <4>5. CarsFrom(t, p, n - 1, With(e, x))
        BY <3>4, <4>3 DEF CarsFrom, CarsThen
      <4>6. With(e, x) \in Grammar!Cars(t, p, n - 1)
        BY <4>3, <4>5, CarsByElement
      <4>7. v = toList(items \o With(e, x), d)
        <5>1. Joins(items, e, x)
          BY <4>4, GrownConcat
        <5> QED BY <4>2, <5>1 DEF Joins
      <4>8. DottedFrom(t, items, p, m, v)
        BY <4>1, <4>3, <4>6, <4>7 DEF DottedFrom
      <4> QED BY <3>2, <3>3, <4>8 DEF ListFrom
    <3> QED BY <3>1, <3>5, <3>6 DEF ListFrom
  <2> QED BY <2>6, <2>7
<1> QED BY <1>3, <1>4

LEMMA ListCloses ==
  ASSUME NEW t \in Seq(Token), NEW p \in First(t), NEW items, IsSequence(items),
         NEW close \in Close, NEW m, NEW v, TokenIs(t, p, close)
  PROVE  ListFrom(t, items, close, p, m, v) <=> m = p /\ v = toList(items, SyntaxNil)
<1>1. p \in Nat /\ Len(t) \in Nat /\ p \in p..Len(t) /\ t[p] = close /\ p - 1 \in Last(t)
      /\ p - 1 < p
  BY SpanNumbers DEF TokenIs
<1>2. t[p] \notin Start
  BY <1>1, NoStart
<1>3. Grammar!Items(t, p, p - 1) = {<<>>}
  BY <1>1, ItemsNone
<1>4. ASSUME m = p, v = toList(items, SyntaxNil)
      PROVE  ListFrom(t, items, close, p, m, v)
  <2>1. items \o <<>> = items
    BY EmptyConcat
  <2>2. ProperFrom(t, items, p, m, v)
    BY <1>3, <1>4, <2>1 DEF ProperFrom
  <2> QED BY <1>1, <1>4, <2>2 DEF ListFrom
<1>5. ASSUME ListFrom(t, items, close, p, m, v)
      PROVE  m = p /\ v = toList(items, SyntaxNil)
  <2>1. m \in p..Len(t)
    BY <1>5 DEF ListFrom
  <2>2. ~DottedFrom(t, items, p, m, v)
    <3> SUFFICES ASSUME DottedFrom(t, items, p, m, v) PROVE FALSE
      OBVIOUS
    <3>1. PICK n \in p..(m - 1) :
            /\ t[n] = "."
            /\ \E x \in Grammar!Cars(t, p, n - 1), d \in Grammar!Single(t, n + 1, m - 1) :
                 v = toList(items \o x, d)
      BY DEF DottedFrom
    <3>2. PICK x \in Grammar!Cars(t, p, n - 1) : TRUE
      BY <3>1
    <3>3. n - 1 \in Last(t)
      BY <1>1, <2>1 DEF Last
    <3>4. p <= n - 1
      BY <3>2, <3>3, CarsNotEmpty
    <3> QED BY <1>2, <3>2, <3>3, <3>4, NoElement
  <2>3. PICK x \in Grammar!Items(t, p, m - 1) : v = toList(items \o x, SyntaxNil)
    BY <1>5, <2>2 DEF ListFrom, ProperFrom
  <2>4. m = p
    <3>1. m - 1 \in Last(t)
      BY <1>1, <2>1 DEF Last
    <3>2. ~(p <= m - 1)
      BY <1>2, <2>3, <3>1, NoElement
    <3> QED BY <1>1, <2>1, <3>2
  <2>5. x = <<>>
    BY <1>3, <2>3, <2>4
  <2> QED BY <2>3, <2>4, <2>5, EmptyConcat
<1> QED BY <1>4, <1>5

(* ... of what follows its dot ...                                         *)
LEMMA CdrReads ==
  ASSUME NEW t \in Seq(Token), NEW p \in First(t), NEW items,
         NEW close \in Close, NEW m, NEW v
  PROVE  CdrFrom(t, items, close, p, m, v) <=> Reads(t, "cdr", close, items, p, m, v)
<1>1. \A e, q : After(t, "cdr", close, items, e, q, m, v)
                <=> AfterCdr(t, items, close, e, q, m, v)
  BY DEF After
<1>2. p \in Nat /\ Len(t) \in Nat /\ p > 0
  BY SpanNumbers
<1>3. ASSUME CdrFrom(t, items, close, p, m, v)
      PROVE  Reads(t, "cdr", close, items, p, m, v)
  <2>1. m \in p..Len(t) /\ t[m] = close
    BY <1>3 DEF CdrFrom
  <2>2. PICK d \in Grammar!Single(t, p, m - 1) : v = toList(items, d)
    BY <1>3 DEF CdrFrom
  <2>3. m - 1 \in Last(t) /\ m \in Nat
    BY <1>2, <2>1 DEF Last
  <2>4. p <= m - 1
    <3>1. ~(m - 1 < p)
      BY <2>2, <2>3, ItemsNone
    <3> QED BY <1>2, <2>3, <3>1
  <2>5. SingleFrom(t, p, m - 1, d)
    BY <2>2, <2>3, <2>4, SingleByElement
  <2>6. PICK k \in p..(m - 1) : \E e : Element(t, p, k, e) /\ SingleThen(t, m - 1, k, e, d)
    BY <2>5 DEF SingleFrom
  <2>7. PICK e : Element(t, p, k, e) /\ SingleThen(t, m - 1, k, e, d)
    BY <2>6
  <2>8. k \in Last(t) /\ k \in Nat /\ m \in (k + 1)..Len(t)
    BY <1>2, <2>1, <2>3 DEF Last
  <2>9. e # DAT_EOF /\ Gives(t, p, k, e)
    BY <2>7, <2>8, ElementFacts, ElementGiven
  <2>10. AfterCdr(t, items, close, e, k + 1, m, v)
    <3>1. CASE e = DAT_COM
      <4>1. CdrFrom(t, items, close, k + 1, m, v)
        BY <2>1, <2>2, <2>7, <2>8, <3>1 DEF CdrFrom, SingleThen
      <4> QED BY <2>9, <3>1, <4>1 DEF AfterCdr
    <3>2. CASE e # DAT_COM
      <4>1. k = m - 1 /\ d = e
        BY <2>7, <3>2 DEF SingleThen
      <4>2. m = k + 1 /\ TokenIs(t, k + 1, close)
        BY <1>2, <2>1, <2>3, <4>1 DEF TokenIs
      <4> QED BY <2>2, <2>9, <3>2, <4>1, <4>2 DEF AfterCdr
    <3> QED BY <3>1, <3>2
  <2> QED BY <1>1, <2>9, <2>10 DEF Reads
<1>4. ASSUME Reads(t, "cdr", close, items, p, m, v)
      PROVE  CdrFrom(t, items, close, p, m, v)
  <2>1. PICK q, e : Gives(t, p, q, e) /\ AfterCdr(t, items, close, e, q + 1, m, v)
    BY <1>1, <1>4 DEF Reads
  <2>2. /\ q \in Last(t) /\ q + 1 \in First(t) /\ q \in Nat /\ q <= Len(t)
        /\ p <= Len(t) \/ p = Len(t) + 1
    BY <1>2, <2>1, GivesFacts, SpanNumbers DEF First
  <2>3. e # DAT_EOF
    BY <2>1 DEF AfterCdr
  <2>4. p <= Len(t)
    BY <2>1, <2>2, <2>3, GivesFacts
  <2>5. p <= q /\ (Element(t, p, q, e) \/ (e = DAT_COM /\ q = Len(t)))
    BY <2>1, <2>4, GivesFacts
  <2>6. CASE e = DAT_COM
    <3>1. CdrFrom(t, items, close, q + 1, m, v)
      BY <2>1, <2>6 DEF AfterCdr
    <3>2. m \in (q + 1)..Len(t) /\ t[m] = close
      BY <3>1 DEF CdrFrom
    <3>3. /\ m \in p..Len(t) /\ q \in p..(m - 1) /\ p <= m - 1 /\ m - 1 \in Last(t) /\ q # Len(t)
      BY <1>2, <2>2, <2>5, <3>2 DEF Last
    <3>4. Element(t, p, q, e)
      BY <2>5, <3>3
    <3>5. PICK d \in Grammar!Single(t, q + 1, m - 1) : v = toList(items, d)
      BY <3>1 DEF CdrFrom
    <3>6. SingleFrom(t, p, m - 1, d)
      BY <2>6, <3>3, <3>4 DEF SingleFrom, SingleThen
    <3>7. d \in Grammar!Single(t, p, m - 1)
      BY <3>3, <3>6, SingleByElement
    <3> QED BY <3>2, <3>3, <3>5, <3>7 DEF CdrFrom
  <2>7. CASE e # DAT_COM
    <3>1. TokenIs(t, q + 1, close) /\ m = q + 1 /\ v = toList(items, e)
      BY <2>1, <2>7 DEF AfterCdr
    <3>2. /\ m \in p..Len(t) /\ t[m] = close /\ m - 1 = q /\ q \in p..q
      BY <1>2, <2>2, <2>5, <3>1 DEF TokenIs
    <3>3. SingleFrom(t, p, q, e)
      BY <2>5, <2>7, <3>2 DEF SingleFrom, SingleThen
    <3>4. e \in Grammar!Single(t, p, m - 1)
      BY <2>2, <2>5, <3>2, <3>3, SingleByElement
    <3> QED BY <3>1, <3>2, <3>4 DEF CdrFrom
  <2> QED BY <2>6, <2>7
<1> QED BY <1>3, <1>4

(* ... and of vector                                                       *)
LEMMA VectorReads ==
  ASSUME NEW t \in Seq(Token), NEW p \in First(t), NEW items, IsSequence(items),
         NEW close \in Close, NEW m, NEW v, ~TokenIs(t, p, close)
  PROVE  VectorFrom(t, items, close, p, m, v) <=> Reads(t, "vector", close, items, p, m, v)
<1>1. \A e, q : After(t, "vector", close, items, e, q, m, v)
                <=> AfterElement(t, items, close, e, q, m, v)
  BY DEF After
<1>2. p \in Nat /\ Len(t) \in Nat
  BY SpanNumbers
<1>3. ASSUME VectorFrom(t, items, close, p, m, v)
      PROVE  Reads(t, "vector", close, items, p, m, v)
  <2>1. m \in p..Len(t) /\ t[m] = close
    BY <1>3 DEF VectorFrom
  <2>2. m # p
    BY <1>2, <2>1 DEF TokenIs
  <2>3. m \in Nat /\ p <= m - 1 /\ m - 1 \in Last(t)
    BY <1>2, <2>1, <2>2 DEF Last
  <2>4. PICK x \in Grammar!Items(t, p, m - 1) : v = SyntaxVector(items \o x)
    BY <1>3 DEF VectorFrom
  <2>5. ItemsFrom(t, p, m - 1, x)
    BY <2>3, <2>4, ItemsByElement
  <2>6. PICK k \in p..(m - 1) :
          \E e : Element(t, p, k, e)
            /\ \E rest \in Grammar!Items(t, k + 1, m - 1) : x = With(e, rest)
    BY <2>5 DEF ItemsFrom
  <2>7. PICK e : Element(t, p, k, e)
        /\ \E rest \in Grammar!Items(t, k + 1, m - 1) : x = With(e, rest)
    BY <2>6
  <2>8. PICK rest \in Grammar!Items(t, k + 1, m - 1) : x = With(e, rest)
    BY <2>7
  <2>9. k \in Last(t) /\ k + 1 \in First(t) /\ m \in (k + 1)..Len(t)
    BY <1>2, <2>1, <2>3 DEF First, Last
  <2>10. e # DAT_EOF /\ Gives(t, p, k, e)
    BY <2>7, <2>9, ElementFacts, ElementGiven
  <2>11. IsSequence(rest)
    BY <2>3, <2>9, ItemsSequence
  <2>12. v = SyntaxVector(Grown(items, e) \o rest)
    <3>1. Joins(items, e, rest)
      BY <2>11, GrownConcat
    <3> QED BY <2>4, <2>8, <3>1 DEF Joins
  <2>13. VectorFrom(t, Grown(items, e), close, k + 1, m, v)
    BY <2>1, <2>9, <2>12 DEF VectorFrom
  <2>14. AfterElement(t, items, close, e, k + 1, m, v)
    BY <2>10, <2>13 DEF AfterElement
  <2> QED BY <1>1, <2>10, <2>14 DEF Reads
<1>4. ASSUME Reads(t, "vector", close, items, p, m, v)
      PROVE  VectorFrom(t, items, close, p, m, v)
  <2>1. PICK q, e : Gives(t, p, q, e) /\ AfterElement(t, items, close, e, q + 1, m, v)
    BY <1>1, <1>4 DEF Reads
  <2>2. /\ q \in Last(t) /\ q + 1 \in First(t) /\ q \in Nat /\ q <= Len(t)
        /\ p <= Len(t) \/ p = Len(t) + 1
    BY <1>2, <2>1, GivesFacts, SpanNumbers DEF First
  <2>3. e # DAT_EOF /\ VectorFrom(t, Grown(items, e), close, q + 1, m, v)
    BY <2>1 DEF AfterElement
  <2>4. p <= Len(t)
    BY <2>1, <2>2, <2>3, GivesFacts
  <2>5. p <= q /\ (Element(t, p, q, e) \/ (e = DAT_COM /\ q = Len(t)))
    BY <2>1, <2>4, GivesFacts
  <2>6. m \in (q + 1)..Len(t) /\ t[m] = close
    BY <2>3 DEF VectorFrom
  <2>7. /\ m \in p..Len(t) /\ q \in p..(m - 1) /\ p <= m - 1 /\ m - 1 \in Last(t) /\ q # Len(t)
    BY <1>2, <2>2, <2>5, <2>6 DEF Last
  <2>8. Element(t, p, q, e)
    BY <2>5, <2>7
  <2>9. PICK x \in Grammar!Items(t, q + 1, m - 1) : v = SyntaxVector(Grown(items, e) \o x)
    BY <2>3 DEF VectorFrom
  <2>10. IsSequence(x)
    BY <2>2, <2>7, ItemsSequence
  <2>11. ItemsFrom(t, p, m - 1, With(e, x))
    BY <2>7, <2>8 DEF ItemsFrom
  <2>12. With(e, x) \in Grammar!Items(t, p, m - 1)
    BY <2>7, <2>11, ItemsByElement
  <2>13. v = SyntaxVector(items \o With(e, x))
    <3>1. Joins(items, e, x)
      BY <2>10, GrownConcat
    <3> QED BY <2>9, <3>1 DEF Joins
  <2> QED BY <2>6, <2>7, <2>12, <2>13 DEF VectorFrom
<1> QED BY <1>3, <1>4

LEMMA VectorCloses ==
  ASSUME NEW t \in Seq(Token), NEW p \in First(t), NEW items, IsSequence(items),
         NEW close \in Close, NEW m, NEW v, TokenIs(t, p, close)
  PROVE  VectorFrom(t, items, close, p, m, v) <=> m = p /\ v = SyntaxVector(items)
<1>1. p \in Nat /\ Len(t) \in Nat /\ p \in p..Len(t) /\ t[p] = close /\ p - 1 \in Last(t)
      /\ p - 1 < p
  BY SpanNumbers DEF TokenIs
<1>2. t[p] \notin Start
  BY <1>1, NoStart
<1>3. Grammar!Items(t, p, p - 1) = {<<>>}
  BY <1>1, ItemsNone
<1>4. items \o <<>> = items
  BY EmptyConcat
<1>5. ASSUME m = p, v = SyntaxVector(items)
      PROVE  VectorFrom(t, items, close, p, m, v)
  BY <1>1, <1>3, <1>4, <1>5 DEF VectorFrom
<1>6. ASSUME VectorFrom(t, items, close, p, m, v)
      PROVE  m = p /\ v = SyntaxVector(items)
  <2>1. m \in p..Len(t)
    BY <1>6 DEF VectorFrom
  <2>2. PICK x \in Grammar!Items(t, p, m - 1) : v = SyntaxVector(items \o x)
    BY <1>6 DEF VectorFrom
  <2>3. m - 1 \in Last(t)
    BY <1>1, <2>1 DEF Last
  <2>4. ~(p <= m - 1)
    BY <1>2, <2>2, <2>3, NoElement
  <2>5. m = p
    BY <1>1, <2>1, <2>4
  <2>6. x = <<>>
    BY <1>3, <2>2, <2>5
  <2> QED BY <1>4, <2>2, <2>5, <2>6
<1> QED BY <1>5, <1>6

-----------------------------------------------------------------------------
(* What read gives, by the token at p                                      *)
LEMMA EndGives ==
  ASSUME NEW t \in Seq(Token), NEW q, NEW e
  PROVE  Gives(t, Len(t) + 1, q, e) <=> q = Len(t) /\ e = DAT_EOF
<1>1. Len(t) \in Last(t) /\ Len(t) + 1 \in First(t)
  BY SpanNumbers DEF First, Last
<1>2. Gives(t, Len(t) + 1, q, e) => q = Len(t) /\ e = DAT_EOF
  BY <1>1, GivesFacts
<1> QED BY <1>1, <1>2 DEF Gives

LEMMA InvalidGives ==
  ASSUME NEW t \in Seq(Token), NEW p \in First(t), p <= Len(t), t[p] \notin Start, NEW q, NEW e
  PROVE  ~Gives(t, p, q, e)
BY GivesFacts

LEMMA AtomGives ==
  ASSUME NEW t \in Seq(Token), NEW p \in First(t), p <= Len(t), t[p] = "atom", NEW q, NEW e
  PROVE  Gives(t, p, q, e) <=> q = p /\ e = Atom(p)
<1>1. p \in Nat /\ p \in Last(t)
  BY SpanNumbers DEF First, Last
<1>2. ASSUME Gives(t, p, q, e)
      PROVE  q = p /\ e = Atom(p)
  <2>1. q \in Last(t) /\ (Element(t, p, q, e) \/ (p = q /\ q = Len(t) /\ IsCut(t)))
    BY <1>2, GivesFacts
  <2>2. ~(p = q /\ q = Len(t) /\ IsCut(t))
    BY DEF IsCut
  <2>3. ~Grammar!Comment(t, p, q)
    BY CommentMembers
  <2>4. e \in Grammar!Datum(t, p, q)
    BY <2>1, <2>2, <2>3 DEF Element
  <2>5. ~IsListPair(t[p], t[q]) /\ ~IsVectorPair(t[p], t[q])
    BY DEF IsListPair, IsVectorPair
  <2>6. AtomAt(t, p, q, e)
    BY <2>1, <2>4, <2>5, DatumCases
  <2> QED BY <2>6 DEF AtomAt, Atom
<1>3. ASSUME q = p, e = Atom(p)
      PROVE  Gives(t, p, q, e)
  <2>1. <<"atom", p>> \in Grammar!Datum(t, p, p)
    BY <1>1, DatumRules
  <2>2. Element(t, p, p, e)
    BY <1>3, <2>1 DEF Element, Atom
  <2> QED BY <1>1, <1>3, <2>2 DEF Gives
<1> QED BY <1>2, <1>3

(* A comment gives what the read behind it gives, whatever that is.        *)
CommentAt(t, p) == p <= Len(t) /\ t[p] = "#;"

LEMMA CommentGives ==
  ASSUME NEW t \in Seq(Token), NEW p \in First(t), CommentAt(t, p), ~CommentAt(t, p + 1),
         NEW q, NEW e
  PROVE  Gives(t, p, q, e) <=> e = DAT_COM /\ \E f : Gives(t, p + 1, q, f)
<1>1. p \in Nat /\ p \in Last(t) /\ p + 1 \in First(t) /\ Len(t) \in Nat /\ Len(t) \in Last(t)
      /\ (p + 1 <= Len(t) \/ p = Len(t)) /\ p > 0
  <2>1. p <= Len(t)
    BY DEF CommentAt
  <2> QED BY <2>1, SpanNumbers DEF First, Last
<1>2. \A k, f : ~(f \in Grammar!Datum(t, p, k) /\ k \in Last(t))
  <2> SUFFICES ASSUME NEW k \in Last(t), NEW f \in Grammar!Datum(t, p, k) PROVE FALSE
    OBVIOUS
  <2> QED BY DatumValue DEF CommentAt
<1>3. ASSUME Gives(t, p, q, e)
      PROVE  e = DAT_COM /\ \E f : Gives(t, p + 1, q, f)
  <2>1. q \in Last(t) /\ (Element(t, p, q, e) \/ (e = DAT_COM /\ p = q /\ q = Len(t)))
    BY <1>1, <1>3, GivesFacts DEF CommentAt
  <2>2. CASE Element(t, p, q, e)
    <3>1. e = DAT_COM /\ Grammar!Comment(t, p, q)
      BY <1>2, <2>1, <2>2 DEF Element
    <3>2. p < q /\ Grammar!Single(t, p + 1, q) # {}
      BY <3>1, CommentMembers
    <3>3. PICK d : d \in Grammar!Single(t, p + 1, q)
      BY <3>2
    <3>4. p + 1 <= q /\ p + 1 <= Len(t)
      BY <1>1, <2>1, <3>2, SpanNumbers
    <3>5. SingleFrom(t, p + 1, q, d)
      BY <1>1, <2>1, <3>3, <3>4, SingleByElement
    <3>6. PICK k \in (p + 1)..q : \E f : Element(t, p + 1, k, f) /\ SingleThen(t, q, k, f, d)
      BY <3>5 DEF SingleFrom
    <3>7. PICK f : Element(t, p + 1, k, f) /\ SingleThen(t, q, k, f, d)
      BY <3>6
    <3>8. f # DAT_COM
      <4>1. ~Grammar!Comment(t, p + 1, k)
        BY <3>4, CommentMembers DEF CommentAt
      <4>2. k \in Last(t)
        BY <1>1, <2>1, SpanNumbers
      <4> QED BY <1>1, <3>7, <4>1, <4>2, ElementFacts
    <3>9. k = q
      BY <3>7, <3>8 DEF SingleThen
    <3>10. Gives(t, p + 1, q, f)
      BY <2>1, <3>7, <3>9, ElementGiven
    <3> QED BY <3>1, <3>10
  <2>3. CASE e = DAT_COM /\ p = q /\ q = Len(t)
    <3>1. Gives(t, p + 1, q, DAT_EOF)
      BY <2>3, EndGives
    <3> QED BY <2>3, <3>1
  <2> QED BY <2>1, <2>2, <2>3
<1>4. ASSUME e = DAT_COM, NEW f, Gives(t, p + 1, q, f)
      PROVE  Gives(t, p, q, e)
  <2>1. q \in Last(t)
    BY <1>4 DEF Gives
  <2>2. CASE p = Len(t)
    <3>1. q = Len(t)
      BY <1>4, <2>2, EndGives
    <3>2. IsCut(t)
      <4>1. t # <<>>
        <5>1. Len(t) # 0
          BY <1>1, <2>2
        <5> QED BY <5>1, EmptySequence
      <4> QED BY <2>2, <4>1 DEF IsCut, CommentAt
    <3> QED BY <1>1, <1>4, <2>2, <3>1, <3>2 DEF Gives
  <2>3. CASE p + 1 <= Len(t)
    <3>1. p + 1 <= q /\ (Element(t, p + 1, q, f) \/ (p + 1 = q /\ q = Len(t) /\ IsCut(t)))
      BY <1>1, <1>4, <2>3, GivesFacts
    <3>2. ~(p + 1 = q /\ q = Len(t) /\ IsCut(t))
      BY <2>3 DEF IsCut, CommentAt
    <3>3. Element(t, p + 1, q, f)
      BY <3>1, <3>2
    <3>4. f # DAT_COM
      <4>1. ~Grammar!Comment(t, p + 1, q)
        BY <2>3, CommentMembers DEF CommentAt
      <4> QED BY <1>1, <2>1, <3>3, <4>1, ElementFacts
    <3>5. q \in (p + 1)..q /\ p < q
      BY <1>1, <2>1, <3>1, SpanNumbers
    <3>6. SingleFrom(t, p + 1, q, f)
      BY <3>3, <3>4, <3>5 DEF SingleFrom, SingleThen
    <3>7. f \in Grammar!Single(t, p + 1, q)
      BY <1>1, <2>1, <3>1, <3>6, SingleByElement
    <3>8. Grammar!Comment(t, p, q)
      BY <3>5, <3>7, CommentMembers DEF CommentAt
    <3>9. Element(t, p, q, e)
      BY <1>4, <3>8 DEF Element
    <3> QED BY <2>1, <3>9, ElementGiven
  <2> QED BY <1>1, <2>2, <2>3
<1> QED BY <1>3, <1>4

(* What list and vector return is the datum that begins with the bracket.  *)
LEMMA ListGives ==
  ASSUME NEW t \in Seq(Token), NEW p \in First(t), p <= Len(t), t[p] \in {"(", "["}, NEW q, NEW e
  PROVE  Gives(t, p, q, e) <=> ListFrom(t, <<>>, Closing(t[p]), p + 1, q, e)
<1> DEFINE close == Closing(t[p])
<1>1. p \in Nat /\ p + 1 \in First(t) /\ Len(t) \in Nat
  BY SpanNumbers DEF First, Last
<1>2. \A k : IsListPair(t[p], t[k]) <=> t[k] = close
  BY DEF IsListPair, Closing
<1>3. \A k : ~IsVectorPair(t[p], t[k]) /\ ~AtomAt(t, p, k, e)
  BY DEF IsVectorPair, AtomAt
<1>4. \A x, d : toList(x, d) = Grammar!Joined(x, d) /\ SyntaxNil = Grammar!Nil
  BY DEF toList, Grammar!Joined, SyntaxNil, Grammar!Nil
<1>5. t[p] # "#;"
  OBVIOUS
<1>6. ASSUME Gives(t, p, q, e)
      PROVE  ListFrom(t, <<>>, close, p + 1, q, e)
  <2>1. q \in Last(t) /\ (Element(t, p, q, e) \/ (p = q /\ q = Len(t) /\ IsCut(t)))
    BY <1>6, GivesFacts
  <2>2. ~(p = q /\ q = Len(t) /\ IsCut(t))
    BY <1>5 DEF IsCut
  <2>3. ~Grammar!Comment(t, p, q)
    BY <1>5, CommentMembers
  <2>4. e \in Grammar!Datum(t, p, q)
    BY <2>1, <2>2, <2>3 DEF Element
  <2>5. p < q /\ IsListPair(t[p], t[q]) /\ (ProperAt(t, p, q, e) \/ DottedAt(t, p, q, e))
    BY <1>3, <2>1, <2>4, DatumCases
  <2>6. t[q] = close
    BY <1>2, <2>5
  <2>7. q \in (p + 1)..Len(t) /\ q - 1 \in Last(t) /\ q \in Nat
    BY <1>1, <2>1, <2>5, SpanNumbers DEF Last
  <2> HIDE DEF close
  <2>8. CASE ProperAt(t, p, q, e)
    <3>1. PICK x \in Grammar!Items(t, p + 1, q - 1) : e = Grammar!Joined(x, Grammar!Nil)
      BY <2>8 DEF ProperAt
    <3>2. <<>> \o x = x
      BY <1>1, <2>7, ItemsSequence, EmptyConcat
    <3>3. e = toList(<<>> \o x, SyntaxNil)
      BY <1>4, <3>1, <3>2
    <3>4. ProperFrom(t, <<>>, p + 1, q, e)
      BY <3>3 DEF ProperFrom
    <3> QED BY <2>6, <2>7, <3>4 DEF ListFrom
  <2>9. CASE DottedAt(t, p, q, e)
    <3>1. PICK k : /\ IsDotted(t, p, q, k)
                   /\ \E x \in Grammar!Cars(t, p + 1, k - 1),
                        d \in Grammar!Single(t, k + 1, q - 1) :
                        e = Grammar!Joined(x, d)
      BY <2>9 DEF DottedAt
    <3>2. PICK x \in Grammar!Cars(t, p + 1, k - 1), d \in Grammar!Single(t, k + 1, q - 1) :
            e = Grammar!Joined(x, d)
      BY <3>1
    <3>3. k \in (p + 1)..(q - 1) /\ t[k] = "."
      BY <3>1 DEF IsDotted
    <3>4. k - 1 \in Last(t)
      BY <1>1, <2>7, <3>3 DEF Last
    <3>5. <<>> \o x = x
      BY <1>1, <3>4, CarsNotEmpty, EmptyConcat
    <3>6. e = toList(<<>> \o x, d)
      BY <1>4, <3>2, <3>5
    <3>7. DottedFrom(t, <<>>, p + 1, q, e)
      BY <3>3, <3>6 DEF DottedFrom
    <3> QED BY <2>6, <2>7, <3>7 DEF ListFrom
  <2> QED BY <2>5, <2>8, <2>9
<1>7. ASSUME ListFrom(t, <<>>, close, p + 1, q, e)
      PROVE  Gives(t, p, q, e)
  <2>1. q \in (p + 1)..Len(t) /\ t[q] = close
    BY <1>7 DEF ListFrom
  <2>2. p < q /\ q \in Last(t) /\ q - 1 \in Last(t)
    BY <1>1, <2>1 DEF Last
  <2>3. IsListPair(t[p], t[q])
    BY <1>2, <2>1
  <2> HIDE DEF close
  <2>4. e \in Grammar!Datum(t, p, q)
    <3>1. CASE ProperFrom(t, <<>>, p + 1, q, e)
      <4>1. PICK x \in Grammar!Items(t, p + 1, q - 1) : e = toList(<<>> \o x, SyntaxNil)
        BY <3>1 DEF ProperFrom
      <4>2. <<>> \o x = x
        BY <1>1, <2>2, ItemsSequence, EmptyConcat
      <4>3. e = Grammar!Joined(x, Grammar!Nil)
        BY <1>4, <4>1, <4>2
      <4> QED BY <2>2, <2>3, <4>3, DatumRules
    <3>2. CASE DottedFrom(t, <<>>, p + 1, q, e)
      <4>1. PICK k \in (p + 1)..(q - 1) :
              /\ t[k] = "."
              /\ \E x \in Grammar!Cars(t, p + 1, k - 1), d \in Grammar!Single(t, k + 1, q - 1) :
                   e = toList(<<>> \o x, d)
        BY <3>2 DEF DottedFrom
      <4>2. PICK x \in Grammar!Cars(t, p + 1, k - 1), d \in Grammar!Single(t, k + 1, q - 1) :
              e = toList(<<>> \o x, d)
        BY <4>1
      <4>3. k - 1 \in Last(t)
        BY <1>1, <2>1, <2>2 DEF Last
      <4>4. <<>> \o x = x
        BY <1>1, <4>3, CarsNotEmpty, EmptyConcat
      <4>5. e = Grammar!Joined(x, d)
        BY <1>4, <4>2, <4>4
      <4>6. IsDotted(t, p, q, k)
        BY <4>1 DEF IsDotted
      <4> QED BY <2>2, <2>3, <4>5, <4>6, DatumRules
    <3> QED BY <1>7, <3>1, <3>2 DEF ListFrom
  <2>5. Element(t, p, q, e)
    BY <2>4 DEF Element
  <2> QED BY <2>2, <2>5, ElementGiven
<1> QED BY <1>6, <1>7

LEMMA VectorGives ==
  ASSUME NEW t \in Seq(Token), NEW p \in First(t), p <= Len(t), t[p] = "#(", NEW q, NEW e
  PROVE  Gives(t, p, q, e) <=> VectorFrom(t, <<>>, ")", p + 1, q, e)
<1>1. p \in Nat /\ p + 1 \in First(t) /\ Len(t) \in Nat
  BY SpanNumbers DEF First, Last
<1>2. \A k : IsVectorPair(t[p], t[k]) <=> t[k] = ")"
  BY DEF IsVectorPair
<1>3. \A k : ~IsListPair(t[p], t[k]) /\ ~AtomAt(t, p, k, e)
  BY DEF IsListPair, AtomAt
<1>4. t[p] # "#;"
  OBVIOUS
<1>5. ASSUME Gives(t, p, q, e)
      PROVE  VectorFrom(t, <<>>, ")", p + 1, q, e)
  <2>1. q \in Last(t) /\ (Element(t, p, q, e) \/ (p = q /\ q = Len(t) /\ IsCut(t)))
    BY <1>5, GivesFacts
  <2>2. ~(p = q /\ q = Len(t) /\ IsCut(t))
    BY <1>4 DEF IsCut
  <2>3. ~Grammar!Comment(t, p, q)
    BY <1>4, CommentMembers
  <2>4. e \in Grammar!Datum(t, p, q)
    BY <2>1, <2>2, <2>3 DEF Element
  <2>5. p < q /\ IsVectorPair(t[p], t[q]) /\ VectorAt(t, p, q, e)
    BY <1>3, <2>1, <2>4, DatumCases
  <2>6. t[q] = ")"
    BY <1>2, <2>5
  <2>7. q \in (p + 1)..Len(t) /\ q - 1 \in Last(t)
    BY <1>1, <2>1, <2>5, SpanNumbers DEF Last
  <2>8. PICK x \in Grammar!Items(t, p + 1, q - 1) : e = <<"vector", x>>
    BY <2>5 DEF VectorAt
  <2>9. <<>> \o x = x
    BY <1>1, <2>7, ItemsSequence, EmptyConcat
  <2>10. e = SyntaxVector(<<>> \o x)
    BY <2>8, <2>9 DEF SyntaxVector
  <2> QED BY <2>6, <2>7, <2>10 DEF VectorFrom
<1>6. ASSUME VectorFrom(t, <<>>, ")", p + 1, q, e)
      PROVE  Gives(t, p, q, e)
  <2>1. q \in (p + 1)..Len(t) /\ t[q] = ")"
    BY <1>6 DEF VectorFrom
  <2>2. p < q /\ q \in Last(t) /\ q - 1 \in Last(t)
    BY <1>1, <2>1 DEF Last
  <2>3. IsVectorPair(t[p], t[q])
    BY <1>2, <2>1
  <2>4. PICK x \in Grammar!Items(t, p + 1, q - 1) : e = SyntaxVector(<<>> \o x)
    BY <1>6 DEF VectorFrom
  <2>5. <<>> \o x = x
    BY <1>1, <2>2, ItemsSequence, EmptyConcat
  <2>6. e = <<"vector", x>>
    BY <2>4, <2>5 DEF SyntaxVector
  <2>7. e \in Grammar!Datum(t, p, q)
    BY <2>2, <2>3, <2>6, DatumRules
  <2>8. Element(t, p, q, e)
    BY <2>7 DEF Element
  <2> QED BY <2>2, <2>8, ElementGiven
<1> QED BY <1>5, <1>6

-----------------------------------------------------------------------------
(* The activations together.  The last one returning v, having read the    *)
(* tokens to m, may leave r as the data of the text: every activation then *)
(* goes on, c[i] and w[i] being where activation i ends and what it        *)
(* returns.                                                                *)
Kept(a, res) == IF a.call = "parseDatum" THEN res ELSE a.items

AfterOf(t, a, res, e, p, m, v) == After(t, a.call, a.close, Kept(a, res), e, p, m, v)

Linked(t, s, res, c, w, i) == AfterOf(t, s[i], res, w[i + 1], c[i + 1] + 1, c[i], w[i])

Links(t, s, res, c, w, n) == \A i \in 1..(n - 1) : Linked(t, s, res, c, w, i)

Outer(t, s, res, r, m, v) ==
  \E c, w : /\ w[1] = r /\ c[Len(s)] = m /\ w[Len(s)] = v
            /\ Links(t, s, res, c, w, Len(s))

LEMMA OuterOne ==
  ASSUME NEW t, NEW s, Len(s) = 1, NEW res, NEW r, NEW m, NEW v
  PROVE  Outer(t, s, res, r, m, v) <=> v = r
<1>1. Outer(t, s, res, r, m, v) => v = r
  BY DEF Outer
<1>2. ASSUME v = r
      PROVE  Outer(t, s, res, r, m, v)
  <2> DEFINE c == [i \in {1} |-> m]
             w == [i \in {1} |-> r]
  <2>1. c[1] = m /\ w[1] = r
    OBVIOUS
  <2> HIDE DEF c, w
  <2>2. Links(t, s, res, c, w, 1)
    BY DEF Links
  <2> QED BY <1>2, <2>1, <2>2 DEF Outer
<1> QED BY <1>1, <1>2

LEMMA OuterPush ==
  ASSUME NEW t, NEW s, NEW n \in Nat, n > 0, Len(s) = n, NEW s2, Len(s2) = n + 1,
         \A i \in 1..n : s2[i] = s[i],
         NEW res, NEW r, NEW m, NEW v
  PROVE  Outer(t, s2, res, r, m, v) <=>
           \E m0, v0 : Outer(t, s, res, r, m0, v0) /\ AfterOf(t, s[n], res, v, m + 1, m0, v0)
<1>1. /\ n \in 1..n /\ 1 # n + 1 /\ n # n + 1 /\ (n + 1) - 1 = n
      /\ \A i \in 1..n : i # n + 1 /\ i \in 1..(n + 1) /\ (i \in 1..(n - 1) \/ i = n)
      /\ \A i \in 1..(n - 1) : i \in 1..n /\ i + 1 \in 1..n
      /\ 1 \in 1..n
  OBVIOUS
<1>2. ASSUME Outer(t, s2, res, r, m, v)
      PROVE  \E m0, v0 : Outer(t, s, res, r, m0, v0) /\ AfterOf(t, s[n], res, v, m + 1, m0, v0)
  <2>1. PICK c, w : /\ w[1] = r /\ c[n + 1] = m /\ w[n + 1] = v
                    /\ Links(t, s2, res, c, w, n + 1)
    BY <1>2 DEF Outer
  <2>2. \A i \in 1..n : Linked(t, s2, res, c, w, i)
    BY <1>1, <2>1 DEF Links
  <2>3. \A i \in 1..n : Linked(t, s, res, c, w, i)
    BY <2>2 DEF Linked
  <2>4. Outer(t, s, res, r, c[n], w[n])
    BY <1>1, <2>1, <2>3 DEF Outer, Links
  <2>5. AfterOf(t, s[n], res, v, m + 1, c[n], w[n])
    BY <1>1, <2>1, <2>3 DEF Linked
  <2> QED BY <2>4, <2>5
<1>3. ASSUME NEW m0, NEW v0, Outer(t, s, res, r, m0, v0),
             AfterOf(t, s[n], res, v, m + 1, m0, v0)
      PROVE  Outer(t, s2, res, r, m, v)
  <2>1. PICK c, w : /\ w[1] = r /\ c[n] = m0 /\ w[n] = v0
                    /\ Links(t, s, res, c, w, n)
    BY <1>3 DEF Outer
  <2> DEFINE c2 == [i \in 1..(n + 1) |-> IF i = n + 1 THEN m ELSE c[i]]
             w2 == [i \in 1..(n + 1) |-> IF i = n + 1 THEN v ELSE w[i]]
  <2>2. /\ c2[n + 1] = m /\ w2[n + 1] = v
        /\ \A i \in 1..n : c2[i] = c[i] /\ w2[i] = w[i]
    BY <1>1
  <2> HIDE DEF c2, w2
  <2>3. ASSUME NEW i \in 1..n
        PROVE  Linked(t, s2, res, c2, w2, i)
    <3>1. CASE i \in 1..(n - 1)
      <4>1. Linked(t, s, res, c, w, i)
        BY <2>1, <3>1 DEF Links
      <4>2. c2[i] = c[i] /\ w2[i] = w[i] /\ c2[i + 1] = c[i + 1] /\ w2[i + 1] = w[i + 1]
        BY <1>1, <2>2, <3>1
      <4> QED BY <4>1, <4>2 DEF Linked
    <3>2. CASE i = n
      BY <1>1, <1>3, <2>1, <2>2, <3>2 DEF Linked
    <3> QED BY <1>1, <3>1, <3>2
  <2>4. w2[1] = r /\ Links(t, s2, res, c2, w2, n + 1)
    BY <1>1, <2>1, <2>2, <2>3 DEF Links
  <2> QED BY <2>2, <2>4 DEF Outer
<1> QED BY <1>2, <1>3

LEMMA OuterSame ==
  ASSUME NEW t, NEW s, NEW s2, Len(s2) = Len(s), \A i \in 1..(Len(s) - 1) : s2[i] = s[i],
         NEW res, NEW res2, Len(s) = 1 \/ res2 = res, NEW r, NEW m, NEW v
  PROVE  Outer(t, s2, res2, r, m, v) <=> Outer(t, s, res, r, m, v)
<1>1. CASE Len(s) = 1
  BY <1>1, OuterOne
<1>2. CASE res2 = res
  <2>1. \A c, w : Links(t, s2, res2, c, w, Len(s)) <=> Links(t, s, res, c, w, Len(s))
    <3> SUFFICES ASSUME NEW c, NEW w
                 PROVE  Links(t, s2, res2, c, w, Len(s)) <=> Links(t, s, res, c, w, Len(s))
      OBVIOUS
    <3>1. \A i \in 1..(Len(s) - 1) : Linked(t, s2, res2, c, w, i) <=> Linked(t, s, res, c, w, i)
      BY <1>2 DEF Linked
    <3> QED BY <3>1 DEF Links
  <2> QED BY <2>1 DEF Outer
<1> QED BY <1>1, <1>2

(* What the last activation may return                                     *)
LoopFrom(t, call, close, items, p, m, v) ==
  IF call = "list" THEN ListFrom(t, items, close, p, m, v)
  ELSE VectorFrom(t, items, close, p, m, v)

Inner(t, a, res, md, p, x, m, v) ==
  \/ md = "read" /\ Reads(t, a.call, a.close, Kept(a, res), p, m, v)
  \/ md = "return" /\ AfterOf(t, a, res, x, p, m, v)
  \/ md = "loop" /\ LoopFrom(t, a.call, a.close, Kept(a, res), p, m, v)
  \/ md = "done" /\ v = res

Possible(t, s, res, md, p, x, r) ==
  \E m, v : Outer(t, s, res, r, m, v) /\ Inner(t, s[Len(s)], res, md, p, x, m, v)

(* No more is kept than has been read.                                     *)
Fits(a, res, k) ==
  /\ IsSequence(Kept(a, res)) /\ Len(Kept(a, res)) < k
  /\ a.call \notin {"parseDatum", "comment"} => a.close # "eof"

CallersFit(s, res, p) == \A i \in 1..(Len(s) - 1) : Fits(s[i], res, p - 1)

TopFits(a, res, md, p, x) ==
  Fits(a, res, IF md = "return" /\ x \notin {DAT_COM, DAT_EOF} THEN p - 1 ELSE p)

(* A text without a comment on a comment                                   *)
Plain(t) ==
  /\ \A p \in First(t) : ~(CommentAt(t, p) /\ CommentAt(t, p + 1))
  /\ Len(t) <= MaxItems

(* As long as there is no error, the data of the text are those that may   *)
(* still be left; once there is one, the text has no reading.              *)
ReadingInv ==
  /\ Plain(input)
  /\ errors = 0 =>
       /\ ~inError /\ mode # "skip"
       /\ mode = "loop" => Top.call \in {"list", "vector"}
       /\ CallersFit(stack, results, pos)
       /\ TopFits(Top, results, mode, pos, val)
       /\ mode # "abort" =>
            \A r : r \in Grammar!Readings(input) <=>
                     Possible(input, stack, results, mode, pos, val, r)
  /\ errors # 0 => Grammar!Readings(input) = {}

-----------------------------------------------------------------------------
(* Steps that change what the last activation does, start another or end   *)
(* it, and leave what is possible                                          *)
LEMMA PossibleSame ==
  ASSUME NEW t, NEW s, NEW s2, NEW res, NEW res2, NEW md, NEW md2, NEW p, NEW p2, NEW x, NEW x2,
         Len(s2) = Len(s), \A i \in 1..(Len(s) - 1) : s2[i] = s[i],
         Len(s) = 1 \/ res2 = res,
         \A m, v : Inner(t, s[Len(s)], res, md, p, x, m, v)
                   <=> Inner(t, s2[Len(s)], res2, md2, p2, x2, m, v),
         NEW r
  PROVE  Possible(t, s2, res2, md2, p2, x2, r) <=> Possible(t, s, res, md, p, x, r)
<1>1. \A m, v : Outer(t, s2, res2, r, m, v) <=> Outer(t, s, res, r, m, v)
  BY OuterSame
<1> QED BY <1>1 DEF Possible

(* What a may return is what it may return after a2, which it started.     *)
Continues(t, a, a2, res, md, md2, p, p2, x, x2) ==
  \A m, v : Inner(t, a, res, md, p, x, m, v)
            <=> \E m1, v1 : /\ Inner(t, a2, res, md2, p2, x2, m1, v1)
                            /\ AfterOf(t, a, res, v1, m1 + 1, m, v)

LEMMA PossiblePush ==
  ASSUME NEW t, NEW s, NEW s2, NEW res, NEW md, NEW md2, NEW p, NEW p2, NEW x, NEW x2,
         NEW n \in Nat, n > 0, Len(s) = n, Len(s2) = n + 1, \A i \in 1..n : s2[i] = s[i],
         Continues(t, s[n], s2[n + 1], res, md, md2, p, p2, x, x2),
         NEW r
  PROVE  Possible(t, s2, res, md2, p2, x2, r) <=> Possible(t, s, res, md, p, x, r)
<1>1. \A m1, v1 : Outer(t, s2, res, r, m1, v1) <=>
                    \E m, v : Outer(t, s, res, r, m, v) /\ AfterOf(t, s[n], res, v1, m1 + 1, m, v)
  BY OuterPush
<1> QED BY <1>1 DEF Possible, Continues

LEMMA PossiblePop ==
  ASSUME NEW t, NEW s, NEW s2, NEW res, NEW md, NEW p, NEW p2 \in Nat, NEW x, NEW x2,
         NEW n \in Nat, n > 0, Len(s2) = n, Len(s) = n + 1, \A i \in 1..n : s2[i] = s[i],
         \A m, v : Inner(t, s[n + 1], res, md, p, x, m, v) <=> m = p2 - 1 /\ v = x2,
         NEW r
  PROVE  Possible(t, s2, res, "return", p2, x2, r) <=> Possible(t, s, res, md, p, x, r)
<1>1. \A m, v : Outer(t, s, res, r, m, v) <=>
                  \E m0, v0 : /\ Outer(t, s2, res, r, m0, v0)
                              /\ AfterOf(t, s2[n], res, v, m + 1, m0, v0)
  <2>1. \A i \in 1..n : s[i] = s2[i]
    OBVIOUS
  <2> QED BY <2>1, OuterPush
<1>2. \A m, v : Inner(t, s2[n], res, "return", p2, x2, m, v)
        <=> AfterOf(t, s2[n], res, x2, p2, m, v)
  BY DEF Inner
<1>3. (p2 - 1) + 1 = p2
  OBVIOUS
<1>4. Possible(t, s, res, md, p, x, r) <=> Outer(t, s, res, r, p2 - 1, x2)
  BY DEF Possible
<1>5. Possible(t, s2, res, "return", p2, x2, r) <=>
        \E m0, v0 : Outer(t, s2, res, r, m0, v0) /\ AfterOf(t, s2[n], res, x2, p2, m0, v0)
  BY <1>2 DEF Possible
<1> QED BY <1>1, <1>3, <1>4, <1>5

LEMMA Silent ==
  ASSUME ReadingInv, errors = 0, mode # "abort",
         input' = input, errors' = 0, ~inError', mode' # "skip",
         mode' = "loop" => Top'.call \in {"list", "vector"},
         CallersFit(stack', results', pos'), TopFits(Top', results', mode', pos', val'),
         \A r : Possible(input, stack', results', mode', pos', val', r)
                <=> Possible(input, stack, results, mode, pos, val, r)
  PROVE  ReadingInv'
<1>1. \A r : r \in Grammar!Readings(input)
             <=> Possible(input, stack', results', mode', pos', val', r)
  BY DEF ReadingInv
<1>2. Plain(input)
  BY DEF ReadingInv
<1> QED BY <1>1, <1>2 DEF ReadingInv

LEMMA Reported ==
  ASSUME ReadingInv, errors = 0, mode # "abort", MaxErrors > 0,
         input' = input, Report,
         \A m, v : ~Inner(input, Top, results, mode, pos, val, m, v)
  PROVE  ReadingInv'
<1>1. \A r : ~Possible(input, stack, results, mode, pos, val, r)
  BY DEF Possible, Top
<1>2. \A r : r \notin Grammar!Readings(input)
  BY <1>1 DEF ReadingInv
<1>3. Grammar!Readings(input) = {} /\ Plain(input)
  BY <1>2 DEF ReadingInv
<1>4. errors' = 1
  BY DEF Report
<1>5. errors' # 0
  BY <1>4
<1> QED BY <1>3, <1>5 DEF ReadingInv

LEMMA Here ==
  ASSUME IInv
  PROVE  /\ input \in Seq(Token) /\ pos \in First(input) /\ pos \in Nat /\ Len(input) \in Nat
         /\ \A x : x # "eof" => (TokenIs(input, pos, x) <=> tok = x)
         /\ tok = "eof" <=> pos = Len(input) + 1
         /\ tok # "eof" => pos <= Len(input) /\ input[pos] = tok /\ pos + 1 \in First(input)
                           /\ tok \in Token
<1>1. /\ Len(input) \in Nat /\ pos \in Nat
      /\ pos <= Len(input) => tok = input[pos] /\ tok \in Token
      /\ tok = "eof" <=> pos = Len(input) + 1
  BY TokenAt
<1>2. input \in Seq(Token) /\ pos \in 1..(Len(input) + 1)
  BY DEF IInv
<1>3. pos <= Len(input) \/ pos = Len(input) + 1
  BY <1>1, <1>2
<1>4. ~(Len(input) + 1 <= Len(input))
  BY <1>1
<1>5. \A x : x # "eof" => (TokenIs(input, pos, x) <=> tok = x)
  BY <1>1, <1>3, <1>4 DEF TokenIs
<1>6. pos <= Len(input) => pos + 1 \in 1..(Len(input) + 1)
  BY <1>1, <1>2
<1> QED BY <1>1, <1>2, <1>3, <1>5, <1>6 DEF First

LEMMA FitsMore ==
  ASSUME NEW a, NEW res, NEW k \in Nat, NEW k2 \in Nat, k <= k2, Fits(a, res, k)
  PROVE  Fits(a, res, k2)
<1>1. IsSequence(Kept(a, res)) /\ Len(Kept(a, res)) < k
  BY DEF Fits
<1>2. Len(Kept(a, res)) \in Nat
  BY <1>1, SequenceLen
<1>3. Len(Kept(a, res)) < k2
  BY <1>1, <1>2
<1> QED BY <1>1, <1>3 DEF Fits

LEMMA CallersMore ==
  ASSUME NEW s, NEW res, NEW p \in Nat, NEW p2 \in Nat, p > 0, p <= p2, CallersFit(s, res, p)
  PROVE  CallersFit(s, res, p2)
<1>1. p - 1 \in Nat /\ p2 - 1 \in Nat /\ p - 1 <= p2 - 1
  OBVIOUS
<1> QED BY <1>1, FitsMore DEF CallersFit

LEMMA InnerModes ==
  ASSUME NEW t, NEW a, NEW res, NEW p, NEW x, NEW m, NEW v
  PROVE  /\ Inner(t, a, res, "read", p, x, m, v)
            <=> Reads(t, a.call, a.close, Kept(a, res), p, m, v)
         /\ Inner(t, a, res, "return", p, x, m, v) <=> AfterOf(t, a, res, x, p, m, v)
         /\ Inner(t, a, res, "loop", p, x, m, v)
            <=> LoopFrom(t, a.call, a.close, Kept(a, res), p, m, v)
         /\ Inner(t, a, res, "done", p, x, m, v) <=> v = res
BY DEF Inner

(* Steps of the last activation that keep the stack                        *)
LEMMA SameStack ==
  ASSUME IInv, ReadingInv, errors = 0, mode # "abort",
         input' = input, errors' = 0, ~inError', mode' # "skip",
         mode' = "loop" => Top.call \in {"list", "vector"},
         stack' = stack, results' = results, pos' \in Nat, pos <= pos',
         TopFits(Top, results, mode', pos', val'),
         \A m, v : Inner(input, Top, results, mode, pos, val, m, v)
                   <=> Inner(input, Top, results, mode', pos', val', m, v)
  PROVE  ReadingInv'
<1>1. Top' = Top
  BY DEF Top
<1>2. pos \in Nat /\ pos > 0
  BY Here DEF First
<1>3. CallersFit(stack', results', pos')
  BY <1>2, CallersMore DEF ReadingInv
<1>4. \A r : Possible(input, stack', results', mode', pos', val', r)
             <=> Possible(input, stack, results, mode, pos, val, r)
  BY PossibleSame DEF Top
<1> QED BY <1>1, <1>3, <1>4, Silent

LEMMA ReadEofReading ==
  ASSUME IInv, ReadingInv, errors = 0, ReadEof
  PROVE  ReadingInv'
<1>1. /\ mode = "read" /\ tok = "eof" /\ mode' = "return" /\ val' = DAT_EOF
      /\ UNCHANGED <<input, pos, stack, inError, results, errors>>
  BY DEF ReadEof, Return
<1>2. input \in Seq(Token) /\ pos \in Nat /\ pos = Len(input) + 1
  BY <1>1, Here
<1>3. TopFits(Top, results, mode', pos', val')
  BY <1>1 DEF ReadingInv, TopFits
<1>4. ASSUME NEW m, NEW v
      PROVE  Inner(input, Top, results, mode, pos, val, m, v)
             <=> Inner(input, Top, results, mode', pos', val', m, v)
  <2>1. Inner(input, Top, results, mode, pos, val, m, v)
        <=> Reads(input, Top.call, Top.close, Kept(Top, results), pos, m, v)
    BY <1>1, InnerModes
  <2>2. Reads(input, Top.call, Top.close, Kept(Top, results), pos, m, v)
        <=> AfterOf(input, Top, results, DAT_EOF, pos, m, v)
    BY <1>2, EndGives DEF Reads, AfterOf
  <2>3. Inner(input, Top, results, mode', pos', val', m, v)
        <=> AfterOf(input, Top, results, DAT_EOF, pos, m, v)
    BY <1>1, InnerModes
  <2> QED BY <2>1, <2>2, <2>3
<1>5. pos' \in Nat /\ pos <= pos'
  BY <1>1, <1>2
<1>6. ~inError /\ errors' = 0 /\ mode' # "skip" /\ mode' # "loop" /\ mode # "abort"
  BY <1>1 DEF ReadingInv
<1> QED BY <1>1, <1>3, <1>4, <1>5, <1>6, SameStack

LEMMA ReadAtomReading ==
  ASSUME IInv, ReadingInv, errors = 0, ReadAtom
  PROVE  ReadingInv'
<1>1. /\ mode = "read" /\ tok = "atom" /\ next /\ mode' = "return" /\ val' = Atom(pos)
      /\ UNCHANGED <<input, stack, inError, results, errors>>
  BY DEF ReadAtom, Return
<1>2. /\ input \in Seq(Token) /\ pos \in First(input) /\ pos \in Nat /\ pos <= Len(input)
      /\ input[pos] = "atom" /\ pos' = pos + 1
  BY <1>1, Here DEF next
<1>3. TopFits(Top, results, mode', pos', val')
  <2>1. Fits(Top, results, pos)
    BY <1>1 DEF ReadingInv, TopFits
  <2>2. Fits(Top, results, pos + 1) /\ (pos + 1) - 1 = pos
    BY <1>2, <2>1, FitsMore
  <2> QED BY <1>2, <2>1, <2>2 DEF TopFits
<1>4. ASSUME NEW m, NEW v
      PROVE  Inner(input, Top, results, mode, pos, val, m, v)
             <=> Inner(input, Top, results, mode', pos', val', m, v)
  <2>1. Inner(input, Top, results, mode, pos, val, m, v)
        <=> Reads(input, Top.call, Top.close, Kept(Top, results), pos, m, v)
    BY <1>1, InnerModes
  <2>2. Reads(input, Top.call, Top.close, Kept(Top, results), pos, m, v)
        <=> AfterOf(input, Top, results, Atom(pos), pos + 1, m, v)
    BY <1>2, AtomGives DEF Reads, AfterOf
  <2>3. Inner(input, Top, results, mode', pos', val', m, v)
        <=> AfterOf(input, Top, results, Atom(pos), pos + 1, m, v)
    BY <1>1, <1>2, InnerModes
  <2> QED BY <2>1, <2>2, <2>3
<1>5. pos' \in Nat /\ pos <= pos'
  BY <1>2
<1>6. ~inError /\ errors' = 0 /\ mode' # "skip" /\ mode' # "loop" /\ mode # "abort"
  BY <1>1 DEF ReadingInv
<1> QED BY <1>1, <1>3, <1>4, <1>5, <1>6, SameStack

LEMMA ReadAbbreviationReading ==
  ASSUME IInv, ReadingInv, errors = 0, ReadAbbreviation
  PROVE  ReadingInv'
<1>1. /\ mode = "read" /\ mode' = "abort"
      /\ UNCHANGED <<input, pos, stack, val, inError, results, errors>>
  BY DEF ReadAbbreviation
<1>2. Top' = Top /\ TopFits(Top', results', mode', pos', val')
  BY <1>1 DEF ReadingInv, TopFits, Top
<1> QED BY <1>1, <1>2 DEF ReadingInv

LEMMA ReadInvalidReading ==
  ASSUME IInv, ReadingInv, errors = 0, MaxErrors > 0, ReadInvalid
  PROVE  ReadingInv'
<1>1. mode = "read" /\ tok \in Invalid /\ input' = input
  BY DEF ReadInvalid
<1>2. ~inError
  BY DEF ReadingInv
<1>3. Report
  BY <1>2 DEF ReadInvalid
<1>4. tok # "eof"
  BY <1>1 DEF Invalid
<1>5. /\ input \in Seq(Token) /\ pos \in First(input) /\ pos <= Len(input) /\ input[pos] = tok
  BY <1>4, Here
<1>6. input[pos] \notin Start
  BY <1>1, <1>5, NoStart
<1>7. ASSUME NEW m, NEW v
      PROVE  ~Inner(input, Top, results, mode, pos, val, m, v)
  BY <1>1, <1>5, <1>6, InvalidGives, InnerModes DEF Reads
<1> QED BY <1>1, <1>3, <1>7, Reported

(* Steps that start an activation                                          *)
LEMMA Pushed ==
  ASSUME IInv, ReadingInv, errors = 0, mode = "read",
         input' = input, errors' = 0, ~inError', mode' # "skip",
         mode' = "loop" => Top'.call \in {"list", "vector"},
         Len(stack') = Len(stack) + 1, \A i \in 1..Len(stack) : stack'[i] = stack[i],
         results' = results, pos' = pos + 1,
         TopFits(Top', results', mode', pos', val'),
         Continues(input, Top, Top', results, mode, mode', pos, pos', val, val')
  PROVE  ReadingInv'
<1> DEFINE n == Len(stack)
<1>1. n \in Nat /\ n > 0 /\ Top = stack[n]
  BY TopProperties
<1>2. Top' = stack'[n + 1] /\ Len(stack') = n + 1
  BY DEF Top
<1>3. pos \in Nat /\ pos > 0
  BY Here DEF First
<1>4. CallersFit(stack', results', pos')
  <2>1. /\ (n + 1) - 1 = n /\ (pos + 1) - 1 = pos /\ pos - 1 \in Nat /\ pos - 1 <= pos
        /\ \A i \in 1..n : i \in 1..(n - 1) \/ i = n
    BY <1>1, <1>3
  <2>2. Fits(Top, results, pos)
    BY DEF ReadingInv, TopFits
  <2>3. \A i \in 1..(n - 1) : Fits(stack[i], results, pos - 1)
    BY DEF ReadingInv, CallersFit
  <2>4. \A i \in 1..(n - 1) : Fits(stack[i], results, pos)
    BY <1>3, <2>1, <2>3, FitsMore
  <2>5. \A i \in 1..n : Fits(stack[i], results, pos)
    BY <1>1, <2>1, <2>2, <2>4
  <2> QED BY <1>2, <2>1, <2>5 DEF CallersFit
<1>5. ASSUME NEW r
      PROVE  Possible(input, stack', results', mode', pos', val', r)
             <=> Possible(input, stack, results, mode, pos, val, r)
  <2>1. Continues(input, stack[n], stack'[n + 1], results, mode, mode', pos, pos', val, val')
    BY <1>1, <1>2
  <2>2. Len(stack) = n /\ \A i \in 1..n : stack'[i] = stack[i]
    OBVIOUS
  <2> HIDE DEF n
  <2>3. n \in Nat /\ n > 0 /\ Len(stack') = n + 1
    BY <1>1, <1>2
  <2>4. Possible(input, stack', results, mode', pos', val', r)
        <=> Possible(input, stack, results, mode, pos, val, r)
    BY <2>1, <2>2, <2>3, PossiblePush
  <2> QED BY <2>4
<1>6. mode # "abort"
  OBVIOUS
<1> QED BY <1>4, <1>5, <1>6, Silent

(* Steps that end one                                                      *)
LEMMA Popped ==
  ASSUME IInv, ReadingInv, errors = 0, mode # "abort", Top.call # "parseDatum",
         input' = input, errors' = 0, ~inError', mode' = "return",
         stack' = Callers, results' = results, pos' \in Nat, pos <= pos',
         \A m, v : Inner(input, Top, results, mode, pos, val, m, v) <=> m = pos' - 1 /\ v = val'
  PROVE  ReadingInv'
<1> DEFINE n == Len(stack) - 1
<1>1. n \in Nat /\ n > 0 /\ Len(stack) = n + 1 /\ Top = stack[n + 1] /\ n \in 1..n
  <2>1. Len(stack) \in Nat /\ Len(stack) > 0 /\ Len(stack) # 1 /\ Top = stack[Len(stack)]
    BY TopProperties
  <2>2. \A k \in Nat : k > 0 /\ k # 1 => k - 1 \in Nat /\ k - 1 > 0 /\ (k - 1) + 1 = k
                                         /\ k - 1 \in 1..(k - 1)
    OBVIOUS
  <2> QED BY <2>1, <2>2
<1>2. Len(stack') = n /\ \A i \in 1..n : stack'[i] = stack[i]
  BY PopStacked DEF IInv, Callers, Top
<1>3. Top' = stack[n]
  BY <1>1, <1>2 DEF Top
<1>4. pos \in Nat /\ pos > 0
  BY Here DEF First
<1>5. \A i \in 1..n : Fits(stack[i], results, pos - 1)
  BY <1>1 DEF ReadingInv, CallersFit
<1>6. \A i \in 1..(n - 1) : i \in 1..n
  BY <1>1
<1>7. CallersFit(stack', results', pos)
  BY <1>2, <1>5, <1>6 DEF CallersFit
<1>8. CallersFit(stack', results', pos')
  BY <1>4, <1>7, CallersMore
<1>9. TopFits(Top', results', mode', pos', val')
  <2>1. pos - 1 \in Nat /\ pos' - 1 \in Nat /\ pos - 1 <= pos' - 1 /\ pos - 1 <= pos'
    <3>1. \A k, l \in Nat : k > 0 /\ k <= l =>
            k - 1 \in Nat /\ l - 1 \in Nat /\ k - 1 <= l - 1 /\ k - 1 <= l
      OBVIOUS
    <3>2. pos' \in Nat /\ pos <= pos'
      OBVIOUS
    <3> QED BY <1>4, <3>1, <3>2
  <2>2. Fits(stack[n], results, pos' - 1) /\ Fits(stack[n], results, pos')
    BY <1>1, <1>5, <2>1, FitsMore
  <2> QED BY <1>3, <2>2 DEF TopFits
<1>10. ASSUME NEW r
       PROVE  Possible(input, stack', results', mode', pos', val', r)
              <=> Possible(input, stack, results, mode, pos, val, r)
  BY <1>1, <1>2, PossiblePop
<1>11. mode' # "skip" /\ mode' # "loop"
  OBVIOUS
<1> QED BY <1>8, <1>9, <1>10, <1>11, Silent

LEMMA ReadCompoundReading ==
  ASSUME IInv, ReadingInv, errors = 0, ReadCompound
  PROVE  ReadingInv'
<1>1. /\ mode = "read" /\ tok \in Opening /\ next /\ mode' = "loop"
      /\ UNCHANGED <<input, val, inError, results, errors>>
  BY DEF ReadCompound
<1>2. tok # "eof"
  BY <1>1 DEF Opening
<1>3. /\ input \in Seq(Token) /\ pos \in First(input) /\ pos \in Nat /\ pos <= Len(input)
      /\ input[pos] = tok /\ pos' = pos + 1
  BY <1>1, <1>2, Here DEF next
<1>4. /\ Top'.call = (IF tok = "#(" THEN "vector" ELSE "list") /\ Top'.close = Closing(tok)
      /\ Top'.items = <<>>
      /\ Len(stack') = Len(stack) + 1 /\ \A i \in 1..Len(stack) : stack'[i] = stack[i]
  BY ReadCompoundPush DEF Top
<1>5. Kept(Top', results) = <<>>
  BY <1>4 DEF Kept
<1>6. TopFits(Top', results', mode', pos', val')
  <2>1. Top'.close # "eof"
    BY <1>4 DEF Closing
  <2>2. IsSequence(<<>>) /\ Len(<<>>) < pos + 1
    BY <1>3, EmptySequence
  <2>3. Fits(Top', results, pos + 1)
    BY <1>5, <2>1, <2>2 DEF Fits
  <2> QED BY <1>1, <1>3, <2>3 DEF TopFits
<1>7. ASSUME NEW m1, NEW v1
      PROVE  Gives(input, pos, m1, v1) <=> Inner(input, Top', results, mode', pos', val', m1, v1)
  <2>1. Inner(input, Top', results, mode', pos', val', m1, v1)
        <=> LoopFrom(input, Top'.call, Top'.close, <<>>, pos + 1, m1, v1)
    BY <1>1, <1>3, <1>5, InnerModes
  <2>2. CASE tok = "#("
    <3>1. Gives(input, pos, m1, v1) <=> VectorFrom(input, <<>>, ")", pos + 1, m1, v1)
      BY <1>3, <2>2, VectorGives
    <3>2. Top'.call = "vector" /\ Top'.close = ")"
      BY <1>4, <2>2 DEF Closing
    <3> QED BY <2>1, <3>1, <3>2 DEF LoopFrom
  <2>3. CASE tok # "#("
    <3>1. tok \in {"(", "["}
      BY <1>1, <2>3 DEF Opening
    <3>2. Gives(input, pos, m1, v1) <=> ListFrom(input, <<>>, Closing(tok), pos + 1, m1, v1)
      BY <1>3, <3>1, ListGives
    <3>3. Top'.call = "list" /\ Top'.close = Closing(tok)
      BY <1>4, <2>3
    <3> QED BY <2>1, <3>2, <3>3 DEF LoopFrom
  <2> QED BY <2>2, <2>3
<1>8. Continues(input, Top, Top', results, mode, mode', pos, pos', val, val')
  <2>1. \A m, v : Inner(input, Top, results, mode, pos, val, m, v)
                  <=> Reads(input, Top.call, Top.close, Kept(Top, results), pos, m, v)
    BY <1>1, InnerModes
  <2> QED BY <1>7, <2>1 DEF Reads, AfterOf, Continues
<1>9. /\ ~inError' /\ errors' = 0 /\ mode' # "skip"
      /\ Top'.call \in {"list", "vector"}
  BY <1>1, <1>4 DEF ReadingInv
<1> QED BY <1>1, <1>3, <1>4, <1>6, <1>8, <1>9, Pushed

LEMMA ReadCommentReading ==
  ASSUME IInv, ReadingInv, errors = 0, ReadComment
  PROVE  ReadingInv'
<1>1. /\ mode = "read" /\ next /\ mode' = "read" /\ ~inError'
      /\ UNCHANGED <<input, val, results, errors>>
  BY DEF ReadComment, CallRead
<1>2. tok # "eof" /\ (pos <= Len(input) => CommentAt(input, pos))
  BY DEF ReadComment, CommentAt, tok
<1>3. /\ input \in Seq(Token) /\ pos \in First(input) /\ pos \in Nat /\ CommentAt(input, pos)
      /\ pos' = pos + 1
  BY <1>1, <1>2, Here DEF next
<1>4. ~CommentAt(input, pos + 1)
  BY <1>3 DEF ReadingInv, Plain
<1>5. /\ Top'.call = "comment" /\ Top'.items = <<>>
      /\ Len(stack') = Len(stack) + 1 /\ \A i \in 1..Len(stack) : stack'[i] = stack[i]
  BY ReadCommentPush DEF Top
<1>6. Kept(Top', results) = <<>>
  BY <1>5 DEF Kept
<1>7. TopFits(Top', results', mode', pos', val')
  <2>1. IsSequence(<<>>) /\ Len(<<>>) < pos + 1
    BY <1>3, EmptySequence
  <2>2. Fits(Top', results, pos + 1)
    BY <1>5, <1>6, <2>1 DEF Fits
  <2> QED BY <1>1, <1>3, <2>2 DEF TopFits
<1>8. ASSUME NEW m1, NEW v1
      PROVE  Gives(input, pos, m1, v1) <=> Inner(input, Top', results, mode', pos', val', m1, v1)
  <2>1. Inner(input, Top', results, mode', pos', val', m1, v1)
        <=> Reads(input, Top'.call, Top'.close, <<>>, pos + 1, m1, v1)
    BY <1>1, <1>3, <1>6, InnerModes
  <2>2. Gives(input, pos, m1, v1) <=> v1 = DAT_COM /\ \E f : Gives(input, pos + 1, m1, f)
    BY <1>3, <1>4, CommentGives
  <2>3. ASSUME NEW q, NEW f, Gives(input, pos + 1, q, f)
        PROVE  (q + 1) - 1 = q
    <3>1. q \in Last(input)
      BY <2>3 DEF Gives
    <3> QED BY <1>3, <3>1, SpanNumbers
  <2>4. Reads(input, Top'.call, Top'.close, <<>>, pos + 1, m1, v1)
        <=> \E q, f : Gives(input, pos + 1, q, f) /\ m1 = (q + 1) - 1 /\ v1 = DAT_COM
    BY <1>5 DEF Reads, After, AfterComment
  <2> QED BY <2>1, <2>2, <2>3, <2>4
<1>9. Continues(input, Top, Top', results, mode, mode', pos, pos', val, val')
  <2>1. \A m, v : Inner(input, Top, results, mode, pos, val, m, v)
                  <=> Reads(input, Top.call, Top.close, Kept(Top, results), pos, m, v)
    BY <1>1, InnerModes
  <2> QED BY <1>8, <2>1 DEF Reads, AfterOf, Continues
<1>10. errors' = 0 /\ mode' # "skip" /\ mode' # "loop"
  BY <1>1
<1> QED BY <1>1, <1>3, <1>5, <1>7, <1>9, <1>10, Pushed

(* Steps that change the last activation                                   *)
LEMMA Replaced ==
  ASSUME IInv, ReadingInv, errors = 0, mode # "abort",
         input' = input, errors' = 0, ~inError', mode' # "skip",
         mode' = "loop" => Top'.call \in {"list", "vector"},
         Len(stack') = Len(stack), \A i \in 1..(Len(stack) - 1) : stack'[i] = stack[i],
         results' = results, pos' \in Nat, pos <= pos',
         TopFits(Top', results, mode', pos', val'),
         \A m, v : Inner(input, Top, results, mode, pos, val, m, v)
                   <=> Inner(input, Top', results, mode', pos', val', m, v)
  PROVE  ReadingInv'
<1>1. Top' = stack'[Len(stack)] /\ Top = stack[Len(stack)]
  BY DEF Top
<1>2. pos \in Nat /\ pos > 0
  BY Here DEF First
<1>3. CallersFit(stack, results', pos')
  BY <1>2, CallersMore DEF ReadingInv
<1>4. CallersFit(stack', results', pos')
  BY <1>3 DEF CallersFit
<1>5. \A r : Possible(input, stack', results', mode', pos', val', r)
             <=> Possible(input, stack, results, mode, pos, val, r)
  BY <1>1, PossibleSame
<1> QED BY <1>4, <1>5, Silent

(* Nothing that is kept is lost.                                           *)
LEMMA Keeps ==
  ASSUME IInv, Plain(input), NEW s, NEW v, IsSequence(s), Len(s) < pos - 1
  PROVE  /\ Keep(s, v) = Append(s, v)
         /\ IsSequence(Append(s, v)) /\ Len(Append(s, v)) < pos
<1>1. Len(s) \in Nat
  BY SequenceLen
<1>2. pos \in Nat /\ pos <= Len(input) + 1 /\ Len(input) \in Nat /\ MaxItems \in Nat
  BY Here, BoundsAssumption DEF First
<1>3. Len(input) <= MaxItems
  BY DEF Plain
<1>4. Len(s) < MaxItems /\ Len(s) + 1 < pos
  BY <1>1, <1>2, <1>3
<1> QED BY <1>4, AppendSequence DEF Keep

LEMMA LoopReading ==
  ASSUME IInv, ReadingInv, errors = 0, Loop
  PROVE  ReadingInv'
<1>1. mode = "loop" /\ UNCHANGED <<input, results, errors>>
  BY DEF Loop
<1>2. Top.call \in {"list", "vector"} /\ ~inError
  BY <1>1 DEF ReadingInv
<1>3. Kept(Top, results) = Top.items
  BY <1>2 DEF Kept
<1>4. Fits(Top, results, pos)
  BY <1>1 DEF ReadingInv, TopFits
<1>5. IsSequence(Top.items) /\ Top.close # "eof" /\ Top.close \in Close
  BY <1>2, <1>3, <1>4, TopProperties DEF Fits
<1>6. input \in Seq(Token) /\ pos \in First(input) /\ pos \in Nat
      /\ (TokenIs(input, pos, Top.close) <=> tok = Top.close)
  BY <1>5, Here
<1>7. \A m, v : Inner(input, Top, results, mode, pos, val, m, v)
                <=> LoopFrom(input, Top.call, Top.close, Top.items, pos, m, v)
  BY <1>1, <1>3, InnerModes
<1>8. CASE tok = Top.close
  <2>1. /\ next /\ stack' = Callers /\ mode' = "return" /\ UNCHANGED inError
        /\ val' = IF Top.call = "vector" THEN SyntaxVector(Top.items)
                                         ELSE toList(Top.items, SyntaxNil)
    BY <1>8 DEF Loop, Return
  <2>2. pos' = pos + 1 /\ pos' \in Nat /\ pos <= pos' /\ pos' - 1 = pos
    BY <1>5, <1>6, <1>8, <2>1 DEF next
  <2>3. ASSUME NEW m, NEW v
        PROVE  Inner(input, Top, results, mode, pos, val, m, v) <=> m = pos' - 1 /\ v = val'
    <3>1. CASE Top.call = "list"
      <4>1. Inner(input, Top, results, mode, pos, val, m, v)
            <=> ListFrom(input, Top.items, Top.close, pos, m, v)
        BY <1>7, <3>1 DEF LoopFrom
      <4>2. ListFrom(input, Top.items, Top.close, pos, m, v)
            <=> m = pos /\ v = toList(Top.items, SyntaxNil)
        BY <1>5, <1>6, <1>8, ListCloses
      <4> QED BY <2>1, <2>2, <3>1, <4>1, <4>2
    <3>2. CASE Top.call = "vector"
      <4>1. Inner(input, Top, results, mode, pos, val, m, v)
            <=> VectorFrom(input, Top.items, Top.close, pos, m, v)
        BY <1>7, <3>2 DEF LoopFrom
      <4>2. VectorFrom(input, Top.items, Top.close, pos, m, v)
            <=> m = pos /\ v = SyntaxVector(Top.items)
        BY <1>5, <1>6, <1>8, VectorCloses
      <4> QED BY <2>1, <2>2, <3>2, <4>1, <4>2
    <3> QED BY <1>2, <3>1, <3>2
  <2>4. mode # "abort" /\ Top.call # "parseDatum" /\ errors' = 0 /\ ~inError'
    BY <1>1, <1>2, <2>1
  <2> QED BY <1>1, <2>1, <2>2, <2>3, <2>4, Popped
<1>9. CASE tok # Top.close
  <2>1. mode' = "read" /\ ~inError' /\ UNCHANGED <<pos, stack, val>>
    BY <1>9 DEF Loop, CallRead
  <2>2. ASSUME NEW m, NEW v
        PROVE  Inner(input, Top, results, mode, pos, val, m, v)
               <=> Inner(input, Top, results, mode', pos', val', m, v)
    <3>1. Inner(input, Top, results, mode', pos', val', m, v)
          <=> Reads(input, Top.call, Top.close, Top.items, pos, m, v)
      BY <1>3, <2>1, InnerModes
    <3>2. CASE Top.call = "list"
      <4>1. LoopFrom(input, Top.call, Top.close, Top.items, pos, m, v)
            <=> ListFrom(input, Top.items, Top.close, pos, m, v)
        BY <3>2 DEF LoopFrom
      <4>2. ListFrom(input, Top.items, Top.close, pos, m, v)
            <=> Reads(input, "list", Top.close, Top.items, pos, m, v)
        BY <1>5, <1>6, <1>9, ListReads
      <4> QED BY <1>7, <3>1, <3>2, <4>1, <4>2
    <3>3. CASE Top.call = "vector"
      <4>1. LoopFrom(input, Top.call, Top.close, Top.items, pos, m, v)
            <=> VectorFrom(input, Top.items, Top.close, pos, m, v)
        BY <3>3 DEF LoopFrom
      <4>2. VectorFrom(input, Top.items, Top.close, pos, m, v)
            <=> Reads(input, "vector", Top.close, Top.items, pos, m, v)
        BY <1>5, <1>6, <1>9, VectorReads
      <4> QED BY <1>7, <3>1, <3>3, <4>1, <4>2
    <3> QED BY <1>2, <3>2, <3>3
  <2>3. TopFits(Top, results, mode', pos', val')
    BY <1>4, <2>1 DEF TopFits
  <2>4. /\ mode # "abort" /\ errors' = 0 /\ mode' # "skip" /\ mode' # "loop"
        /\ pos' \in Nat /\ pos <= pos'
    BY <1>1, <1>6, <2>1
  <2> QED BY <1>1, <2>1, <2>2, <2>3, <2>4, SameStack
<1> QED BY <1>8, <1>9

LEMMA CommentReturnsReading ==
  ASSUME IInv, ReadingInv, errors = 0, CommentReturns
  PROVE  ReadingInv'
<1>1. /\ mode = "return" /\ Top.call = "comment" /\ stack' = Callers
      /\ mode' = "return" /\ val' = DAT_COM
      /\ UNCHANGED <<input, pos, inError, results, errors>>
  BY DEF CommentReturns, Return
<1>2. ASSUME NEW m, NEW v
      PROVE  Inner(input, Top, results, mode, pos, val, m, v) <=> m = pos' - 1 /\ v = val'
  <2>1. Inner(input, Top, results, mode, pos, val, m, v)
        <=> AfterOf(input, Top, results, val, pos, m, v)
    BY <1>1, InnerModes
  <2>2. AfterOf(input, Top, results, val, pos, m, v) <=> m = pos - 1 /\ v = DAT_COM
    BY <1>1 DEF AfterOf, After, AfterComment
  <2> QED BY <1>1, <2>1, <2>2
<1>3. pos' \in Nat /\ pos <= pos'
  BY <1>1, Here
<1>4. mode # "abort" /\ Top.call # "parseDatum" /\ errors' = 0 /\ ~inError'
  BY <1>1 DEF ReadingInv
<1> QED BY <1>1, <1>2, <1>3, <1>4, Popped

LEMMA ParseDatumReturnsReading ==
  ASSUME IInv, ReadingInv, errors = 0, ParseDatumReturns
  PROVE  ReadingInv'
<1>1. /\ mode = "return" /\ Top.call = "parseDatum"
      /\ results' = IF val \in {DAT_COM, DAT_EOF} THEN results ELSE Keep(results, val)
      /\ IF val = DAT_EOF THEN mode' = "done" /\ UNCHANGED inError
                          ELSE mode' = "read" /\ inError' = FALSE
      /\ UNCHANGED <<input, pos, stack, val, errors>>
  BY DEF ParseDatumReturns, CallRead
<1>2. Len(stack) = 1 /\ Top' = Top /\ Top = stack[Len(stack)]
  BY <1>1, TopProperties DEF Top
<1>3. Kept(Top, results) = results /\ Kept(Top, results') = results'
  BY <1>1 DEF Kept
<1>4. input \in Seq(Token) /\ pos \in First(input) /\ pos \in Nat /\ pos > 0
  BY Here DEF First
<1>5. ~inError /\ TopFits(Top, results, mode, pos, val) /\ Plain(input)
  BY DEF ReadingInv
<1>6. IsSequence(results) /\ results' = (IF val = DAT_EOF THEN results ELSE Grown(results, val))
      /\ Fits(Top, results', pos)
  <2>1. CASE val \in {DAT_COM, DAT_EOF}
    <3>1. Fits(Top, results, pos) /\ results' = results
      BY <1>1, <1>5, <2>1 DEF TopFits
    <3> QED BY <1>3, <2>1, <3>1 DEF Fits, Grown
  <2>2. CASE val \notin {DAT_COM, DAT_EOF}
    <3>1. IsSequence(results) /\ Len(results) < pos - 1
      BY <1>1, <1>3, <1>5, <2>2 DEF TopFits, Fits
    <3>2. Keep(results, val) = Append(results, val) /\ IsSequence(Append(results, val))
          /\ Len(Append(results, val)) < pos
      BY <1>5, <3>1, Keeps
    <3>3. results' = Append(results, val)
      BY <1>1, <2>2, <3>2
    <3>4. Fits(Top, results', pos)
      BY <1>1, <1>3, <3>2, <3>3 DEF Fits
    <3> QED BY <2>2, <3>1, <3>3, <3>4 DEF Grown
  <2> QED BY <2>1, <2>2
<1>7. IsSequence(results')
  BY <1>3, <1>6 DEF Fits
<1>8. ASSUME NEW m, NEW v
      PROVE  Inner(input, Top, results, mode, pos, val, m, v)
             <=> Inner(input, Top, results', mode', pos', val', m, v)
  <2>1. Inner(input, Top, results, mode, pos, val, m, v)
        <=> AfterDatum(input, results, val, pos, v)
    BY <1>1, <1>3, InnerModes DEF AfterOf, After
  <2>2. CASE val = DAT_EOF
    <3>1. Inner(input, Top, results', mode', pos', val', m, v) <=> v = results
      BY <1>1, <1>6, <2>2, InnerModes
    <3> QED BY <2>1, <2>2, <3>1 DEF AfterDatum
  <2>3. CASE val # DAT_EOF
    <3>1. Inner(input, Top, results', mode', pos', val', m, v)
          <=> Reads(input, "parseDatum", Top.close, results', pos, m, v)
      BY <1>1, <1>3, <2>3, InnerModes
    <3>2. ParsesFrom(input, results', pos, v)
          <=> Reads(input, "parseDatum", Top.close, results', pos, m, v)
      BY <1>4, <1>7, TextReads
    <3>3. AfterDatum(input, results, val, pos, v) <=> ParsesFrom(input, results', pos, v)
      BY <1>6, <2>3 DEF AfterDatum
    <3> QED BY <2>1, <3>1, <3>2, <3>3
  <2> QED BY <2>2, <2>3
<1>9. ASSUME NEW r
      PROVE  Possible(input, stack', results', mode', pos', val', r)
             <=> Possible(input, stack, results, mode, pos, val, r)
  BY <1>1, <1>2, <1>8, PossibleSame
<1>10. CallersFit(stack', results', pos')
  <2>1. Len(stack') - 1 = 0 /\ 1..0 = {}
    BY <1>1, <1>2
  <2> QED BY <2>1 DEF CallersFit
<1>11. TopFits(Top', results', mode', pos', val')
  BY <1>1, <1>2, <1>6 DEF TopFits
<1>12. mode # "abort" /\ errors' = 0 /\ ~inError' /\ mode' # "skip" /\ mode' # "loop"
  BY <1>1, <1>5
<1> QED BY <1>1, <1>9, <1>10, <1>11, <1>12, Silent

LEMMA ListGetsCarReading ==
  ASSUME IInv, ReadingInv, errors = 0, MaxErrors > 0, ListGetsCar
  PROVE  ReadingInv'
<1>1. mode = "return" /\ Top.call = "list" /\ UNCHANGED <<input, results>>
  BY DEF ListGetsCar
<1>2. Kept(Top, results) = Top.items /\ ~inError /\ mode # "abort" /\ Plain(input)
  BY <1>1 DEF Kept, ReadingInv
<1>3. TopFits(Top, results, "return", pos, val)
  BY <1>1 DEF ReadingInv
<1>4. IsActivation(Top) /\ Top.close \in Close
  BY TopProperties
<1>5. input \in Seq(Token) /\ pos \in First(input) /\ pos \in Nat
      /\ (TokenIs(input, pos, ".") <=> tok = ".")
  BY Here
<1>6. \A m, v : Inner(input, Top, results, mode, pos, val, m, v)
                <=> AfterCar(input, Top.items, Top.close, val, pos, m, v)
  BY <1>1, <1>2, InnerModes DEF AfterOf, After
<1>7. CASE val = DAT_EOF
  <2>1. Report
    <3>1. DAT_COM # DAT_EOF
      BY DEF DAT_COM, DAT_EOF
    <3> QED BY <1>7, <3>1 DEF ListGetsCar
  <2>2. \A m, v : ~Inner(input, Top, results, mode, pos, val, m, v)
    BY <1>6, <1>7 DEF AfterCar
  <2> QED BY <1>1, <1>2, <2>1, <2>2, Reported
<1>8. CASE val = DAT_COM
  <2>1. DAT_COM # DAT_EOF
    BY DEF DAT_COM, DAT_EOF
  <2>2. mode' = "loop" /\ UNCHANGED <<pos, stack, val, inError, errors>>
    BY <1>8, <2>1 DEF ListGetsCar
  <2>3. ASSUME NEW m, NEW v
        PROVE  Inner(input, Top, results, mode, pos, val, m, v)
               <=> Inner(input, Top, results, mode', pos', val', m, v)
    <3>1. AfterCar(input, Top.items, Top.close, val, pos, m, v)
          <=> ListFrom(input, Top.items, Top.close, pos, m, v)
      BY <1>8, <2>1 DEF AfterCar, Grown
    <3>2. Inner(input, Top, results, mode', pos', val', m, v)
          <=> ListFrom(input, Top.items, Top.close, pos, m, v)
      BY <1>1, <1>2, <2>2, InnerModes DEF LoopFrom
    <3> QED BY <1>6, <3>1, <3>2
  <2>4. TopFits(Top, results, mode', pos', val')
    BY <1>3, <1>8, <2>2 DEF TopFits
  <2>5. /\ errors' = 0 /\ ~inError' /\ mode' # "skip" /\ Top.call \in {"list", "vector"}
        /\ pos' \in Nat /\ pos <= pos'
    BY <1>1, <1>2, <1>5, <2>2
  <2> QED BY <1>1, <1>2, <2>2, <2>3, <2>4, <2>5, SameStack
<1>9. CASE val \notin {DAT_COM, DAT_EOF}
  <2> DEFINE items == Append(Top.items, val)
  <2>1. IsSequence(Top.items) /\ Len(Top.items) < pos - 1 /\ Top.close # "eof"
    BY <1>1, <1>2, <1>3, <1>9 DEF TopFits, Fits
  <2>2. Keep(Top.items, val) = items /\ IsSequence(items) /\ Len(items) < pos
    BY <1>2, <2>1, Keeps
  <2>3. Grown(Top.items, val) = items
    BY <1>9 DEF Grown
  <2>4. UNCHANGED <<val, errors>>
    BY <1>9 DEF ListGetsCar
  <2> HIDE DEF items
  <2>5. CASE tok = "."
    <3> DEFINE a == [Top EXCEPT !.call = "cdr", !.items = Keep(Top.items, val)]
    <3>1. next /\ SetTop(a) /\ mode' = "read" /\ inError' = FALSE
      BY <1>9, <2>5 DEF ListGetsCar, CallRead
    <3>2. IsActivation(a) /\ a.call = "cdr" /\ a.close = Top.close /\ a.set = Top.set
          /\ a.items = items
      BY <2>2, BecomesCdr
    <3> HIDE DEF a
    <3>3. /\ Len(stack') = Len(stack) /\ Top' = a
          /\ \A i \in 1..(Len(stack) - 1) : stack'[i] = stack[i]
      BY <1>1, <3>1, <3>2, SetTopEffect
    <3>4. pos' = pos + 1 /\ pos' \in Nat /\ pos <= pos' /\ pos + 1 \in First(input)
      BY <1>5, <2>5, <3>1, Here DEF next
    <3>5. Kept(a, results) = items
      BY <3>2 DEF Kept
    <3>6. TopFits(Top', results', mode', pos', val')
      <4>1. Len(items) < pos + 1
        BY <1>5, <2>2, SequenceLen
      <4>2. Fits(a, results, pos + 1)
        BY <2>1, <2>2, <3>2, <3>5, <4>1 DEF Fits
      <4> QED BY <1>1, <3>1, <3>3, <3>4, <4>2 DEF TopFits
    <3>7. ASSUME NEW m, NEW v
          PROVE  Inner(input, Top, results, mode, pos, val, m, v)
                 <=> Inner(input, Top', results, mode', pos', val', m, v)
      <4>1. AfterCar(input, Top.items, Top.close, val, pos, m, v)
            <=> CdrFrom(input, items, Top.close, pos + 1, m, v)
        BY <1>5, <1>9, <2>5 DEF AfterCar, items
      <4>2. Inner(input, Top', results, mode', pos', val', m, v)
            <=> Reads(input, "cdr", Top.close, items, pos + 1, m, v)
        BY <3>1, <3>2, <3>3, <3>4, <3>5, InnerModes
      <4>3. CdrFrom(input, items, Top.close, pos + 1, m, v)
            <=> Reads(input, "cdr", Top.close, items, pos + 1, m, v)
        BY <1>4, <1>5, <3>4, CdrReads
      <4> QED BY <1>6, <4>1, <4>2, <4>3
    <3>8. errors' = 0 /\ ~inError' /\ mode' # "skip" /\ mode' # "loop"
      BY <2>4, <3>1
    <3> QED BY <1>1, <1>2, <3>3, <3>4, <3>6, <3>7, <3>8, Replaced
  <2>6. CASE tok # "."
    <3> DEFINE a == [Top EXCEPT !.items = Keep(Top.items, val)]
    <3>1. SetTop(a) /\ mode' = "loop" /\ UNCHANGED <<pos, inError>>
      BY <1>9, <2>6 DEF ListGetsCar
    <3>2. IsActivation(a) /\ a.call = "list" /\ a.close = Top.close /\ a.set = Top.set
          /\ a.items = items
      BY <1>1, <1>4, <2>2, ExceptItems
    <3> HIDE DEF a
    <3>3. /\ Len(stack') = Len(stack) /\ Top' = a
          /\ \A i \in 1..(Len(stack) - 1) : stack'[i] = stack[i]
      BY <1>1, <3>1, <3>2, SetTopEffect
    <3>4. Kept(a, results) = items
      BY <3>2 DEF Kept
    <3>5. TopFits(Top', results', mode', pos', val')
      <4>1. Fits(a, results, pos)
        BY <2>1, <2>2, <3>2, <3>4 DEF Fits
      <4> QED BY <1>1, <3>1, <3>3, <4>1 DEF TopFits
    <3>6. ASSUME NEW m, NEW v
          PROVE  Inner(input, Top, results, mode, pos, val, m, v)
                 <=> Inner(input, Top', results, mode', pos', val', m, v)
      <4>1. AfterCar(input, Top.items, Top.close, val, pos, m, v)
            <=> ListFrom(input, items, Top.close, pos, m, v)
        BY <1>5, <1>9, <2>3, <2>6 DEF AfterCar
      <4>2. Inner(input, Top', results, mode', pos', val', m, v)
            <=> ListFrom(input, items, Top.close, pos, m, v)
        BY <3>1, <3>2, <3>3, <3>4, InnerModes DEF LoopFrom
      <4> QED BY <1>6, <4>1, <4>2
    <3>7. /\ errors' = 0 /\ ~inError' /\ mode' # "skip" /\ Top'.call \in {"list", "vector"}
          /\ pos' \in Nat /\ pos <= pos'
      BY <1>2, <1>5, <2>4, <3>1, <3>2, <3>3
    <3> QED BY <1>1, <1>2, <3>3, <3>5, <3>6, <3>7, Replaced
  <2> QED BY <2>5, <2>6
<1> QED BY <1>7, <1>8, <1>9

LEMMA ListGetsCdrReading ==
  ASSUME IInv, ReadingInv, errors = 0, MaxErrors > 0, ListGetsCdr
  PROVE  ReadingInv'
<1>1. mode = "return" /\ Top.call = "cdr" /\ UNCHANGED <<input, results>>
  BY DEF ListGetsCdr
<1>2. Kept(Top, results) = Top.items /\ ~inError /\ mode # "abort" /\ Plain(input)
  BY <1>1 DEF Kept, ReadingInv
<1>3. TopFits(Top, results, "return", pos, val)
  BY <1>1 DEF ReadingInv
<1>4. Top.close \in Close /\ Top.close # "eof"
  BY <1>1, <1>3, TopProperties DEF TopFits, Fits
<1>5. input \in Seq(Token) /\ pos \in First(input) /\ pos \in Nat
      /\ (TokenIs(input, pos, Top.close) <=> tok = Top.close)
  BY <1>4, Here
<1>6. \A m, v : Inner(input, Top, results, mode, pos, val, m, v)
                <=> AfterCdr(input, Top.items, Top.close, val, pos, m, v)
  BY <1>1, <1>2, InnerModes DEF AfterOf, After
<1>7. DAT_COM # DAT_EOF
  BY DEF DAT_COM, DAT_EOF
<1>8. CASE val = DAT_EOF
  <2>1. Report
    BY <1>7, <1>8 DEF ListGetsCdr
  <2>2. \A m, v : ~Inner(input, Top, results, mode, pos, val, m, v)
    BY <1>6, <1>8 DEF AfterCdr
  <2> QED BY <1>1, <1>2, <2>1, <2>2, Reported
<1>9. CASE val = DAT_COM
  <2>1. mode' = "read" /\ ~inError' /\ UNCHANGED <<pos, stack, val, errors>>
    BY <1>7, <1>9 DEF ListGetsCdr, CallRead
  <2>2. ASSUME NEW m, NEW v
        PROVE  Inner(input, Top, results, mode, pos, val, m, v)
               <=> Inner(input, Top, results, mode', pos', val', m, v)
    <3>1. AfterCdr(input, Top.items, Top.close, val, pos, m, v)
          <=> CdrFrom(input, Top.items, Top.close, pos, m, v)
      BY <1>7, <1>9 DEF AfterCdr
    <3>2. Inner(input, Top, results, mode', pos', val', m, v)
          <=> Reads(input, "cdr", Top.close, Top.items, pos, m, v)
      BY <1>1, <1>2, <2>1, InnerModes
    <3>3. CdrFrom(input, Top.items, Top.close, pos, m, v)
          <=> Reads(input, "cdr", Top.close, Top.items, pos, m, v)
      BY <1>4, <1>5, CdrReads
    <3> QED BY <1>6, <3>1, <3>2, <3>3
  <2>3. TopFits(Top, results, mode', pos', val')
    BY <1>3, <1>9, <2>1 DEF TopFits
  <2>4. /\ errors' = 0 /\ mode' # "skip" /\ mode' # "loop" /\ pos' \in Nat /\ pos <= pos'
    BY <1>5, <2>1
  <2> QED BY <1>1, <1>2, <2>1, <2>2, <2>3, <2>4, SameStack
<1>10. CASE val \notin {DAT_COM, DAT_EOF} /\ tok = Top.close
  <2>1. /\ next /\ stack' = Callers /\ mode' = "return" /\ val' = toList(Top.items, val)
        /\ UNCHANGED <<errors, inError>>
    BY <1>10 DEF ListGetsCdr, Return
  <2>2. pos' = pos + 1 /\ pos' \in Nat /\ pos <= pos' /\ pos' - 1 = pos
    BY <1>4, <1>5, <1>10, <2>1 DEF next
  <2>3. ASSUME NEW m, NEW v
        PROVE  Inner(input, Top, results, mode, pos, val, m, v) <=> m = pos' - 1 /\ v = val'
    <3>1. AfterCdr(input, Top.items, Top.close, val, pos, m, v)
          <=> m = pos /\ v = toList(Top.items, val)
      BY <1>5, <1>10 DEF AfterCdr
    <3> QED BY <1>6, <2>1, <2>2, <3>1
  <2>4. Top.call # "parseDatum" /\ errors' = 0 /\ ~inError'
    BY <1>1, <1>2, <2>1
  <2> QED BY <1>1, <1>2, <2>1, <2>2, <2>3, <2>4, Popped
<1>11. CASE val \notin {DAT_COM, DAT_EOF} /\ tok # Top.close
  <2>1. Report
    BY <1>11 DEF ListGetsCdr
  <2>2. \A m, v : ~Inner(input, Top, results, mode, pos, val, m, v)
    BY <1>5, <1>6, <1>11 DEF AfterCdr
  <2> QED BY <1>1, <1>2, <2>1, <2>2, Reported
<1> QED BY <1>8, <1>9, <1>10, <1>11

LEMMA VectorGetsElementReading ==
  ASSUME IInv, ReadingInv, errors = 0, MaxErrors > 0, VectorGetsElement
  PROVE  ReadingInv'
<1>1. mode = "return" /\ Top.call = "vector" /\ UNCHANGED <<input, pos, inError, results>>
  BY DEF VectorGetsElement
<1>2. Kept(Top, results) = Top.items /\ ~inError /\ mode # "abort" /\ Plain(input)
  BY <1>1 DEF Kept, ReadingInv
<1>3. TopFits(Top, results, "return", pos, val)
  BY <1>1 DEF ReadingInv
<1>4. IsActivation(Top) /\ pos \in Nat
  BY TopProperties, Here
<1>5. \A m, v : Inner(input, Top, results, mode, pos, val, m, v)
                <=> AfterElement(input, Top.items, Top.close, val, pos, m, v)
  BY <1>1, <1>2, InnerModes DEF AfterOf, After
<1>6. DAT_COM # DAT_EOF
  BY DEF DAT_COM, DAT_EOF
<1>7. CASE val = DAT_EOF
  <2>1. Report
    BY <1>6, <1>7 DEF VectorGetsElement
  <2>2. \A m, v : ~Inner(input, Top, results, mode, pos, val, m, v)
    BY <1>5, <1>7 DEF AfterElement
  <2> QED BY <1>1, <1>2, <2>1, <2>2, Reported
<1>8. CASE val = DAT_COM
  <2>1. mode' = "loop" /\ UNCHANGED <<stack, val, errors>>
    BY <1>6, <1>8 DEF VectorGetsElement
  <2>2. ASSUME NEW m, NEW v
        PROVE  Inner(input, Top, results, mode, pos, val, m, v)
               <=> Inner(input, Top, results, mode', pos', val', m, v)
    <3>1. AfterElement(input, Top.items, Top.close, val, pos, m, v)
          <=> VectorFrom(input, Top.items, Top.close, pos, m, v)
      BY <1>6, <1>8 DEF AfterElement, Grown
    <3>2. Inner(input, Top, results, mode', pos', val', m, v)
          <=> VectorFrom(input, Top.items, Top.close, pos, m, v)
      BY <1>1, <1>2, <2>1, InnerModes DEF LoopFrom
    <3> QED BY <1>5, <3>1, <3>2
  <2>3. TopFits(Top, results, mode', pos', val')
    BY <1>1, <1>3, <1>8, <2>1 DEF TopFits
  <2>4. /\ errors' = 0 /\ ~inError' /\ mode' # "skip" /\ Top.call \in {"list", "vector"}
        /\ pos' \in Nat /\ pos <= pos'
    BY <1>1, <1>2, <1>4, <2>1
  <2> QED BY <1>1, <1>2, <2>1, <2>2, <2>3, <2>4, SameStack
<1>9. CASE val \notin {DAT_COM, DAT_EOF}
  <2> DEFINE items == Append(Top.items, val)
             a == [Top EXCEPT !.items = Keep(Top.items, val)]
  <2>1. IsSequence(Top.items) /\ Len(Top.items) < pos - 1 /\ Top.close # "eof"
    BY <1>1, <1>2, <1>3, <1>9 DEF TopFits, Fits
  <2>2. Keep(Top.items, val) = items /\ IsSequence(items) /\ Len(items) < pos
    BY <1>2, <2>1, Keeps
  <2>3. Grown(Top.items, val) = items
    BY <1>9 DEF Grown
  <2>4. SetTop(a) /\ mode' = "loop" /\ UNCHANGED <<val, errors>>
    BY <1>9 DEF VectorGetsElement
  <2> HIDE DEF items
  <2>5. IsActivation(a) /\ a.call = "vector" /\ a.close = Top.close /\ a.set = Top.set
        /\ a.items = items
    BY <1>1, <1>4, <2>2, ExceptItems
  <2> HIDE DEF a
  <2>6. /\ Len(stack') = Len(stack) /\ Top' = a
        /\ \A i \in 1..(Len(stack) - 1) : stack'[i] = stack[i]
    BY <1>1, <2>4, <2>5, SetTopEffect
  <2>7. Kept(a, results) = items
    BY <2>5 DEF Kept
  <2>8. TopFits(Top', results', mode', pos', val')
    <3>1. Fits(a, results, pos)
      BY <2>1, <2>2, <2>5, <2>7 DEF Fits
    <3> QED BY <1>1, <2>4, <2>6, <3>1 DEF TopFits
  <2>9. ASSUME NEW m, NEW v
        PROVE  Inner(input, Top, results, mode, pos, val, m, v)
               <=> Inner(input, Top', results, mode', pos', val', m, v)
    <3>1. AfterElement(input, Top.items, Top.close, val, pos, m, v)
          <=> VectorFrom(input, items, Top.close, pos, m, v)
      BY <1>9, <2>3 DEF AfterElement
    <3>2. Inner(input, Top', results, mode', pos', val', m, v)
          <=> VectorFrom(input, items, Top.close, pos, m, v)
      BY <1>1, <2>4, <2>5, <2>6, <2>7, InnerModes DEF LoopFrom
    <3> QED BY <1>5, <3>1, <3>2
  <2>10. /\ errors' = 0 /\ ~inError' /\ mode' # "skip" /\ Top'.call \in {"list", "vector"}
         /\ pos' \in Nat /\ pos <= pos'
    BY <1>1, <1>2, <1>4, <2>4, <2>5, <2>6
  <2> QED BY <1>1, <1>2, <2>6, <2>8, <2>9, <2>10, Replaced
<1> QED BY <1>7, <1>8, <1>9

-----------------------------------------------------------------------------
(* What has been reported stays reported.                                  *)
LEMMA ErrorsStay ==
  ASSUME IInv, ReadingInv, errors # 0, Next
  PROVE  ReadingInv'
<1>1. errors \in Nat /\ errors > 0
  BY BoundsAssumption DEF IInv
<1>2. ASSUME Report
      PROVE  errors' # 0
  BY <1>1, <1>2 DEF Report
<1>3. ASSUME errors' = errors
      PROVE  errors' # 0
  BY <1>3
<1>4. input' = input
  BY DEF Next, ReadEof, ReadAtom, ReadCompound, ReadComment, ReadAbbreviation, ReadInvalid, Loop,
         ParseDatumReturns, CommentReturns, ListGetsCar, ListGetsCdr, SkipToTerminator,
         VectorGetsElement
<1>5. Report \/ errors' = errors
  BY DEF Next, ReadEof, ReadAtom, ReadCompound, ReadComment, ReadAbbreviation, ReadInvalid, Loop,
         ParseDatumReturns, CommentReturns, ListGetsCar, ListGetsCdr, SkipToTerminator,
         VectorGetsElement
<1>6. errors' # 0
  BY <1>2, <1>3, <1>5
<1> QED BY <1>4, <1>6 DEF ReadingInv

LEMMA ReadingInvStep ==
  ASSUME IInv, ReadingInv, MaxErrors > 0, Next
  PROVE  ReadingInv'
<1>1. CASE errors # 0
  BY <1>1, ErrorsStay
<1>2. CASE errors = 0
  <2>1. ~SkipToTerminator
    BY <1>2 DEF ReadingInv, SkipToTerminator
  <2> QED BY <1>2, <2>1, ReadEofReading, ReadAtomReading, ReadCompoundReading, ReadCommentReading,
             ReadAbbreviationReading, ReadInvalidReading, LoopReading, ParseDatumReturnsReading,
             CommentReturnsReading, ListGetsCarReading, ListGetsCdrReading,
             VectorGetsElementReading
          DEF Next
<1> QED BY <1>1, <1>2

LEMMA ReadingInvStutters == ReadingInv /\ UNCHANGED vars => ReadingInv'
<1> SUFFICES ASSUME ReadingInv, UNCHANGED vars
             PROVE  ReadingInv'
  OBVIOUS
<1>1. /\ input' = input /\ pos' = pos /\ stack' = stack /\ mode' = mode /\ val' = val
      /\ inError' = inError /\ results' = results /\ errors' = errors
  BY DEF vars
<1>2. Top' = Top
  BY <1>1 DEF Top
<1> QED BY <1>1, <1>2 DEF ReadingInv

(* At the start the data that may be left are those of the text.           *)
LEMMA ReadingsOfText ==
  ASSUME NEW t, NEW r
  PROVE  r \in Grammar!Readings(t) <=> r \in TextFrom(t, 1)
BY DEF Grammar!Readings, TextFrom, IsCut

LEMMA InitReading ==
  ASSUME \A t \in Source : Plain(t), Init
  PROVE  ReadingInv
<1> DEFINE a == Activation("parseDatum", "eof", {"eof"})
<1>1. /\ input \in Source /\ pos = 1 /\ stack = <<a>> /\ mode = "read" /\ ~inError
      /\ results = <<>> /\ errors = 0
  BY DEF Init
<1>2. a.call = "parseDatum"
  BY DEF Activation
<1> HIDE DEF a
<1>3. Len(stack) = 1 /\ stack[1] = a /\ Top = a /\ Plain(input)
  BY <1>1 DEF Top
<1>4. Kept(a, results) = <<>>
  BY <1>1, <1>2 DEF Kept
<1>5. input \in Seq(Token) /\ 1 \in First(input)
  <2>1. input \in Seq(Token)
    BY <1>1, SourceAssumption
  <2>2. Len(input) \in Nat
    BY <2>1, LenProperties
  <2> QED BY <2>1, <2>2 DEF First
<1>6. CallersFit(stack, results, pos)
  BY <1>3 DEF CallersFit
<1>7. TopFits(Top, results, mode, pos, val)
  <2>1. IsSequence(<<>>) /\ Len(<<>>) < 1
    BY EmptySequence
  <2>2. Fits(a, results, 1)
    BY <1>2, <1>4, <2>1 DEF Fits
  <2> QED BY <1>1, <1>3, <2>2 DEF TopFits
<1>8. ASSUME NEW r
      PROVE  r \in Grammar!Readings(input)
             <=> Possible(input, stack, results, mode, pos, val, r)
  <2>1. Possible(input, stack, results, mode, pos, val, r)
        <=> \E m, v : v = r /\ Inner(input, a, results, "read", 1, val, m, v)
    BY <1>1, <1>3, OuterOne DEF Possible
  <2>2. \A m, v : Inner(input, a, results, "read", 1, val, m, v)
                  <=> Reads(input, "parseDatum", a.close, <<>>, 1, m, v)
    BY <1>2, <1>4, InnerModes
  <2>3. \A m : Reads(input, "parseDatum", a.close, <<>>, 1, m, r)
          <=> ParsesFrom(input, <<>>, 1, r)
    BY <1>5, EmptySequence, TextReads
  <2>4. \A x : x \in TextFrom(input, 1) => <<>> \o x = x
    BY <1>5, TextMembers, EmptyConcat
  <2>5. ParsesFrom(input, <<>>, 1, r) <=> r \in TextFrom(input, 1)
    BY <2>4 DEF ParsesFrom
  <2> QED BY <2>1, <2>2, <2>3, <2>5, ReadingsOfText
<1>9. mode # "skip" /\ mode # "loop"
  BY <1>1
<1> QED BY <1>1, <1>3, <1>6, <1>7, <1>8, <1>9 DEF ReadingInv

(* parseDatum's caller is the last to stop.                                *)
DoneInv == mode = "done" => Top.call = "parseDatum"

LEMMA DoneInvStep ==
  ASSUME Next
  PROVE  DoneInv'
<1>1. CASE ParseDatumReturns
  <2>1. Top.call = "parseDatum" /\ Top' = Top
    BY <1>1 DEF ParseDatumReturns, Top
  <2> QED BY <2>1 DEF DoneInv
<1>2. CASE ~ParseDatumReturns
  <2>1. mode # "done"
    BY DEF Next, ReadEof, ReadAtom, ReadCompound, ReadComment, ReadAbbreviation, ReadInvalid,
           Loop, ParseDatumReturns, CommentReturns, ListGetsCar, ListGetsCdr,
           SkipToTerminator, VectorGetsElement
  <2>2. mode' # "done"
    BY <1>2, <2>1
    DEF Next, ReadEof, ReadAtom, ReadCompound, ReadComment, ReadAbbreviation, ReadInvalid, Loop,
        CommentReturns, ListGetsCar, ListGetsCdr, SkipToTerminator, VectorGetsElement,
        Return, CallRead
  <2> QED BY <2>2 DEF DoneInv
<1> QED BY <1>1, <1>2

TextInv == IInv /\ DoneInv /\ ReadingInv

LEMMA TextInvariant ==
  ASSUME \A t \in Source : Plain(t), MaxErrors > 0
  PROVE  Spec => []TextInv
<1>1. Init => TextInv
  <2>1. Init => DoneInv
    BY DEF Init, DoneInv
  <2> QED BY <2>1, InitIInv, InitReading DEF TextInv
<1>2. IInv /\ [Next]_vars => IInv'
  BY IInvStep
<1>3. TextInv /\ [Next]_vars => TextInv'
  <2>1. ASSUME TextInv, Next
        PROVE  TextInv'
    BY <1>2, <2>1, ReadingInvStep, DoneInvStep DEF TextInv
  <2>2. ASSUME TextInv, UNCHANGED vars
        PROVE  TextInv'
    <3>1. DoneInv'
      BY <2>2 DEF TextInv, DoneInv, vars, Top
    <3> QED BY <1>2, <2>2, <3>1, ReadingInvStutters DEF TextInv
  <2> QED BY <2>1, <2>2
<1> QED BY <1>1, <1>3, PTL DEF Spec

(* When everything has been read without an error, what was returned is    *)
(* the only reading of the text.                                           *)
LEMMA DoneReads ==
  ASSUME TextInv, mode = "done"
  PROVE  Grammar!Readings(input) = IF errors = 0 THEN {results} ELSE {}
<1>1. CASE errors # 0
  BY <1>1 DEF TextInv, ReadingInv
<1>2. CASE errors = 0
  <2>1. Len(stack) = 1 /\ Top = stack[Len(stack)]
    BY TopProperties DEF TextInv, DoneInv
  <2>2. \A r : r \in Grammar!Readings(input)
               <=> Possible(input, stack, results, "done", pos, val, r)
    BY <1>2 DEF TextInv, ReadingInv
  <2>3. \A r : Possible(input, stack, results, "done", pos, val, r)
               <=> \E m, v : v = r /\ Inner(input, Top, results, "done", pos, val, m, v)
    BY <2>1, OuterOne DEF Possible
  <2>4. \A m, v : Inner(input, Top, results, "done", pos, val, m, v) <=> v = results
    BY InnerModes
  <2>5. \A r : r \in Grammar!Readings(input) <=> r = results
    BY <2>2, <2>3, <2>4
  <2> QED BY <1>2, <2>5
<1> QED BY <1>1, <1>2

(* A text of the grammar, as long as it may be and with any nesting, is    *)
(* read as the data it stands for and without an error: the lookahead for  *)
(* a dot, the datum comments that are passed over at every place and the   *)
(* terminators neither lose a datum nor put it in the wrong list.  Of the  *)
(* texts it is supposed that no datum comment follows directly on the #;   *)
(* of another (those the reader takes otherwise, SyntaxReader.cpp:104) and *)
(* that the bounds of the model are not met.                               *)
THEOREM DeliversAlways ==
  ASSUME \A t \in Source : Plain(t), MaxErrors > 0
  PROVE  Spec => []DeliversTheText
<1>1. TextInv => DeliversTheText
  BY DoneReads DEF DeliversTheText
<1> QED BY <1>1, TextInvariant, PTL

(* Any other text is reported, however much of it could be read.           *)
THEOREM ReportsAlways ==
  ASSUME \A t \in Source : Plain(t), MaxErrors > 0
  PROVE  Spec => []ReportsBadText
<1>1. TextInv => ReportsBadText
  <2> SUFFICES ASSUME TextInv, mode = "done", Grammar!Readings(input) = {}
               PROVE  errors > 0
    BY DEF ReportsBadText
  <2>1. errors # 0
    BY DoneReads
  <2>2. errors \in Nat
    BY BoundsAssumption DEF TextInv, IInv
  <2> QED BY <2>1, <2>2
<1> QED BY <1>1, TextInvariant, PTL

===============================================================================
