------------------------------ MODULE LexerProofs -----------------------------
(***************************************************************************)
(* Theorems about Lexer, for every set of texts, every set of characters   *)
(* with ASCII among them, and whatever an integer may hold.                *)
(*                                                                         *)
(* A position of the lexer is described by the text alone: Place(text) is  *)
(* the set of the right ones.  nextChar leads from one to a later one, and *)
(* so do the loops (While, Skip) and the scanners.  The invariant adds     *)
(* that what was delivered lies behind what is at hand.                    *)
(***************************************************************************)
EXTENDS Lexer, TLAPS, SequenceTheorems, FiniteSetTheorems, WellFoundedInduction

-----------------------------------------------------------------------------
(* Induction on natural numbers, with a set in place of a predicate        *)
LEMMA Induction ==
  ASSUME NEW T, 0 \in T, \A n \in Nat : n \in T => n + 1 \in T
  PROVE  \A n \in Nat : n \in T
<1> DEFINE R == OpToRel(<, Nat)
           U == {n \in Nat : n \notin T}
<1>1. SUFFICES ASSUME U # {} PROVE FALSE
  OBVIOUS
<1>2. IsWellFoundedOn(R, Nat)
  BY NatLessThanWellFounded
<1>3. \A y, x \in Nat : y < x => <<y, x>> \in R
  BY DEF OpToRel
<1>4. U \subseteq Nat
  OBVIOUS
<1> HIDE DEF R
<1>5. PICK x \in U : \A y \in U : ~(<<y, x>> \in R)
  <2> HIDE DEF U
  <2> QED BY <1>1, <1>2, <1>4, WFMin
<1>6. x \in Nat /\ x # 0 /\ x \notin T
  OBVIOUS
<1>7. x - 1 \in Nat /\ x - 1 < x /\ (x - 1) + 1 = x
  BY <1>6
<1>8. x - 1 \in U
  BY <1>6, <1>7
<1> QED BY <1>3, <1>5, <1>6, <1>7, <1>8

(* How far a run of members of T goes, within n                            *)
LEMMA RunEnds ==
  ASSUME NEW n \in Nat, NEW T
  PROVE  \E k \in 0..n : /\ \A i \in 1..k : i \in T
                         /\ k < n => k + 1 \notin T
<1> SUFFICES ASSUME \A k \in 0..n : (\A i \in 1..k : i \in T) => k < n /\ k + 1 \in T
             PROVE  FALSE
  OBVIOUS
<1> DEFINE U == {k \in Nat : k <= n => \A i \in 1..k : i \in T}
<1>1. 0 \in U
  OBVIOUS
<1>2. ASSUME NEW k \in Nat, k \in U
      PROVE  k + 1 \in U
  <2> SUFFICES ASSUME k + 1 <= n, NEW i \in 1..(k + 1)
               PROVE  i \in T
    OBVIOUS
  <2>1. k \in 0..n /\ \A j \in 1..k : j \in T
    BY <1>2
  <2>2. k + 1 \in T
    BY <2>1
  <2>3. i \in 1..k \/ i = k + 1
    OBVIOUS
  <2> QED BY <2>1, <2>2, <2>3
<1>3. n \in U
  <2> HIDE DEF U
  <2> QED BY <1>1, <1>2, Induction
<1>4. n \in 0..n /\ \A i \in 1..n : i \in T
  BY <1>3
<1> QED BY <1>4

-----------------------------------------------------------------------------
(* A function that the code computes in a loop: from e on, by steps        *)
Iterates(f, n, e, step) ==
  /\ DOMAIN f = 0..n /\ f[0] = e
  /\ \A k \in 1..n : f[k] = step[k][f[k - 1]]

LEMMA IterationExists ==
  ASSUME NEW n \in Nat, NEW S, NEW e \in S, NEW step \in [1..n -> [S -> S]]
  PROVE  \E f \in [0..n -> S] : Iterates(f, n, e, step)
<1> DEFINE Good(m) == \E f \in [0..m -> S] : Iterates(f, m, e, step)
           T == {m \in Nat : m <= n => Good(m)}
<1>1. 0 \in T
  <2> DEFINE f == [k \in 0..0 |-> e]
  <2>1. f \in [0..0 -> S] /\ Iterates(f, 0, e, step)
    BY DEF Iterates
  <2> QED BY <2>1
<1>2. ASSUME NEW m \in Nat, m \in T
      PROVE  m + 1 \in T
  <2> SUFFICES ASSUME m + 1 <= n PROVE Good(m + 1)
    OBVIOUS
  <2>1. PICK f \in [0..m -> S] : Iterates(f, m, e, step)
    BY <1>2
  <2> DEFINE y == step[m + 1][f[m]]
             g == [k \in 0..(m + 1) |-> IF k = m + 1 THEN y ELSE f[k]]
  <2>2. y \in S
    <3>1. m + 1 \in 1..n /\ m \in 0..m
      OBVIOUS
    <3>2. step[m + 1] \in [S -> S] /\ f[m] \in S
      BY <3>1
    <3> QED BY <3>2
  <2> HIDE DEF y
  <2>3. g \in [0..(m + 1) -> S] /\ DOMAIN g = 0..(m + 1)
        /\ g[m + 1] = y /\ \A k \in 0..m : g[k] = f[k]
    BY <2>2
  <2> HIDE DEF g
  <2>4. g[0] = e
    BY <2>1, <2>3 DEF Iterates
  <2>5. ASSUME NEW k \in 1..(m + 1)
        PROVE  g[k] = step[k][g[k - 1]]
    <3>1. CASE k = m + 1
      <4>1. k - 1 = m /\ m \in 0..m
        BY <3>1
      <4> QED BY <2>3, <3>1, <4>1 DEF y
    <3>2. CASE k # m + 1
      <4>1. k \in 1..m /\ k \in 0..m /\ k - 1 \in 0..m
        BY <3>2
      <4> QED BY <2>1, <2>3, <4>1 DEF Iterates
    <3> QED BY <3>1, <3>2
  <2>6. Iterates(g, m + 1, e, step)
    BY <2>3, <2>4, <2>5 DEF Iterates
  <2> QED BY <2>3, <2>6
<1> HIDE DEF T
<1>3. n \in T
  BY <1>1, <1>2, Induction
<1> QED BY <1>3 DEF T

(* What NumberOf's loop makes of the digits                                *)
Sums(d, base, f) ==
  f = [i \in 0..Len(d) |-> IF i = 0 THEN 0 ELSE f[i - 1] * base + baseDigitToInt(d[i])]

LEMMA NumberOfNat ==
  ASSUME NEW base \in Nat, NEW d \in Seq(Nat),
         \A i \in 1..Len(d) : baseDigitToInt(d[i]) \in Nat
  PROVE  NumberOf(d, base) \in Nat
<1> DEFINE n == Len(d)
           step == [k \in 1..n |-> [x \in Nat |-> x * base + baseDigitToInt(d[k])]]
           v == CHOOSE f : Sums(d, base, f)
<1>1. n \in Nat
  BY LenProperties
<1>2. step \in [1..n -> [Nat -> Nat]]
  <2>1. ASSUME NEW k \in 1..n, NEW x \in Nat
        PROVE  x * base + baseDigitToInt(d[k]) \in Nat
    <3>1. baseDigitToInt(d[k]) \in Nat
      OBVIOUS
    <3>2. x * base \in Nat
      OBVIOUS
    <3> QED BY <3>1, <3>2
  <2> QED BY <2>1
<1>3. \A k \in 1..n, x \in Nat : step[k][x] = x * base + baseDigitToInt(d[k])
  OBVIOUS
<1> HIDE DEF step
<1>4. PICK f \in [0..n -> Nat] : Iterates(f, n, 0, step)
  BY <1>1, <1>2, IterationExists
<1>5. Sums(d, base, f)
  <2> DEFINE g == [i \in 0..n |-> IF i = 0 THEN 0 ELSE f[i - 1] * base + baseDigitToInt(d[i])]
  <2>1. ASSUME NEW i \in 0..n PROVE f[i] = g[i]
    <3>1. CASE i = 0
      BY <1>4, <3>1 DEF Iterates
    <3>2. CASE i # 0
      <4>1. i \in 1..n /\ i - 1 \in 0..n
        BY <1>1, <3>2
      <4>2. f[i] = step[i][f[i - 1]] /\ f[i - 1] \in Nat
        BY <1>4, <4>1 DEF Iterates
      <4>3. f[i] = f[i - 1] * base + baseDigitToInt(d[i])
        BY <1>3, <4>1, <4>2
      <4> QED BY <3>2, <4>3
    <3> QED BY <3>1, <3>2
  <2>2. f = g
    BY <2>1
  <2> QED BY <2>2 DEF Sums
<1>6. Sums(d, base, v)
  BY <1>5
<1>7. NumberOf(d, base) = v[n]
  BY DEF NumberOf, Sums
<1> HIDE DEF v
<1>8. DOMAIN v = 0..n
      /\ \A i \in 0..n : v[i] = IF i = 0 THEN 0 ELSE v[i - 1] * base + baseDigitToInt(d[i])
  BY <1>6 DEF Sums
<1> DEFINE T == {k \in Nat : k <= n => v[k] \in Nat}
<1>9. 0 \in T
  BY <1>1, <1>8
<1>10. ASSUME NEW k \in Nat, k \in T
       PROVE  k + 1 \in T
  <2> SUFFICES ASSUME k + 1 <= n PROVE v[k + 1] \in Nat
    OBVIOUS
  <2>1. v[k] \in Nat /\ k + 1 \in 1..n /\ k + 1 \in 0..n /\ k + 1 # 0 /\ (k + 1) - 1 = k
    BY <1>1, <1>10
  <2>2. v[k + 1] = v[k] * base + baseDigitToInt(d[k + 1])
    BY <1>8, <2>1
  <2>3. baseDigitToInt(d[k + 1]) \in Nat /\ v[k] * base \in Nat
    BY <2>1
  <2> QED BY <2>2, <2>3
<1>11. \A k \in Nat : k \in T
  <2> HIDE DEF T
  <2> QED BY <1>9, <1>10, Induction
<1> QED BY <1>1, <1>7, <1>11

(* ... and Significant's of the characters                                 *)
Keeps(run, f) ==
  f = [i \in 0..Len(run) |->
         IF i = 0 THEN <<>>
         ELSE IF run[i] = "_" THEN f[i - 1] ELSE Append(f[i - 1], run[i])]

LEMMA SignificantType ==
  ASSUME NEW S, NEW run \in Seq(S)
  PROVE  Significant(run) \in Seq(S)
<1> DEFINE n == Len(run)
           next(k, x) == IF run[k] = "_" THEN x ELSE Append(x, run[k])
           step == [k \in 1..n |-> [x \in Seq(S) |-> next(k, x)]]
           v == CHOOSE f : Keeps(run, f)
<1>1. n \in Nat
  BY LenProperties
<1>2. step \in [1..n -> [Seq(S) -> Seq(S)]]
  <2>1. ASSUME NEW k \in 1..n, NEW x \in Seq(S)
        PROVE  next(k, x) \in Seq(S)
    <3>1. run[k] \in S
      BY ElementOfSeq
    <3> QED BY <3>1, AppendProperties
  <2> HIDE DEF next
  <2> QED BY <2>1
<1>3. \A k \in 1..n, x \in Seq(S) : step[k][x] = next(k, x)
  OBVIOUS
<1> HIDE DEF step
<1>4. PICK f \in [0..n -> Seq(S)] : Iterates(f, n, <<>>, step)
  <2>1. <<>> \in Seq(S)
    OBVIOUS
  <2> QED BY <1>1, <1>2, <2>1, IterationExists
<1>5. Keeps(run, f)
  <2> DEFINE g == [i \in 0..n |-> IF i = 0 THEN <<>> ELSE next(i, f[i - 1])]
  <2>1. ASSUME NEW i \in 0..n PROVE f[i] = g[i]
    <3> HIDE DEF next
    <3>1. CASE i = 0
      BY <1>4, <3>1 DEF Iterates
    <3>2. CASE i # 0
      <4>1. i \in 1..n /\ i - 1 \in 0..n
        BY <1>1, <3>2
      <4>2. f[i] = step[i][f[i - 1]] /\ f[i - 1] \in Seq(S)
        BY <1>4, <4>1 DEF Iterates
      <4>3. f[i] = next(i, f[i - 1])
        BY <1>3, <4>1, <4>2
      <4> QED BY <3>2, <4>3
    <3> QED BY <3>1, <3>2
  <2>2. f = g
    <3> HIDE DEF next
    <3> QED BY <2>1
  <2> QED BY <2>2, Zenon DEF Keeps
<1>6. Keeps(run, v)
  BY <1>5
<1>7. Significant(run) = v[n]
  BY DEF Significant, Keeps
<1> HIDE DEF v
<1>8. \A i \in 0..n : v[i] = IF i = 0 THEN <<>> ELSE next(i, v[i - 1])
  BY <1>6 DEF Keeps
<1> HIDE DEF next
<1> DEFINE T == {k \in Nat : k <= n => v[k] \in Seq(S)}
<1>10. 0 \in T
  <2>1. v[0] = <<>> /\ <<>> \in Seq(S)
    BY <1>1, <1>8
  <2> QED BY <2>1
<1>11. ASSUME NEW k \in Nat, k \in T
       PROVE  k + 1 \in T
  <2> SUFFICES ASSUME k + 1 <= n PROVE v[k + 1] \in Seq(S)
    OBVIOUS
  <2>1. v[k] \in Seq(S) /\ k + 1 \in 1..n /\ k + 1 \in 0..n /\ k + 1 # 0 /\ (k + 1) - 1 = k
    BY <1>1, <1>11
  <2>2. v[k + 1] = next(k + 1, v[k])
    BY <1>8, <2>1
  <2>3. next(k + 1, v[k]) = step[k + 1][v[k]] /\ step[k + 1] \in [Seq(S) -> Seq(S)]
    BY <1>2, <1>3, <2>1
  <2> QED BY <2>1, <2>2, <2>3
<1>12. \A k \in Nat : k \in T
  <2> HIDE DEF T
  <2> QED BY <1>10, <1>11, Induction
<1> QED BY <1>1, <1>7, <1>12

-----------------------------------------------------------------------------
(* Places in a text.  A line ends at the last character of its line end:   *)
(* CR LF is one.                                                           *)
EndsLine(t, i) == t[i] \in LineEnd /\ ~(t[i] = "CR" /\ i < Len(t) /\ t[i + 1] = "LF")

LineEnds(t, p) == {i \in 1..p : EndsLine(t, i)}

LastEnd(t, p, q) ==
  /\ q \in {0} \cup LineEnds(t, p)
  /\ \A i \in LineEnds(t, p) : i <= q

(* The line and the column of place p                                      *)
IsAt(t, line, column, p) ==
  /\ line = 1 + Cardinality(LineEnds(t, p))
  /\ column \in Int /\ LastEnd(t, p, p - column)

Splits(t, p) == p \in 1..(Len(t) - 1) /\ t[p] = "CR" /\ t[p + 1] = "LF"

Shown(c) == IF c \in LineEnd THEN "LF" ELSE c

(* Where nextChar may be called: the position is right, whatever the       *)
(* character that was shown last.                                          *)
Spot(t) ==
  {r \in [offset : 0..Len(t), cur : Char \cup {EOF}, line : Nat, lineOffset : Nat] :
     /\ r.line = 1 + Cardinality(LineEnds(t, r.offset))
     /\ LastEnd(t, r.offset, r.lineOffset)
     /\ ~Splits(t, r.offset)}

(* ... and that character is the right one too.                            *)
Place(t) ==
  {r \in Spot(t) : IF r.cur = EOF THEN r.offset = Len(t)
                   ELSE r.offset \in 1..Len(t) /\ r.cur = Shown(t[r.offset])}

Ahead(r, s) == s.offset > r.offset \/ s.cur = EOF
Onward(r, s) == Ahead(r, s) \/ s = r

LEMMA LineEndsFinite ==
  ASSUME NEW t, NEW p \in Nat
  PROVE  IsFiniteSet(LineEnds(t, p)) /\ Cardinality(LineEnds(t, p)) \in Nat
<1>1. IsFiniteSet(1..p)
  BY FS_Interval
<1>2. LineEnds(t, p) \subseteq 1..p
  BY DEF LineEnds
<1> QED BY <1>1, <1>2, FS_Subset, FS_CardinalityType

(* A character that ends no line                                           *)
LEMMA SameLine ==
  ASSUME NEW t, NEW p \in Nat, ~EndsLine(t, p + 1)
  PROVE  LineEnds(t, p + 1) = LineEnds(t, p)
<1>1. ASSUME NEW i \in 1..(p + 1), EndsLine(t, i) PROVE i \in 1..p
  <2>1. i # p + 1
    BY <1>1
  <2> QED BY <2>1
<1>2. \A i \in 1..p : i \in 1..(p + 1)
  OBVIOUS
<1> QED BY <1>1, <1>2 DEF LineEnds

(* ... and one that does                                                   *)
LEMMA NextLine ==
  ASSUME NEW t, NEW p \in Nat, EndsLine(t, p + 1)
  PROVE  /\ Cardinality(LineEnds(t, p + 1)) = Cardinality(LineEnds(t, p)) + 1
         /\ LastEnd(t, p + 1, p + 1)
<1>1. LineEnds(t, p + 1) = LineEnds(t, p) \cup {p + 1}
  <2>1. \A i \in 1..(p + 1) : i \in 1..p \/ i = p + 1
    OBVIOUS
  <2>2. p + 1 \in 1..(p + 1) /\ \A i \in 1..p : i \in 1..(p + 1)
    OBVIOUS
  <2> QED BY <2>1, <2>2 DEF LineEnds
<1>2. p + 1 \notin LineEnds(t, p)
  BY DEF LineEnds
<1>3. Cardinality(LineEnds(t, p) \cup {p + 1}) = Cardinality(LineEnds(t, p)) + 1
  BY <1>2, LineEndsFinite, FS_AddElement
<1>4. LastEnd(t, p + 1, p + 1)
  <2>1. p + 1 \in LineEnds(t, p + 1)
    BY <1>1
  <2>2. \A i \in LineEnds(t, p + 1) : i <= p + 1
    BY DEF LineEnds
  <2> QED BY <2>1, <2>2 DEF LastEnd
<1> QED BY <1>1, <1>3, <1>4

(* What comes later in the text has a later place.                         *)
Before(line1, column1, line2, column2) ==
  line1 < line2 \/ (line1 = line2 /\ column1 < column2)

LEMMA LaterPlace ==
  ASSUME NEW t, NEW p \in Nat, NEW q \in Nat, p < q,
         NEW line1, NEW column1, NEW line2, NEW column2,
         IsAt(t, line1, column1, p), IsAt(t, line2, column2, q)
  PROVE  Before(line1, column1, line2, column2)
<1> DEFINE A == LineEnds(t, p)
           B == LineEnds(t, q)
           a == p - column1
           b == q - column2
<1>1. A \subseteq B
  BY DEF LineEnds
<1>2. /\ IsFiniteSet(A) /\ IsFiniteSet(B)
      /\ Cardinality(A) \in Nat /\ Cardinality(B) \in Nat
  BY LineEndsFinite
<1>3. /\ line1 = 1 + Cardinality(A) /\ line2 = 1 + Cardinality(B)
      /\ column1 \in Int /\ column2 \in Int
      /\ a \in {0} \cup A /\ \A i \in A : i <= a
      /\ b \in {0} \cup B /\ \A i \in B : i <= b
  BY DEF IsAt, LastEnd
<1>4. CASE A = B
  <2>1. a \in Int /\ b \in Int /\ a <= b /\ b <= a
    <3>1. \A i \in A : i \in 1..p
      BY DEF LineEnds
    <3> HIDE DEF A, B
    <3> QED BY <1>3, <1>4, <3>1
  <2>2. column1 < column2
    BY <1>3, <2>1
  <2> HIDE DEF A, B
  <2> QED BY <1>3, <1>4, <2>2 DEF Before
<1>5. CASE A # B
  <2> HIDE DEF A, B
  <2>1. Cardinality(A) < Cardinality(B)
    BY <1>1, <1>2, <1>5, FS_Subset
  <2> QED BY <1>2, <1>3, <2>1 DEF Before
<1> QED BY <1>4, <1>5

-----------------------------------------------------------------------------
(* A line end of one character or two leads to the next line.              *)
LEMMA SpotProperties ==
  ASSUME text \in Seq(Char), NEW r \in Spot(text)
  PROVE  /\ Len(text) \in Nat
         /\ r \in [offset : 0..Len(text), cur : Char \cup {EOF}, line : Nat, lineOffset : Nat]
         /\ r.offset \in 0..Len(text) /\ r.cur \in Char \cup {EOF}
         /\ r.line \in Nat /\ r.lineOffset \in Nat
         /\ r.line = 1 + Cardinality(LineEnds(text, r.offset))
         /\ LastEnd(text, r.offset, r.lineOffset)
         /\ ~Splits(text, r.offset)
  BY LenProperties DEF Spot

LEMMA NextCharPlace ==
  ASSUME text \in Seq(Char), NEW r \in Spot(text)
  PROVE  /\ nextChar(r) \in Place(text)
         /\ Ahead(r, nextChar(r))
<1> DEFINE o == r.offset
           n == Len(text)
           c == text[o + 1]
           pair == c = "CR" /\ o + 2 <= n /\ text[o + 2] = "LF"
           s == nextChar(r)
<1>1. /\ n \in Nat /\ o \in 0..n
      /\ r \in [offset : 0..n, cur : Char \cup {EOF}, line : Nat, lineOffset : Nat]
      /\ r.line = 1 + Cardinality(LineEnds(text, o)) /\ r.line \in Nat
      /\ LastEnd(text, o, r.lineOffset) /\ ~Splits(text, o)
  BY SpotProperties
<1>2. CASE o = n
  <2>1. s = [r EXCEPT !.cur = EOF]
    BY <1>2 DEF nextChar
  <2>2. /\ s \in [offset : 0..n, cur : Char \cup {EOF}, line : Nat, lineOffset : Nat]
        /\ s.offset = o /\ s.cur = EOF /\ s.line = r.line /\ s.lineOffset = r.lineOffset
    BY <1>1, <2>1
  <2> HIDE DEF s
  <2>3. s \in Place(text)
    BY <1>1, <1>2, <2>2 DEF Place, Spot
  <2> QED BY <2>2, <2>3 DEF Ahead, s
<1>3. CASE o # n
  <2>1. o + 1 \in 1..n /\ c \in Char /\ c # EOF /\ "LF" \in Char /\ o \in Nat
    <3>1. o + 1 \in 1..n /\ o \in Nat
      BY <1>1, <1>3
    <3> QED BY <3>1, ElementOfSeq, CodeAssumption
  <2>2. CASE c \in LineEnd
    <3> DEFINE p == o + (IF pair THEN 2 ELSE 1)
    <3>1. s = [offset |-> p, cur |-> "LF", line |-> r.line + 1, lineOffset |-> p]
      BY <1>3, <2>2 DEF nextChar
    <3>2. /\ p \in 1..n /\ p > o
          /\ text[p] \in LineEnd /\ Shown(text[p]) = "LF" /\ ~Splits(text, p)
          /\ Cardinality(LineEnds(text, p)) = Cardinality(LineEnds(text, o)) + 1
          /\ LastEnd(text, p, p)
      <4>1. CASE pair
        <5>1. p = (o + 1) + 1 /\ p = o + 2 /\ p \in 1..n /\ p > o /\ text[p] = "LF"
          BY <1>1, <2>1, <4>1
        <5>2. ~EndsLine(text, o + 1)
          <6>1. o + 1 < n /\ (o + 1) + 1 = o + 2
            BY <1>1, <2>1, <4>1
          <6> QED BY <4>1, <6>1 DEF EndsLine
        <5>3. EndsLine(text, (o + 1) + 1)
          BY <5>1 DEF EndsLine, LineEnd
        <5>4. o + 1 \in Nat
          BY <2>1
        <5>5. /\ LineEnds(text, o + 1) = LineEnds(text, o)
              /\ Cardinality(LineEnds(text, p)) = Cardinality(LineEnds(text, o + 1)) + 1
              /\ LastEnd(text, p, p)
          BY <2>1, <5>1, <5>2, <5>3, <5>4, SameLine, NextLine
        <5> QED BY <5>1, <5>5 DEF Splits, Shown, LineEnd
      <4>2. CASE ~pair
        <5>1. p = o + 1 /\ p \in 1..n /\ p > o
          BY <2>1, <4>2
        <5>2. EndsLine(text, o + 1)
          <6>1. o + 1 < n => o + 2 <= n /\ (o + 1) + 1 = o + 2
            BY <1>1, <2>1
          <6> QED BY <2>2, <4>2, <6>1 DEF EndsLine
        <5>3. ~Splits(text, o + 1)
          <6>1. o + 1 \in 1..(n - 1) => o + 2 <= n /\ (o + 1) + 1 = o + 2
            BY <1>1, <2>1
          <6> QED BY <4>2, <6>1 DEF Splits
        <5> QED BY <2>1, <2>2, <5>1, <5>2, <5>3, NextLine DEF Shown
      <4> QED BY <4>1, <4>2
    <3> HIDE DEF p
    <3>3. s \in [offset : 0..n, cur : Char \cup {EOF}, line : Nat, lineOffset : Nat]
          /\ s.offset = p /\ s.cur = "LF" /\ s.line = r.line + 1 /\ s.lineOffset = p
      BY <1>1, <2>1, <3>1, <3>2
    <3>4. Cardinality(LineEnds(text, o)) \in Nat
      BY <2>1, LineEndsFinite
    <3> HIDE DEF s
    <3>5. s.line = 1 + Cardinality(LineEnds(text, p)) /\ "LF" # EOF
      BY <1>1, <3>2, <3>3, <3>4 DEF EOF
    <3>6. s \in Place(text)
      BY <3>2, <3>3, <3>5 DEF Place, Spot
    <3> QED BY <3>2, <3>3, <3>6 DEF Ahead, s
  <2>3. CASE c \notin LineEnd
    <3>1. ~pair
      BY <2>3 DEF LineEnd
    <3>2. s = [r EXCEPT !.offset = o + 1, !.cur = c]
      BY <1>3, <2>3, <3>1 DEF nextChar
    <3>3. s \in [offset : 0..n, cur : Char \cup {EOF}, line : Nat, lineOffset : Nat]
          /\ s.offset = o + 1 /\ s.cur = c /\ s.line = r.line /\ s.lineOffset = r.lineOffset
      <4>1. o + 1 \in 0..n /\ c \in Char \cup {EOF}
        BY <2>1
      <4> HIDE DEF o, c, n
      <4> QED BY <1>1, <3>2, <4>1
    <3>4. ~EndsLine(text, o + 1) /\ ~Splits(text, o + 1) /\ Shown(c) = c
      BY <2>3 DEF EndsLine, Splits, Shown, LineEnd
    <3>5. LineEnds(text, o + 1) = LineEnds(text, o)
      BY <2>1, <3>4, SameLine
    <3>6. LastEnd(text, o + 1, r.lineOffset)
      BY <1>1, <3>5 DEF LastEnd
    <3> HIDE DEF s
    <3>7. s \in Place(text)
      BY <1>1, <2>1, <3>3, <3>4, <3>5, <3>6 DEF Place, Spot
    <3> QED BY <2>1, <3>3, <3>7 DEF Ahead, s
  <2> QED BY <2>2, <2>3
<1> QED BY <1>2, <1>3

-----------------------------------------------------------------------------
(* What a loop meets                                                       *)
Met(r, S, max, w) ==
  /\ w \in Seq(Char) /\ Len(w) \in 0..max
  /\ \A i \in 1..Len(w) : w[i] \in S
  /\ Len(w) > 0 => /\ r.cur # EOF /\ r.offset + Len(w) - 1 <= Len(text)
                   /\ \A i \in 1..Len(w) : text[r.offset + i - 1] \in S
  /\ r.cur \in S /\ max > 0 => Len(w) > 0

LEMMA WhileMeets ==
  ASSUME text \in Seq(Char), NEW r \in Place(text), NEW max \in Nat,
         NEW S, S \cap LineEnd = {}, EOF \notin S
  PROVE  Met(r, S, max, While(r, S, max))
<1> DEFINE o == r.offset
           left == IF r.cur = EOF THEN 0 ELSE Len(text) - o + 1
           most == IF max < left THEN max ELSE left
           IsRun(k) == /\ \A i \in 1..k : text[o + i - 1] \in S
                       /\ k < most => text[o + k] \notin S
           n == CHOOSE k \in 0..most : IsRun(k)
<1>1. /\ Len(text) \in Nat /\ o \in 0..Len(text)
      /\ r.cur # EOF => o \in 1..Len(text) /\ r.cur = Shown(text[o])
  BY SpotProperties DEF Place
<1>2. left \in Nat /\ most \in Nat /\ most <= left /\ most <= max
  BY <1>1
<1>3. \E k \in 0..most : IsRun(k)
  <2> DEFINE T == {i \in Nat : text[o + i - 1] \in S}
  <2> HIDE DEF most
  <2>1. PICK k \in 0..most : /\ \A i \in 1..k : i \in T
                             /\ k < most => k + 1 \notin T
    <3> HIDE DEF T
    <3> QED BY <1>2, RunEnds
  <2>2. k + 1 \in Nat /\ o + (k + 1) - 1 = o + k
    BY <1>1, <1>2
  <2>3. IsRun(k)
    BY <2>1, <2>2
  <2> QED BY <2>3
<1>4. n \in 0..most /\ IsRun(n)
  BY <1>3
<1>5. While(r, S, max) = SubSeq(text, o, o + n - 1)
  BY DEF While
<1> HIDE DEF n
<1>6. CASE n = 0
  <2>1. While(r, S, max) = <<>>
    <3>1. o + n - 1 < o /\ o \in Int /\ o + n - 1 \in Int
      BY <1>1, <1>6
    <3> QED BY <1>5, <3>1, SubSeqEmpty
  <2>2. ~(r.cur \in S /\ max > 0)
    <3> SUFFICES ASSUME r.cur \in S, max > 0 PROVE FALSE
      OBVIOUS
    <3>1. r.cur # EOF /\ o \in 1..Len(text) /\ r.cur = Shown(text[o])
      BY <1>1
    <3>2. most > 0 /\ o + 0 = o
      BY <1>1, <3>1
    <3>3. text[o] \notin S
      BY <1>4, <1>6, <3>2
    <3>4. r.cur # "LF"
      BY DEF LineEnd
    <3> QED BY <3>1, <3>3, <3>4 DEF Shown
  <2> QED BY <2>1, <2>2, <1>2 DEF Met
<1>7. CASE n # 0
  <2>1. /\ n \in 1..max /\ r.cur # EOF /\ o \in 1..Len(text) /\ o + n - 1 \in o..Len(text)
        /\ n <= most
    BY <1>1, <1>2, <1>4, <1>7
  <2> DEFINE w == SubSeq(text, o, o + n - 1)
  <2>2. /\ w \in Seq(Char) /\ Len(w) = n
        /\ \A i \in 1..n : w[i] = text[o + i - 1]
    <3>1. o \in Int /\ o + n - 1 \in Int /\ o <= o + n - 1 /\ (o + n - 1) - o + 1 = n
      BY <1>1, <2>1
    <3>2. \A i \in o..(o + n - 1) : text[i] \in Char
      <4>1. \A i \in o..(o + n - 1) : i \in 1..Len(text)
        BY <1>1, <2>1, <3>1
      <4> QED BY <4>1, ElementOfSeq
    <3> QED BY <3>1, <3>2, SubSeqProperties
  <2> HIDE DEF w
  <2>3. Met(r, S, max, w)
    <3>1. \A i \in 1..n : text[o + i - 1] \in S
      BY <1>4
    <3>2. Len(w) \in 0..max /\ Len(w) > 0 /\ o + Len(w) - 1 <= Len(text)
      BY <1>1, <2>1, <2>2
    <3> QED BY <2>1, <2>2, <3>1, <3>2 DEF Met
  <2> QED BY <1>5, <2>3 DEF w
<1> QED BY <1>6, <1>7

(* Skip does what nextChar does as often as the loop goes round.           *)
LEMMA SkipPlace ==
  ASSUME text \in Seq(Char), NEW r \in Place(text), NEW max \in Nat,
         NEW S, S \cap LineEnd = {}, NEW w, Met(r, S, max, w)
  PROVE  /\ Skip(r, Len(w)) \in Place(text)
         /\ Onward(r, Skip(r, Len(w)))
         /\ Len(w) > 0 => Ahead(r, Skip(r, Len(w)))
<1> DEFINE n == Len(w)
           o == r.offset
           q == [r EXCEPT !.offset = @ + n - 1]
<1>1. /\ n \in Nat /\ Len(text) \in Nat /\ o \in 0..Len(text)
      /\ n > 0 => /\ o + n - 1 <= Len(text) /\ o \in 1..Len(text)
                  /\ \A i \in 1..n : text[o + i - 1] \in S
  BY SpotProperties DEF Met, Place
<1>2. CASE n = 0
  BY <1>2 DEF Skip, Onward
<1>3. CASE n # 0
  <2>1. n > 0 /\ o + n - 1 \in o..Len(text) /\ o \in 1..Len(text)
    BY <1>1, <1>3
  <2>2. /\ r \in [offset : 0..Len(text), cur : Char \cup {EOF}, line : Nat, lineOffset : Nat]
        /\ r.line = 1 + Cardinality(LineEnds(text, o))
        /\ LastEnd(text, o, r.lineOffset)
    BY SpotProperties DEF Place
  <2> DEFINE T == {k \in Nat : k < n => LineEnds(text, o + k) = LineEnds(text, o)}
  <2>3. 0 \in T
    BY <1>1
  <2>4. ASSUME NEW k \in Nat, k \in T PROVE k + 1 \in T
    <3> SUFFICES ASSUME k + 1 < n
                 PROVE  LineEnds(text, o + (k + 1)) = LineEnds(text, o)
      OBVIOUS
    <3>1. k + 2 \in 1..n /\ o + (k + 2) - 1 = (o + k) + 1 /\ o + (k + 1) = (o + k) + 1
          /\ o + k \in Nat
      <4>1. n \in Nat /\ o \in Nat
        BY <1>1
      <4> HIDE DEF n, o
      <4> QED BY <4>1
    <3>2. text[(o + k) + 1] \in S
      BY <1>1, <2>1, <3>1
    <3>3. ~EndsLine(text, (o + k) + 1)
      BY <3>2 DEF EndsLine
    <3>4. LineEnds(text, o + k) = LineEnds(text, o)
      BY <1>1, <2>4
    <3> QED BY <3>1, <3>3, <3>4, SameLine
  <2>5. n - 1 \in T
    <3>1. n - 1 \in Nat
      BY <1>1, <1>3
    <3> HIDE DEF T
    <3> QED BY <2>3, <2>4, <3>1, Induction
  <2>6. LineEnds(text, o + n - 1) = LineEnds(text, o)
    <3>1. n - 1 < n /\ o + (n - 1) = o + n - 1
      BY <1>1
    <3> QED BY <2>5, <3>1
  <2>7. ~Splits(text, o + n - 1)
    <3>1. n \in 1..n
      BY <1>1, <2>1
    <3>2. text[o + n - 1] \in S
      BY <1>1, <2>1, <3>1
    <3> QED BY <3>2 DEF Splits, LineEnd
  <2>8. /\ q \in [offset : 0..Len(text), cur : Char \cup {EOF}, line : Nat, lineOffset : Nat]
        /\ q.offset = o + n - 1 /\ q.line = r.line /\ q.lineOffset = r.lineOffset
    <3>1. o + n - 1 \in 0..Len(text)
      BY <1>1, <2>1
    <3> QED BY <2>2, <3>1
  <2> HIDE DEF q
  <2>9. LastEnd(text, o + n - 1, r.lineOffset)
    BY <2>2, <2>6 DEF LastEnd
  <2>10. q \in Spot(text)
    BY <2>2, <2>6, <2>7, <2>8, <2>9 DEF Spot
  <2>11. Skip(r, n) = nextChar(q)
    BY <1>3 DEF Skip, q
  <2>12. nextChar(q) \in Place(text) /\ Ahead(q, nextChar(q))
    BY <2>10, NextCharPlace
  <2>13. nextChar(q).offset \in Nat
    BY <2>12, SpotProperties DEF Place
  <2>14. Ahead(r, nextChar(q))
    BY <1>1, <2>1, <2>8, <2>12, <2>13 DEF Ahead
  <2> QED BY <2>11, <2>12, <2>14 DEF Onward
<1> QED BY <1>2, <1>3

-----------------------------------------------------------------------------
(* scanNumber's state                                                      *)
Flags == [base : {2, 10, 16}, real : BOOLEAN, err : BOOLEAN, nnum : BOOLEAN, expo : BOOLEAN]
Number(t) == [r : Place(t), buf : Seq(Nat), v : Flags]

LEMMA FailNumber ==
  ASSUME NEW n \in Number(text), NEW c \in BOOLEAN
  PROVE  /\ Fail(n, c) \in Number(text)
         /\ Fail(n, c).r = n.r /\ Fail(n, c).buf = n.buf
<1>1. (n.v.err \/ c) \in BOOLEAN
  OBVIOUS
<1> DEFINE v == [n.v EXCEPT !.err = @ \/ c]
<1>2. n.v \in Flags /\ n.v.err \in BOOLEAN
  BY DEF Number, Flags
<1>3. v \in Flags
  BY <1>2 DEF Flags
<1>4. Fail(n, c) = [n EXCEPT !.v = v]
  BY <1>2 DEF Fail, Number
<1> HIDE DEF v
<1> QED BY <1>3, <1>4 DEF Number

LEMMA CodesType ==
  ASSUME NEW s \in Seq(Char)
  PROVE  Codes(s) \in Seq(Nat) /\ Len(Codes(s)) = Len(s)
         /\ \A i \in 1..Len(s) : Codes(s)[i] = Code[s[i]]
<1>1. Len(s) \in Nat
  BY LenProperties
<1>2. \A i \in 1..Len(s) : Code[s[i]] \in Nat
  BY ElementOfSeq, CodeAssumption
<1> QED BY <1>1, <1>2 DEF Codes

LEMMA KeepNumber ==
  ASSUME NEW n \in Number(text), NEW s \in Seq(Char)
  PROVE  Keep(n, s) \in Number(text) /\ Keep(n, s).r = n.r
<1> DEFINE b == n.buf \o Codes(s)
<1>1. n.buf \in Seq(Nat)
  BY DEF Number
<1>2. b \in Seq(Nat)
  BY <1>1, CodesType, ConcatProperties
<1>3. Keep(n, s) = [n EXCEPT !.buf = b]
  BY DEF Keep
<1> HIDE DEF b
<1> QED BY <1>2, <1>3 DEF Number

LEMMA SkipOne ==
  ASSUME text \in Seq(Char), NEW r \in Spot(text)
  PROVE  Skip(r, 1) \in Place(text) /\ Ahead(r, Skip(r, 1))
<1> DEFINE q == [r EXCEPT !.offset = @ + 1 - 1]
<1>1. r.offset \in Nat
  BY SpotProperties
<1>2. q \in Spot(text) /\ q.offset = r.offset
  BY SpotProperties DEF Spot
<1>3. Skip(r, 1) = nextChar(q)
  BY DEF Skip
<1> HIDE DEF q
<1> QED BY <1>2, <1>3, NextCharPlace DEF Ahead

LEMMA AdvanceNumber ==
  ASSUME NEW n \in Number(text), NEW k, Skip(n.r, k) \in Place(text)
  PROVE  Advance(n, k) \in Number(text) /\ Advance(n, k).r = Skip(n.r, k)
<1> DEFINE q == Skip(n.r, k)
<1>1. Advance(n, k) = [n EXCEPT !.r = q]
  BY DEF Advance
<1> HIDE DEF q
<1>2. q \in Place(text)
  BY DEF q
<1> QED BY <1>1, <1>2 DEF Number, q

LEMMA OnwardOnward ==
  ASSUME text \in Seq(Char), NEW r \in Place(text), NEW s \in Place(text), NEW u \in Place(text),
         Onward(r, s), Onward(s, u)
  PROVE  Onward(r, u) /\ (Ahead(r, s) => Ahead(r, u)) /\ (Ahead(s, u) => Ahead(r, u))
<1>1. /\ r.offset \in 0..Len(text) /\ s.offset \in 0..Len(text) /\ u.offset \in 0..Len(text)
      /\ s.cur = EOF => s.offset = Len(text)
      /\ Len(text) \in Nat
  BY SpotProperties DEF Place
<1> QED BY <1>1 DEF Onward, Ahead

LEMMA DigitSets ==
  /\ \A base \in {2, 10, 16} : (Digits(base) \cup {"_"}) \cap LineEnd = {}
  /\ \A base \in {2, 10, 16} : EOF \notin Digits(base) \cup {"_"}
  BY DEF Digits, Hexadecimal, Decimal, Octal, Binary, LineEnd, EOF

LEMMA ScanUIntNumber ==
  ASSUME text \in Seq(Char), NEW n \in Number(text), NEW base \in {2, 10, 16}
  PROVE  /\ scanUInt(n, base) \in Number(text)
         /\ Onward(n.r, scanUInt(n, base).r)
         /\ n.r.cur \in Digits(base) => Ahead(n.r, scanUInt(n, base).r)
<1> DEFINE S == Digits(base) \cup {"_"}
           run == While(n.r, S, Len(text))
           digits == Significant(run)
           m == Advance(n, Len(run))
           k == Keep(m, digits)
           u == [k EXCEPT !.v.nnum = @ \/ digits # <<>>]
<1>1. n.r \in Place(text) /\ Len(text) \in Nat
  BY LenProperties DEF Number
<1>2. Met(n.r, S, Len(text), run)
  BY <1>1, DigitSets, WhileMeets
<1>3. /\ Skip(n.r, Len(run)) \in Place(text)
      /\ Onward(n.r, Skip(n.r, Len(run)))
      /\ Len(run) > 0 => Ahead(n.r, Skip(n.r, Len(run)))
  BY <1>1, <1>2, DigitSets, SkipPlace
<1>4. m \in Number(text) /\ m.r = Skip(n.r, Len(run))
  BY <1>3, AdvanceNumber
<1>5. digits \in Seq(Char)
  BY <1>2, SignificantType DEF Met
<1>6. k \in Number(text) /\ k.r = m.r
  BY <1>4, <1>5, KeepNumber
<1>7. u \in Number(text) /\ u.r = k.r
  <2> HIDE DEF k, digits
  <2> DEFINE v == [k.v EXCEPT !.nnum = @ \/ digits # <<>>]
  <2>1. k.v \in Flags
    BY <1>6 DEF Number
  <2>2. v \in Flags
    BY <2>1 DEF Flags
  <2>3. u = [k EXCEPT !.v = v]
    BY <1>6 DEF Number
  <2> HIDE DEF v, u
  <2> QED BY <1>6, <2>2, <2>3 DEF Number
<1>8. scanUInt(n, base) = u
  BY DEF scanUInt
<1>9. n.r.cur \in Digits(base) => Len(run) > 0
  <2>1. n.r.cur \in Digits(base) => Len(text) > 0
    <3>1. EOF \notin Digits(base)
      BY DigitSets
    <3> QED BY <1>1, <3>1 DEF Place
  <2> QED BY <1>2, <2>1 DEF Met
<1> HIDE DEF u, k, m, run
<1> QED BY <1>3, <1>4, <1>6, <1>7, <1>8, <1>9

-----------------------------------------------------------------------------
(* Tokens and coordinates                                                  *)
Mid == Reads \ {"token", "line comment"}

(* Where a token may start: at a character that is neither blank nor the   *)
(* end of a line.                                                          *)
StartsAt(t, x) ==
  \E p \in 1..Len(t) : t[p] \notin Whitespace \cup LineEnd /\ IsAt(t, x.line, x.column, p)

Earlier(x, y) == Before(x.line, x.column, y.line, y.column)

(* Every token has the line and the column of a character it may start     *)
(* with, and tokens come in the order of their places.                     *)
TokensInOrder ==
  /\ \A i \in 1..Len(tokens) : StartsAt(text, tokens[i])
  /\ \A i \in 1..(Len(tokens) - 1) : Earlier(tokens[i], tokens[i + 1])

Behind(x, r) == r.cur = EOF \/ Before(x.line, x.column, r.line, r.offset - r.lineOffset)

LastToken == tokens[Len(tokens)]

(* At the first character of a token, which these two read again           *)
AtStart ==
  /\ at.line = in.line /\ at.column = in.offset - in.lineOffset
  /\ \/ scan = "identifier" /\ in.cur = "\\"
     \/ scan = "integer" /\ in.cur \in Decimal

IsSequence(s) == \E S : s \in Seq(S)

IInv ==
  /\ text \in Seq(Char) /\ in \in Place(text)
  /\ scan \in Reads \cup {"done"} /\ strBuf \in Seq(Nat) /\ num \in Flags
  /\ level \in Nat /\ errors \in Nat
  /\ scan = "done" => level = 0 /\ in.cur = EOF
  /\ IsSequence(tokens) /\ TokensInOrder
  /\ tokens # <<>> => Behind(LastToken, in)
  /\ scan \in Mid => /\ StartsAt(text, at)
                     /\ tokens # <<>> => Earlier(LastToken, at)
                     /\ Behind(at, in) \/ AtStart

-----------------------------------------------------------------------------
(* Order of places                                                         *)
LEMMA PlaceProperties ==
  ASSUME text \in Seq(Char), NEW r \in Place(text)
  PROVE  /\ r.offset \in 0..Len(text) /\ Len(text) \in Nat
         /\ r.line \in Nat /\ r.lineOffset \in Nat /\ r.cur \in Char \cup {EOF}
         /\ r.cur = EOF => r.offset = Len(text)
         /\ r.cur # EOF => r.offset \in 1..Len(text) /\ r.cur = Shown(text[r.offset])
         /\ IsAt(text, r.line, r.offset - r.lineOffset, r.offset)
<1>1. r \in Spot(text)
  BY DEF Place
<1>2. r.offset \in Nat /\ r.offset - (r.offset - r.lineOffset) = r.lineOffset
      /\ r.offset - r.lineOffset \in Int
  BY <1>1, SpotProperties
<1>3. IsAt(text, r.line, r.offset - r.lineOffset, r.offset)
  BY <1>1, <1>2, SpotProperties DEF IsAt
<1> QED BY <1>1, <1>3, SpotProperties DEF Place

LEMMA StartTypes ==
  ASSUME NEW t, NEW x, StartsAt(t, x)
  PROVE  x.line \in Nat /\ x.column \in Int
<1>1. PICK p \in 1..Len(t) : IsAt(t, x.line, x.column, p)
  BY DEF StartsAt
<1>2. p \in Nat
  OBVIOUS
<1>3. Cardinality(LineEnds(t, p)) \in Nat
  BY <1>2, LineEndsFinite
<1> QED BY <1>1, <1>3 DEF IsAt

LEMMA BehindOnward ==
  ASSUME text \in Seq(Char), NEW r \in Place(text), NEW s \in Place(text), Onward(r, s),
         NEW x, x.line \in Nat, x.column \in Int, Behind(x, r)
  PROVE  Behind(x, s)
<1>1. CASE s = r \/ s.cur = EOF
  BY <1>1 DEF Behind
<1>2. CASE s # r /\ s.cur # EOF
  <2>1. s.offset > r.offset
    BY <1>2 DEF Onward, Ahead
  <2>2. r.cur # EOF
    BY <2>1, PlaceProperties
  <2> DEFINE c == r.offset - r.lineOffset
             d == s.offset - s.lineOffset
  <2>3. /\ r.offset \in Nat /\ s.offset \in Nat /\ r.line \in Nat /\ s.line \in Nat
        /\ c \in Int /\ d \in Int
        /\ IsAt(text, r.line, c, r.offset) /\ IsAt(text, s.line, d, s.offset)
    BY PlaceProperties
  <2>4. Before(x.line, x.column, r.line, c)
    BY <2>2 DEF Behind
  <2> HIDE DEF c, d
  <2>5. Before(r.line, c, s.line, d)
    BY <2>1, <2>3, LaterPlace
  <2>6. Before(x.line, x.column, s.line, d)
    BY <2>3, <2>4, <2>5 DEF Before
  <2> QED BY <2>6 DEF Behind, d
<1> QED BY <1>1, <1>2

LEMMA BehindAhead ==
  ASSUME text \in Seq(Char), NEW r \in Place(text), NEW s \in Place(text), Ahead(r, s),
         NEW x, x.line = r.line, x.column = r.offset - r.lineOffset
  PROVE  Behind(x, s)
<1>1. CASE s.cur = EOF
  BY <1>1 DEF Behind
<1>2. CASE s.cur # EOF
  <2> DEFINE c == r.offset - r.lineOffset
             d == s.offset - s.lineOffset
  <2>1. /\ r.offset \in Nat /\ s.offset \in Nat /\ s.offset > r.offset
        /\ IsAt(text, r.line, c, r.offset) /\ IsAt(text, s.line, d, s.offset)
    BY <1>2, PlaceProperties DEF Ahead
  <2> HIDE DEF c, d
  <2>2. Before(r.line, c, s.line, d)
    BY <2>1, LaterPlace
  <2> QED BY <2>2 DEF Behind, c, d
<1> QED BY <1>1, <1>2

(* A token may start here.                                                 *)
LEMMA HereStarts ==
  ASSUME text \in Seq(Char), in \in Place(text), in.cur \notin Whitespace \cup {EOF}
  PROVE  /\ StartsAt(text, Here)
         /\ Here.line = in.line /\ Here.column = in.offset - in.lineOffset
<1>1. Here.line = in.line /\ Here.column = in.offset - in.lineOffset
  BY DEF Here
<1>2. /\ in.offset \in 1..Len(text) /\ in.cur = Shown(text[in.offset])
      /\ IsAt(text, in.line, in.offset - in.lineOffset, in.offset)
  BY PlaceProperties
<1>3. text[in.offset] \notin Whitespace \cup LineEnd
  BY <1>2 DEF Shown, Whitespace
<1>4. IsAt(text, Here.line, Here.column, in.offset)
  BY <1>1, <1>2
<1> HIDE DEF Here
<1> QED BY <1>1, <1>2, <1>3, <1>4 DEF StartsAt

-----------------------------------------------------------------------------
(* Sequences whose elements need no common type                            *)
LEMMA SequenceLen ==
  ASSUME NEW s, IsSequence(s)
  PROVE  Len(s) \in Nat /\ (s # <<>> <=> Len(s) > 0)
<1>1. PICK S : s \in Seq(S)
  BY DEF IsSequence
<1> QED BY <1>1, LenProperties, EmptySeq

LEMMA AppendSequence ==
  ASSUME NEW s, NEW e, IsSequence(s)
  PROVE  /\ IsSequence(Append(s, e))
         /\ Len(Append(s, e)) = Len(s) + 1
         /\ Append(s, e)[Len(s) + 1] = e
         /\ \A i \in 1..Len(s) : Append(s, e)[i] = s[i]
<1>1. PICK S : s \in Seq(S)
  BY DEF IsSequence
<1>2. s \in Seq(S \cup {e}) /\ e \in S \cup {e}
  BY <1>1, SeqMonotonic
<1> QED BY <1>2, AppendProperties DEF IsSequence

-----------------------------------------------------------------------------
(* The kinds of steps.  The tokens delivered stay in order.                *)
TokensFrom(ts, t) ==
  /\ IsSequence(ts)
  /\ \A i \in 1..Len(ts) : StartsAt(t, ts[i])
  /\ \A i \in 1..(Len(ts) - 1) : Earlier(ts[i], ts[i + 1])

LastBehind(ts, r) == ts # <<>> => Behind(ts[Len(ts)], r)
LastEarlier(ts, x) == ts # <<>> => Earlier(ts[Len(ts)], x)

LEMMA InvariantNow ==
  ASSUME IInv
  PROVE  /\ text \in Seq(Char) /\ in \in Place(text)
         /\ TokensFrom(tokens, text) /\ LastBehind(tokens, in)
         /\ scan \in Mid => /\ StartsAt(text, at) /\ LastEarlier(tokens, at)
                            /\ Behind(at, in) \/ AtStart
<1>1. TokensFrom(tokens, text)
  BY DEF IInv, TokensFrom, TokensInOrder
<1>2. LastBehind(tokens, in)
  BY DEF IInv, LastBehind, LastToken
<1>3. scan \in Mid => LastEarlier(tokens, at)
  BY DEF IInv, LastEarlier, LastToken
<1> QED BY <1>1, <1>2, <1>3 DEF IInv

(* ... which all leave the text alone and keep to the types.               *)
Kept ==
  /\ text' = text /\ in' \in Place(text) /\ Onward(in, in')
  /\ scan' \in Reads \cup {"done"} /\ strBuf' \in Seq(Nat) /\ num' \in Flags
  /\ level' \in Nat /\ errors' \in Nat
  /\ scan' = "done" => level' = 0 /\ in'.cur = EOF

LEMMA InvariantNext ==
  ASSUME Kept, text \in Seq(Char),
         TokensFrom(tokens', text), LastBehind(tokens', in'),
         scan' \in Mid => /\ StartsAt(text, at') /\ LastEarlier(tokens', at')
                          /\ Behind(at', in') \/ AtStart'
  PROVE  IInv'
<1>1. text' = text
  BY DEF Kept
<1>2. IsSequence(tokens') /\ TokensInOrder'
  BY <1>1 DEF TokensFrom, TokensInOrder
<1>3. tokens' # <<>> => Behind(LastToken', in')
  BY DEF LastBehind, LastToken
<1>4. ASSUME scan' \in Mid
      PROVE  /\ StartsAt(text', at') /\ (Behind(at', in') \/ AtStart')
             /\ tokens' # <<>> => Earlier(LastToken', at')
  <2>1. StartsAt(text, at') /\ LastEarlier(tokens', at') /\ (Behind(at', in') \/ AtStart')
    BY <1>4
  <2>2. StartsAt(text', at')
    BY <1>1, <2>1
  <2>3. tokens' # <<>> => Earlier(LastToken', at')
    BY <2>1 DEF LastEarlier, LastToken
  <2> QED BY <2>1, <2>2, <2>3
<1>5. text' \in Seq(Char) /\ in' \in Place(text')
  BY <1>1 DEF Kept
<1> QED BY <1>2, <1>3, <1>4, <1>5 DEF IInv, Kept

LEMMA LastTypes ==
  ASSUME NEW ts, NEW t, TokensFrom(ts, t), ts # <<>>
  PROVE  ts[Len(ts)].line \in Nat /\ ts[Len(ts)].column \in Int
<1>1. Len(ts) \in 1..Len(ts)
  BY SequenceLen DEF TokensFrom
<1> QED BY <1>1, StartTypes DEF TokensFrom

LEMMA LastOnward ==
  ASSUME text \in Seq(Char), NEW r \in Place(text), NEW s \in Place(text), Onward(r, s),
         TokensFrom(tokens, text), LastBehind(tokens, r)
  PROVE  LastBehind(tokens, s)
<1> SUFFICES ASSUME tokens # <<>> PROVE Behind(tokens[Len(tokens)], s)
  BY DEF LastBehind
<1> DEFINE x == tokens[Len(tokens)]
<1>1. x.line \in Nat /\ x.column \in Int /\ Behind(x, r)
  BY LastTypes DEF LastBehind
<1> HIDE DEF x
<1>2. Behind(x, s)
  BY <1>1, BehindOnward
<1> QED BY <1>2 DEF x

(* No token is at hand afterwards.                                         *)
LEMMA Wander ==
  ASSUME IInv, Kept, tokens' = tokens, scan' \notin Mid
  PROVE  IInv'
<1>1. /\ text \in Seq(Char) /\ in \in Place(text)
      /\ TokensFrom(tokens, text) /\ LastBehind(tokens, in)
  BY InvariantNow
<1>2. LastBehind(tokens, in')
  BY <1>1, LastOnward DEF Kept
<1>3. TokensFrom(tokens', text) /\ LastBehind(tokens', in')
  BY <1>1, <1>2
<1> QED BY <1>1, <1>3, InvariantNext

(* What is delivered takes its place behind the other tokens.              *)
LEMMA Delivered ==
  ASSUME text \in Seq(Char), NEW kind, NEW value, NEW x, NEW r, Deliver(kind, value, x),
         TokensFrom(tokens, text), LastBehind(tokens, r),
         StartsAt(text, x), LastEarlier(tokens, x), Behind(x, r)
  PROVE  TokensFrom(tokens', text) /\ LastBehind(tokens', r)
<1> DEFINE e == [kind |-> kind, value |-> value, line |-> x.line, column |-> x.column]
           ts == Append(tokens, e)
<1>1. tokens' = tokens \/ tokens' = ts
  BY DEF Deliver
<1>2. e.line = x.line /\ e.column = x.column
  OBVIOUS
<1> HIDE DEF e
<1>3. StartsAt(text, e) /\ Behind(e, r) /\ LastEarlier(tokens, e)
  BY <1>2 DEF StartsAt, Behind, LastEarlier, Earlier
<1>4. /\ IsSequence(ts) /\ Len(ts) = Len(tokens) + 1 /\ ts[Len(tokens) + 1] = e
      /\ \A i \in 1..Len(tokens) : ts[i] = tokens[i]
      /\ Len(tokens) \in Nat /\ (tokens # <<>> <=> Len(tokens) > 0)
  BY AppendSequence, SequenceLen DEF TokensFrom
<1> HIDE DEF ts
<1>5. TokensFrom(ts, text)
  <2>1. ASSUME NEW i \in 1..Len(ts) PROVE StartsAt(text, ts[i])
    <3>1. i \in 1..Len(tokens) \/ i = Len(tokens) + 1
      BY <1>4
    <3> QED BY <1>3, <1>4, <3>1 DEF TokensFrom
  <2>2. ASSUME NEW i \in 1..(Len(ts) - 1) PROVE Earlier(ts[i], ts[i + 1])
    <3>1. CASE i = Len(tokens)
      <4>1. ts[i] = tokens[Len(tokens)] /\ ts[i + 1] = e /\ tokens # <<>>
        BY <1>4, <3>1
      <4> QED BY <1>3, <4>1 DEF LastEarlier
    <3>2. CASE i # Len(tokens)
      <4>1. i \in 1..(Len(tokens) - 1) /\ i \in 1..Len(tokens) /\ i + 1 \in 1..Len(tokens)
        BY <1>4, <3>2
      <4>2. ts[i] = tokens[i] /\ ts[i + 1] = tokens[i + 1]
        BY <1>4, <4>1
      <4> QED BY <4>1, <4>2 DEF TokensFrom
    <3> QED BY <3>1, <3>2
  <2> QED BY <1>4, <2>1, <2>2 DEF TokensFrom
<1>6. LastBehind(ts, r)
  BY <1>3, <1>4 DEF LastBehind
<1> QED BY <1>1, <1>5, <1>6

(* A character that a token may start with is behind the last token.       *)
LEMMA LookAhead ==
  ASSUME IInv, in.cur \notin Whitespace \cup {EOF}
  PROVE  /\ StartsAt(text, Here) /\ LastEarlier(tokens, Here)
         /\ Here.line = in.line /\ Here.column = in.offset - in.lineOffset
<1>1. text \in Seq(Char) /\ in \in Place(text) /\ LastBehind(tokens, in)
  BY InvariantNow
<1>2. /\ StartsAt(text, Here)
      /\ Here.line = in.line /\ Here.column = in.offset - in.lineOffset
  BY <1>1, HereStarts
<1>3. LastEarlier(tokens, Here)
  BY <1>1, <1>2 DEF LastEarlier, LastBehind, Earlier, Behind
<1> QED BY <1>2, <1>3

(* A token begins.                                                         *)
LEMMA Begin ==
  ASSUME IInv, Kept, in.cur \notin Whitespace \cup {EOF}, at' = Here, tokens' = tokens,
         Ahead(in, in') \/ AtStart'
  PROVE  IInv'
<1>1. /\ text \in Seq(Char) /\ in \in Place(text)
      /\ TokensFrom(tokens, text) /\ LastBehind(tokens, in)
  BY InvariantNow
<1>2. LastBehind(tokens, in')
  BY <1>1, LastOnward DEF Kept
<1>3. TokensFrom(tokens', text) /\ LastBehind(tokens', in')
  BY <1>1, <1>2
<1>4. StartsAt(text, at') /\ LastEarlier(tokens', at')
  BY LookAhead
<1>5. Behind(at', in') \/ AtStart'
  <2>1. CASE Ahead(in, in')
    <3>1. at'.line = in.line /\ at'.column = in.offset - in.lineOffset
      BY LookAhead
    <3>2. in' \in Place(text)
      BY DEF Kept
    <3> QED BY <1>1, <2>1, <3>1, <3>2, BehindAhead
  <2> QED BY <2>1
<1> QED BY <1>1, <1>3, <1>4, <1>5, InvariantNext

(* A token of a single step                                                *)
LEMMA BeginAndEnd ==
  ASSUME IInv, Kept, in.cur \notin Whitespace \cup {EOF}, scan' \notin Mid, Ahead(in, in'),
         NEW kind, NEW value, Deliver(kind, value, Here)
  PROVE  IInv'
<1>1. /\ text \in Seq(Char) /\ in \in Place(text)
      /\ TokensFrom(tokens, text) /\ LastBehind(tokens, in)
  BY InvariantNow
<1>2. LastBehind(tokens, in') /\ in' \in Place(text)
  BY <1>1, LastOnward DEF Kept
<1>3. /\ StartsAt(text, Here) /\ LastEarlier(tokens, Here)
      /\ Here.line = in.line /\ Here.column = in.offset - in.lineOffset
  BY LookAhead
<1> HIDE DEF Here
<1>4. Behind(Here, in')
  BY <1>1, <1>2, <1>3, BehindAhead
<1>5. TokensFrom(tokens', text) /\ LastBehind(tokens', in')
  BY <1>1, <1>2, <1>3, <1>4, Delivered
<1> QED BY <1>1, <1>5, InvariantNext

(* Within a token                                                          *)
LEMMA PastStart ==
  ASSUME IInv, Kept, scan \in Mid, Ahead(in, in') \/ ~AtStart
  PROVE  Behind(at, in')
<1>1. /\ text \in Seq(Char) /\ in \in Place(text) /\ in' \in Place(text) /\ Onward(in, in')
      /\ StartsAt(text, at) /\ (Behind(at, in) \/ AtStart)
  BY InvariantNow DEF Kept
<1>2. CASE Behind(at, in)
  <2>1. at.line \in Nat /\ at.column \in Int
    BY <1>1, StartTypes
  <2> QED BY <1>1, <1>2, <2>1, BehindOnward
<1>3. CASE AtStart /\ Ahead(in, in')
  <2>1. at.line = in.line /\ at.column = in.offset - in.lineOffset
    BY <1>3 DEF AtStart
  <2> QED BY <1>1, <1>3, <2>1, BehindAhead
<1> QED BY <1>1, <1>2, <1>3

LEMMA GoOn ==
  ASSUME IInv, Kept, scan \in Mid, Ahead(in, in') \/ ~AtStart, at' = at, tokens' = tokens
  PROVE  IInv'
<1>1. /\ text \in Seq(Char) /\ in \in Place(text)
      /\ TokensFrom(tokens, text) /\ LastBehind(tokens, in)
      /\ StartsAt(text, at) /\ LastEarlier(tokens, at)
  BY InvariantNow
<1>2. LastBehind(tokens, in')
  BY <1>1, LastOnward DEF Kept
<1>3. Behind(at, in')
  BY PastStart
<1>4. /\ TokensFrom(tokens', text) /\ LastBehind(tokens', in')
      /\ StartsAt(text, at') /\ LastEarlier(tokens', at') /\ Behind(at', in')
  BY <1>1, <1>2, <1>3
<1> QED BY <1>1, <1>4, InvariantNext

(* ... and its end                                                         *)
LEMMA Finish ==
  ASSUME IInv, Kept, scan \in Mid, Ahead(in, in') \/ ~AtStart, scan' \notin Mid,
         NEW kind, NEW value, Deliver(kind, value, at)
  PROVE  IInv'
<1>1. /\ text \in Seq(Char) /\ in \in Place(text)
      /\ TokensFrom(tokens, text) /\ LastBehind(tokens, in)
      /\ StartsAt(text, at) /\ LastEarlier(tokens, at)
  BY InvariantNow
<1>2. LastBehind(tokens, in')
  BY <1>1, LastOnward DEF Kept
<1>3. Behind(at, in')
  BY PastStart
<1>4. TokensFrom(tokens', text) /\ LastBehind(tokens', in')
  BY <1>1, <1>2, <1>3, Delivered
<1> QED BY <1>1, <1>4, InvariantNext

-----------------------------------------------------------------------------
(* _nextToken                                                              *)
LEMMA InvariantTypes ==
  ASSUME IInv
  PROVE  /\ text \in Seq(Char) /\ in \in Place(text)
         /\ scan \in Reads \cup {"done"} /\ strBuf \in Seq(Nat) /\ num \in Flags
         /\ level \in Nat /\ errors \in Nat
         /\ scan = "done" => level = 0 /\ in.cur = EOF
  BY DEF IInv

LEMMA NextPlace ==
  ASSUME text \in Seq(Char), NEW r \in Place(text)
  PROVE  /\ nextChar(r) \in Place(text) /\ Ahead(r, nextChar(r))
         /\ nextChar(nextChar(r)) \in Place(text) /\ Ahead(r, nextChar(nextChar(r)))
<1>1. nextChar(r) \in Place(text) /\ Ahead(r, nextChar(r))
  BY NextCharPlace DEF Place
<1>2. nextChar(nextChar(r)) \in Place(text) /\ Ahead(nextChar(r), nextChar(nextChar(r)))
  BY <1>1, NextCharPlace DEF Place
<1>3. Onward(r, nextChar(r)) /\ Onward(nextChar(r), nextChar(nextChar(r)))
  BY <1>1, <1>2 DEF Onward
<1> QED BY <1>1, <1>2, <1>3, OnwardOnward

LEMMA ReportNat ==
  ASSUME errors \in Nat, NEW n \in Nat, Report(n)
  PROVE  errors' \in Nat
  BY DEF Report

LEMMA IfNat ==
  ASSUME NEW condition
  PROVE  If(condition) \in Nat
  BY DEF If

LEMMA Starts ==
  ASSUME IInv, in.cur \notin Whitespace \cup {EOF},
         NEW s \in Mid, NEW r \in Place(text), Ahead(in, r), NEW buf \in Seq(Nat),
         Start(s, r, buf)
  PROVE  IInv'
<1>1. /\ text' = text /\ in' = r /\ scan' = s /\ strBuf' = buf /\ at' = Here
      /\ num' = num /\ level' = level /\ tokens' = tokens /\ errors' = errors
  BY DEF Start
<1>2. s \in Reads /\ s # "done"
  BY DEF Mid, Reads
<1>3. Kept
  BY <1>1, <1>2, InvariantTypes DEF Kept, Onward
<1>4. Ahead(in, in')
  BY <1>1
<1> QED BY <1>1, <1>3, <1>4, Begin

LEMMA Completes ==
  ASSUME IInv, in.cur \notin Whitespace \cup {EOF}, Look, errors' \in Nat,
         NEW r \in Place(text), Ahead(in, r), NEW kind, NEW value,
         Complete(kind, value, r)
  PROVE  IInv'
<1>1. /\ text' = text /\ in' = r /\ scan' = scan /\ strBuf' = strBuf
      /\ num' = num /\ level' = level /\ Deliver(kind, value, Here)
  BY DEF Complete
<1>2. scan' = "token"
  BY <1>1 DEF Look
<1>3. scan' \notin Mid /\ scan' \in Reads /\ scan' # "done"
  BY <1>2 DEF Mid, Reads
<1>4. Kept
  BY <1>1, <1>3, InvariantTypes DEF Kept, Onward
<1>5. Ahead(in, in')
  BY <1>1
<1> QED BY <1>1, <1>3, <1>4, <1>5, BeginAndEnd

(* What is passed over                                                     *)
LEMMA PassesOver ==
  ASSUME IInv, NEW r \in Place(text), Onward(in, r), in' = r, scan' \in {"token", "line comment"},
         text' = text, num' = num, strBuf' \in Seq(Nat), tokens' = tokens,
         level' \in Nat, errors' \in Nat
  PROVE  IInv'
<1>1. scan' \in Reads /\ scan' # "done" /\ scan' \notin Mid
  BY DEF Mid, Reads
<1>2. Kept
  BY <1>1, InvariantTypes DEF Kept
<1> QED BY <1>1, <1>2, Wander

LEMMA ReadEofInductive ==
  ASSUME IInv, ReadEof
  PROVE  IInv'
<1>1. /\ in.cur = EOF /\ in' = in /\ text' = text /\ num' = num /\ strBuf' = strBuf
      /\ tokens' = tokens /\ level' = 0
      /\ scan' = "done" \/ scan' = "token"
      /\ errors' = errors \/ errors' = errors + 1
  BY DEF ReadEof, Look, NoReport
<1>2. scan' \in Reads \cup {"done"} /\ scan' \notin Mid
  BY <1>1 DEF Mid, Reads
<1>3. Kept
  BY <1>1, <1>2, InvariantTypes DEF Kept, Onward
<1> QED BY <1>1, <1>2, <1>3, Wander

LEMMA ReadWhitespaceInductive ==
  ASSUME IInv, ReadWhitespace
  PROVE  IInv'
<1>1. /\ in' = nextChar(in) /\ scan' = "token" /\ text' = text /\ num' = num
      /\ strBuf' = strBuf /\ tokens' = tokens /\ level' = level /\ errors' = errors
  BY DEF ReadWhitespace, Start
<1>2. nextChar(in) \in Place(text) /\ Onward(in, nextChar(in))
  BY InvariantTypes, NextPlace DEF Onward
<1> QED BY <1>1, <1>2, InvariantTypes, PassesOver

LEMMA ReadPunctuationInductive ==
  ASSUME IInv, ReadPunctuation
  PROVE  IInv'
<1>1. /\ in.cur \notin Whitespace \cup {EOF} /\ Look
      /\ Complete(<<in.cur>>, <<>>, nextChar(in)) /\ errors' = errors
  BY DEF ReadPunctuation, NoReport, Whitespace, EOF
<1>2. nextChar(in) \in Place(text) /\ Ahead(in, nextChar(in)) /\ errors' \in Nat
  BY <1>1, InvariantTypes, NextPlace
<1> QED BY <1>1, <1>2, Completes

LEMMA ReadCommaInductive ==
  ASSUME IInv, ReadComma
  PROVE  IInv'
<1> DEFINE r == nextChar(in)
<1>1. /\ in.cur \notin Whitespace \cup {EOF} /\ Look /\ errors' = errors
      /\ Complete(<<",", "@">>, <<>>, nextChar(r)) \/ Complete(<<",">>, <<>>, r)
  BY DEF ReadComma, NoReport, Whitespace, EOF
<1>2. /\ r \in Place(text) /\ Ahead(in, r) /\ errors' \in Nat
      /\ nextChar(r) \in Place(text) /\ Ahead(in, nextChar(r))
  BY <1>1, InvariantTypes, NextPlace
<1> HIDE DEF r
<1> QED BY <1>1, <1>2, Completes

(* Behind #                                                                *)
LEMMA HashPlace ==
  ASSUME IInv, Hash
  PROVE  /\ in.cur \notin Whitespace \cup {EOF} /\ Look
         /\ AfterHash \in Place(text) /\ Ahead(in, AfterHash)
         /\ nextChar(AfterHash) \in Place(text) /\ Ahead(in, nextChar(AfterHash))
<1>1. in.cur \notin Whitespace \cup {EOF} /\ Look
  BY DEF Hash, Whitespace, EOF
<1> QED BY <1>1, InvariantTypes, NextPlace DEF AfterHash

LEMMA ReadHashPunctuationInductive ==
  ASSUME IInv, ReadHashPunctuation
  PROVE  IInv'
<1>1. Hash /\ Complete(<<"#", AfterHash.cur>>, <<>>, nextChar(AfterHash)) /\ errors' = errors
  BY Zenon DEF ReadHashPunctuation, NoReport
<1>2. errors' \in Nat
  BY <1>1, InvariantTypes
<1> QED BY <1>1, <1>2, HashPlace, Completes

LEMMA ReadHashCommaInductive ==
  ASSUME IInv, ReadHashComma
  PROVE  IInv'
<1> DEFINE r == nextChar(AfterHash)
<1>1. /\ Hash /\ errors' = errors
      /\ Complete(<<"#", ",", "@">>, <<>>, nextChar(r)) \/ Complete(<<"#", ",">>, <<>>, r)
  BY DEF ReadHashComma, NoReport
<1>2. /\ errors' \in Nat /\ in.cur \notin Whitespace \cup {EOF} /\ Look
      /\ r \in Place(text) /\ Ahead(in, r)
  BY <1>1, InvariantTypes, HashPlace
<1>3. nextChar(r) \in Place(text) /\ Ahead(in, nextChar(r))
  <2>1. text \in Seq(Char) /\ in \in Place(text)
    BY InvariantTypes
  <2> HIDE DEF r
  <2>2. nextChar(r) \in Place(text) /\ Onward(in, r) /\ Onward(r, nextChar(r))
    BY <1>2, <2>1, NextPlace DEF Onward
  <2> QED BY <1>2, <2>1, <2>2, OnwardOnward
<1> HIDE DEF r
<1> QED BY <1>1, <1>2, <1>3, Completes

LEMMA ReadBoolInductive ==
  ASSUME IInv, ReadBool
  PROVE  IInv'
<1> DEFINE r == nextChar(AfterHash)
           value == <<If(AfterHash.cur \in {"t", "T"})>>
           report == If(r.cur \notin Delimiter)
<1>1. /\ Hash /\ Complete(<<"bool">>, value, r) /\ Report(report)
  BY DEF ReadBool
<1>2. errors' \in Nat
  BY <1>1, InvariantTypes, IfNat, ReportNat
<1> HIDE DEF value
<1> QED BY <1>1, <1>2, HashPlace, Completes

LEMMA ReadCharacterConstantInductive ==
  ASSUME IInv, ReadCharacterConstant
  PROVE  IInv'
<1>1. Hash /\ Start("character", nextChar(AfterHash), strBuf)
  BY Zenon DEF ReadCharacterConstant
<1>2. "character" \in Mid /\ strBuf \in Seq(Nat)
  BY InvariantTypes DEF Mid, Reads
<1> QED BY <1>1, <1>2, HashPlace, Starts

LEMMA IllegalLexemeInductive ==
  ASSUME IInv, IllegalLexeme
  PROVE  IInv'
<1>1. /\ Hash /\ Report(1) /\ in' = nextChar(AfterHash)
      /\ UNCHANGED <<text, scan, at, num, strBuf, level, tokens>>
  BY Zenon DEF IllegalLexeme
<1>2. scan' = "token" /\ errors' \in Nat
  <2>1. scan = "token" /\ errors \in Nat
    BY <1>1, InvariantTypes DEF Hash, Look
  <2> QED BY <1>1, <2>1, ReportNat
<1>3. nextChar(AfterHash) \in Place(text) /\ Onward(in, nextChar(AfterHash))
  BY <1>1, HashPlace DEF Onward
<1> QED BY <1>1, <1>2, <1>3, InvariantTypes, PassesOver

LEMMA ReadStringInductive ==
  ASSUME IInv, ReadString
  PROVE  IInv'
<1>1. in.cur \notin Whitespace \cup {EOF} /\ Start("string", nextChar(in), <<>>)
  BY Zenon DEF ReadString, Whitespace, EOF
<1>2. "string" \in Mid /\ <<>> \in Seq(Nat)
  BY DEF Mid, Reads
<1>3. nextChar(in) \in Place(text) /\ Ahead(in, nextChar(in))
  BY InvariantTypes, NextPlace
<1> QED BY <1>1, <1>2, <1>3, Starts

LEMMA CodeNat ==
  ASSUME IInv, in.cur # EOF
  PROVE  <<Code[in.cur]>> \in Seq(Nat)
<1>1. in.cur \in Char
  BY InvariantTypes, PlaceProperties
<1>2. Code[in.cur] \in Nat
  BY <1>1, CodeAssumption
<1> QED BY <1>2

LEMMA EndCommentTypes ==
  ASSUME IInv, NEW r, EndComment(r)
  PROVE  /\ in' = r /\ text' = text /\ num' = num /\ tokens' = tokens
         /\ level' \in Nat /\ errors' \in Nat
         /\ scan' = "token" \/ (scan' = scan /\ level = 0)
<1>1. level \in Nat /\ errors \in Nat
  BY InvariantTypes
<1>2. errors' \in Nat
  BY <1>1, ReportNat DEF EndComment
<1> QED BY <1>1, <1>2 DEF EndComment

LEMMA ReadStarInductive ==
  ASSUME IInv, ReadStar
  PROVE  IInv'
<1> DEFINE r == nextChar(in)
<1>1. /\ r \in Place(text) /\ Ahead(in, r)
      /\ nextChar(r) \in Place(text) /\ Onward(in, nextChar(r))
  BY InvariantTypes, NextPlace DEF Onward
<1>2. Look /\ in.cur \notin Whitespace \cup {EOF} /\ in.cur # EOF /\ in.cur = "*"
  BY DEF ReadStar, Whitespace, EOF
<1>3. CASE EndComment(nextChar(r)) /\ strBuf' = strBuf
  <2>1. scan' = "token" /\ level' \in Nat /\ errors' \in Nat
        /\ text' = text /\ num' = num /\ tokens' = tokens /\ in' = nextChar(r)
    BY <1>2, <1>3, EndCommentTypes DEF Look
  <2> HIDE DEF r
  <2> QED BY <1>1, <1>3, <2>1, InvariantTypes, PassesOver
<1>4. CASE Start("identifier", r, <<Code["*"]>>)
  <2>1. "identifier" \in Mid /\ <<Code["*"]>> \in Seq(Nat)
    BY <1>2, CodeNat DEF Mid, Reads
  <2> HIDE DEF r
  <2> QED BY <1>1, <1>2, <1>4, <2>1, Starts
<1> QED BY <1>3, <1>4 DEF ReadStar

LEMMA ReadSlashInductive ==
  ASSUME IInv, ReadSlash
  PROVE  IInv'
<1> DEFINE r == nextChar(in)
<1>1. /\ r \in Place(text) /\ Ahead(in, r) /\ Onward(in, r)
      /\ nextChar(r) \in Place(text) /\ Onward(in, nextChar(r))
  BY InvariantTypes, NextPlace DEF Onward
<1>2. scan = "token" /\ in.cur \notin Whitespace \cup {EOF} /\ in.cur # EOF /\ in.cur = "/"
  BY DEF ReadSlash, Whitespace, EOF, Look
<1>3. CASE Start("line comment", r, strBuf)
  <2>1. /\ in' = r /\ scan' = "line comment" /\ text' = text /\ num' = num
        /\ strBuf' = strBuf /\ tokens' = tokens /\ level' = level /\ errors' = errors
    BY <1>3 DEF Start
  <2> HIDE DEF r
  <2> QED BY <1>1, <2>1, InvariantTypes, PassesOver
<1>4. CASE /\ in' = nextChar(r) /\ level' = level + 1
           /\ UNCHANGED <<text, scan, at, num, strBuf, tokens, errors>>
  <2>1. level' \in Nat /\ errors' \in Nat /\ scan' = "token" /\ strBuf' \in Seq(Nat)
    BY <1>2, <1>4, InvariantTypes
  <2> HIDE DEF r
  <2> QED BY <1>1, <1>4, <2>1, PassesOver
<1>5. CASE Start("identifier", r, <<Code["/"]>>)
  <2>1. "identifier" \in Mid /\ <<Code["/"]>> \in Seq(Nat)
    BY <1>2, CodeNat DEF Mid, Reads
  <2> HIDE DEF r
  <2> QED BY <1>1, <1>2, <1>5, <2>1, Starts
<1> QED BY <1>3, <1>4, <1>5 DEF ReadSlash

LEMMA ReadSemicolonInductive ==
  ASSUME IInv, ReadSemicolon
  PROVE  IInv'
<1>1. Start("line comment", in, strBuf)
  BY Zenon DEF ReadSemicolon
<1>2. /\ in' = in /\ scan' = "line comment" /\ text' = text /\ num' = num
      /\ strBuf' = strBuf /\ tokens' = tokens /\ level' = level /\ errors' = errors
  BY <1>1 DEF Start
<1> QED BY <1>2, InvariantTypes, PassesOver DEF Onward

LEMMA LineCommentInductive ==
  ASSUME IInv, LineComment
  PROVE  IInv'
<1>1. /\ in' = nextChar(in) /\ scan' \in {"token", "line comment"}
      /\ text' = text /\ num' = num
      /\ strBuf' = strBuf /\ tokens' = tokens /\ level' = level /\ errors' = errors
  BY DEF LineComment
<1>2. nextChar(in) \in Place(text) /\ Onward(in, nextChar(in))
  BY InvariantTypes, NextPlace DEF Onward
<1> QED BY <1>1, <1>2, InvariantTypes, PassesOver

LEMMA StartsNumber ==
  ASSUME IInv, in.cur \notin Whitespace \cup {EOF},
         NEW stage \in Mid, NEW r \in Place(text), Onward(in, r), NEW buf \in Seq(Nat),
         StartNumber(stage, r, buf),
         Ahead(in, r) \/ AtStart'
  PROVE  IInv'
<1>1. /\ text' = text /\ in' = r /\ scan' = stage /\ strBuf' = buf /\ at' = Here
      /\ num' \in Flags /\ level' = level /\ tokens' = tokens /\ errors' = errors
  BY DEF StartNumber, Flags
<1>2. stage \in Reads /\ stage # "done"
  BY DEF Mid, Reads
<1>3. Kept
  BY <1>1, <1>2, InvariantTypes DEF Kept
<1>4. Ahead(in, in') \/ AtStart'
  BY <1>1
<1> QED BY <1>1, <1>3, <1>4, Begin

LEMMA ReadDigitInductive ==
  ASSUME IInv, ReadDigit
  PROVE  IInv'
<1>1. in.cur \notin Whitespace \cup {EOF} /\ StartNumber("integer", in, <<>>) /\ in.cur \in Decimal
  BY DEF ReadDigit, Decimal, Octal, Binary, Whitespace, EOF
<1>2. "integer" \in Mid /\ <<>> \in Seq(Nat)
  BY DEF Mid, Reads
<1>3. AtStart'
  <2>1. scan' = "integer" /\ in' = in /\ at' = Here
    BY <1>1, Zenon DEF StartNumber
  <2>2. at'.line = in'.line /\ at'.column = in'.offset - in'.lineOffset
    BY <1>1, <2>1, LookAhead
  <2> QED BY <1>1, <2>1, <2>2, Zenon DEF AtStart
<1> QED BY <1>1, <1>2, <1>3, InvariantTypes, StartsNumber DEF Onward

LEMMA ReadSignInductive ==
  ASSUME IInv, ReadSign
  PROVE  IInv'
<1> DEFINE r == nextChar(in)
           sign == IF in.cur = "-" THEN <<Code["-"]>> ELSE <<>>
<1>1. r \in Place(text) /\ Ahead(in, r) /\ Onward(in, r)
  BY InvariantTypes, NextPlace DEF Onward
<1>2. /\ in.cur \notin Whitespace \cup {EOF} /\ in.cur # EOF
      /\ \/ StartNumber("integer", r, sign)
         \/ StartNumber("point", r, sign)
         \/ Start("identifier", r, <<Code[in.cur]>>)
  BY DEF ReadSign, Whitespace, EOF
<1>3. sign \in Seq(Nat) /\ <<Code[in.cur]>> \in Seq(Nat)
  BY <1>2, CodeNat
<1>4. "integer" \in Mid /\ "point" \in Mid /\ "identifier" \in Mid
  BY DEF Mid, Reads
<1> HIDE DEF r, sign
<1> QED BY <1>1, <1>2, <1>3, <1>4, Starts, StartsNumber

LEMMA ReadDotInductive ==
  ASSUME IInv, ReadDot
  PROVE  IInv'
<1> DEFINE r == nextChar(in)
<1>1. r \in Place(text) /\ Ahead(in, r) /\ Onward(in, r)
  BY InvariantTypes, NextPlace DEF Onward
<1>2. /\ in.cur \notin Whitespace \cup {EOF} /\ in.cur # EOF /\ Look /\ in.cur = "."
      /\ \/ Complete(<<".">>, <<>>, r) /\ errors' = errors
         \/ StartNumber("fraction", r, <<>>)
         \/ Start("identifier", r, <<Code["."]>>)
  BY DEF ReadDot, Whitespace, EOF, NoReport
<1>3. <<>> \in Seq(Nat) /\ <<Code["."]>> \in Seq(Nat) /\ errors \in Nat
  BY <1>2, CodeNat, InvariantTypes
<1>4. "fraction" \in Mid /\ "identifier" \in Mid
  BY DEF Mid, Reads
<1> HIDE DEF r
<1>5. CASE Complete(<<".">>, <<>>, r) /\ errors' = errors
  BY <1>1, <1>2, <1>3, <1>5, Completes
<1>6. CASE StartNumber("fraction", r, <<>>)
  BY <1>1, <1>2, <1>3, <1>4, <1>6, StartsNumber
<1>7. CASE Start("identifier", r, <<Code["."]>>)
  BY <1>1, <1>2, <1>3, <1>4, <1>7, Starts
<1> QED BY <1>2, <1>5, <1>6, <1>7

LEMMA ReadInitialInductive ==
  ASSUME IInv, ReadInitial
  PROVE  IInv'
<1>1. in.cur \notin Whitespace \cup {EOF} /\ in.cur # EOF
  BY DEF ReadInitial, SpecialInitial, isAlpha, Whitespace, EOF
<1>2. Start("identifier", nextChar(in), <<Code[in.cur]>>)
  BY DEF ReadInitial
<1>3. "identifier" \in Mid /\ <<Code[in.cur]>> \in Seq(Nat)
  BY <1>1, CodeNat DEF Mid, Reads
<1>4. nextChar(in) \in Place(text) /\ Ahead(in, nextChar(in))
  BY InvariantTypes, NextPlace
<1> QED BY <1>1, <1>2, <1>3, <1>4, Starts

LEMMA ReadBackslashInductive ==
  ASSUME IInv, ReadBackslash
  PROVE  IInv'
<1>1. in.cur \notin Whitespace \cup {EOF} /\ Start("identifier", in, strBuf)
  BY Zenon DEF ReadBackslash, Whitespace, EOF
<1>2. /\ text' = text /\ in' = in /\ scan' = "identifier" /\ strBuf' = strBuf /\ at' = Here
      /\ num' = num /\ level' = level /\ tokens' = tokens /\ errors' = errors
  BY <1>1 DEF Start
<1>3. AtStart'
  <2>1. at'.line = in'.line /\ at'.column = in'.offset - in'.lineOffset
    BY <1>1, <1>2, LookAhead
  <2> QED BY <1>2, <2>1, Zenon DEF AtStart, ReadBackslash
<1>4. "identifier" \in Reads /\ "identifier" # "done"
  BY DEF Reads
<1>5. Kept
  BY <1>2, <1>4, InvariantTypes DEF Kept, Onward
<1> QED BY <1>1, <1>2, <1>3, <1>5, Begin

LEMMA CannotStartInductive ==
  ASSUME IInv, CannotStart
  PROVE  IInv'
<1>1. /\ Look /\ Report(1) /\ in' = nextChar(in)
      /\ UNCHANGED <<text, scan, at, num, strBuf, level, tokens>>
  BY Zenon DEF CannotStart
<1>2. scan' = "token" /\ errors' \in Nat
  <2>1. scan = "token" /\ errors \in Nat
    BY <1>1, InvariantTypes DEF Look
  <2> QED BY <1>1, <2>1, ReportNat
<1>3. nextChar(in) \in Place(text) /\ Onward(in, nextChar(in))
  BY InvariantTypes, NextPlace DEF Onward
<1> QED BY <1>1, <1>2, <1>3, InvariantTypes, PassesOver

-----------------------------------------------------------------------------
(* Escapes: the digits of numbers in base 8 and 16                         *)
LEMMA DigitsNumber ==
  ASSUME NEW base \in Nat, NEW w \in Seq(Char), \A i \in 1..Len(w) : w[i] \in Hexadecimal
  PROVE  NumberOf(Codes(w), base) \in Nat
<1>1. /\ Codes(w) \in Seq(Nat) /\ Len(Codes(w)) = Len(w)
      /\ \A i \in 1..Len(w) : Codes(w)[i] = Code[w[i]]
  BY CodesType
<1>2. ASSUME NEW i \in 1..Len(Codes(w)) PROVE baseDigitToInt(Codes(w)[i]) \in Nat
  <2> DEFINE cp == Code[w[i]]
  <2>1. cp \in (48..57) \cup (65..70) \cup (97..102) /\ Codes(w)[i] = cp
    BY <1>1, CodeAssumption
  <2> HIDE DEF cp
  <2>2. CASE cp \in 48..57
    <3>1. cp <= 57 /\ ~(cp \in 58..96) /\ ~(cp > 96) /\ cp - 48 \in Nat
      BY <2>2
    <3>2. baseDigitToInt(cp) = cp - 48
      BY <3>1 DEF baseDigitToInt
    <3> QED BY <2>1, <3>1, <3>2
  <2>3. CASE cp \in 65..70
    <3>1. ~(cp <= 57) /\ cp \in 58..96 /\ ~(cp > 96) /\ cp - 55 \in Nat
      BY <2>3
    <3>2. baseDigitToInt(cp) = cp - 55
      BY <3>1 DEF baseDigitToInt
    <3> QED BY <2>1, <3>1, <3>2
  <2>4. CASE cp \in 97..102
    <3>1. ~(cp <= 57) /\ ~(cp \in 58..96) /\ cp > 96 /\ cp - 87 \in Nat
      BY <2>4
    <3>2. baseDigitToInt(cp) = cp - 87
      BY <3>1 DEF baseDigitToInt
    <3> QED BY <2>1, <3>1, <3>2
  <2> QED BY <2>1, <2>2, <2>3, <2>4
<1> QED BY <1>1, <1>2, NumberOfNat

LEMMA HexadecimalRun ==
  ASSUME text \in Seq(Char), NEW r \in Place(text), NEW max \in Nat
  PROVE  LET w == While(r, Hexadecimal, max)
         IN  /\ Met(r, Hexadecimal, max, w) /\ w \in Seq(Char)
             /\ \A i \in 1..Len(w) : w[i] \in Hexadecimal
             /\ NumberOf(Codes(w), 16) \in Nat
             /\ Skip(r, Len(w)) \in Place(text) /\ Onward(r, Skip(r, Len(w)))
<1> DEFINE w == While(r, Hexadecimal, max)
<1>1. Hexadecimal \cap LineEnd = {} /\ EOF \notin Hexadecimal
  BY DEF Hexadecimal, Decimal, Octal, Binary, LineEnd, EOF
<1>2. Met(r, Hexadecimal, max, w)
  BY <1>1, WhileMeets
<1> HIDE DEF w
<1>3. w \in Seq(Char) /\ \A i \in 1..Len(w) : w[i] \in Hexadecimal
  BY <1>2 DEF Met
<1>4. Skip(r, Len(w)) \in Place(text) /\ Onward(r, Skip(r, Len(w)))
  BY <1>1, <1>2, SkipPlace
<1>5. NumberOf(Codes(w), 16) \in Nat
  BY <1>3, DigitsNumber
<1> QED BY <1>2, <1>3, <1>4, <1>5 DEF w

(* What an escape, or a single character, gives                            *)
Escapes(r, e) ==
  e.value \in Nat /\ e.in \in Place(text) /\ Onward(r, e.in) /\ e.errors \in Nat

LEMMA ScanUnicodeEscape ==
  ASSUME text \in Seq(Char), NEW r \in Place(text), NEW len \in Nat
  PROVE  Escapes(r, scanUnicodeEscape(r, len))
<1> DEFINE w == While(r, Hexadecimal, len)
           number == NumberOf(Codes(w), 16)
           valid == /\ Len(Codes(w)) = len
                    /\ \A i \in 1..(len - 6) : Codes(w)[i] = Code["0"]
                    /\ isValidCodePoint(number)
           e == [value |-> IF valid THEN number ELSE Space,
                 in |-> Skip(r, Len(Codes(w))), errors |-> If(~valid)]
<1>1. scanUnicodeEscape(r, len) = e
  BY DEF scanUnicodeEscape
<1>2. /\ w \in Seq(Char) /\ number \in Nat
      /\ Skip(r, Len(w)) \in Place(text) /\ Onward(r, Skip(r, Len(w)))
  BY HexadecimalRun
<1>3. Len(Codes(w)) = Len(w)
  BY <1>2, CodesType
<1>4. If(~valid) \in Nat /\ Space \in Nat
  BY DEF If, Space
<1>5. /\ e.value = (IF valid THEN number ELSE Space)
      /\ e.in = Skip(r, Len(w)) /\ e.errors = If(~valid)
  BY <1>3
<1> HIDE DEF e, valid, number, w
<1> QED BY <1>1, <1>2, <1>4, <1>5 DEF Escapes

LEMMA UnitNat ==
  ASSUME NEW cp \in Nat
  PROVE  Unit(cp) \in Nat
  BY DEF Unit

-----------------------------------------------------------------------------
(* scanRemainingIdentifier                                                 *)
LEMMA GoesOn ==
  ASSUME IInv, scan \in Mid, NEW r \in Place(text), Ahead(in, r) \/ (Onward(in, r) /\ ~AtStart),
         in' = r, text' = text, at' = at, tokens' = tokens,
         scan' \in Mid, num' \in Flags, strBuf' \in Seq(Nat), level' \in Nat, errors' \in Nat
  PROVE  IInv'
<1>1. scan' \in Reads /\ scan' # "done"
  BY DEF Mid, Reads
<1>2. Kept
  BY <1>1 DEF Kept, Onward
<1>3. Ahead(in, in') \/ ~AtStart
  OBVIOUS
<1> QED BY <1>2, <1>3, GoOn

LEMMA Finishes ==
  ASSUME IInv, scan \in Mid, NEW r \in Place(text), Ahead(in, r) \/ (Onward(in, r) /\ ~AtStart),
         in' = r, text' = text, scan' = "token", num' = num, level' = level,
         strBuf' \in Seq(Nat), errors' \in Nat,
         NEW kind, NEW value, Deliver(kind, value, at)
  PROVE  IInv'
<1>1. scan' \in Reads /\ scan' # "done" /\ scan' \notin Mid
  BY DEF Mid, Reads
<1>2. Kept
  BY <1>1, InvariantTypes DEF Kept, Onward
<1>3. Ahead(in, in') \/ ~AtStart
  OBVIOUS
<1> QED BY <1>1, <1>2, <1>3, Finish

LEMMA IdentifierCharInductive ==
  ASSUME IInv, IdentifierChar
  PROVE  IInv'
<1>1. /\ in.cur # EOF /\ scan = "identifier"
      /\ strBuf' = Append(strBuf, Code[in.cur]) /\ in' = nextChar(in)
      /\ UNCHANGED <<text, scan, at, num, level, tokens, errors>>
  BY DEF IdentifierChar, Remaining, Subsequent, isAlpha, Decimal, Octal, Binary, SpecialInitial, EOF
<1>2. Code[in.cur] \in Nat
  BY <1>1, InvariantTypes, PlaceProperties, CodeAssumption
<1>3. strBuf' \in Seq(Nat)
  BY <1>1, <1>2, InvariantTypes, AppendProperties
<1>4. nextChar(in) \in Place(text) /\ Ahead(in, nextChar(in))
  BY InvariantTypes, NextPlace
<1>5. scan \in Mid
  BY <1>1 DEF Mid, Reads
<1> QED BY <1>1, <1>3, <1>4, <1>5, InvariantTypes, GoesOn

LEMMA IdentifierStarInductive ==
  ASSUME IInv, IdentifierStar
  PROVE  IInv'
<1> DEFINE r == nextChar(in)
<1>1. /\ r \in Place(text) /\ Ahead(in, r)
      /\ nextChar(r) \in Place(text) /\ Ahead(in, nextChar(r))
  BY InvariantTypes, NextPlace
<1>2. scan = "identifier" /\ scan \in Mid /\ in.cur # EOF /\ in.cur = "*"
  BY DEF IdentifierStar, Remaining, Mid, Reads, EOF
<1>3. CASE EndComment(nextChar(r)) /\ at' = at /\ strBuf' = strBuf
  <2>1. /\ in' = nextChar(r) /\ text' = text /\ num' = num /\ tokens' = tokens
        /\ level' \in Nat /\ errors' \in Nat
        /\ scan' = "token" \/ scan' = scan
    BY <1>3, EndCommentTypes
  <2> HIDE DEF r
  <2>2. CASE scan' = "token"
    BY <1>1, <1>3, <2>1, <2>2, InvariantTypes, PassesOver DEF Onward
  <2>3. CASE scan' = scan
    BY <1>1, <1>2, <1>3, <2>1, <2>3, InvariantTypes, GoesOn
  <2> QED BY <2>1, <2>2, <2>3
<1>4. CASE /\ strBuf' = Append(strBuf, Code["*"]) /\ in' = r
           /\ UNCHANGED <<text, scan, at, num, level, tokens, errors>>
  <2>1. Code["*"] \in Nat
    BY <1>2, InvariantTypes, PlaceProperties, CodeAssumption
  <2>2. strBuf' \in Seq(Nat)
    BY <1>4, <2>1, InvariantTypes, AppendProperties
  <2> HIDE DEF r
  <2> QED BY <1>1, <1>2, <1>4, <2>2, InvariantTypes, GoesOn
<1> QED BY <1>3, <1>4 DEF IdentifierStar

LEMMA IdentifierEscapeInductive ==
  ASSUME IInv, IdentifierEscape
  PROVE  IInv'
<1> DEFINE r == nextChar(in)
           len == IF r.cur = "u" THEN 4 ELSE 8
           escape == scanUnicodeEscape(nextChar(r), len)
<1>1. /\ scan = "identifier" /\ UNCHANGED <<text, scan, at, num, level, tokens>>
      /\ \/ /\ strBuf' = Append(strBuf, Unit(escape.value)) /\ in' = escape.in
            /\ Report(escape.errors)
         \/ in' = r /\ Report(1) /\ strBuf' = strBuf
  BY Zenon DEF IdentifierEscape, Remaining
<1>2. /\ text \in Seq(Char) /\ in \in Place(text)
      /\ r \in Place(text) /\ Ahead(in, r)
      /\ nextChar(r) \in Place(text) /\ Ahead(in, nextChar(r))
  BY InvariantTypes, NextPlace
<1>3. Escapes(nextChar(r), escape)
  <2>1. len \in Nat
    OBVIOUS
  <2> HIDE DEF len, r
  <2> QED BY <1>2, <2>1, ScanUnicodeEscape
<1>4. scan \in Mid /\ scan' \in Mid /\ errors \in Nat
  BY <1>1, InvariantTypes DEF Mid, Reads
<1> HIDE DEF escape, len, r
<1>5. CASE /\ strBuf' = Append(strBuf, Unit(escape.value)) /\ in' = escape.in
           /\ Report(escape.errors)
  <2>1. Unit(escape.value) \in Nat /\ errors' \in Nat /\ escape.in \in Place(text)
        /\ Onward(nextChar(r), escape.in)
    BY <1>3, <1>4, <1>5, UnitNat, ReportNat DEF Escapes
  <2>2. strBuf' \in Seq(Nat)
    BY <1>5, <2>1, InvariantTypes, AppendProperties
  <2>3. Ahead(in, escape.in)
    BY <1>2, <2>1, OnwardOnward DEF Onward
  <2> QED BY <1>1, <1>4, <1>5, <2>1, <2>2, <2>3, InvariantTypes, GoesOn
<1>6. CASE in' = r /\ Report(1) /\ strBuf' = strBuf
  <2>1. errors' \in Nat
    BY <1>4, <1>6, ReportNat
  <2> QED BY <1>1, <1>2, <1>4, <1>6, <2>1, InvariantTypes, GoesOn
<1> QED BY <1>1, <1>5, <1>6

LEMMA IdentifierEndsInductive ==
  ASSUME IInv, IdentifierEnds
  PROVE  IInv'
<1> DEFINE value == CString(strBuf)
           report == If(in.cur \notin Delimiter)
<1>1. /\ scan = "identifier" /\ scan' = "token" /\ Report(report) /\ strBuf' = <<>>
      /\ Deliver(<<"symbol">>, value, at)
      /\ in' = in /\ text' = text /\ num' = num /\ level' = level
  BY Zenon DEF IdentifierEnds, Remaining
<1>2. ~AtStart
  BY Zenon DEF IdentifierEnds, Remaining, AtStart
<1> HIDE DEF value
<1>3. scan \in Mid /\ strBuf' \in Seq(Nat)
  BY <1>1 DEF Mid, Reads
<1>4. errors' \in Nat
  BY <1>1, InvariantTypes, IfNat, ReportNat
<1> QED BY <1>1, <1>2, <1>3, <1>4, InvariantTypes, Finishes DEF Onward

-----------------------------------------------------------------------------
(* scanNumber                                                              *)
LEMMA WithFlags ==
  ASSUME NEW n \in Number(text), NEW v \in Flags
  PROVE  [n EXCEPT !.v = v] \in Number(text) /\ [n EXCEPT !.v = v].r = n.r
  BY DEF Number

LEMMA SetFlags ==
  ASSUME NEW n \in Number(text)
  PROVE  /\ [n EXCEPT !.v.base = 2] \in Number(text) /\ [n EXCEPT !.v.base = 2].r = n.r
         /\ [n EXCEPT !.v.base = 16] \in Number(text) /\ [n EXCEPT !.v.base = 16].r = n.r
         /\ [n EXCEPT !.v.nnum = TRUE] \in Number(text) /\ [n EXCEPT !.v.nnum = TRUE].r = n.r
         /\ [n EXCEPT !.v.real = TRUE] \in Number(text) /\ [n EXCEPT !.v.real = TRUE].r = n.r
         /\ [n EXCEPT !.v.real = TRUE, !.v.expo = TRUE] \in Number(text)
         /\ [n EXCEPT !.v.real = TRUE, !.v.expo = TRUE].r = n.r
<1>1. n.v \in Flags
  BY DEF Number
<1> DEFINE v1 == [n.v EXCEPT !.base = 2]
           v2 == [n.v EXCEPT !.base = 16]
           v3 == [n.v EXCEPT !.nnum = TRUE]
           v4 == [n.v EXCEPT !.real = TRUE]
           v5 == [n.v EXCEPT !.real = TRUE, !.expo = TRUE]
<1>2. v1 \in Flags /\ v2 \in Flags /\ v3 \in Flags /\ v4 \in Flags /\ v5 \in Flags
  BY <1>1 DEF Flags
<1>3. /\ [n EXCEPT !.v.base = 2] = [n EXCEPT !.v = v1]
      /\ [n EXCEPT !.v.base = 16] = [n EXCEPT !.v = v2]
      /\ [n EXCEPT !.v.nnum = TRUE] = [n EXCEPT !.v = v3]
      /\ [n EXCEPT !.v.real = TRUE] = [n EXCEPT !.v = v4]
  OBVIOUS
<1>4. [n EXCEPT !.v.real = TRUE, !.v.expo = TRUE] = [n EXCEPT !.v = v5]
  BY DEF Number, Flags
<1> HIDE DEF v1, v2, v3, v4, v5
<1> QED BY <1>2, <1>3, <1>4, WithFlags

LEMMA AdvanceOne ==
  ASSUME text \in Seq(Char), NEW n \in Number(text)
  PROVE  Advance(n, 1) \in Number(text) /\ Ahead(n.r, Advance(n, 1).r)
<1>1. n.r \in Place(text) /\ n.r \in Spot(text)
  BY DEF Number, Place
<1>2. Skip(n.r, 1) \in Place(text) /\ Ahead(n.r, Skip(n.r, 1))
  BY <1>1, SkipOne
<1> QED BY <1>2, AdvanceNumber

LEMMA NumberPlace ==
  ASSUME NEW n \in Number(text)
  PROVE  n.r \in Place(text)
  BY DEF Number

LEMMA ReachedNumber ==
  ASSUME IInv
  PROVE  Reached \in Number(text) /\ Reached.r = in
  BY InvariantTypes DEF Reached, Number

LEMMA Stages ==
  ASSUME IInv, scan \in Mid, NEW next \in Mid, NEW n \in Number(text),
         Ahead(in, n.r) \/ (Onward(in, n.r) /\ ~AtStart),
         Stage(next, n)
  PROVE  IInv'
<1>1. /\ in' = n.r /\ strBuf' = n.buf /\ num' = n.v /\ scan' = next
      /\ UNCHANGED <<text, at, level, tokens, errors>>
  BY DEF Stage
<1>2. n.r \in Place(text) /\ strBuf' \in Seq(Nat) /\ num' \in Flags
  BY <1>1 DEF Number
<1> QED BY <1>1, <1>2, InvariantTypes, GoesOn

LEMMA PrefixedNumber ==
  ASSUME IInv
  PROVE  Prefixed \in Number(text) /\ Ahead(in, Prefixed.r)
<1> DEFINE m == Advance(Reached, 1)
           c == m.r.cur
           sixteen == [Keep(Advance(m, 1), <<"0", "x">>) EXCEPT !.v.base = 16]
           two == [Advance(m, 1) EXCEPT !.v.base = 2]
           ten == [Fail(Keep(m, <<"0">>), c \in Octal) EXCEPT !.v.nnum = TRUE]
<1>1. text \in Seq(Char) /\ in \in Place(text) /\ Reached \in Number(text) /\ Reached.r = in
  BY InvariantTypes, ReachedNumber
<1>2. m \in Number(text) /\ Ahead(in, m.r)
  BY <1>1, AdvanceOne
<1>3. <<"0", "x">> \in Seq(Char) /\ <<"0">> \in Seq(Char)
  <2>1. "0" \in Char /\ "x" \in Char
    BY CodeAssumption DEF Hexadecimal, Decimal, Octal, Binary
  <2> QED BY <2>1
<1>4. \/ Prefixed = scanUInt(sixteen, 16)
      \/ Prefixed = scanUInt(two, 2)
      \/ Prefixed = scanUInt(ten, 10)
  BY DEF Prefixed
<1> HIDE DEF m
<1>5. Advance(m, 1) \in Number(text) /\ Ahead(m.r, Advance(m, 1).r)
  BY <1>1, <1>2, AdvanceOne
<1>6. /\ sixteen \in Number(text) /\ sixteen.r = Advance(m, 1).r
      /\ two \in Number(text) /\ two.r = Advance(m, 1).r
  BY <1>3, <1>5, KeepNumber, SetFlags
<1>7. ten \in Number(text) /\ ten.r = m.r
  <2>1. Keep(m, <<"0">>) \in Number(text) /\ Keep(m, <<"0">>).r = m.r
    BY <1>2, <1>3, KeepNumber
  <2> DEFINE bad == c \in Octal
  <2>2. bad \in BOOLEAN
    OBVIOUS
  <2> HIDE DEF bad
  <2>3. Fail(Keep(m, <<"0">>), bad) \in Number(text) /\ Fail(Keep(m, <<"0">>), bad).r = m.r
    BY <2>1, <2>2, FailNumber
  <2>4. ten = [Fail(Keep(m, <<"0">>), bad) EXCEPT !.v.nnum = TRUE]
    BY DEF bad
  <2> QED BY <2>3, <2>4, SetFlags
<1> HIDE DEF sixteen, two, ten
<1>8. /\ m.r \in Place(text) /\ Advance(m, 1).r \in Place(text)
  BY <1>2, <1>5, NumberPlace
<1>9. Ahead(in, sixteen.r) /\ Ahead(in, two.r) /\ Ahead(in, ten.r)
  BY <1>1, <1>2, <1>5, <1>6, <1>7, <1>8, OnwardOnward DEF Onward
<1>10. ASSUME NEW n \in Number(text), Ahead(in, n.r), NEW base \in {2, 10, 16}
       PROVE  scanUInt(n, base) \in Number(text) /\ Ahead(in, scanUInt(n, base).r)
  <2>1. scanUInt(n, base) \in Number(text) /\ Onward(n.r, scanUInt(n, base).r)
    BY <1>1, ScanUIntNumber
  <2>2. n.r \in Place(text) /\ scanUInt(n, base).r \in Place(text)
    BY <2>1, NumberPlace
  <2> QED BY <1>1, <1>10, <2>1, <2>2, OnwardOnward DEF Onward
<1>11. /\ scanUInt(sixteen, 16) \in Number(text) /\ Ahead(in, scanUInt(sixteen, 16).r)
       /\ scanUInt(two, 2) \in Number(text) /\ Ahead(in, scanUInt(two, 2).r)
       /\ scanUInt(ten, 10) \in Number(text) /\ Ahead(in, scanUInt(ten, 10).r)
  BY <1>6, <1>7, <1>9, <1>10
<1> QED BY <1>4, <1>11

LEMMA NumberIntegerInductive ==
  ASSUME IInv, NumberInteger
  PROVE  IInv'
<1>1. /\ scan = "integer"
      /\ \/ Stage("point", Prefixed)
         \/ Stage("point", scanUInt(Reached, 10))
  BY DEF NumberInteger
<1>2. scan \in Mid /\ "point" \in Mid
  BY <1>1 DEF Mid, Reads
<1>3. in.cur \notin Decimal => ~AtStart
  BY <1>1, Zenon DEF AtStart
<1>4. CASE Stage("point", Prefixed)
  BY <1>2, <1>4, PrefixedNumber, Stages
<1>5. CASE Stage("point", scanUInt(Reached, 10))
  <2> DEFINE n == scanUInt(Reached, 10)
  <2>1. n \in Number(text) /\ Onward(in, n.r) /\ (in.cur \in Digits(10) => Ahead(in, n.r))
    BY InvariantTypes, ReachedNumber, ScanUIntNumber
  <2>2. Digits(10) = Decimal
    BY DEF Digits
  <2> HIDE DEF n
  <2>3. Stage("point", n)
    BY <1>5 DEF n
  <2> QED BY <1>2, <1>3, <2>1, <2>2, <2>3, Stages
<1> QED BY <1>1, <1>4, <1>5

LEMMA BehindStart ==
  ASSUME scan \in {"point", "fraction", "exponent", "number end", "string", "string continued",
                   "character", "character continued"}
  PROVE  scan \in Mid /\ ~AtStart
<1>1. scan \in Mid
  BY DEF Mid, Reads
<1>2. scan # "identifier" /\ scan # "integer"
  OBVIOUS
<1>3. ~AtStart
  BY <1>2, Zenon DEF AtStart
<1> QED BY <1>1, <1>3

LEMMA NumberPointInductive ==
  ASSUME IInv, NumberPoint
  PROVE  IInv'
<1>1. /\ scan = "point"
      /\ \/ Stage("fraction", Advance(Reached, 1))
         \/ Stage("exponent", Fail(Reached, ~num.nnum))
  BY DEF NumberPoint
<1>2. scan \in Mid /\ ~AtStart /\ "fraction" \in Mid /\ "exponent" \in Mid
  BY <1>1, BehindStart DEF Mid, Reads
<1>3. Advance(Reached, 1) \in Number(text) /\ Ahead(in, Advance(Reached, 1).r)
  BY InvariantTypes, ReachedNumber, AdvanceOne
<1>4. Fail(Reached, ~num.nnum) \in Number(text) /\ Fail(Reached, ~num.nnum).r = in
  BY ReachedNumber, FailNumber
<1> QED BY <1>1, <1>2, <1>3, <1>4, Stages DEF Onward

LEMMA NumberFractionInductive ==
  ASSUME IInv, NumberFraction
  PROVE  IInv'
<1> DEFINE k == Keep(Reached, <<".">>)
           n == scanUInt(k, num.base)
           f == Fail(n, num.base = 2 \/ ~n.v.nnum)
           u == [f EXCEPT !.v.real = TRUE]
<1>1. scan = "fraction" /\ Stage("exponent", u)
  BY DEF NumberFraction
<1>2. scan \in Mid /\ ~AtStart /\ "exponent" \in Mid
  BY <1>1, BehindStart DEF Mid, Reads
<1>3. k \in Number(text) /\ k.r = in
  <2>1. "." \in Char
    BY CodeAssumption
  <2>2. <<".">> \in Seq(Char)
    BY <2>1
  <2> QED BY <2>2, ReachedNumber, KeepNumber
<1> HIDE DEF k
<1>4. n \in Number(text) /\ Onward(in, n.r)
  <2>1. num.base \in {2, 10, 16} /\ text \in Seq(Char)
    BY InvariantTypes DEF Flags
  <2> QED BY <1>3, <2>1, ScanUIntNumber
<1> HIDE DEF n
<1>5. f \in Number(text) /\ f.r = n.r
  BY <1>4, FailNumber
<1> HIDE DEF f
<1>6. u \in Number(text) /\ u.r = f.r
  BY <1>5, SetFlags
<1> HIDE DEF u
<1> QED BY <1>1, <1>2, <1>4, <1>5, <1>6, Stages

LEMMA NumberExponentInductive ==
  ASSUME IInv, NumberExponent
  PROVE  IInv'
<1> DEFINE letter == IF in.cur \in {"e", "E"} THEN "e" ELSE "p"
           base == IF letter = "e" THEN 10 ELSE 16
           f == Fail(Reached, num.base # base)
           k == Keep(f, <<letter>>)
           m == Advance(k, 1)
           signed == CASE m.r.cur = "+" -> Advance(m, 1)
                       [] m.r.cur = "-" -> Advance(Keep(m, <<"-">>), 1)
                       [] OTHER -> m
           n == scanUInt(signed, 10)
           u == [n EXCEPT !.v.real = TRUE, !.v.expo = TRUE]
<1>1. /\ scan = "exponent"
      /\ Stage("number end", u) \/ Stage("number end", Reached)
  BY DEF NumberExponent
<1>2. /\ scan \in Mid /\ ~AtStart /\ "number end" \in Mid
      /\ text \in Seq(Char) /\ in \in Place(text)
  BY <1>1, BehindStart, InvariantTypes DEF Mid, Reads
<1>3. <<letter>> \in Seq(Char) /\ <<"-">> \in Seq(Char)
  <2>1. "e" \in Char /\ "p" \in Char /\ "-" \in Char
    BY CodeAssumption DEF Hexadecimal
  <2> QED BY <2>1
<1> HIDE DEF letter
<1>4. f \in Number(text) /\ f.r = in
  BY ReachedNumber, FailNumber
<1> HIDE DEF f
<1>5. k \in Number(text) /\ k.r = in
  BY <1>3, <1>4, KeepNumber
<1> HIDE DEF k
<1>6. m \in Number(text) /\ Ahead(in, m.r)
  BY <1>2, <1>5, AdvanceOne
<1> HIDE DEF m
<1>7. signed \in Number(text) /\ Onward(m.r, signed.r)
  <2>1. Advance(m, 1) \in Number(text) /\ Ahead(m.r, Advance(m, 1).r)
    BY <1>2, <1>6, AdvanceOne
  <2>2. Keep(m, <<"-">>) \in Number(text) /\ Keep(m, <<"-">>).r = m.r
    BY <1>3, <1>6, KeepNumber
  <2>3. /\ Advance(Keep(m, <<"-">>), 1) \in Number(text)
        /\ Ahead(m.r, Advance(Keep(m, <<"-">>), 1).r)
    BY <1>2, <2>2, AdvanceOne
  <2>4. \/ signed = Advance(m, 1) \/ signed = Advance(Keep(m, <<"-">>), 1) \/ signed = m
    OBVIOUS
  <2> HIDE DEF signed
  <2> QED BY <1>6, <2>1, <2>3, <2>4 DEF Onward
<1> HIDE DEF signed
<1>8. n \in Number(text) /\ Onward(signed.r, n.r)
  BY <1>2, <1>7, ScanUIntNumber
<1> HIDE DEF n
<1>9. u \in Number(text) /\ u.r = n.r
  BY <1>8, SetFlags
<1> HIDE DEF u
<1>10. m.r \in Place(text) /\ signed.r \in Place(text) /\ n.r \in Place(text)
  BY <1>6, <1>7, <1>8, NumberPlace
<1>11. Ahead(in, signed.r)
  BY <1>2, <1>6, <1>7, <1>10, OnwardOnward DEF Onward
<1>12. Ahead(in, u.r)
  <2>1. Onward(in, signed.r)
    BY <1>11 DEF Onward
  <2>2. Ahead(in, n.r)
    BY <1>2, <1>8, <1>10, <1>11, <2>1, OnwardOnward
  <2> QED BY <1>9, <2>2
<1> QED BY <1>1, <1>2, <1>9, <1>12, ReachedNumber, Stages DEF Onward

LEMMA NumberEndsInductive ==
  ASSUME IInv, NumberEnds
  PROVE  IInv'
<1> DEFINE real == IF Bad THEN <<>> ELSE strBuf
           integer == <<IF Bad THEN 0 ELSE Value>>
           report == If(Bad)
<1>1. /\ scan = "number end" /\ scan' = "token" /\ Report(report)
      /\ Deliver(<<"real">>, real, at) \/ Deliver(<<"integer">>, integer, at)
      /\ strBuf' = Append(strBuf, 0)
      /\ in' = in /\ text' = text /\ num' = num /\ level' = level
  BY Zenon DEF NumberEnds
<1>2. scan \in Mid /\ ~AtStart
  BY <1>1, BehindStart
<1>3. strBuf' \in Seq(Nat)
  BY <1>1, InvariantTypes, AppendProperties
<1>4. report \in Nat
  BY IfNat
<1> HIDE DEF real, integer, report
<1>5. errors' \in Nat
  BY <1>1, <1>4, InvariantTypes, ReportNat
<1> QED BY <1>1, <1>2, <1>3, <1>5, InvariantTypes, Finishes DEF Onward

-----------------------------------------------------------------------------
(* scanSingleCharacter                                                     *)
Kinds == {"byte", "code point", "none", "end", "again"}
Gives(r, c) == Escapes(r, c) /\ c.what \in Kinds

LEMMA GotGives ==
  ASSUME NEW r, NEW what \in Kinds, NEW value \in Nat,
         NEW s \in Place(text), Onward(r, s), NEW n \in Nat
  PROVE  Gives(r, Got(what, value, s, n))
  BY DEF Got, Gives, Escapes

LEMMA KindsOfCharacters ==
  /\ "byte" \in Kinds /\ "code point" \in Kinds /\ "none" \in Kinds
  /\ "end" \in Kinds /\ "again" \in Kinds
  BY DEF Kinds

LEMMA GivesOnward ==
  ASSUME text \in Seq(Char), NEW r \in Place(text), NEW s \in Place(text), Onward(r, s),
         NEW c, Gives(s, c)
  PROVE  Gives(r, c)
  BY OnwardOnward DEF Gives, Escapes

LEMMA ScanOctalEscape ==
  ASSUME text \in Seq(Char), NEW r \in Place(text)
  PROVE  Gives(r, scanOctalEscape(r))
<1> DEFINE w == While(r, Octal, 3)
           number == NumberOf(Codes(w), 8)
<1>1. Octal \cap LineEnd = {} /\ EOF \notin Octal /\ Octal \subseteq Hexadecimal
  BY DEF Hexadecimal, Decimal, Octal, Binary, LineEnd, EOF
<1>2. Met(r, Octal, 3, w)
  BY <1>1, WhileMeets
<1>3. scanOctalEscape(r) = Got("byte", number % 256, Skip(r, Len(w)), 0)
  BY DEF scanOctalEscape
<1> HIDE DEF w
<1>4. w \in Seq(Char) /\ \A i \in 1..Len(w) : w[i] \in Hexadecimal
  BY <1>1, <1>2 DEF Met
<1>5. Skip(r, Len(w)) \in Place(text) /\ Onward(r, Skip(r, Len(w)))
  BY <1>1, <1>2, SkipPlace
<1>6. number \in Nat
  BY <1>4, DigitsNumber
<1> HIDE DEF number
<1> DEFINE value == number % 256
<1>7. value \in Nat
  BY <1>6
<1>8. scanOctalEscape(r) = Got("byte", value, Skip(r, Len(w)), 0)
  BY <1>3
<1> HIDE DEF value
<1> QED BY <1>5, <1>7, <1>8, GotGives, KindsOfCharacters

LEMMA ScanHexEscape ==
  ASSUME text \in Seq(Char), NEW r \in Place(text)
  PROVE  Gives(r, scanHexEscape(r))
<1> DEFINE w == While(r, Hexadecimal, 2)
           bad == Len(w) < 2
           value == IF bad THEN Space ELSE NumberOf(Codes(w), 16)
           n == If(bad)
<1>1. scanHexEscape(r) = Got("byte", value, Skip(r, Len(w)), n)
  BY DEF scanHexEscape
<1>2. /\ NumberOf(Codes(w), 16) \in Nat
      /\ Skip(r, Len(w)) \in Place(text) /\ Onward(r, Skip(r, Len(w)))
  BY HexadecimalRun
<1>3. value \in Nat /\ n \in Nat
  BY <1>2, IfNat DEF Space
<1> HIDE DEF w, value, n
<1> QED BY <1>1, <1>2, <1>3, GotGives, KindsOfCharacters

LEMMA UnicodeEscapes ==
  ASSUME text \in Seq(Char), NEW r \in Place(text), NEW len \in Nat
  PROVE  Gives(r, Unicode(scanUnicodeEscape(r, len)))
<1> DEFINE e == scanUnicodeEscape(r, len)
<1>1. Escapes(r, e)
  BY ScanUnicodeEscape
<1> HIDE DEF e
<1>2. Gives(r, Unicode(e))
  BY <1>1, GotGives, KindsOfCharacters DEF Unicode, Escapes
<1> QED BY <1>2 DEF e

LEMMA LineEscapes ==
  ASSUME text \in Seq(Char), NEW r \in Place(text)
  PROVE  Gives(r, LineEscape(r))
<1> DEFINE S == Whitespace \ {"LF"}
           w == While(r, S, Len(text))
           end == Skip(r, Len(w))
<1>1. S \cap LineEnd = {} /\ EOF \notin S /\ Len(text) \in Nat
  BY LenProperties DEF Whitespace, LineEnd, EOF
<1>2. Met(r, S, Len(text), w)
  BY <1>1, WhileMeets
<1>3. \/ LineEscape(r) = Got("again", 0, nextChar(end), 0)
      \/ LineEscape(r) = Got("end", 0, end, 1)
      \/ LineEscape(r) = Got("none", 0, nextChar(end), 1)
  BY DEF LineEscape
<1> HIDE DEF w
<1>4. end \in Place(text) /\ Onward(r, end)
  BY <1>1, <1>2, SkipPlace
<1> HIDE DEF end
<1>5. nextChar(end) \in Place(text) /\ Onward(end, nextChar(end))
  BY <1>4, NextPlace DEF Onward
<1>6. Onward(r, nextChar(end))
  BY <1>4, <1>5, OnwardOnward
<1> QED BY <1>3, <1>4, <1>5, <1>6, GotGives, KindsOfCharacters

LEMMA EscapeEscapes ==
  ASSUME text \in Seq(Char), NEW r \in Place(text)
  PROVE  Gives(r, Escape(r))
<1> DEFINE s == nextChar(r)
<1>1. s \in Place(text) /\ Onward(r, s)
  BY NextPlace DEF Onward
<1>2. \/ Escape(r) = Got("end", 0, r, 1)
      \/ r.cur # EOF /\ Escape(r) = Got("byte", SimpleValue(r.cur), s, 0)
      \/ Escape(r) = scanOctalEscape(r)
      \/ Escape(r) = scanHexEscape(s)
      \/ Escape(r) = Unicode(scanUnicodeEscape(s, 4))
      \/ Escape(r) = Unicode(scanUnicodeEscape(s, 8))
      \/ Escape(r) = LineEscape(r)
  <2>1. CASE r.cur = EOF
    BY <2>1, Zenon DEF Escape, EOF, Simple, Octal, Binary
  <2>2. CASE r.cur \in Simple
    BY <2>2, Zenon DEF Escape, EOF, Simple, Octal, Binary
  <2>3. CASE r.cur \in Octal
    BY <2>3, Zenon DEF Escape, EOF, Simple, Octal, Binary
  <2>4. CASE r.cur = "x"
    BY <2>4, Zenon DEF Escape, EOF, Simple, Octal, Binary
  <2>5. CASE r.cur = "u"
    BY <2>5, Zenon DEF Escape, EOF, Simple, Octal, Binary
  <2>6. CASE r.cur = "U"
    BY <2>6, Zenon DEF Escape, EOF, Simple, Octal, Binary
  <2>7. CASE /\ r.cur # EOF /\ r.cur \notin Simple /\ r.cur \notin Octal
             /\ r.cur # "x" /\ r.cur # "u" /\ r.cur # "U"
    BY <2>7, Zenon DEF Escape
  <2> QED BY <2>1, <2>2, <2>3, <2>4, <2>5, <2>6, <2>7, Zenon
<1> HIDE DEF s
<1>3. CASE r.cur # EOF /\ Escape(r) = Got("byte", SimpleValue(r.cur), s, 0)
  <2>1. r.cur \in Char
    BY <1>3, PlaceProperties
  <2>2. Code[r.cur] \in Nat
    BY <2>1, CodeAssumption
  <2>3. SimpleValue(r.cur) \in Nat
    BY <2>2 DEF SimpleValue
  <2> QED BY <1>1, <1>3, <2>3, GotGives, KindsOfCharacters
<1>4. Gives(s, scanHexEscape(s))
  BY <1>1, ScanHexEscape
<1>5. Gives(s, Unicode(scanUnicodeEscape(s, 4))) /\ Gives(s, Unicode(scanUnicodeEscape(s, 8)))
  BY <1>1, UnicodeEscapes
<1>6. Gives(r, Got("end", 0, r, 1))
  BY GotGives, KindsOfCharacters DEF Onward
<1>7. CASE Escape(r) = scanHexEscape(s)
  BY <1>1, <1>4, <1>7, GivesOnward
<1>8. CASE \/ Escape(r) = Unicode(scanUnicodeEscape(s, 4))
           \/ Escape(r) = Unicode(scanUnicodeEscape(s, 8))
  BY <1>1, <1>5, <1>8, GivesOnward
<1> QED BY <1>2, <1>3, <1>6, <1>7, <1>8, ScanOctalEscape, LineEscapes

LEMMA ScanSingleCharacter ==
  ASSUME text \in Seq(Char), NEW r \in Place(text)
  PROVE  Gives(r, scanSingleCharacter(r))
<1> DEFINE s == nextChar(r)
<1>1. s \in Place(text) /\ Onward(r, s)
  BY NextPlace DEF Onward
<1>2. \/ scanSingleCharacter(r) = Got("end", 0, r, 1)
      \/ scanSingleCharacter(r) = Escape(s)
      \/ r.cur # EOF /\ scanSingleCharacter(r) = Got("code point", Code[r.cur], s, 0)
  <2>1. CASE r.cur \in {EOF, "LF"}
    BY <2>1, Zenon DEF scanSingleCharacter, EOF
  <2>2. CASE r.cur = "\\"
    BY <2>2, Zenon DEF scanSingleCharacter, EOF
  <2>3. CASE r.cur \notin {EOF, "LF"} /\ r.cur # "\\"
    BY <2>3, Zenon DEF scanSingleCharacter
  <2> QED BY <2>1, <2>2, <2>3, Zenon
<1> HIDE DEF s
<1>3. CASE scanSingleCharacter(r) = Got("end", 0, r, 1)
  BY <1>3, GotGives, KindsOfCharacters DEF Onward
<1>4. CASE scanSingleCharacter(r) = Escape(s)
  BY <1>1, <1>4, EscapeEscapes, GivesOnward
<1>5. CASE r.cur # EOF /\ scanSingleCharacter(r) = Got("code point", Code[r.cur], s, 0)
  <2>1. r.cur \in Char
    BY <1>5, PlaceProperties
  <2>2. Code[r.cur] \in Nat
    BY <2>1, CodeAssumption
  <2> QED BY <1>1, <1>5, <2>2, GotGives, KindsOfCharacters
<1> QED BY <1>2, <1>3, <1>4, <1>5

-----------------------------------------------------------------------------
(* scanString and scanCharacterConstant                                    *)
LEMMA FinishesString ==
  ASSUME IInv, scan \in Mid, ~AtStart, NEW r \in Place(text), Onward(in, r), NEW n \in Nat,
         FinishString(r, n)
  PROVE  IInv'
<1> DEFINE report == n + If(r.cur \notin Delimiter)
           value == CString(strBuf)
<1>1. /\ Deliver(<<"string">>, value, at) /\ Report(report)
      /\ scan' = "token" /\ in' = r /\ strBuf' = <<>>
      /\ text' = text /\ at' = at /\ num' = num /\ level' = level
  BY DEF FinishString
<1>2. report \in Nat
  BY IfNat
<1> HIDE DEF report, value
<1>3. errors' \in Nat /\ strBuf' \in Seq(Nat)
  BY <1>1, <1>2, InvariantTypes, ReportNat
<1> QED BY <1>1, <1>3, Finishes

LEMMA FinishesCharacter ==
  ASSUME IInv, scan \in Mid, ~AtStart, NEW r \in Place(text), Onward(in, r), NEW n \in Nat,
         NEW value, FinishCharacter(value, r, n)
  PROVE  IInv'
<1>1. /\ Deliver(<<"integer">>, <<value>>, at) /\ Report(n)
      /\ scan' = "token" /\ in' = r /\ strBuf' = strBuf
      /\ text' = text /\ at' = at /\ num' = num /\ level' = level
  BY DEF FinishCharacter
<1>2. errors' \in Nat /\ strBuf' \in Seq(Nat)
  BY <1>1, InvariantTypes, ReportNat
<1> QED BY <1>1, <1>2, Finishes

LEMMA StringEndsInductive ==
  ASSUME IInv, StringEnds
  PROVE  IInv'
<1>1. scan = "string" /\ FinishString(nextChar(in), 0)
  BY Zenon DEF StringEnds
<1>2. scan \in Mid /\ ~AtStart
  BY <1>1, BehindStart
<1>3. nextChar(in) \in Place(text) /\ Onward(in, nextChar(in)) /\ 0 \in Nat
  BY InvariantTypes, NextPlace DEF Onward
<1> QED BY <1>1, <1>2, <1>3, FinishesString

LEMMA StringGetsInductive ==
  ASSUME IInv, StringGets
  PROVE  IInv'
<1> DEFINE c == scanSingleCharacter(in)
<1>1. /\ scan \in {"string", "string continued"}
      /\ \/ FinishString(c.in, c.errors)
         \/ /\ \/ strBuf' = Append(strBuf, c.value)
               \/ strBuf' = Append(strBuf, Unit(c.value))
               \/ strBuf' = strBuf
            /\ scan' = "string continued" \/ scan' = "string"
            /\ in' = c.in
            /\ Report(c.errors)
            /\ UNCHANGED <<text, at, num, level, tokens>>
  BY Zenon DEF StringGets
<1>2. scan \in Mid /\ ~AtStart
  BY <1>1, BehindStart
<1>3. Gives(in, c)
  BY InvariantTypes, ScanSingleCharacter
<1> HIDE DEF c
<1>4. c.in \in Place(text) /\ Onward(in, c.in) /\ c.errors \in Nat
      /\ c.value \in Nat /\ Unit(c.value) \in Nat
  BY <1>3, UnitNat DEF Gives, Escapes
<1>5. CASE FinishString(c.in, c.errors)
  BY <1>2, <1>4, <1>5, FinishesString
<1>6. CASE /\ \/ strBuf' = Append(strBuf, c.value)
              \/ strBuf' = Append(strBuf, Unit(c.value))
              \/ strBuf' = strBuf
           /\ scan' = "string continued" \/ scan' = "string"
           /\ in' = c.in
           /\ Report(c.errors)
           /\ UNCHANGED <<text, at, num, level, tokens>>
  <2>1. strBuf' \in Seq(Nat)
    <3>1. strBuf \in Seq(Nat)
      BY InvariantTypes
    <3>2. /\ Append(strBuf, c.value) \in Seq(Nat)
          /\ Append(strBuf, Unit(c.value)) \in Seq(Nat)
      BY <1>4, <3>1, AppendProperties
    <3> QED BY <1>6, <3>1, <3>2
  <2>2. errors' \in Nat
    BY <1>4, <1>6, InvariantTypes, ReportNat
  <2>3. scan' \in Mid
    BY <1>6 DEF Mid, Reads
  <2> QED BY <1>2, <1>4, <1>6, <2>1, <2>2, <2>3, InvariantTypes, GoesOn
<1> QED BY <1>1, <1>5, <1>6

LEMMA CharacterEmptyInductive ==
  ASSUME IInv, CharacterEmpty
  PROVE  IInv'
<1>1. scan = "character" /\ FinishCharacter(Space, nextChar(in), 1)
  BY Zenon DEF CharacterEmpty
<1>2. scan \in Mid /\ ~AtStart
  BY <1>1, BehindStart
<1>3. nextChar(in) \in Place(text) /\ Onward(in, nextChar(in)) /\ 1 \in Nat
  BY InvariantTypes, NextPlace DEF Onward
<1> QED BY <1>1, <1>2, <1>3, FinishesCharacter

LEMMA CharacterGetsInductive ==
  ASSUME IInv, CharacterGets
  PROVE  IInv'
<1> DEFINE c == scanSingleCharacter(in)
           value == IF c.what = "none" THEN Space ELSE c.value
           closed == nextChar(c.in)
           report == If(closed.cur \notin Delimiter)
<1>1. Gives(in, c)
  BY InvariantTypes, ScanSingleCharacter
<1>2. c.what \in {"byte", "code point", "none", "end", "again"}
  BY <1>1 DEF Gives, Kinds
<1>3. /\ scan \in {"character", "character continued"}
      /\ \/ /\ scan' = "character continued" /\ in' = c.in
            /\ UNCHANGED <<text, at, num, strBuf, level, tokens, errors>>
         \/ FinishCharacter(Space, c.in, c.errors)
         \/ FinishCharacter(value, closed, c.errors + report)
         \/ FinishCharacter(value, c.in, c.errors + 1)
  BY <1>2, Zenon DEF CharacterGets
<1>4. scan \in Mid /\ ~AtStart
  BY <1>3, BehindStart
<1> HIDE DEF c
<1>5. /\ text \in Seq(Char) /\ in \in Place(text) /\ strBuf \in Seq(Nat) /\ num \in Flags
      /\ level \in Nat /\ errors \in Nat
  BY InvariantTypes
<1>6. c.in \in Place(text) /\ Onward(in, c.in) /\ c.errors \in Nat
  BY <1>1 DEF Gives, Escapes
<1>7. closed \in Place(text) /\ Onward(in, closed)
  <2>1. closed \in Place(text) /\ Onward(c.in, closed)
    BY <1>5, <1>6, NextPlace DEF Onward
  <2> HIDE DEF closed
  <2> QED BY <1>5, <1>6, <2>1, OnwardOnward
<1>8. c.errors + report \in Nat /\ c.errors + 1 \in Nat
  <2>1. report \in Nat
    BY IfNat
  <2> HIDE DEF report
  <2> QED BY <1>6, <2>1
<1> HIDE DEF value, closed, report
<1>9. CASE /\ scan' = "character continued" /\ in' = c.in
           /\ UNCHANGED <<text, at, num, strBuf, level, tokens, errors>>
  <2>1. scan' \in Mid
    BY <1>9 DEF Mid, Reads
  <2> QED BY <1>4, <1>5, <1>6, <1>9, <2>1, GoesOn
<1>10. CASE FinishCharacter(Space, c.in, c.errors)
  BY <1>4, <1>6, <1>10, FinishesCharacter
<1>11. CASE FinishCharacter(value, closed, c.errors + report)
  BY <1>4, <1>7, <1>8, <1>11, FinishesCharacter
<1>12. CASE FinishCharacter(value, c.in, c.errors + 1)
  BY <1>4, <1>6, <1>8, <1>12, FinishesCharacter
<1> QED BY <1>3, <1>9, <1>10, <1>11, <1>12

-----------------------------------------------------------------------------
(* The first character of the file is looked at before any token.          *)
LEMMA InitInvariant ==
  ASSUME Init
  PROVE  IInv
<1> DEFINE r == [offset |-> 0, cur |-> EOF, line |-> 1, lineOffset |-> 0]
<1>1. text \in Seq(Char)
  BY SourceAssumption DEF Init
<1>2. r \in Spot(text)
  <2>1. LineEnds(text, 0) = {}
    BY DEF LineEnds
  <2>2. Cardinality(LineEnds(text, 0)) = 0
    BY <2>1, FS_EmptySet
  <2>3. LastEnd(text, 0, 0)
    BY <2>1 DEF LastEnd
  <2>4. ~Splits(text, 0) /\ Len(text) \in Nat
    BY <1>1, LenProperties DEF Splits
  <2> QED BY <2>2, <2>3, <2>4 DEF Spot
<1>3. in \in Place(text)
  <2>1. in = nextChar(r)
    BY DEF Init
  <2> HIDE DEF r
  <2> QED BY <1>1, <1>2, <2>1, NextCharPlace
<1>4. /\ scan = "token" /\ strBuf = <<>> /\ level = 0 /\ tokens = <<>> /\ errors = 0
      /\ num \in Flags
  BY DEF Init, Flags
<1>5. scan \in Reads \cup {"done"} /\ scan \notin Mid /\ scan # "done"
  BY <1>4 DEF Reads, Mid
<1>6. strBuf \in Seq(Nat) /\ level \in Nat /\ errors \in Nat
  BY <1>4
<1>7. IsSequence(tokens) /\ TokensInOrder
  <2>1. tokens \in Seq({}) /\ Len(tokens) = 0
    BY <1>4
  <2>2. IsSequence(tokens)
    BY <2>1 DEF IsSequence
  <2> QED BY <2>1, <2>2 DEF TokensInOrder
<1>8. tokens # <<>> => Behind(LastToken, in)
  BY <1>4
<1> QED BY <1>1, <1>3, <1>4, <1>5, <1>6, <1>7, <1>8 DEF IInv

LEMMA StutterInvariant ==
  ASSUME IInv, UNCHANGED vars
  PROVE  IInv'
<1>1. /\ text' = text /\ in' = in /\ scan' = scan /\ at' = at /\ num' = num
      /\ strBuf' = strBuf /\ level' = level /\ tokens' = tokens /\ errors' = errors
  BY DEF vars
<1>2. Kept
  BY <1>1, InvariantTypes DEF Kept, Onward
<1>3. AtStart => AtStart'
  BY <1>1, Zenon DEF AtStart
<1>4. /\ text \in Seq(Char) /\ TokensFrom(tokens', text) /\ LastBehind(tokens', in')
      /\ scan' \in Mid => /\ StartsAt(text, at') /\ LastEarlier(tokens', at')
                          /\ Behind(at', in') \/ AtStart'
  BY <1>1, <1>3, InvariantNow
<1> QED BY <1>2, <1>4, InvariantNext

LEMMA NextInvariant ==
  ASSUME IInv, [Next]_vars
  PROVE  IInv'
<1>1. CASE ReadEof
  BY <1>1, ReadEofInductive
<1>2. CASE ReadWhitespace
  BY <1>2, ReadWhitespaceInductive
<1>3. CASE ReadPunctuation
  BY <1>3, ReadPunctuationInductive
<1>4. CASE ReadComma
  BY <1>4, ReadCommaInductive
<1>5. CASE ReadHashPunctuation
  BY <1>5, ReadHashPunctuationInductive
<1>6. CASE ReadHashComma
  BY <1>6, ReadHashCommaInductive
<1>7. CASE ReadBool
  BY <1>7, ReadBoolInductive
<1>8. CASE ReadCharacterConstant
  BY <1>8, ReadCharacterConstantInductive
<1>9. CASE IllegalLexeme
  BY <1>9, IllegalLexemeInductive
<1>10. CASE ReadString
  BY <1>10, ReadStringInductive
<1>11. CASE ReadStar
  BY <1>11, ReadStarInductive
<1>12. CASE ReadSlash
  BY <1>12, ReadSlashInductive
<1>13. CASE ReadSemicolon
  BY <1>13, ReadSemicolonInductive
<1>14. CASE ReadDigit
  BY <1>14, ReadDigitInductive
<1>15. CASE ReadSign
  BY <1>15, ReadSignInductive
<1>16. CASE ReadDot
  BY <1>16, ReadDotInductive
<1>17. CASE ReadInitial
  BY <1>17, ReadInitialInductive
<1>18. CASE ReadBackslash
  BY <1>18, ReadBackslashInductive
<1>19. CASE CannotStart
  BY <1>19, CannotStartInductive
<1>20. CASE LineComment
  BY <1>20, LineCommentInductive
<1>21. CASE IdentifierChar
  BY <1>21, IdentifierCharInductive
<1>22. CASE IdentifierStar
  BY <1>22, IdentifierStarInductive
<1>23. CASE IdentifierEscape
  BY <1>23, IdentifierEscapeInductive
<1>24. CASE IdentifierEnds
  BY <1>24, IdentifierEndsInductive
<1>25. CASE NumberInteger
  BY <1>25, NumberIntegerInductive
<1>26. CASE NumberPoint
  BY <1>26, NumberPointInductive
<1>27. CASE NumberFraction
  BY <1>27, NumberFractionInductive
<1>28. CASE NumberExponent
  BY <1>28, NumberExponentInductive
<1>29. CASE NumberEnds
  BY <1>29, NumberEndsInductive
<1>30. CASE StringEnds
  BY <1>30, StringEndsInductive
<1>31. CASE StringGets
  BY <1>31, StringGetsInductive
<1>32. CASE CharacterEmpty
  BY <1>32, CharacterEmptyInductive
<1>33. CASE CharacterGets
  BY <1>33, CharacterGetsInductive
<1>34. CASE UNCHANGED vars
  BY <1>34, StutterInvariant
<1> QED BY <1>1, <1>2, <1>3, <1>4, <1>5, <1>6, <1>7, <1>8, <1>9, <1>10, <1>11,
           <1>12, <1>13, <1>14, <1>15, <1>16, <1>17, <1>18, <1>19, <1>20,
           <1>21, <1>22, <1>23, <1>24, <1>25, <1>26, <1>27, <1>28, <1>29,
           <1>30, <1>31, <1>32, <1>33, <1>34, Zenon DEF Next

(* The invariant that the theorems below rest on: the position is right,   *)
(* what is delivered is in order, and what is at hand is behind it.        *)
THEOREM LexerInvariant == Spec => []IInv
<1>1. Init => IInv
  BY InitInvariant
<1>2. IInv /\ [Next]_vars => IInv'
  BY NextInvariant
<1> QED BY <1>1, <1>2, PTL DEF Spec

(* The lexer stays within its text, the start of the line it keeps is not  *)
(* behind its position, m_strBuf holds numbers whatever an escape or a     *)
(* number is made of, and at the end of the file no comment is left open.  *)
THEOREM TypeCorrect == Spec => []TypeOK
<1>1. IInv => TypeOK
  <2> SUFFICES ASSUME IInv PROVE TypeOK
    OBVIOUS
  <2>1. /\ text \in Seq(Char) /\ in \in Place(text) /\ in \in Spot(text)
        /\ scan \in Reads \cup {"done"} /\ strBuf \in Seq(Nat)
        /\ level \in Nat /\ errors \in Nat
        /\ scan = "done" => level = 0 /\ in.cur = EOF
    BY InvariantTypes DEF Place
  <2>2. /\ in.offset \in 0..Len(text) /\ in.cur \in Char \cup {EOF}
        /\ in.line = 1 + Cardinality(LineEnds(text, in.offset))
        /\ LastEnd(text, in.offset, in.lineOffset)
    BY <2>1, SpotProperties
  <2>3. in.offset \in Nat /\ in.lineOffset \in 0..in.offset
    BY <2>1, <2>2, SpotProperties DEF LastEnd, LineEnds
  <2>4. in.line \in Nat \ {0}
    BY <2>2, <2>3, LineEndsFinite
  <2> QED BY <2>1, <2>2, <2>3, <2>4 DEF TypeOK
<1> QED BY <1>1, LexerInvariant, PTL

(* Whatever is scanned, escapes and bad input included, nextChar's         *)
(* bookkeeping is right: the line is one more than the line ends read,     *)
(* with CR LF as one, m_lineOffset is where the last one ended, the        *)
(* character is the one at the position, and CR LF is never split.         *)
PositionCounted == in \in Place(text)

THEOREM PositionIsCounted == Spec => []PositionCounted
<1>1. IInv => PositionCounted
  BY DEF IInv, PositionCounted
<1> QED BY <1>1, LexerInvariant, PTL

(* Every token has the coordinates of a character in the text that may     *)
(* start one, never of a blank, and later tokens have later coordinates,   *)
(* across comments, errors and escaped line ends.                          *)
THEOREM TokensAreInOrder == Spec => []TokensInOrder
<1>1. IInv => TokensInOrder
  BY DEF IInv
<1> QED BY <1>1, LexerInvariant, PTL

===============================================================================
