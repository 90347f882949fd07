--------------------------- MODULE UTF8DecoderProofs --------------------------
(***************************************************************************)
(* Theorems about UTF8Decoder, for every text, every size of the buffers   *)
(* on both sides, and whatever lies on the stack.                          *)
(***************************************************************************)
EXTENDS UTF8Decoder, SequenceTheorems, WellFoundedInduction, TLAPS

Byte == 0..255

(* Induction with a set in place of a predicate                            *)
LEMMA Induction ==
  ASSUME NEW T, 0 \in T, \A n \in Nat : n \in T => n + 1 \in T
  PROVE  \A n \in Nat : n \in T
<1> DEFINE R == OpToRel(<, Nat)
           U == {n \in Nat : n \notin T}
<1>1. SUFFICES ASSUME U # {} PROVE FALSE
  OBVIOUS
<1>2. IsWellFoundedOn(R, Nat)
  BY NatLessThanWellFounded
<1>3. \A y, x \in Nat : y < x => <<y, x>> \in R
  BY DEF OpToRel
<1>4. U \subseteq Nat
  OBVIOUS
<1> HIDE DEF R
<1>5. PICK x \in U : \A y \in U : ~(<<y, x>> \in R)
  <2> HIDE DEF U
  <2> QED BY <1>1, <1>2, <1>4, WFMin
<1>6. x \in Nat /\ x # 0 /\ x \notin T
  OBVIOUS
<1>7. x - 1 \in Nat /\ x - 1 < x /\ (x - 1) + 1 = x
  BY <1>6
<1>8. x - 1 \in U
  BY <1>6, <1>7
<1> QED BY <1>3, <1>5, <1>6, <1>7, <1>8

LEMMA Least ==
  ASSUME NEW n \in Nat, NEW T, n \in T
  PROVE  \E m \in 0..n : m \in T /\ \A k \in 0..(m - 1) : k \notin T
<1> SUFFICES ASSUME \A m \in 0..n : m \in T => \E k \in 0..(m - 1) : k \in T
             PROVE  FALSE
  OBVIOUS
<1> DEFINE U == {k \in Nat : \A j \in 0..k : j <= n => j \notin T}
<1>1. 0 \in U
  OBVIOUS
<1>2. ASSUME NEW k \in Nat, k \in U
      PROVE  k + 1 \in U
  <2> SUFFICES ASSUME NEW j \in 0..(k + 1), j <= n, j \in T
               PROVE  FALSE
    OBVIOUS
  <2>1. PICK i \in 0..(j - 1) : i \in T
    OBVIOUS
  <2>2. i \in 0..k /\ i <= n
    OBVIOUS
  <2> QED BY <1>2, <2>1, <2>2
<1>3. n \in U
  <2> HIDE DEF U
  <2> QED BY <1>1, <1>2, Induction
<1> QED BY <1>3

-----------------------------------------------------------------------------
(* Where the characters of a text begin                                    *)
StepFrom(bs, p) == IF p < Len(bs) THEN p + Text!Announced(bs[p + 1]) ELSE p

LEMMA StepProperties ==
  ASSUME NEW bs \in Seq(Byte), NEW p \in Nat
  PROVE  /\ StepFrom(bs, p) \in Nat
         /\ p < Len(bs) => p < StepFrom(bs, p)
         /\ p >= Len(bs) => StepFrom(bs, p) = p
<1>1. Text!Announced(bs[p + 1]) \in 1..4
  BY DEF Text!Announced
<1>2. Len(bs) \in Nat
  BY LenProperties
<1> QED BY <1>1, <1>2 DEF StepFrom

Starts(bs, f, n) ==
  /\ f \in [0..n -> Nat]
  /\ f[0] = 0
  /\ \A k \in 1..n : f[k] = StepFrom(bs, f[k - 1])

LEMMA StartsExist ==
  ASSUME NEW bs \in Seq(Byte), NEW n \in Nat
  PROVE  \E f : Starts(bs, f, n)
<1> DEFINE T == {m \in Nat : \E f : Starts(bs, f, m)}
<1>1. 0 \in T
  <2> DEFINE f == [k \in 0..0 |-> 0]
  <2>1. Starts(bs, f, 0)
    BY DEF Starts
  <2> QED BY <2>1
<1>2. ASSUME NEW m \in Nat, m \in T
      PROVE  m + 1 \in T
  <2>1. PICK f : Starts(bs, f, m)
    BY <1>2
  <2> DEFINE y == StepFrom(bs, f[m])
             g == [k \in 0..(m + 1) |-> IF k = m + 1 THEN y ELSE f[k]]
  <2>2. /\ f \in [0..m -> Nat] /\ f[0] = 0
        /\ \A k \in 1..m : f[k] = StepFrom(bs, f[k - 1])
    BY <2>1 DEF Starts
  <2>3. y \in Nat
    BY <2>2, StepProperties
  <2> HIDE DEF y
  <2>4. g \in [0..(m + 1) -> Nat] /\ g[m + 1] = y /\ \A k \in 0..m : g[k] = f[k]
    BY <2>2, <2>3
  <2> HIDE DEF g
  <2>5. ASSUME NEW k \in 1..(m + 1)
        PROVE  g[k] = StepFrom(bs, g[k - 1])
    <3>1. CASE k = m + 1
      <4>1. k - 1 = m /\ m \in 0..m
        BY <3>1
      <4> QED BY <2>4, <3>1, <4>1 DEF y
    <3>2. CASE k # m + 1
      <4>1. k \in 1..m /\ k \in 0..m /\ k - 1 \in 0..m
        BY <3>2
      <4> QED BY <2>2, <2>4, <4>1
    <3> QED BY <3>1, <3>2
  <2>6. Starts(bs, g, m + 1)
    BY <2>2, <2>4, <2>5 DEF Starts
  <2> QED BY <2>6
<1> HIDE DEF T
<1>3. n \in T
  BY <1>1, <1>2, Induction
<1> QED BY <1>3 DEF T

StartsAt(bs, f) ==
  f = [k \in 0..Len(bs) |-> IF k = 0 THEN 0 ELSE StepFrom(bs, f[k - 1])]

LEMMA StartOfProperties ==
  ASSUME NEW bs \in Seq(Byte)
  PROVE  Starts(bs, Text!StartOf(bs), Len(bs))
<1> DEFINE n == Len(bs)
           s == CHOOSE f : StartsAt(bs, f)
<1>1. n \in Nat
  BY LenProperties
<1>2. \E f : StartsAt(bs, f)
  <2>1. PICK f : Starts(bs, f, n)
    BY <1>1, StartsExist
  <2> DEFINE g == [k \in 0..n |-> IF k = 0 THEN 0 ELSE StepFrom(bs, f[k - 1])]
  <2>2. /\ f \in [0..n -> Nat] /\ f[0] = 0
        /\ \A k \in 1..n : f[k] = StepFrom(bs, f[k - 1])
    BY <2>1 DEF Starts
  <2>3. \A k \in 0..n : f[k] = g[k]
    <3> SUFFICES ASSUME NEW k \in 0..n PROVE f[k] = g[k]
      OBVIOUS
    <3>1. CASE k = 0
      BY <2>2, <3>1
    <3>2. CASE k # 0
      <4>1. k \in 1..n
        BY <1>1, <3>2
      <4> QED BY <2>2, <3>2, <4>1
    <3> QED BY <3>1, <3>2
  <2>4. f = g
    BY <2>2, <2>3
  <2>5. StartsAt(bs, f)
    BY <2>4 DEF StartsAt
  <2> QED BY <2>5
<1>3. StartsAt(bs, s)
  BY <1>2
<1>4. Text!StartOf(bs) = s
  BY DEF Text!StartOf, StartsAt, StepFrom
<1> HIDE DEF s
<1>5. DOMAIN s = 0..n /\ \A k \in 0..n : s[k] = IF k = 0 THEN 0 ELSE StepFrom(bs, s[k - 1])
  BY <1>3 DEF StartsAt
<1>6. s = [k \in 0..n |-> s[k]]
  BY <1>3 DEF StartsAt
<1> DEFINE T == {k \in Nat : k <= n => s[k] \in Nat}
<1>7. 0 \in T
  BY <1>1, <1>5
<1>8. ASSUME NEW k \in Nat, k \in T
      PROVE  k + 1 \in T
  <2> SUFFICES ASSUME k + 1 <= n
               PROVE  s[k + 1] \in Nat
    OBVIOUS
  <2>1. s[k] \in Nat
    BY <1>1, <1>8
  <2>2. k + 1 \in 0..n /\ k + 1 # 0 /\ (k + 1) - 1 = k
    BY <1>1
  <2>3. s[k + 1] = StepFrom(bs, s[k])
    BY <1>5, <2>2
  <2> QED BY <2>1, <2>3, StepProperties
<1>9. \A k \in Nat : k \in T
  <2> HIDE DEF T
  <2> QED BY <1>7, <1>8, Induction
<1>10. s \in [0..n -> Nat]
  BY <1>1, <1>6, <1>9
<1>11. \A k \in 1..n : s[k] = StepFrom(bs, s[k - 1])
  BY <1>1, <1>5
<1>12. s[0] = 0
  BY <1>1, <1>5
<1> QED BY <1>4, <1>10, <1>11, <1>12 DEF Starts

LEMMA StartsIncrease ==
  ASSUME NEW bs \in Seq(Byte), NEW f, Starts(bs, f, Len(bs)),
         NEW j \in 0..Len(bs), NEW k \in 0..Len(bs), j < k
  PROVE  f[j] <= f[k] /\ (f[j] < Len(bs) => f[j] < f[k])
<1> DEFINE n == Len(bs)
           T == {i \in Nat : j + i + 1 <= n =>
                   f[j] <= f[j + i + 1] /\ (f[j] < n => f[j] < f[j + i + 1])}
<1>1. n \in Nat
  BY LenProperties
<1>2. f \in [0..n -> Nat] /\ \A i \in 1..n : f[i] = StepFrom(bs, f[i - 1])
  BY DEF Starts
<1>3. ASSUME NEW i \in 0..n, i + 1 <= n
      PROVE  f[i] <= f[i + 1] /\ (f[i] < n => f[i] < f[i + 1]) /\ f[i] \in Nat /\ f[i + 1] \in Nat
  <2>1. i + 1 \in 1..n /\ i + 1 \in 0..n /\ (i + 1) - 1 = i
    BY <1>1, <1>3
  <2>2. f[i] \in Nat /\ f[i + 1] \in Nat /\ f[i + 1] = StepFrom(bs, f[i])
    BY <1>2, <2>1
  <2> DEFINE x == f[i]
  <2>3. x \in Nat
    BY <2>2
  <2> HIDE DEF x, n
  <2>4. (x < Len(bs) => x < StepFrom(bs, x)) /\ (x >= Len(bs) => StepFrom(bs, x) = x)
    BY <2>3, StepProperties
  <2> QED BY <1>1, <2>2, <2>4 DEF x, n
<1>4. 0 \in T
  BY <1>1, <1>3
<1>5. ASSUME NEW i \in Nat, i \in T
      PROVE  i + 1 \in T
  <2> SUFFICES ASSUME j + (i + 1) + 1 <= n
               PROVE  /\ f[j] <= f[j + (i + 1) + 1]
                      /\ f[j] < n => f[j] < f[j + (i + 1) + 1]
    OBVIOUS
  <2> DEFINE h == j + i + 1
  <2>1. h \in 0..n /\ h + 1 <= n /\ j + (i + 1) + 1 = h + 1
    BY <1>1
  <2>2. f[j] <= f[h] /\ (f[j] < n => f[j] < f[h])
    BY <1>1, <1>5, <2>1
  <2> HIDE DEF h
  <2>3. f[h] <= f[h + 1] /\ f[h] \in Nat /\ f[h + 1] \in Nat
    BY <1>3, <2>1
  <2>4. f[j] \in Nat
    BY <1>2
  <2> QED BY <2>1, <2>2, <2>3, <2>4
<1> HIDE DEF T
<1>6. k - j - 1 \in T
  <2>1. k - j - 1 \in Nat
    BY <1>1
  <2> QED BY <1>4, <1>5, <2>1, Induction
<1>7. j + (k - j - 1) + 1 = k /\ k <= n
  BY <1>1
<1> QED BY <1>6, <1>7 DEF T

LEMMA StartsReachTheEnd ==
  ASSUME NEW bs \in Seq(Byte), NEW f, Starts(bs, f, Len(bs))
  PROVE  f[Len(bs)] >= Len(bs)
<1> DEFINE n == Len(bs)
           T == {k \in Nat : k <= n => f[k] >= k \/ f[k] >= n}
<1>1. n \in Nat
  BY LenProperties
<1>2. f \in [0..n -> Nat] /\ f[0] = 0 /\ \A i \in 1..n : f[i] = StepFrom(bs, f[i - 1])
  BY DEF Starts
<1>3. 0 \in T
  BY <1>2
<1>4. ASSUME NEW k \in Nat, k \in T
      PROVE  k + 1 \in T
  <2> SUFFICES ASSUME k + 1 <= n
               PROVE  f[k + 1] >= k + 1 \/ f[k + 1] >= n
    OBVIOUS
  <2>1. k + 1 \in 1..n /\ k \in 0..n /\ k + 1 \in 0..n /\ (k + 1) - 1 = k
    BY <1>1
  <2>2. f[k] \in Nat /\ f[k + 1] \in Nat /\ f[k + 1] = StepFrom(bs, f[k])
    BY <1>2, <2>1
  <2>3. f[k] >= k \/ f[k] >= n
    BY <1>1, <1>4
  <2> DEFINE x == f[k]
  <2>4. x \in Nat
    BY <2>2
  <2> HIDE DEF x, n
  <2>5. (x < Len(bs) => x < StepFrom(bs, x)) /\ (x >= Len(bs) => StepFrom(bs, x) = x)
    BY <2>4, StepProperties
  <2>6. x < n => x + 1 <= StepFrom(bs, x)
    <3>1. StepFrom(bs, x) \in Nat
      BY <2>4, StepProperties
    <3> QED BY <1>1, <2>4, <2>5, <3>1 DEF n
  <2> QED BY <1>1, <2>2, <2>3, <2>5, <2>6 DEF x, n
<1> HIDE DEF T
<1>5. n \in T
  BY <1>1, <1>3, <1>4, Induction
<1> QED BY <1>1, <1>5 DEF T

LEMMA CharCountProperties ==
  ASSUME NEW bs \in Seq(Byte)
  PROVE  /\ Text!CharCount(bs) \in 0..Len(bs)
         /\ Text!StartOf(bs)[Text!CharCount(bs)] >= Len(bs)
         /\ \A k \in 0..(Text!CharCount(bs) - 1) : Text!StartOf(bs)[k] < Len(bs)
<1> DEFINE n == Len(bs)
           f == Text!StartOf(bs)
           T == {k \in 0..n : f[k] >= n}
<1>1. n \in Nat /\ Starts(bs, f, n)
  BY LenProperties, StartOfProperties
<1>2. f \in [0..n -> Nat]
  BY <1>1 DEF Starts
<1>3. n \in T
  BY <1>1, StartsReachTheEnd
<1>4. PICK m \in 0..n : m \in T /\ \A k \in 0..(m - 1) : k \notin T
  <2> HIDE DEF T
  <2> QED BY <1>1, <1>3, Least
<1> HIDE DEF f
<1>5. f[m] >= n /\ \A k \in 0..(m - 1) : f[k] < n
  BY <1>1, <1>2, <1>4
<1> DEFINE c == CHOOSE i \in 0..n : f[i] >= n /\ \A k \in 0..(i - 1) : f[k] < n
<1>6. c \in 0..n /\ f[c] >= n /\ \A k \in 0..(c - 1) : f[k] < n
  BY <1>5
<1>7. Text!CharCount(bs) = c
  BY DEF Text!CharCount, f
<1> HIDE DEF c
<1> QED BY <1>6, <1>7 DEF f

-----------------------------------------------------------------------------
(* The characters of a text                                                *)
LEMMA CharProperties ==
  ASSUME NEW bs \in Seq(Byte), NEW k \in Nat, Text!StartOf(bs)[k] \in Nat,
         Text!StartOf(bs)[k] < Len(bs)
  PROVE  LET p == Text!StartOf(bs)[k]
             n == Text!Announced(bs[p + 1])
             m == IF p + n <= Len(bs) THEN n ELSE Len(bs) - p
             s == Text!BytesOfChar(bs, k + 1)
         IN  /\ s \in Seq(Byte) /\ Len(s) = m /\ n \in 1..4 /\ m \in 1..n
             /\ \A i \in 1..m : s[i] = bs[p + i]
<1> DEFINE p == Text!StartOf(bs)[k]
           n == Text!Announced(bs[p + 1])
           m == IF p + n <= Len(bs) THEN n ELSE Len(bs) - p
           s == Text!BytesOfChar(bs, k + 1)
           last == IF p + n <= Len(bs) THEN p + n ELSE Len(bs)
<1>1. n \in 1..4
  BY DEF Text!Announced
<1>2. Len(bs) \in Nat /\ p \in Nat /\ p < Len(bs)
  BY LenProperties
<1>3. (k + 1) - 1 = k
  OBVIOUS
<1>4. s = SubSeq(bs, p + 1, last)
  BY <1>3 DEF Text!BytesOfChar
<1> HIDE DEF p, n, s
<1>5. p + 1 \in Int /\ last \in Int /\ \A i \in (p + 1)..last : i \in 1..Len(bs)
  BY <1>1, <1>2
<1>6. \A i \in (p + 1)..last : bs[i] \in Byte
  BY <1>5, ElementOfSeq
<1>7. last - (p + 1) + 1 = m /\ m \in 1..n /\ (p + 1 <= last)
  BY <1>1, <1>2
<1> HIDE DEF last, m
<1>8. /\ s \in Seq(Byte)
      /\ Len(s) = (IF p + 1 <= last THEN last - (p + 1) + 1 ELSE 0)
      /\ \A i \in 1..(last - (p + 1) + 1) : s[i] = bs[(p + 1) + i - 1]
  BY <1>4, <1>5, <1>6, SubSeqProperties
<1>9. \A i \in 1..m : (p + 1) + i - 1 = p + i
  BY <1>1, <1>2, <1>7
<1>10. /\ s \in Seq(Byte) /\ Len(s) = m /\ n \in 1..4 /\ m \in 1..n
       /\ \A i \in 1..m : s[i] = bs[p + i]
  BY <1>1, <1>7, <1>8, <1>9
<1> QED BY <1>10 DEF p, n, m, s

Row(s) ==
  \/ Len(s) = 1 /\ s[1] \in 0..127
  \/ Len(s) = 2 /\ s[1] \in 194..223 /\ s[2] \in 128..191
  \/ /\ Len(s) = 3 /\ s[3] \in 128..191
     /\ \/ s[1] = 224 /\ s[2] \in 160..191
        \/ s[1] \in (225..236) \cup {238, 239} /\ s[2] \in 128..191
        \/ s[1] = 237 /\ s[2] \in 128..159
  \/ /\ Len(s) = 4 /\ s[3] \in 128..191 /\ s[4] \in 128..191
     /\ \/ s[1] = 240 /\ s[2] \in 144..191
        \/ s[1] \in 241..243 /\ s[2] \in 128..191
        \/ s[1] = 244 /\ s[2] \in 128..143

LEMMA WellFormedRow ==
  ASSUME NEW s \in Seq(Byte)
  PROVE  Text!WellFormed(s) <=> Row(s)
<1>1. DOMAIN s = 1..Len(s) /\ Len(s) \in Nat
  BY LenProperties
<1> DEFINE r1 == <<0..127>>
           r2 == <<194..223, Text!Trail>>
           r3 == <<{224}, 160..191, Text!Trail>>
           r4 == <<(225..236) \cup {238, 239}, Text!Trail, Text!Trail>>
           r5 == <<{237}, 128..159, Text!Trail>>
           r6 == <<{240}, 144..191, Text!Trail, Text!Trail>>
           r7 == <<241..243, Text!Trail, Text!Trail, Text!Trail>>
           r8 == <<{244}, 128..143, Text!Trail, Text!Trail>>
           F(row) == Len(row) = Len(s) /\ \A i \in DOMAIN s : s[i] \in row[i]
<1> HIDE DEF F
<1>2. Text!WellFormed(s) <=> F(r1) \/ F(r2) \/ F(r3) \/ F(r4) \/ F(r5) \/ F(r6) \/ F(r7) \/ F(r8)
  <2>1. Text!WellFormed(s) <=> \E row \in Text!WellFormedRows : F(row)
    BY DEF Text!WellFormed, F
  <2>2. Text!WellFormedRows = {r1, r2, r3, r4, r5, r6, r7, r8}
    BY DEF Text!WellFormedRows
  <2> HIDE DEF r1, r2, r3, r4, r5, r6, r7, r8
  <2> QED BY <2>1, <2>2
<1>3. ASSUME NEW a
      PROVE  F(<<a>>) <=> Len(s) = 1 /\ s[1] \in a
  <2> DEFINE row == <<a>>
  <2>1. Len(row) = 1 /\ row[1] = a
    OBVIOUS
  <2> HIDE DEF row
  <2>2. F(row) <=> Len(s) = 1 /\ \A i \in 1..1 : s[i] \in row[i]
    BY <1>1, <2>1 DEF F
  <2>3. F(row) <=> Len(s) = 1 /\ s[1] \in a
    BY <2>1, <2>2
  <2> QED BY <2>3 DEF row
<1>4. ASSUME NEW a, NEW b
      PROVE  F(<<a, b>>) <=> Len(s) = 2 /\ s[1] \in a /\ s[2] \in b
  <2> DEFINE row == <<a, b>>
  <2>1. Len(row) = 2 /\ row[1] = a /\ row[2] = b
    OBVIOUS
  <2> HIDE DEF row
  <2>2. F(row) <=> Len(s) = 2 /\ \A i \in 1..2 : s[i] \in row[i]
    BY <1>1, <2>1 DEF F
  <2>3. (\A i \in 1..2 : s[i] \in row[i]) <=> s[1] \in a /\ s[2] \in b
    <3>1. \A i \in 1..2 : i = 1 \/ i = 2
      OBVIOUS
    <3> QED BY <2>1, <3>1
  <2> QED BY <2>2, <2>3 DEF row
<1>5. ASSUME NEW a, NEW b, NEW c
      PROVE  F(<<a, b, c>>) <=> Len(s) = 3 /\ s[1] \in a /\ s[2] \in b /\ s[3] \in c
  <2> DEFINE row == <<a, b, c>>
  <2>1. Len(row) = 3 /\ row[1] = a /\ row[2] = b /\ row[3] = c
    OBVIOUS
  <2> HIDE DEF row
  <2>2. F(row) <=> Len(s) = 3 /\ \A i \in 1..3 : s[i] \in row[i]
    BY <1>1, <2>1 DEF F
  <2>3. (\A i \in 1..3 : s[i] \in row[i]) <=> s[1] \in a /\ s[2] \in b /\ s[3] \in c
    <3>1. \A i \in 1..3 : i = 1 \/ i = 2 \/ i = 3
      OBVIOUS
    <3> QED BY <2>1, <3>1
  <2> QED BY <2>2, <2>3 DEF row
<1>6. ASSUME NEW a, NEW b, NEW c, NEW d
      PROVE  F(<<a, b, c, d>>) <=> /\ Len(s) = 4 /\ s[1] \in a /\ s[2] \in b
                                   /\ s[3] \in c /\ s[4] \in d
  <2> DEFINE row == <<a, b, c, d>>
  <2>1. Len(row) = 4 /\ row[1] = a /\ row[2] = b /\ row[3] = c /\ row[4] = d
    OBVIOUS
  <2> HIDE DEF row
  <2>2. F(row) <=> Len(s) = 4 /\ \A i \in 1..4 : s[i] \in row[i]
    BY <1>1, <2>1 DEF F
  <2>3. (\A i \in 1..4 : s[i] \in row[i]) <=> s[1] \in a /\ s[2] \in b /\ s[3] \in c /\ s[4] \in d
    <3>1. \A i \in 1..4 : i = 1 \/ i = 2 \/ i = 3 \/ i = 4
      OBVIOUS
    <3> QED BY <2>1, <3>1
  <2> QED BY <2>2, <2>3 DEF row
<1>7. /\ F(r1) <=> Len(s) = 1 /\ s[1] \in 0..127
      /\ F(r2) <=> Len(s) = 2 /\ s[1] \in 194..223 /\ s[2] \in Text!Trail
  BY <1>3, <1>4
<1>8. F(r3) <=> Len(s) = 3 /\ s[1] \in {224} /\ s[2] \in 160..191 /\ s[3] \in Text!Trail
  BY <1>5
<1>9. F(r4) <=> /\ Len(s) = 3 /\ s[1] \in (225..236) \cup {238, 239}
                /\ s[2] \in Text!Trail /\ s[3] \in Text!Trail
  BY <1>5
<1>10. F(r5) <=> Len(s) = 3 /\ s[1] \in {237} /\ s[2] \in 128..159 /\ s[3] \in Text!Trail
  BY <1>5
<1>11. F(r6) <=> /\ Len(s) = 4 /\ s[1] \in {240} /\ s[2] \in 144..191
                 /\ s[3] \in Text!Trail /\ s[4] \in Text!Trail
  BY <1>6
<1>12. F(r7) <=> /\ Len(s) = 4 /\ s[1] \in 241..243 /\ s[2] \in Text!Trail
                 /\ s[3] \in Text!Trail /\ s[4] \in Text!Trail
  BY <1>6
<1>13. F(r8) <=> /\ Len(s) = 4 /\ s[1] \in {244} /\ s[2] \in 128..143
                 /\ s[3] \in Text!Trail /\ s[4] \in Text!Trail
  BY <1>6
<1> HIDE DEF r1, r2, r3, r4, r5, r6, r7, r8
<1>14. (F(r1) \/ F(r2) \/ F(r3) \/ F(r4) \/ F(r5) \/ F(r6) \/ F(r7) \/ F(r8)) <=> Row(s)
  <2> DEFINE f1 == F(r1)
             f2 == F(r2)
             f3 == F(r3)
             f4 == F(r4)
             f5 == F(r5)
             f6 == F(r6)
             f7 == F(r7)
             f8 == F(r8)
  <2>1. f3 \/ f4 \/ f5 <=>
          /\ Len(s) = 3 /\ s[3] \in 128..191
          /\ \/ s[1] = 224 /\ s[2] \in 160..191
             \/ s[1] \in (225..236) \cup {238, 239} /\ s[2] \in 128..191
             \/ s[1] = 237 /\ s[2] \in 128..159
    BY <1>8, <1>9, <1>10 DEF Text!Trail
  <2>2. f6 \/ f7 \/ f8 <=>
          /\ Len(s) = 4 /\ s[3] \in 128..191 /\ s[4] \in 128..191
          /\ \/ s[1] = 240 /\ s[2] \in 144..191
             \/ s[1] \in 241..243 /\ s[2] \in 128..191
             \/ s[1] = 244 /\ s[2] \in 128..143
    BY <1>11, <1>12, <1>13 DEF Text!Trail
  <2>3. /\ f1 <=> Len(s) = 1 /\ s[1] \in 0..127
        /\ f2 <=> Len(s) = 2 /\ s[1] \in 194..223 /\ s[2] \in 128..191
    BY <1>7 DEF Text!Trail
  <2> HIDE DEF f1, f2, f3, f4, f5, f6, f7, f8
  <2>4. f1 \/ f2 \/ (f3 \/ f4 \/ f5) \/ (f6 \/ f7 \/ f8) <=> Row(s)
    BY <2>1, <2>2, <2>3 DEF Row
  <2> QED BY <2>4 DEF f1, f2, f3, f4, f5, f6, f7, f8
<1> QED BY <1>2, <1>14

LEMMA AnnouncedCases ==
  /\ \A c \in 0..127 : Text!Announced(c) = 1
  /\ \A c \in 192..223 : Text!Announced(c) = 2
  /\ \A c \in 224..239 : Text!Announced(c) = 3
  /\ \A c \in 240..247 : Text!Announced(c) = 4
<1>1. ASSUME NEW c \in 0..127
      PROVE  Text!Announced(c) = 1
  <2>1. c \notin 192..223 /\ c \notin 224..239 /\ c \notin 240..247
    OBVIOUS
  <2> QED BY <2>1 DEF Text!Announced
<1>2. ASSUME NEW c \in 192..223
      PROVE  Text!Announced(c) = 2
  BY DEF Text!Announced
<1>3. ASSUME NEW c \in 224..239
      PROVE  Text!Announced(c) = 3
  <2>1. c \notin 192..223
    OBVIOUS
  <2> QED BY <2>1 DEF Text!Announced
<1>4. ASSUME NEW c \in 240..247
      PROVE  Text!Announced(c) = 4
  <2>1. c \notin 192..223 /\ c \notin 224..239
    OBVIOUS
  <2> QED BY <2>1 DEF Text!Announced
<1> QED BY <1>1, <1>2, <1>3, <1>4

(* What the lead byte of a well-formed sequence announces is there.        *)
LEMMA WellFormedIsWhole ==
  ASSUME NEW s \in Seq(Byte), Text!WellFormed(s)
  PROVE  Len(s) = Text!Announced(s[1])
<1>1. Row(s)
  BY WellFormedRow
<1> DEFINE x == s[1]
<1>2. Len(s) = 1 => x \in 0..127
  BY <1>1 DEF Row
<1>3. Len(s) = 2 => x \in 192..223
  BY <1>1 DEF Row
<1>4. Len(s) = 3 => x \in 224..239
  BY <1>1 DEF Row
<1>5. Len(s) = 4 => x \in 240..247
  BY <1>1 DEF Row
<1>6. Len(s) \in {1, 2, 3, 4}
  BY <1>1 DEF Row
<1> HIDE DEF x
<1>7. Text!Announced(x) = Len(s)
  <2>1. CASE Len(s) = 1
    BY <1>2, <2>1, AnnouncedCases
  <2>2. CASE Len(s) = 2
    BY <1>3, <2>2, AnnouncedCases
  <2>3. CASE Len(s) = 3
    BY <1>4, <2>3, AnnouncedCases
  <2>4. CASE Len(s) = 4
    BY <1>5, <2>4, AnnouncedCases
  <2> QED BY <1>6, <2>1, <2>2, <2>3, <2>4
<1> QED BY <1>7 DEF x

LEMMA SizeIsAnnounced ==
  ASSUME NEW c \in Byte
  PROVE  SizeOf(c) = Text!Announced(c) /\ SizeOf(c) \in 1..4
<1>1. c \div 32 = 6 <=> c \in 192..223
  BY DEF Byte
<1>2. c \div 16 = 14 <=> c \in 224..239
  BY DEF Byte
<1>3. c \div 8 = 30 <=> c \in 240..247
  BY DEF Byte
<1> QED BY <1>1, <1>2, <1>3 DEF SizeOf, Text!Announced, Byte

LEMMA ContinuationByte ==
  ASSUME NEW c \in Byte
  PROVE  /\ c \div 64 = 2 <=> c \in 128..191
         /\ c \in 128..191 => c % 64 = c - 128
BY DEF Byte

-----------------------------------------------------------------------------
(* decodeBuffer tells well-formed sequences from others as the table does, *)
(* and finds their code points.                                            *)
Reads(b, s) == \A i \in 1..Len(s) : b[i - 1] = s[i]

LEMMA DecodedIsCodePoint ==
  ASSUME NEW s \in Seq(Byte), Len(s) \in 1..4, NEW b, Reads(b, s), SizeOf(s[1]) = Len(s)
  PROVE  LET n == Len(s)
             cp == Assembled(b, n)
         IN  /\ ContinuationBytes(b, n) /\ Acceptable(n, cp) <=> Text!WellFormed(s)
             /\ Text!WellFormed(s) => cp = Text!CodePoint(s) /\ cp \in Nat
<1>0. Text!WellFormed(s) <=> Row(s)
  BY WellFormedRow
<1>1. CASE Len(s) = 1
  <2> DEFINE c == s[1]
  <2>1. c \in Byte /\ b[0] = c
    BY <1>1, ElementOfSeq DEF Reads
  <2>2. Row(s) <=> c \in 0..127
    BY <1>1 DEF Row
  <2>3. Assembled(b, 1) = c /\ ContinuationBytes(b, 1) /\ Text!CodePoint(s) = c
    BY <1>1, <2>1 DEF Assembled, ContinuationBytes, Text!CodePoint
  <2> HIDE DEF c
  <2>4. Acceptable(1, c) <=> c \in 0..127
    BY <2>1 DEF Acceptable, Byte
  <2>5. c \in Nat
    BY <2>1 DEF Byte
  <2> QED BY <1>0, <1>1, <2>2, <2>3, <2>4, <2>5
<1>2. CASE Len(s) = 2
  <2> DEFINE c == s[1]
             d == s[2]
             cp == (c % 32) * 64 + (d % 64)
  <2>1. c \in Byte /\ d \in Byte /\ b[0] = c /\ b[1] = d
    BY <1>2, ElementOfSeq DEF Reads
  <2>2. Row(s) <=> c \in 194..223 /\ d \in 128..191
    BY <1>2 DEF Row
  <2>3. Assembled(b, 2) = cp
    BY <2>1 DEF Assembled
  <2>4. Text!CodePoint(s) = (c - 192) * 64 + d - 128
    BY <1>2 DEF Text!CodePoint
  <2>5. ContinuationBytes(b, 2) <=> d \div 64 = 2
    BY <2>1 DEF ContinuationBytes
  <2>6. SizeOf(c) = 2
    BY <1>2
  <2> HIDE DEF c, d
  <2>7. c \in 192..223
    BY <2>1, <2>6 DEF SizeOf, Byte
  <2>8. CASE d \in 128..191
    <3>1. cp = (c - 192) * 64 + d - 128 /\ cp \in Nat /\ (cp > 127 <=> c \in 194..223)
      <4>1. c % 32 = c - 192 /\ d % 64 = d - 128
        BY <2>7, <2>8, SMT
      <4> QED BY <2>7, <2>8, <4>1, SMT
    <3> HIDE DEF cp
    <3>2. Acceptable(2, cp) <=> c \in 194..223
      BY <3>1 DEF Acceptable
    <3>3. d \div 64 = 2
      BY <2>1, <2>8, ContinuationByte
    <3> QED BY <1>0, <1>2, <2>2, <2>3, <2>4, <2>5, <2>8, <3>1, <3>2, <3>3
  <2>9. CASE d \notin 128..191
    <3>1. ~ContinuationBytes(b, 2) /\ ~Row(s)
      BY <2>1, <2>2, <2>5, <2>9, ContinuationByte
    <3> QED BY <1>0, <1>2, <3>1
  <2> QED BY <2>8, <2>9
<1>3. CASE Len(s) = 3
  <2> DEFINE c == s[1]
             d == s[2]
             e == s[3]
             cp == (c % 16) * 4096 + (d % 64) * 64 + (e % 64)
             rows == \/ c = 224 /\ d \in 160..191
                     \/ c \in (225..236) \cup {238, 239} /\ d \in 128..191
                     \/ c = 237 /\ d \in 128..159
             rows1 == \/ c = 224 /\ d \in 160..191
                      \/ c \in (225..236) \cup {238, 239}
                      \/ c = 237 /\ d \in 128..159
  <2>1. c \in Byte /\ d \in Byte /\ e \in Byte /\ b[0] = c /\ b[1] = d /\ b[2] = e
    BY <1>3, ElementOfSeq DEF Reads
  <2>2. Row(s) <=> e \in 128..191 /\ rows
    BY <1>3 DEF Row
  <2>3. Assembled(b, 3) = cp
    BY <2>1 DEF Assembled
  <2>4. Text!CodePoint(s) = (c - 224) * 4096 + (d - 128) * 64 + e - 128
    BY <1>3 DEF Text!CodePoint
  <2>5. ContinuationBytes(b, 3) <=> d \div 64 = 2 /\ e \div 64 = 2
    <3>1. \A i \in 1..(3 - 1) : i = 1 \/ i = 2
      OBVIOUS
    <3> QED BY <2>1, <3>1 DEF ContinuationBytes
  <2>6. SizeOf(c) = 3
    BY <1>3
  <2> HIDE DEF c, d, e
  <2>7. c \in 224..239
    BY <2>1, <2>6 DEF SizeOf, Byte
  <2>8. CASE d \in 128..191 /\ e \in 128..191
    <3>1. /\ cp = (c - 224) * 4096 + (d - 128) * 64 + e - 128 /\ cp \in Nat
          /\ cp > 2047 /\ ~(cp >= 55296 /\ cp <= 57343) <=> rows1
      <4>1. c % 16 = c - 224 /\ d % 64 = d - 128 /\ e % 64 = e - 128
        BY <2>7, <2>8, SMT
      <4> HIDE DEF rows1, cp
      <4>2. cp = (c - 224) * 4096 + (d - 128) * 64 + e - 128 /\ cp \in Nat
        BY <2>7, <2>8, <4>1, SMT DEF cp
      <4>3. cp > 2047 /\ ~(cp >= 55296 /\ cp <= 57343) <=> rows1
        BY <2>7, <2>8, <4>2, SMT DEF rows1
      <4> QED BY <4>2, <4>3, SMT
    <3> HIDE DEF cp
    <3>2. rows <=> rows1
      BY <2>8
    <3> HIDE DEF rows, rows1
    <3>3. Acceptable(3, cp) <=> rows1
      BY <3>1 DEF Acceptable
    <3>4. d \div 64 = 2 /\ e \div 64 = 2
      BY <2>1, <2>8, ContinuationByte
    <3> QED BY <1>0, <1>3, <2>2, <2>3, <2>4, <2>5, <2>8, <3>1, <3>2, <3>3, <3>4
  <2>9. CASE ~(d \in 128..191 /\ e \in 128..191)
    <3>1. rows => d \in 128..191
      OBVIOUS
    <3> HIDE DEF rows
    <3>2. ~ContinuationBytes(b, 3) /\ ~Row(s)
      BY <2>1, <2>2, <2>5, <2>9, <3>1, ContinuationByte
    <3> QED BY <1>0, <1>3, <3>2
  <2> QED BY <2>8, <2>9
<1>4. CASE Len(s) = 4
  <2> DEFINE c == s[1]
             d == s[2]
             e == s[3]
             f == s[4]
             cp == (c % 8) * 262144 + (d % 64) * 4096 + (e % 64) * 64 + (f % 64)
             rows == \/ c = 240 /\ d \in 144..191
                     \/ c \in 241..243 /\ d \in 128..191
                     \/ c = 244 /\ d \in 128..143
             rows1 == \/ c = 240 /\ d \in 144..191
                      \/ c \in 241..243
                      \/ c = 244 /\ d \in 128..143
  <2>1. /\ c \in Byte /\ d \in Byte /\ e \in Byte /\ f \in Byte
        /\ b[0] = c /\ b[1] = d /\ b[2] = e /\ b[3] = f
    <3>1. c \in Byte /\ d \in Byte /\ e \in Byte /\ f \in Byte
      BY <1>4, ElementOfSeq
    <3>2. 0 \in 0..3 /\ 1 \in 0..3 /\ 2 \in 0..3 /\ 3 \in 0..3
      OBVIOUS
    <3>3. b[0] = c /\ b[1] = d /\ b[2] = e /\ b[3] = f
      BY <1>4, <3>2 DEF Reads
    <3> QED BY <3>1, <3>3
  <2>2. Row(s) <=> e \in 128..191 /\ f \in 128..191 /\ rows
    BY <1>4 DEF Row
  <2>3. Assembled(b, 4) = cp
    BY <2>1 DEF Assembled
  <2>4. Text!CodePoint(s) = (c - 240) * 262144 + (d - 128) * 4096 + (e - 128) * 64 + f - 128
    BY <1>4 DEF Text!CodePoint
  <2>5. ContinuationBytes(b, 4) <=> d \div 64 = 2 /\ e \div 64 = 2 /\ f \div 64 = 2
    <3>1. \A i \in 1..(4 - 1) : i = 1 \/ i = 2 \/ i = 3
      OBVIOUS
    <3> QED BY <2>1, <3>1 DEF ContinuationBytes
  <2>6. SizeOf(c) = 4
    BY <1>4
  <2> HIDE DEF c, d, e, f
  <2>7. c \in 240..247
    BY <2>1, <2>6 DEF SizeOf, Byte
  <2>8. CASE d \in 128..191 /\ e \in 128..191 /\ f \in 128..191
    <3>1. /\ cp = (c - 240) * 262144 + (d - 128) * 4096 + (e - 128) * 64 + f - 128
          /\ cp \in Nat
          /\ cp > 65535 /\ cp <= UNICODE_MAX_VALUE <=> rows1
      <4> HIDE DEF rows1, cp
      <4>1. c % 8 = c - 240 /\ d % 64 = d - 128 /\ e % 64 = e - 128 /\ f % 64 = f - 128
        BY <2>7, <2>8, SMT
      <4>2. cp = (c - 240) * 262144 + (d - 128) * 4096 + (e - 128) * 64 + f - 128 /\ cp \in Nat
        BY <2>7, <2>8, <4>1, SMT DEF cp
      <4>3. cp > 65535 /\ cp <= UNICODE_MAX_VALUE <=> rows1
        BY <2>7, <2>8, <4>2, SMT DEF rows1, UNICODE_MAX_VALUE
      <4> QED BY <4>2, <4>3, SMT
    <3> HIDE DEF cp
    <3>2. rows <=> rows1
      BY <2>8
    <3> HIDE DEF rows, rows1
    <3>3. Acceptable(4, cp) <=> rows1
      BY <3>1 DEF Acceptable
    <3>4. d \div 64 = 2 /\ e \div 64 = 2 /\ f \div 64 = 2
      BY <2>1, <2>8, ContinuationByte
    <3> QED BY <1>0, <1>4, <2>2, <2>3, <2>4, <2>5, <2>8, <3>1, <3>2, <3>3, <3>4
  <2>9. CASE ~(d \in 128..191 /\ e \in 128..191 /\ f \in 128..191)
    <3>1. rows => d \in 128..191
      OBVIOUS
    <3> HIDE DEF rows
    <3>2. ~ContinuationBytes(b, 4) /\ ~Row(s)
      BY <2>1, <2>2, <2>5, <2>9, <3>1, ContinuationByte
    <3> QED BY <1>0, <1>4, <3>2
  <2> QED BY <2>8, <2>9
<1> QED BY <1>1, <1>2, <1>3, <1>4

(* Encoding the code point of a well-formed sequence gives it back.        *)
LEMMA EncodedBack ==
  ASSUME NEW s \in Seq(Byte), Text!WellFormed(s)
  PROVE  encodeUTF8(Text!CodePoint(s)) = s
<1> DEFINE cp == Text!CodePoint(s)
           t == encodeUTF8(cp)
<1>1. Row(s)
  BY WellFormedRow
<1>2. CASE Len(s) = 1
  <2> DEFINE c == s[1]
  <2>1. c \in 0..127 /\ cp = c
    BY <1>1, <1>2, SMT DEF Row, Text!CodePoint
  <2> DEFINE u == <<c>>
  <2>2. t = u
    <3> HIDE DEF c, cp
    <3> QED BY <2>1, SMT DEF encodeUTF8
  <2>3. u \in Seq(Byte) /\ Len(u) = 1 /\ u[1] = c
    BY <2>1, SMT DEF Byte
  <2> HIDE DEF u
  <2>4. \A i \in 1..Len(u) : u[i] = s[i]
    BY <2>3, SMT
  <2> HIDE DEF t
  <2>5. u = s
    BY <1>2, <2>3, <2>4, SeqEqual
  <2> QED BY <2>2, <2>5 DEF t
<1>3. CASE Len(s) = 2
  <2> DEFINE c == s[1]
             d == s[2]
  <2>1. c \in 194..223 /\ d \in 128..191 /\ cp = (c - 192) * 64 + d - 128
    BY <1>1, <1>3, SMT DEF Row, Text!CodePoint
  <2> DEFINE u == <<c, d>>
  <2>2. t = u
    <3> HIDE DEF c, d, cp
    <3>1. cp > 127 /\ cp <= 2047 /\ (cp \div 64) + 192 = c /\ cp \in Nat
      BY <2>1, SMT
    <3>2. Continuation(cp, 1) = d
      BY <2>1, SMT DEF Continuation
    <3> QED BY <3>1, <3>2, SMT DEF encodeUTF8
  <2>3. u \in Seq(Byte) /\ Len(u) = 2 /\ u[1] = c /\ u[2] = d
    BY <2>1, SMT DEF Byte
  <2> HIDE DEF u
  <2>4. \A i \in 1..Len(u) : u[i] = s[i]
    BY <2>3, SMT
  <2> HIDE DEF t
  <2>5. u = s
    BY <1>3, <2>3, <2>4, SeqEqual
  <2> QED BY <2>2, <2>5 DEF t
<1>4. CASE Len(s) = 3
  <2> DEFINE c == s[1]
             d == s[2]
             e == s[3]
  <2>1. /\ c \in 224..239 /\ d \in 128..191 /\ e \in 128..191 /\ (c = 224 => d \in 160..191)
        /\ cp = (c - 224) * 4096 + (d - 128) * 64 + e - 128
    <3>1. cp = (c - 224) * 4096 + (d - 128) * 64 + e - 128
      BY <1>4, SMT DEF Text!CodePoint
    <3>2. e \in 128..191
      BY <1>1, <1>4, SMT DEF Row
    <3>3. \/ c = 224 /\ d \in 160..191
          \/ c \in (225..236) \cup {238, 239} /\ d \in 128..191
          \/ c = 237 /\ d \in 128..159
      BY <1>1, <1>4, SMT DEF Row
    <3> HIDE DEF c, d, e, cp
    <3>4. c \in 224..239
      BY <3>3, SMT
    <3>5. d \in 128..191
      BY <3>3, SMT
    <3>6. c = 224 => d \in 160..191
      BY <3>3, SMT
    <3> QED BY <3>1, <3>2, <3>4, <3>5, <3>6, Zenon
  <2> DEFINE u == <<c, d, e>>
  <2>2. t = u
    <3> HIDE DEF c, d, e, cp
    <3>1. cp > 2047 /\ cp <= 65535 /\ cp \in Nat
      BY <2>1, SMT
    <3>2. (cp \div 4096) + 224 = c
      BY <2>1, SMT
    <3>3. Continuation(cp, 64) = d
      <4>1. cp \div 64 = (c - 224) * 64 + (d - 128)
        BY <2>1, SMT
      <4>2. ((c - 224) * 64 + (d - 128)) % 64 = d - 128
        BY <2>1, SMT
      <4> QED BY <2>1, <4>1, <4>2, SMT DEF Continuation
    <3>4. Continuation(cp, 1) = e
      <4>1. cp \div 1 = cp
        BY <3>1, SMT
      <4>2. cp % 64 = e - 128
        BY <2>1, SMT
      <4> QED BY <2>1, <4>1, <4>2, SMT DEF Continuation
    <3>5. ~(cp <= 127) /\ ~(cp <= 2047)
      BY <3>1, SMT
    <3> QED BY <3>1, <3>2, <3>3, <3>4, <3>5, SMT DEF encodeUTF8
  <2>3. u \in Seq(Byte) /\ Len(u) = 3 /\ u[1] = c /\ u[2] = d /\ u[3] = e
    BY <2>1, SMT DEF Byte
  <2> HIDE DEF u
  <2>4. \A i \in 1..Len(u) : u[i] = s[i]
    BY <2>3, SMT
  <2> HIDE DEF t
  <2>5. u = s
    BY <1>4, <2>3, <2>4, SeqEqual
  <2> QED BY <2>2, <2>5 DEF t
<1>5. CASE Len(s) = 4
  <2> DEFINE c == s[1]
             d == s[2]
             e == s[3]
             f == s[4]
             sum == (c - 240) * 262144 + (d - 128) * 4096 + (e - 128) * 64 + f - 128
  <2>1. /\ c \in 240..244 /\ d \in 128..191 /\ e \in 128..191 /\ f \in 128..191
        /\ (c = 240 => d >= 144)
        /\ cp = sum
    <3>1. cp = sum
      BY <1>5, SMT DEF Text!CodePoint
    <3>2. e \in 128..191 /\ f \in 128..191
      BY <1>1, <1>5, SMT DEF Row
    <3>3. \/ c = 240 /\ d \in 144..191
          \/ c \in 241..243 /\ d \in 128..191
          \/ c = 244 /\ d \in 128..143
      BY <1>1, <1>5, SMT DEF Row
    <3> HIDE DEF c, d, e, f, cp, sum
    <3>4. c \in 240..244
      BY <3>3, SMT
    <3>5. d \in 128..191
      BY <3>3, SMT
    <3>6. ASSUME c = 240
          PROVE  d >= 144
      <4>1. c \notin 241..243 /\ c # 244
        BY <3>6, SMT
      <4>2. d \in 144..191
        BY <3>3, <4>1, Zenon
      <4> QED BY <4>2, SMT
    <3>7. e \in 128..191
      BY <3>2, Zenon
    <3>8. f \in 128..191
      BY <3>2, Zenon
    <3> QED BY <3>1, <3>4, <3>5, <3>6, <3>7, <3>8, Zenon
  <2> DEFINE u == <<c, d, e, f>>
  <2>2. t = u
    <3> HIDE DEF c, d, e, f, cp
    <3>1. cp > 65535 /\ cp \in Nat
      BY <2>1, SMT
    <3>2. ((cp \div 262144) % 8) + 240 = c
      <4>1. cp \div 262144 = c - 240
        BY <2>1, SMT
      <4> QED BY <2>1, <4>1, SMT
    <3>3. Continuation(cp, 4096) = d
      <4>1. cp \div 4096 = (c - 240) * 64 + (d - 128)
        BY <2>1, SMT
      <4>2. ((c - 240) * 64 + (d - 128)) % 64 = d - 128
        BY <2>1, SMT
      <4> QED BY <2>1, <4>1, <4>2, SMT DEF Continuation
    <3>4. Continuation(cp, 64) = e
      <4>1. cp \div 64 = (c - 240) * 4096 + (d - 128) * 64 + (e - 128)
        BY <2>1, SMT
      <4>2. ((c - 240) * 4096 + (d - 128) * 64 + (e - 128)) % 64 = e - 128
        BY <2>1, SMT
      <4> QED BY <2>1, <4>1, <4>2, SMT DEF Continuation
    <3>5. Continuation(cp, 1) = f
      <4>1. cp \div 1 = cp
        BY <3>1, SMT
      <4>2. cp % 64 = f - 128
        BY <2>1, SMT
      <4> QED BY <2>1, <4>1, <4>2, SMT DEF Continuation
    <3>6. ~(cp <= 127) /\ ~(cp <= 2047) /\ ~(cp <= 65535)
      BY <3>1, SMT
    <3> QED BY <3>2, <3>3, <3>4, <3>5, <3>6, SMT DEF encodeUTF8
  <2>3. u \in Seq(Byte) /\ Len(u) = 4 /\ u[1] = c /\ u[2] = d /\ u[3] = e /\ u[4] = f
    BY <2>1, SMT DEF Byte
  <2> HIDE DEF u
  <2>4. \A i \in 1..Len(u) : u[i] = s[i]
    BY <2>3, SMT
  <2> HIDE DEF t
  <2>5. u = s
    BY <1>5, <2>3, <2>4, SeqEqual
  <2> QED BY <2>2, <2>5 DEF t
<1>6. Len(s) \in {1, 2, 3, 4}
  BY <1>1, SMT DEF Row
<1> QED BY <1>2, <1>3, <1>4, <1>5, <1>6, SMT

-----------------------------------------------------------------------------
(* The inductive invariant.  The number of characters decoded so far tells *)
(* where the input stands, what has been delivered and what reported.      *)
Start(bs, k) == Text!StartOf(bs)[k]
At(bs, k) == IF Start(bs, k) < Len(bs) THEN Start(bs, k) ELSE Len(bs)
Wrong(bs, k) == ~Text!WellFormed(Text!BytesOfChar(bs, k))
Reading(bs, k) ==
  IF Wrong(bs, k) THEN UNICODE_REPLACEMENT_CHARACTER
  ELSE Text!CodePoint(Text!BytesOfChar(bs, k))

(* decodeBuffer looks at the end of a character only if it is in the       *)
(* buffer or the padding stands for what the input does not have.          *)
Position ==
  /\ Len(out) <= Text!CharCount(bytes)
  /\ pc # "decode" => inHead = At(bytes, Len(out)) /\ tail = Len(out)
  /\ pc = "decode" => /\ from = Start(bytes, Len(out))
                      /\ inHead <= from /\ from < to
                      /\ SlowPath => inTail = Len(bytes)

Room ==
  /\ pc = "idle" => Len(out) <= end
  /\ pc # "idle" => Len(out) < end

Ended == eof => pc = "idle" /\ inHead = Len(bytes)

Delivered == \A k \in 1..Len(out) : out[k] = Reading(bytes, k)

(* es holds one report for every ill-formed one of the first m characters. *)
Reports(bs, m, es) ==
  /\ \A i \in 1..Len(es) : \E k \in 1..m : Wrong(bs, k) /\ es[i].in = Start(bs, k - 1)
  /\ \A k \in 1..m : Wrong(bs, k) => \E i \in 1..Len(es) : es[i].in = Start(bs, k - 1)
  /\ \A i, j \in 1..Len(es) : i < j => es[i].in < es[j].in

Inv ==
  /\ TypeOK
  /\ Position
  /\ Room
  /\ Ended
  /\ Delivered
  /\ Reports(bytes, Len(out), errors)

(* The characters before the end of the text, and where they begin         *)
LEMMA StartFacts ==
  ASSUME NEW bs \in Seq(Byte)
  PROVE  /\ Text!CharCount(bs) \in 0..Len(bs) /\ Len(bs) \in Nat
         /\ \A k \in 0..Text!CharCount(bs) : Start(bs, k) \in Nat
         /\ Start(bs, 0) = 0
         /\ \A k \in 0..Text!CharCount(bs) : Start(bs, k) < Len(bs) <=> k < Text!CharCount(bs)
         /\ \A k \in 0..(Text!CharCount(bs) - 1) :
              Start(bs, k + 1) = Start(bs, k) + Text!Announced(bs[Start(bs, k) + 1])
<1> DEFINE n == Len(bs)
           c == Text!CharCount(bs)
           f == Text!StartOf(bs)
<1>1. n \in Nat /\ Starts(bs, f, n)
  BY LenProperties, StartOfProperties
<1>2. f \in [0..n -> Nat] /\ f[0] = 0 /\ \A k \in 1..n : f[k] = StepFrom(bs, f[k - 1])
  BY <1>1 DEF Starts
<1>3. c \in 0..n /\ f[c] >= n /\ \A k \in 0..(c - 1) : f[k] < n
  BY CharCountProperties
<1>4. \A k : Start(bs, k) = f[k]
  BY DEF Start
<1> HIDE DEF c, f, n
<1>5. \A k \in 0..c : f[k] \in Nat
  BY <1>1, <1>2, <1>3
<1>6. \A k \in 0..c : f[k] < n <=> k < c
  <2> SUFFICES ASSUME NEW k \in 0..c PROVE f[k] < n <=> k < c
    OBVIOUS
  <2>1. f[k] \in Nat /\ f[c] \in Nat
    BY <1>1, <1>2, <1>3
  <2>2. CASE k < c
    <3>1. k \in 0..(c - 1)
      BY <1>1, <1>3, <2>2
    <3> QED BY <1>3, <2>2, <3>1
  <2>3. CASE k = c
    BY <1>1, <1>3, <2>1, <2>3
  <2> QED BY <1>1, <1>3, <2>2, <2>3
<1>7. \A k \in 0..(c - 1) : f[k + 1] = f[k] + Text!Announced(bs[f[k] + 1])
  <2> SUFFICES ASSUME NEW k \in 0..(c - 1)
               PROVE  f[k + 1] = f[k] + Text!Announced(bs[f[k] + 1])
    OBVIOUS
  <2>1. k + 1 \in 1..n /\ (k + 1) - 1 = k
    BY <1>1, <1>3
  <2>2. f[k + 1] = StepFrom(bs, f[k]) /\ f[k] < n
    BY <1>2, <1>3, <2>1
  <2> QED BY <2>2 DEF StepFrom, n
<1>8. f[0] = 0
  BY <1>2
<1> QED BY <1>1, <1>3, <1>4, <1>5, <1>6, <1>7, <1>8 DEF c, n

LEMMA StartsAscend ==
  ASSUME NEW bs \in Seq(Byte), NEW j \in 0..Text!CharCount(bs), NEW k \in 0..Text!CharCount(bs)
  PROVE  Start(bs, j) < Start(bs, k) <=> j < k
<1> DEFINE n == Len(bs)
           c == Text!CharCount(bs)
           f == Text!StartOf(bs)
<1>1. n \in Nat /\ Starts(bs, f, n) /\ c \in 0..n
  BY LenProperties, StartOfProperties, CharCountProperties
<1>2. Start(bs, j) = f[j] /\ Start(bs, k) = f[k]
  BY DEF Start
<1>3. /\ f[j] \in Nat /\ f[k] \in Nat
      /\ f[j] < n <=> j < c
      /\ f[k] < n <=> k < c
  BY <1>2, StartFacts
<1>4. j \in 0..n /\ k \in 0..n
  BY <1>1
<1>5. j < k => f[j] <= f[k] /\ (f[j] < n => f[j] < f[k])
  BY <1>1, <1>4, StartsIncrease
<1>6. k < j => f[k] <= f[j]
  BY <1>1, <1>4, StartsIncrease
<1> HIDE DEF f, c, n
<1>7. j < k => j < c
  BY <1>1 DEF c
<1>8. CASE j < k
  BY <1>2, <1>3, <1>5, <1>7, <1>8
<1>9. CASE ~(j < k)
  <2>1. k < j \/ k = j
    BY <1>1, <1>4, <1>9
  <2> QED BY <1>2, <1>3, <1>6, <1>9, <2>1
<1> QED BY <1>8, <1>9

(* What decodeBuffer sees of the character at "from"                       *)
Seen(stack) ==
  [i \in 0..(MAX_UTF8_LEN - 1) |->
     IF i < SizeOf(bytes[from + 1]) THEN ByteAt(from + i, stack) ELSE 0]

(* It finds the character of the text that begins there.                   *)
LEMMA DecodedCharacter ==
  ASSUME Inv, pc = "decode", NEW stack
  PROVE  LET k == Len(out) + 1
             char == Decoded(Seen(stack))
         IN  /\ k \in 1..Text!CharCount(bytes)
             /\ from + char.size = Start(bytes, k)
             /\ char.size \in 1..4
             /\ char.valid <=> ~Wrong(bytes, k)
             /\ char.result = Reading(bytes, k)
             /\ char.result \in Nat
<1> DEFINE m == Len(out)
           k == m + 1
           N == Len(bytes)
           b == Seen(stack)
           s == Text!BytesOfChar(bytes, k)
           lead == bytes[from + 1]
           n == SizeOf(lead)
<1>1. /\ bytes \in Seq(Byte) /\ N \in Nat /\ m \in Nat /\ from \in Nat
      /\ inHead \in 0..N /\ inTail \in inHead..N
  <2>1. /\ bytes \in Seq(Byte) /\ out \in Seq(Nat) /\ from \in Nat
        /\ inHead \in 0..Len(bytes) /\ inTail \in inHead..Len(bytes)
    BY DEF Inv, TypeOK, Byte
  <2> QED BY <2>1, LenProperties
<1>2. /\ m <= Text!CharCount(bytes) /\ from = Start(bytes, m) /\ inHead <= from /\ from < to
      /\ (SlowPath => inTail = N)
  BY DEF Inv, Position
<1>3. /\ from < inTail
      /\ (inTail - inHead < 4 => inTail = N)
      /\ (~(inTail - inHead < 4) => from < inTail - 3)
  BY <1>1, <1>2 DEF SlowPath, available, to, MAX_UTF8_LEN
<1>4. /\ m \in 0..(Text!CharCount(bytes) - 1) /\ k \in 1..Text!CharCount(bytes)
      /\ Start(bytes, k) = from + Text!Announced(lead)
  <2> DEFINE c == Text!CharCount(bytes)
  <2>1. /\ c \in 0..N /\ \A j \in 0..c : Start(bytes, j) < N <=> j < c
        /\ \A j \in 0..(c - 1) :
             Start(bytes, j + 1) = Start(bytes, j) + Text!Announced(bytes[Start(bytes, j) + 1])
    BY <1>1, StartFacts
  <2> HIDE DEF c, m, N
  <2>2. m \in 0..c
    BY <1>1, <1>2, <2>1 DEF c, m
  <2>3. from < N
    BY <1>1, <1>3
  <2>4. m < c
    BY <1>2, <2>1, <2>2, <2>3 DEF m
  <2>5. m \in 0..(c - 1)
    BY <1>1, <2>1, <2>2, <2>4
  <2>6. Start(bytes, m + 1) = Start(bytes, m) + Text!Announced(bytes[Start(bytes, m) + 1])
    BY <2>1, <2>5
  <2>7. m + 1 \in 1..c
    BY <1>1, <2>1, <2>5
  <2> QED BY <1>2, <2>5, <2>6, <2>7 DEF c, m
<1>5. lead \in Byte
  <2>1. from + 1 \in 1..N
    BY <1>1, <1>3
  <2> QED BY <1>1, <2>1, ElementOfSeq
<1>6. n = Text!Announced(lead) /\ n \in 1..4
  BY <1>5, SizeIsAnnounced
<1>7. \A i \in 0..3 : b[i] = IF i < n THEN ByteAt(from + i, stack) ELSE 0
  BY DEF Seen, MAX_UTF8_LEN
<1>8. b[0] = lead
  <2>1. ByteAt(from + 0, stack) = lead
    BY <1>1, <1>3 DEF ByteAt
  <2> QED BY <1>6, <1>7, <2>1
<1> DEFINE len == IF from + n <= N THEN n ELSE N - from
<1>9. /\ s \in Seq(Byte) /\ Len(s) = len /\ len \in 1..n
      /\ \A i \in 1..len : s[i] = bytes[from + i]
  <2>1. Text!StartOf(bytes)[m] = from
    BY <1>2 DEF Start
  <2>2. from \in Nat /\ from < Len(bytes)
    BY <1>1, <1>3
  <2>3. m \in Nat
    BY <1>1
  <2> HIDE DEF m
  <2> QED BY <1>1, <1>6, <2>1, <2>2, <2>3, CharProperties
<1>10. s[1] = lead
  <2>1. 1 \in 1..len
    BY <1>6, <1>9
  <2> QED BY <1>9, <2>1
<1> DEFINE cp == Assembled(b, n)
           v == ContinuationBytes(b, n) /\ Acceptable(n, cp)
<1>11. /\ Decoded(b).size = n /\ Decoded(b).valid = v
       /\ Decoded(b).result = IF v THEN cp ELSE UNICODE_REPLACEMENT_CHARACTER
  BY <1>8 DEF Decoded
<1>12. /\ v <=> Text!WellFormed(s)
       /\ v => cp = Text!CodePoint(s) /\ cp \in Nat
  <2> HIDE DEF b, s, lead, n, N, cp
  <2>1. CASE from + n <= N
    <3>1. from + n <= inTail
      BY <1>1, <1>3, <1>6, <2>1
    <3>2. Len(s) = n
      BY <1>9, <2>1
    <3>3. Reads(b, s)
      <4> SUFFICES ASSUME NEW i \in 1..n PROVE b[i - 1] = s[i]
        BY <3>2 DEF Reads
      <4>1. i - 1 \in 0..3 /\ i - 1 < n /\ from + (i - 1) < inTail
            /\ (from + (i - 1)) + 1 = from + i
        BY <1>1, <1>6, <3>1
      <4>2. b[i - 1] = ByteAt(from + (i - 1), stack)
        BY <1>7, <4>1
      <4>3. ByteAt(from + (i - 1), stack) = bytes[from + i]
        BY <4>1 DEF ByteAt
      <4>4. s[i] = bytes[from + i]
        BY <1>9, <2>1
      <4> QED BY <4>2, <4>3, <4>4
    <3>4. SizeOf(s[1]) = Len(s) /\ Len(s) \in 1..4
      BY <1>6, <1>10, <3>2 DEF n
    <3> QED BY <1>9, <3>2, <3>3, <3>4, DecodedIsCodePoint DEF cp
  <2>2. CASE ~(from + n <= N)
    <3>1. inTail = N /\ N - inHead < 4 /\ len = N - from /\ len \in 1..(n - 1)
      BY <1>1, <1>3, <1>6, <2>2
    <3>2. ~Text!WellFormed(s)
      <4>1. Len(s) # n
        BY <1>6, <1>9, <3>1
      <4> QED BY <1>6, <1>9, <1>10, <4>1, WellFormedIsWhole
    <3>3. ~ContinuationBytes(b, n)
      <4>1. len \in 0..3 /\ len < n /\ from + len = N
        BY <1>1, <1>6, <3>1
      <4>2. b[len] = ByteAt(N, stack)
        BY <1>7, <4>1
      <4>3. ByteAt(N, stack) = 255
        BY <1>1, <3>1 DEF ByteAt, MAX_UTF8_LEN
      <4>4. 255 \div 64 # 2
        BY SMT
      <4> QED BY <3>1, <4>2, <4>3, <4>4 DEF ContinuationBytes
    <3> QED BY <3>2, <3>3
  <2> QED BY <2>1, <2>2
<1> HIDE DEF b, cp, v, n, s
<1>13. Wrong(bytes, k) <=> ~v
  BY <1>12 DEF Wrong, s
<1>14. Reading(bytes, k) = IF v THEN cp ELSE UNICODE_REPLACEMENT_CHARACTER
  <2>1. CASE v
    BY <1>12, <1>13, <2>1 DEF Reading, s
  <2>2. CASE ~v
    BY <1>13, <2>2 DEF Reading
  <2> QED BY <2>1, <2>2
<1>15. Reading(bytes, k) \in Nat
  <2>1. UNICODE_REPLACEMENT_CHARACTER \in Nat
    BY SMT DEF UNICODE_REPLACEMENT_CHARACTER
  <2> HIDE DEF UNICODE_REPLACEMENT_CHARACTER
  <2> QED BY <1>12, <1>14, <2>1
<1>16. from + n = Start(bytes, k)
  BY <1>4, <1>6
<1>17. Decoded(b).valid <=> ~Wrong(bytes, k)
  BY <1>11, <1>13
<1>18. Decoded(b).result = Reading(bytes, k)
  BY <1>11, <1>14
<1> QED BY <1>4, <1>6, <1>11, <1>15, <1>16, <1>17, <1>18 DEF b

(* What a round of decodeBuffer's loop does                                *)
LEMMA DecodeStep ==
  ASSUME Inv, DecodeBuffer
  PROVE  LET k == Len(out) + 1
             next == Start(bytes, k)
         IN  /\ k \in 1..Text!CharCount(bytes) /\ next \in Nat
             /\ out' = Append(out, Reading(bytes, k)) /\ Reading(bytes, k) \in Nat
             /\ errors' = IF Wrong(bytes, k)
                          THEN Append(errors, [in |-> from, out |-> tail]) ELSE errors
             /\ from' = next
             /\ \/ next < to /\ k # end /\ UNCHANGED <<pc, tail, inHead>>
                \/ /\ tail' = k /\ inHead' = At(bytes, k)
                   /\ inHead' \in 0..inTail
                   /\ \/ pc' = "idle" /\ k = end
                      \/ pc' = "read" /\ k # end
             /\ UNCHANGED <<bytes, window, inTail, end, eof>>
<1> DEFINE k == Len(out) + 1
           next == Start(bytes, k)
           N == Len(bytes)
<1>1. pc = "decode"
  BY DEF DecodeBuffer
<1>2. PICK stack \in [MAX_UTF8_LEN..(MAX_UTF8_LEN + 1) -> StackByte] :
        LET char == Decoded(Seen(stack))
            nxt == from + char.size
            full == Len(out) + 1 = end
        IN  /\ out' = Append(out, char.result)
            /\ errors' = IF char.valid THEN errors
                         ELSE Append(errors, [in |-> from, out |-> outOffset])
            /\ from' = nxt
            /\ IF nxt < to /\ ~full
               THEN UNCHANGED <<pc, tail, inHead>>
               ELSE /\ tail' = Len(out) + 1
                    /\ inHead' = Consumed(nxt)
                    /\ pc' = IF full THEN "idle" ELSE "read"
  BY Zenon DEF DecodeBuffer, Seen
<1> DEFINE char == Decoded(Seen(stack))
<1>3. /\ k \in 1..Text!CharCount(bytes)
      /\ from + char.size = next
      /\ char.size \in 1..4
      /\ char.valid <=> ~Wrong(bytes, k)
      /\ char.result = Reading(bytes, k)
      /\ char.result \in Nat
  BY <1>1, DecodedCharacter
<1>4. /\ bytes \in Seq(Byte) /\ N \in Nat /\ from \in Nat
      /\ inHead \in 0..N /\ inTail \in inHead..N
  <2>1. bytes \in Seq(Byte) /\ from \in Nat /\ inHead \in 0..N /\ inTail \in inHead..N
    BY DEF Inv, TypeOK, Byte
  <2> QED BY <2>1, LenProperties
<1>5. from < to /\ (SlowPath => inTail = N)
  BY <1>1 DEF Inv, Position
<1> HIDE DEF char, k
<1>6. out' = Append(out, Reading(bytes, k)) /\ Reading(bytes, k) \in Nat
  BY <1>2, <1>3 DEF char
<1>7. errors' = IF Wrong(bytes, k) THEN Append(errors, [in |-> from, out |-> tail]) ELSE errors
  BY <1>2, <1>3 DEF char, outOffset
<1>8. from' = next
  BY <1>2, <1>3 DEF char
<1>9. Consumed(next) = At(bytes, k) /\ Consumed(next) \in 0..inTail /\ next \in Nat
  <2> HIDE DEF next, N
  <2>1. next \in Nat /\ from < next /\ next <= from + 4
    BY <1>3, <1>4
  <2>2. inTail = N \/ next <= inTail
    BY <1>4, <1>5, <2>1 DEF SlowPath, available, to, MAX_UTF8_LEN
  <2>3. At(bytes, k) = IF next < N THEN next ELSE N
    BY DEF At, next, N
  <2> QED BY <1>4, <2>1, <2>2, <2>3 DEF Consumed
<1>10. \/ next < to /\ k # end /\ UNCHANGED <<pc, tail, inHead>>
       \/ /\ tail' = k /\ inHead' = Consumed(next)
          /\ \/ pc' = "idle" /\ k = end
             \/ pc' = "read" /\ k # end
  BY <1>2, <1>3 DEF char, k
<1>11. UNCHANGED <<bytes, window, inTail, end, eof>>
  BY DEF DecodeBuffer
<1> HIDE DEF next
<1>12. \/ next < to /\ k # end /\ UNCHANGED <<pc, tail, inHead>>
       \/ /\ tail' = k /\ inHead' = At(bytes, k)
          /\ inHead' \in 0..inTail
          /\ \/ pc' = "idle" /\ k = end
             \/ pc' = "read" /\ k # end
  BY <1>9, <1>10
<1> QED BY <1>3, <1>6, <1>7, <1>8, <1>9, <1>11, <1>12, Zenon DEF k, next

(* One more character                                                      *)
LEMMA ReportsGrow ==
  ASSUME NEW bs \in Seq(Byte), NEW m \in Nat, m + 1 <= Text!CharCount(bs),
         NEW es \in Seq([in : Nat, out : Nat]), Reports(bs, m, es),
         NEW e \in [in : Nat, out : Nat], e.in = Start(bs, m)
  PROVE  /\ Wrong(bs, m + 1) => Reports(bs, m + 1, Append(es, e))
         /\ ~Wrong(bs, m + 1) => Reports(bs, m + 1, es)
<1> DEFINE c == Text!CharCount(bs)
           n == Len(es)
           fs == Append(es, e)
<1>1. /\ \A i \in 1..n : \E k \in 1..m : Wrong(bs, k) /\ es[i].in = Start(bs, k - 1)
      /\ \A k \in 1..m : Wrong(bs, k) => \E i \in 1..n : es[i].in = Start(bs, k - 1)
      /\ \A i, j \in 1..n : i < j => es[i].in < es[j].in
  BY DEF Reports
<1>2. n \in Nat /\ Len(fs) = n + 1 /\ fs[n + 1] = e /\ \A i \in 1..n : fs[i] = es[i]
  BY LenProperties, AppendProperties
<1>3. c \in Nat /\ m + 1 \in 1..c
  <2>1. c \in Nat
    BY StartFacts
  <2> QED BY <2>1
<1> HIDE DEF c, n, fs
<1>4. (m + 1) - 1 = m /\ 1..m \subseteq 1..(m + 1) /\ m + 1 \in 1..(m + 1)
  OBVIOUS
<1>5. \A k \in 1..(m + 1) : k \in 1..m \/ k = m + 1
  OBVIOUS
<1>6. ASSUME Wrong(bs, m + 1)
      PROVE  Reports(bs, m + 1, fs)
  <2>1. \A i \in 1..(n + 1) : i \in 1..n \/ i = n + 1
    BY <1>2
  <2>2. \A i \in 1..n : i \in 1..(n + 1) /\ i < n + 1 /\ ~(n + 1 < i)
    BY <1>2
  <2>3. n + 1 \in 1..(n + 1) /\ ~(n + 1 < n + 1)
    BY <1>2
  <2>4. ASSUME NEW i \in 1..(n + 1)
        PROVE  \E k \in 1..(m + 1) : Wrong(bs, k) /\ fs[i].in = Start(bs, k - 1)
    <3>1. CASE i \in 1..n
      <4>1. PICK k \in 1..m : Wrong(bs, k) /\ es[i].in = Start(bs, k - 1)
        BY <1>1, <3>1
      <4> QED BY <1>2, <1>4, <3>1, <4>1
    <3>2. CASE i = n + 1
      BY <1>2, <1>4, <1>6, <3>2
    <3> QED BY <2>1, <3>1, <3>2
  <2>5. ASSUME NEW k \in 1..(m + 1), Wrong(bs, k)
        PROVE  \E i \in 1..(n + 1) : fs[i].in = Start(bs, k - 1)
    <3>1. CASE k \in 1..m
      <4>1. PICK i \in 1..n : es[i].in = Start(bs, k - 1)
        BY <1>1, <2>5, <3>1
      <4> QED BY <1>2, <2>2, <4>1
    <3>2. CASE k = m + 1
      BY <1>2, <1>4, <2>3, <3>2
    <3> QED BY <1>5, <3>1, <3>2
  <2>6. ASSUME NEW i \in 1..n
        PROVE  es[i].in < e.in
    <3>1. PICK k \in 1..m : es[i].in = Start(bs, k - 1)
      BY <1>1
    <3>2. k - 1 \in 0..c /\ m \in 0..c /\ k - 1 < m
      BY <1>3
    <3>3. Start(bs, k - 1) < Start(bs, m)
      BY <3>2, StartsAscend DEF c
    <3> QED BY <3>1, <3>3
  <2>7. ASSUME NEW i \in 1..(n + 1), NEW j \in 1..(n + 1), i < j
        PROVE  fs[i].in < fs[j].in
    <3>1. i \in 1..n
      BY <1>2, <2>7
    <3>2. CASE j \in 1..n
      BY <1>1, <1>2, <2>7, <3>1, <3>2
    <3>3. CASE j = n + 1
      BY <1>2, <2>6, <3>1, <3>3
    <3> QED BY <2>1, <3>2, <3>3
  <2> QED BY <1>2, <2>4, <2>5, <2>7 DEF Reports
<1>7. ASSUME ~Wrong(bs, m + 1)
      PROVE  Reports(bs, m + 1, es)
  <2>1. \A i \in 1..n : \E k \in 1..(m + 1) : Wrong(bs, k) /\ es[i].in = Start(bs, k - 1)
    BY <1>1, <1>4
  <2>2. \A k \in 1..(m + 1) : Wrong(bs, k) => \E i \in 1..n : es[i].in = Start(bs, k - 1)
    BY <1>1, <1>5, <1>7
  <2> QED BY <1>1, <2>1, <2>2 DEF Reports, n
<1> QED BY <1>6, <1>7 DEF fs

-----------------------------------------------------------------------------
(* The invariant at the beginning: the input stands at its first byte, no  *)
(* character has been asked for and nothing was reported.                  *)
LEMMA InitInv == Init => Inv
<1> SUFFICES ASSUME Init PROVE Inv
  OBVIOUS
<1> USE DEF Init
<1>1. bytes \in Seq(Byte) /\ Len(bytes) \in Nat
  <2>1. bytes \in Seq(Byte)
    BY SourceAssumption DEF Byte
  <2> QED BY <2>1, LenProperties
<1>2. Len(out) = 0 /\ Len(errors) = 0
  OBVIOUS
<1>3. TypeOK
  <2>1. bytes \in Seq(0..255)
    BY <1>1 DEF Byte
  <2>2. inHead \in 0..Len(bytes) /\ inTail \in inHead..Len(bytes)
    BY <1>1
  <2>3. out \in Seq(Nat) /\ errors \in Seq([in : Nat, out : Nat])
    BY EmptySeq
  <2>4. tail \in 0..Len(out)
    BY <1>2
  <2> QED BY <2>1, <2>2, <2>3, <2>4 DEF TypeOK
<1>4. Position
  <2>1. Text!CharCount(bytes) \in Nat /\ Start(bytes, 0) = 0
    BY <1>1, StartFacts
  <2>2. At(bytes, 0) = 0
    BY <1>1, <2>1 DEF At
  <2> QED BY <1>2, <2>1, <2>2 DEF Position
<1>5. Room /\ Ended
  BY <1>2 DEF Room, Ended
<1>6. Delivered /\ Reports(bytes, Len(out), errors)
  BY <1>2 DEF Delivered, Reports
<1> QED BY <1>3, <1>4, <1>5, <1>6 DEF Inv

(* doRead leaves its loop with an empty buffer only at the end of the      *)
(* input, and goes to decodeBuffer with fewer than four bytes only if they *)
(* are the last ones.                                                      *)
LEMMA Filled ==
  ASSUME Inv
  PROVE  /\ inTailFilled \in inHead..Len(bytes)
         /\ inTailFilled = inHead => inHead = Len(bytes)
         /\ inTailFilled - inHead < MAX_UTF8_LEN => inTailFilled = Len(bytes)
<1>1. /\ Len(bytes) \in Nat /\ inHead \in 0..Len(bytes) /\ inTail \in inHead..Len(bytes)
      /\ window \in Nat /\ window >= 4
  <2>1. /\ bytes \in Seq(Byte) /\ inHead \in 0..Len(bytes) /\ inTail \in inHead..Len(bytes)
        /\ window \in Window
    BY DEF Inv, TypeOK, Byte
  <2>2. window \in Nat /\ window >= 4
    BY <2>1, WindowAssumption DEF MAX_UTF8_LEN
  <2> QED BY <2>1, <2>2, LenProperties
<1> QED BY <1>1 DEF inTailFilled, available, MAX_UTF8_LEN

LEMMA GetInv ==
  ASSUME Inv, Get
  PROVE  Inv'
<1> USE DEF Get
<1>1. /\ out \in Seq(Nat) /\ Len(out) \in Nat /\ tail = Len(out) /\ inHead = At(bytes, Len(out))
      /\ Len(out) <= Text!CharCount(bytes)
  <2>1. out \in Seq(Nat) /\ tail = Len(out) /\ inHead = At(bytes, Len(out))
    BY DEF Inv, TypeOK, Position
  <2>2. Len(out) <= Text!CharCount(bytes)
    BY DEF Inv, Position
  <2> QED BY <2>1, <2>2, LenProperties
<1>2. end' \in Nat /\ Len(out) < end'
  BY <1>1, OutSizeAssumption
<1>3. TypeOK'
  <2>1. TypeOK
    BY DEF Inv
  <2> QED BY <1>2, <2>1 DEF TypeOK
<1>4. Position'
  BY <1>1 DEF Position
<1>5. Room' /\ Ended'
  BY <1>2 DEF Room, Ended
<1>6. Delivered'
  <2>1. Delivered
    BY DEF Inv
  <2> QED BY <2>1 DEF Delivered
<1>7. Reports(bytes, Len(out), errors)'
  <2>1. Reports(bytes, Len(out), errors)
    BY DEF Inv
  <2> QED BY <2>1 DEF Reports
<1> QED BY <1>3, <1>4, <1>5, <1>6, <1>7 DEF Inv

LEMMA DoReadInv ==
  ASSUME Inv, DoRead
  PROVE  Inv'
<1>1. /\ out \in Seq(Nat) /\ Len(out) \in Nat /\ tail = Len(out) /\ inHead = At(bytes, Len(out))
      /\ Len(out) <= Text!CharCount(bytes) /\ Len(out) < end /\ ~eof
      /\ bytes \in Seq(Byte) /\ Len(bytes) \in Nat /\ inHead \in 0..Len(bytes)
  <2>1. /\ out \in Seq(Nat) /\ tail = Len(out) /\ inHead = At(bytes, Len(out))
        /\ bytes \in Seq(Byte) /\ inHead \in 0..Len(bytes)
    BY DEF Inv, TypeOK, Position, DoRead, Byte
  <2>2. Len(out) <= Text!CharCount(bytes)
    BY DEF Inv, Position
  <2>3. Len(out) < end
    BY DEF Inv, Room, DoRead
  <2>4. eof \in BOOLEAN
    BY DEF Inv, TypeOK
  <2>5. ~eof
    BY <2>4 DEF Inv, Ended, DoRead
  <2> QED BY <2>1, <2>2, <2>3, <2>5, LenProperties
<1> DEFINE filled == inTailFilled
<1>2. /\ filled \in inHead..Len(bytes)
      /\ filled = inHead => inHead = Len(bytes)
      /\ filled - inHead < 4 => filled = Len(bytes)
  BY Filled DEF MAX_UTF8_LEN
<1>3. /\ pc = "read" /\ inTail' = filled
      /\ \/ filled = inHead /\ pc' = "idle" /\ eof' = NothingDecoded /\ from' = from
         \/ filled # inHead /\ pc' = "decode" /\ from' = inHead /\ eof' = eof
      /\ UNCHANGED <<bytes, window, inHead, out, tail, end, errors>>
  BY DEF DoRead
<1> HIDE DEF filled
<1>4. TypeOK'
  <2>1. TypeOK
    BY DEF Inv
  <2>2. inHead' \in 0..Len(bytes') /\ inTail' \in inHead'..Len(bytes')
    BY <1>1, <1>2, <1>3
  <2>3. from' \in Nat
    BY <1>1, <1>3, <2>1 DEF TypeOK
  <2>4. eof' \in BOOLEAN
    BY <1>3, <2>1 DEF TypeOK, NothingDecoded
  <2> QED BY <1>3, <2>1, <2>2, <2>3, <2>4 DEF TypeOK
<1>5. Position'
  <2>1. CASE pc' = "idle"
    BY <1>1, <1>3, <2>1 DEF Position
  <2>2. CASE pc' = "decode"
    <3>1. from' = inHead /\ filled # inHead
      BY <1>3, <2>2
    <3>2. inHead < Len(bytes) /\ inHead = Start(bytes, Len(out))
      <4>1. inHead < Len(bytes)
        BY <1>1, <1>2, <3>1
      <4> QED BY <1>1, <4>1 DEF At
    <3>3. from' < to' /\ (SlowPath' => inTail' = Len(bytes'))
      BY <1>1, <1>2, <1>3, <3>1 DEF to, SlowPath, available, MAX_UTF8_LEN
    <3>4. inHead' <= from'
      BY <1>1, <1>3, <3>1
    <3>5. from' = Start(bytes', Len(out'))
      BY <1>3, <3>1, <3>2
    <3> QED BY <1>1, <1>3, <2>2, <3>3, <3>4, <3>5 DEF Position
  <2> QED BY <1>3, <2>1, <2>2
<1>6. Room'
  <2>1. end \in Nat
    BY DEF Inv, TypeOK
  <2> QED BY <1>1, <1>3, <2>1 DEF Room
<1>7. Ended'
  BY <1>1, <1>2, <1>3 DEF Ended
<1>8. Delivered'
  <2>1. Delivered
    BY DEF Inv
  <2> QED BY <1>3, <2>1 DEF Delivered
<1>9. Reports(bytes, Len(out), errors)'
  <2>1. Reports(bytes, Len(out), errors)
    BY DEF Inv
  <2> QED BY <1>3, <2>1 DEF Reports
<1> QED BY <1>4, <1>5, <1>6, <1>7, <1>8, <1>9 DEF Inv

LEMMA DecodeBufferInv ==
  ASSUME Inv, DecodeBuffer
  PROVE  Inv'
<1> DEFINE m == Len(out)
           k == m + 1
           next == Start(bytes, k)
           x == Reading(bytes, k)
           e == [in |-> from, out |-> tail]
<1>1. /\ k \in 1..Text!CharCount(bytes) /\ next \in Nat
      /\ out' = Append(out, x) /\ x \in Nat
      /\ errors' = IF Wrong(bytes, k) THEN Append(errors, e) ELSE errors
      /\ from' = next
      /\ \/ next < to /\ k # end /\ UNCHANGED <<pc, tail, inHead>>
         \/ /\ tail' = k /\ inHead' = At(bytes, k)
            /\ inHead' \in 0..inTail
            /\ \/ pc' = "idle" /\ k = end
               \/ pc' = "read" /\ k # end
      /\ UNCHANGED <<bytes, window, inTail, end, eof>>
  BY DecodeStep
<1>2. /\ bytes \in Seq(Byte) /\ Len(bytes) \in Nat /\ out \in Seq(Nat) /\ m \in Nat
      /\ errors \in Seq([in : Nat, out : Nat]) /\ tail \in 0..m
      /\ pc = "decode" /\ from \in Nat /\ from = Start(bytes, m) /\ inHead <= from
      /\ inHead \in 0..Len(bytes) /\ inTail \in inHead..Len(bytes)
      /\ (SlowPath => inTail = Len(bytes)) /\ m < end /\ end \in Nat /\ ~eof
  <2>1. pc = "decode"
    BY DEF DecodeBuffer
  <2>2. /\ bytes \in Seq(Byte) /\ out \in Seq(Nat) /\ errors \in Seq([in : Nat, out : Nat])
        /\ tail \in 0..m /\ from \in Nat /\ inHead \in 0..Len(bytes)
        /\ inTail \in inHead..Len(bytes) /\ end \in Nat /\ eof \in BOOLEAN
    BY DEF Inv, TypeOK, Byte
  <2>3. from = Start(bytes, m) /\ inHead <= from /\ (SlowPath => inTail = Len(bytes))
    BY <2>1 DEF Inv, Position
  <2>4. m < end
    BY <2>1 DEF Inv, Room
  <2>5. ~eof
    BY <2>1, <2>2 DEF Inv, Ended
  <2> QED BY <2>1, <2>2, <2>3, <2>4, <2>5, LenProperties
<1> HIDE DEF next, x, e
<1>3. /\ out' \in Seq(Nat) /\ Len(out') = k /\ out'[k] = x
      /\ \A i \in 1..m : out'[i] = out[i]
  BY <1>1, <1>2, AppendProperties
<1> HIDE DEF m
<1>4. next > from
  <2>1. /\ m \in 0..Text!CharCount(bytes) /\ k \in 0..Text!CharCount(bytes)
        /\ m < k
    <3>1. Text!CharCount(bytes) \in Nat
      BY <1>2, StartFacts
    <3> QED BY <1>1, <1>2, <3>1
  <2>2. Start(bytes, m) < Start(bytes, k)
    BY <1>2, <2>1, StartsAscend
  <2> QED BY <1>1, <1>2, <2>2 DEF next
<1>5. TypeOK'
  <2>1. TypeOK
    BY DEF Inv
  <2>2. errors' \in Seq([in : Nat, out : Nat])
    <3>1. e \in [in : Nat, out : Nat]
      BY <1>2 DEF e
    <3>2. Append(errors, e) \in Seq([in : Nat, out : Nat])
      BY <1>2, <3>1, AppendProperties
    <3> QED BY <1>1, <1>2, <3>2
  <2>3. inHead' \in 0..Len(bytes') /\ inTail' \in inHead'..Len(bytes')
    BY <1>1, <1>2
  <2>4. tail' \in 0..Len(out')
    BY <1>1, <1>2, <1>3
  <2>5. pc' \in {"idle", "read", "decode"}
    BY <1>1, <1>2
  <2> QED BY <1>1, <1>3, <2>1, <2>2, <2>3, <2>4, <2>5 DEF TypeOK
<1>6. Position'
  <2>1. Len(out') <= Text!CharCount(bytes')
    <3>1. Text!CharCount(bytes) \in Nat
      BY <1>2, StartFacts
    <3> QED BY <1>1, <1>3, <3>1
  <2>2. CASE next < to /\ k # end /\ UNCHANGED <<pc, tail, inHead>>
    <3>1. from' = Start(bytes', Len(out'))
      BY <1>1, <1>3 DEF next
    <3>2. inHead' <= from'
      BY <1>1, <1>2, <1>4, <2>2
    <3>3. from' < to' /\ (SlowPath' => inTail' = Len(bytes'))
      BY <1>1, <1>2, <2>2 DEF to, SlowPath, available, MAX_UTF8_LEN
    <3>4. pc' = "decode"
      BY <1>2, <2>2
    <3> QED BY <2>1, <3>1, <3>2, <3>3, <3>4 DEF Position
  <2>3. CASE ~(next < to /\ k # end /\ UNCHANGED <<pc, tail, inHead>>)
    <3>1. /\ tail' = k /\ inHead' = At(bytes, k) /\ pc' # "decode"
      BY <1>1, <2>3
    <3>2. inHead' = At(bytes', Len(out')) /\ tail' = Len(out')
      BY <1>1, <1>3, <3>1
    <3> QED BY <2>1, <3>1, <3>2 DEF Position
  <2> QED BY <2>2, <2>3
<1>7. Room'
  BY <1>1, <1>2, <1>3 DEF Room
<1>8. Ended'
  BY <1>1, <1>2 DEF Ended
<1>9. Delivered'
  <2> SUFFICES ASSUME NEW i \in 1..k
               PROVE  out'[i] = Reading(bytes, i)
    BY <1>1, <1>3 DEF Delivered
  <2>1. CASE i = k
    BY <1>3, <2>1 DEF x
  <2>2. CASE i # k
    <3>1. i \in 1..m
      BY <1>2, <2>2
    <3>2. out[i] = Reading(bytes, i)
      BY <3>1 DEF Inv, Delivered, m
    <3> QED BY <1>3, <3>1, <3>2
  <2> QED BY <2>1, <2>2
<1>10. Reports(bytes, Len(out), errors)'
  <2>1. Reports(bytes, m, errors)
    BY DEF Inv, m
  <2>2. e \in [in : Nat, out : Nat] /\ e.in = Start(bytes, m)
    BY <1>2 DEF e
  <2>3. m + 1 <= Text!CharCount(bytes)
    <3>1. Text!CharCount(bytes) \in Nat
      BY <1>2, StartFacts
    <3> QED BY <1>1, <3>1
  <2>4. /\ Wrong(bytes, k) => Reports(bytes, k, Append(errors, e))
        /\ ~Wrong(bytes, k) => Reports(bytes, k, errors)
    BY <1>2, <2>1, <2>2, <2>3, ReportsGrow
  <2>5. Reports(bytes, k, errors')
    BY <1>1, <2>4
  <2> QED BY <1>1, <1>3, <2>5
<1> QED BY <1>5, <1>6, <1>7, <1>8, <1>9, <1>10 DEF Inv

(* However the buffers of both sides are sized and filled, the number of   *)
(* characters decoded determines where the input stands, what the reader   *)
(* has been given and what was reported.                                   *)
THEOREM Invariant == Spec => []Inv
<1>1. Inv /\ [Next]_vars => Inv'
  <2> SUFFICES ASSUME Inv, [Next]_vars PROVE Inv'
    OBVIOUS
  <2>1. CASE Get
    BY <2>1, GetInv
  <2>2. CASE DoRead
    BY <2>2, DoReadInv
  <2>3. CASE DecodeBuffer
    BY <2>3, DecodeBufferInv
  <2>4. CASE UNCHANGED vars
    BY <2>4 DEF vars, Inv, TypeOK, Position, Room, Ended, Delivered, Reports,
                to, SlowPath, available
  <2> QED BY <2>1, <2>2, <2>3, <2>4 DEF Next
<1> QED BY <1>1, InitInv, PTL DEF Spec

(* Every variable keeps its type: above all, the decoder's reading and     *)
(* writing positions stay inside of the buffers.                           *)
THEOREM TypeCorrect == Spec => []TypeOK
<1>1. Inv => TypeOK
  BY DEF Inv
<1> QED BY <1>1, Invariant, PTL

(* Outside of decodeBuffer the input stands where the next character       *)
(* begins - nothing of it was taken, nothing before it is left - and       *)
(* doRead has not written past the end of the reader's buffer.             *)
THEOREM StopsBetween == Spec => []StopsBetweenCharacters
<1>1. Inv => StopsBetweenCharacters
  <2> SUFFICES ASSUME Inv PROVE StopsBetweenCharacters
    OBVIOUS
  <2>1. pc # "decode" => inHead = At(bytes, Len(out))
    BY DEF Inv, Position
  <2>2. Len(out) <= end
    <3>1. Len(out) \in Nat /\ end \in Nat
      BY LenProperties DEF Inv, TypeOK
    <3>2. Len(out) <= end \/ Len(out) < end
      BY DEF Inv, Room
    <3> QED BY <3>1, <3>2
  <2> QED BY <2>1, <2>2 DEF StopsBetweenCharacters, At, Start
<1> QED BY <1>1, Invariant, PTL

LEMMA DecodingIsReading ==
  ASSUME NEW bs \in Seq(Byte)
  PROVE  /\ Text!Decoding(bs) = [k \in 1..Text!CharCount(bs) |-> Reading(bs, k)]
         /\ Len(Text!Decoding(bs)) = Text!CharCount(bs)
<1> DEFINE c == Text!CharCount(bs)
           R(k) == LET s == Text!BytesOfChar(bs, k)
                   IN  IF Text!WellFormed(s) THEN Text!CodePoint(s) ELSE Text!Replacement
<1>1. Text!Decoding(bs) = [k \in 1..c |-> R(k)]
  BY DEF Text!Decoding
<1>2. ASSUME NEW k
      PROVE  R(k) = Reading(bs, k)
  <2>1. Text!Replacement = UNICODE_REPLACEMENT_CHARACTER
    BY SMT DEF UNICODE_REPLACEMENT_CHARACTER, Text!Replacement
  <2>2. CASE Wrong(bs, k)
    BY <2>1, <2>2 DEF Reading, Wrong
  <2>3. CASE ~Wrong(bs, k)
    BY <2>3 DEF Reading, Wrong
  <2> QED BY <2>2, <2>3
<1> HIDE DEF R
<1>3. Text!Decoding(bs) = [k \in 1..c |-> Reading(bs, k)]
  BY <1>1, <1>2
<1>4. c \in Nat
  BY StartFacts
<1> DEFINE f == [k \in 1..c |-> Reading(bs, k)]
<1>5. Len(f) = c
  <2> HIDE DEF c
  <2> QED BY <1>4
<1> HIDE DEF f, c
<1> QED BY <1>3, <1>5 DEF f, c

(* The text of a character is that of the input, well-formed bytes are     *)
(* restored by encodeUTF8.                                                 *)
LEMMA CharBytes ==
  ASSUME NEW bs \in Seq(Byte), NEW k \in 1..Text!CharCount(bs)
  PROVE  Text!BytesOfChar(bs, k) \in Seq(Byte)
<1>1. Text!CharCount(bs) \in Nat
  BY StartFacts
<1> DEFINE j == k - 1
<1>2. j \in Nat /\ j + 1 = k /\ j \in 0..Text!CharCount(bs) /\ j < Text!CharCount(bs)
  BY <1>1
<1> HIDE DEF j
<1>3. Text!StartOf(bs)[j] \in Nat /\ Text!StartOf(bs)[j] < Len(bs)
  BY <1>2, StartFacts DEF Start
<1>4. Text!BytesOfChar(bs, j + 1) \in Seq(Byte)
  BY <1>2, <1>3, CharProperties
<1> QED BY <1>2, <1>4

(* Whatever falls on the ends of the two buffers, the reader is given the  *)
(* text of the whole input, character by character, all of it when it      *)
(* meets the end of the file; and encodeUTF8 gives back the bytes of each  *)
(* well-formed character.                                                  *)
THEOREM DecodesAlways == Spec => []DecodesTheText
<1>1. Inv => DecodesTheText
  <2> SUFFICES ASSUME Inv PROVE DecodesTheText
    OBVIOUS
  <2> DEFINE c == Text!CharCount(bytes)
             text == Text!Decoding(bytes)
             m == Len(out)
  <2>1. /\ bytes \in Seq(Byte) /\ out \in Seq(Nat) /\ m \in Nat
        /\ m <= c
        /\ \A k \in 1..m : out[k] = Reading(bytes, k)
    <3>1. bytes \in Seq(Byte) /\ out \in Seq(Nat)
      BY DEF Inv, TypeOK, Byte
    <3> QED BY <3>1, LenProperties DEF Inv, Position, Delivered
  <2>2. text = [k \in 1..c |-> Reading(bytes, k)] /\ Len(text) = c
    BY <2>1, DecodingIsReading
  <2>3. c \in 0..Len(bytes) /\ Len(bytes) \in Nat
    BY <2>1, StartFacts
  <2>4. \A k \in 1..m : k \in 1..c
    BY <2>1, <2>3
  <2> HIDE DEF c, text, m
  <2>5. ASSUME NEW k \in 1..m
        PROVE  LET s == Text!BytesOfChar(bytes, k)
               IN  out[k] = text[k] /\ (Text!WellFormed(s) => encodeUTF8(out[k]) = s)
    <3> DEFINE s == Text!BytesOfChar(bytes, k)
    <3>1. out[k] = Reading(bytes, k) /\ text[k] = Reading(bytes, k)
      BY <2>1, <2>2, <2>4
    <3>2. s \in Seq(Byte)
      BY <2>1, <2>4, CharBytes DEF c
    <3>3. Text!WellFormed(s) => out[k] = Text!CodePoint(s)
      BY <3>1 DEF Reading, Wrong
    <3> HIDE DEF s
    <3>4. Text!WellFormed(s) => encodeUTF8(out[k]) = s
      BY <3>2, <3>3, EncodedBack
    <3> QED BY <3>1, <3>4 DEF s
  <2>6. ASSUME eof
        PROVE  out = text
    <3>1. pc = "idle" /\ inHead = Len(bytes)
      BY <2>6 DEF Inv, Ended
    <3>2. inHead = At(bytes, m)
      BY <3>1 DEF Inv, Position, m
    <3>3. m \in 0..c
      BY <2>1, <2>3
    <3>4. Start(bytes, m) < Len(bytes) <=> m < c
      BY <2>1, <3>3, StartFacts DEF c
    <3>5. Start(bytes, m) \in Nat
      BY <2>1, <3>3, StartFacts DEF c
    <3>6. m = c
      BY <2>1, <2>3, <3>1, <3>2, <3>4, <3>5 DEF At
    <3>7. out = [k \in 1..m |-> out[k]]
      BY <2>1, LenProperties DEF m
    <3>8. \A k \in 1..m : out[k] = Reading(bytes, k)
      BY <2>1
    <3> QED BY <2>2, <3>6, <3>7, <3>8
  <2>7. m <= Len(text)
    BY <2>1, <2>2
  <2> QED BY <2>5, <2>6, <2>7, Zenon DEF DecodesTheText, text, m
<1> QED BY <1>1, Invariant, PTL

(* Every ill-formed character is reported, once, at its own offset, in the *)
(* order of the text, and nothing else is.                                 *)
THEOREM ReportsAlways == Spec => []ReportsIllFormed
<1>1. Inv => ReportsIllFormed
  <2> SUFFICES ASSUME Inv PROVE ReportsIllFormed
    OBVIOUS
  <2> DEFINE c == Text!CharCount(bytes)
             m == Len(out)
             n == Len(errors)
             bound == IF pc = "decode" THEN from ELSE inHead
             told == {errors[i].in : i \in 1..n}
             reached == {o \in Text!IllFormed(bytes) : o < bound}
  <2>1. /\ bytes \in Seq(Byte) /\ m \in Nat /\ m <= c /\ c \in Nat /\ Len(bytes) \in Nat
    <3>1. bytes \in Seq(Byte) /\ out \in Seq(Nat)
      BY DEF Inv, TypeOK, Byte
    <3>2. c \in Nat
      BY <3>1, StartFacts
    <3> QED BY <3>1, <3>2, LenProperties DEF Inv, Position
  <2>2. /\ \A i \in 1..n : \E k \in 1..m : Wrong(bytes, k) /\ errors[i].in = Start(bytes, k - 1)
        /\ \A k \in 1..m : Wrong(bytes, k) => \E i \in 1..n : errors[i].in = Start(bytes, k - 1)
        /\ \A i, j \in 1..n : i < j => errors[i].in < errors[j].in
    BY DEF Inv, Reports
  <2>3. bound = Start(bytes, m) \/ bound = At(bytes, m)
    BY DEF Inv, Position
  <2> HIDE DEF c, m, n, bound
  <2>4. ASSUME NEW k \in 1..c
        PROVE  Start(bytes, k - 1) < bound <=> k \in 1..m
    <3>1. k - 1 \in 0..c /\ m \in 0..c /\ k - 1 < c /\ (k - 1 < m <=> k \in 1..m)
      BY <2>1
    <3>2. /\ Start(bytes, k - 1) \in Nat /\ Start(bytes, m) \in Nat
          /\ Start(bytes, k - 1) < Len(bytes)
      BY <2>1, <3>1, StartFacts DEF c
    <3>3. Start(bytes, k - 1) < Start(bytes, m) <=> k - 1 < m
      BY <2>1, <3>1, StartsAscend DEF c
    <3> QED BY <2>1, <2>3, <3>1, <3>2, <3>3 DEF At
  <2>5. Text!IllFormed(bytes) =
          {Text!StartOf(bytes)[k - 1] : k \in {j \in 1..c : ~Text!WellFormed(Text!BytesOfChar(bytes, j))}}
    BY DEF Text!IllFormed, c
  <2>6. \A o : o \in Text!IllFormed(bytes) <=>
                 \E k \in 1..c : Wrong(bytes, k) /\ o = Start(bytes, k - 1)
    BY <2>5, Zenon DEF Wrong, Start
  <2>7. ASSUME NEW o \in told
        PROVE  o \in reached
    <3>1. PICK i \in 1..n : o = errors[i].in
      OBVIOUS
    <3>2. PICK k \in 1..m : Wrong(bytes, k) /\ o = Start(bytes, k - 1)
      BY <2>2, <3>1
    <3>3. k \in 1..c
      BY <2>1
    <3> QED BY <2>4, <2>6, <3>2, <3>3
  <2>8. ASSUME NEW o \in reached
        PROVE  o \in told
    <3>1. PICK k \in 1..c : Wrong(bytes, k) /\ o = Start(bytes, k - 1)
      BY <2>6
    <3>2. k \in 1..m
      BY <2>4, <3>1
    <3>3. PICK i \in 1..n : errors[i].in = o
      BY <2>2, <3>1, <3>2
    <3> QED BY <3>3
  <2> HIDE DEF told, reached
  <2>9. told = reached
    BY <2>7, <2>8
  <2> QED BY <2>2, <2>9 DEF ReportsIllFormed, told, reached, bound, n
<1> QED BY <1>1, Invariant, PTL

=============================================================================
