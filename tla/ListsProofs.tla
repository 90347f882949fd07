------------------------------ MODULE ListsProofs -----------------------------
(***************************************************************************)
(* Iterating over a LinkedList and over a CircularList visits what was put *)
(* into it, for any items and lists.                                       *)
(***************************************************************************)
EXTENDS Lists, TLAPS

(* The links nx and pv lead through the elements of c, in order, from e to *)
(* e: a ring for CircularList, whose e is the list's own entry.  For       *)
(* LinkedList e is the null pointer, the links of which are in the list.   *)
Ring(c, e, pv, nx) ==
  \A i \in 0..Len(c) : nx[At(c, i, e)] = At(c, i + 1, e) /\ pv[At(c, i + 1, e)] = At(c, i, e)

Distinct(c) == \A i, j \in 1..Len(c) : c[i] = c[j] => i = j

Disjoint(c, d) == \A i \in 1..Len(c), j \in 1..Len(d) : c[i] # d[j]

(* d has the elements of c and those of s.                                 *)
Joins(d, c, s) ==
  /\ \A i \in 1..Len(d) : (\E j \in 1..Len(c) : d[i] = c[j]) \/ (\E j \in 1..Len(s) : d[i] = s[j])
  /\ \A j \in 1..Len(c) : \E i \in 1..Len(d) : d[i] = c[j]
  /\ \A j \in 1..Len(s) : \E i \in 1..Len(d) : d[i] = s[j]

-----------------------------------------------------------------------------
(* What Insert makes                                                       *)
LEMMA InsertProperties ==
  ASSUME NEW D, NEW c \in Seq(D), NEW s \in Seq(D), NEW k \in 0..Len(c)
  PROVE  /\ Insert(c, k, s) \in Seq(D)
         /\ Len(Insert(c, k, s)) = Len(c) + Len(s)
         /\ \A i \in 1..Len(Insert(c, k, s)) :
              Insert(c, k, s)[i] = IF i <= k THEN c[i]
                                   ELSE IF i <= k + Len(s) THEN s[i - k] ELSE c[i - Len(s)]
<1> DEFINE n == Len(c) + Len(s)
           F(i) == IF i <= k THEN c[i] ELSE IF i <= k + Len(s) THEN s[i - k] ELSE c[i - Len(s)]
<1>1. Len(c) \in Nat /\ Len(s) \in Nat /\ n \in Nat
  OBVIOUS
<1>2. ASSUME NEW i \in 1..n PROVE F(i) \in D
  <2>1. CASE i <= k
    <3>1. i \in 1..Len(c)
      BY <1>1, <2>1
    <3> QED BY <2>1, <3>1
  <2>2. CASE i > k /\ i <= k + Len(s)
    <3>1. i - k \in 1..Len(s) /\ ~(i <= k)
      BY <1>1, <2>2
    <3> QED BY <2>2, <3>1
  <2>3. CASE i > k /\ i > k + Len(s)
    <3>1. i - Len(s) \in 1..Len(c) /\ ~(i <= k) /\ ~(i <= k + Len(s))
      BY <1>1, <2>3
    <3> QED BY <2>3, <3>1
  <2> QED BY <1>1, <2>1, <2>2, <2>3
<1>3. Insert(c, k, s) = [i \in 1..n |-> F(i)]
  BY DEF Insert
<1> HIDE DEF F, n
<1>4. [i \in 1..n |-> F(i)] \in Seq(D) /\ Len([i \in 1..n |-> F(i)]) = n
  BY <1>1, <1>2
<1>5. \A i \in 1..n : [j \in 1..n |-> F(j)][i] = F(i)
  OBVIOUS
<1> QED BY <1>3, <1>4, <1>5 DEF F, n

(* What Without makes                                                      *)
LEMMA WithoutProperties ==
  ASSUME NEW D, NEW c \in Seq(D), NEW k \in 1..Len(c)
  PROVE  /\ Without(c, k) \in Seq(D)
         /\ Len(Without(c, k)) = Len(c) - 1
         /\ \A i \in 1..Len(Without(c, k)) : Without(c, k)[i] = IF i < k THEN c[i] ELSE c[i + 1]
<1> DEFINE n == Len(c) - 1
           F(i) == IF i < k THEN c[i] ELSE c[i + 1]
<1>1. Len(c) \in Nat /\ n \in Nat
  OBVIOUS
<1>2. ASSUME NEW i \in 1..n PROVE F(i) \in D
  <2>1. i \in 1..Len(c) /\ i + 1 \in 1..Len(c)
    BY <1>1
  <2> QED BY <2>1
<1>3. Without(c, k) = [i \in 1..n |-> F(i)]
  BY DEF Without
<1> HIDE DEF F, n
<1>4. [i \in 1..n |-> F(i)] \in Seq(D) /\ Len([i \in 1..n |-> F(i)]) = n
  BY <1>1, <1>2
<1>5. \A i \in 1..n : [j \in 1..n |-> F(j)][i] = F(i)
  OBVIOUS
<1> QED BY <1>3, <1>4, <1>5 DEF F, n

(* Both ends with one element more are insertions, and so is a             *)
(* concatenation.                                                          *)
LEMMA AppendIsInsert ==
  ASSUME NEW D, NEW c \in Seq(D), NEW x \in D
  PROVE  Append(c, x) = Insert(c, Len(c), <<x>>)
<1>1. /\ <<x>> \in Seq(D) /\ Len(<<x>>) = 1 /\ <<x>>[1] = x
      /\ Len(c) \in 0..Len(c)
  OBVIOUS
<1> DEFINE d == Insert(c, Len(c), <<x>>)
           a == Append(c, x)
<1>2. /\ d \in Seq(D) /\ Len(d) = Len(c) + 1
      /\ \A i \in 1..Len(d) : d[i] = IF i <= Len(c) THEN c[i]
                                     ELSE IF i <= Len(c) + 1 THEN <<x>>[i - Len(c)] ELSE c[i - 1]
  <2> DEFINE s == <<x>>
  <2>1. s \in Seq(D) /\ Len(s) = 1
    BY <1>1
  <2> HIDE DEF s
  <2>2. /\ Insert(c, Len(c), s) \in Seq(D)
        /\ Len(Insert(c, Len(c), s)) = Len(c) + Len(s)
        /\ \A i \in 1..Len(Insert(c, Len(c), s)) :
             Insert(c, Len(c), s)[i] =
               IF i <= Len(c) THEN c[i]
               ELSE IF i <= Len(c) + Len(s) THEN s[i - Len(c)] ELSE c[i - Len(s)]
    BY <1>1, <2>1, InsertProperties
  <2> QED BY <2>1, <2>2, Zenon DEF s
<1>3. a \in Seq(D) /\ Len(a) = Len(c) + 1
      /\ \A i \in 1..Len(a) : a[i] = IF i <= Len(c) THEN c[i] ELSE x
  OBVIOUS
<1> HIDE DEF a, d
<1>4. ASSUME NEW i \in 1..Len(a) PROVE a[i] = d[i]
  BY <1>1, <1>2, <1>3
<1>5. a = d
  BY <1>2, <1>3, <1>4
<1> QED BY <1>5 DEF a, d

LEMMA ConcatIsInsert ==
  ASSUME NEW D, NEW c \in Seq(D), NEW s \in Seq(D)
  PROVE  c \o s = Insert(c, Len(c), s) /\ s \o c = Insert(c, 0, s)
<1> DEFINE d == Insert(c, Len(c), s)
           e == Insert(c, 0, s)
           a == c \o s
           b == s \o c
<1>1. /\ d \in Seq(D) /\ Len(d) = Len(c) + Len(s)
      /\ \A i \in 1..Len(d) : d[i] = IF i <= Len(c) THEN c[i]
                                     ELSE IF i <= Len(c) + Len(s) THEN s[i - Len(c)]
                                     ELSE c[i - Len(s)]
  BY InsertProperties
<1>2. /\ e \in Seq(D) /\ Len(e) = Len(c) + Len(s)
      /\ \A i \in 1..Len(e) : e[i] = IF i <= 0 THEN c[i]
                                     ELSE IF i <= 0 + Len(s) THEN s[i - 0] ELSE c[i - Len(s)]
  BY InsertProperties
<1>3. /\ a \in Seq(D) /\ Len(a) = Len(c) + Len(s)
      /\ \A i \in 1..Len(a) : a[i] = IF i <= Len(c) THEN c[i] ELSE s[i - Len(c)]
  OBVIOUS
<1>4. /\ b \in Seq(D) /\ Len(b) = Len(c) + Len(s)
      /\ \A i \in 1..Len(b) : b[i] = IF i <= Len(s) THEN s[i] ELSE c[i - Len(s)]
  OBVIOUS
<1> HIDE DEF a, b, d, e
<1>5. a = d
  <2>1. ASSUME NEW i \in 1..Len(a) PROVE a[i] = d[i]
    <3>1. i \in 1..Len(d) /\ i <= Len(c) + Len(s)
      BY <1>1, <1>3
    <3>2. a[i] = IF i <= Len(c) THEN c[i] ELSE s[i - Len(c)]
      BY <1>3
    <3>3. d[i] = IF i <= Len(c) THEN c[i] ELSE s[i - Len(c)]
      BY <1>1, <3>1
    <3> QED BY <3>2, <3>3
  <2> QED BY <1>1, <1>3, <2>1
<1>6. b = e
  <2>1. ASSUME NEW i \in 1..Len(b) PROVE b[i] = e[i]
    BY <1>2, <1>4
  <2> QED BY <1>2, <1>4, <2>1
<1> QED BY <1>5, <1>6 DEF a, b, d, e

-----------------------------------------------------------------------------
(* The entries of a ring are different.                                    *)
LEMMA AtInjective ==
  ASSUME NEW D, NEW c \in Seq(D), NEW e, Distinct(c), \A i \in 1..Len(c) : c[i] # e,
         NEW i \in 0..Len(c), NEW j \in 0..Len(c)
  PROVE  /\ At(c, i, e) = At(c, j, e) => i = j
         /\ At(c, i + 1, e) = At(c, j + 1, e) => i = j
<1>1. Len(c) \in Nat
  OBVIOUS
<1>2. At(c, i, e) = At(c, j, e) => i = j
  BY <1>1 DEF At, Distinct
<1>3. At(c, i + 1, e) = At(c, j + 1, e) => i = j
  BY <1>1 DEF At, Distinct
<1> QED BY <1>2, <1>3

(* Links of entries that a change left alone                               *)
LEMMA RingKept ==
  ASSUME NEW D, NEW c \in Seq(D), NEW e, NEW pv, NEW nx, NEW pv2, NEW nx2,
         Ring(c, e, pv, nx),
         \A i \in 0..Len(c) : nx2[At(c, i, e)] = nx[At(c, i, e)]
           /\ pv2[At(c, i, e)] = pv[At(c, i, e)]
  PROVE  Ring(c, e, pv2, nx2)
<1>1. Len(c) \in Nat
  OBVIOUS
<1>2. SUFFICES ASSUME NEW i \in 0..Len(c)
               PROVE  nx2[At(c, i, e)] = At(c, i + 1, e) /\ pv2[At(c, i + 1, e)] = At(c, i, e)
  BY DEF Ring
<1>3. nx2[At(c, i, e)] = At(c, i + 1, e)
  BY DEF Ring
<1>4. pv[At(c, i + 1, e)] = At(c, i, e)
  BY DEF Ring
<1>5. CASE i < Len(c)
  <2>1. i + 1 \in 0..Len(c)
    BY <1>1, <1>5
  <2> QED BY <1>3, <1>4, <2>1
<1>6. CASE i = Len(c)
  <2>1. At(c, i + 1, e) = At(c, 0, e) /\ 0 \in 0..Len(c)
    BY <1>1, <1>6 DEF At
  <2> QED BY <1>3, <1>4, <2>1
<1> QED BY <1>1, <1>5, <1>6

(* Where i is, seen from a chain of n entries behind the k-th              *)
LEMMA Positions ==
  ASSUME NEW i \in Int, NEW k \in Int, NEW n \in Int
  PROVE  i < k \/ i = k \/ (k < i /\ i < k + n) \/ i = k + n \/ i > k + n
OBVIOUS

(* The chain s is put into a ring behind its k-th entry.                   *)
LEMMA RingInsert ==
  ASSUME NEW D, NEW c \in Seq(D), NEW s \in Seq(D), Len(s) > 0, NEW k \in 0..Len(c), NEW e,
         NEW pv, NEW nx, NEW pv2, NEW nx2,
         Distinct(c), Distinct(s), Disjoint(c, s),
         \A i \in 1..Len(c) : c[i] # e,
         \A i \in 1..Len(s) : s[i] # e,
         Ring(c, e, pv, nx),
         \A i \in 1..(Len(s) - 1) : nx2[s[i]] = s[i + 1] /\ pv2[s[i + 1]] = s[i],
         nx2[At(c, k, e)] = s[1], pv2[s[1]] = At(c, k, e),
         nx2[s[Len(s)]] = At(c, k + 1, e), pv2[At(c, k + 1, e)] = s[Len(s)],
         \A i \in 0..Len(c) : i # k => nx2[At(c, i, e)] = nx[At(c, i, e)],
         \A i \in 0..Len(c) : i # k => pv2[At(c, i + 1, e)] = pv[At(c, i + 1, e)]
  PROVE  Ring(Insert(c, k, s), e, pv2, nx2)
<1> DEFINE d == Insert(c, k, s)
           n == Len(s)
           m == Len(c)
<1>1. /\ d \in Seq(D) /\ Len(d) = m + n
      /\ \A i \in 1..Len(d) :
           d[i] = IF i <= k THEN c[i] ELSE IF i <= k + n THEN s[i - k] ELSE c[i - n]
  BY InsertProperties
<1>2. m \in Nat /\ n \in Nat /\ n > 0
  OBVIOUS
<1> HIDE DEF d
<1>3. \A i \in 0..k : At(d, i, e) = At(c, i, e)
  BY <1>1, <1>2 DEF At
<1>4. \A i \in 1..n : At(d, i + k, e) = s[i]
  BY <1>1, <1>2 DEF At
<1>5. \A i \in k..m : At(d, i + 1 + n, e) = At(c, i + 1, e)
  <2>1. SUFFICES ASSUME NEW i \in k..m PROVE At(d, i + 1 + n, e) = At(c, i + 1, e)
    OBVIOUS
  <2>2. i \in Nat /\ ~(i + 1 + n <= k) /\ ~(i + 1 + n <= k + n) /\ i + 1 + n - n = i + 1
    BY <1>2
  <2>3. CASE i + 1 <= m
    <3>1. i + 1 + n \in 1..Len(d) /\ i + 1 \in 1..m
      BY <1>1, <1>2, <2>2, <2>3
    <3>2. d[i + 1 + n] = c[i + 1]
      BY <1>1, <2>2, <3>1
    <3> QED BY <3>1, <3>2 DEF At
  <2>4. CASE ~(i + 1 <= m)
    <3>1. i + 1 + n \notin 1..Len(d) /\ i + 1 \notin 1..m
      BY <1>1, <1>2, <2>2, <2>4
    <3> QED BY <3>1 DEF At
  <2> QED BY <2>3, <2>4
<1>6. ASSUME NEW i \in 0..(m + n)
      PROVE  nx2[At(d, i, e)] = At(d, i + 1, e) /\ pv2[At(d, i + 1, e)] = At(d, i, e)
  <2>1. CASE i < k
    <3>1. i \in 0..k /\ i + 1 \in 0..k /\ i \in 0..m /\ i # k
      BY <1>2, <2>1
    <3>2. At(d, i, e) = At(c, i, e) /\ At(d, i + 1, e) = At(c, i + 1, e)
      BY <1>3, <3>1
    <3>3. nx[At(c, i, e)] = At(c, i + 1, e) /\ pv[At(c, i + 1, e)] = At(c, i, e)
      BY <3>1 DEF Ring
    <3>4. nx2[At(c, i, e)] = nx[At(c, i, e)] /\ pv2[At(c, i + 1, e)] = pv[At(c, i + 1, e)]
      BY <3>1
    <3> QED BY <3>2, <3>3, <3>4
  <2>2. CASE i = k
    <3>1. k \in 0..k /\ 1 \in 1..n
      BY <1>2
    <3>2. At(d, k, e) = At(c, k, e) /\ At(d, 1 + k, e) = s[1]
      BY <1>3, <1>4, <3>1
    <3>3. 1 + k = i + 1
      BY <2>2
    <3> QED BY <2>2, <3>2, <3>3
  <2>3. CASE k < i /\ i < k + n
    <3> DEFINE j == i - k
    <3>1. /\ j \in 1..(n - 1) /\ j \in 1..n /\ j + 1 \in 1..n
          /\ j + k = i /\ j + 1 + k = i + 1
      BY <1>2, <2>3
    <3> HIDE DEF j
    <3>2. At(d, i, e) = s[j] /\ At(d, i + 1, e) = s[j + 1]
      BY <1>4, <3>1
    <3> QED BY <3>1, <3>2
  <2>4. CASE i = k + n
    <3>1. n \in 1..n /\ k \in k..m /\ n + k = i /\ k + 1 + n = i + 1
      BY <1>2, <2>4
    <3>2. At(d, i, e) = s[n] /\ At(d, i + 1, e) = At(c, k + 1, e)
      BY <1>4, <1>5, <3>1
    <3> QED BY <3>2
  <2>5. CASE i > k + n
    <3> DEFINE j == i - n
    <3>1. k \in Nat /\ i \in Int /\ i <= m + n
      BY <1>2, <1>6
    <3>2. j \in Int /\ j > k /\ j <= m /\ i = j + n
      BY <1>2, <2>5, <3>1
    <3> HIDE DEF j
    <3>3. j \in k..m /\ j - 1 \in k..m /\ j \in 0..m /\ j # k
      BY <1>2, <3>1, <3>2
    <3>4. j + 1 + n = i + 1 /\ (j - 1) + 1 + n = i /\ (j - 1) + 1 = j
      BY <1>2, <3>1, <3>2
    <3>5. At(d, i + 1, e) = At(c, j + 1, e)
      BY <1>5, <3>3, <3>4
    <3>6. At(d, i, e) = At(c, j, e)
      BY <1>5, <3>3, <3>4
    <3>7. nx[At(c, j, e)] = At(c, j + 1, e) /\ pv[At(c, j + 1, e)] = At(c, j, e)
      BY <3>3 DEF Ring
    <3>8. nx2[At(c, j, e)] = nx[At(c, j, e)] /\ pv2[At(c, j + 1, e)] = pv[At(c, j + 1, e)]
      BY <3>3
    <3> QED BY <3>5, <3>6, <3>7, <3>8
  <2>6. i \in Int /\ k \in Int /\ n \in Int
    BY <1>2, <1>6
  <2>7. i < k \/ i = k \/ (k < i /\ i < k + n) \/ i = k + n \/ i > k + n
    BY <2>6, Positions
  <2> QED BY <2>1, <2>2, <2>3, <2>4, <2>5, <2>7
<1> QED BY <1>1, <1>6 DEF Ring, d

(* The k-th element of a ring is taken out.                                *)
LEMMA RingWithout ==
  ASSUME NEW D, NEW c \in Seq(D), NEW k \in 1..Len(c), NEW e,
         NEW pv, NEW nx, NEW pv2, NEW nx2,
         Ring(c, e, pv, nx),
         nx2[At(c, k - 1, e)] = At(c, k + 1, e), pv2[At(c, k + 1, e)] = At(c, k - 1, e),
         \A i \in 0..Len(c) : i \notin {k - 1, k} => nx2[At(c, i, e)] = nx[At(c, i, e)],
         \A i \in 0..Len(c) : i \notin {k - 1, k} => pv2[At(c, i + 1, e)] = pv[At(c, i + 1, e)]
  PROVE  Ring(Without(c, k), e, pv2, nx2)
<1> DEFINE d == Without(c, k)
           m == Len(c)
<1>1. /\ d \in Seq(D) /\ Len(d) = m - 1
      /\ \A i \in 1..Len(d) : d[i] = IF i < k THEN c[i] ELSE c[i + 1]
  BY WithoutProperties
<1>2. m \in Nat /\ k \in 1..m
  OBVIOUS
<1> HIDE DEF d
<1>3. \A i \in 0..(k - 1) : At(d, i, e) = At(c, i, e)
  BY <1>1, <1>2 DEF At
<1>4. \A i \in k..m : At(d, i, e) = At(c, i + 1, e)
  BY <1>1, <1>2 DEF At
<1>5. ASSUME NEW i \in 0..(m - 1)
      PROVE  nx2[At(d, i, e)] = At(d, i + 1, e) /\ pv2[At(d, i + 1, e)] = At(d, i, e)
  <2>1. CASE i < k - 1
    <3>1. i \in 0..(k - 1) /\ i + 1 \in 0..(k - 1) /\ i \in 0..m /\ i \notin {k - 1, k}
      BY <1>2, <2>1
    <3>2. At(d, i, e) = At(c, i, e) /\ At(d, i + 1, e) = At(c, i + 1, e)
      BY <1>3, <3>1
    <3> QED BY <3>1, <3>2 DEF Ring
  <2>2. CASE i = k - 1
    <3>1. i \in 0..(k - 1) /\ k \in k..m /\ i + 1 = k
      BY <1>2, <2>2
    <3>2. At(d, i, e) = At(c, k - 1, e) /\ At(d, i + 1, e) = At(c, k + 1, e)
      BY <1>3, <1>4, <2>2, <3>1
    <3> QED BY <3>2
  <2>3. CASE i >= k
    <3>1. i \in k..m /\ i + 1 \in k..m /\ i + 1 \in 0..m /\ i + 1 \notin {k - 1, k}
      BY <1>2, <2>3
    <3>2. At(d, i, e) = At(c, i + 1, e) /\ At(d, i + 1, e) = At(c, i + 1 + 1, e)
      BY <1>4, <3>1
    <3> QED BY <3>1, <3>2 DEF Ring
  <2> QED BY <1>2, <2>1, <2>2, <2>3
<1> QED BY <1>1, <1>5 DEF Ring, d

-----------------------------------------------------------------------------
(* The elements of sequences that were put together or taken apart         *)
LEMMA InsertElements ==
  ASSUME NEW D, NEW c \in Seq(D), NEW s \in Seq(D), NEW k \in 0..Len(c)
  PROVE  /\ Joins(Insert(c, k, s), c, s)
         /\ Distinct(c) /\ Distinct(s) /\ Disjoint(c, s) => Distinct(Insert(c, k, s))
<1> DEFINE d == Insert(c, k, s)
           n == Len(s)
           m == Len(c)
<1>1. /\ Len(d) = m + n
      /\ \A i \in 1..Len(d) :
           d[i] = IF i <= k THEN c[i] ELSE IF i <= k + n THEN s[i - k] ELSE c[i - n]
  BY InsertProperties
<1>2. m \in Nat /\ n \in Nat /\ k \in 0..m
  OBVIOUS
<1> HIDE DEF d, m, n
<1>3. ASSUME NEW i \in 1..Len(d)
      PROVE  \/ i <= k /\ i \in 1..m /\ d[i] = c[i]
             \/ k < i /\ i <= k + n /\ i - k \in 1..n /\ d[i] = s[i - k]
             \/ k + n < i /\ i - n \in 1..m /\ d[i] = c[i - n]
  BY <1>1, <1>2
<1>4. ASSUME NEW i \in 1..Len(d)
      PROVE  (\E j \in 1..m : d[i] = c[j]) \/ (\E j \in 1..n : d[i] = s[j])
  BY <1>3
<1>5. ASSUME NEW j \in 1..m PROVE \E i \in 1..Len(d) : d[i] = c[j]
  <2>1. CASE j <= k
    BY <1>1, <1>2, <2>1
  <2>2. CASE k < j
    <3>1. PICK i \in 1..Len(d) : i - n = j /\ ~(i <= k) /\ ~(i <= k + n)
      <4>1. j + n \in 1..Len(d)
        BY <1>1, <1>2, <2>2
      <4> WITNESS j + n \in 1..Len(d)
      <4> QED BY <1>1, <1>2, <2>2
    <3>2. d[i] = c[i - n]
      BY <1>1, <3>1
    <3> QED BY <3>1, <3>2
  <2> QED BY <1>2, <2>1, <2>2
<1>6. ASSUME NEW j \in 1..n PROVE \E i \in 1..Len(d) : d[i] = s[j]
  <2>1. j + k \in 1..Len(d) /\ ~(j + k <= k) /\ j + k <= k + n /\ j + k - k = j
    BY <1>1, <1>2
  <2>2. d[j + k] = s[j]
    BY <1>1, <2>1
  <2> QED BY <2>1, <2>2
<1>7. ASSUME Distinct(c), Distinct(s), Disjoint(c, s),
             NEW i \in 1..Len(d), NEW j \in 1..Len(d), d[i] = d[j]
      PROVE  i = j
  <2>1. /\ \A a, b \in 1..m : c[a] = c[b] => a = b
        /\ \A a, b \in 1..n : s[a] = s[b] => a = b
        /\ \A a \in 1..m, b \in 1..n : c[a] # s[b]
    BY <1>7 DEF Distinct, Disjoint, m, n
  <2>2. i \in Int /\ j \in Int /\ k \in Int /\ n \in Int
    BY <1>2
  <2>3. CASE k < i /\ i <= k + n /\ i - k \in 1..n /\ d[i] = s[i - k]
    <3>1. j - k \in 1..n /\ d[j] = s[j - k]
      <4>1. \A a \in 1..m : c[a] # d[j]
        BY <1>7, <2>1, <2>3
      <4> QED BY <1>3, <4>1
    <3>2. i - k = j - k
      BY <1>7, <2>1, <2>3, <3>1
    <3> QED BY <2>2, <3>2
  <2>4. CASE i <= k /\ i \in 1..m /\ d[i] = c[i]
    <3>1. \/ j <= k /\ j \in 1..m /\ d[j] = c[j]
          \/ k + n < j /\ j - n \in 1..m /\ d[j] = c[j - n]
      BY <1>3, <1>7, <2>1, <2>4
    <3>2. \/ j <= k /\ i = j
          \/ k + n < j /\ i = j - n
      BY <1>7, <2>1, <2>4, <3>1
    <3> QED BY <2>2, <2>4, <3>2
  <2>5. CASE k + n < i /\ i - n \in 1..m /\ d[i] = c[i - n]
    <3>1. \/ j <= k /\ j \in 1..m /\ d[j] = c[j]
          \/ k + n < j /\ j - n \in 1..m /\ d[j] = c[j - n]
      BY <1>3, <1>7, <2>1, <2>5
    <3>2. \/ j <= k /\ i - n = j
          \/ k + n < j /\ i - n = j - n
      BY <1>7, <2>1, <2>5, <3>1
    <3> QED BY <2>2, <2>5, <3>2
  <2> QED BY <1>3, <2>3, <2>4, <2>5
<1>8. Joins(d, c, s)
  BY <1>4, <1>5, <1>6 DEF Joins, m, n
<1>9. Distinct(c) /\ Distinct(s) /\ Disjoint(c, s) => Distinct(d)
  BY <1>7 DEF Distinct
<1> QED BY <1>8, <1>9 DEF d

LEMMA WithoutElements ==
  ASSUME NEW D, NEW c \in Seq(D), NEW k \in 1..Len(c)
  PROVE  /\ \A i \in 1..Len(Without(c, k)) : \E j \in 1..Len(c) : j # k /\ Without(c, k)[i] = c[j]
         /\ \A j \in 1..Len(c) : j # k => \E i \in 1..Len(Without(c, k)) : Without(c, k)[i] = c[j]
         /\ Distinct(c) => Distinct(Without(c, k))
<1> DEFINE d == Without(c, k)
           m == Len(c)
<1>1. /\ Len(d) = m - 1
      /\ \A i \in 1..Len(d) : d[i] = IF i < k THEN c[i] ELSE c[i + 1]
  BY WithoutProperties
<1>2. m \in Nat /\ k \in 1..m
  OBVIOUS
<1> HIDE DEF d, m
<1>3. ASSUME NEW i \in 1..Len(d)
      PROVE  \/ i < k /\ i \in 1..m /\ d[i] = c[i]
             \/ i >= k /\ i + 1 \in 1..m /\ d[i] = c[i + 1]
  BY <1>1, <1>2
<1>4. ASSUME NEW i \in 1..Len(d) PROVE \E j \in 1..m : j # k /\ d[i] = c[j]
  <2>1. CASE i < k /\ i \in 1..m /\ d[i] = c[i]
    BY <1>2, <2>1
  <2>2. CASE i >= k /\ i + 1 \in 1..m /\ d[i] = c[i + 1]
    <3>1. i + 1 # k
      BY <1>2, <2>2
    <3> QED BY <2>2, <3>1
  <2> QED BY <1>3, <2>1, <2>2
<1>5. ASSUME NEW j \in 1..m, j # k PROVE \E i \in 1..Len(d) : d[i] = c[j]
  <2>1. CASE j < k
    BY <1>1, <1>2, <2>1
  <2>2. CASE k < j
    <3>1. j - 1 \in 1..Len(d) /\ ~(j - 1 < k) /\ j - 1 + 1 = j
      BY <1>1, <1>2, <2>2
    <3>2. d[j - 1] = c[j]
      BY <1>1, <3>1
    <3> QED BY <3>1, <3>2
  <2> QED BY <1>2, <1>5, <2>1, <2>2
<1>6. ASSUME Distinct(c), NEW i \in 1..Len(d), NEW j \in 1..Len(d), d[i] = d[j]
      PROVE  i = j
  <2>1. \A a, b \in 1..m : c[a] = c[b] => a = b
    BY <1>6 DEF Distinct, m
  <2>2. i \in Int /\ j \in Int /\ k \in Int
    BY <1>2
  <2>3. \/ i < k /\ j < k /\ i = j
        \/ i < k /\ j >= k /\ i = j + 1
        \/ i >= k /\ j < k /\ i + 1 = j
        \/ i >= k /\ j >= k /\ i + 1 = j + 1
    BY <1>3, <1>6, <2>1
  <2> QED BY <2>2, <2>3
<1> QED BY <1>4, <1>5, <1>6 DEF Distinct, d, m

-----------------------------------------------------------------------------
(* The items of s, and no others, are free no longer.                      *)
Taken(before, after, s) ==
  \A x \in Free(after) : x \in Free(before) /\ \A j \in 1..Len(s) : x # s[j]

(* Those of s, and no others, are free now.                                *)
Released(before, after, s) ==
  \A x \in Free(after) : x \in Free(before) \/ \E i \in 1..Len(s) : x = s[i]

LEMMA ApartMeans ==
  ASSUME NEW before \in Contents
  PROVE  Apart(before) <=>
           /\ \A l \in List : Distinct(before[l])
           /\ \A l, m \in List : l # m => Disjoint(before[l], before[m])
BY DEF Apart, Distinct, Disjoint, Contents

(* Lists stay apart when a chain of items in none of them is put into one, *)
(* and then neither its items nor those of the lists before are free.      *)
LEMMA ApartInsert ==
  ASSUME NEW before \in Contents, Apart(before), NEW l \in List, NEW k \in 0..Len(before[l]),
         NEW s \in Seq(Item), Distinct(s), \A m \in List : Disjoint(before[m], s),
         NEW after, after = [before EXCEPT ![l] = Insert(before[l], k, s)]
  PROVE  /\ after \in Contents
         /\ Apart(after)
         /\ Taken(before, after, s)
<1> DEFINE c == before[l]
           d == Insert(c, k, s)
<1>1. c \in Seq(Item)
  BY DEF Contents
<1>2. d \in Seq(Item)
  BY <1>1, InsertProperties
<1>3. Joins(d, c, s) /\ Distinct(d)
  <2>1. Distinct(c) /\ Disjoint(c, s)
    BY ApartMeans
  <2> QED BY <1>1, <2>1, InsertElements
<1> HIDE DEF d
<1>4. /\ after \in Contents /\ after[l] = d
      /\ \A m \in List : m # l => after[m] = before[m]
  BY <1>2 DEF Contents, d
<1>5. ASSUME NEW m \in List, m # l PROVE Disjoint(d, before[m]) /\ Disjoint(before[m], d)
  <2>1. Disjoint(c, before[m]) /\ Disjoint(before[m], c) /\ Disjoint(before[m], s)
    BY <1>5, ApartMeans
  <2>2. ASSUME NEW i \in 1..Len(d), NEW j \in 1..Len(before[m]) PROVE d[i] # before[m][j]
    <3>1. CASE \E a \in 1..Len(c) : d[i] = c[a]
      BY <2>1, <3>1 DEF Disjoint
    <3>2. CASE \E a \in 1..Len(s) : d[i] = s[a]
      BY <2>1, <3>2 DEF Disjoint
    <3> QED BY <1>3, <3>1, <3>2 DEF Joins
  <2> QED BY <2>2 DEF Disjoint
<1>6. Apart(after)
  <2>1. \A m \in List : Distinct(after[m])
    BY <1>3, <1>4, ApartMeans
  <2>2. ASSUME NEW m \in List, NEW q \in List, m # q PROVE Disjoint(after[m], after[q])
    BY <1>4, <1>5, <2>2, ApartMeans
  <2> QED BY <1>4, <2>1, <2>2, ApartMeans
<1>7. ASSUME NEW x \in Free(after)
      PROVE  x \in Free(before) /\ \A j \in 1..Len(s) : x # s[j]
  <2>1. x \in Item /\ \A i \in 1..Len(d) : x # d[i]
    BY <1>4 DEF Free, Elements
  <2>2. \A m \in List : \A i \in 1..Len(before[m]) : x # before[m][i]
    BY <1>3, <1>4, <2>1 DEF Free, Elements, Joins
  <2>3. \A j \in 1..Len(s) : x # s[j]
    BY <1>3, <2>1 DEF Joins
  <2> QED BY <2>1, <2>2, <2>3 DEF Free, Elements
<1> QED BY <1>4, <1>6, <1>7 DEF Taken

(* They stay apart when an element is taken out, and it alone becomes free. *)
LEMMA ApartWithout ==
  ASSUME NEW before \in Contents, Apart(before), NEW l \in List, NEW k \in 1..Len(before[l]),
         NEW after, after = [before EXCEPT ![l] = Without(before[l], k)]
  PROVE  /\ after \in Contents
         /\ Apart(after)
         /\ \A x \in Free(after) : x \in Free(before) \/ x = before[l][k]
<1> DEFINE c == before[l]
           d == Without(c, k)
<1>1. c \in Seq(Item)
  BY DEF Contents
<1>2. d \in Seq(Item)
  BY <1>1, WithoutProperties
<1>3. /\ \A i \in 1..Len(d) : \E j \in 1..Len(c) : d[i] = c[j]
      /\ \A j \in 1..Len(c) : j # k => \E i \in 1..Len(d) : d[i] = c[j]
      /\ Distinct(d)
  BY <1>1, WithoutElements, ApartMeans
<1> HIDE DEF d
<1>4. /\ after \in Contents /\ after[l] = d
      /\ \A m \in List : m # l => after[m] = before[m]
  BY <1>2 DEF Contents, d
<1>5. ASSUME NEW m \in List, m # l PROVE Disjoint(d, before[m]) /\ Disjoint(before[m], d)
  <2>1. Disjoint(c, before[m]) /\ Disjoint(before[m], c)
    BY <1>5, ApartMeans
  <2> QED BY <1>3, <2>1 DEF Disjoint
<1>6. Apart(after)
  <2>1. \A m \in List : Distinct(after[m])
    BY <1>3, <1>4, ApartMeans
  <2>2. ASSUME NEW m \in List, NEW q \in List, m # q PROVE Disjoint(after[m], after[q])
    BY <1>4, <1>5, <2>2, ApartMeans
  <2> QED BY <1>4, <2>1, <2>2, ApartMeans
<1>7. ASSUME NEW x \in Free(after), x # c[k] PROVE x \in Free(before)
  <2>1. x \in Item /\ \A i \in 1..Len(d) : x # d[i]
    BY <1>4 DEF Free, Elements
  <2>2. \A m \in List : \A i \in 1..Len(before[m]) : x # before[m][i]
    BY <1>3, <1>4, <1>7, <2>1 DEF Free, Elements
  <2> QED BY <2>1, <2>2 DEF Free, Elements
<1> QED BY <1>4, <1>6, <1>7

(* And when one is emptied: its items are free then.                       *)
LEMMA ApartEmptied ==
  ASSUME NEW before \in Contents, Apart(before), NEW l \in List,
         NEW after, after = [before EXCEPT ![l] = <<>>]
  PROVE  /\ after \in Contents
         /\ Apart(after)
         /\ Released(before, after, before[l])
         /\ Distinct(before[l])
         /\ \A m \in List : Disjoint(after[m], before[l])
<1>1. <<>> \in Seq(Item) /\ Len(<<>>) = 0
  OBVIOUS
<1>2. after \in Contents /\ after[l] = <<>> /\ \A m \in List : m # l => after[m] = before[m]
  BY <1>1 DEF Contents
<1>3. Apart(after)
  BY <1>1, <1>2 DEF Apart
<1>4. ASSUME NEW x \in Free(after), \A i \in 1..Len(before[l]) : x # before[l][i]
      PROVE  x \in Free(before)
  BY <1>2, <1>4 DEF Free, Elements
<1>5. Distinct(before[l]) /\ \A m \in List : Disjoint(after[m], before[l])
  BY <1>1, <1>2, ApartMeans DEF Disjoint
<1> QED BY <1>2, <1>3, <1>4, <1>5 DEF Released

-----------------------------------------------------------------------------
(* LinkedList                                                              *)
(* A list seen as a ring through the null pointer, whose links are the two *)
(* pointers of the list.                                                   *)
Pointer == Item \cup {Null}
WithNull(links, p) == [x \in Pointer |-> IF x = Null THEN p ELSE links[x]]

Chains ==
  \A l \in live :
    Ring(contents[l], Null, WithNull(prev, m_last[l]), WithNull(next, m_first[l]))

(* IteratesContents needs the lists apart, and those out of use empty: a   *)
(* call would else change the links of other lists than those it is for.   *)
LinkedInv ==
  /\ TypeOK /\ Apart(contents) /\ Chains /\ FreeUnlinked
  /\ \A l \in List \ live : contents[l] = <<>>

-----------------------------------------------------------------------------
LEMMA ListFacts ==
  ASSUME LinkedInv, NEW l \in List
  PROVE  /\ contents[l] \in Seq(Item) /\ Len(contents[l]) \in Nat /\ Null \notin Item
         /\ Distinct(contents[l]) /\ \A i \in 1..Len(contents[l]) : contents[l][i] # Null
         /\ \A i \in Int : At(contents[l], i, Null) \in Pointer
         /\ \A m \in List \ {l} : \A i \in Int, j \in 1..Len(contents[m]) :
              At(contents[l], i, Null) # contents[m][j]
         /\ \A x \in Free(contents) :
              /\ x \in Item /\ x # Null
              /\ \A i \in Int : x # At(contents[l], i, Null)
<1>1. Null \notin Item /\ contents \in Contents
  BY PointerAssumption DEF LinkedInv, TypeOK
<1>2. \A m \in List : contents[m] \in Seq(Item) /\ Len(contents[m]) \in Nat
  BY <1>1 DEF Contents
<1>3. \A m \in List : \A i \in 1..Len(contents[m]) : contents[m][i] \in Item
  BY <1>2
<1>4. \A i \in 1..Len(contents[l]) : contents[l][i] # Null
  BY <1>1, <1>3
<1>5. Distinct(contents[l])
  BY <1>1, ApartMeans DEF LinkedInv
<1>6. \A i \in Int : At(contents[l], i, Null) \in Pointer
  BY <1>3 DEF At, Pointer
<1>7. ASSUME NEW m \in List \ {l}, NEW i \in Int, NEW j \in 1..Len(contents[m])
      PROVE  At(contents[l], i, Null) # contents[m][j]
  <2>1. Disjoint(contents[l], contents[m])
    BY <1>1, ApartMeans DEF LinkedInv
  <2> QED BY <1>1, <1>3, <2>1 DEF At, Disjoint
<1>8. ASSUME NEW x \in Free(contents)
      PROVE  x \in Item /\ x # Null /\ \A i \in Int : x # At(contents[l], i, Null)
  BY <1>1 DEF At, Free, Elements
<1> QED BY <1>1, <1>2, <1>4, <1>5, <1>6, <1>7, <1>8

(* What the links of l are, in terms of its contents                       *)
LEMMA Links ==
  ASSUME LinkedInv, NEW l \in live
  PROVE  /\ l \in List
         /\ m_first[l] = At(contents[l], 1, Null)
         /\ m_last[l] = At(contents[l], Len(contents[l]), Null)
         /\ \A i \in 1..Len(contents[l]) :
              /\ next[contents[l][i]] = At(contents[l], i + 1, Null)
              /\ prev[contents[l][i]] = At(contents[l], i - 1, Null)
<1> DEFINE c == contents[l]
           nx == WithNull(next, m_first[l])
           pv == WithNull(prev, m_last[l])
<1>1. l \in List
  BY DEF LinkedInv, TypeOK
<1>2. c \in Seq(Item) /\ Len(c) \in Nat /\ Null \notin Item /\ \A i \in 1..Len(c) : c[i] # Null
  BY <1>1, ListFacts
<1>3. Ring(c, Null, pv, nx)
  BY DEF LinkedInv, Chains
<1>4. /\ nx[Null] = m_first[l] /\ pv[Null] = m_last[l]
      /\ \A x \in Item : nx[x] = next[x] /\ pv[x] = prev[x]
  BY <1>2 DEF WithNull, Pointer
<1> HIDE DEF nx, pv
<1>5. nx[Null] = At(c, 1, Null) /\ pv[Null] = At(c, Len(c), Null)
  BY <1>2, <1>3 DEF Ring, At
<1>6. ASSUME NEW i \in 1..Len(c)
      PROVE  nx[c[i]] = At(c, i + 1, Null) /\ pv[c[i]] = At(c, i - 1, Null)
  <2>1. i \in 0..Len(c) /\ i - 1 \in 0..Len(c) /\ i - 1 + 1 = i /\ At(c, i, Null) = c[i]
    BY <1>2 DEF At
  <2>2. nx[At(c, i, Null)] = At(c, i + 1, Null)
    BY <1>3, <2>1 DEF Ring
  <2>3. pv[At(c, i - 1 + 1, Null)] = At(c, i - 1, Null)
    BY <1>3, <2>1 DEF Ring
  <2> QED BY <2>1, <2>2, <2>3
<1>7. \A i \in 1..Len(c) : c[i] \in Item
  BY <1>2
<1> QED BY <1>1, <1>4, <1>5, <1>6, <1>7

(* The other way round                                                     *)
LEMMA LinksRing ==
  ASSUME NEW c \in Seq(Item), Null \notin Item, NEW p, NEW n, NEW f, NEW t,
         f = At(c, 1, Null), t = At(c, Len(c), Null),
         \A i \in 1..Len(c) : n[c[i]] = At(c, i + 1, Null) /\ p[c[i]] = At(c, i - 1, Null)
  PROVE  Ring(c, Null, WithNull(p, t), WithNull(n, f))
<1> DEFINE nx == WithNull(n, f)
           pv == WithNull(p, t)
<1>1. Len(c) \in Nat /\ \A i \in 1..Len(c) : c[i] \in Item /\ c[i] # Null
  OBVIOUS
<1>2. /\ nx[Null] = f /\ pv[Null] = t
      /\ \A x \in Item : nx[x] = n[x] /\ pv[x] = p[x]
  BY DEF WithNull, Pointer
<1> HIDE DEF nx, pv
<1>3. ASSUME NEW i \in 0..Len(c)
      PROVE  nx[At(c, i, Null)] = At(c, i + 1, Null) /\ pv[At(c, i + 1, Null)] = At(c, i, Null)
  <2>1. nx[At(c, i, Null)] = At(c, i + 1, Null)
    <3>1. CASE i = 0
      BY <1>2, <3>1 DEF At
    <3>2. CASE i # 0
      <4>1. i \in 1..Len(c) /\ At(c, i, Null) = c[i]
        BY <3>2 DEF At
      <4> QED BY <1>1, <1>2, <4>1
    <3> QED BY <3>1, <3>2
  <2>2. pv[At(c, i + 1, Null)] = At(c, i, Null)
    <3>1. CASE i = Len(c)
      <4>1. At(c, i + 1, Null) = Null
        BY <1>1, <3>1 DEF At
      <4> QED BY <1>2, <3>1, <4>1
    <3>2. CASE i # Len(c)
      <4>1. PICK j \in 1..Len(c) : j = i + 1 /\ j - 1 = i
        BY <1>1, <3>2
      <4>2. At(c, j, Null) = c[j]
        BY DEF At
      <4>3. p[c[j]] = At(c, j - 1, Null)
        OBVIOUS
      <4> QED BY <1>1, <1>2, <4>1, <4>2, <4>3
    <3> QED BY <3>1, <3>2
  <2> QED BY <2>1, <2>2
<1> QED BY <1>3 DEF Ring, nx, pv

LEMMA EmptyRing ==
  ASSUME Null \notin Item, NEW p, NEW n
  PROVE  Ring(<<>>, Null, WithNull(p, Null), WithNull(n, Null))
<1>1. WithNull(n, Null)[Null] = Null /\ WithNull(p, Null)[Null] = Null
  BY DEF WithNull, Pointer
<1>2. Len(<<>>) = 0
  OBVIOUS
<1> QED BY <1>1, <1>2 DEF Ring, At

-----------------------------------------------------------------------------
(* What a chain s, put behind element k of l, does to the pointers         *)
Spliced(l, k, s) ==
  LET after == At(contents[l], k, Null)
      following == At(contents[l], k + 1, Null)
      head == s[1]
      tail == s[Len(s)]
  IN  /\ next' \in [Item -> Pointer] /\ prev' \in [Item -> Pointer]
      /\ next'[tail] = following /\ prev'[head] = after
      /\ after # Null => next'[after] = head
      /\ following # Null => prev'[following] = tail
      /\ \A x \in Item : x # after /\ x # tail => next'[x] = next[x]
      /\ \A x \in Item : x # following /\ x # head => prev'[x] = prev[x]
      /\ m_first'[l] = IF after = Null THEN head ELSE m_first[l]
      /\ m_last'[l] = IF following = Null THEN tail ELSE m_last[l]

LEMMA ChainInserted ==
  ASSUME LinkedInv, NEW l \in live, NEW k \in 0..Len(contents[l]), NEW s \in Seq(Item),
         Len(s) > 0, Distinct(s), Disjoint(contents[l], s),
         \A i \in 1..(Len(s) - 1) : next[s[i]] = s[i + 1] /\ prev[s[i + 1]] = s[i],
         Spliced(l, k, s)
  PROVE  Ring(Insert(contents[l], k, s), Null,
              WithNull(prev', m_last'[l]), WithNull(next', m_first'[l]))
<1> DEFINE c == contents[l]
           after == At(c, k, Null)
           following == At(c, k + 1, Null)
           nx == WithNull(next, m_first[l])
           pv == WithNull(prev, m_last[l])
           nx2 == WithNull(next', m_first'[l])
           pv2 == WithNull(prev', m_last'[l])
<1>1. /\ l \in List /\ c \in Seq(Item) /\ Len(c) \in Nat /\ Null \notin Item
      /\ Distinct(c) /\ \A i \in 1..Len(c) : c[i] # Null
      /\ \A i \in Int : At(c, i, Null) \in Pointer
      /\ k \in Int /\ k + 1 \in Int
  BY ListFacts DEF LinkedInv, TypeOK
<1>2. /\ \A i \in 1..Len(s) : s[i] \in Item /\ s[i] # Null
      /\ 1 \in 1..Len(s) /\ Len(s) \in 1..Len(s) /\ Len(s) \in Nat
  BY <1>1
<1>3. \A i \in 1..Len(s), j \in Int : s[i] # At(c, j, Null)
  BY <1>1, <1>2 DEF Disjoint, At
<1>4. /\ next'[s[Len(s)]] = following /\ prev'[s[1]] = after
      /\ after # Null => next'[after] = s[1]
      /\ following # Null => prev'[following] = s[Len(s)]
      /\ \A x \in Item : x # after /\ x # s[Len(s)] => next'[x] = next[x]
      /\ \A x \in Item : x # following /\ x # s[1] => prev'[x] = prev[x]
      /\ m_first'[l] = IF after = Null THEN s[1] ELSE m_first[l]
      /\ m_last'[l] = IF following = Null THEN s[Len(s)] ELSE m_last[l]
  BY DEF Spliced
<1>5. /\ nx[Null] = m_first[l] /\ pv[Null] = m_last[l]
      /\ nx2[Null] = m_first'[l] /\ pv2[Null] = m_last'[l]
      /\ \A x \in Item : nx[x] = next[x] /\ pv[x] = prev[x] /\ nx2[x] = next'[x]
           /\ pv2[x] = prev'[x]
  BY <1>1 DEF WithNull, Pointer
<1>6. Ring(c, Null, pv, nx)
  BY DEF LinkedInv, Chains
<1> HIDE DEF nx, pv, nx2, pv2
<1>7. after \in Pointer /\ following \in Pointer
  BY <1>1
<1>8. /\ nx2[after] = s[1] /\ pv2[s[1]] = after
      /\ nx2[s[Len(s)]] = following /\ pv2[following] = s[Len(s)]
  BY <1>2, <1>4, <1>5, <1>7 DEF Pointer
<1>9. ASSUME NEW i \in 1..(Len(s) - 1) PROVE nx2[s[i]] = s[i + 1] /\ pv2[s[i + 1]] = s[i]
  <2>1. /\ i \in 1..Len(s) /\ i + 1 \in 1..Len(s) /\ i # Len(s) /\ i + 1 # 1
    BY <1>2
  <2>2. s[i] # s[Len(s)] /\ s[i + 1] # s[1]
    BY <1>2, <2>1 DEF Distinct
  <2>3. s[i] # after /\ s[i + 1] # following
    BY <1>1, <1>3, <2>1
  <2> QED BY <1>2, <1>4, <1>5, <2>1, <2>2, <2>3
<1>10. ASSUME NEW i \in 0..Len(c), i # k
       PROVE  nx2[At(c, i, Null)] = nx[At(c, i, Null)]
              /\ pv2[At(c, i + 1, Null)] = pv[At(c, i + 1, Null)]
  <2>1. At(c, i, Null) # after /\ At(c, i + 1, Null) # following
    BY ONLY <1>1, <1>10, i \in 0..Len(c), k \in 0..Len(c), AtInjective
  <2>2. i \in Int /\ i + 1 \in Int
    OBVIOUS
  <2>3. /\ At(c, i, Null) \in Pointer /\ At(c, i, Null) # s[Len(s)]
        /\ At(c, i + 1, Null) \in Pointer /\ At(c, i + 1, Null) # s[1]
    BY <1>1, <1>2, <1>3, <2>2
  <2> HIDE DEF after, following
  <2> QED BY <1>4, <1>5, <2>1, <2>3 DEF Pointer
<1>11. c \in Seq(Item) /\ k \in 0..Len(c) /\ s \in Seq(Item) /\ Len(s) > 0 /\ Distinct(s)
       /\ Disjoint(c, s)
  BY <1>1
<1> HIDE DEF c
<1>12. Ring(Insert(c, k, s), Null, pv2, nx2)
  BY ONLY <1>1, <1>2, <1>6, <1>8, <1>9, <1>10, <1>11, RingInsert DEF after, following
<1> QED BY <1>12 DEF c, pv2, nx2

(* A list other than those that a call changes                             *)
LEMMA OtherLists ==
  ASSUME LinkedInv, NEW m \in live, contents'[m] = contents[m],
         m_first'[m] = m_first[m], m_last'[m] = m_last[m],
         \A i \in 1..Len(contents[m]) : /\ next'[contents[m][i]] = next[contents[m][i]]
                                        /\ prev'[contents[m][i]] = prev[contents[m][i]]
  PROVE  Ring(contents'[m], Null, WithNull(prev', m_last'[m]), WithNull(next', m_first'[m]))
<1> DEFINE c == contents[m]
<1>1. m \in List
  BY DEF LinkedInv, TypeOK
<1>2. c \in Seq(Item) /\ Null \notin Item
  BY <1>1, ListFacts
<1>3. /\ m_first'[m] = At(c, 1, Null) /\ m_last'[m] = At(c, Len(c), Null)
      /\ \A i \in 1..Len(c) : next'[c[i]] = At(c, i + 1, Null) /\ prev'[c[i]] = At(c, i - 1, Null)
  BY Links
<1> HIDE DEF c
<1>4. Ring(c, Null, WithNull(prev', m_last'[m]), WithNull(next', m_first'[m]))
  BY ONLY <1>2, <1>3, LinksRing
<1> QED BY <1>4 DEF c

(* PushBack, PushFront and InsertAfter                                     *)
LEMMA LinkedInserts ==
  ASSUME LinkedInv, NEW l \in live, NEW k \in 0..Len(contents[l]), NEW item \in Free(contents),
         Spliced(l, k, <<item>>),
         m_first' \in [List -> Pointer], m_last' \in [List -> Pointer],
         \A m \in List : m # l => m_first'[m] = m_first[m] /\ m_last'[m] = m_last[m],
         contents' = [contents EXCEPT ![l] = Insert(contents[l], k, <<item>>)],
         UNCHANGED live
  PROVE  LinkedInv'
<1> DEFINE c == contents[l]
           after == At(c, k, Null)
           following == At(c, k + 1, Null)
           s == <<item>>
<1>1. /\ l \in List /\ c \in Seq(Item) /\ Len(c) \in Nat /\ k \in Int /\ k + 1 \in Int
      /\ contents \in Contents /\ Apart(contents) /\ live \subseteq List
  BY ListFacts DEF LinkedInv, TypeOK
<1>2. \A x \in Free(contents) : /\ x \in Item
                                /\ \A m \in List : \A i \in Int : x # At(contents[m], i, Null)
  <2>1. ASSUME NEW m \in List, NEW x \in Free(contents)
        PROVE \A i \in Int : x # At(contents[m], i, Null)
    BY ListFacts
  <2> QED BY <2>1 DEF Free
<1>3. /\ next' \in [Item -> Pointer] /\ prev' \in [Item -> Pointer]
      /\ \A x \in Item : x # after /\ x # item => next'[x] = next[x]
      /\ \A x \in Item : x # following /\ x # item => prev'[x] = prev[x]
  BY DEF Spliced
<1>4. s \in Seq(Item) /\ Len(s) = 1 /\ s[1] = item /\ 1 \in 1..Len(s)
  BY <1>2
<1> HIDE DEF s
<1>5. Distinct(s) /\ \A m \in List : Disjoint(contents[m], s)
  BY <1>1, <1>4 DEF Distinct, Disjoint, Free, Elements
<1>6. contents' \in Contents /\ Apart(contents') /\ Taken(contents, contents', s)
  <2>1. contents' = [contents EXCEPT ![l] = Insert(contents[l], k, s)]
    BY DEF s
  <2> QED BY ONLY <1>1, <1>4, <1>5, <2>1, k \in 0..Len(contents[l]), ApartInsert
<1>7. ASSUME NEW m \in live
      PROVE  Ring(contents'[m], Null, WithNull(prev', m_last'[m]), WithNull(next', m_first'[m]))
  <2>1. CASE m = l
    <3>1. contents'[l] = Insert(c, k, s)
      BY <1>1 DEF Contents, s
    <3>2. Disjoint(c, s) /\ Len(s) > 0 /\ Spliced(l, k, s)
          /\ \A i \in 1..(Len(s) - 1) : next[s[i]] = s[i + 1] /\ prev[s[i + 1]] = s[i]
      BY <1>1, <1>4, <1>5 DEF s
    <3>3. Ring(Insert(contents[l], k, s), Null,
               WithNull(prev', m_last'[l]), WithNull(next', m_first'[l]))
      BY <1>4, <1>5, <3>2, ChainInserted
    <3> QED BY <2>1, <3>1, <3>3
  <2>2. CASE m # l
    <3>1. m \in List /\ contents'[m] = contents[m] /\ m_first'[m] = m_first[m]
          /\ m_last'[m] = m_last[m]
      BY <1>1, <2>2 DEF Contents
    <3>2. \A i \in 1..Len(contents[m]) : /\ contents[m][i] \in Item
                                         /\ contents[m][i] \notin {item, after, following}
      <4>1. contents[m] \in Seq(Item)
        BY <3>1, ListFacts
      <4>2. \A i \in 1..Len(contents[m]) : contents[m][i] # item
        BY <1>4, <1>5, <3>1 DEF Disjoint
      <4> QED BY <1>1, <2>2, <3>1, <4>1, <4>2, ListFacts
    <3> QED BY <1>3, <3>1, <3>2, OtherLists
  <2> QED BY <2>1, <2>2
<1>8. Chains'
  BY <1>7 DEF Chains
<1>9. FreeUnlinked'
  <2>1. \A x \in Free(contents') : x \in Free(contents) /\ x # item
    BY <1>4, <1>6 DEF Taken
  <2>2. \A x \in Free(contents) : x # after /\ x # following
    BY <1>1, <1>2
  <2> QED BY <1>2, <1>3, <2>1, <2>2 DEF LinkedInv, FreeUnlinked
<1>10. \A m \in List \ live' : contents'[m] = <<>>
  BY <1>1 DEF LinkedInv, Contents
<1>11. TypeOK'
  BY <1>1, <1>3, <1>6 DEF TypeOK, Pointer
<1> QED BY <1>6, <1>8, <1>9, <1>10, <1>11 DEF LinkedInv

LEMMA PushesBack ==
  ASSUME LinkedInv, NEW l \in live, NEW item \in Free(contents), PushBack(l, item)
  PROVE  LinkedInv'
<1> DEFINE c == contents[l]
           s == <<item>>
<1>1. /\ l \in List /\ c \in Seq(Item) /\ Len(c) \in Nat /\ Len(c) \in 0..Len(c) /\ Len(c) \in Int
      /\ item \in Item /\ item # Null /\ \A i \in Int : item # At(c, i, Null)
  BY ListFacts DEF LinkedInv, TypeOK
<1>2. /\ m_first[l] = At(c, 1, Null) /\ m_last[l] = At(c, Len(c), Null)
      /\ At(c, Len(c) + 1, Null) = Null /\ At(c, Len(c), Null) \in Pointer
  BY <1>1, Links, ListFacts DEF At
<1>3. s[1] = item /\ s[Len(s)] = item
  OBVIOUS
<1>4. /\ m_first \in [List -> Pointer] /\ m_last \in [List -> Pointer]
      /\ prev \in [Item -> Pointer] /\ next \in [Item -> Pointer]
  BY DEF LinkedInv, TypeOK, Pointer
<1>5. /\ prev' = [prev EXCEPT ![item] = m_last[l]]
      /\ next' = IF m_last[l] = Null THEN [next EXCEPT ![item] = Null]
                 ELSE [next EXCEPT ![item] = Null, ![m_last[l]] = item]
      /\ m_first' = IF m_last[l] = Null THEN [m_first EXCEPT ![l] = item] ELSE m_first
      /\ m_last' = [m_last EXCEPT ![l] = item]
      /\ live' = live
  BY DEF PushBack, push_back
<1>6. Spliced(l, Len(c), s)
  <2>1. m_last[l] # item /\ m_last[l] \in Pointer
    BY <1>1, <1>2
  <2>2. next' \in [Item -> Pointer] /\ prev' \in [Item -> Pointer]
    BY <1>1, <1>4, <1>5, <2>1 DEF Pointer
  <2>3. /\ next'[item] = Null /\ prev'[item] = m_last[l]
        /\ m_last[l] # Null => next'[m_last[l]] = item
        /\ \A x \in Item : x # m_last[l] /\ x # item => next'[x] = next[x]
        /\ \A x \in Item : x # item => prev'[x] = prev[x]
    BY <1>1, <1>4, <1>5, <2>1 DEF Pointer
  <2>4. /\ m_first'[l] = IF m_last[l] = Null THEN item ELSE m_first[l]
        /\ m_last'[l] = item
    BY <1>1, <1>4, <1>5
  <2> HIDE DEF s, c
  <2> QED BY <1>2, <1>3, <2>2, <2>3, <2>4 DEF Spliced, c
<1>7. Append(c, item) = Insert(c, Len(c), <<item>>)
  <2> HIDE DEF c
  <2> QED BY ONLY <1>1, AppendIsInsert
<1>8. contents' = [contents EXCEPT ![l] = Insert(contents[l], Len(c), <<item>>)]
  BY <1>7 DEF PushBack
<1>9. /\ m_first' \in [List -> Pointer] /\ m_last' \in [List -> Pointer]
      /\ \A m \in List : m # l => m_first'[m] = m_first[m] /\ m_last'[m] = m_last[m]
  BY <1>1, <1>4, <1>5 DEF Pointer
<1> QED BY <1>1, <1>5, <1>6, <1>8, <1>9, LinkedInserts

LEMMA PushesFront ==
  ASSUME LinkedInv, NEW l \in live, NEW item \in Free(contents), PushFront(l, item)
  PROVE  LinkedInv'
<1> DEFINE c == contents[l]
           s == <<item>>
<1>1. /\ l \in List /\ c \in Seq(Item) /\ Len(c) \in Nat /\ 0 \in 0..Len(c) /\ 1 \in Int
      /\ item \in Item /\ item # Null /\ \A i \in Int : item # At(c, i, Null)
  BY ListFacts DEF LinkedInv, TypeOK
<1>2. /\ m_first[l] = At(c, 1, Null) /\ (m_first[l] = Null => m_last[l] = Null)
      /\ At(c, 0, Null) = Null /\ At(c, 1, Null) \in Pointer
      /\ At(c, 0 + 1, Null) = At(c, 1, Null)
  <2>1. m_first[l] = At(c, 1, Null) /\ m_last[l] = At(c, Len(c), Null)
    BY Links
  <2>2. \A i \in 1..Len(c) : c[i] # Null
    BY <1>1, ListFacts
  <2> QED BY <1>1, <2>1, <2>2, ListFacts DEF At
<1>3. s[1] = item /\ s[Len(s)] = item
  OBVIOUS
<1>4. /\ m_first \in [List -> Pointer] /\ m_last \in [List -> Pointer]
      /\ prev \in [Item -> Pointer] /\ next \in [Item -> Pointer]
  BY DEF LinkedInv, TypeOK, Pointer
<1>5. /\ prev' = IF m_first[l] = Null THEN [prev EXCEPT ![item] = Null]
                 ELSE [prev EXCEPT ![item] = Null, ![m_first[l]] = item]
      /\ next' = [next EXCEPT ![item] = m_first[l]]
      /\ m_first' = [m_first EXCEPT ![l] = item]
      /\ m_last' = IF m_first[l] = Null THEN [m_last EXCEPT ![l] = item] ELSE m_last
      /\ live' = live
  BY DEF PushFront, push_front, empty
<1>6. Spliced(l, 0, s)
  <2>1. m_first[l] # item /\ m_first[l] \in Pointer
    BY <1>1, <1>2
  <2>2. next' \in [Item -> Pointer] /\ prev' \in [Item -> Pointer]
    BY <1>1, <1>4, <1>5, <2>1 DEF Pointer
  <2>3. /\ next'[item] = m_first[l] /\ prev'[item] = Null
        /\ m_first[l] # Null => prev'[m_first[l]] = item
        /\ \A x \in Item : x # item => next'[x] = next[x]
        /\ \A x \in Item : x # m_first[l] /\ x # item => prev'[x] = prev[x]
    BY <1>1, <1>4, <1>5, <2>1 DEF Pointer
  <2>4. /\ m_first'[l] = item
        /\ m_last'[l] = IF m_first[l] = Null THEN item ELSE m_last[l]
    BY <1>1, <1>4, <1>5
  <2> HIDE DEF s, c
  <2> QED BY <1>2, <1>3, <2>2, <2>3, <2>4 DEF Spliced, c
<1>7. <<item>> \o c = Insert(c, 0, <<item>>)
  <2>1. <<item>> \in Seq(Item)
    BY <1>1
  <2> HIDE DEF c
  <2> QED BY ONLY <1>1, <2>1, ConcatIsInsert
<1>8. contents' = [contents EXCEPT ![l] = Insert(contents[l], 0, <<item>>)]
  BY <1>7 DEF PushFront
<1>9. /\ m_first' \in [List -> Pointer] /\ m_last' \in [List -> Pointer]
      /\ \A m \in List : m # l => m_first'[m] = m_first[m] /\ m_last'[m] = m_last[m]
  BY <1>1, <1>4, <1>5 DEF Pointer
<1> QED BY <1>1, <1>5, <1>6, <1>8, <1>9, LinkedInserts

-----------------------------------------------------------------------------
(* insertAfter, for a chain of items of which the first and the last are   *)
(* none of the list's                                                      *)
LEMMA InsertAfterSplices ==
  ASSUME LinkedInv, NEW l \in live, NEW k \in 0..Len(contents[l]), NEW s \in Seq(Item),
         Len(s) > 0,
         Disjoint(contents[l], s),
         insertAfter(l, At(contents[l], k, Null), s[1], s[Len(s)]),
         m_first'[l] = FirstThen(l, At(contents[l], k, Null), s[1]),
         m_last'[l] = LastThen(l, At(contents[l], k, Null), s[Len(s)])
  PROVE  Spliced(l, k, s)
<1> DEFINE c == contents[l]
           after == At(c, k, Null)
           following == At(c, k + 1, Null)
           head == s[1]
           tail == s[Len(s)]
<1>1. /\ l \in List /\ c \in Seq(Item) /\ Len(c) \in Nat /\ k \in Int /\ k + 1 \in Int
      /\ after \in Pointer /\ following \in Pointer
      /\ \A i \in 1..Len(c) : c[i] # Null
  <2>1. l \in List
    BY DEF LinkedInv, TypeOK
  <2>2. /\ c \in Seq(Item) /\ Len(c) \in Nat /\ \A i \in 1..Len(c) : c[i] # Null
        /\ \A i \in Int : At(c, i, Null) \in Pointer
    BY <2>1, ListFacts
  <2>3. k \in Int /\ k + 1 \in Int
    BY <2>2
  <2> QED BY <2>1, <2>2, <2>3
<1>2. head \in Item /\ tail \in Item
  OBVIOUS
<1>3. after # tail /\ following # head
  <2>1. /\ 1 \in 1..Len(s) /\ Len(s) \in 1..Len(s) /\ Null \notin Item
    BY PointerAssumption
  <2> QED BY <1>2, <2>1 DEF Disjoint, At
<1>4. NextItem(l, after) = following
  <2>1. CASE after = Null
    <3>1. k = 0
      BY <1>1, <2>1 DEF At
    <3>2. m_first[l] = At(c, 1, Null)
      BY Links
    <3> QED BY <2>1, <3>1, <3>2 DEF NextItem
  <2>2. CASE after # Null
    <3>1. k \in 1..Len(c) /\ after = c[k]
      BY <2>2 DEF At
    <3>2. next[c[k]] = At(c, k + 1, Null)
      BY <3>1, Links
    <3> QED BY <2>2, <3>1, <3>2 DEF NextItem
  <2> QED BY <2>1, <2>2
<1>5. prev \in [Item -> Pointer] /\ next \in [Item -> Pointer]
  BY DEF LinkedInv, TypeOK, Pointer
<1> HIDE DEF after, following, head, tail
<1>6. /\ prev' = IF following = Null THEN [prev EXCEPT ![head] = after]
                 ELSE [prev EXCEPT ![head] = after, ![following] = tail]
      /\ next' = IF after = Null THEN [next EXCEPT ![tail] = following]
                 ELSE [next EXCEPT ![after] = head, ![tail] = following]
  BY <1>4 DEF insertAfter, after, head, tail
<1>7. next' \in [Item -> Pointer] /\ prev' \in [Item -> Pointer]
  BY <1>1, <1>2, <1>5, <1>6 DEF Pointer
<1>8. /\ next'[tail] = following
      /\ after # Null => next'[after] = head
      /\ \A x \in Item : x # after /\ x # tail => next'[x] = next[x]
  BY <1>1, <1>2, <1>3, <1>5, <1>6 DEF Pointer
<1>9. /\ prev'[head] = after
      /\ following # Null => prev'[following] = tail
      /\ \A x \in Item : x # following /\ x # head => prev'[x] = prev[x]
  BY <1>1, <1>2, <1>3, <1>5, <1>6 DEF Pointer
<1>10. /\ m_first'[l] = IF after = Null THEN head ELSE m_first[l]
       /\ m_last'[l] = IF following = Null THEN tail ELSE m_last[l]
  BY <1>4 DEF FirstThen, LastThen, after, head, tail
<1> QED BY <1>7, <1>8, <1>9, <1>10 DEF Spliced, after, following, head, tail

LEMMA InsertsAfter ==
  ASSUME LinkedInv, NEW l \in live, NEW k \in 0..Len(contents[l]), NEW item \in Free(contents),
         InsertAfter(l, k, item)
  PROVE  LinkedInv'
<1> DEFINE s == <<item>>
           after == At(contents[l], k, Null)
<1>1. /\ l \in List /\ contents[l] \in Seq(Item) /\ item \in Item
      /\ \A i \in 1..Len(contents[l]) : contents[l][i] # item
  BY ListFacts DEF LinkedInv, TypeOK, Free, Elements
<1>2. s \in Seq(Item) /\ Len(s) = 1 /\ s[1] = item /\ s[Len(s)] = item /\ Disjoint(contents[l], s)
  BY <1>1 DEF Disjoint
<1>3. /\ m_first \in [List -> Pointer] /\ m_last \in [List -> Pointer]
  BY DEF LinkedInv, TypeOK, Pointer
<1>4. /\ insertAfter(l, after, item, item)
      /\ m_first' = [m_first EXCEPT ![l] = FirstThen(l, after, item)]
      /\ m_last' = [m_last EXCEPT ![l] = LastThen(l, after, item)]
      /\ contents' = [contents EXCEPT ![l] = Insert(contents[l], k, <<item>>)]
      /\ live' = live
  BY DEF InsertAfter
<1>5. FirstThen(l, after, item) \in Pointer /\ LastThen(l, after, item) \in Pointer
  BY <1>1, <1>3 DEF FirstThen, LastThen, Pointer
<1> HIDE DEF s, after
<1>6. /\ m_first' \in [List -> Pointer] /\ m_last' \in [List -> Pointer]
      /\ \A m \in List : m # l => m_first'[m] = m_first[m] /\ m_last'[m] = m_last[m]
      /\ m_first'[l] = FirstThen(l, after, item) /\ m_last'[l] = LastThen(l, after, item)
  BY <1>1, <1>3, <1>4, <1>5
<1>7. Spliced(l, k, s)
  <2>1. /\ insertAfter(l, after, s[1], s[Len(s)]) /\ Len(s) > 0
        /\ m_first'[l] = FirstThen(l, after, s[1]) /\ m_last'[l] = LastThen(l, after, s[Len(s)])
    BY <1>2, <1>4, <1>6
  <2> QED BY ONLY LinkedInv, l \in live, k \in 0..Len(contents[l]), <1>2, <2>1,
                  InsertAfterSplices DEF after
<1> QED BY <1>4, <1>6, <1>7, LinkedInserts DEF s

(* One list's items go to the end of another's.                            *)
LEMMA ContentsMove ==
  ASSUME NEW l \in List, NEW lst \in List, l # lst, contents \in Contents, Apart(contents),
         contents' = [contents EXCEPT ![l] = contents[l] \o contents[lst], ![lst] = <<>>]
  PROVE  /\ contents' \in Contents /\ Apart(contents')
         /\ \A x \in Free(contents') : x \in Free(contents)
         /\ contents'[l] = Insert(contents[l], Len(contents[l]), contents[lst])
         /\ contents'[lst] = <<>>
         /\ \A m \in List : m # l /\ m # lst => contents'[m] = contents[m]
<1> DEFINE c == contents[l]
           s == contents[lst]
           rest == [contents EXCEPT ![lst] = <<>>]
<1>1. c \in Seq(Item) /\ Len(c) \in Nat /\ s \in Seq(Item) /\ <<>> \in Seq(Item)
  BY DEF Contents
<1>2. c \o s = Insert(c, Len(c), s)
  BY ONLY <1>1, ConcatIsInsert
<1>3. /\ rest \in Contents /\ Apart(rest)
      /\ Released(contents, rest, s) /\ Distinct(s)
      /\ \A m \in List : Disjoint(rest[m], s)
  BY ONLY contents \in Contents, Apart(contents), lst \in List, ApartEmptied
<1>4. rest[l] = c /\ rest[lst] = <<>> /\ \A m \in List : m # lst => rest[m] = contents[m]
  BY DEF Contents
<1>5. contents' = [rest EXCEPT ![l] = Insert(rest[l], Len(c), s)]
  BY <1>2, <1>4 DEF Contents
<1> HIDE DEF rest
<1>6. contents' \in Contents /\ Apart(contents') /\ Taken(rest, contents', s)
  <2>1. Len(c) \in 0..Len(rest[l])
    BY <1>1, <1>4
  <2> QED BY ONLY <1>1, <1>3, <1>5, l \in List, <2>1, ApartInsert
<1>7. \A x \in Free(contents') : x \in Free(contents)
  BY <1>3, <1>6 DEF Taken, Released
<1>8. /\ contents'[l] = Insert(c, Len(c), s) /\ contents'[lst] = <<>>
      /\ \A m \in List : m # l /\ m # lst => contents'[m] = contents[m]
  BY <1>2 DEF Contents
<1> QED BY <1>6, <1>7, <1>8

LEMMA LinkedAppends ==
  ASSUME LinkedInv, NEW l \in live, NEW lst \in live, l # lst, destructiveAppend(l, lst)
  PROVE  LinkedInv'
<1> DEFINE c == contents[l]
           s == contents[lst]
           after == At(c, Len(c), Null)
<1>1. l \in List /\ lst \in List /\ live \subseteq List /\ contents \in Contents
      /\ Apart(contents)
  BY DEF LinkedInv, TypeOK
<1>2. /\ c \in Seq(Item) /\ Len(c) \in Nat /\ Len(c) \in 0..Len(c) /\ Len(c) \in Int
      /\ s \in Seq(Item) /\ Len(s) \in Nat /\ Distinct(s) /\ Null \notin Item
      /\ \A i \in 1..Len(s) : s[i] \in Item /\ s[i] # Null
      /\ \A i \in Int : At(c, i, Null) \in Pointer
  BY <1>1, ListFacts DEF Contents
<1>3. /\ m_last[l] = after
      /\ m_first[lst] = At(s, 1, Null) /\ m_last[lst] = At(s, Len(s), Null)
      /\ \A i \in 1..Len(s) : next[s[i]] = At(s, i + 1, Null) /\ prev[s[i]] = At(s, i - 1, Null)
  BY Links
<1>4. empty(lst) <=> Len(s) = 0
  BY <1>2, <1>3 DEF empty, At
<1>5. CASE empty(lst)
  <2>1. UNCHANGED <<m_first, m_last, prev, next, contents, live>>
    BY <1>5 DEF destructiveAppend, pointers
  <2> QED BY <2>1 DEF LinkedInv, TypeOK, Chains, FreeUnlinked, Apart, Free, Elements
<1>6. CASE ~empty(lst)
  <2>1. /\ Len(s) > 0 /\ m_first[lst] = s[1] /\ m_last[lst] = s[Len(s)]
        /\ s[1] \in Item /\ s[Len(s)] \in Item /\ Disjoint(c, s)
    BY <1>1, <1>2, <1>3, <1>4, <1>6, ApartMeans DEF At
  <2>2. /\ insertAfter(l, after, s[1], s[Len(s)])
        /\ m_first' = [m_first EXCEPT ![l] = FirstThen(l, after, s[1]), ![lst] = Null]
        /\ m_last' = [m_last EXCEPT ![l] = LastThen(l, after, s[Len(s)]), ![lst] = Null]
        /\ contents' = [contents EXCEPT ![l] = contents[l] \o contents[lst], ![lst] = <<>>]
        /\ live' = live
    BY <1>3, <1>6, <2>1 DEF destructiveAppend
  <2>3. /\ contents' \in Contents /\ Apart(contents')
        /\ \A x \in Free(contents') : x \in Free(contents)
        /\ contents'[l] = Insert(c, Len(c), s) /\ contents'[lst] = <<>>
        /\ \A m \in List : m # l /\ m # lst => contents'[m] = contents[m]
    BY <1>1, <2>2, ContentsMove
  <2>4. /\ m_first \in [List -> Pointer] /\ m_last \in [List -> Pointer]
        /\ FirstThen(l, after, s[1]) \in Pointer /\ LastThen(l, after, s[Len(s)]) \in Pointer
    BY <1>1, <2>1 DEF LinkedInv, TypeOK, FirstThen, LastThen, Pointer
  <2>5. /\ m_first' \in [List -> Pointer] /\ m_last' \in [List -> Pointer]
        /\ m_first'[l] = FirstThen(l, after, s[1]) /\ m_last'[l] = LastThen(l, after, s[Len(s)])
        /\ m_first'[lst] = Null /\ m_last'[lst] = Null
        /\ \A m \in List : m # l /\ m # lst => m_first'[m] = m_first[m] /\ m_last'[m] = m_last[m]
    <3> HIDE DEF after, s
    <3>1. Null \in Pointer
      BY DEF Pointer
    <3> QED BY <1>1, <2>2, <2>4, <3>1
  <2> HIDE DEF c, s
  <2>6. Spliced(l, Len(c), s)
    <3>1. Len(c) \in 0..Len(contents[l]) /\ Disjoint(contents[l], s)
          /\ after = At(contents[l], Len(c), Null)
      BY <1>2, <2>1 DEF c
    <3> HIDE DEF after
    <3> QED BY ONLY LinkedInv, l \in live, <1>2, <2>1, <2>2, <2>5, <3>1, InsertAfterSplices
  <2>7. \A i \in 1..(Len(s) - 1) : next[s[i]] = s[i + 1] /\ prev[s[i + 1]] = s[i]
    <3>1. ASSUME NEW i \in 1..(Len(s) - 1) PROVE next[s[i]] = s[i + 1] /\ prev[s[i + 1]] = s[i]
      <4>1. PICK j \in 1..Len(s) : j = i + 1 /\ j - 1 = i
        BY <1>2
      <4>2. i \in 1..Len(s)
        BY <1>2
      <4>3. next[s[i]] = At(s, j, Null) /\ prev[s[j]] = At(s, i, Null)
        BY <1>3, <4>1, <4>2 DEF s
      <4> QED BY <4>1, <4>2, <4>3 DEF At
    <3> QED BY <3>1
  <2>8. Ring(contents'[l], Null, WithNull(prev', m_last'[l]), WithNull(next', m_first'[l]))
    <3>1. Len(c) \in 0..Len(contents[l]) /\ Disjoint(contents[l], s)
          /\ contents'[l] = Insert(contents[l], Len(c), s)
      BY <1>2, <2>1, <2>3 DEF c
    <3>2. Ring(Insert(contents[l], Len(c), s), Null,
               WithNull(prev', m_last'[l]), WithNull(next', m_first'[l]))
      BY ONLY LinkedInv, l \in live, <1>2, <2>1, <2>6, <2>7, <3>1, ChainInserted
    <3> QED BY <3>1, <3>2
  <2>9. Ring(contents'[lst], Null, WithNull(prev', m_last'[lst]), WithNull(next', m_first'[lst]))
    <3>1. Ring(<<>>, Null, WithNull(prev', m_last'[lst]), WithNull(next', m_first'[lst]))
      BY <1>2, <2>5, EmptyRing
    <3> QED BY <2>3, <3>1
  <2>10. /\ next' \in [Item -> Pointer] /\ prev' \in [Item -> Pointer]
         /\ \A x \in Item : x # after /\ x # s[Len(s)] => next'[x] = next[x]
         /\ \A x \in Item : x # Null /\ x # s[1] => prev'[x] = prev[x]
    <3>1. At(contents[l], Len(c) + 1, Null) = Null
      BY <1>2 DEF At, c
    <3> QED BY <2>6, <3>1 DEF Spliced, c
  <2>11. ASSUME NEW m \in live, m # l, m # lst
         PROVE  Ring(contents'[m], Null,
                     WithNull(prev', m_last'[m]), WithNull(next', m_first'[m]))
    <3>1. /\ m \in List /\ contents'[m] = contents[m]
          /\ m_first'[m] = m_first[m] /\ m_last'[m] = m_last[m] /\ contents[m] \in Seq(Item)
      BY <1>1, <2>3, <2>5, <2>11 DEF Contents
    <3>2. Disjoint(s, contents[m]) /\ 1 \in 1..Len(s) /\ Len(s) \in 1..Len(s)
      BY <1>1, <1>2, <2>1, <2>11, <3>1, ApartMeans DEF s
    <3>3. \A i \in 1..Len(contents[m]) : after # contents[m][i]
      BY <1>1, <1>2, <2>11, <3>1, ListFacts DEF c
    <3>4. \A i \in 1..Len(contents[m]) : /\ contents[m][i] \in Item /\ contents[m][i] # Null
                                         /\ contents[m][i] # s[1] /\ contents[m][i] # s[Len(s)]
      BY <1>2, <3>1, <3>2 DEF Disjoint
    <3> QED BY <2>10, <3>1, <3>3, <3>4, OtherLists
  <2>12. Chains'
    BY <2>2, <2>8, <2>9, <2>11 DEF Chains
  <2>13. FreeUnlinked'
    <3>1. \A x \in Free(contents) : x \in Item /\ x # Null /\ x # after
      BY <1>1, <1>2, ListFacts DEF c
    <3>2. \A x \in Free(contents) : x # s[1] /\ x # s[Len(s)]
      BY <1>1, <1>2, <2>1 DEF Free, Elements, s
    <3> QED BY <2>3, <2>10, <3>1, <3>2 DEF LinkedInv, FreeUnlinked
  <2>14. \A m \in List \ live' : contents'[m] = <<>>
    BY <2>2, <2>3 DEF LinkedInv
  <2>15. TypeOK'
    BY <1>1, <2>2, <2>3, <2>5, <2>10 DEF TypeOK, Pointer
  <2> QED BY <2>3, <2>12, <2>13, <2>14, <2>15 DEF LinkedInv
<1> QED BY <1>5, <1>6

-----------------------------------------------------------------------------
LEMMA StartsWith ==
  ASSUME LinkedInv, NEW l \in List, NEW item \in Free(contents), NewWith(l, item)
  PROVE  LinkedInv'
<1> DEFINE s == <<item>>
<1>1. /\ live \subseteq List /\ contents \in Contents /\ Apart(contents) /\ Null \notin Item
      /\ item \in Item /\ s \in Seq(Item) /\ Len(s) = 1 /\ s[1] = item
  BY ListFacts DEF LinkedInv, TypeOK
<1>2. /\ m_first \in [List -> Pointer] /\ m_last \in [List -> Pointer]
      /\ prev \in [Item -> Pointer] /\ next \in [Item -> Pointer]
  BY DEF LinkedInv, TypeOK, Pointer
<1>3. /\ contents[l] = <<>>
      /\ m_first' = [m_first EXCEPT ![l] = item] /\ m_last' = [m_last EXCEPT ![l] = item]
      /\ prev' = [prev EXCEPT ![item] = Null] /\ next' = [next EXCEPT ![item] = Null]
      /\ contents' = [contents EXCEPT ![l] = s] /\ live' = live \cup {l}
  BY DEF NewWith
<1>4. /\ m_first' \in [List -> Pointer] /\ m_last' \in [List -> Pointer]
      /\ next' \in [Item -> Pointer] /\ prev' \in [Item -> Pointer]
      /\ m_first'[l] = item /\ m_last'[l] = item /\ prev'[item] = Null /\ next'[item] = Null
      /\ \A m \in List : m # l => m_first'[m] = m_first[m] /\ m_last'[m] = m_last[m]
      /\ \A x \in Item : x # item => next'[x] = next[x] /\ prev'[x] = prev[x]
      /\ contents'[l] = s /\ \A m \in List : m # l => contents'[m] = contents[m]
  BY <1>1, <1>2, <1>3 DEF Pointer, Contents
<1>5. contents' \in Contents /\ Apart(contents') /\ Taken(contents, contents', s)
  <2>1. Distinct(s) /\ \A m \in List : Disjoint(contents[m], s)
    BY <1>1 DEF Distinct, Disjoint, Free, Elements
  <2>2. 0 \in 0..Len(contents[l]) /\ Insert(contents[l], 0, s) = s
    <3>1. <<>> \in Seq(Item) /\ Len(<<>>) = 0 /\ s \o <<>> = s
      BY <1>1
    <3>2. s \o <<>> = Insert(<<>>, 0, s)
      BY <1>1, <3>1, ConcatIsInsert
    <3> QED BY <1>3, <3>1, <3>2
  <2> HIDE DEF s
  <2>3. contents' = [contents EXCEPT ![l] = Insert(contents[l], 0, s)]
    BY <1>3, <2>2
  <2> QED BY ONLY <1>1, <2>1, <2>2, <2>3, l \in List, ApartInsert
<1>6. ASSUME NEW m \in live'
      PROVE  Ring(contents'[m], Null, WithNull(prev', m_last'[m]), WithNull(next', m_first'[m]))
  <2>1. CASE m = l
    <3>1. /\ At(s, 1, Null) = item /\ At(s, Len(s), Null) = item
          /\ \A i \in 1..Len(s) : s[i] = item /\ At(s, i + 1, Null) = Null
               /\ At(s, i - 1, Null) = Null
      BY <1>1 DEF At
    <3> HIDE DEF s
    <3>2. Ring(s, Null, WithNull(prev', item), WithNull(next', item))
      BY <1>1, <1>4, <3>1, LinksRing
    <3> QED BY <1>4, <2>1, <3>2
  <2>2. CASE m # l
    <3>1. m \in live /\ m \in List /\ contents[m] \in Seq(Item)
      BY <1>1, <1>3, <2>2 DEF Contents
    <3>2. \A i \in 1..Len(contents[m]) : contents[m][i] \in Item /\ contents[m][i] # item
      BY <3>1 DEF Free, Elements
    <3> QED BY <1>4, <2>2, <3>1, <3>2, OtherLists
  <2> QED BY <2>1, <2>2
<1>7. Chains'
  BY <1>6 DEF Chains
<1>8. FreeUnlinked'
  <2>1. \A x \in Free(contents') : x \in Free(contents) /\ x # item /\ x \in Item
    BY <1>1, <1>5 DEF Taken, Free
  <2> QED BY <1>4, <2>1 DEF LinkedInv, FreeUnlinked
<1>9. \A m \in List \ live' : contents'[m] = <<>>
  BY <1>3, <1>4 DEF LinkedInv
<1>10. TypeOK'
  BY <1>1, <1>3, <1>4, <1>5 DEF TypeOK, Pointer
<1> QED BY <1>5, <1>7, <1>8, <1>9, <1>10 DEF LinkedInv

LEMMA Assigns ==
  ASSUME LinkedInv, NEW l \in List, NEW from \in live, l # from, Assign(l, from)
  PROVE  LinkedInv'
<1> DEFINE s == contents[from]
<1>1. /\ live \subseteq List /\ from \in List /\ contents \in Contents /\ Apart(contents)
      /\ s \in Seq(Item) /\ Len(s) \in Nat /\ <<>> \in Seq(Item) /\ Null \notin Item
      /\ \A i \in 1..Len(s) : s[i] # Null
  BY ListFacts DEF LinkedInv, TypeOK, Contents
<1>2. /\ m_first \in [List -> Pointer] /\ m_last \in [List -> Pointer]
      /\ prev \in [Item -> Pointer] /\ next \in [Item -> Pointer]
  BY DEF LinkedInv, TypeOK, Pointer
<1>3. /\ contents[l] = <<>>
      /\ m_first' = [m_first EXCEPT ![l] = m_first[from]]
      /\ m_last' = [m_last EXCEPT ![l] = m_last[from]]
      /\ contents' = [contents EXCEPT ![l] = s, ![from] = <<>>]
      /\ live' = (live \cup {l}) \ (IF empty(from) THEN {} ELSE {from})
      /\ prev' = prev /\ next' = next
  BY DEF Assign
<1>4. /\ m_first[from] = At(s, 1, Null) /\ m_last[from] = At(s, Len(s), Null)
      /\ \A i \in 1..Len(s) : next[s[i]] = At(s, i + 1, Null) /\ prev[s[i]] = At(s, i - 1, Null)
  BY Links
<1>5. empty(from) => m_first[from] = Null /\ m_last[from] = Null
  BY <1>1, <1>4 DEF empty, At
<1>6. /\ m_first' \in [List -> Pointer] /\ m_last' \in [List -> Pointer]
      /\ m_first'[l] = m_first[from] /\ m_last'[l] = m_last[from]
      /\ \A m \in List : m # l => m_first'[m] = m_first[m] /\ m_last'[m] = m_last[m]
  BY <1>1, <1>2, <1>3
<1>7. /\ contents' \in Contents /\ Apart(contents')
      /\ \A x \in Free(contents') : x \in Free(contents)
      /\ contents'[l] = s /\ contents'[from] = <<>>
      /\ \A m \in List : m # l /\ m # from => contents'[m] = contents[m]
  <2>1. contents[l] \o contents[from] = s
    BY <1>1, <1>3
  <2>2. contents' = [contents EXCEPT ![l] = contents[l] \o contents[from], ![from] = <<>>]
    BY <1>3, <2>1
  <2>3. /\ contents' \in Contents /\ Apart(contents')
        /\ \A x \in Free(contents') : x \in Free(contents)
        /\ contents'[from] = <<>>
        /\ \A m \in List : m # l /\ m # from => contents'[m] = contents[m]
    BY ONLY <1>1, <2>2, l \in List, l # from, ContentsMove
  <2>4. contents'[l] = s
    BY <1>1, <1>3 DEF Contents
  <2> QED BY <2>3, <2>4
<1> HIDE DEF s
<1>8. ASSUME NEW m \in live'
      PROVE  Ring(contents'[m], Null, WithNull(prev', m_last'[m]), WithNull(next', m_first'[m]))
  <2>1. CASE m = l
    <3>1. Ring(s, Null, WithNull(prev, m_last[from]), WithNull(next, m_first[from]))
      BY <1>1, <1>4, LinksRing
    <3> QED BY <1>3, <1>6, <1>7, <2>1, <3>1
  <2>2. CASE m = from
    <3>1. m_first'[m] = Null /\ m_last'[m] = Null
      BY <1>1, <1>3, <1>5, <1>6, <2>2
    <3>2. Ring(<<>>, Null, WithNull(prev', Null), WithNull(next', Null))
      BY <1>1, EmptyRing
    <3> QED BY <1>7, <2>2, <3>1, <3>2
  <2>3. CASE m # l /\ m # from
    <3>1. m \in live /\ m \in List
      BY <1>1, <1>3, <2>3
    <3> QED BY <1>3, <1>6, <1>7, <2>3, <3>1, OtherLists
  <2> QED BY <2>1, <2>2, <2>3
<1>9. Chains'
  BY <1>8 DEF Chains
<1>10. FreeUnlinked'
  BY <1>3, <1>7 DEF LinkedInv, FreeUnlinked
<1>11. \A m \in List \ live' : contents'[m] = <<>>
  BY <1>3, <1>7 DEF LinkedInv
<1>12. TypeOK'
  BY <1>1, <1>2, <1>3, <1>6, <1>7 DEF TypeOK, Pointer
<1> QED BY <1>7, <1>9, <1>10, <1>11, <1>12 DEF LinkedInv

-----------------------------------------------------------------------------
LEMMA LinkedInitially == Init => LinkedInv
<1> SUFFICES ASSUME Init PROVE LinkedInv
  OBVIOUS
<1>1. Null \notin Item
  BY PointerAssumption
<1>2. <<>> \in Seq(Item) /\ Len(<<>>) = 0
  OBVIOUS
<1>3. /\ \A l \in List : contents[l] = <<>> /\ m_first[l] = Null /\ m_last[l] = Null
      /\ live = List
  BY DEF Init
<1>4. TypeOK
  BY <1>2 DEF Init, TypeOK, Contents
<1>5. Apart(contents)
  BY <1>2, <1>3 DEF Apart
<1>6. Chains
  BY <1>1, <1>3, EmptyRing DEF Chains
<1>7. FreeUnlinked
  BY DEF Init, FreeUnlinked, Free
<1> QED BY <1>3, <1>4, <1>5, <1>6, <1>7 DEF LinkedInv

LEMMA LinkedInductive == LinkedInv /\ [Next]_vars => LinkedInv'
<1> SUFFICES ASSUME LinkedInv, [Next]_vars PROVE LinkedInv'
  OBVIOUS
<1>1. ASSUME NEW l \in live, NEW item \in Free(contents), PushBack(l, item) PROVE LinkedInv'
  BY <1>1, PushesBack
<1>2. ASSUME NEW l \in live, NEW item \in Free(contents), PushFront(l, item) PROVE LinkedInv'
  BY <1>2, PushesFront
<1>3. ASSUME NEW l \in live, NEW item \in Free(contents), NEW k \in 0..Len(contents[l]),
             InsertAfter(l, k, item)
      PROVE  LinkedInv'
  BY <1>3, InsertsAfter
<1>4. ASSUME NEW l \in List, NEW item \in Free(contents), NewWith(l, item) PROVE LinkedInv'
  BY <1>4, StartsWith
<1>5. ASSUME NEW l \in live, NEW lst \in live, l # lst, destructiveAppend(l, lst) PROVE LinkedInv'
  BY <1>5, LinkedAppends
<1>6. ASSUME NEW l \in List, NEW from \in live, l # from, Assign(l, from) PROVE LinkedInv'
  BY <1>6, Assigns
<1>7. CASE UNCHANGED vars
  BY <1>7 DEF vars, pointers, LinkedInv, TypeOK, Chains, FreeUnlinked
<1> QED BY <1>1, <1>2, <1>3, <1>4, <1>5, <1>6, <1>7 DEF Next

LEMMA LinkedImplied == LinkedInv => IteratesContents
BY Links DEF IteratesContents, begin, end, Increment, Decrement

-----------------------------------------------------------------------------
(* CircularList                                                            *)
(* Lists instantiates what CircularList takes from ListContents.           *)
Entry == Item \cup List

LEMMA SameOperators ==
  /\ \A c, k, s : Circular!Insert(c, k, s) = Insert(c, k, s)
  /\ \A c, k : Circular!Without(c, k) = Without(c, k)
  /\ \A c, i, e : Circular!At(c, i, e) = At(c, i, e)
  /\ \A c : Circular!Free(c) = Free(c)
  /\ Circular!Contents = Contents
  /\ Circular!ListEntry = Entry
<1>1. \A c, k, s : Circular!Insert(c, k, s) = Insert(c, k, s)
  BY DEF Circular!Insert, Insert
<1>2. \A c, k : Circular!Without(c, k) = Without(c, k)
  BY DEF Circular!Without, Without
<1>3. \A c, i, e : Circular!At(c, i, e) = At(c, i, e)
  BY DEF Circular!At, At
<1>4. \A c : Circular!Free(c) = Free(c)
  BY DEF Circular!Free, Circular!Elements, Free, Elements
<1>5. Circular!Contents = Contents /\ Circular!ListEntry = Entry
  BY DEF Circular!Contents, Contents, Circular!ListEntry, Entry
<1> QED BY <1>1, <1>2, <1>3, <1>4, <1>5

Rings == \A l \in List : Ring(cContents[l], l, cPrev, cNext)

(* RingIsContents needs the lists apart: a link that a call changes would  *)
(* else be in the ring of another list too.                                *)
RingInv == Circular!TypeOK /\ Apart(cContents) /\ Rings /\ Circular!FreeUnlinked

-----------------------------------------------------------------------------
(* The entries of different lists differ, and free items are none of them. *)
LEMMA EntriesApart ==
  ASSUME RingInv, NEW l \in List
  PROVE  /\ cContents[l] \in Seq(Item) /\ Len(cContents[l]) \in Nat /\ l \notin Item
         /\ Distinct(cContents[l]) /\ \A i \in 1..Len(cContents[l]) : cContents[l][i] # l
         /\ \A i \in Int : At(cContents[l], i, l) \in Entry
         /\ \A m \in List \ {l}, i \in Int, j \in Int :
              At(cContents[l], i, l) # At(cContents[m], j, m)
         /\ \A x \in Free(cContents), i \in Int : x # At(cContents[l], i, l)
<1>1. Item \cap List = {} /\ cContents \in Contents
  BY PointerAssumption, SameOperators DEF RingInv, Circular!TypeOK
<1>2. \A m \in List : cContents[m] \in Seq(Item) /\ Len(cContents[m]) \in Nat
  BY <1>1 DEF Contents
<1>3. \A m \in List : \A i \in 1..Len(cContents[m]) : cContents[m][i] \in Item
  BY <1>2
<1>4. l \notin Item /\ \A i \in 1..Len(cContents[l]) : cContents[l][i] # l
  BY <1>1, <1>3
<1>5. Distinct(cContents[l])
  BY <1>1, ApartMeans DEF RingInv
<1>6. \A i \in Int : At(cContents[l], i, l) \in Entry
  BY <1>3 DEF At, Entry
<1>7. ASSUME NEW m \in List \ {l}, NEW i \in Int, NEW j \in Int
      PROVE  At(cContents[l], i, l) # At(cContents[m], j, m)
  <2>1. Disjoint(cContents[l], cContents[m])
    BY <1>1, ApartMeans DEF RingInv
  <2> QED BY <1>1, <1>3, <2>1 DEF At, Disjoint
<1>8. ASSUME NEW x \in Free(cContents), NEW i \in Int PROVE x # At(cContents[l], i, l)
  BY <1>1 DEF At, Free, Elements
<1> QED BY <1>2, <1>4, <1>5, <1>6, <1>7, <1>8

(* Links that a change left alone in a ring other than l's                 *)
LEMMA OtherRings ==
  ASSUME RingInv, NEW l \in List, NEW m \in List \ {l}, NEW pv2, NEW nx2,
         \A i \in Int : /\ nx2[At(cContents[m], i, m)] = cNext[At(cContents[m], i, m)]
                        /\ pv2[At(cContents[m], i, m)] = cPrev[At(cContents[m], i, m)]
  PROVE  Ring(cContents[m], m, pv2, nx2)
<1>1. Ring(cContents[m], m, cPrev, cNext) /\ cContents[m] \in Seq(Item)
      /\ Len(cContents[m]) \in Nat
  BY EntriesApart DEF RingInv, Rings
<1> QED BY <1>1, RingKept

-----------------------------------------------------------------------------
(* PushBack and InsertAfter                                                *)
LEMMA RingInserts ==
  ASSUME RingInv, NEW l \in List, NEW k \in 0..Len(cContents[l]), NEW item \in Free(cContents),
         Circular!insertAfterEntry(At(cContents[l], k, l), item),
         cContents' = [cContents EXCEPT ![l] = Insert(cContents[l], k, <<item>>)],
         UNCHANGED cDebug
  PROVE  RingInv'
<1> DEFINE c == cContents[l]
           after == At(c, k, l)
           following == At(c, k + 1, l)
<1>1. /\ c \in Seq(Item) /\ Len(c) \in Nat /\ l \notin Item
      /\ Distinct(c) /\ \A i \in 1..Len(c) : c[i] # l
      /\ \A i \in Int : At(c, i, l) \in Entry
      /\ \A i \in Int : item # At(c, i, l)
      /\ k \in Int /\ k + 1 \in Int
  BY EntriesApart
<1>2. item \in Item /\ item \in Entry /\ Free(cContents) \subseteq Item
  BY DEF Free, Entry
<1>3. cNext[after] = following /\ Ring(c, l, cPrev, cNext)
  BY <1>1 DEF RingInv, Rings, Ring
<1>4. /\ after \in Entry /\ following \in Entry /\ after # item /\ following # item
  BY <1>1
<1> HIDE DEF after, following
<1>5. /\ cNext \in [Entry -> Entry \cup {Null}]
      /\ cPrev \in [Entry -> Entry \cup {Null}]
  BY SameOperators DEF RingInv, Circular!TypeOK
<1>6. /\ cNext' = [cNext EXCEPT ![item] = following, ![after] = item]
      /\ cPrev' = [cPrev EXCEPT ![item] = after, ![following] = item]
  BY <1>3 DEF Circular!insertAfterEntry, after
<1>7. /\ cNext' \in [Entry -> Entry \cup {Null}]
      /\ cPrev' \in [Entry -> Entry \cup {Null}]
      /\ cNext'[item] = following /\ cNext'[after] = item
      /\ cPrev'[item] = after /\ cPrev'[following] = item
      /\ \A e \in Entry : e # item /\ e # after => cNext'[e] = cNext[e]
      /\ \A e \in Entry : e # item /\ e # following => cPrev'[e] = cPrev[e]
  BY <1>2, <1>4, <1>5, <1>6
<1> DEFINE s == <<item>>
<1>8. s \in Seq(Item) /\ Len(s) = 1 /\ s[1] = item
  BY <1>2
<1> HIDE DEF s
<1>9. Distinct(s) /\ (\A m \in List : Disjoint(cContents[m], s)) /\ \A i \in 1..Len(s) : s[i] # l
  BY <1>1, <1>2, <1>8 DEF Distinct, Disjoint, Free, Elements
<1>10. /\ cContents \in Contents /\ Apart(cContents)
       /\ cContents' = [cContents EXCEPT ![l] = Insert(c, k, s)]
  BY SameOperators DEF RingInv, Circular!TypeOK, s
<1>11. /\ cContents' \in Contents /\ Apart(cContents')
       /\ \A x \in Free(cContents') : x \in Free(cContents) /\ x # item
  <2>1. cContents' \in Contents /\ Apart(cContents') /\ Taken(cContents, cContents', s)
    <3>1. cContents \in Contents /\ Apart(cContents)
      BY <1>10
    <3>2. cContents' = [cContents EXCEPT ![l] = Insert(cContents[l], k, s)]
      BY <1>10
    <3>3. s \in Seq(Item) /\ Distinct(s) /\ \A m \in List : Disjoint(cContents[m], s)
      BY <1>8, <1>9
    <3> QED BY ONLY l \in List, k \in 0..Len(cContents[l]), <3>1, <3>2, <3>3, ApartInsert
  <2>2. 1 \in 1..Len(s)
    BY <1>8
  <2> QED BY <1>8, <2>1, <2>2 DEF Taken
<1>12. Ring(Insert(c, k, s), l, cPrev', cNext')
  <2>1. \A i \in 0..Len(c) : i # k => At(c, i, l) # after /\ At(c, i + 1, l) # following
    BY <1>1, AtInjective DEF after, following
  <2>2. \A i \in 0..Len(c) : i # k => cNext'[At(c, i, l)] = cNext[At(c, i, l)]
    BY <1>1, <1>7, <2>1
  <2>3. \A i \in 0..Len(c) : i # k => cPrev'[At(c, i + 1, l)] = cPrev[At(c, i + 1, l)]
    <3>1. \A i \in 0..Len(c) : i + 1 \in Int
      BY <1>1
    <3> QED BY <1>1, <1>7, <2>1, <3>1
  <2>4. /\ cNext'[At(c, k, l)] = s[1] /\ cPrev'[s[1]] = At(c, k, l)
        /\ cNext'[s[Len(s)]] = At(c, k + 1, l) /\ cPrev'[At(c, k + 1, l)] = s[Len(s)]
    BY <1>7, <1>8 DEF after, following
  <2>5. \A i \in 1..(Len(s) - 1) : cNext'[s[i]] = s[i + 1] /\ cPrev'[s[i + 1]] = s[i]
    BY <1>8
  <2>6. c \in Seq(Item) /\ s \in Seq(Item) /\ Len(s) > 0 /\ k \in 0..Len(c) /\ Disjoint(c, s)
    BY <1>1, <1>8, <1>9
  <2> HIDE DEF c
  <2> QED BY <1>1, <1>3, <1>9, <2>2, <2>3, <2>4, <2>5, <2>6, RingInsert
<1>13. Rings'
  <2>1. ASSUME NEW m \in List PROVE Ring(cContents'[m], m, cPrev', cNext')
    <3>1. CASE m = l
      BY <1>10, <1>12, <3>1 DEF Contents
    <3>2. CASE m # l
      <4>1. \A i \in Int : /\ At(cContents[m], i, m) \in Entry
                           /\ At(cContents[m], i, m) \notin {item, after, following}
        BY <1>1, <3>2, EntriesApart DEF after, following
      <4>2. Ring(cContents[m], m, cPrev', cNext')
        BY <1>7, <3>2, <4>1, OtherRings
      <4>3. cContents'[m] = cContents[m]
        BY <1>10, <3>2 DEF Contents
      <4> QED BY <4>2, <4>3
    <3> QED BY <3>1, <3>2
  <2> QED BY <2>1 DEF Rings
<1>14. Circular!FreeUnlinked'
  <2>1. \A x \in Free(cContents') : /\ x \in Entry /\ x \in Free(cContents)
                                   /\ x \notin {item, after, following}
    BY <1>1, <1>2, <1>11, EntriesApart DEF Entry, after, following
  <2> QED BY <1>7, <2>1, SameOperators DEF RingInv, Circular!FreeUnlinked
<1>15. Circular!TypeOK'
  BY <1>7, <1>11, SameOperators DEF RingInv, Circular!TypeOK
<1> QED BY <1>11, <1>13, <1>14, <1>15 DEF RingInv

LEMMA RingRemoves ==
  ASSUME RingInv, NEW l \in List, NEW k \in 1..Len(cContents[l]), Circular!Remove(l, k)
  PROVE  RingInv'
<1> DEFINE c == cContents[l]
           entry == c[k]
           before == At(c, k - 1, l)
           behind == At(c, k + 1, l)
<1>1. /\ c \in Seq(Item) /\ Len(c) \in Nat /\ l \notin Item
      /\ Distinct(c) /\ \A i \in 1..Len(c) : c[i] # l
      /\ \A i \in Int : At(c, i, l) \in Entry
      /\ k - 1 \in 0..Len(c) /\ k \in 0..Len(c) /\ k - 1 \in Int /\ k + 1 \in Int /\ k \in Int
  BY EntriesApart
<1>2. /\ entry = At(c, k, l) /\ entry \in Item /\ entry \in Entry
      /\ before \in Entry /\ behind \in Entry
  BY <1>1 DEF At, Entry
<1>3. entry # before /\ entry # behind
  <2>1. k - 1 # k /\ k - 1 + 1 = k /\ k - 1 # k
    BY <1>1
  <2>2. At(c, k - 1, l) # At(c, k, l) /\ At(c, k - 1 + 1, l) # At(c, k + 1, l)
    BY ONLY <1>1, <2>1, AtInjective
  <2> QED BY <1>2, <2>1, <2>2
<1>4. cNext[entry] = behind /\ cPrev[entry] = before /\ Ring(c, l, cPrev, cNext)
  <2>1. Ring(c, l, cPrev, cNext)
    BY DEF RingInv, Rings
  <2>2. cNext[At(c, k, l)] = behind
    BY <1>1, <2>1 DEF Ring
  <2>3. cPrev[At(c, k - 1 + 1, l)] = before /\ k - 1 + 1 = k
    BY <1>1, <2>1 DEF Ring
  <2> QED BY <1>2, <2>1, <2>2, <2>3
<1> HIDE DEF entry, before, behind
<1>5. /\ cNext \in [Entry -> Entry \cup {Null}]
      /\ cPrev \in [Entry -> Entry \cup {Null}]
      /\ cContents \in Contents /\ Apart(cContents) /\ cDebug \in BOOLEAN
  BY SameOperators DEF RingInv, Circular!TypeOK
<1>6. /\ cNext' = [cNext EXCEPT ![before] = behind, ![entry] = Circular!Cleared(@)]
      /\ cPrev' = [cPrev EXCEPT ![behind] = before, ![entry] = Circular!Cleared(@)]
      /\ cContents' = [cContents EXCEPT ![l] = Without(cContents[l], k)]
      /\ cDebug' = cDebug
  BY <1>4, SameOperators DEF Circular!Remove, entry
<1>7. /\ cNext' \in [Entry -> Entry \cup {Null}]
      /\ cPrev' \in [Entry -> Entry \cup {Null}]
      /\ cNext'[before] = behind /\ cPrev'[behind] = before
      /\ cDebug => cNext'[entry] = Null /\ cPrev'[entry] = Null
      /\ \A e \in Entry : e # entry /\ e # before => cNext'[e] = cNext[e]
      /\ \A e \in Entry : e # entry /\ e # behind => cPrev'[e] = cPrev[e]
  BY <1>2, <1>3, <1>5, <1>6 DEF Circular!Cleared
<1>8. /\ cContents' \in Contents /\ Apart(cContents')
      /\ \A x \in Free(cContents') : x \in Free(cContents) \/ x = entry
  <2> DEFINE after == [cContents EXCEPT ![l] = Without(cContents[l], k)]
  <2>1. entry = cContents[l][k]
    BY DEF entry
  <2>2. /\ after \in Contents /\ Apart(after)
        /\ \A x \in Free(after) : x \in Free(cContents) \/ x = cContents[l][k]
    <3>1. \A cs, a : /\ cs \in Contents /\ Apart(cs) /\ k \in 1..Len(cs[l])
                     /\ a = [cs EXCEPT ![l] = Without(cs[l], k)]
                     => /\ a \in Contents /\ Apart(a)
                        /\ \A x \in Free(a) : x \in Free(cs) \/ x = cs[l][k]
      BY ONLY l \in List, ApartWithout
    <3> QED BY <1>5, <3>1, Zenon
  <2>3. cContents' = after
    BY <1>6
  <2> HIDE DEF after
  <2> QED BY <2>1, <2>2, <2>3
<1>9. Ring(Without(c, k), l, cPrev', cNext')
  <2>1. ASSUME NEW i \in 0..Len(c), i \notin {k - 1, k}
        PROVE  cNext'[At(c, i, l)] = cNext[At(c, i, l)]
               /\ cPrev'[At(c, i + 1, l)] = cPrev[At(c, i + 1, l)]
    <3>1. i \in Int /\ i + 1 \in Int /\ i # k /\ i # k - 1 /\ k - 1 + 1 = k
      BY <1>1, <2>1
    <3>2. At(c, i, l) # At(c, k, l) /\ At(c, i + 1, l) # At(c, k + 1, l)
      <4>1. k \in 0..Len(c) /\ Distinct(c) /\ (\A j \in 1..Len(c) : c[j] # l)
        BY <1>1
      <4>2. c \in Seq(Item) /\ i \in 0..Len(c)
        BY <1>1
      <4>3. At(c, i, l) = At(c, k, l) => i = k
        BY ONLY <4>1, <4>2, AtInjective
      <4>4. At(c, i + 1, l) = At(c, k + 1, l) => i = k
        BY ONLY <4>1, <4>2, AtInjective
      <4> QED BY <3>1, <4>3, <4>4
    <3>3. At(c, i, l) # At(c, k - 1, l) /\ At(c, i + 1, l) # At(c, k, l)
      <4>1. PICK j \in 0..Len(c) : j = k - 1
        BY <1>1
      <4>2. j # i /\ j + 1 = k
        BY <1>1, <3>1, <4>1
      <4>3. At(c, i, l) # At(c, j, l) /\ At(c, i + 1, l) # At(c, j + 1, l)
        BY ONLY <1>1, <4>2, j \in 0..Len(c), i \in 0..Len(c), AtInjective
      <4> QED BY <4>1, <4>2, <4>3
    <3> QED BY <1>1, <1>2, <1>7, <3>1, <3>2, <3>3 DEF before, behind
  <2>2. cNext'[At(c, k - 1, l)] = At(c, k + 1, l) /\ cPrev'[At(c, k + 1, l)] = At(c, k - 1, l)
    BY <1>7 DEF before, behind
  <2>3. c \in Seq(Item) /\ k \in 1..Len(c)
    BY <1>1
  <2> HIDE DEF c
  <2> QED BY ONLY <1>4, <2>1, <2>2, <2>3, RingWithout
<1>10. Rings'
  <2>1. ASSUME NEW m \in List PROVE Ring(cContents'[m], m, cPrev', cNext')
    <3>1. CASE m = l
      BY <1>5, <1>6, <1>9, <3>1 DEF Contents
    <3>2. CASE m # l
      <4>1. \A i \in Int : /\ At(cContents[m], i, m) \in Entry
                           /\ At(cContents[m], i, m) \notin {entry, before, behind}
        BY <1>1, <1>2, <3>2, EntriesApart DEF before, behind
      <4>2. Ring(cContents[m], m, cPrev', cNext')
        BY <1>7, <3>2, <4>1, OtherRings
      <4>3. cContents'[m] = cContents[m]
        BY <1>5, <1>6, <3>2 DEF Contents
      <4> QED BY <4>2, <4>3
    <3> QED BY <3>1, <3>2
  <2> QED BY <2>1 DEF Rings
<1>11. Circular!FreeUnlinked'
  <2>1. \A x \in Free(cContents) : x \in Entry /\ x \notin {entry, before, behind}
    BY <1>1, <1>2, EntriesApart DEF Free, Entry, before, behind
  <2>2. ASSUME cDebug, NEW x \in Free(cContents') PROVE cPrev'[x] = Null /\ cNext'[x] = Null
    <3>1. CASE x = entry
      BY <1>7, <2>2, <3>1
    <3>2. CASE x # entry
      <4>1. cPrev'[x] = cPrev[x] /\ cNext'[x] = cNext[x] /\ x \in Free(cContents)
        BY <1>7, <1>8, <2>1, <3>2
      <4> QED BY <2>2, <4>1, SameOperators DEF RingInv, Circular!FreeUnlinked
    <3> QED BY <3>1, <3>2
  <2> QED BY <1>6, <2>2, SameOperators DEF Circular!FreeUnlinked
<1>12. Circular!TypeOK'
  BY <1>5, <1>6, <1>7, <1>8, SameOperators DEF Circular!TypeOK
<1> QED BY <1>8, <1>10, <1>11, <1>12 DEF RingInv

-----------------------------------------------------------------------------
LEMMA RingAppends ==
  ASSUME RingInv, NEW l \in List, NEW lst \in List, l # lst, Circular!destructiveAppend(l, lst)
  PROVE  RingInv'
<1> DEFINE c == cContents[l]
           s == cContents[lst]
           after == At(c, Len(c), l)
           firstOf == cNext[lst]
           lastOf == cPrev[lst]
<1>1. /\ c \in Seq(Item) /\ Len(c) \in Nat /\ l \notin Item /\ lst \notin Item
      /\ Distinct(c) /\ \A i \in 1..Len(c) : c[i] # l
      /\ \A i \in Int : At(c, i, l) \in Entry
      /\ s \in Seq(Item) /\ Len(s) \in Nat /\ Distinct(s)
  BY EntriesApart
<1>2. Ring(c, l, cPrev, cNext) /\ Ring(s, lst, cPrev, cNext)
  BY DEF RingInv, Rings
<1>3. cPrev[l] = after /\ cNext[after] = l
  BY <1>1, <1>2 DEF Ring, At
<1>4. firstOf = At(s, 1, lst) /\ lastOf = At(s, Len(s), lst)
      /\ (Circular!empty(lst) <=> Len(s) = 0)
  <2>1. 0 \in 0..Len(s) /\ Len(s) \in 0..Len(s) /\ At(s, 0, lst) = lst
        /\ At(s, Len(s) + 1, lst) = lst
    BY <1>1 DEF At
  <2>2. firstOf = At(s, 1, lst) /\ lastOf = At(s, Len(s), lst)
    BY <1>2, <2>1 DEF Ring
  <2>3. \A i \in 1..Len(s) : s[i] # lst
    BY <1>1
  <2> QED BY <1>1, <2>2, <2>3 DEF Circular!empty, At
<1>5. /\ cNext \in [Entry -> Entry \cup {Null}]
      /\ cPrev \in [Entry -> Entry \cup {Null}]
      /\ cContents \in Contents /\ Apart(cContents) /\ cDebug \in BOOLEAN
  BY SameOperators DEF RingInv, Circular!TypeOK
<1>6. CASE Circular!empty(lst)
  <2>1. UNCHANGED <<cPrev, cNext, cContents, cDebug>>
    BY <1>6 DEF Circular!destructiveAppend
  <2> QED BY <2>1, SameOperators DEF RingInv, Circular!TypeOK, Rings, Circular!FreeUnlinked
<1>7. CASE ~Circular!empty(lst)
  <2>1. /\ Len(s) > 0 /\ firstOf = s[1] /\ lastOf = s[Len(s)]
        /\ firstOf \in Item /\ lastOf \in Item
        /\ firstOf \in Entry /\ lastOf \in Entry /\ after \in Entry
        /\ l \in Entry /\ lst \in Entry
    BY <1>1, <1>4, <1>7 DEF At, Entry
  <2>2. after # lastOf /\ after # lst /\ l # firstOf /\ l # lst /\ firstOf # lst /\ lastOf # lst
    <3>1. \A i \in Int, j \in Int : At(c, i, l) # At(s, j, lst)
      BY EntriesApart
    <3>2. At(s, 0, lst) = lst /\ 0 \in Int /\ Len(c) \in Int /\ Len(s) \in Int
      BY <1>1 DEF At
    <3>3. after # lst
      BY <3>1, <3>2
    <3>4. after # lastOf
      BY <1>4, <3>1, <3>2
    <3> QED BY <1>1, <2>1, <3>3, <3>4
  <2> HIDE DEF after, firstOf, lastOf
  <2>3. /\ cNext' = [cNext EXCEPT ![lastOf] = l, ![after] = firstOf, ![lst] = lst]
        /\ cPrev' = [cPrev EXCEPT ![firstOf] = after, ![l] = lastOf, ![lst] = lst]
        /\ cContents' = [cContents EXCEPT ![l] = cContents[l] \o cContents[lst], ![lst] = <<>>]
        /\ cDebug' = cDebug
    BY <1>3, <1>7 DEF Circular!destructiveAppend, firstOf, lastOf
  <2>4. /\ cNext' \in [Entry -> Entry \cup {Null}]
        /\ cPrev' \in [Entry -> Entry \cup {Null}]
        /\ cNext'[after] = firstOf /\ cNext'[lastOf] = l /\ cNext'[lst] = lst
        /\ cPrev'[firstOf] = after /\ cPrev'[l] = lastOf /\ cPrev'[lst] = lst
        /\ \A e \in Entry : e \notin {lastOf, after, lst} => cNext'[e] = cNext[e]
        /\ \A e \in Entry : e \notin {firstOf, l, lst} => cPrev'[e] = cPrev[e]
    BY <1>5, <2>1, <2>2, <2>3
  <2> DEFINE rest == [cContents EXCEPT ![lst] = <<>>]
  <2>5. /\ rest \in Contents /\ Apart(rest)
        /\ Released(cContents, rest, s)
        /\ \A m \in List : Disjoint(rest[m], s)
    BY ONLY <1>5, lst \in List, ApartEmptied
  <2>6. rest[l] = c /\ rest[lst] = <<>> /\ \A m \in List : m # lst => rest[m] = cContents[m]
    BY <1>5, <2>2 DEF Contents
  <2>7. cContents' = [rest EXCEPT ![l] = Insert(rest[l], Len(c), s)]
    <3>1. c \o s = Insert(c, Len(c), s)
      BY ONLY <1>1, ConcatIsInsert
    <3> QED BY <1>5, <2>2, <2>3, <2>6, <3>1 DEF Contents
  <2> HIDE DEF rest
  <2>8. cContents' \in Contents /\ Apart(cContents') /\ Taken(rest, cContents', s)
    <3>1. Len(c) \in 0..Len(rest[l])
      BY <1>1, <2>6
    <3> QED BY ONLY <1>1, <2>5, <2>7, l \in List, <3>1, ApartInsert
  <2>9. \A x \in Free(cContents') : x \in Free(cContents)
    BY <2>5, <2>8 DEF Taken, Released
  <2>10. \A i \in 1..Len(s) : s[i] \in Entry /\ s[i] # l /\ s[i] # lst /\ s[i] # after
    <3>1. \A i \in 1..Len(s) : s[i] \in Item
      BY <1>1
    <3>2. \A i \in 1..Len(s) : s[i] = At(s, i, lst) /\ i \in Int
      BY DEF At
    <3>3. \A i \in Int, j \in Int : At(c, i, l) # At(s, j, lst)
      BY EntriesApart
    <3>4. Len(c) \in Int
      BY <1>1
    <3> QED BY <1>1, <3>1, <3>2, <3>3, <3>4 DEF Entry, after
  <2>11. Ring(Insert(c, Len(c), s), l, cPrev', cNext')
    <3>1. ASSUME NEW i \in 1..(Len(s) - 1)
          PROVE cNext'[s[i]] = s[i + 1] /\ cPrev'[s[i + 1]] = s[i]
      <4>1. /\ i \in 1..Len(s) /\ i + 1 \in 1..Len(s) /\ Len(s) \in 1..Len(s) /\ 1 \in 1..Len(s)
            /\ i # Len(s) /\ i + 1 # 1 /\ i \in 0..Len(s)
        BY <1>1
      <4>2. s[i] # lastOf /\ s[i + 1] # firstOf
        BY <1>1, <2>1, <4>1 DEF Distinct
      <4>3. cNext[s[i]] = s[i + 1] /\ cPrev[s[i + 1]] = s[i]
        BY <1>2, <4>1 DEF Ring, At
      <4> QED BY <2>4, <2>10, <4>1, <4>2, <4>3
    <3>2. ASSUME NEW i \in 0..Len(c), i # Len(c)
          PROVE  cNext'[At(c, i, l)] = cNext[At(c, i, l)]
                 /\ cPrev'[At(c, i + 1, l)] = cPrev[At(c, i + 1, l)]
      <4>1. i \in Int /\ i + 1 \in Int /\ Len(c) \in Int /\ Len(c) \in 0..Len(c)
        BY <1>1
      <4>2. At(c, i, l) # after /\ At(c, i + 1, l) # At(c, Len(c) + 1, l)
        BY ONLY <1>1, <4>1, <3>2, i \in 0..Len(c), AtInjective DEF after
      <4>3. At(c, Len(c) + 1, l) = l
        BY <1>1 DEF At
      <4>4. \A j \in Int, h \in Int : At(c, j, l) # At(s, h, lst)
        BY EntriesApart
      <4>5. firstOf = At(s, 1, lst) /\ lastOf = At(s, Len(s), lst) /\ lst = At(s, 0, lst)
            /\ 1 \in Int /\ Len(s) \in Int /\ 0 \in Int
        BY <1>1, <1>4 DEF At
      <4>6. At(c, i, l) \notin {firstOf, lastOf, lst}
            /\ At(c, i + 1, l) \notin {firstOf, lastOf, lst}
        BY <4>1, <4>4, <4>5
      <4> QED BY <1>1, <2>4, <4>1, <4>2, <4>3, <4>6
    <3>3. At(c, Len(c) + 1, l) = l /\ Len(c) \in 0..Len(c)
      BY <1>1 DEF At
    <3>4. /\ cNext'[At(c, Len(c), l)] = s[1] /\ cPrev'[s[1]] = At(c, Len(c), l)
          /\ cNext'[s[Len(s)]] = At(c, Len(c) + 1, l) /\ cPrev'[At(c, Len(c) + 1, l)] = s[Len(s)]
      BY <2>1, <2>4, <3>3 DEF after
    <3>5. c \in Seq(Item) /\ s \in Seq(Item) /\ Len(s) > 0 /\ Len(c) \in 0..Len(c)
          /\ Disjoint(c, s)
      BY <1>1, <2>1, <2>5, <2>6, <3>3
    <3>6. \A i \in 1..Len(s) : s[i] # l
      BY <2>10
    <3> HIDE DEF c, s
    <3> QED BY ONLY <1>1, <1>2, <3>1, <3>2, <3>4, <3>5, <3>6, RingInsert
  <2>12. Rings'
    <3>1. ASSUME NEW m \in List PROVE Ring(cContents'[m], m, cPrev', cNext')
      <4>1. CASE m = l
        <5>1. cContents'[l] = Insert(c, Len(c), s)
          BY <2>5, <2>6, <2>7 DEF Contents
        <5> QED BY <2>11, <4>1, <5>1
      <4>2. CASE m = lst
        <5>1. cContents'[lst] = <<>> /\ Len(<<>>) = 0
          BY <1>5, <2>2, <2>3 DEF Contents
        <5> QED BY <2>4, <4>2, <5>1 DEF Ring, At
      <4>3. CASE m # l /\ m # lst
        <5>1. \A i \in Int : /\ At(cContents[m], i, m) \in Entry
                             /\ \A j \in Int : /\ At(cContents[m], i, m) # At(c, j, l)
                                              /\ At(cContents[m], i, m) # At(s, j, lst)
          BY <4>3, EntriesApart
        <5>2. /\ firstOf = At(s, 1, lst) /\ lastOf = At(s, Len(s), lst) /\ lst = At(s, 0, lst)
              /\ l = At(c, 0, l) /\ after = At(c, Len(c), l)
              /\ 1 \in Int /\ Len(s) \in Int /\ 0 \in Int /\ Len(c) \in Int
          BY <1>1, <1>4 DEF At, after
        <5>3. \A i \in Int : At(cContents[m], i, m) \notin {firstOf, lastOf, lst, l, after}
          BY <5>1, <5>2
        <5>4. Ring(cContents[m], m, cPrev', cNext')
          BY <2>4, <4>3, <5>1, <5>3, OtherRings
        <5>5. cContents'[m] = cContents[m]
          BY <1>5, <2>3, <4>3 DEF Contents
        <5> QED BY <5>4, <5>5
      <4> QED BY <4>1, <4>2, <4>3
    <3> QED BY <3>1 DEF Rings
  <2>13. Circular!FreeUnlinked'
    <3>1. \A x \in Free(cContents) : \A i \in Int : x # At(c, i, l) /\ x # At(s, i, lst)
      BY EntriesApart
    <3>2. /\ firstOf = At(s, 1, lst) /\ lastOf = At(s, Len(s), lst) /\ lst = At(s, 0, lst)
          /\ l = At(c, 0, l) /\ after = At(c, Len(c), l)
          /\ 1 \in Int /\ Len(s) \in Int /\ 0 \in Int /\ Len(c) \in Int
      BY <1>1, <1>4 DEF At, after
    <3>3. \A x \in Free(cContents) : x \in Entry /\ x \notin {firstOf, lastOf, lst, l, after}
      BY <3>1, <3>2 DEF Free, Entry
    <3> QED BY <2>3, <2>4, <2>9, <3>3, SameOperators DEF RingInv, Circular!FreeUnlinked
  <2>14. Circular!TypeOK'
    BY <1>5, <2>3, <2>4, <2>8, SameOperators DEF Circular!TypeOK
  <2> QED BY <2>8, <2>12, <2>13, <2>14 DEF RingInv
<1> QED BY <1>6, <1>7

-----------------------------------------------------------------------------
LEMMA RingInitially == Circular!Init => RingInv
<1> SUFFICES ASSUME Circular!Init PROVE RingInv
  OBVIOUS
<1>1. Item \cap List = {}
  BY PointerAssumption
<1>2. <<>> \in Seq(Item) /\ Len(<<>>) = 0
  OBVIOUS
<1>3. \A l \in List : cContents[l] = <<>>
  BY SameOperators DEF Circular!Init
<1>4. Circular!TypeOK
  BY <1>2, SameOperators DEF Circular!Init, Circular!TypeOK, Contents
<1>5. Apart(cContents)
  BY <1>2, <1>3 DEF Apart
<1>6. ASSUME NEW l \in List PROVE Ring(cContents[l], l, cPrev, cNext)
  <2>1. cNext[l] = l /\ cPrev[l] = l
    BY SameOperators DEF Circular!Init, Entry
  <2> QED BY <1>2, <1>3, <2>1 DEF Ring, At
<1>7. Circular!FreeUnlinked
  BY <1>1, SameOperators DEF Circular!Init, Circular!FreeUnlinked, Free, Entry
<1> QED BY <1>4, <1>5, <1>6, <1>7 DEF RingInv, Rings

LEMMA RingInductive == RingInv /\ [Circular!Next]_Circular!vars => RingInv'
<1> SUFFICES ASSUME RingInv, [Circular!Next]_Circular!vars PROVE RingInv'
  OBVIOUS
<1>1. ASSUME NEW l \in List, NEW item \in Free(cContents), Circular!PushBack(l, item)
      PROVE RingInv'
  <2>1. cContents[l] \in Seq(Item) /\ Len(cContents[l]) \in 0..Len(cContents[l]) /\ item \in Item
    BY EntriesApart DEF Free
  <2>2. cPrev[l] = At(cContents[l], Len(cContents[l]), l)
    BY <2>1 DEF RingInv, Rings, Ring, At
  <2>3. Append(cContents[l], item) = Insert(cContents[l], Len(cContents[l]), <<item>>)
    BY ONLY <2>1, AppendIsInsert
  <2>4. cContents' = [cContents EXCEPT ![l] = Insert(cContents[l], Len(cContents[l]), <<item>>)]
    BY <1>1, <2>3 DEF Circular!PushBack
  <2> QED BY <1>1, <2>1, <2>2, <2>4, RingInserts DEF Circular!PushBack
<1>2. ASSUME NEW l \in List, NEW item \in Free(cContents), NEW k \in 0..Len(cContents[l]),
             Circular!InsertAfter(l, k, item)
      PROVE  RingInv'
  BY <1>2, RingInserts, SameOperators DEF Circular!InsertAfter
<1>3. ASSUME NEW l \in List, NEW k \in 1..Len(cContents[l]), Circular!Remove(l, k) PROVE RingInv'
  BY <1>3, RingRemoves
<1>4. ASSUME NEW l \in List, NEW lst \in List, l # lst, Circular!destructiveAppend(l, lst)
      PROVE RingInv'
  BY <1>4, RingAppends
<1>5. CASE UNCHANGED Circular!vars
  BY <1>5, SameOperators DEF Circular!vars, RingInv, Circular!TypeOK, Rings, Circular!FreeUnlinked
<1> QED BY <1>1, <1>2, <1>3, <1>4, <1>5, SameOperators DEF Circular!Next

LEMMA RingImplied == RingInv => Circular!RingIsContents
<1> SUFFICES ASSUME RingInv, NEW l \in List
             PROVE  /\ Circular!begin(l) = At(cContents[l], 1, Circular!end(l))
                    /\ Circular!Decrement(Circular!end(l))
                       = At(cContents[l], Len(cContents[l]), Circular!end(l))
                    /\ \A i \in 1..Len(cContents[l]) :
                         /\ Circular!Increment(cContents[l][i])
                            = At(cContents[l], i + 1, Circular!end(l))
                         /\ Circular!Decrement(cContents[l][i])
                            = At(cContents[l], i - 1, Circular!end(l))
                    /\ Circular!first(l) = At(cContents[l], 1, Null)
                    /\ Circular!last(l) = At(cContents[l], Len(cContents[l]), Null)
                    /\ \A i \in 1..Len(cContents[l]) :
                         /\ Circular!NextOf(l, cContents[l][i]) = At(cContents[l], i + 1, Null)
                         /\ Circular!PrevOf(l, cContents[l][i]) = At(cContents[l], i - 1, Null)
  BY SameOperators DEF Circular!RingIsContents
<1> DEFINE c == cContents[l]
<1>1. Len(c) \in Nat /\ \A i \in 1..Len(c) : c[i] # l
  BY EntriesApart
<1>2. Ring(c, l, cPrev, cNext)
  BY DEF RingInv, Rings
<1>3. \A i \in Int : Circular!OrNull(l, At(c, i, l)) = At(c, i, Null)
  BY <1>1 DEF Circular!OrNull, At
<1>4. cNext[l] = At(c, 1, l) /\ cPrev[l] = At(c, Len(c), l)
  BY <1>1, <1>2 DEF Ring, At
<1>5. ASSUME NEW i \in 1..Len(c)
      PROVE  cNext[c[i]] = At(c, i + 1, l) /\ cPrev[c[i]] = At(c, i - 1, l)
  <2>1. i \in 0..Len(c) /\ i - 1 \in 0..Len(c) /\ i - 1 + 1 = i /\ At(c, i, l) = c[i]
    BY <1>1 DEF At
  <2>2. cNext[At(c, i, l)] = At(c, i + 1, l)
    BY <1>2, <2>1 DEF Ring
  <2>3. cPrev[At(c, i - 1 + 1, l)] = At(c, i - 1, l)
    BY <1>2, <2>1 DEF Ring
  <2> QED BY <2>1, <2>2, <2>3
<1>6. Circular!first(l) = At(c, 1, Null) /\ Circular!last(l) = At(c, Len(c), Null)
  BY <1>1, <1>3, <1>4 DEF Circular!first, Circular!last
<1>7. ASSUME NEW i \in 1..Len(c)
      PROVE  Circular!NextOf(l, c[i]) = At(c, i + 1, Null)
             /\ Circular!PrevOf(l, c[i]) = At(c, i - 1, Null)
  <2>1. i + 1 \in Int /\ i - 1 \in Int
    OBVIOUS
  <2> QED BY <1>3, <1>5, <2>1 DEF Circular!NextOf, Circular!PrevOf
<1> QED BY <1>4, <1>5, <1>6, <1>7
           DEF Circular!begin, Circular!end, Circular!Increment, Circular!Decrement

-----------------------------------------------------------------------------
(* LinkedList.hpp: however lists were filled, appended to each other and   *)
(* assigned, iterating over a list in use visits what is in it, in order,  *)
(* from both ends, and ends.                                               *)
THEOREM IterationIsContents == Spec => []IteratesContents
BY LinkedInitially, LinkedInductive, LinkedImplied, PTL DEF Spec

(* LinkedList.hpp: the assertion of the constructor holds for every item   *)
(* in no list.                                                             *)
THEOREM ConstructorAssertionHolds == Spec => []FreeUnlinked
<1>1. LinkedInv => FreeUnlinked
  BY DEF LinkedInv
<1> QED BY LinkedInitially, LinkedInductive, <1>1, PTL DEF Spec

(* CircularList.hpp: however lists were filled, emptied and appended to    *)
(* each other, iterating visits what is in them, in order, from both ends. *)
THEOREM RingsAreContents == Circular!Spec => []Circular!RingIsContents
<1>1. RingInv => Circular!RingIsContents
  BY RingImplied
<1> QED BY RingInitially, RingInductive, <1>1, PTL DEF Circular!Spec

(* CircularList.hpp:303: the assertion holds for every item in no list.    *)
THEOREM EntryAssertionHolds == Circular!Spec => []Circular!FreeUnlinked
<1>1. RingInv => Circular!FreeUnlinked
  BY DEF RingInv
<1> QED BY RingInitially, RingInductive, <1>1, PTL DEF Circular!Spec

(* The two invariants, one of which holds because nothing happens          *)
THEOREM ListsInvariant == ListsSpec => [](LinkedInv /\ RingInv)
<1>1. ListsInit => LinkedInv /\ RingInv
  BY LinkedInitially, RingInitially DEF ListsInit
<1>2. LinkedInv /\ RingInv /\ [ListsNext]_<<vars, cVars>> => (LinkedInv /\ RingInv)'
  <2> SUFFICES ASSUME LinkedInv, RingInv, [ListsNext]_<<vars, cVars>>
               PROVE  LinkedInv' /\ RingInv'
    OBVIOUS
  <2>1. UNCHANGED cVars => UNCHANGED Circular!vars
    BY DEF cVars, Circular!vars
  <2>2. [Next]_vars /\ [Circular!Next]_Circular!vars
    BY <2>1 DEF ListsNext
  <2>3. LinkedInv'
    BY <2>2, LinkedInductive
  <2>4. RingInv'
    BY <2>2, RingInductive
  <2> QED BY <2>3, <2>4
<1> QED BY <1>1, <1>2, PTL DEF ListsSpec

(* Lists of either kind, while lists of the other kind lie idle: iterating *)
(* visits the contents from both ends, and ends.                           *)
THEOREM ContentsAreAlwaysIterated == ListsSpec => []ContentsAreIterated
<1>1. LinkedInv /\ RingInv => ContentsAreIterated
  BY LinkedImplied, RingImplied DEF ContentsAreIterated
<1> QED BY ListsInvariant, <1>1, PTL

(* Both kinds of lists keep to their types, and the assertions about links *)
(* of LinkedList's constructor and of insertAfterEntry hold for every item *)
(* in no list.                                                             *)
THEOREM AssertionsAlwaysHold == ListsSpec => []AssertionsHold
<1>1. LinkedInv /\ RingInv => AssertionsHold
  BY DEF LinkedInv, RingInv, AssertionsHold
<1> QED BY ListsInvariant, <1>1, PTL

===============================================================================
