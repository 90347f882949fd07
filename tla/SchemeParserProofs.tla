--------------------------- MODULE SchemeParserProofs --------------------------
(***************************************************************************)
(* Theorems about SchemeParser, for every set of bodies.                   *)
(***************************************************************************)
EXTENDS SchemeParserInvariants, TLAPS, SequenceTheorems, WellFoundedInduction

-----------------------------------------------------------------------------

LEMMA EmptySequence == IsSeq(<<>>) /\ Len(<<>>) = 0
BY DEF IsSeq

LEMMA Sequence1 ==
  ASSUME NEW a
  PROVE  /\ IsSeq(<<a>>) /\ Len(<<a>>) = 1 /\ <<a>>[1] = a
         /\ \A i \in 1..Len(<<a>>) : <<a>>[i] = a
<1>1. <<a>> \in Seq({a}) OBVIOUS
<1>2. \A i \in 1..1 : <<a>>[i] = a OBVIOUS
<1> QED BY <1>1, <1>2 DEF IsSeq

LEMMA Sequence2 ==
  ASSUME NEW a, NEW b
  PROVE  IsSeq(<<a, b>>) /\ Len(<<a, b>>) = 2 /\ <<a, b>>[1] = a /\ <<a, b>>[2] = b
<1>1. <<a, b>> \in Seq({a, b}) OBVIOUS
<1> QED BY <1>1 DEF IsSeq

LEMMA Sequence3 ==
  ASSUME NEW a, NEW b, NEW c
  PROVE  /\ IsSeq(<<a, b, c>>) /\ Len(<<a, b, c>>) = 3
         /\ <<a, b, c>>[1] = a /\ <<a, b, c>>[2] = b /\ <<a, b, c>>[3] = c
<1>1. <<a, b, c>> \in Seq({a, b, c}) OBVIOUS
<1> QED BY <1>1 DEF IsSeq

LEMMA IndexedSequence ==
  ASSUME NEW n \in Nat, NEW S, NEW s \in [1..n -> S]
  PROVE  IsSeq(s) /\ Len(s) = n
<1>1. s \in Seq(S) BY SeqDef
<1>2. DOMAIN s = 1..n /\ DOMAIN s = 1..Len(s) /\ Len(s) \in Nat BY <1>1, LenProperties
<1>3. Len(s) = n BY <1>2
<1> QED BY <1>1, <1>3 DEF IsSeq

LEMMA SequenceLen ==
  ASSUME NEW s, IsSeq(s)
  PROVE  Len(s) \in Nat /\ (s # <<>> <=> Len(s) > 0) /\ DOMAIN s = 1..Len(s)
BY LenProperties, EmptySeq DEF IsSeq

LEMMA AppendSequence ==
  ASSUME NEW s, NEW e, IsSeq(s)
  PROVE  /\ IsSeq(Append(s, e))
         /\ Len(Append(s, e)) = Len(s) + 1
         /\ Append(s, e)[Len(s) + 1] = e
         /\ \A i \in 1..Len(s) : Append(s, e)[i] = s[i]
<1>1. PICK S : s \in Seq(S) BY DEF IsSeq
<1>2. s \in Seq(S \cup {e}) /\ e \in S \cup {e} BY <1>1, SeqMonotonic
<1> QED BY <1>2, AppendProperties DEF IsSeq

LEMMA ConcatSequence ==
  ASSUME NEW s, NEW t, IsSeq(s), IsSeq(t)
  PROVE  /\ IsSeq(s \o t)
         /\ Len(s \o t) = Len(s) + Len(t)
         /\ \A i \in 1..Len(s) : (s \o t)[i] = s[i]
         /\ \A i \in 1..Len(t) : (s \o t)[Len(s) + i] = t[i]
<1>1. PICK S : s \in Seq(S) BY DEF IsSeq
<1>2. PICK T : t \in Seq(T) BY DEF IsSeq
<1>3. s \in Seq(S \cup T) /\ t \in Seq(S \cup T) BY <1>1, <1>2, SeqMonotonic
<1>4. /\ s \o t \in Seq(S \cup T)
      /\ Len(s \o t) = Len(s) + Len(t)
      /\ \A i \in 1..Len(s) + Len(t) : (s \o t)[i] = IF i <= Len(s) THEN s[i] ELSE t[i - Len(s)]
  BY <1>3, ConcatProperties
<1>5. Len(s) \in Nat /\ Len(t) \in Nat BY <1>3, LenProperties
<1>6. IsSeq(s \o t) BY <1>4 DEF IsSeq
<1>7. \A i \in 1..Len(s) : (s \o t)[i] = s[i] BY <1>4, <1>5
<1>8. \A i \in 1..Len(t) : (s \o t)[Len(s) + i] = t[i] BY <1>4, <1>5
<1> QED BY <1>4, <1>6, <1>7, <1>8

LEMMA TailSequence ==
  ASSUME NEW s, IsSeq(s), s # <<>>
  PROVE  /\ IsSeq(Tail(s))
         /\ Len(Tail(s)) = Len(s) - 1
         /\ \A i \in 1..(Len(s) - 1) : Tail(s)[i] = s[i + 1]
         /\ Head(s) = s[1]
BY HeadTailProperties DEF IsSeq

-----------------------------------------------------------------------------
(* What is to be done after a step: some items, and all but the first of   *)
(* those there were.                                                       *)
LEMMA DoEffect ==
  ASSUME NEW s, IsSeq(s), s # <<>>, NEW items, IsSeq(items)
  PROVE  /\ IsSeq(items \o Tail(s))
         /\ Len(items \o Tail(s)) = Len(items) + (Len(s) - 1)
         /\ Len(items) \in Nat /\ Len(s) \in Nat /\ Len(s) > 0
         /\ \A i \in 1..Len(items) : (items \o Tail(s))[i] = items[i]
         /\ \A i \in 2..Len(s) : (items \o Tail(s))[Len(items) + (i - 1)] = s[i]
BY SequenceLen, TailSequence, ConcatSequence

-----------------------------------------------------------------------------
(* Induction on natural numbers, for a set of them *)
LEMMA Induction ==
  ASSUME NEW T, 0 \in T, \A n \in Nat : n \in T => n + 1 \in T
  PROVE  \A n \in Nat : n \in T
<1> DEFINE R == OpToRel(<, Nat)
           U == {n \in Nat : n \notin T}
<1>1. SUFFICES ASSUME U # {} PROVE FALSE OBVIOUS
<1>2. IsWellFoundedOn(R, Nat) BY NatLessThanWellFounded
<1>3. \A y, x \in Nat : y < x => <<y, x>> \in R BY DEF OpToRel
<1>4. U \subseteq Nat OBVIOUS
<1> HIDE DEF R
<1>5. PICK x \in U : \A y \in U : ~(<<y, x>> \in R)
  <2> HIDE DEF U
  <2> QED BY <1>1, <1>2, <1>4, WFMin
<1>6. x \in Nat /\ x # 0 /\ x \notin T OBVIOUS
<1>7. x - 1 \in Nat /\ x - 1 < x /\ (x - 1) + 1 = x BY <1>6
<1>8. x - 1 \in U BY <1>6, <1>7
<1> QED BY <1>3, <1>5, <1>6, <1>7, <1>8

-----------------------------------------------------------------------------

LEMMA SourceSyntax == \A x \in Syntax : IsSyntax(x)
BY SyntaxAssumption DEF ClosedSyntax, IsSyntax

LEMMA PartsAreSyntax ==
  ASSUME NEW x, IsSyntax(x)
  PROVE  \/ x.k = "pair" /\ IsSyntax(x.car) /\ IsSyntax(x.cdr)
         \/ x.k = "symbol"
         \/ x.k = "begin" /\ IsSeq(x.exprs) /\ \A i \in 1..Len(x.exprs) : IsSyntax(x.exprs[i])
         \/ x = Value \/ x = Nil
         \/ x = BindingOf(m_unspec)
BY DEF IsSyntax, IsBeginIn, ClosedSyntax

LEMMA PairSyntax ==
  ASSUME NEW a, NEW d, IsSyntax(a), IsSyntax(d),
         NEW p, p \in [k : {"pair"}, car : {a}, cdr : {d}, mark : {p.mark}]
  PROVE  IsSyntax(p)
<1>1. PICK S : a \in S /\ ClosedSyntax(S) BY DEF IsSyntax
<1>2. PICK T : d \in T /\ ClosedSyntax(T) BY DEF IsSyntax
<1> DEFINE U == S \cup T \cup {p}
<1>3. ASSUME NEW x \in U
      PROVE  \/ x \in [k : {"pair"}, car : U, cdr : U, mark : {x.mark}]
             \/ x \in [k : {"symbol"}, name : {x.name}, stamps : {x.stamps}, mark : {x.mark}]
             \/ IsBeginIn(x, U)
             \/ x \in {Value, Nil, BindingOf(m_unspec)}
  BY <1>1, <1>2 DEF IsBeginIn, ClosedSyntax
<1>4. ClosedSyntax(U) BY <1>3 DEF ClosedSyntax
<1> QED BY <1>4 DEF IsSyntax

LEMMA SymbolSyntax ==
  ASSUME NEW x, x \in [k : {"symbol"}, name : {x.name}, stamps : {x.stamps}, mark : {x.mark}]
  PROVE  IsSyntax(x)
<1>1. ClosedSyntax({x}) BY DEF ClosedSyntax
<1> QED BY <1>1 DEF IsSyntax

LEMMA AtomSyntax ==
  /\ IsSyntax(Value) /\ IsSyntax(Nil)
  /\ IsSyntax(BindingOf(m_unspec))
  /\ \A n : IsSyntax(Symbol(n))
BY SymbolSyntax DEF ClosedSyntax, Symbol, IsSyntax

LEMMA UnionSyntax ==
  ASSUME NEW C, \A S \in C : ClosedSyntax(S)
  PROVE  ClosedSyntax(UNION C)
BY DEF ClosedSyntax, IsBeginIn

LEMMA BeginSyntax ==
  ASSUME NEW exprs, IsSeq(exprs), \A i \in 1..Len(exprs) : IsSyntax(exprs[i])
  PROVE  IsSyntax(Begin(exprs))
<1> DEFINE S(i) == CHOOSE T : exprs[i] \in T /\ ClosedSyntax(T)
           C == {S(i) : i \in 1..Len(exprs)}
           U == UNION C
           V == U \cup {Begin(exprs)}
<1>1. \A i \in 1..Len(exprs) : exprs[i] \in S(i) /\ ClosedSyntax(S(i)) BY DEF IsSyntax
<1> HIDE DEF S
<1>2. ClosedSyntax(U)
  <2>1. \A T \in C : ClosedSyntax(T) BY <1>1
  <2> HIDE DEF C
  <2> QED BY <2>1, UnionSyntax
<1>3. \A i \in 1..Len(exprs) : exprs[i] \in U BY <1>1
<1> HIDE DEF U
<1>4. IsBeginIn(Begin(exprs), V) BY <1>3 DEF IsBeginIn, Begin
<1>5. ASSUME NEW x \in U
      PROVE  \/ x \in [k : {"pair"}, car : V, cdr : V, mark : {x.mark}]
             \/ x \in [k : {"symbol"}, name : {x.name}, stamps : {x.stamps}, mark : {x.mark}]
             \/ IsBeginIn(x, V)
             \/ x \in {Value, Nil, BindingOf(m_unspec)}
  BY <1>2 DEF IsBeginIn, ClosedSyntax
<1>6. ClosedSyntax(V) BY <1>4, <1>5 DEF ClosedSyntax
<1> QED BY <1>6 DEF IsSyntax

LEMMA WrappedSyntax ==
  ASSUME NEW x, NEW m, IsSyntax(x)
  PROVE  IsSyntax(wrap(x, m)) /\ wrap(x, m).k = x.k
<1>1. PICK S : x \in S /\ ClosedSyntax(S) BY DEF IsSyntax
<1>2. CASE x \in [k : {"pair"}, car : S, cdr : S, mark : {x.mark}]
  BY <1>1, <1>2, PairSyntax DEF IsSyntax, wrap, IsPair, IsSymbol
<1>3. CASE x \in [k : {"symbol"}, name : {x.name}, stamps : {x.stamps}, mark : {x.mark}]
  BY <1>3, SymbolSyntax DEF wrap, IsPair, IsSymbol
<1>4. CASE x \in {Value, Nil, BindingOf(m_unspec)}
  BY <1>4 DEF wrap, IsPair, IsSymbol, Value, Nil, BindingOf
<1>5. CASE IsBeginIn(x, S) BY <1>1, <1>5 DEF IsBeginIn, IsSyntax, wrap, IsPair, IsSymbol
<1> QED BY <1>1, <1>2, <1>3, <1>4, <1>5 DEF ClosedSyntax

LEMMA CarCdrSyntax ==
  ASSUME NEW p, IsSyntax(p), IsPair(p)
  PROVE  IsSyntax(car(p)) /\ IsSyntax(cdr(p))
BY PartsAreSyntax, WrappedSyntax DEF IsPair, Value, Nil, BindingOf, car, cdr

-----------------------------------------------------------------------------

LEMMA ListFromExists ==
  ASSUME NEW items, NEW d, Len(items) \in Nat
  PROVE  \E f : ListFrom(items, d, f)
<1> DEFINE n == Len(items)
           Solves(f, k) == /\ f[n + 1] = d
                           /\ \A i \in 1..n : i > n - k => f[i] = Pair(items[i], f[i + 1])
           T == {k \in Nat : k <= n => \E f : Solves(f, k)}
<1>1. 0 \in T
  <2>1. Solves([i \in {n + 1} |-> d], 0) OBVIOUS
  <2> QED BY <2>1
<1>2. ASSUME NEW k \in Nat, k \in T
      PROVE  k + 1 \in T
  <2> SUFFICES ASSUME k + 1 <= n PROVE \E f : Solves(f, k + 1) OBVIOUS
  <2>1. PICK f : Solves(f, k) BY <1>2
  <2> DEFINE g == [i \in 1..(n + 1) |->
                     IF i = n - k THEN Pair(items[i], f[i + 1]) ELSE f[i]]
  <2>2. g[n + 1] = d BY <2>1
  <2>3. ASSUME NEW i \in 1..n, i > n - (k + 1)
        PROVE  g[i] = Pair(items[i], g[i + 1]) BY <2>3, <2>1
  <2>4. Solves(g, k + 1) BY <2>2, <2>3
  <2> QED BY <2>4
<1>3. n \in T
  <2> HIDE DEF T
  <2> QED BY <1>1, <1>2, Induction
<1>4. PICK f : Solves(f, n) BY <1>3
<1> DEFINE g == [i \in 1..(n + 1) |-> f[i]]
<1>5. ASSUME NEW i \in 1..(n + 1)
      PROVE  g[i] = IF i > n THEN d ELSE Pair(items[i], g[i + 1]) BY <1>4
<1>6. g = [i \in 1..(n + 1) |-> IF i > n THEN d ELSE Pair(items[i], g[i + 1])] BY <1>5
<1> QED BY <1>6 DEF ListFrom

LEMMA ListToSyntax ==
  ASSUME NEW items, NEW d, Len(items) \in Nat, IsSyntax(d),
         \A i \in 1..Len(items) : IsSyntax(items[i])
  PROVE  IsSyntax(ListTo(items, d))
<1> DEFINE n == Len(items)
           f == CHOOSE g : ListFrom(items, d, g)
           T == {k \in Nat : k <= n => IsSyntax(f[(n + 1) - k])}
<1>1. ListTo(items, d) = f[1] BY DEF ListTo, ListFrom
<1>2. ListFrom(items, d, f) BY ListFromExists
<1>3. \A i \in 1..(n + 1) : f[i] = IF i > n THEN d ELSE Pair(items[i], f[i + 1])
  BY <1>2 DEF ListFrom
<1> HIDE DEF f
<1>4. 0 \in T BY <1>3
<1>5. ASSUME NEW k \in Nat, k \in T
      PROVE  k + 1 \in T
  <2> SUFFICES ASSUME k + 1 <= n PROVE IsSyntax(f[(n + 1) - (k + 1)]) OBVIOUS
  <2> DEFINE i == (n + 1) - (k + 1)
  <2>1. i \in 1..n /\ i + 1 = (n + 1) - k OBVIOUS
  <2> HIDE DEF i
  <2>2. i \in 1..(n + 1) /\ ~(i > n) BY <2>1
  <2>3. f[i] = Pair(items[i], f[i + 1]) BY <1>3, <2>2
  <2>4. IsSyntax(f[i + 1]) BY <1>5, <2>1
  <2>5. IsSyntax(f[i]) BY <2>1, <2>3, <2>4, PairSyntax DEF Pair
  <2> QED BY <2>5 DEF i
<1>6. n \in T
  <2> HIDE DEF T
  <2> QED BY <1>4, <1>5, Induction
<1> QED BY <1>1, <1>6

LEMMA WrappedParts ==
  ASSUME NEW x, NEW m, IsSyntax(x), IsPair(x)
  PROVE  wrap(x, m).car = x.car /\ wrap(x, m).cdr = x.cdr
BY DEF IsSyntax, ClosedSyntax, IsBeginIn, IsPair, Value, Nil, BindingOf, wrap, IsSymbol

LEMMA CarCdrKinds ==
  ASSUME NEW p, IsSyntax(p), IsPair(p)
  PROVE  car(p).k = p.car.k /\ cdr(p).k = p.cdr.k
BY PartsAreSyntax, WrappedSyntax DEF IsPair, Value, Nil, BindingOf, car, cdr

(* The arguments of a form that the macro accepts *)
LEMMA MacroArguments ==
  ASSUME NEW x, IsSyntax(x), IsPair(x), OrPattern(x), NEW args, args = cdr(Wrapped(x))
  PROVE  /\ IsNil(args) \/ IsPair(args)
         /\ ~IsNil(args) => /\ IsPair(args) /\ IsSyntax(car(args)) /\ IsSyntax(cdr(args))
                            /\ IsNil(cdr(args)) \/ IsPair(cdr(args))
<1> DEFINE w == Wrapped(x)
<1>1. IsSyntax(w) /\ IsPair(w) /\ w.cdr = x.cdr /\ args = cdr(w)
  BY WrappedSyntax, WrappedParts DEF Wrapped, IsPair
<1> HIDE DEF w
<1>2. /\ IsSyntax(args) /\ args.k = cdr(x).k /\ IsSyntax(cdr(x))
      /\ cdr(x).k = x.cdr.k /\ IsSyntax(x.cdr)
  BY <1>1, CarCdrSyntax, CarCdrKinds, PartsAreSyntax DEF IsPair, Value, Nil, BindingOf
<1>3. args = wrap(w.cdr, w.mark) /\ cdr(x) = wrap(x.cdr, x.mark) BY <1>1 DEF cdr
<1>4. IsNil(args) \/ IsPair(args) BY <1>2 DEF OrPattern, IsList, IsNil, IsPair
<1>5. ASSUME ~IsNil(args)
      PROVE  /\ IsPair(args) /\ IsSyntax(car(args)) /\ IsSyntax(cdr(args))
             /\ IsNil(cdr(args)) \/ IsPair(cdr(args))
  BY <1>2, <1>4, <1>5, <1>1, <1>3, WrappedParts, CarCdrKinds, CarCdrSyntax DEF IsPair,
     OrPattern, IsList, IsNil
<1> QED BY <1>4, <1>5

(* What the macro makes of them is syntax. *)
LEMMA ExpandedSyntax ==
  ASSUME NEW x, IsSyntax(x), IsPair(x), OrPattern(x)
  PROVE  IsSyntax(Expanded(x))
<1> DEFINE w == Wrapped(x)
           args == cdr(w)
           more == cdr(args)
<1>1. IsNil(args) \/ IsPair(args) BY MacroArguments
<1>2. ASSUME ~IsNil(args)
      PROVE  /\ IsPair(args) /\ IsSyntax(car(args)) /\ IsSyntax(more)
             /\ IsNil(more) \/ IsPair(more) BY <1>2, MacroArguments
<1> HIDE DEF w, args, more
<1>3. IsSyntax(OrExpansion(w))
  <2>1. OrExpansion(w) =
          IF IsNil(args) THEN Value
          ELSE IF IsNil(more) THEN car(args)
          ELSE List(<<Symbol("let"), List(<<List(<<Symbol("tmp"), car(args)>>)>>),
                      List(<<Symbol("if"), Symbol("tmp"), Symbol("tmp"),
                             ListTo(<<Symbol("or"), car(more)>>, cdr(more))>>)>>)
    BY DEF OrExpansion, args, more
  <2>2. CASE IsNil(args) \/ IsNil(more) BY <1>2, <2>1, <2>2, AtomSyntax
  <2>3. CASE ~IsNil(args) /\ ~IsNil(more)
    <3>1. IsSyntax(car(args)) /\ IsSyntax(car(more)) /\ IsSyntax(cdr(more))
      BY <1>2, <2>3, CarCdrSyntax
    <3> HIDE DEF more, args
    <3>2. ASSUME NEW a, NEW b, IsSyntax(a), IsSyntax(b)
          PROVE  \A d : IsSyntax(d) => IsSyntax(ListTo(<<a, b>>, d))
      BY <3>2, ListToSyntax, Sequence2
    <3>3. ASSUME NEW a, IsSyntax(a)
          PROVE  IsSyntax(List(<<a>>))
      BY <3>3, ListToSyntax, Sequence1, AtomSyntax DEF List
    <3>4. ASSUME NEW a, NEW b, NEW c, IsSyntax(a), IsSyntax(b), IsSyntax(c)
          PROVE  IsSyntax(List(<<a, b, c>>))
      BY <3>4, ListToSyntax, Sequence3, AtomSyntax DEF List
    <3>5. ASSUME NEW a, NEW b, NEW c, NEW d,
                 IsSyntax(a), IsSyntax(b), IsSyntax(c), IsSyntax(d)
          PROVE  IsSyntax(List(<<a, b, c, d>>))
      BY <3>5, ListToSyntax, AtomSyntax DEF List
    <3> DEFINE t == Symbol("tmp")
               orForm == ListTo(<<Symbol("or"), car(more)>>, cdr(more))
               ifForm == List(<<Symbol("if"), t, t, orForm>>)
               vars1 == List(<<List(<<t, car(args)>>)>>)
    <3>6. IsSyntax(t) /\ IsSyntax(Symbol("or")) /\ IsSyntax(Symbol("if"))
          /\ IsSyntax(Symbol("let")) BY AtomSyntax
    <3> HIDE DEF t
    <3>7. IsSyntax(orForm) BY <3>1, <3>2, <3>6
    <3>8. IsSyntax(List(<<t, car(args)>>)) BY <3>1, <3>2, <3>6, AtomSyntax DEF List
    <3>9. IsSyntax(vars1) BY <3>3, <3>8
    <3> HIDE DEF orForm, vars1
    <3>10. IsSyntax(ifForm) BY <3>5, <3>6, <3>7
    <3> HIDE DEF ifForm
    <3>11. IsSyntax(List(<<Symbol("let"), vars1, ifForm>>)) BY <3>4, <3>6, <3>9, <3>10
    <3> QED BY <2>1, <2>3, <3>11 DEF t, vars1, ifForm, orForm
  <2> QED BY <2>2, <2>3
<1> QED BY <1>3, WrappedSyntax DEF Expanded, w

-----------------------------------------------------------------------------
(* The inductive invariant.  Its parts speak of given frames fs, variables *)
(* vs, an environment ev and the scope c of the context, to be used of the *)
(* state before a step and of the state behind it.                         *)

-----------------------------------------------------------------------------

LEMMA AppendExtends ==
  ASSUME NEW s \in Seq(Nat), NEW e \in Nat
  PROVE  /\ Append(s, e) \in Seq(Nat) /\ Len(Append(s, e)) = Len(s) + 1 /\ Len(s) \in Nat
         /\ Append(s, e)[Len(s) + 1] = e
         /\ Extends(s, Append(s, e)) /\ Extends(s, s)
BY AppendProperties DEF Extends

LEMMA NodeStays ==
  ASSUME NEW fs, NEW fs2, NEW vs, NEW vs2, Extends(fs, fs2), Extends(vs, vs2),
         Len(fs) \in Nat, Len(fs2) \in Nat, Len(vs) \in Nat, Len(vs2) \in Nat,
         NEW node, IsNode(node, fs, vs)
  PROVE  IsNode(node, fs2, vs2)
<1>1. 1..Len(fs) \subseteq 1..Len(fs2) /\ 1..Len(vs) \subseteq 1..Len(vs2)
  BY DEF Extends
<1>2. CASE node.op \notin {"ref", "set"} BY <1>1, <1>2 DEF IsNode
<1>3. CASE node.op \in {"ref", "set"} BY <1>3, <1>1 DEF IsNode, Extends, Reaches
<1> QED BY <1>2, <1>3

LEMMA ItemStays ==
  ASSUME NEW fs, NEW fs2, NEW vs, NEW vs2, Extends(fs, fs2), Extends(vs, vs2),
         Len(fs) \in Nat, Len(fs2) \in Nat, Len(vs) \in Nat, Len(vs2) \in Nat,
         NEW it, IsItem(it, fs, vs)
  PROVE  IsItem(it, fs2, vs2)
BY NodeStays DEF IsItem

-----------------------------------------------------------------------------
(* The rest of the list when items take the place of its head *)
LEMMA RestOfTodo ==
  ASSUME NEW td, IsSeq(td), td # <<>>, NEW items, IsSeq(items),
         NEW j \in 1..Len(items \o Tail(td)), j > Len(items)
  PROVE  (j - Len(items)) + 1 \in 2..Len(td) /\ (items \o Tail(td))[j] = td[(j - Len(items)) + 1]
<1>1. /\ Len(items \o Tail(td)) = Len(items) + (Len(td) - 1)
      /\ Len(items) \in Nat /\ Len(td) \in Nat /\ Len(td) > 0
      /\ \A i \in 2..Len(td) : (items \o Tail(td))[Len(items) + (i - 1)] = td[i]
  BY DoEffect
<1> DEFINE i == (j - Len(items)) + 1
<1>2. i \in 2..Len(td) /\ Len(items) + (i - 1) = j BY <1>1
<1> HIDE DEF i
<1>3. (items \o Tail(td))[j] = td[i] BY <1>1, <1>2
<1> QED BY <1>2, <1>3 DEF i

LEMMA TodoStep ==
  ASSUME NEW fs, NEW fs2, NEW vs, NEW vs2, Extends(fs, fs2), Extends(vs, vs2),
         Len(fs) \in Nat, Len(fs2) \in Nat, Len(vs) \in Nat, Len(vs2) \in Nat,
         NEW td, TodoOK(td, fs, vs), td # <<>>,
         NEW items, IsSeq(items),
         \A i \in 1..Len(items) : IsItem(items[i], fs2, vs2),
         \/ td[1].do \notin {"forms", "form"} /\ BodyFirst(items)
         \/ \A i \in 1..Len(items) : items[i].do \in {"forms", "form"}
  PROVE  TodoOK(items \o Tail(td), fs2, vs2)
<1> DEFINE r == items \o Tail(td)
           k == Len(items)
<1>1. /\ IsSeq(td) /\ BodyFirst(td) /\ \A i \in 1..Len(td) : IsItem(td[i], fs, vs)
  BY DEF TodoOK
<1>2. /\ IsSeq(r) /\ Len(r) = k + (Len(td) - 1)
      /\ k \in Nat /\ Len(td) \in Nat /\ Len(td) > 0
      /\ \A i \in 1..k : r[i] = items[i] BY <1>1, DoEffect
<1>3. \A j \in 1..Len(r) : j > k =>
        (j - k) + 1 \in 2..Len(td) /\ r[j] = td[(j - k) + 1] BY <1>1, RestOfTodo
<1> HIDE DEF r, k
<1>4. ASSUME NEW j \in 1..Len(r)
      PROVE  IsItem(r[j], fs2, vs2)
  <2>1. CASE j <= k BY <1>2, <2>1 DEF k
  <2>2. CASE j > k BY <1>3, <2>2, <1>1, <1>2, ItemStays
  <2> QED BY <1>2, <2>1, <2>2
<1>5. ASSUME NEW i \in 1..Len(r), r[i].do \in OfBody, NEW j \in 1..(i - 1)
      PROVE  r[j].do \in {"forms", "form"}
  <2>1. CASE i <= k BY <1>2, <2>1, <1>5 DEF BodyFirst, k
  <2>2. CASE i > k
    <3> DEFINE m == (i - k) + 1
    <3>1. m \in 2..Len(td) /\ r[i] = td[m] /\ td[m].do \in OfBody BY <1>3, <1>5, <2>2
    <3>2. \A l \in 1..(m - 1) : td[l].do \in {"forms", "form"}
      BY <1>1, <1>2, <3>1 DEF BodyFirst
    <3>3. td[1].do \in {"forms", "form"} BY <1>2, <3>1, <3>2
    <3>4. CASE j <= k BY <1>2, <3>4, <3>3 DEF k
    <3>5. CASE j > k
      <4>1. (j - k) + 1 \in 1..(m - 1) /\ j \in 1..Len(r) BY <1>2, <2>2, <3>5
      <4> QED BY <1>3, <3>2, <3>5, <4>1
    <3> QED BY <1>2, <3>4, <3>5
  <2> QED BY <1>2, <2>1, <2>2
<1>6. BodyFirst(r) BY <1>5 DEF BodyFirst
<1> QED BY <1>2, <1>4, <1>6 DEF TodoOK, r

LEMMA ScheduleStep ==
  ASSUME NEW td, IsSeq(td), td # <<>>, NEW items, IsSeq(items),
         NEW ev, NEW ev2, NEW c, NEW c2, NEW d, Schedule(td, d, ev, c),
         NEW e, ScheduleBefore(items, e, ev2, c2, d[2]),
         \A i \in 2..Len(td) : c2 = c \/ td[i].do \notin OfBody,
         \A i \in 1..d[2] : ev2[i].scope = ev[i].scope
  PROVE  Schedulable(items \o Tail(td), ev2, c2)
<1>0. /\ e \in [1..(Len(items) + 1) -> Nat]
      /\ e[1] = Len(ev2)
      /\ e[Len(items) + 1] = d[2]
      /\ \A i \in 1..Len(items) :
           e[i] = e[i + 1] + Closes(items[i]) /\ Fits(items[i], ev2[e[i]].scope, c2)
      /\ \A i, j \in 1..(Len(items) + 1) : i <= j => e[j] <= e[i] BY DEF ScheduleBefore
<1> DEFINE r == items \o Tail(td)
           k == Len(items)
           n == Len(td)
           d2 == [i \in 1..(k + n) |-> IF i <= k THEN e[i] ELSE d[(i - k) + 1]]
<1>1. /\ Len(r) = k + (n - 1)
      /\ k \in Nat /\ n \in Nat /\ n > 0 /\ Len(r) + 1 = k + n
      /\ \A i \in 1..k : r[i] = items[i] BY DoEffect
<1>2. \A j \in 1..Len(r) : j > k => (j - k) + 1 \in 2..n /\ r[j] = td[(j - k) + 1]
  BY RestOfTodo
<1> HIDE DEF r
<1>3. /\ d \in [1..(n + 1) -> Nat] /\ d[n + 1] = 2
      /\ \A i \in 1..n : d[i] = d[i + 1] + Closes(td[i]) /\ Fits(td[i], ev[d[i]].scope, c)
      /\ \A i, j \in 1..(n + 1) : i <= j => d[j] <= d[i] BY DEF Schedule
<1>4. d2 \in [1..(k + n) -> Nat] BY <1>1, <1>0, <1>3
<1>5. d2[1] = Len(ev2) BY <1>1, <1>0
<1>6. \A i \in 1..(k + n) : (i > k => d2[i] = d[(i - k) + 1]) /\ (i <= k + 1 => d2[i] = e[i])
  BY <1>1, <1>0
<1> HIDE DEF d2
<1>7. d2[Len(r) + 1] = 2 BY <1>1, <1>3, <1>6
<1>8. ASSUME NEW i \in 1..Len(r)
      PROVE  d2[i] = d2[i + 1] + Closes(r[i]) /\ Fits(r[i], ev2[d2[i]].scope, c2)
  <2>1. CASE i <= k BY <1>1, <2>1, <1>6, <1>0
  <2>2. CASE i > k
    <3> DEFINE m == (i - k) + 1
    <3>1. m \in 2..n /\ r[i] = td[m] BY <1>2, <2>2
    <3>2. ((i + 1) - k) + 1 = m + 1 /\ i + 1 \in 1..(k + n) /\ i \in 1..(k + n) BY <1>1
    <3>3. d2[i] = d[m] /\ d2[i + 1] = d[m + 1] BY <1>1, <1>6, <2>2, <3>2
    <3> HIDE DEF m
    <3>4. m \in 1..n /\ 2 \in 1..(n + 1) /\ m \in 1..(n + 1) /\ n + 1 \in 1..(n + 1)
          /\ 2 <= m /\ m <= n + 1 BY <1>1, <3>1
    <3>5. d[m] = d[m + 1] + Closes(td[m]) /\ Fits(td[m], ev[d[m]].scope, c)
      BY <1>3, <3>4
    <3>6. d[m] <= d[2] /\ d[n + 1] <= d[m] /\ d[m] \in Nat /\ d[2] \in Nat BY <1>3, <3>4
    <3>7. d[m] \in 1..d[2] BY <1>3, <3>6
    <3>8. ev2[d[m]].scope = ev[d[m]].scope /\ (c2 = c \/ td[m].do \notin OfBody)
      BY <3>1, <3>7
    <3>9. Fits(td[m], ev2[d[m]].scope, c2) BY <3>5, <3>8 DEF Fits
    <3> QED BY <3>1, <3>3, <3>5, <3>9
  <2> QED BY <1>1, <2>1, <2>2
<1>9. ASSUME NEW i \in 1..(k + n), NEW j \in 1..(k + n), i <= j
      PROVE  d2[j] <= d2[i]
  <2>1. CASE j <= k BY <1>1, <1>6, <1>9, <2>1, <1>0
  <2>2. CASE i > k
    <3>1. /\ (i - k) + 1 \in 1..(n + 1) /\ (j - k) + 1 \in 1..(n + 1)
          /\ (i - k) + 1 <= (j - k) + 1
          /\ d2[i] = d[(i - k) + 1] /\ d2[j] = d[(j - k) + 1] BY <1>1, <1>6, <1>9, <2>2
    <3> QED BY <1>3, <3>1
  <2>3. CASE i <= k /\ j > k
    <3>1. /\ i \in 1..(k + 1) /\ k + 1 \in 1..(k + 1) /\ i <= k + 1
          /\ (j - k) + 1 \in 1..(n + 1) /\ 2 \in 1..(n + 1) /\ 2 <= (j - k) + 1
          /\ d2[i] = e[i] /\ d2[j] = d[(j - k) + 1] BY <1>1, <1>6, <2>3
    <3>2. e[k + 1] <= e[i] /\ d[(j - k) + 1] <= d[2] BY <1>0, <1>3, <3>1
    <3>3. e[k + 1] = d[2] /\ e[k + 1] \in Nat /\ e[i] \in Nat /\ d[(j - k) + 1] \in Nat
      BY <1>0, <1>3, <3>1
    <3> QED BY <3>1, <3>2, <3>3
  <2> QED BY <1>1, <2>1, <2>2, <2>3
<1>10. Schedule(r, d2, ev2, c2) BY <1>1, <1>4, <1>5, <1>7, <1>8, <1>9 DEF Schedule
<1> QED BY <1>10 DEF r, Schedulable

-----------------------------------------------------------------------------

LEMMA CurrentItem ==
  ASSUME IInv, todo # <<>>
  PROVE  /\ item = todo[1] /\ IsItem(item, frames, variables)
         /\ Fits(item, InnerScope, ctx.scope)
         /\ IsSeq(todo) /\ Len(todo) \in Nat /\ Len(todo) > 0
         /\ Len(env) \in Nat /\ Len(env) >= 2
         /\ InnerScope \in 1..Len(frames) /\ Len(frames) \in Nat
         /\ item.do \notin {"forms", "form"} => \A i \in 2..Len(todo) : todo[i].do \notin OfBody
<1>1. IsSeq(todo) /\ Len(todo) \in Nat /\ Len(todo) > 0 /\ item = todo[1]
  BY SequenceLen, TailSequence DEF IInv, TodoOK, item
<1>2. IsItem(item, frames, variables) /\ BodyFirst(todo) BY <1>1 DEF IInv, TodoOK
<1>3. /\ IsSeq(env) /\ Len(env) >= 2
      /\ \A i \in 1..Len(env) : env[i] \in [scope : 1..Len(frames), vars : {env[i].vars}]
  BY DEF IInv, EnvOK
<1>4. Len(env) \in Nat BY <1>3, SequenceLen
<1>5. InnerScope \in 1..Len(frames) BY <1>3, <1>4 DEF InnerScope
<1>6. Fits(item, InnerScope, ctx.scope)
  BY <1>1 DEF IInv, Schedulable, Schedule, InnerScope
<1>7. Len(frames) \in Nat BY DEF IInv, FramesOK
<1>8. item.do \notin {"forms", "form"} => \A i \in 2..Len(todo) : todo[i].do \notin OfBody
  BY <1>1, <1>2 DEF BodyFirst
<1> QED BY <1>1, <1>2, <1>3, <1>4, <1>5, <1>6, <1>7, <1>8

LEMMA InnerStep ==
  ASSUME IInv, todo # <<>>,
         NEW items, todo' = items \o Tail(todo),
         ItemsFit(items, item, InnerScope, ctx.scope, frames, variables'),
         source' = source, left' = left, frames' = frames,
         errors' \in Nat, markStamp' \in Nat,
         VariablesOK(variables', frames), Extends(variables, variables'),
         EnvOK(env', frames, variables'), Len(env') = Len(env),
         \A i \in 1..Len(env) : env'[i].scope = env[i].scope,
         CtxOK(ctx'), ctx'.scope = ctx.scope,
         OutOK(out', frames, variables')
  PROVE  IInv'
<1> DEFINE k == Len(items)
<1>1. /\ item = todo[1] /\ IsSeq(todo) /\ Len(todo) \in Nat /\ Len(todo) > 0
      /\ Len(env) \in Nat /\ Len(env) >= 2 BY CurrentItem
<1>2. /\ IsSeq(items) /\ k \in Nat
      /\ \A i \in 1..k : IsItem(items[i], frames, variables')
           /\ Fits(items[i], InnerScope, ctx.scope)
      /\ \A i \in 1..(k - 1) : Closes(items[i]) = 0
      /\ Closes(item) = IF k = 0 THEN 0 ELSE Closes(items[k])
  BY SequenceLen DEF ItemsFit
<1>3. TodoOK(todo', frames', variables')
  <2>1. Extends(frames, frames) /\ Len(frames) \in Nat /\ Len(variables) \in Nat
        /\ Len(variables') \in Nat BY DEF IInv, FramesOK, VariablesOK, Extends
  <2>2. \/ todo[1].do \notin {"forms", "form"} /\ BodyFirst(items)
        \/ \A i \in 1..Len(items) : items[i].do \in {"forms", "form"}
    BY <1>1 DEF ItemsFit
  <2>3. TodoOK(todo, frames, variables) BY DEF IInv
  <2> QED BY <1>2, <2>1, <2>2, <2>3, TodoStep
<1>4. PICK d : Schedule(todo, d, env, ctx.scope) BY DEF IInv, Schedulable
<1>5. /\ d[1] = Len(env) /\ d[2] \in Nat /\ d[1] \in Nat /\ d[2] <= d[1]
      /\ d[1] = d[2] + Closes(item)
  <2>1. 1 \in 1..Len(todo) /\ {1, 2} \subseteq 1..(Len(todo) + 1) BY <1>1
  <2>2. /\ d \in [1..(Len(todo) + 1) -> Nat] /\ d[1] = Len(env)
        /\ d[1] = d[2] + Closes(todo[1]) /\ d[2] <= d[1] BY <1>4, <2>1 DEF Schedule
  <2> QED BY <1>1, <2>1, <2>2
<1> DEFINE e == [i \in 1..(k + 1) |-> IF i <= k THEN d[1] ELSE d[2]]
<1>6. e \in [1..(k + 1) -> Nat] /\ e[k + 1] = d[2] /\ \A i \in 1..k : e[i] = d[1]
  BY <1>2, <1>5
<1>7. e[1] = Len(env') BY <1>2, <1>5
<1>8. \A i, j \in 1..(k + 1) : i <= j => e[j] <= e[i] BY <1>2, <1>5
<1> HIDE DEF e
<1>9. ASSUME NEW i \in 1..k
      PROVE  e[i] = e[i + 1] + Closes(items[i]) /\ Fits(items[i], env'[e[i]].scope, ctx'.scope)
  <2>1. env'[e[i]].scope = InnerScope
    <3>1. e[i] = Len(env) BY <1>5, <1>6
    <3> HIDE DEF k
    <3> QED BY <1>1, <3>1 DEF InnerScope
  <2>2. CASE i = k BY <1>2, <1>5, <1>6, <2>1, <2>2
  <2>3. CASE i # k
    <3>1. i \in 1..(k - 1) /\ i + 1 \in 1..k BY <1>2, <2>3
    <3> QED BY <1>2, <1>5, <1>6, <2>1, <3>1
  <2> QED BY <2>2, <2>3
<1>10. \A i \in 1..d[2] : env'[i].scope = env[i].scope BY <1>1, <1>5
<1>11. ScheduleBefore(items, e, env', ctx'.scope, d[2])
  BY <1>6, <1>7, <1>8, <1>9 DEF ScheduleBefore
<1>12. Schedulable(items \o Tail(todo), env', ctx'.scope)
  BY <1>1, <1>2, <1>4, <1>10, <1>11, ScheduleStep
<1> QED BY <1>3, <1>12 DEF IInv

LEMMA PlainItemsFit ==
  ASSUME NEW items, IsSeq(items), NEW it, NEW s, NEW c, NEW fs, NEW vs,
         it.do \in Plain \cup {"endBody"},
         \A i \in 1..Len(items) : IsPlain(items[i], s, fs, vs)
  PROVE  ItemsFit(items, it, s, c, fs, vs)
<1> USE DEF IsPlain
<1>1. Len(items) \in Nat BY SequenceLen
<1>2. \A x : x.do \in Plain \cup {"endBody"} => Closes(x) = 0
  BY DEF Closes, PopsScope, Plain
<1>3. \A i \in 1..Len(items) : Fits(items[i], s, c) /\ items[i].do \notin OfBody
  BY DEF Fits, Plain, OfBody
<1>4. BodyFirst(items) BY <1>3 DEF BodyFirst
<1>5. it.do \notin {"forms", "form"} BY DEF Plain
<1>6. Closes(it) = IF Len(items) = 0 THEN 0 ELSE Closes(items[Len(items)]) BY <1>1, <1>2
<1>7. \A i \in 1..(Len(items) - 1) : Closes(items[i]) = 0 BY <1>1, <1>2
<1> QED BY <1>3, <1>4, <1>5, <1>6, <1>7 DEF ItemsFit

(* A step of an expression, or to those of a body, that touches neither    *)
(* table nor context                                                       *)
LEMMA ExpressionStep ==
  ASSUME IInv, todo # <<>>, item.do \in Plain \cup {"endBody"},
         NEW items, IsSeq(items), todo' = items \o Tail(todo),
         \A i \in 1..Len(items) : IsPlain(items[i], InnerScope, frames, variables),
         UNCHANGED <<source, ctx, tableVars>>,
         errors' \in Nat, markStamp' \in Nat,
         OutOK(out', frames, variables)
  PROVE  IInv'
<1>1. ItemsFit(items, item, InnerScope, ctx.scope, frames, variables) BY PlainItemsFit
<1>2. /\ VariablesOK(variables, frames) /\ Extends(variables, variables)
      /\ EnvOK(env, frames, variables) /\ CtxOK(ctx) BY DEF IInv, VariablesOK, Extends
<1> QED BY <1>1, <1>2, InnerStep DEF tableVars, scopeVars

-----------------------------------------------------------------------------
(* What lookups find *)
LEMMA GreatestExists ==
  ASSUME NEW n \in Nat, NEW S \in SUBSET (1..n), S # {}
  PROVE  \E i \in S : \A j \in S : j <= i
<1> DEFINE T == {k \in Nat : \A U \in SUBSET (1..k) : U # {} => \E i \in U : \A j \in U : j <= i}
<1>1. 0 \in T
  <2>1. 1..0 = {} OBVIOUS
  <2> QED BY <2>1
<1>2. ASSUME NEW k \in Nat, k \in T
      PROVE  k + 1 \in T BY <1>2
<1>3. n \in T
  <2> HIDE DEF T
  <2> QED BY <1>1, <1>2, Induction
<1> QED BY <1>3

(* A frame reaches those around it, so the innermost scope reaches every   *)
(* open one.                                                               *)
LEMMA InnerReaches ==
  ASSUME IInv
  PROVE  \A j \in 1..Len(env) : Reaches(frames, InnerScope, env[j].scope)
<1> DEFINE n == Len(env)
           T == {k \in Nat : k < n => Reaches(frames, InnerScope, env[n - k].scope)}
<1>1. /\ n \in Nat /\ n >= 2
      /\ \A i \in 1..n : env[i].scope \in 1..Len(frames)
      /\ \A i \in 2..n : frames[env[i].scope] = env[i - 1].scope
  BY SequenceLen DEF IInv, EnvOK
<1> HIDE DEF n
<1>2. 0 \in T BY <1>1 DEF Reaches, InnerScope, n
<1>3. ASSUME NEW k \in Nat, k \in T
      PROVE  k + 1 \in T BY <1>1, <1>3 DEF Reaches
<1>4. ASSUME NEW j \in 1..n
      PROVE  Reaches(frames, InnerScope, env[j].scope)
  <2>1. n - j \in Nat /\ n - j < n /\ n - (n - j) = j BY <1>1
  <2>2. n - j \in T
    <3> HIDE DEF T
    <3> QED BY <1>2, <1>3, <2>1, Induction
  <2> QED BY <2>1, <2>2
<1> QED BY <1>4 DEF n

LEMMA MeaningAtBinds ==
  ASSUME NEW n \in Nat, n <= Len(env), Len(env) \in Nat, NEW x
  PROVE  IsMeaning(Env!MeaningAt(n, x))
<1> DEFINE binders == {i \in 1..n : x \in DOMAIN env[i].vars}
           last == CHOOSE i \in binders : \A j \in binders : j <= i
<1>1. Env!MeaningAt(n, x) = IF binders = {} THEN Env!NoBinding ELSE env[last].vars[x]
  BY DEF Env!MeaningAt
<1>2. CASE binders = {} BY <1>1, <1>2 DEF IsMeaning
<1>3. CASE binders # {}
  <2>1. \E i \in binders : \A j \in binders : j <= i BY <1>3, GreatestExists
  <2>2. last \in binders BY <2>1
  <2>3. last \in 1..Len(env) /\ x \in DOMAIN env[last].vars BY <2>2
  <2> QED BY <1>1, <1>3, <2>3 DEF IsMeaning
<1> QED BY <1>2, <1>3

LEMMA LookupBinds ==
  ASSUME Len(env) \in Nat, NEW ss
  PROVE  IsMeaning(lookupSyntaxSymbol(ss))
<1>1. \A x : IsMeaning(Env!Meaning(x)) BY MeaningAtBinds DEF Env!Meaning
<1>2. ASSUME NEW s, NEW x
      PROVE  IsMeaning(Env!MeaningFrom(s, x))
  <2>1. CASE s \in Env!Open
    <3> DEFINE i == CHOOSE k \in 1..Len(env) : env[k].scope = s
    <3>1. \E k \in 1..Len(env) : env[k].scope = s BY <2>1 DEF Env!Open
    <3>2. i \in 1..Len(env) BY <3>1
    <3>3. Env!MeaningFrom(s, x) = Env!MeaningAt(i, x) BY <2>1 DEF Env!MeaningFrom
    <3> HIDE DEF i
    <3> QED BY <3>2, <3>3, MeaningAtBinds
  <2>2. CASE s \notin Env!Open BY <2>2 DEF Env!MeaningFrom, IsMeaning
  <2> QED BY <2>1, <2>2
<1>3. IsMeaning(Env!NoBinding) BY DEF IsMeaning
<1> QED BY <1>1, <1>2, <1>3 DEF lookupSyntaxSymbol

LEMMA BindingsOfSyntax ==
  ASSUME IInv, NEW x, IsSyntax(x)
  PROVE  \/ isBinding(x) = Env!NoBinding
         \/ isBinding(x) \in m_unspec..-1
         \/ /\ isBinding(x) \in 1..Len(variables)
            /\ Reaches(frames, InnerScope, variables[isBinding(x)])
<1>1. IsSeq(env) /\ Len(env) \in Nat BY SequenceLen DEF IInv, EnvOK
<1>2. CASE x.k = "symbol"
  BY <1>1, <1>2, LookupBinds, InnerReaches DEF isBinding, IInv, EnvOK, IsMeaning
<1>3. CASE x.k # "symbol"
  BY <1>3, PartsAreSyntax DEF isBinding, Value, Nil, BindingOf, m_unspec, Env!NoBinding
<1> QED BY <1>2, <1>3

-----------------------------------------------------------------------------
LEMMA OutGrows ==
  ASSUME NEW nodes, NEW fs, NEW vs, OutOK(nodes, fs, vs), NEW node, IsNode(node, fs, vs)
  PROVE  OutOK(Append(nodes, node), fs, vs)
BY SequenceLen, AppendSequence DEF OutOK

-----------------------------------------------------------------------------
(* Steps that make a node of the expression, and nothing else *)
LEMMA MakesStep ==
  ASSUME IInv, todo # <<>>, item.do \in Plain,
         NEW op, NEW of, Makes(op, of),
         IsNode([op |-> op, of |-> of, in |-> item.in], frames, variables),
         UNCHANGED <<source, ctx, tableVars>>,
         errors' \in Nat, markStamp' \in Nat
  PROVE  IInv'
<1>1. todo' = <<>> \o Tail(todo) /\ out' = Append(out, [op |-> op, of |-> of, in |-> item.in])
  BY DEF Makes, Node, Do
<1>2. OutOK(out', frames, variables) BY <1>1, OutGrows DEF IInv
<1>3. IsSeq(<<>>) /\ \A i \in 1..Len(<<>>) : IsPlain(<<>>[i], InnerScope, frames, variables)
  BY EmptySequence
<1> QED BY <1>1, <1>2, <1>3, ExpressionStep

LEMMA ExpressionItem ==
  ASSUME IInv, Current("expr")
  PROVE  /\ todo # <<>> /\ item.do = "expr" /\ item.do \in Plain
         /\ IsSyntax(item.x) /\ item.in = InnerScope /\ item.in \in 1..Len(frames)
         /\ errors \in Nat /\ markStamp \in Nat /\ OutOK(out, frames, variables)
BY CurrentItem DEF Current, IsItem, Fits, Plain, IInv

LEMMA UnspecifiedNode ==
  ASSUME NEW fs, NEW vs, NEW f \in 1..Len(fs)
  PROVE  /\ IsNode([op |-> "unspecified", of |-> <<>>, in |-> f], fs, vs)
         /\ IsNode([op |-> "datum", of |-> <<>>, in |-> f], fs, vs)
         /\ IsNode(Make("unspecified", <<>>, f), fs, vs)
BY DEF IsNode, Op, Takes, Make

LEMMA FailsIInv ==
  ASSUME IInv, Current("expr"), Fails, UNCHANGED <<source, ctx, markStamp, tableVars>>
  PROVE  IInv'
<1>1. errors' \in Nat /\ markStamp' \in Nat /\ Makes("unspecified", <<>>)
  BY ExpressionItem DEF Fails, Report
<1> QED BY <1>1, ExpressionItem, UnspecifiedNode, MakesStep

LEMMA CompileValueIInv ==
  ASSUME IInv, CompileValue PROVE IInv'
BY ExpressionItem, UnspecifiedNode, MakesStep DEF CompileValue

LEMMA CompileVariableIInv ==
  ASSUME IInv, CompileVariable PROVE IInv'
<1> DEFINE b == isBinding(item.x)
<1>1. /\ Current("expr") /\ UNCHANGED <<source, ctx, markStamp, tableVars>>
      /\ IF IsVariable(b) THEN Makes("ref", <<b>>) ELSE Makes("unspecified", <<>>)
      /\ ReportIf(~IsVariable(b) /\ b # m_unspec) BY DEF CompileVariable
<1>2. /\ todo # <<>> /\ item.do \in Plain /\ IsSyntax(item.x)
      /\ item.in = InnerScope /\ item.in \in 1..Len(frames)
      /\ errors \in Nat /\ markStamp \in Nat BY <1>1, ExpressionItem
<1>3. errors' \in Nat /\ markStamp' \in Nat BY <1>1, <1>2 DEF ReportIf
<1>4. CASE ~IsVariable(b) BY <1>1, <1>2, <1>3, <1>4, UnspecifiedNode, MakesStep
<1>5. CASE IsVariable(b)
  <2>1. \/ b = Env!NoBinding
        \/ b \in m_unspec..-1
        \/ b \in 1..Len(variables) /\ Reaches(frames, InnerScope, variables[b])
    BY <1>2, BindingsOfSyntax
  <2> HIDE DEF b
  <2>2. b \in 1..Len(variables) /\ Reaches(frames, InnerScope, variables[b])
    BY <1>5, <2>1 DEF IsVariable, m_unspec, Env!NoBinding
  <2>3. IsNode([op |-> "ref", of |-> <<b>>, in |-> item.in], frames, variables)
    BY <1>2, <2>2 DEF IsNode, Op, Takes
  <2> QED BY <1>1, <1>2, <1>3, <1>5, <2>3, MakesStep
<1> QED BY <1>4, <1>5

LEMMA CompileInvalidIInv == IInv /\ CompileInvalid => IInv'
BY FailsIInv DEF CompileInvalid

-----------------------------------------------------------------------------
(* Steps that put expressions in the place of an expression *)
LEMMA ExprItem ==
  ASSUME NEW x, IsSyntax(x), NEW f, NEW fs, NEW vs
  PROVE  IsPlain(Expr(x, f), f, fs, vs)
BY DEF IsItem, IsPlain, Expr, Plain

LEMMA ArgsItem ==
  ASSUME NEW x, IsSyntax(x), NEW op \in {"apply", "begin"}, NEW n \in Nat, NEW f, NEW fs, NEW vs
  PROVE  IsPlain(Args(x, op, n, f), f, fs, vs)
BY DEF IsItem, IsPlain, Args, Plain

LEMMA CompileMacroIInv ==
  ASSUME IInv, CompileMacro PROVE IInv'
<1>1. Current("expr") /\ Heads(item.x, MACRO_OR) /\ UNCHANGED <<source, ctx, tableVars>>
  BY DEF CompileMacro, ExpressionUse
<1>2. CASE ~OrPattern(item.x) BY <1>2, <1>1, FailsIInv DEF CompileMacro, ExpressionUse
<1>3. CASE OrPattern(item.x)
  <2>1. /\ Do(<<Expr(Expanded(item.x), item.in)>>)
        /\ markStamp' = markStamp + 1 /\ UNCHANGED <<out, errors>>
    BY <1>3 DEF CompileMacro, ExpressionUse
  <2>2. IsSyntax(Expanded(item.x))
    BY <1>1, <1>3, ExpressionItem, ExpandedSyntax DEF Heads
  <2> DEFINE e == Expr(Expanded(item.x), item.in)
  <2>3. IsPlain(e, item.in, frames, variables) BY <2>2, ExprItem
  <2>4. todo' = <<e>> \o Tail(todo) BY <2>1 DEF Do
  <2> HIDE DEF e
  <2>5. IsSeq(<<e>>) /\ \A i \in 1..Len(<<e>>) : <<e>>[i] = e BY Sequence1
  <2>6. /\ errors' \in Nat /\ markStamp' \in Nat /\ OutOK(out', frames, variables)
        /\ todo # <<>> /\ item.do \in Plain /\ IsPlain(e, InnerScope, frames, variables)
    BY <1>1, <2>1, <2>3, ExpressionItem
  <2> QED BY <1>1, <2>4, <2>5, <2>6, ExpressionStep
<1> QED BY <1>2, <1>3

LEMMA OneItemStep ==
  ASSUME IInv, todo # <<>>, item.do \in Plain,
         NEW a, todo' = <<a>> \o Tail(todo), IsPlain(a, InnerScope, frames, variables),
         UNCHANGED <<source, ctx, tableVars, out>>,
         errors' \in Nat, markStamp' \in Nat
  PROVE  IInv'
BY Sequence1, ExpressionStep DEF IInv

LEMMA TwoItemsStep ==
  ASSUME IInv, todo # <<>>, item.do \in Plain,
         NEW a, NEW b, todo' = <<a, b>> \o Tail(todo),
         IsPlain(a, InnerScope, frames, variables),
         IsPlain(b, InnerScope, frames, variables),
         UNCHANGED <<source, ctx, tableVars, out>>,
         errors' \in Nat, markStamp' \in Nat
  PROVE  IInv'
<1>1. OutOK(out', frames, variables) BY DEF IInv
<1>2. IsSeq(<<a, b>>) /\ Len(<<a, b>>) = 2 /\ <<a, b>>[1] = a /\ <<a, b>>[2] = b
  BY Sequence2
<1>3. \A i \in 1..Len(<<a, b>>) : IsPlain(<<a, b>>[i], InnerScope, frames, variables)
  BY <1>2
<1> QED BY <1>1, <1>2, <1>3, ExpressionStep

LEMMA CompileCallIInv ==
  ASSUME IInv, CompileCall PROVE IInv'
<1> DEFINE a == Expr(car(item.x), item.in)
           b == Args(cdr(item.x), "apply", 0, item.in)
<1>1. /\ Current("expr") /\ IsPair(item.x) /\ todo' = <<a, b>> \o Tail(todo)
      /\ UNCHANGED <<source, ctx, out, errors, markStamp, tableVars>>
  BY DEF CompileCall, Do
<1>2. IsSyntax(car(item.x)) /\ IsSyntax(cdr(item.x))
  BY <1>1, ExpressionItem, CarCdrSyntax
<1>3. IsPlain(a, item.in, frames, variables) /\ IsPlain(b, item.in, frames, variables)
  BY <1>1, <1>2, ExprItem, ArgsItem
<1> HIDE DEF a, b
<1> QED BY <1>1, <1>3, ExpressionItem, TwoItemsStep

LEMMA CompileArgsIInv ==
  ASSUME IInv, CompileArgs PROVE IInv'
<1>1. /\ todo # <<>> /\ item.do = "args" /\ item.do \in Plain
      /\ UNCHANGED <<source, ctx, markStamp, tableVars>>
  BY DEF CompileArgs, Current, Plain
<1>2. /\ IsSyntax(item.x) /\ item.op \in {"apply", "begin"} /\ item.n \in Nat
      /\ item.in = InnerScope /\ item.in \in 1..Len(frames)
  BY <1>1, CurrentItem DEF IsItem, Fits
<1>3. errors \in Nat /\ markStamp \in Nat BY DEF IInv
<1>4. CASE IsPair(item.x)
  <2> DEFINE a == Expr(car(item.x), item.in)
             b == Args(cdr(item.x), item.op, item.n + 1, item.in)
  <2>1. todo' = <<a, b>> \o Tail(todo) /\ UNCHANGED <<out, errors>>
    BY <1>4 DEF CompileArgs, Do
  <2>2. IsSyntax(car(item.x)) /\ IsSyntax(cdr(item.x)) /\ item.n + 1 \in Nat
    BY <1>2, <1>4, CarCdrSyntax
  <2>3. IsPlain(a, InnerScope, frames, variables) BY <1>2, <2>2, ExprItem
  <2>4. IsPlain(b, InnerScope, frames, variables)
    BY <1>2, <2>2 DEF IsItem, IsPlain, Args, Plain
  <2> HIDE DEF a, b
  <2> QED BY <1>1, <1>3, <2>1, <2>3, <2>4, TwoItemsStep
<1>5. CASE ~IsPair(item.x)
  <2>1. Makes(item.op, <<item.n>>) /\ ReportIf(~IsNil(item.x)) BY <1>5 DEF CompileArgs
  <2>2. errors' \in Nat /\ markStamp' \in Nat BY <1>1, <1>3, <2>1 DEF ReportIf
  <2> DEFINE node == [op |-> item.op, of |-> <<item.n>>, in |-> item.in]
  <2>3. IsNode(node, frames, variables)
    <3>1. node.op = item.op /\ node.in = item.in /\ node.of[1] = item.n OBVIOUS
    <3> HIDE DEF node
    <3>2. item.op = "apply" => Takes(node) = item.n + 1 BY <3>1 DEF Takes
    <3>3. item.op = "begin" => Takes(node) = item.n BY <3>1 DEF Takes
    <3>4. Takes(node) \in Nat BY <1>2, <3>2, <3>3
    <3> QED BY <1>2, <3>1, <3>4 DEF IsNode, Op
  <2> QED BY <1>1, <2>1, <2>2, <2>3, MakesStep
<1> QED BY <1>4, <1>5

LEMMA ExprsProperties ==
  ASSUME NEW xs, IsSeq(xs), NEW f
  PROVE  /\ IsSeq(Exprs(xs, f)) /\ Len(Exprs(xs, f)) = Len(xs) /\ Len(xs) \in Nat
         /\ \A i \in 1..Len(xs) : Exprs(xs, f)[i] = Expr(xs[i], f)
<1> DEFINE S == {Expr(xs[i], f) : i \in 1..Len(xs)}
<1>1. Len(xs) \in Nat BY SequenceLen
<1>2. Exprs(xs, f) \in [1..Len(xs) -> S] BY DEF Exprs
<1>3. \A i \in 1..Len(xs) : Exprs(xs, f)[i] = Expr(xs[i], f) BY DEF Exprs
<1> HIDE DEF S
<1> QED BY <1>1, <1>2, <1>3, IndexedSequence

LEMMA ExprsThen ==
  ASSUME NEW xs, IsSeq(xs), NEW f, NEW last
  PROVE  /\ IsSeq(Exprs(xs, f) \o <<last>>)
         /\ Len(Exprs(xs, f) \o <<last>>) = Len(xs) + 1 /\ Len(xs) \in Nat
         /\ \A i \in 1..Len(xs) : (Exprs(xs, f) \o <<last>>)[i] = Expr(xs[i], f)
         /\ (Exprs(xs, f) \o <<last>>)[Len(xs) + 1] = last
<1>1. /\ IsSeq(Exprs(xs, f)) /\ Len(Exprs(xs, f)) = Len(xs) /\ Len(xs) \in Nat
      /\ \A i \in 1..Len(xs) : Exprs(xs, f)[i] = Expr(xs[i], f) BY ExprsProperties
<1>2. IsSeq(<<last>>) /\ Len(<<last>>) = 1 /\ <<last>>[1] = last /\ 1 \in 1..Len(<<last>>)
  BY Sequence1
<1> DEFINE t == <<last>>
<1> HIDE DEF t
<1> QED BY <1>1, <1>2, ConcatSequence DEF t

LEMMA ExprsThenStep ==
  ASSUME IInv, todo # <<>>, item.do \in Plain,
         NEW xs, IsSyntaxSequence(xs), NEW last,
         todo' = (Exprs(xs, InnerScope) \o <<last>>) \o Tail(todo),
         IsPlain(last, InnerScope, frames, variables),
         UNCHANGED <<source, ctx, tableVars, out>>,
         errors' \in Nat, markStamp' \in Nat
  PROVE  IInv'
<1> DEFINE items == Exprs(xs, InnerScope) \o <<last>>
<1>1. IsSeq(xs) /\ \A i \in 1..Len(xs) : IsSyntax(xs[i]) BY DEF IsSyntaxSequence
<1>2. /\ IsSeq(items) /\ Len(items) = Len(xs) + 1 /\ Len(xs) \in Nat
      /\ \A i \in 1..Len(xs) : items[i] = Expr(xs[i], InnerScope)
      /\ items[Len(xs) + 1] = last
  <2> HIDE DEF items
  <2>1. /\ IsSeq(Exprs(xs, InnerScope) \o <<last>>)
        /\ Len(Exprs(xs, InnerScope) \o <<last>>) = Len(xs) + 1 /\ Len(xs) \in Nat
        /\ \A i \in 1..Len(xs) : (Exprs(xs, InnerScope) \o <<last>>)[i] = Expr(xs[i], InnerScope)
        /\ (Exprs(xs, InnerScope) \o <<last>>)[Len(xs) + 1] = last BY <1>1, ExprsThen
  <2> QED BY <2>1 DEF items
<1> HIDE DEF items
<1>3. ASSUME NEW i \in 1..Len(items)
      PROVE  IsPlain(items[i], InnerScope, frames, variables) BY <1>1, <1>2, ExprItem
<1>4. OutOK(out', frames, variables) BY DEF IInv
<1>5. todo' = items \o Tail(todo) BY DEF items
<1> QED BY <1>2, <1>3, <1>4, <1>5, ExpressionStep

LEMMA CompileBeginIInv ==
  ASSUME IInv, CompileBegin PROVE IInv'
<1> DEFINE a == Args(cdr(item.x), "begin", 0, item.in)
           xs == item.x.exprs
           last == Make("begin", <<Len(xs)>>, item.in)
<1>1. /\ Current("expr") /\ UNCHANGED <<source, ctx, out, errors, markStamp, tableVars>>
      /\ \/ IsPair(item.x) /\ todo' = <<a>> \o Tail(todo)
         \/ item.x.k = "begin" /\ todo' = (Exprs(xs, item.in) \o <<last>>) \o Tail(todo)
  BY DEF CompileBegin, Do, Heads, Exprs
<1>2. /\ todo # <<>> /\ item.do \in Plain /\ IsSyntax(item.x)
      /\ item.in = InnerScope /\ item.in \in 1..Len(frames)
      /\ errors' \in Nat /\ markStamp' \in Nat BY <1>1, ExpressionItem
<1>3. CASE IsPair(item.x) /\ todo' = <<a>> \o Tail(todo)
  <2>1. IsSyntax(cdr(item.x)) BY <1>2, <1>3, CarCdrSyntax
  <2>2. IsPlain(a, InnerScope, frames, variables) BY <1>2, <2>1, ArgsItem
  <2> HIDE DEF a
  <2> QED BY <1>1, <1>2, <1>3, <2>2, OneItemStep
<1>4. CASE item.x.k = "begin" /\ todo' = (Exprs(xs, item.in) \o <<last>>) \o Tail(todo)
  <2>1. IsSyntaxSequence(xs)
    <3> DEFINE x == item.x
    <3>1. IsSyntax(x) /\ x.k = "begin" BY <1>2, <1>4
    <3>2. x # Value /\ x # Nil /\ x # BindingOf(m_unspec)
      BY <3>1 DEF Value, Nil, BindingOf
    <3> HIDE DEF x
    <3>3. IsSeq(x.exprs) /\ \A i \in 1..Len(x.exprs) : IsSyntax(x.exprs[i])
      BY <3>1, <3>2, PartsAreSyntax
    <3> QED BY <3>3 DEF IsSyntaxSequence, x
  <2>2. Len(xs) \in Nat BY <2>1, SequenceLen DEF IsSyntaxSequence
  <2> HIDE DEF xs
  <2>3. IsPlain(last, InnerScope, frames, variables)
    BY <1>2, <2>2 DEF IsItem, IsPlain, IsNode, Make, Plain, Op, Takes
  <2>4. todo' = (Exprs(xs, InnerScope) \o <<last>>) \o Tail(todo) BY <1>2, <1>4
  <2> HIDE DEF last
  <2> QED BY <1>1, <1>2, <2>1, <2>3, <2>4, ExprsThenStep
<1> QED BY <1>1, <1>3, <1>4

LEMMA IfPartsProperties ==
  ASSUME NEW form, IsSyntax(form), TwoAndRest(form)
  PROVE  /\ IsSyntaxSequence(IfParts(form))
         /\ Len(IfParts(form)) \in 2..3
<1> DEFINE rest == cdr(cdr(form))
           s == <<car(form), car(cdr(form))>>
           t == IF IsPair(rest) THEN <<car(rest)>> ELSE <<>>
<1>1. IsSyntax(car(form)) /\ IsSyntax(car(cdr(form))) /\ IsSyntax(rest)
  BY CarCdrSyntax DEF TwoAndRest
<1>2. IsPair(rest) => IsSyntax(car(rest)) BY <1>1, CarCdrSyntax
<1> HIDE DEF rest
<1>3. IsSeq(s) /\ Len(s) = 2 /\ \A i \in 1..2 : IsSyntax(s[i]) BY <1>1, Sequence2
<1>4. IsSeq(t) /\ Len(t) \in 0..1 /\ \A i \in 1..Len(t) : IsSyntax(t[i])
  BY <1>2, Sequence1, EmptySequence
<1>5. IfParts(form) = s \o t BY DEF IfParts, rest
<1> HIDE DEF s, t
<1>6. /\ IsSeq(s \o t) /\ Len(s \o t) = 2 + Len(t)
      /\ \A i \in 1..2 : (s \o t)[i] = s[i]
      /\ \A i \in 1..Len(t) : (s \o t)[2 + i] = t[i]
  <2>0. IsSeq(s) /\ IsSeq(t) BY <1>3, <1>4
  <2>1. /\ IsSeq(s \o t) /\ Len(s \o t) = Len(s) + Len(t)
        /\ \A i \in 1..Len(s) : (s \o t)[i] = s[i]
        /\ \A i \in 1..Len(t) : (s \o t)[Len(s) + i] = t[i] BY <2>0, ConcatSequence
  <2>2. Len(s) = 2 BY <1>3
  <2> QED BY <2>1, <2>2
<1>7. ASSUME NEW i \in 1..(2 + Len(t))
      PROVE  IsSyntax((s \o t)[i]) BY <1>3, <1>6, <1>4
<1> QED BY <1>4, <1>5, <1>6, <1>7 DEF IsSyntaxSequence

LEMMA CompileIfIInv ==
  ASSUME IInv, CompileIf PROVE IInv'
<1> DEFINE form == cdr(item.x)
           parts == IfParts(form)
           last == Make("if", <<Len(parts)>>, item.in)
<1>1. /\ Current("expr") /\ Heads(item.x, RES_IF)
      /\ UNCHANGED <<source, ctx, markStamp, tableVars>> BY DEF CompileIf
<1>2. CASE ~TwoAndRest(form) BY <1>2, <1>1, FailsIInv DEF CompileIf
<1>3. CASE TwoAndRest(form)
  <2>1. /\ Do(Exprs(parts, item.in) \o <<last>>)
        /\ UNCHANGED out
        /\ ReportIf(IsPair(cdr(cdr(form))) /\ ~IsNil(cdr(cdr(cdr(form)))))
    BY <1>3 DEF CompileIf, IfParts, Exprs
  <2>2. /\ todo # <<>> /\ item.do \in Plain /\ IsSyntax(item.x)
        /\ item.in = InnerScope /\ item.in \in 1..Len(frames)
        /\ errors \in Nat /\ markStamp \in Nat BY <1>1, ExpressionItem
  <2>3. errors' \in Nat /\ markStamp' \in Nat BY <1>1, <2>1, <2>2 DEF ReportIf
  <2>4. IsSyntaxSequence(parts) /\ Len(parts) \in 2..3
    BY <1>1, <2>2, <1>3, CarCdrSyntax, IfPartsProperties DEF Heads
  <2>5. todo' = (Exprs(parts, InnerScope) \o <<last>>) \o Tail(todo)
    BY <2>1, <2>2 DEF Do
  <2> HIDE DEF parts
  <2>6. IsPlain(last, InnerScope, frames, variables)
    BY <2>2, <2>4 DEF IsItem, IsPlain, IsNode, Make, Plain, Op, Takes
  <2> HIDE DEF last
  <2> QED BY <1>1, <2>1, <2>2, <2>3, <2>4, <2>5, <2>6, ExprsThenStep
<1> QED BY <1>2, <1>3

LEMMA CompileSetBangIInv ==
  ASSUME IInv, CompileSetBang PROVE IInv'
<1> DEFINE form == cdr(item.x)
           b == isBinding(car(form))
<1>1. /\ Current("expr") /\ Heads(item.x, RES_SETBANG)
      /\ UNCHANGED <<source, ctx, markStamp, tableVars>> BY DEF CompileSetBang
<1>2. CASE ~(Two(form) /\ IsVariable(b)) BY <1>2, <1>1, FailsIInv DEF CompileSetBang
<1>3. CASE Two(form) /\ IsVariable(b)
  <2> DEFINE e == Expr(car(cdr(form)), item.in)
             m == Make("set", <<b>>, item.in)
  <2>1. todo' = <<e, m>> \o Tail(todo) /\ UNCHANGED <<out, errors>>
    BY <1>3 DEF CompileSetBang, Do
  <2>2. /\ todo # <<>> /\ item.do \in Plain /\ IsSyntax(item.x)
        /\ item.in = InnerScope /\ item.in \in 1..Len(frames)
        /\ errors \in Nat /\ markStamp \in Nat BY <1>1, ExpressionItem
  <2>3. IsSyntax(form) BY <1>1, <2>2, CarCdrSyntax DEF Heads
  <2> HIDE DEF form
  <2>4. IsSyntax(car(form)) /\ IsSyntax(car(cdr(form)))
    BY <1>3, <2>3, CarCdrSyntax DEF Two
  <2>5. \/ b = Env!NoBinding
        \/ b \in m_unspec..-1
        \/ b \in 1..Len(variables) /\ Reaches(frames, InnerScope, variables[b])
    BY <2>4, BindingsOfSyntax
  <2> HIDE DEF b
  <2>6. b \in 1..Len(variables) /\ Reaches(frames, InnerScope, variables[b])
    BY <1>3, <2>5 DEF IsVariable, m_unspec, Env!NoBinding
  <2>7. IsPlain(m, InnerScope, frames, variables)
    BY <2>2, <2>6 DEF IsItem, IsPlain, IsNode, Make, Plain, Op, Takes
  <2>8. IsPlain(e, InnerScope, frames, variables) BY <2>2, <2>4, ExprItem
  <2> HIDE DEF e, m
  <2>9. UNCHANGED <<source, ctx, tableVars, out>> /\ errors' \in Nat /\ markStamp' \in Nat
    BY <1>1, <2>1, <2>2
  <2> QED BY <2>1, <2>2, <2>7, <2>8, <2>9, TwoItemsStep
<1> QED BY <1>2, <1>3

-----------------------------------------------------------------------------
(* let, up to its scope *)
LEMMA CompileLetIInv ==
  ASSUME IInv, CompileLet PROVE IInv'
<1> DEFINE form == cdr(item.x)
<1>1. /\ Current("expr") /\ Heads(item.x, RES_LET)
      /\ UNCHANGED <<source, ctx, markStamp, tableVars>> BY DEF CompileLet
<1>2. CASE ~(OneAndRest(form) /\ IsList(car(form)))
  BY <1>2, <1>1, FailsIInv DEF CompileLet
<1>3. CASE OneAndRest(form) /\ IsList(car(form))
  <2> DEFINE a == Inits(car(form), cdr(form), item.in)
  <2>1. todo' = <<a>> \o Tail(todo) /\ UNCHANGED <<out, errors>>
    BY <1>3 DEF CompileLet, Do
  <2>2. /\ todo # <<>> /\ item.do \in Plain /\ IsSyntax(item.x)
        /\ item.in = InnerScope /\ errors \in Nat /\ markStamp \in Nat
    BY <1>1, ExpressionItem
  <2>3. IsSyntax(form) BY <1>1, <2>2, CarCdrSyntax DEF Heads
  <2> HIDE DEF form
  <2>4. IsSyntax(car(form)) /\ IsSyntax(cdr(form))
    BY <1>3, <2>3, CarCdrSyntax DEF OneAndRest
  <2>5. IsSyntaxSequence(<<>>) BY EmptySequence DEF IsSyntaxSequence
  <2>6. IsPlain(a, InnerScope, frames, variables)
    BY <2>2, <2>4, <2>5 DEF IsItem, IsPlain, Inits, Plain
  <2> HIDE DEF a
  <2>7. UNCHANGED <<source, ctx, tableVars, out>> /\ errors' \in Nat /\ markStamp' \in Nat
    BY <1>1, <2>1, <2>2
  <2> QED BY <2>1, <2>2, <2>6, <2>7, OneItemStep
<1> QED BY <1>2, <1>3

LEMMA SyntaxSequenceGrows ==
  ASSUME NEW s, IsSyntaxSequence(s), NEW x, IsSyntax(x)
  PROVE  IsSyntaxSequence(Append(s, x))
BY SequenceLen, AppendSequence DEF IsSyntaxSequence

LEMMA InitsItem ==
  ASSUME IInv, Current("inits")
  PROVE  /\ todo # <<>> /\ item.do \in Plain
         /\ item \in [do : {"inits"}, x : {item.x}, body : {item.body}, names : {item.names},
                      values : {item.values}, in : {item.in}]
         /\ IsSyntax(item.x) /\ IsSyntax(item.body)
         /\ IsSyntaxSequence(item.names) /\ IsSyntaxSequence(item.values)
         /\ item.in = InnerScope /\ errors \in Nat /\ markStamp \in Nat
BY CurrentItem DEF Current, IsItem, Fits, Plain, IInv

LEMMA LetInitIInv ==
  ASSUME IInv, LetInit PROVE IInv'
<1> DEFINE init == car(item.x)
           rest == cdr(item.x)
           a == [item EXCEPT !.x = rest, !.names = Append(@, car(init)),
                             !.values = Append(@, car(cdr(init)))]
           b == [item EXCEPT !.x = rest]
           next == IF Two(init) THEN a ELSE b
<1>1. /\ Current("inits") /\ IsPair(item.x)
      /\ todo' = <<next>> \o Tail(todo)
      /\ errors' = errors + (IF Two(init) THEN 0 ELSE 1) + (IF IsList(rest) THEN 0 ELSE 1)
      /\ UNCHANGED <<source, ctx, out, markStamp, tableVars>> BY DEF LetInit, Do
<1>2. /\ todo # <<>> /\ item.do \in Plain
      /\ item \in [do : {"inits"}, x : {item.x}, body : {item.body}, names : {item.names},
                   values : {item.values}, in : {item.in}]
      /\ IsSyntax(item.x) /\ IsSyntax(item.body)
      /\ IsSyntaxSequence(item.names) /\ IsSyntaxSequence(item.values)
      /\ item.in = InnerScope /\ errors \in Nat /\ markStamp \in Nat BY <1>1, InitsItem
<1>3. IsSyntax(init) /\ IsSyntax(rest) BY <1>1, <1>2, CarCdrSyntax
<1>4. errors' \in Nat BY <1>1, <1>2
<1>5. IsPlain(b, InnerScope, frames, variables)
  <2>1. b \in [do : {"inits"}, x : {rest}, body : {item.body}, names : {item.names},
               values : {item.values}, in : {item.in}] BY <1>2
  <2> HIDE DEF b, rest
  <2> QED BY <1>2, <1>3, <2>1 DEF IsItem, IsPlain, Plain
<1>6. ASSUME Two(init)
      PROVE  IsPlain(a, InnerScope, frames, variables)
  <2> DEFINE ns == Append(item.names, car(init))
             vs == Append(item.values, car(cdr(init)))
  <2>1. a \in [do : {"inits"}, x : {rest}, body : {item.body}, names : {ns},
               values : {vs}, in : {item.in}] BY <1>2
  <2>2. IsSyntax(car(init)) /\ IsSyntax(car(cdr(init)))
    BY <1>3, <1>6, CarCdrSyntax DEF Two
  <2>3. IsSyntaxSequence(ns) /\ IsSyntaxSequence(vs) BY <1>2, <2>2, SyntaxSequenceGrows
  <2> HIDE DEF a, rest, ns, vs
  <2> QED BY <1>2, <1>3, <2>1, <2>3 DEF IsItem, IsPlain, Plain
<1>7. IsPlain(next, InnerScope, frames, variables) BY <1>5, <1>6
<1> HIDE DEF next
<1>8. UNCHANGED <<source, ctx, tableVars, out>> /\ errors' \in Nat /\ markStamp' \in Nat
  BY <1>1, <1>2, <1>4
<1> QED BY <1>1, <1>2, <1>7, <1>8, OneItemStep

LEMMA LetValuesIInv ==
  ASSUME IInv, LetValues PROVE IInv'
<1> DEFINE last == LetScope(item)
<1>1. /\ Current("inits")
      /\ Do(Exprs(item.values, item.in) \o <<last>>)
      /\ UNCHANGED <<source, ctx, out, errors, markStamp, tableVars>>
  BY DEF LetValues, Exprs
<1>2. /\ todo # <<>> /\ item.do \in Plain /\ IsSyntax(item.body)
      /\ IsSyntaxSequence(item.names) /\ IsSyntaxSequence(item.values)
      /\ item.in = InnerScope /\ errors \in Nat /\ markStamp \in Nat BY <1>1, InitsItem
<1>3. Len(item.values) \in Nat BY <1>2, SequenceLen DEF IsSyntaxSequence
<1>4. IsPlain(last, InnerScope, frames, variables)
  BY <1>2, <1>3 DEF IsItem, IsPlain, LetScope, Plain
<1>5. todo' = (Exprs(item.values, InnerScope) \o <<last>>) \o Tail(todo)
  BY <1>1, <1>2 DEF Do
<1> HIDE DEF last
<1> QED BY <1>1, <1>2, <1>4, <1>5, ExprsThenStep

-----------------------------------------------------------------------------
LEMMA InitIInv ==
  ASSUME Init PROVE IInv
<1> DEFINE a == Forms(source)
           m == Make("module", <<>>, SystemScope)
           s1 == [scope |-> SystemScope, vars |-> SystemBindings]
           s2 == [scope |-> LibraryScope, vars |-> [x \in {} |-> Env!NoBinding]]
<1>1. /\ source \in Source /\ todo = <<a, EndBody, m>> /\ ctx = NewContext(LibraryScope)
      /\ out = <<>> /\ errors = 0 /\ markStamp = 0 /\ env = <<s1, s2>> /\ left = {}
      /\ frames = <<0, SystemScope>> /\ variables = <<SystemScope>> BY DEF Init
<1>2. frames \in Seq(Nat) /\ Len(frames) = 2 /\ frames[1] = 0 /\ frames[2] = 1
  BY <1>1 DEF SystemScope
<1>3. variables \in Seq(Nat) /\ Len(variables) = 1 /\ variables[1] = 1
  BY <1>1 DEF SystemScope
<1>4. FramesOK(frames) /\ VariablesOK(variables, frames)
  BY <1>2, <1>3 DEF FramesOK, VariablesOK
<1>5. EnvOK(env, frames, variables)
  <2>1. s1.scope = 1 /\ s2.scope = 2 /\ s1 \in [scope : 1..2, vars : {s1.vars}]
        /\ s2 \in [scope : 1..2, vars : {s2.vars}] /\ DOMAIN s2.vars = {}
    BY DEF SystemScope, LibraryScope
  <2>2. \A x \in DOMAIN s1.vars : s1.vars[x] \in m_unspec..-1 \/ s1.vars[x] = 1
    <3>1. s1.vars = SystemBindings OBVIOUS
    <3> SUFFICES ASSUME NEW x \in DOMAIN SystemBindings
                 PROVE  SystemBindings[x] \in m_unspec..-1 \/ SystemBindings[x] = 1
      BY <3>1
    <3> DEFINE b == CASE x[1] = "or" -> MACRO_OR       [] x[1] = "begin" -> RES_BEGIN
                      [] x[1] = "define" -> RES_DEFINE [] x[1] = "set!" -> RES_SETBANG
                      [] x[1] = "if" -> RES_IF         [] x[1] = "lambda" -> RES_LAMBDA
                      [] x[1] = "let" -> RES_LET       [] x[1] = "letrec" -> RES_LETREC
                      [] OTHER -> 1
    <3>2. SystemBindings[x] = b BY DEF SystemBindings
    <3>3. b \in {-1, -2, -3, -4, -5, -6, -7, -8, 1}
      BY DEF MACRO_OR, RES_BEGIN, RES_DEFINE, RES_SETBANG, RES_IF, RES_LAMBDA, RES_LET, RES_LETREC
    <3> HIDE DEF b
    <3> QED BY <3>2, <3>3 DEF m_unspec
  <2> HIDE DEF s1, s2
  <2>3. IsSeq(env) /\ Len(env) = 2 /\ env[1] = s1 /\ env[2] = s2 BY <1>1, Sequence2
  <2>4. \A i \in 1..2 : i = 1 \/ i = 2 OBVIOUS
  <2>5. ASSUME NEW i \in 1..2
        PROVE  /\ env[i] \in [scope : 1..2, vars : {env[i].vars}]
               /\ \A x \in DOMAIN env[i].vars :
                    \/ env[i].vars[x] \in m_unspec..-1
                    \/ env[i].vars[x] \in 1..1 /\ variables[env[i].vars[x]] = env[i].scope
    BY <1>3, <2>1, <2>2, <2>3, <2>4
  <2> QED BY <1>2, <1>3, <2>1, <2>3, <2>5 DEF EnvOK, SystemScope, LibraryScope
<1>6. CtxOK(ctx) /\ ctx.scope = 2
  BY <1>1, EmptySequence DEF CtxOK, IsSyntaxSequence, NewContext, LibraryScope
<1>7. OutOK(out, frames, variables) BY <1>1, EmptySequence DEF OutOK
<1>8. IsItem(a, frames, variables) /\ a.do = "forms"
  BY <1>1, SourceSyntax, SyntaxAssumption DEF IsItem, Forms
<1>9. IsItem(EndBody, frames, variables) /\ EndBody.do = "endBody"
  BY DEF IsItem, EndBody
<1>10. IsItem(m, frames, variables) /\ m.do = "make"
  BY <1>2 DEF IsItem, IsNode, Make, Op, Takes, SystemScope
<1> HIDE DEF a, m, s1, s2
<1>11. IsSeq(todo) /\ Len(todo) = 3 /\ todo[1] = a /\ todo[2] = EndBody /\ todo[3] = m
  BY <1>1, Sequence3
<1>12. \A i \in 1..3 : i = 1 \/ i = 2 \/ i = 3 OBVIOUS
<1>13. TodoOK(todo, frames, variables)
  BY <1>8, <1>9, <1>10, <1>11, <1>12 DEF BodyFirst, OfBody, TodoOK
<1>14. Schedulable(todo, env, ctx.scope)
  <2> DEFINE d == [i \in 1..4 |-> 2]
  <2>1. Len(env) = 2 /\ env[2].scope = 2 BY <1>1, Sequence2 DEF s2, LibraryScope
  <2>2. \A i \in 1..3 : Closes(todo[i]) = 0 /\ Fits(todo[i], 2, 2)
    BY <1>8, <1>9, <1>10, <1>11, <1>12 DEF Closes, PopsScope, Fits, OfBody
  <2>3. Schedule(todo, d, env, ctx.scope)
    <3>1. d \in [1..4 -> Nat] /\ \A i \in 1..4 : d[i] = 2 OBVIOUS
    <3> HIDE DEF d
    <3> QED BY <1>6, <1>11, <2>1, <2>2, <3>1 DEF Schedule
  <2> QED BY <2>3 DEF Schedulable
<1> QED BY <1>1, <1>2, <1>4, <1>5, <1>6, <1>7, <1>13, <1>14 DEF IInv

LEMMA MakeNodeIInv ==
  ASSUME IInv, MakeNode PROVE IInv'
<1> DEFINE node == [op |-> item.op, of |-> item.of, in |-> item.in]
<1>1. /\ todo # <<>> /\ item.do = "make" /\ item.do \in Plain /\ Makes(item.op, item.of)
      /\ UNCHANGED <<source, ctx, errors, markStamp, tableVars>>
  BY DEF MakeNode, Current, Plain
<1>2. IsNode(item, frames, variables) /\ errors \in Nat /\ markStamp \in Nat
  BY <1>1, CurrentItem DEF IsItem, IInv
<1>3. Takes(node) = Takes(item) BY DEF Takes
<1>4. IsNode(node, frames, variables) BY <1>2, <1>3 DEF IsNode
<1> QED BY <1>1, <1>2, <1>4, MakesStep

-----------------------------------------------------------------------------

LEMMA TableStays ==
  ASSUME IInv, UNCHANGED <<scopeVars, variables>>
  PROVE  VariableStep
BY DEF VariableStep, IInv, scopeVars, VariablesOK, Extends

LEMMA AnonymousVariable ==
  ASSUME IInv, UNCHANGED scopeVars, variables' = Append(variables, InnerScope)
  PROVE  VariableStep
<1>1. /\ IsSeq(env) /\ Len(env) \in Nat /\ Len(env) >= 2
      /\ InnerScope \in 1..Len(frames) /\ Len(frames) \in Nat
  BY SequenceLen DEF IInv, EnvOK, FramesOK, InnerScope
<1>2. variables \in Seq(Nat) /\ \A v \in 1..Len(variables) : variables[v] \in 1..Len(frames)
  BY DEF IInv, VariablesOK
<1>3. /\ variables' \in Seq(Nat) /\ Len(variables') = Len(variables) + 1 /\ Len(variables) \in Nat
      /\ variables'[Len(variables) + 1] = InnerScope
      /\ Extends(variables, variables') BY <1>1, <1>2, AppendExtends
<1>4. VariablesOK(variables', frames) BY <1>1, <1>2, <1>3 DEF VariablesOK, Extends
<1>5. EnvOK(env, frames, variables') BY <1>3 DEF IInv, EnvOK, Extends
<1> QED BY <1>3, <1>4, <1>5 DEF VariableStep, scopeVars

LEMMA BoundVariable ==
  ASSUME IInv, NEW x, Env!Define(x, nextVariable), variables' = Append(variables, InnerScope)
  PROVE  VariableStep
<1> DEFINE n == Len(env)
           F == [y \in DOMAIN env[n].vars \cup {x} |->
                   IF y = x THEN nextVariable ELSE env[n].vars[y]]
<1>1. /\ IsSeq(env) /\ n \in Nat /\ n >= 2 /\ DOMAIN env = 1..n
      /\ InnerScope \in 1..Len(frames) /\ Len(frames) \in Nat
  BY SequenceLen DEF IInv, EnvOK, FramesOK, InnerScope
<1>2. variables \in Seq(Nat) /\ \A v \in 1..Len(variables) : variables[v] \in 1..Len(frames)
  BY DEF IInv, VariablesOK
<1>3. /\ variables' \in Seq(Nat) /\ Len(variables') = Len(variables) + 1 /\ Len(variables) \in Nat
      /\ variables'[Len(variables) + 1] = InnerScope
      /\ Extends(variables, variables') BY <1>1, <1>2, AppendExtends
<1>4. VariablesOK(variables', frames) BY <1>1, <1>2, <1>3 DEF VariablesOK, Extends
<1>5. EnvOK(env, frames, variables) BY DEF IInv
<1>6. env' = [env EXCEPT ![n].vars = F] /\ left' = left BY DEF Env!Define
<1> HIDE DEF F
<1>7. \A i \in 1..n : i # n => env'[i] = env[i] BY <1>1, <1>6
<1>8. env'[n] \in [scope : 1..Len(frames), vars : {F}] /\ env'[n].scope = env[n].scope
  BY <1>1, <1>5, <1>6 DEF EnvOK
<1>9. IsSeq(env') /\ Len(env') = n
  <2> DEFINE S == {env'[i] : i \in 1..n}
  <2>1. env' \in [1..n -> S] BY <1>1, <1>6
  <2> HIDE DEF S
  <2> QED BY <1>1, <2>1, IndexedSequence
<1> HIDE DEF n
<1>10. \A i \in 1..n : env'[i].scope = env[i].scope BY <1>7, <1>8
<1>11. ASSUME NEW i \in 1..n
       PROVE  /\ env'[i] \in [scope : 1..Len(frames), vars : {env'[i].vars}]
              /\ \A y \in DOMAIN env'[i].vars :
                   \/ env'[i].vars[y] \in m_unspec..-1
                   \/ /\ env'[i].vars[y] \in 1..Len(variables')
                      /\ variables'[env'[i].vars[y]] = env'[i].scope
  <2>1. \A y \in DOMAIN env[i].vars :
          \/ env[i].vars[y] \in m_unspec..-1
          \/ /\ env[i].vars[y] \in 1..Len(variables')
             /\ variables'[env[i].vars[y]] = env[i].scope
    BY <1>3, <1>5 DEF EnvOK, Extends, n
  <2>2. CASE i # n BY <1>5, <1>7, <2>1, <2>2 DEF EnvOK, n
  <2>3. CASE i = n
    <3>1. env'[n].vars = F BY <1>8
    <3>2. nextVariable \in 1..Len(variables') /\ variables'[nextVariable] = env'[n].scope
      BY <1>3, <1>8 DEF nextVariable, InnerScope, n
    <3>3. ASSUME NEW y \in DOMAIN F
          PROVE  \/ F[y] \in m_unspec..-1
                 \/ F[y] \in 1..Len(variables') /\ variables'[F[y]] = env'[n].scope
      BY <3>2, <1>8, <2>1, <2>3 DEF F
    <3> QED BY <1>8, <2>3, <3>1, <3>3
  <2> QED BY <2>2, <2>3
<1>12. EnvOK(env', frames, variables')
  <2>1. /\ env'[1].scope = SystemScope /\ env'[2].scope = LibraryScope
        /\ \A i \in 2..n : frames[env'[i].scope] = env'[i - 1].scope
    <3>1. \A i \in 2..n : i \in 1..n /\ i - 1 \in 1..n BY <1>1 DEF n
    <3>2. 1 \in 1..n /\ 2 \in 1..n BY <1>1 DEF n
    <3> QED BY <1>5, <1>10, <3>1, <3>2 DEF EnvOK, n
  <2>2. n >= 2 BY <1>1 DEF n
  <2> QED BY <1>9, <1>11, <2>1, <2>2 DEF EnvOK
<1> QED BY <1>3, <1>4, <1>6, <1>9, <1>10, <1>12 DEF VariableStep, n

LEMMA OutStays ==
  ASSUME IInv, VariableStep
  PROVE  OutOK(out, frames, variables')
<1>1. Extends(frames, frames) /\ Len(frames) \in Nat /\ Len(variables) \in Nat
      /\ Len(variables') \in Nat
  BY DEF IInv, FramesOK, VariablesOK, VariableStep, Extends
<1> QED BY <1>1, NodeStays DEF IInv, OutOK, VariableStep

-----------------------------------------------------------------------------
(* Steps of a body that is being parsed: its forms are replaced by forms. *)
LEMMA BodyStep ==
  ASSUME IInv, Current("forms") \/ Current("form"), VariableStep,
         NEW items, IsSeq(items), todo' = items \o Tail(todo),
         \A i \in 1..Len(items) : items[i].do \in {"forms", "form"} /\ IsSyntax(items[i].x),
         UNCHANGED <<source, out, frames>>,
         errors' \in Nat, markStamp' \in Nat,
         CtxOK(ctx'), ctx'.scope = ctx.scope
  PROVE  IInv'
<1>1. todo # <<>> /\ item.do \in {"forms", "form"} BY DEF Current
<1>2. ctx.scope = InnerScope BY <1>1, CurrentItem DEF Fits, OfBody
<1>3. \A x : x.do \in {"forms", "form"} => Closes(x) = 0 /\ Fits(x, InnerScope, ctx.scope)
  BY <1>2 DEF Closes, PopsScope, Fits, OfBody
<1>4. \A i \in 1..Len(items) : IsItem(items[i], frames, variables') BY DEF IsItem
<1>5. Len(items) \in Nat BY SequenceLen
<1>6. Closes(item) = 0 BY <1>1, <1>3
<1>7. \A i \in 1..Len(items) : Closes(items[i]) = 0 /\ Fits(items[i], InnerScope, ctx.scope)
  BY <1>3
<1>8. \A i \in 1..(Len(items) - 1) : Closes(items[i]) = 0 BY <1>5, <1>7
<1>9. Closes(item) = IF Len(items) = 0 THEN 0 ELSE Closes(items[Len(items)])
  BY <1>5, <1>6, <1>7
<1>10. ItemsFit(items, item, InnerScope, ctx.scope, frames, variables')
  BY <1>4, <1>7, <1>8, <1>9 DEF ItemsFit
<1> QED BY <1>1, <1>10, OutStays, InnerStep DEF VariableStep

LEMMA FormItem ==
  ASSUME IInv, Current("form")
  PROVE  /\ todo # <<>> /\ item.do = "form" /\ IsSyntax(item.x)
         /\ ctx.scope = InnerScope /\ InnerScope \in 1..Len(frames)
         /\ errors \in Nat /\ markStamp \in Nat /\ CtxOK(ctx)
BY CurrentItem DEF Current, IsItem, Fits, OfBody, IInv

LEMMA NoFormsStep ==
  ASSUME IInv, Current("forms") \/ Current("form"), VariableStep, todo' = <<>> \o Tail(todo),
         UNCHANGED <<source, out, frames>>,
         errors' \in Nat, markStamp' \in Nat,
         CtxOK(ctx'), ctx'.scope = ctx.scope
  PROVE  IInv'
BY EmptySequence, BodyStep

LEMMA OneFormStep ==
  ASSUME IInv, Current("forms") \/ Current("form"),
         NEW a, todo' = <<a>> \o Tail(todo), a.do \in {"forms", "form"}, IsSyntax(a.x),
         UNCHANGED <<source, out, ctx, tableVars>>,
         errors' \in Nat, markStamp' \in Nat
  PROVE  IInv'
BY Sequence1, TableStays, BodyStep DEF IInv, tableVars, scopeVars

LEMMA ParseBodyIInv ==
  ASSUME IInv, ParseBody PROVE IInv'
<1> DEFINE a == Form(car(item.x))
           b == Forms(cdr(item.x))
<1>1. /\ Current("forms") /\ todo # <<>> /\ item.do = "forms"
      /\ todo' = (IF IsPair(item.x) THEN <<a, b>> ELSE <<>>) \o Tail(todo)
      /\ ReportIf(~IsList(item.x))
      /\ UNCHANGED <<source, ctx, out, markStamp, tableVars>>
  BY DEF ParseBody, Do, Current
<1>2. IsSyntax(item.x) BY <1>1, CurrentItem DEF IsItem
<1>3. /\ errors' \in Nat /\ markStamp' \in Nat /\ CtxOK(ctx') /\ ctx'.scope = ctx.scope
      /\ VariableStep /\ UNCHANGED <<source, out, frames>>
  BY <1>1, TableStays DEF IInv, ReportIf, tableVars, scopeVars
<1>4. CASE IsPair(item.x)
  <2>1. IsSyntax(a.x) /\ IsSyntax(b.x) /\ a.do = "form" /\ b.do = "forms"
    BY <1>2, <1>4, CarCdrSyntax DEF Form, Forms
  <2>2. todo' = <<a, b>> \o Tail(todo) BY <1>1, <1>4
  <2> HIDE DEF a, b
  <2>3. IsSeq(<<a, b>>) /\ Len(<<a, b>>) = 2 /\ <<a, b>>[1] = a /\ <<a, b>>[2] = b
    BY Sequence2
  <2>4. \A i \in 1..Len(<<a, b>>) : <<a, b>>[i].do \in {"forms", "form"}
          /\ IsSyntax(<<a, b>>[i].x) BY <2>1, <2>3
  <2> QED BY <1>1, <1>3, <2>2, <2>3, <2>4, BodyStep
<1>5. CASE ~IsPair(item.x) BY <1>1, <1>5, <1>3, NoFormsStep
<1> QED BY <1>4, <1>5

LEMMA FormEmptyIInv ==
  ASSUME IInv, FormEmpty PROVE IInv'
BY TableStays, NoFormsStep DEF FormEmpty, Do, IInv, Report, tableVars, scopeVars

LEMMA FormMacroIInv ==
  ASSUME IInv, FormMacro PROVE IInv'
<1>1. Current("form") /\ Heads(item.x, MACRO_OR) /\ UNCHANGED <<source, ctx, out, tableVars>>
  BY DEF FormMacro, FormUse
<1>2. CASE ~OrPattern(item.x)
  BY <1>2, <1>1, TableStays, NoFormsStep DEF FormMacro, FormUse, Do, IInv, Report,
     tableVars, scopeVars
<1>3. CASE OrPattern(item.x)
  <2> DEFINE a == Form(Expanded(item.x))
  <2>1. todo' = <<a>> \o Tail(todo) /\ markStamp' = markStamp + 1 /\ UNCHANGED errors
    BY <1>3 DEF FormMacro, FormUse, Do
  <2>2. IsSyntax(Expanded(item.x)) BY <1>1, <1>3, FormItem, ExpandedSyntax DEF Heads
  <2>3. a.do \in {"forms", "form"} /\ IsSyntax(a.x) BY <2>2 DEF Form
  <2> HIDE DEF a
  <2>4. /\ errors' \in Nat /\ markStamp' \in Nat
        /\ UNCHANGED <<source, out, ctx, tableVars>> BY <1>1, <2>1, FormItem
  <2> QED BY <1>1, <2>1, <2>3, <2>4, OneFormStep
<1> QED BY <1>2, <1>3

LEMMA FormBeginIInv ==
  ASSUME IInv, FormBegin PROVE IInv'
<1> DEFINE a == Forms(cdr(item.x))
<1>1. /\ Current("form") /\ Heads(item.x, RES_BEGIN) /\ todo' = <<a>> \o Tail(todo)
      /\ UNCHANGED <<source, ctx, out, errors, markStamp, tableVars>>
  BY DEF FormBegin, Do
<1>2. a.do \in {"forms", "form"} /\ IsSyntax(a.x)
  BY <1>1, FormItem, CarCdrSyntax DEF Forms, Heads
<1> HIDE DEF a
<1>3. /\ errors' \in Nat /\ markStamp' \in Nat
      /\ UNCHANGED <<source, out, ctx, tableVars>> BY <1>1, FormItem
<1> QED BY <1>1, <1>2, <1>3, OneFormStep

LEMMA FormExpressionIInv ==
  ASSUME IInv, FormExpression PROVE IInv'
<1> DEFINE exprs == Append(ctx.exprs, item.x)
<1>1. /\ Current("form") /\ todo' = <<>> \o Tail(todo)
      /\ ctx' = [ctx EXCEPT !.exprs = exprs]
      /\ UNCHANGED <<source, out, errors, markStamp, tableVars>>
  BY DEF FormExpression, Do
<1>2. IsSyntax(item.x) /\ CtxOK(ctx) BY <1>1, FormItem
<1>3. IsSyntaxSequence(exprs) BY <1>2, SyntaxSequenceGrows DEF CtxOK
<1> HIDE DEF exprs
<1>4. ctx' \in [scope : {ctx.scope}, defns : {ctx.defns}, exprs : {exprs}]
  BY <1>1, <1>2 DEF CtxOK
<1>5. CtxOK(ctx') /\ ctx'.scope = ctx.scope BY <1>2, <1>3, <1>4 DEF CtxOK
<1>6. /\ errors' \in Nat /\ markStamp' \in Nat
      /\ VariableStep /\ UNCHANGED <<source, out, frames>>
  BY <1>1, TableStays DEF IInv, tableVars, scopeVars
<1> QED BY <1>1, <1>5, <1>6, NoFormsStep

LEMMA BoundName ==
  ASSUME IInv, NEW x, BindVariable(x, InnerScope)
  PROVE  VariableStep
BY BoundVariable DEF BindVariable

LEMMA DefinitionsGrow ==
  ASSUME NEW s, IsDefinitions(s), NEW d, IsSyntax(d.x)
  PROVE  IsDefinitions(Append(s, d))
BY SequenceLen, AppendSequence DEF IsDefinitions

LEMMA AnonymousDefinition ==
  ASSUME NEW exprs, IsSyntaxSequence(exprs)
  PROVE  IsSyntax(Anonymous(exprs).x)
<1> DEFINE all == Append(exprs, BindingOf(m_unspec))
<1>1. Anonymous(exprs).x = Begin(all) BY DEF Anonymous
<1>2. /\ IsSeq(all) /\ Len(all) = Len(exprs) + 1 /\ Len(exprs) \in Nat
      /\ all[Len(exprs) + 1] = BindingOf(m_unspec)
      /\ \A i \in 1..Len(exprs) : all[i] = exprs[i]
  BY AppendSequence, SequenceLen DEF IsSyntaxSequence
<1> HIDE DEF all
<1>3. \A i \in 1..Len(all) : IsSyntax(all[i]) BY <1>2, AtomSyntax DEF IsSyntaxSequence
<1> QED BY <1>1, <1>2, <1>3, BeginSyntax

LEMMA FormDefineIInv ==
  ASSUME IInv, FormDefine PROVE IInv'
<1> DEFINE form == cdr(item.x)
           target == car(form)
           rest == cdr(form)
           value == IF IsNil(rest) THEN BindingOf(m_unspec) ELSE car(rest)
           grouped == IF ctx.exprs = <<>> THEN ctx.defns
                      ELSE Append(ctx.defns, Anonymous(ctx.exprs))
           Defined(bnd) == Append(grouped, [bnd |-> bnd, x |-> value])
           Defines(bnd) == ctx' = [ctx EXCEPT !.exprs = <<>>, !.defns = Defined(bnd)]
           tooLong == IF IsPair(rest) /\ ~IsNil(cdr(rest)) THEN 1 ELSE 0
<1>1. /\ Current("form") /\ Heads(item.x, RES_DEFINE) /\ todo' = <<>> \o Tail(todo)
      /\ UNCHANGED <<source, out, markStamp, frames>>
      /\ \/ /\ Report
            /\ UNCHANGED <<ctx, scopeVars, variables>>
         \/ /\ Report
            /\ ctx' = [ctx EXCEPT !.exprs = <<>>, !.defns = grouped]
            /\ UNCHANGED <<scopeVars, variables>>
         \/ /\ OneAndRest(form) /\ IsSymbol(target)
            /\ IF IsBound(target, ctx.scope)
               THEN /\ Defines(Env!NoBinding)
                    /\ errors' = errors + 1 + tooLong
                    /\ UNCHANGED <<scopeVars, variables>>
               ELSE /\ Defines(nextVariable)
                    /\ BindVariable(target, ctx.scope)
                    /\ errors' = errors + tooLong BY DEF FormDefine, Do
<1>2. /\ IsSyntax(item.x) /\ IsPair(item.x) /\ ctx.scope = InnerScope /\ CtxOK(ctx)
      /\ errors \in Nat /\ markStamp' \in Nat BY <1>1, FormItem DEF Heads
<1>3. tooLong \in Nat OBVIOUS
<1>4. IsDefinitions(ctx.defns) /\ IsSyntaxSequence(ctx.exprs)
  BY <1>2 DEF CtxOK, IsDefinitions
<1>5. IsDefinitions(grouped) BY <1>4, AnonymousDefinition, DefinitionsGrow
<1>6. ASSUME NEW defns, IsDefinitions(defns), ctx' = [ctx EXCEPT !.exprs = <<>>, !.defns = defns]
      PROVE  CtxOK(ctx') /\ ctx'.scope = ctx.scope
  <2>1. ctx' \in [scope : {ctx.scope}, defns : {defns}, exprs : {<<>>}]
    BY <1>2, <1>6 DEF CtxOK
  <2>2. IsSyntaxSequence(<<>>) BY EmptySequence DEF IsSyntaxSequence
  <2> QED BY <1>6, <2>1, <2>2 DEF CtxOK, IsDefinitions
<1>7. ASSUME NEW bnd, OneAndRest(form)
      PROVE  IsDefinitions(Defined(bnd))
  <2>1. IsSyntax(form) BY <1>2, CarCdrSyntax
  <2>2. IsSyntax(rest) /\ IsList(rest) BY <1>7, <2>1, CarCdrSyntax DEF OneAndRest
  <2>3. IsSyntax(value) BY <2>2, CarCdrSyntax, AtomSyntax DEF IsList
  <2> HIDE DEF value, grouped
  <2>4. IsSyntax([bnd |-> bnd, x |-> value].x) BY <2>3
  <2> QED BY <1>5, <2>4, DefinitionsGrow
<1> HIDE DEF tooLong, grouped, Defined
<1>8. CASE Report /\ UNCHANGED <<ctx, scopeVars, variables>>
  BY <1>2, <1>8, <1>1, TableStays, NoFormsStep DEF Report
<1>9. CASE /\ Report
           /\ ctx' = [ctx EXCEPT !.exprs = <<>>, !.defns = grouped]
           /\ UNCHANGED <<scopeVars, variables>>
  <2>1. VariableStep BY <1>9, TableStays
  <2>2. errors' \in Nat BY <1>2, <1>9 DEF Report
  <2>3. CtxOK(ctx') /\ ctx'.scope = ctx.scope BY <1>5, <1>6, <1>9
  <2> QED BY <1>1, <1>2, <2>1, <2>2, <2>3, NoFormsStep
<1>10. CASE /\ OneAndRest(form) /\ IsSymbol(target)
            /\ IF IsBound(target, ctx.scope)
               THEN /\ Defines(Env!NoBinding)
                    /\ errors' = errors + 1 + tooLong
                    /\ UNCHANGED <<scopeVars, variables>>
               ELSE /\ Defines(nextVariable)
                    /\ BindVariable(target, ctx.scope)
                    /\ errors' = errors + tooLong
  <2>1. errors' \in Nat BY <1>2, <1>3, <1>10
  <2>2. CtxOK(ctx') /\ ctx'.scope = ctx.scope BY <1>6, <1>7, <1>10
  <2>3. VariableStep BY <1>2, <1>10, TableStays, BoundName
  <2> QED BY <1>1, <1>2, <2>1, <2>2, <2>3, NoFormsStep
<1> QED BY <1>1, <1>8, <1>9, <1>10

LEMMA ParamStep ==
  ASSUME IInv, NEW x, DefineParam(x, InnerScope)
  PROVE  VariableStep /\ errors' \in Nat
BY TableStays, AnonymousVariable, BoundName DEF IInv, DefineParam, Report

-----------------------------------------------------------------------------

LEMMA PlainConcat ==
  ASSUME NEW s, NEW fs, NEW vs, NEW a, NEW b, ArePlain(a, s, fs, vs), ArePlain(b, s, fs, vs)
  PROVE  ArePlain(a \o b, s, fs, vs)
<1>1. IsSeq(a) /\ IsSeq(b) /\ Len(a) \in Nat /\ Len(b) \in Nat
  BY SequenceLen DEF ArePlain
<1>2. /\ IsSeq(a \o b) /\ Len(a \o b) = Len(a) + Len(b)
      /\ \A i \in 1..Len(a) : (a \o b)[i] = a[i]
      /\ \A i \in 1..Len(b) : (a \o b)[Len(a) + i] = b[i] BY <1>1, ConcatSequence
<1>3. ASSUME NEW i \in 1..Len(a \o b)
      PROVE  IsPlain((a \o b)[i], s, fs, vs) BY <1>1, <1>2 DEF ArePlain
<1> QED BY <1>2, <1>3 DEF ArePlain

LEMMA PlainDefinitions ==
  ASSUME NEW d, IsDefinitions(d), NEW fs, NEW vs, NEW f \in 1..Len(fs)
  PROVE  ArePlain(DefinitionItems(d, f), f, fs, vs)
<1> DEFINE s == DefinitionItems(d, f)
           S == {s[i] : i \in 1..(2 * Len(d))}
<1>1. IsSeq(d) /\ Len(d) \in Nat BY SequenceLen DEF IsDefinitions
<1>2. s \in [1..(2 * Len(d)) -> S] BY DEF DefinitionItems
<1> HIDE DEF S
<1>3. IsSeq(s) /\ Len(s) = 2 * Len(d)
  <2>1. 2 * Len(d) \in Nat BY <1>1
  <2> HIDE DEF s
  <2> QED BY <1>2, <2>1, IndexedSequence
<1>4. ASSUME NEW i \in 1..(2 * Len(d))
      PROVE  IsPlain(s[i], f, fs, vs)
  <2>1. CASE i % 2 = 1 BY <2>1, <1>1, ExprItem DEF DefinitionItems, IsDefinitions
  <2>2. CASE i % 2 # 1
    <3> DEFINE m == Make("define", <<d[i \div 2].bnd>>, f)
    <3>1. s[i] = m BY <2>2 DEF DefinitionItems
    <3>2. IsPlain(m, f, fs, vs) BY DEF IsItem, IsPlain, IsNode, Make, Plain, Op, Takes
    <3> QED BY <3>1, <3>2
  <2> QED BY <2>1, <2>2
<1> QED BY <1>3, <1>4 DEF ArePlain

LEMMA CompileBodyIInv ==
  ASSUME IInv, CompileBody PROVE IInv'
<1> DEFINE d == ctx.defns
           f == ctx.scope
           defns == DefinitionItems(d, f)
           exprs == Exprs(ctx.exprs, f)
           last == <<Make("body", <<Len(d), Len(exprs)>>, f)>>
           items == defns \o exprs \o last
<1>1. /\ Current("endBody") /\ todo # <<>> /\ item.do = "endBody"
      /\ UNCHANGED <<source, ctx, out, errors, markStamp, tableVars>>
  BY DEF CompileBody, Current
<1>2. Do(items) BY DEF CompileBody, DefinitionItems, Exprs
<1>3. f = InnerScope /\ f \in 1..Len(frames) BY <1>1, CurrentItem DEF Fits, OfBody
<1>4. IsDefinitions(d) /\ IsSyntaxSequence(ctx.exprs) BY DEF IInv, CtxOK, IsDefinitions
<1>5. ArePlain(defns, f, frames, variables) BY <1>3, <1>4, PlainDefinitions
<1>6. /\ IsSeq(exprs) /\ Len(exprs) = Len(ctx.exprs) /\ Len(ctx.exprs) \in Nat
      /\ \A i \in 1..Len(ctx.exprs) : exprs[i] = Expr(ctx.exprs[i], f)
  BY <1>4, ExprsProperties DEF IsSyntaxSequence
<1>7. ArePlain(exprs, f, frames, variables)
  BY <1>4, <1>6, ExprItem DEF ArePlain, IsSyntaxSequence
<1>8. ArePlain(last, f, frames, variables)
  <2> DEFINE m == Make("body", <<Len(d), Len(exprs)>>, f)
  <2>1. Len(d) \in Nat /\ Len(exprs) \in Nat
    <3> HIDE DEF exprs
    <3> QED BY <1>4, <1>6, SequenceLen DEF IsDefinitions
  <2>2. Takes(m) \in Nat
    <3> DEFINE a == Len(d)
               b == Len(exprs)
    <3>1. m = Make("body", <<a, b>>, f) OBVIOUS
    <3>2. a \in Nat /\ b \in Nat BY <2>1
    <3> HIDE DEF a, b, m
    <3> QED BY <3>1, <3>2 DEF Takes, Make
  <2>3. m.do = "make" /\ m.op = "body" /\ m.in = f BY DEF Make
  <2> HIDE DEF m, exprs
  <2>4. IsPlain(m, f, frames, variables)
    BY <1>3, <2>2, <2>3 DEF IsNode, Op, IsItem, IsPlain, Plain
  <2>5. last = <<m>> BY DEF m
  <2>6. IsSeq(<<m>>) /\ \A i \in 1..Len(<<m>>) : <<m>>[i] = m BY Sequence1
  <2> QED BY <2>4, <2>5, <2>6 DEF ArePlain
<1> HIDE DEF defns, exprs, last
<1>9. ArePlain(defns \o exprs, f, frames, variables) BY <1>5, <1>7, PlainConcat
<1>10. ArePlain(items, f, frames, variables) BY <1>8, <1>9, PlainConcat
<1> HIDE DEF items
<1>11. IsSeq(items)
       /\ \A i \in 1..Len(items) : IsPlain(items[i], InnerScope, frames, variables)
  BY <1>3, <1>10 DEF ArePlain
<1>12. errors' \in Nat /\ markStamp' \in Nat /\ OutOK(out', frames, variables)
  BY <1>1 DEF IInv
<1>13. todo' = items \o Tail(todo) BY <1>2 DEF Do
<1> QED BY <1>1, <1>11, <1>12, <1>13, ExpressionStep

-----------------------------------------------------------------------------
(* Steps that close a scope or open one *)
LEMMA FrontSequence ==
  ASSUME NEW s, IsSeq(s), s # <<>>
  PROVE  /\ IsSeq(SubSeq(s, 1, Len(s) - 1))
         /\ Len(SubSeq(s, 1, Len(s) - 1)) = Len(s) - 1
         /\ \A i \in 1..(Len(s) - 1) : SubSeq(s, 1, Len(s) - 1)[i] = s[i]
<1>1. PICK S : s \in Seq(S) BY DEF IsSeq
<1>2. Len(s) \in Nat /\ Len(s) > 0 BY SequenceLen
<1>3. \A i \in 1..(Len(s) - 1) : s[i] \in S BY <1>1, <1>2
<1>4. SubSeq(s, 1, Len(s) - 1) = [i \in 1..(Len(s) - 1) |-> s[i]] BY <1>1, <1>2
<1> DEFINE t == [i \in 1..(Len(s) - 1) |-> s[i]]
<1>5. t \in [1..(Len(s) - 1) -> S] BY <1>3
<1>6. Len(s) - 1 \in Nat BY <1>2
<1>7. IsSeq(t) /\ Len(t) = Len(s) - 1
  <2> HIDE DEF t
  <2> QED BY <1>5, <1>6, IndexedSequence
<1> QED BY <1>4, <1>7

LEMMA PopScopeIInv ==
  ASSUME IInv, PopScope PROVE IInv'
<1> DEFINE n == Len(env)
<1>1. /\ Current("pop") /\ todo # <<>> /\ item.do = "pop"
      /\ env' = SubSeq(env, 1, n - 1) /\ left' = left \cup {InnerScope}
      /\ todo' = <<>> \o Tail(todo)
      /\ UNCHANGED <<source, ctx, out, errors, markStamp, frames, variables>>
  BY DEF PopScope, Current, Env!Leave, Do, InnerScope
<1>2. /\ item = todo[1] /\ IsSeq(todo) /\ Len(todo) \in Nat /\ Len(todo) > 0
      /\ n \in Nat /\ n >= 2 /\ InnerScope \in 1..Len(frames) BY <1>1, CurrentItem
<1>3. PICK d : Schedule(todo, d, env, ctx.scope) BY DEF IInv, Schedulable
<1>4. n = d[2] + 1 /\ d[2] \in Nat /\ d[2] >= 2
  <2>1. Closes(item) = 1 BY <1>1 DEF Closes, PopsScope
  <2>2. /\ d[1] = n /\ d[1] = d[2] + Closes(item) /\ d[2] \in Nat
        /\ d[Len(todo) + 1] = 2 /\ d[Len(todo) + 1] <= d[2] BY <1>2, <1>3 DEF Schedule
  <2> QED BY <2>1, <2>2
<1>5. EnvOK(env, frames, variables) /\ env # <<>> /\ IsSeq(env)
  BY <1>2, SequenceLen DEF IInv, EnvOK
<1>6. /\ IsSeq(env') /\ Len(env') = n - 1
      /\ \A i \in 1..(n - 1) : env'[i] = env[i] BY <1>1, <1>5, FrontSequence
<1> HIDE DEF n
<1>7. EnvOK(env', frames, variables)
  <2>1. Len(env') >= 2 /\ 1 \in 1..(n - 1) /\ 2 \in 1..(n - 1) BY <1>4, <1>6
  <2>2. \A i \in 1..(n - 1) : i \in 1..n BY <1>4
  <2>3. \A i \in 2..(n - 1) : i \in 2..n /\ i \in 1..(n - 1) /\ i - 1 \in 1..(n - 1)
    BY <1>4
  <2> QED BY <1>5, <1>6, <2>1, <2>2, <2>3 DEF EnvOK, n
<1>8. TodoOK(todo', frames, variables)
  <2>1. Extends(frames, frames) /\ Extends(variables, variables)
        /\ Len(frames) \in Nat /\ Len(variables) \in Nat
    BY DEF IInv, FramesOK, VariablesOK, Extends
  <2>2. IsSeq(<<>>) /\ \A i \in 1..Len(<<>>) : IsItem(<<>>[i], frames, variables)
    BY EmptySequence
  <2>3. \A i \in 1..Len(<<>>) : <<>>[i].do \in {"forms", "form"} BY EmptySequence
  <2>4. TodoOK(todo, frames, variables) BY DEF IInv
  <2> QED BY <1>1, <2>1, <2>2, <2>3, <2>4, TodoStep
<1>9. Schedulable(todo', env', ctx.scope)
  <2> DEFINE e == [i \in 1..1 |-> d[2]]
  <2>1. e \in [1..1 -> Nat] /\ e[1] = d[2] BY <1>4
  <2> HIDE DEF e
  <2>2. ScheduleBefore(<<>>, e, env', ctx.scope, d[2])
    BY <1>4, <1>6, <2>1 DEF ScheduleBefore
  <2>3. \A i \in 1..d[2] : env'[i].scope = env[i].scope BY <1>4, <1>6
  <2>4. IsSeq(<<>>) BY EmptySequence
  <2>5. \A i \in 2..Len(todo) : ctx.scope = ctx.scope \/ todo[i].do \notin OfBody
    OBVIOUS
  <2>6. Schedulable(<<>> \o Tail(todo), env', ctx.scope)
    BY <1>1, <1>2, <1>3, <2>2, <2>3, <2>4, <2>5, ScheduleStep
  <2> QED BY <1>1, <2>6
<1> QED BY <1>1, <1>2, <1>7, <1>8, <1>9 DEF IInv

LEMMA NewScopeEffect ==
  ASSUME IInv, NewScope(InnerScope)
  PROVE  /\ FramesOK(frames') /\ Extends(frames, frames') /\ nextScope \in 1..Len(frames')
         /\ VariablesOK(variables, frames')
         /\ EnvOK(env', frames', variables) /\ left' \subseteq 1..Len(frames')
         /\ Len(env) \in Nat /\ Len(env') = Len(env) + 1
         /\ env'[Len(env) + 1].scope = nextScope
         /\ \A i \in 1..Len(env) : env'[i].scope = env[i].scope
<1> DEFINE n == Len(env)
           new == [scope |-> nextScope, vars |-> [x \in {} |-> Env!NoBinding]]
<1>1. env' = Append(env, new) /\ left' = left /\ frames' = Append(frames, InnerScope)
  BY DEF NewScope, Env!Enter
<1>2. /\ EnvOK(env, frames, variables) /\ VariablesOK(variables, frames) /\ FramesOK(frames)
      /\ left \subseteq 1..Len(frames) BY DEF IInv
<1>3. IsSeq(env) /\ n \in Nat /\ n >= 2 /\ InnerScope \in 1..Len(frames)
  BY <1>2, SequenceLen DEF EnvOK, InnerScope
<1>4. frames \in Seq(Nat) /\ \A f \in 1..Len(frames) : frames[f] \in 0..(f - 1)
  BY <1>2 DEF FramesOK
<1>5. /\ frames' \in Seq(Nat) /\ Len(frames') = Len(frames) + 1 /\ Len(frames) \in Nat
      /\ frames'[Len(frames) + 1] = InnerScope /\ Extends(frames, frames')
  BY <1>1, <1>3, <1>4, AppendExtends
<1>6. FramesOK(frames')
  <2> SUFFICES ASSUME NEW f \in 1..Len(frames')
               PROVE  frames'[f] \in 0..(f - 1) BY <1>5 DEF FramesOK
  <2>1. CASE f = Len(frames) + 1 BY <1>3, <1>5, <2>1
  <2>2. CASE f # Len(frames) + 1 BY <1>5, <2>2, <1>4 DEF Extends
  <2> QED BY <2>1, <2>2
<1>7. 1..Len(frames) \subseteq 1..Len(frames') /\ nextScope \in 1..Len(frames')
  BY <1>5 DEF nextScope
<1>8. VariablesOK(variables, frames') BY <1>2, <1>7 DEF VariablesOK
<1>9. /\ IsSeq(env') /\ Len(env') = n + 1 /\ env'[n + 1] = new
      /\ \A i \in 1..n : env'[i] = env[i] BY <1>1, <1>3, AppendSequence
<1>10. /\ new \in [scope : 1..Len(frames'), vars : {new.vars}] /\ new.scope = nextScope
       /\ DOMAIN new.vars = {} BY <1>7
<1> HIDE DEF n, new
<1>11. ASSUME NEW i \in 1..(n + 1)
       PROVE  /\ env'[i] \in [scope : 1..Len(frames'), vars : {env'[i].vars}]
              /\ \A x \in DOMAIN env'[i].vars :
                   \/ env'[i].vars[x] \in m_unspec..-1
                   \/ /\ env'[i].vars[x] \in 1..Len(variables)
                      /\ variables[env'[i].vars[x]] = env'[i].scope
  <2>1. CASE i = n + 1 BY <1>9, <1>10, <2>1
  <2>2. CASE i # n + 1
    <3>1. i \in 1..n /\ env'[i] = env[i] BY <1>3, <1>9, <2>2 DEF n
    <3>2. env[i] \in [scope : 1..Len(frames), vars : {env[i].vars}]
      BY <1>2, <3>1 DEF EnvOK, n
    <3>3. env'[i] \in [scope : 1..Len(frames'), vars : {env'[i].vars}]
      BY <1>7, <3>1, <3>2
    <3> QED BY <1>2, <3>1, <3>3 DEF EnvOK, n
  <2> QED BY <2>1, <2>2
<1>12. ASSUME NEW i \in 2..(n + 1)
       PROVE  frames'[env'[i].scope] = env'[i - 1].scope
  <2>1. CASE i = n + 1 BY <1>3, <2>1, <1>9, <1>5, <1>10 DEF n, InnerScope, nextScope
  <2>2. CASE i # n + 1
    <3>1. i \in 2..n /\ i \in 1..n /\ i - 1 \in 1..n BY <1>3, <2>2 DEF n
    <3>2. frames[env[i].scope] = env[i - 1].scope /\ env[i].scope \in 1..Len(frames)
      BY <1>2, <3>1 DEF EnvOK, n
    <3> QED BY <1>5, <1>9, <3>1, <3>2 DEF Extends
  <2> QED BY <2>1, <2>2
<1>13. EnvOK(env', frames', variables) BY <1>3, <1>9, <1>2, <1>11, <1>12 DEF n, EnvOK
<1>14. \A i \in 1..n : env'[i].scope = env[i].scope BY <1>9
<1> QED BY <1>1, <1>2, <1>3, <1>5, <1>6, <1>7, <1>8, <1>9, <1>10, <1>13, <1>14 DEF n

LEMMA ScopeTodo ==
  ASSUME IInv, NewScope(InnerScope), todo # <<>>, item.do \notin {"forms", "form"},
         NEW items, IsSeq(items), todo' = items \o Tail(todo),
         \A i \in 1..Len(items) : IsItem(items[i], frames', variables),
         BodyFirst(items)
  PROVE  TodoOK(todo', frames', variables)
<1>1. /\ Extends(frames, frames') /\ FramesOK(frames') /\ FramesOK(frames)
      /\ VariablesOK(variables, frames') BY NewScopeEffect DEF IInv
<1>2. /\ Extends(frames, frames') /\ Extends(variables, variables)
      /\ Len(frames) \in Nat /\ Len(frames') \in Nat /\ Len(variables) \in Nat
  BY <1>1 DEF FramesOK, VariablesOK, Extends
<1>3. todo[1].do \notin {"forms", "form"} /\ TodoOK(todo, frames, variables)
  BY CurrentItem DEF IInv
<1> QED BY <1>2, <1>3, TodoStep

LEMMA OutStaysInFrame ==
  ASSUME IInv, NewScope(InnerScope)
  PROVE  OutOK(out, frames', variables)
<1>1. /\ Extends(frames, frames') /\ FramesOK(frames') /\ FramesOK(frames)
      /\ VariablesOK(variables, frames') BY NewScopeEffect DEF IInv
<1>2. /\ Extends(variables, variables)
      /\ Len(frames) \in Nat /\ Len(frames') \in Nat /\ Len(variables) \in Nat
  BY <1>1 DEF FramesOK, VariablesOK, Extends
<1> QED BY <1>1, <1>2, NodeStays DEF IInv, OutOK

(* The scope of parameters is opened, for an item that will close it. *)
LEMMA OpenStep ==
  ASSUME IInv, todo # <<>>, item.do \in Plain, NewScope(InnerScope),
         NEW a, todo' = <<a>> \o Tail(todo), a.do \in {"params", "letVars"},
         a.scope = nextScope, IsItem(a, frames', variables),
         UNCHANGED <<source, ctx, out, variables>>,
         errors' \in Nat, markStamp' \in Nat
  PROVE  IInv'
<1> DEFINE n == Len(env)
<1>1. /\ item = todo[1] /\ IsSeq(todo) /\ Len(todo) \in Nat /\ Len(todo) > 0
  BY CurrentItem
<1>2. /\ FramesOK(frames') /\ Extends(frames, frames')
      /\ VariablesOK(variables, frames')
      /\ EnvOK(env', frames', variables) /\ left' \subseteq 1..Len(frames')
      /\ n \in Nat /\ Len(env') = n + 1
      /\ env'[n + 1].scope = nextScope
      /\ \A i \in 1..n : env'[i].scope = env[i].scope BY NewScopeEffect
<1>3. /\ IsSeq(<<a>>) /\ Len(<<a>>) = 1 /\ <<a>>[1] = a
      /\ \A i \in 1..Len(<<a>>) : <<a>>[i] = a BY Sequence1
<1>4. TodoOK(todo', frames', variables)
  <2>1. \A i \in 1..Len(<<a>>) : IsItem(<<a>>[i], frames', variables) BY <1>3
  <2>2. BodyFirst(<<a>>) BY <1>3 DEF BodyFirst
  <2>3. item.do \notin {"forms", "form"} BY DEF Plain
  <2> QED BY <1>3, <2>1, <2>2, <2>3, ScopeTodo
<1>5. PICK d : Schedule(todo, d, env, ctx.scope) BY DEF IInv, Schedulable
<1>6. d[2] = n
  <2>1. Closes(item) = 0 BY DEF Closes, PopsScope, Plain
  <2>2. d[1] = n /\ d[1] = d[2] + Closes(item) /\ d[2] \in Nat
    BY <1>1, <1>5 DEF Schedule
  <2> QED BY <2>1, <2>2
<1> HIDE DEF n
<1>7. Schedulable(todo', env', ctx.scope)
  <2> DEFINE e == [i \in 1..2 |-> IF i = 1 THEN n + 1 ELSE n]
  <2>1. e \in [1..2 -> Nat] /\ e[1] = n + 1 /\ e[2] = n BY <1>2
  <2> HIDE DEF e
  <2>2. ScheduleBefore(<<a>>, e, env', ctx.scope, d[2])
    BY <1>2, <2>1, <1>3, <1>6 DEF Closes, PopsScope, Fits, OfBody, ScheduleBefore
  <2>3. \A i \in 1..d[2] : env'[i].scope = env[i].scope BY <1>2, <1>6
  <2>4. \A i \in 2..Len(todo) : ctx.scope = ctx.scope \/ todo[i].do \notin OfBody
    OBVIOUS
  <2>5. Schedulable(<<a>> \o Tail(todo), env', ctx.scope)
    BY <1>1, <1>3, <1>5, <2>2, <2>3, <2>4, ScheduleStep
  <2> QED BY <2>5
<1>8. OutOK(out, frames', variables) BY OutStaysInFrame
<1>9. CtxOK(ctx') /\ ctx'.scope \in 1..Len(frames') BY <1>2 DEF IInv, Extends, FramesOK
<1> QED BY <1>2, <1>4, <1>7, <1>8, <1>9 DEF IInv

LEMMA CompileLambdaIInv ==
  ASSUME IInv, CompileLambda PROVE IInv'
<1> DEFINE form == cdr(item.x)
<1>1. /\ Current("expr") /\ Heads(item.x, RES_LAMBDA)
      /\ UNCHANGED <<source, ctx, markStamp, variables>> BY DEF CompileLambda
<1>2. CASE ~OneAndRest(form) BY <1>2, <1>1, FailsIInv DEF CompileLambda, tableVars
<1>3. CASE OneAndRest(form)
  <2> DEFINE a == Params(car(form), cdr(form), nextScope)
  <2>1. NewScope(item.in) /\ todo' = <<a>> \o Tail(todo) /\ UNCHANGED <<out, errors>>
    BY <1>3 DEF CompileLambda, Do
  <2>2. /\ todo # <<>> /\ item.do \in Plain /\ IsSyntax(item.x)
        /\ item.in = InnerScope /\ errors \in Nat /\ markStamp \in Nat
    BY <1>1, ExpressionItem
  <2>3. IsSyntax(form) BY <1>1, <2>2, CarCdrSyntax DEF Heads
  <2> HIDE DEF form
  <2>4. IsSyntax(car(form)) /\ IsSyntax(cdr(form))
    BY <1>3, <2>3, CarCdrSyntax DEF OneAndRest
  <2>5. a.do \in {"params", "letVars"} /\ a.scope = nextScope BY DEF Params
  <2>6. IsItem(a, frames', variables) BY <2>4 DEF IsItem, Params
  <2> HIDE DEF a
  <2>7. /\ UNCHANGED <<source, ctx, out, variables>> /\ errors' \in Nat /\ markStamp' \in Nat
        /\ NewScope(InnerScope) BY <1>1, <2>1, <2>2
  <2> QED BY <2>1, <2>2, <2>5, <2>6, <2>7, OpenStep
<1> QED BY <1>2, <1>3

LEMMA EnterLetIInv ==
  ASSUME IInv, EnterLet PROVE IInv'
<1> DEFINE a == LetVars(item, nextScope)
<1>1. /\ todo # <<>> /\ item.do = "letScope" /\ item.do \in Plain
      /\ NewScope(item.in) /\ todo' = <<a>> \o Tail(todo)
      /\ UNCHANGED <<source, ctx, out, errors, markStamp, variables>>
  BY DEF EnterLet, Current, Do, Plain
<1>2. /\ IsSyntax(item.body) /\ IsSyntaxSequence(item.names) /\ item.n \in Nat
      /\ item.in = InnerScope /\ errors \in Nat /\ markStamp \in Nat
  BY <1>1, CurrentItem DEF IsItem, Fits, IInv
<1>3. a.do \in {"params", "letVars"} /\ a.scope = nextScope BY DEF LetVars
<1>4. IsItem(a, frames', variables) BY <1>2, EmptySequence DEF IsItem, LetVars
<1> HIDE DEF a
<1>5. /\ UNCHANGED <<source, ctx, out, variables>> /\ errors' \in Nat /\ markStamp' \in Nat
      /\ NewScope(InnerScope) BY <1>1, <1>2
<1> QED BY <1>1, <1>3, <1>4, <1>5, OpenStep

-----------------------------------------------------------------------------
(* Parameters and variables of let: the item stays one that will close the *)
(* innermost scope.                                                        *)
LEMMA ClosingStep ==
  ASSUME IInv, todo # <<>>, item.do \in {"params", "letVars"}, VariableStep,
         NEW a, todo' = <<a>> \o Tail(todo), IsItem(a, frames, variables'),
         \/ a.do \in {"params", "letVars"} /\ a.scope = item.scope
         \/ a.do = "body" /\ a.in = item.scope,
         UNCHANGED <<source, ctx, out, frames>>,
         errors' \in Nat, markStamp' \in Nat
  PROVE  IInv'
<1>1. /\ IsSeq(<<a>>) /\ Len(<<a>>) = 1 /\ <<a>>[1] = a
      /\ \A i \in 1..Len(<<a>>) : <<a>>[i] = a BY Sequence1
<1>2. item.scope = InnerScope BY CurrentItem DEF Fits
<1>3. Closes(a) = 1 /\ Closes(item) = 1 BY DEF Closes, PopsScope
<1>4. Fits(a, InnerScope, ctx.scope) /\ a.do \notin OfBody BY <1>2 DEF Fits, OfBody
<1>5. ItemsFit(<<a>>, item, InnerScope, ctx.scope, frames, variables')
  BY <1>1, <1>4, <1>3 DEF BodyFirst, ItemsFit
<1>6. CtxOK(ctx') /\ ctx'.scope = ctx.scope BY DEF IInv
<1> QED BY <1>5, <1>6, OutStays, InnerStep DEF VariableStep

LEMMA ParamsItem ==
  ASSUME IInv, Current("params")
  PROVE  /\ todo # <<>> /\ item.do = "params"
         /\ item \in [do : {"params"}, x : {item.x}, body : {item.body}, vars : {item.vars},
                      first : {item.first}, scope : {item.scope}]
         /\ IsSyntax(item.x) /\ IsSyntax(item.body) /\ item.scope = InnerScope
         /\ errors \in Nat /\ markStamp \in Nat
BY CurrentItem DEF Current, IsItem, Fits, IInv

LEMMA LambdaParamIInv ==
  ASSUME IInv, LambdaParam PROVE IInv'
<1> DEFINE rest == cdr(item.x)
           vs == item.vars \o AddedParam(car(item.x))
           a == [item EXCEPT !.x = rest, !.first = FALSE, !.vars = vs]
<1>1. /\ Current("params") /\ IsPair(item.x) /\ DefineParam(car(item.x), item.scope)
      /\ todo' = <<a>> \o Tail(todo)
      /\ UNCHANGED <<source, ctx, out, markStamp, frames>> BY DEF LambdaParam, Do
<1>2. /\ todo # <<>> /\ item.do = "params"
      /\ item \in [do : {"params"}, x : {item.x}, body : {item.body}, vars : {item.vars},
                   first : {item.first}, scope : {item.scope}]
      /\ IsSyntax(item.x) /\ IsSyntax(item.body) /\ item.scope = InnerScope
      /\ markStamp \in Nat BY <1>1, ParamsItem
<1>3. VariableStep /\ errors' \in Nat /\ markStamp' \in Nat BY <1>1, <1>2, ParamStep
<1>4. IsSyntax(rest) BY <1>1, <1>2, CarCdrSyntax
<1> HIDE DEF rest, vs
<1>5. a \in [do : {"params"}, x : {rest}, body : {item.body}, vars : {vs},
             first : {FALSE}, scope : {item.scope}] BY <1>2
<1> HIDE DEF a
<1>6. IsItem(a, frames, variables') BY <1>2, <1>4, <1>5 DEF IsItem
<1>7. a.do \in {"params", "letVars"} /\ a.scope = item.scope BY <1>5
<1> QED BY <1>1, <1>2, <1>3, <1>6, <1>7, ClosingStep

LEMMA LambdaListParamIInv ==
  ASSUME IInv, LambdaListParam PROVE IInv'
<1> DEFINE a == Body(item.body, "lambda list", item.vars \o AddedParam(item.x), item.scope)
<1>1. /\ Current("params") /\ IsSymbol(item.x) /\ DefineParam(item.x, item.scope)
      /\ todo' = <<a>> \o Tail(todo)
      /\ UNCHANGED <<source, ctx, out, markStamp, frames>> BY DEF LambdaListParam, Do
<1>2. /\ todo # <<>> /\ item.do = "params"
      /\ IsSyntax(item.x) /\ IsSyntax(item.body) /\ item.scope = InnerScope
      /\ markStamp \in Nat BY <1>1, ParamsItem
<1>3. VariableStep /\ errors' \in Nat /\ markStamp' \in Nat BY <1>1, <1>2, ParamStep
<1>4. a.do = "body" /\ a.in = item.scope /\ a.op = "lambda list" /\ a.x = item.body
  BY DEF Body
<1> HIDE DEF a
<1>5. IsItem(a, frames, variables')
  <2>1. Takes(a) = 1 BY <1>4 DEF Takes
  <2>2. IsSyntax(a.x) BY <1>2, <1>4
  <2>3. a.op \in {"lambda", "lambda list", "let"} BY <1>4
  <2>4. Takes(a) \in Nat \ {0} BY <2>1
  <2> QED BY <1>4, <2>2, <2>3, <2>4 DEF IsItem
<1> QED BY <1>1, <1>2, <1>3, <1>4, <1>5, ClosingStep

LEMMA LetVarsItem ==
  ASSUME IInv, Current("letVars")
  PROVE  /\ todo # <<>> /\ item.do = "letVars"
         /\ item \in [do : {"letVars"}, body : {item.body}, names : {item.names}, n : {item.n},
                      vars : {item.vars}, scope : {item.scope}]
         /\ IsSyntax(item.body) /\ IsSyntaxSequence(item.names) /\ item.n \in Nat
         /\ IsSeq(item.vars) /\ item.scope = InnerScope
         /\ errors \in Nat /\ markStamp \in Nat
BY CurrentItem DEF Current, IsItem, Fits, IInv

LEMMA LetVarIInv ==
  ASSUME IInv, LetVar PROVE IInv'
<1> DEFINE added == AddedParam(Head(item.names))
           vs == item.vars \o added
           ns == Tail(item.names)
           a == [item EXCEPT !.names = ns, !.vars = vs]
<1>1. /\ Current("letVars") /\ item.names # <<>> /\ DefineParam(Head(item.names), item.scope)
      /\ todo' = <<a>> \o Tail(todo)
      /\ UNCHANGED <<source, ctx, out, markStamp, frames>> BY DEF LetVar, Do
<1>2. /\ todo # <<>> /\ item.do = "letVars"
      /\ item \in [do : {"letVars"}, body : {item.body}, names : {item.names}, n : {item.n},
                   vars : {item.vars}, scope : {item.scope}]
      /\ IsSyntax(item.body) /\ IsSyntaxSequence(item.names) /\ item.n \in Nat
      /\ IsSeq(item.vars) /\ item.scope = InnerScope
      /\ markStamp \in Nat BY <1>1, LetVarsItem
<1>3. VariableStep /\ errors' \in Nat /\ markStamp' \in Nat BY <1>1, <1>2, ParamStep
<1>4. IsSyntaxSequence(ns)
  <2>1. IsSeq(item.names) /\ item.names # <<>>
        /\ \A i \in 1..Len(item.names) : IsSyntax(item.names[i])
    BY <1>1, <1>2 DEF IsSyntaxSequence
  <2>2. /\ IsSeq(ns) /\ Len(ns) = Len(item.names) - 1 /\ Len(item.names) \in Nat
        /\ \A i \in 1..(Len(item.names) - 1) : ns[i] = item.names[i + 1]
    BY <2>1, TailSequence, SequenceLen
  <2> QED BY <2>1, <2>2 DEF IsSyntaxSequence
<1>5. IsSeq(vs)
  <2>1. IsSeq(added) BY Sequence1, EmptySequence DEF AddedParam
  <2> DEFINE old == item.vars
  <2>2. IsSeq(old) BY <1>2
  <2> HIDE DEF added, old
  <2>3. IsSeq(old \o added) BY <2>1, <2>2, ConcatSequence
  <2> QED BY <2>3 DEF old
<1> HIDE DEF ns, vs
<1>6. a \in [do : {"letVars"}, body : {item.body}, names : {ns}, n : {item.n},
             vars : {vs}, scope : {item.scope}] BY <1>2
<1> HIDE DEF a
<1>7. IsItem(a, frames, variables') BY <1>2, <1>4, <1>5, <1>6 DEF IsItem
<1>8. a.do \in {"params", "letVars"} /\ a.scope = item.scope BY <1>6
<1> QED BY <1>1, <1>2, <1>3, <1>7, <1>8, ClosingStep

LEMMA LetBodyIInv ==
  ASSUME IInv, LetBody PROVE IInv'
<1> DEFINE of == item.vars \o <<item.n>>
           a == Body(item.body, "let", of, item.scope)
<1>1. /\ Current("letVars") /\ todo' = <<a>> \o Tail(todo)
      /\ UNCHANGED <<source, ctx, out, errors, markStamp, tableVars>> BY DEF LetBody, Do
<1>2. /\ todo # <<>> /\ item.do = "letVars" /\ IsSyntax(item.body) /\ item.n \in Nat
      /\ IsSeq(item.vars) /\ errors \in Nat /\ markStamp \in Nat
  BY <1>1, LetVarsItem
<1>3. VariableStep /\ UNCHANGED <<source, ctx, out, frames>>
  BY <1>1, TableStays DEF tableVars, scopeVars
<1>4. of[Len(of)] = item.n
  <2> DEFINE s == item.vars
             t == <<item.n>>
  <2>1. IsSeq(t) /\ Len(t) = 1 /\ t[1] = item.n BY Sequence1
  <2>2. IsSeq(s) BY <1>2
  <2> HIDE DEF s, t
  <2>3. /\ Len(s \o t) = Len(s) + Len(t) /\ Len(s) \in Nat
        /\ \A i \in 1..Len(t) : (s \o t)[Len(s) + i] = t[i]
    <3>1. IsSeq(s) /\ IsSeq(t) BY <2>1, <2>2
    <3> QED BY <3>1, ConcatSequence, SequenceLen
  <2>4. (s \o t)[Len(s \o t)] = item.n BY <2>1, <2>3
  <2> QED BY <2>4 DEF s, t
<1> HIDE DEF of
<1>5. a.do = "body" /\ a.in = item.scope /\ a.op = "let" /\ a.x = item.body /\ a.of = of
  BY DEF Body
<1> HIDE DEF a
<1>6. IsItem(a, frames, variables') BY <1>4, <1>5, <1>2 DEF Takes, IsItem
<1> QED BY <1>1, <1>2, <1>3, <1>5, <1>6, ClosingStep

LEMMA LambdaParamsEndIInv ==
  ASSUME IInv, LambdaParamsEnd PROVE IInv'
<1> DEFINE m == Make("unspecified", <<>>, frames[item.scope])
           p == Pop(item.scope)
           b == Body(item.body, "lambda", item.vars, item.scope)
<1>1. /\ Current("params")
      /\ todo' = (IF item.first THEN <<m, p>> ELSE <<b>>) \o Tail(todo)
      /\ ReportIf(item.first \/ ~IsNil(item.x))
      /\ UNCHANGED <<source, ctx, out, markStamp, tableVars>> BY DEF LambdaParamsEnd, Do
<1>2. /\ todo # <<>> /\ item.do = "params"
      /\ IsSyntax(item.x) /\ IsSyntax(item.body) /\ item.scope = InnerScope
      /\ errors \in Nat /\ markStamp \in Nat BY <1>1, ParamsItem
<1>3. VariableStep /\ UNCHANGED <<source, ctx, out, frames>>
  BY <1>1, TableStays DEF tableVars, scopeVars
<1>4. errors' \in Nat /\ markStamp' \in Nat BY <1>1, <1>2 DEF ReportIf
<1>5. CASE ~item.first
  <2>1. b.do = "body" /\ b.in = item.scope /\ b.op = "lambda" /\ b.x = item.body
    BY DEF Body
  <2>2. todo' = <<b>> \o Tail(todo) BY <1>1, <1>5
  <2> HIDE DEF b
  <2>3. IsItem(b, frames, variables') BY <2>1, <1>2 DEF Takes, IsItem
  <2> QED BY <1>2, <1>3, <1>4, <2>1, <2>2, <2>3, ClosingStep
<1>6. CASE item.first
  <2>1. todo' = <<m, p>> \o Tail(todo) BY <1>1, <1>6
  <2>2. frames[item.scope] \in 1..Len(frames)
    <3>1. /\ EnvOK(env, frames, variables) /\ FramesOK(frames)
          /\ Len(env) \in Nat /\ Len(env) >= 2 BY <1>2, CurrentItem DEF IInv
    <3>2. PICK d : Schedule(todo, d, env, ctx.scope) BY DEF IInv, Schedulable
    <3>3. item = todo[1] /\ Len(todo) \in Nat /\ Len(todo) > 0 BY <1>2, CurrentItem
    <3>4. Closes(item) = 1 BY <1>2 DEF Closes, PopsScope
    <3>5. /\ d[1] = Len(env) /\ d[1] = d[2] + Closes(item) /\ d[2] \in Nat
          /\ d[Len(todo) + 1] = 2 /\ d[Len(todo) + 1] <= d[2] BY <3>2, <3>3 DEF Schedule
    <3>6. Len(env) \in 2..Len(env) /\ Len(env) - 1 \in 1..Len(env) BY <3>1
    <3>7. frames[item.scope] = env[Len(env) - 1].scope
      BY <1>2, <3>1, <3>6 DEF EnvOK, InnerScope
    <3>8. env[Len(env) - 1] \in [scope : 1..Len(frames), vars : {env[Len(env) - 1].vars}]
      BY <3>1, <3>6 DEF EnvOK
    <3> QED BY <3>7, <3>8
  <2>3. IsItem(m, frames, variables') /\ m.do = "make"
    BY <2>2, UnspecifiedNode DEF IsItem, Make
  <2>4. IsItem(p, frames, variables') /\ p.do = "pop" /\ p.scope = item.scope
    BY DEF IsItem, Pop
  <2> HIDE DEF m, p
  <2>5. IsSeq(<<m, p>>) /\ Len(<<m, p>>) = 2 /\ <<m, p>>[1] = m /\ <<m, p>>[2] = p
    BY Sequence2
  <2>6. ItemsFit(<<m, p>>, item, InnerScope, ctx.scope, frames, variables')
    <3>1. \A i \in 1..2 : i = 1 \/ i = 2 OBVIOUS
    <3>2. Fits(m, InnerScope, ctx.scope) /\ Closes(m) = 0 /\ m.do \notin OfBody
      BY <2>3 DEF Fits, Closes, PopsScope, OfBody
    <3>3. Fits(p, InnerScope, ctx.scope) /\ Closes(p) = 1 /\ p.do \notin OfBody
      BY <1>2, <2>4 DEF Fits, Closes, PopsScope, OfBody
    <3>4. Closes(item) = 1 /\ item.do \notin {"forms", "form"}
      BY <1>2 DEF Closes, PopsScope
    <3>5. \A i \in 1..Len(<<m, p>>) :
            IsItem(<<m, p>>[i], frames, variables') /\ Fits(<<m, p>>[i], InnerScope, ctx.scope)
      BY <2>3, <2>4, <2>5, <3>1, <3>2, <3>3
    <3>6. \A i \in 1..(Len(<<m, p>>) - 1) : Closes(<<m, p>>[i]) = 0 BY <2>5, <3>2
    <3>7. Closes(item) = IF Len(<<m, p>>) = 0 THEN 0 ELSE Closes(<<m, p>>[Len(<<m, p>>)])
      BY <2>5, <3>3, <3>4
    <3>8. BodyFirst(<<m, p>>) BY <2>5, <3>1, <3>2, <3>3 DEF BodyFirst
    <3> QED BY <2>5, <3>4, <3>5, <3>6, <3>7, <3>8 DEF ItemsFit
  <2>7. CtxOK(ctx') /\ ctx'.scope = ctx.scope BY <1>1 DEF IInv
  <2> QED BY <1>2, <1>3, <1>4, <2>1, <2>6, <2>7, OutStays, InnerStep DEF VariableStep
<1> QED BY <1>5, <1>6

-----------------------------------------------------------------------------

LEMMA BodyItemsProperties ==
  ASSUME NEW x, IsSyntax(x), NEW fs, NEW vs, nextScope \in 1..Len(fs)
  PROVE  /\ IsSeq(BodyItems(x)) /\ Len(BodyItems(x)) \in 1..2
         /\ \A i \in 1..Len(BodyItems(x)) :
              /\ IsItem(BodyItems(x)[i], fs, vs)
              /\ Fits(BodyItems(x)[i], nextScope, nextScope)
              /\ Closes(BodyItems(x)[i]) = 0
         /\ BodyFirst(BodyItems(x))
<1>1. CASE IsNil(x)
  <2> DEFINE m == Make("body", <<0, 0>>, nextScope)
  <2>1. IsItem(m, fs, vs) /\ m.do = "make" BY DEF IsItem, IsNode, Make, Op, Takes
  <2> HIDE DEF m
  <2>2. Fits(m, nextScope, nextScope) /\ Closes(m) = 0 /\ m.do \notin OfBody
    BY <2>1 DEF Fits, Closes, PopsScope, OfBody
  <2>3. BodyItems(x) = <<m>> BY <1>1 DEF BodyItems, m
  <2>4. IsSeq(<<m>>) /\ Len(<<m>>) = 1 /\ \A i \in 1..Len(<<m>>) : <<m>>[i] = m
    BY Sequence1
  <2>5. BodyFirst(<<m>>) BY <2>2, <2>4 DEF BodyFirst
  <2> QED BY <2>1, <2>2, <2>3, <2>4, <2>5
<1>2. CASE ~IsNil(x)
  <2> DEFINE a == Forms(x)
             b == EndBody
  <2>1. IsItem(a, fs, vs) /\ a.do = "forms" /\ IsItem(b, fs, vs) /\ b.do = "endBody"
    BY DEF IsItem, Forms, EndBody
  <2>2. BodyItems(x) = <<a, b>> BY <1>2 DEF BodyItems
  <2> HIDE DEF a, b
  <2>3. /\ Fits(a, nextScope, nextScope) /\ Closes(a) = 0
        /\ Fits(b, nextScope, nextScope) /\ Closes(b) = 0
    BY <2>1 DEF Fits, Closes, PopsScope, OfBody
  <2>4. IsSeq(<<a, b>>) /\ Len(<<a, b>>) = 2 /\ <<a, b>>[1] = a /\ <<a, b>>[2] = b
    BY Sequence2
  <2>5. \A i \in 1..2 : i = 1 \/ i = 2 OBVIOUS
  <2>6. BodyFirst(<<a, b>>) BY <2>4, <2>1 DEF BodyFirst
  <2> QED BY <2>1, <2>2, <2>3, <2>4, <2>5, <2>6
<1> QED BY <1>1, <1>2

LEMMA CompileLambdaBodyIInv ==
  ASSUME IInv, CompileLambdaBody PROVE IInv'
<1> DEFINE n == Len(env)
           hs == BodyItems(item.x)
           m == Make(item.op, item.of, item.in)
           p == Pop(nextScope)
           q == Pop(item.in)
           ts == <<m, p, q>>
           h == Len(hs)
           items == hs \o ts
<1>1. /\ Current("body") /\ todo # <<>> /\ item.do = "body"
      /\ NewScope(item.in) /\ ctx' = NewContext(nextScope)
      /\ todo' = items \o Tail(todo)
      /\ ReportIf(IsNil(item.x))
      /\ UNCHANGED <<source, out, markStamp, variables>>
  BY DEF CompileLambdaBody, Do, Current, BodyItems
<1>2. /\ item = todo[1] /\ IsSeq(todo) /\ Len(todo) \in Nat /\ Len(todo) > 0
      /\ IsItem(item, frames, variables) /\ Fits(item, InnerScope, ctx.scope)
      /\ InnerScope \in 1..Len(frames)
      /\ \A i \in 2..Len(todo) : todo[i].do \notin OfBody BY <1>1, CurrentItem
<1>3. /\ IsSyntax(item.x) /\ item.in = InnerScope
      /\ item.op \in {"lambda", "lambda list", "let"} /\ Takes(item) \in Nat \ {0}
  BY <1>1, <1>2 DEF IsItem, Fits
<1>4. NewScope(InnerScope) BY <1>1, <1>3
<1>5. /\ FramesOK(frames') /\ Extends(frames, frames') /\ nextScope \in 1..Len(frames')
      /\ VariablesOK(variables, frames')
      /\ EnvOK(env', frames', variables) /\ left' \subseteq 1..Len(frames')
      /\ n \in Nat /\ Len(env') = n + 1
      /\ env'[n + 1].scope = nextScope
      /\ \A i \in 1..n : env'[i].scope = env[i].scope BY <1>4, NewScopeEffect
<1>6. /\ IsSeq(hs) /\ h \in 1..2
      /\ \A i \in 1..h : /\ IsItem(hs[i], frames', variables)
                         /\ Fits(hs[i], nextScope, nextScope) /\ Closes(hs[i]) = 0
      /\ BodyFirst(hs) BY <1>3, <1>5, BodyItemsProperties
<1>7. IsItem(m, frames', variables) /\ m.do = "make"
  <2>1. Takes(m) = Takes(item) BY DEF Takes, Make
  <2>2. m.do = "make" /\ m.op = item.op /\ m.in = item.in BY DEF Make
  <2> HIDE DEF m
  <2>3. item.in \in 1..Len(frames')
    <3>1. Len(frames) \in Nat /\ Len(frames') \in Nat /\ Len(frames) <= Len(frames')
      BY <1>5 DEF Extends, FramesOK, IInv
    <3>2. InnerScope \in 1..Len(frames) BY <1>2
    <3>3. InnerScope \in 1..Len(frames') BY <3>1, <3>2
    <3> QED BY <1>3, <3>3
  <2>4. IsNode(m, frames', variables) BY <1>3, <2>1, <2>2, <2>3 DEF IsNode, Op
  <2> QED BY <2>2, <2>4 DEF IsItem
<1>8. IsItem(p, frames', variables) /\ p.do = "pop" /\ p.scope = nextScope
  BY DEF IsItem, Pop
<1>9. IsItem(q, frames', variables) /\ q.do = "pop" /\ q.scope = InnerScope
  BY <1>3 DEF IsItem, Pop
<1> HIDE DEF hs, m, p, q
<1>10. IsSeq(ts) /\ Len(ts) = 3 /\ ts[1] = m /\ ts[2] = p /\ ts[3] = q BY Sequence3
<1> HIDE DEF h, ts
<1>11. /\ IsSeq(items) /\ Len(items) = h + 3
       /\ \A i \in 1..h : items[i] = hs[i]
       /\ items[h + 1] = m /\ items[h + 2] = p /\ items[h + 3] = q
  <2>1. /\ IsSeq(hs \o ts) /\ Len(hs \o ts) = Len(hs) + Len(ts)
        /\ \A i \in 1..Len(hs) : (hs \o ts)[i] = hs[i]
        /\ \A i \in 1..Len(ts) : (hs \o ts)[Len(hs) + i] = ts[i]
    <3>1. IsSeq(hs) /\ IsSeq(ts) BY <1>6, <1>10
    <3> QED BY <3>1, ConcatSequence
  <2> QED BY <1>10, <2>1 DEF h
<1> HIDE DEF items
<1>12. \A i \in 1..Len(items) : i \in 1..h \/ i = h + 1 \/ i = h + 2 \/ i = h + 3
  BY <1>6, <1>11
<1>13. \A i \in 1..Len(items) : IsItem(items[i], frames', variables)
  BY <1>6, <1>7, <1>8, <1>9, <1>11, <1>12
<1>14. BodyFirst(items) BY <1>7, <1>8, <1>9, <1>11, <1>12, <1>6 DEF BodyFirst, OfBody, h
<1>15. TodoOK(todo', frames', variables) BY <1>1, <1>4, <1>11, <1>13, <1>14, ScopeTodo
<1>16. PICK d : Schedule(todo, d, env, ctx.scope) BY DEF IInv, Schedulable
<1>17. n = d[2] + 1 /\ d[2] \in Nat /\ n >= 1
  BY <1>1, <1>2, <1>16 DEF Closes, PopsScope, Schedule
<1> HIDE DEF n
<1>18. ctx'.scope = nextScope /\ CtxOK(ctx')
  BY <1>1, EmptySequence DEF NewContext, CtxOK, IsSyntaxSequence
<1>19. Schedulable(todo', env', nextScope)
  <2> DEFINE e == [i \in 1..(h + 4) |-> IF i <= h + 2 THEN n + 1
                                         ELSE IF i = h + 3 THEN n ELSE n - 1]
  <2>1. /\ e \in [1..(h + 4) -> Nat]
        /\ \A i \in 1..(h + 4) : i <= h + 2 => e[i] = n + 1
        /\ e[h + 3] = n /\ e[h + 4] = n - 1 BY <1>5, <1>6, <1>17 DEF n
  <2>2. \A i, j \in 1..(h + 4) : i <= j => e[j] <= e[i] BY <1>5, <1>6, <1>17 DEF n
  <2> HIDE DEF e
  <2>3. ASSUME NEW i \in 1..Len(items)
        PROVE  e[i] = e[i + 1] + Closes(items[i]) /\ Fits(items[i], env'[e[i]].scope, nextScope)
    <3>0. n \in Nat /\ n \in 1..n /\ env'[n + 1].scope = nextScope /\ env'[n].scope = InnerScope
      <4>1. n \in Nat /\ n \in 1..n BY <1>5, <1>17 DEF n
      <4>2. env'[n + 1].scope = nextScope /\ env'[n].scope = env[n].scope
        BY <1>5, <4>1 DEF n
      <4> QED BY <4>1, <4>2 DEF n, InnerScope
    <3>1. CASE i \in 1..h BY <1>6, <1>11, <2>1, <3>1, <3>0
    <3>2. CASE i = h + 1
      BY <1>6, <1>11, <2>1, <3>2, <1>7, <3>0 DEF Closes, PopsScope, Fits, OfBody
    <3>3. CASE i = h + 2
      BY <1>6, <1>11, <2>1, <3>3, <1>8, <3>0 DEF Closes, PopsScope, Fits, OfBody
    <3>4. CASE i = h + 3
      BY <1>6, <1>11, <2>1, <3>4, <1>9, <3>0 DEF Closes, PopsScope, Fits, OfBody
    <3> QED BY <1>12, <3>1, <3>2, <3>3, <3>4
  <2>4. ScheduleBefore(items, e, env', nextScope, d[2])
    <3>1. Len(items) + 1 = h + 4 /\ 1 <= h + 2 /\ 1 \in 1..(h + 4) BY <1>6, <1>11
    <3>2. e[1] = Len(env') /\ e[h + 4] = d[2] BY <1>5, <1>17, <2>1, <3>1 DEF n
    <3> QED BY <2>1, <2>2, <2>3, <3>1, <3>2 DEF ScheduleBefore
  <2>5. \A i \in 1..d[2] : env'[i].scope = env[i].scope BY <1>17, <1>5 DEF n
  <2>6. \A i \in 2..Len(todo) : nextScope = ctx.scope \/ todo[i].do \notin OfBody
    BY <1>2
  <2>7. Schedulable(items \o Tail(todo), env', nextScope)
    BY <1>1, <1>2, <1>11, <1>16, <2>4, <2>5, <2>6, ScheduleStep
  <2> QED BY <1>1, <2>7
<1>20. OutOK(out', frames', variables) BY <1>1, <1>4, OutStaysInFrame
<1>21. errors' \in Nat /\ markStamp' \in Nat /\ source' \in Source
  BY <1>1 DEF IInv, ReportIf
<1> QED BY <1>1, <1>5, <1>15, <1>18, <1>19, <1>20, <1>21 DEF IInv

-----------------------------------------------------------------------------
LEMMA StutteringIInv ==
  ASSUME IInv, UNCHANGED vars PROVE IInv'
BY DEF vars, scopeVars, IInv

LEMMA NextIInv == IInv /\ [Next]_vars => IInv'
BY MakeNodeIInv, PopScopeIInv,
   ParseBodyIInv, FormEmptyIInv, FormMacroIInv, FormBeginIInv, FormDefineIInv,
   FormExpressionIInv, CompileBodyIInv,
   CompileValueIInv, CompileVariableIInv, CompileMacroIInv, CompileCallIInv, CompileBeginIInv,
   CompileArgsIInv, CompileIfIInv, CompileSetBangIInv, CompileInvalidIInv,
   CompileLambdaIInv, LambdaParamIInv, LambdaListParamIInv, LambdaParamsEndIInv,
   CompileLambdaBodyIInv,
   CompileLetIInv, LetInitIInv, LetValuesIInv, EnterLetIInv, LetVarIInv, LetBodyIInv,
   StutteringIInv DEF Next, CoreNext

(* The invariant holds whatever the body is. *)
THEOREM Invariant == Spec => []IInv
<1>1. Init => IInv BY InitIInv
<1>2. IInv /\ [Next]_vars => IInv' BY NextIInv
<1> QED BY <1>1, <1>2, PTL DEF Spec

(* Types, whatever the body is: bindings that are none of the reserved     *)
(* words' are variables that have been made, and nodes refer to frames and *)
(* variables that exist.                                                   *)
THEOREM TypeCorrect == Spec => []TypeOK
<1>1. IInv => TypeOK
  <2> SUFFICES ASSUME IInv PROVE TypeOK OBVIOUS
  <2>1. /\ FramesOK(frames) /\ VariablesOK(variables, frames) /\ EnvOK(env, frames, variables)
        /\ OutOK(out, frames, variables)
        /\ errors \in Nat /\ markStamp \in Nat /\ left \subseteq 1..Len(frames)
        /\ ctx.scope \in 1..Len(frames) BY DEF IInv
  <2>2. \A f \in Frame : frames[f] \in 0..(f - 1) BY <2>1 DEF FramesOK, Frame
  <2>3. \A v \in Variable : variables[v] \in Frame
    BY <2>1 DEF VariablesOK, Variable, Frame
  <2>4. ASSUME NEW i \in 1..Len(env)
        PROVE  /\ env[i].scope \in Frame
               /\ \A x \in DOMAIN env[i].vars : env[i].vars[x] \in Variable \cup (m_unspec..-1)
    BY <2>1 DEF EnvOK, Frame, Variable
  <2>5. ASSUME NEW i \in 1..Len(out)
        PROVE  /\ out[i].op \in Op
               /\ out[i].in \in Frame
               /\ out[i].op \in {"ref", "set"} => out[i].of[1] \in Variable
    BY <2>1 DEF OutOK, IsNode, Frame, Variable
  <2> QED BY <2>1, <2>2, <2>3, <2>4, <2>5 DEF TypeOK, Frame
<1> QED BY <1>1, Invariant, PTL

-----------------------------------------------------------------------------

LEMMA ScheduleIsOpenAt ==
  ASSUME NEW td, Len(td) \in Nat, NEW ev, NEW c, NEW d, Schedule(td, d, ev, c)
  PROVE  /\ OpenAt(td, d)
         /\ \A f : OpenAt(td, f) => \A i \in 1..(Len(td) + 1) : f[i] = d[i]
<1> DEFINE n == Len(td)
<1>1. /\ d \in [1..(n + 1) -> Nat] /\ d[n + 1] = 2
      /\ \A i \in 1..n : d[i] = d[i + 1] + Len(PopsScope(td[i])) BY DEF Schedule, Closes
<1>2. OpenAt(td, d)
  <2> DEFINE g == [i \in 1..(n + 1) |-> IF i > n THEN 2 ELSE d[i + 1] + Len(PopsScope(td[i]))]
  <2>1. \A i \in 1..(n + 1) : d[i] = g[i] BY <1>1
  <2>2. d = g BY <1>1, <2>1
  <2> QED BY <2>2 DEF OpenAt
<1>3. ASSUME NEW f, OpenAt(td, f), NEW i \in 1..(n + 1)
      PROVE  f[i] = d[i]
  <2> DEFINE T == {k \in Nat : k <= n => f[(n + 1) - k] = d[(n + 1) - k]}
  <2>1. \A j \in 1..(n + 1) : f[j] = IF j > n THEN 2 ELSE f[j + 1] + Len(PopsScope(td[j]))
    BY <1>3 DEF OpenAt
  <2>2. 0 \in T BY <1>1, <2>1
  <2>3. ASSUME NEW k \in Nat, k \in T
        PROVE  k + 1 \in T
    <3> SUFFICES ASSUME k + 1 <= n
                 PROVE  f[(n + 1) - (k + 1)] = d[(n + 1) - (k + 1)] OBVIOUS
    <3> DEFINE j == (n + 1) - (k + 1)
    <3>1. j \in 1..n /\ j \in 1..(n + 1) /\ ~(j > n) /\ j + 1 = (n + 1) - k /\ k <= n
      OBVIOUS
    <3>2. f[(n + 1) - k] = d[(n + 1) - k] BY <2>3, <3>1
    <3> HIDE DEF j
    <3>3. f[j] = f[j + 1] + Len(PopsScope(td[j])) /\ d[j] = d[j + 1] + Len(PopsScope(td[j]))
      BY <1>1, <2>1, <3>1
    <3>4. f[j] = d[j] BY <3>1, <3>2, <3>3
    <3> QED BY <3>4 DEF j
  <2>4. (n + 1) - i \in T
    <3>1. (n + 1) - i \in Nat OBVIOUS
    <3> HIDE DEF T
    <3> QED BY <2>2, <2>3, <3>1, Induction
  <2>5. (n + 1) - i <= n /\ (n + 1) - ((n + 1) - i) = i OBVIOUS
  <2> QED BY <2>4, <2>5
<1> QED BY <1>2, <1>3

(* Whatever the body is, the open scopes are those that are still to be    *)
(* popped, each once and in the order of nesting: the assertion of         *)
(* popThisScope never fails, and names are bound in the innermost scope.   *)
THEOREM ScopesPopped == Spec => []ScopesMatchPops
<1>1. IInv => ScopesMatchPops
  <2> SUFFICES ASSUME IInv PROVE ScopesMatchPops OBVIOUS
  <2> DEFINE f == CHOOSE g : OpenAt(todo, g)
  <2>1. PICK d : Schedule(todo, d, env, ctx.scope) BY DEF IInv, Schedulable
  <2>2. Len(todo) \in Nat BY SequenceLen DEF IInv, TodoOK
  <2>3. OpenAt(todo, f) BY <2>1, <2>2, ScheduleIsOpenAt
  <2> HIDE DEF f
  <2>4. \A i \in 1..(Len(todo) + 1) : f[i] = d[i] BY <2>1, <2>2, <2>3, ScheduleIsOpenAt
  <2>5. Len(env) = f[1] BY <2>1, <2>2, <2>4 DEF Schedule
  <2>6. ASSUME NEW i \in 1..Len(todo), NEW j \in 1..Len(PopsScope(todo[i]))
        PROVE  env[f[i]].scope = PopsScope(todo[i])[j]
    <3> DEFINE it == todo[i]
    <3>1. f[i] = d[i] /\ Fits(it, env[d[i]].scope, ctx.scope)
      BY <2>1, <2>2, <2>4 DEF Schedule
    <3> HIDE DEF it
    <3>2. j \in 1..Len(PopsScope(it)) BY DEF it
    <3>3. CASE it.do \in {"pop", "params", "letVars"}
      BY <3>3, <3>2, <3>1, Sequence1 DEF PopsScope, Fits, it
    <3>4. CASE it.do = "body" BY <3>4, <3>2, <3>1, Sequence1 DEF PopsScope, Fits, it
    <3>5. CASE it.do \notin {"pop", "params", "letVars", "body"}
      BY <3>5, <3>2, EmptySequence DEF PopsScope
    <3> QED BY <3>3, <3>4, <3>5
  <2>7. \A x \in {"params", "letVars"} : Current(x) => item.scope = env[Len(env)].scope
    BY CurrentItem DEF Current, Fits, InnerScope
  <2>8. \A x \in {"forms", "form", "endBody"} : Current(x) => ctx.scope = env[Len(env)].scope
    BY CurrentItem DEF Current, Fits, InnerScope, OfBody
  <2>9. env[1].scope = SystemScope /\ env[2].scope = LibraryScope BY DEF IInv, EnvOK
  <2> QED BY <2>5, <2>6, <2>7, <2>8, <2>9 DEF ScopesMatchPops, OpenAt, f
<1> QED BY <1>1, Invariant, PTL

-----------------------------------------------------------------------------

LEMMA AroundExists ==
  ASSUME NEW fs, FramesOK(fs)
  PROVE  \E around : AroundEach(fs, around)
<1> DEFINE w == [g \in 0..Len(fs) |-> {a \in 1..Len(fs) : Reaches(fs, g, a)}]
<1>1. Len(fs) \in Nat /\ \A f \in 1..Len(fs) : fs[f] \in 0..(f - 1) BY DEF FramesOK
<1>2. w[0] = {}
  <2>1. \A h \in 1..Len(fs) : h \in {0} => fs[h] \in {0} BY <1>1
  <2>2. \A a : Reaches(fs, 0, a) => a \in {0} BY <2>1 DEF Reaches
  <2> QED BY <1>1, <2>2
<1>3. ASSUME NEW g \in 1..Len(fs)
      PROVE  w[g] = {g} \cup w[fs[g]]
  <2>1. g \in 0..Len(fs) /\ fs[g] \in 0..Len(fs) BY <1>1
  <2>2. g \in w[g] BY <2>1 DEF Reaches
  <2>3. ASSUME NEW a \in 1..Len(fs), Reaches(fs, fs[g], a)
        PROVE  Reaches(fs, g, a) BY <2>3 DEF Reaches
  <2>4. ASSUME NEW a \in 1..Len(fs), Reaches(fs, g, a), a # g
        PROVE  Reaches(fs, fs[g], a)
    <3> SUFFICES ASSUME NEW S, fs[g] \in S, \A h \in 1..Len(fs) : h \in S => fs[h] \in S
                 PROVE  a \in S BY DEF Reaches
    <3> DEFINE U == S \cup {g}
    <3>1. g \in U /\ \A h \in 1..Len(fs) : h \in U => fs[h] \in U OBVIOUS
    <3> HIDE DEF U
    <3>2. a \in U BY <2>4, <3>1 DEF Reaches
    <3> QED BY <2>4, <3>2 DEF U
  <2> QED BY <2>1, <2>2, <2>3, <2>4
<1> DEFINE v == [g \in 0..Len(fs) |-> IF g = 0 THEN {} ELSE {g} \cup w[fs[g]]]
<1>4. \A g \in 0..Len(fs) : w[g] = v[g]
  <2> HIDE DEF w
  <2> SUFFICES ASSUME NEW g \in 0..Len(fs) PROVE w[g] = v[g] OBVIOUS
  <2>1. CASE g = 0 BY <1>2, <2>1
  <2>2. CASE g # 0 BY <1>1, <2>2, <1>3
  <2> QED BY <2>1, <2>2
<1>5. w = v BY <1>4
<1>6. AroundEach(fs, w) BY <1>5 DEF AroundEach
<1> QED BY <1>6

LEMMA ReachedIsAround ==
  ASSUME NEW fs, FramesOK(fs), NEW around, AroundEach(fs, around),
         NEW f \in 1..Len(fs), NEW a \in 1..Len(fs), Reaches(fs, f, a)
  PROVE  a \in around[f]
<1> DEFINE S == {g \in 0..Len(fs) : around[g] \subseteq around[f]}
<1>1. Len(fs) \in Nat /\ \A g \in 1..Len(fs) : fs[g] \in 0..(g - 1) BY DEF FramesOK
<1>2. \A g \in 1..Len(fs) : around[g] = {g} \cup around[fs[g]] BY <1>1 DEF AroundEach
<1>3. f \in S BY <1>1
<1>4. \A h \in 1..Len(fs) : h \in S => fs[h] \in S BY <1>1, <1>2
<1>5. a \in S
  <2> HIDE DEF S
  <2> QED BY <1>3, <1>4 DEF Reaches
<1> QED BY <1>2, <1>5

(* Whatever the body is and however its macros nest, the chain of static   *)
(* links that the generated code follows from a frame reaches each         *)
(* variable that is used in it.                                            *)
THEOREM VariablesReached == Spec => []VariablesReachable
<1>1. IInv => VariablesReachable
  <2> SUFFICES ASSUME IInv,
                      NEW i \in 1..Len(out), out[i].op \in {"ref", "set"}
               PROVE  variables[out[i].of[1]] \in Enclosing(out[i].in)
    BY DEF VariablesReachable
  <2> DEFINE around == CHOOSE g : AroundEach(frames, g)
             v == out[i].of[1]
             f == out[i].in
  <2>1. FramesOK(frames) /\ VariablesOK(variables, frames) /\ IsNode(out[i], frames, variables)
    BY DEF IInv, OutOK
  <2>2. AroundEach(frames, around) BY <2>1, AroundExists
  <2>3. f \in 1..Len(frames) /\ v \in 1..Len(variables) /\ Reaches(frames, f, variables[v])
    BY <2>1 DEF IsNode
  <2>4. Enclosing(f) = around[f] BY DEF Enclosing, AroundEach
  <2> HIDE DEF around, v, f
  <2>5. variables[v] \in 1..Len(frames) BY <2>1, <2>3 DEF VariablesOK
  <2>6. variables[v] \in around[f] BY <2>1, <2>2, <2>3, <2>5, ReachedIsAround
  <2> QED BY <2>4, <2>6 DEF v, f
<1> QED BY <1>1, Invariant, PTL

-----------------------------------------------------------------------------

LEMMA NothingBalanced ==
  ASSUME NEW x \in Nat
  PROVE  Balanced(<<>>, x, x)
<1> DEFINE r == [i \in 1..1 |-> x]
<1>1. r \in [1..1 -> Nat] /\ r[1] = x OBVIOUS
<1> HIDE DEF r
<1>2. Len(<<>>) = 0 /\ IsSeq(<<>>) BY EmptySequence
<1>3. Counts(<<>>, r, x, x) BY <1>1, <1>2 DEF Counts
<1> QED BY <1>2, <1>3 DEF Balanced

LEMMA OneBalanced ==
  ASSUME NEW a, NEW x \in Nat, Need(a) \in 0..x
  PROVE  Balanced(<<a>>, x, x - Need(a) + Leaves(a))
<1> DEFINE y == x - Need(a) + Leaves(a)
           r == [i \in 1..2 |-> IF i = 1 THEN x ELSE y]
<1>1. IsSeq(<<a>>) /\ Len(<<a>>) = 1 /\ <<a>>[1] = a BY Sequence1
<1>2. y \in Nat BY DEF Leaves
<1> HIDE DEF y
<1>3. r \in [1..2 -> Nat] /\ r[1] = x /\ r[2] = y BY <1>2
<1> HIDE DEF r
<1>4. Counts(<<a>>, r, x, y) BY <1>1, <1>3 DEF y, Counts
<1> QED BY <1>1, <1>4 DEF Balanced, y

LEMMA BothBalanced ==
  ASSUME NEW s, NEW t, NEW x, NEW y, NEW z, Balanced(s, x, y), Balanced(t, y, z)
  PROVE  Balanced(s \o t, x, z)
<1>1. PICK p : Counts(s, p, x, y) BY DEF Balanced
<1>2. PICK q : Counts(t, q, y, z) BY DEF Balanced
<1> DEFINE m == Len(s)
           n == Len(t)
           u == s \o t
           r == [i \in 1..(m + n + 1) |-> IF i <= m THEN p[i] ELSE q[i - m]]
<1>3. IsSeq(s) /\ IsSeq(t) /\ m \in Nat /\ n \in Nat
  BY SequenceLen DEF Balanced
<1>4. /\ IsSeq(u) /\ Len(u) = m + n
      /\ \A i \in 1..m : u[i] = s[i]
      /\ \A i \in 1..n : u[m + i] = t[i] BY <1>3, ConcatSequence
<1>5. /\ p \in [1..(m + 1) -> Nat] /\ p[1] = x /\ p[m + 1] = y
      /\ \A i \in 1..m : Need(s[i]) \in 0..p[i] /\ p[i + 1] = p[i] - Need(s[i]) + Leaves(s[i])
  BY <1>1 DEF Counts
<1>6. /\ q \in [1..(n + 1) -> Nat] /\ q[1] = y /\ q[n + 1] = z
      /\ \A i \in 1..n : Need(t[i]) \in 0..q[i] /\ q[i + 1] = q[i] - Need(t[i]) + Leaves(t[i])
  BY <1>2 DEF Counts
<1> HIDE DEF m, n, u
<1>7. \A i \in 1..(m + n + 1) : (i <= m => i \in 1..(m + 1))
        /\ (~(i <= m) => i - m \in 1..(n + 1)) BY <1>3
<1>8. r \in [1..(m + n + 1) -> Nat] BY <1>5, <1>6, <1>7
<1>9. \A i \in 1..(m + n + 1) : (i <= m + 1 => r[i] = p[i]) /\ (i > m => r[i] = q[i - m])
  <2> SUFFICES ASSUME NEW i \in 1..(m + n + 1), i = m + 1
               PROVE  p[i] = q[i - m] BY <1>3
  <2>1. i - m = 1 BY <1>3
  <2> QED BY <1>5, <1>6, <2>1
<1> HIDE DEF r
<1>10. r[1] = x /\ r[m + n + 1] = z BY <1>3, <1>5, <1>6, <1>9
<1>11. ASSUME NEW i \in 1..(m + n)
       PROVE  Need(u[i]) \in 0..r[i] /\ r[i + 1] = r[i] - Need(u[i]) + Leaves(u[i])
  <2>1. CASE i <= m BY <1>3, <2>1, <1>4, <1>9, <1>5
  <2>2. CASE ~(i <= m)
    <3> DEFINE j == i - m
    <3>1. /\ j \in 1..n /\ i \in 1..(m + n + 1) /\ i + 1 \in 1..(m + n + 1)
          /\ i > m /\ i + 1 > m /\ (i + 1) - m = j + 1 /\ m + j = i BY <1>3, <2>2
    <3>2. r[i] = q[j] /\ r[i + 1] = q[j + 1] BY <1>9, <3>1
    <3> HIDE DEF j
    <3>3. u[i] = t[j] BY <1>4, <3>1
    <3> QED BY <1>6, <3>1, <3>2, <3>3
  <2> QED BY <2>1, <2>2
<1>12. Counts(u, r, x, z) BY <1>4, <1>8, <1>10, <1>11 DEF Counts
<1> QED BY <1>4, <1>12 DEF Balanced, u

LEMMA MoreBalanced ==
  ASSUME NEW s, NEW x, NEW y, Balanced(s, x, y), NEW n \in Nat
  PROVE  Balanced(s, x + n, y + n)
<1>1. PICK p : Counts(s, p, x, y) BY DEF Balanced
<1> DEFINE r == [i \in 1..(Len(s) + 1) |-> p[i] + n]
<1>2. Len(s) \in Nat BY SequenceLen DEF Balanced
<1>3. /\ p \in [1..(Len(s) + 1) -> Nat] /\ p[1] = x /\ p[Len(s) + 1] = y
      /\ \A i \in 1..Len(s) : Need(s[i]) \in 0..p[i]
           /\ p[i + 1] = p[i] - Need(s[i]) + Leaves(s[i]) BY <1>1 DEF Counts
<1>4. r \in [1..(Len(s) + 1) -> Nat] /\ \A i \in 1..(Len(s) + 1) : r[i] = p[i] + n
  BY <1>3
<1> HIDE DEF r
<1>5. ASSUME NEW i \in 1..Len(s)
      PROVE  Need(s[i]) \in 0..r[i] /\ r[i + 1] = r[i] - Need(s[i]) + Leaves(s[i])
  <2>1. /\ i \in 1..(Len(s) + 1) /\ i + 1 \in 1..(Len(s) + 1) BY <1>2
  <2>2. r[i] = p[i] + n /\ r[i + 1] = p[i + 1] + n /\ p[i] \in Nat BY <1>3, <1>4, <2>1
  <2>3. Leaves(s[i]) \in Nat BY DEF Leaves
  <2> QED BY <1>3, <2>2, <2>3
<1>6. r[1] = x + n /\ r[Len(s) + 1] = y + n BY <1>2, <1>3, <1>4
<1>7. Counts(s, r, x + n, y + n) BY <1>4, <1>5, <1>6 DEF Counts
<1> QED BY <1>7 DEF Balanced

LEMMA RestBalanced ==
  ASSUME NEW s, NEW x, NEW y, Balanced(s, x, y), s # <<>>
  PROVE  /\ x \in Nat /\ Need(s[1]) \in 0..x
         /\ Balanced(Tail(s), x - Need(s[1]) + Leaves(s[1]), y)
<1>1. PICK p : Counts(s, p, x, y) BY DEF Balanced
<1> DEFINE n == Len(s)
           t == Tail(s)
           r == [i \in 1..n |-> p[i + 1]]
<1>2. IsSeq(s) /\ n \in Nat /\ n > 0 BY SequenceLen DEF Balanced
<1>3. IsSeq(t) /\ Len(t) = n - 1 /\ \A i \in 1..(n - 1) : t[i] = s[i + 1]
  BY <1>2, TailSequence
<1> HIDE DEF t
<1>4. /\ p \in [1..(n + 1) -> Nat] /\ p[1] = x /\ p[n + 1] = y
      /\ \A i \in 1..n : Need(s[i]) \in 0..p[i] /\ p[i + 1] = p[i] - Need(s[i]) + Leaves(s[i])
  BY <1>1 DEF Counts
<1> HIDE DEF n
<1>5. r \in [1..n -> Nat] /\ \A i \in 1..n : r[i] = p[i + 1] BY <1>2, <1>4
<1> HIDE DEF r
<1>6. ASSUME NEW i \in 1..(n - 1)
      PROVE  Need(t[i]) \in 0..r[i] /\ r[i + 1] = r[i] - Need(t[i]) + Leaves(t[i])
  <2>1. i \in 1..n /\ i + 1 \in 1..n BY <1>2
  <2>2. r[i] = p[i + 1] /\ r[i + 1] = p[(i + 1) + 1] /\ t[i] = s[i + 1]
    BY <1>3, <1>5, <2>1
  <2> QED BY <1>4, <2>1, <2>2
<1>7. p[2] = x - Need(s[1]) + Leaves(s[1]) /\ x \in Nat /\ Need(s[1]) \in 0..x
  BY <1>2, <1>4
<1>8. Counts(t, r, p[2], y) BY <1>2, <1>3, <1>4, <1>5, <1>6 DEF Counts
<1> QED BY <1>3, <1>7, <1>8 DEF Balanced, t

LEMMA ExprNeeds ==
  ASSUME NEW x, NEW f
  PROVE  Need(Expr(x, f)) = 0 /\ Leaves(Expr(x, f)) = 1
BY DEF Need, Leaves, Expr

LEMMA MakeNeeds ==
  ASSUME NEW op, NEW of, NEW f
  PROVE  Need(Make(op, of, f)) = Takes(Make(op, of, f)) /\ Leaves(Make(op, of, f)) = 1
BY DEF Need, Leaves, Make

LEMMA ExprsBalanced ==
  ASSUME NEW xs, IsSeq(xs), NEW f, NEW x \in Nat
  PROVE  Balanced(Exprs(xs, f), x, x + Len(xs))
<1> DEFINE s == Exprs(xs, f)
           n == Len(xs)
           r == [i \in 1..(n + 1) |-> x + (i - 1)]
<1>1. IsSeq(s) /\ Len(s) = n /\ n \in Nat /\ \A i \in 1..n : s[i] = Expr(xs[i], f)
  BY ExprsProperties
<1>2. r \in [1..(n + 1) -> Nat] /\ \A i \in 1..(n + 1) : r[i] = x + (i - 1) BY <1>1
<1>3. \A i \in 1..n : Need(s[i]) = 0 /\ Leaves(s[i]) = 1 BY <1>1, ExprNeeds
<1> HIDE DEF r, s, n
<1>4. \A i \in 1..n : i \in 1..(n + 1) /\ i + 1 \in 1..(n + 1) BY <1>1
<1>5. r[1] = x /\ r[n + 1] = x + n BY <1>1, <1>2
<1>6. Counts(s, r, x, x + n) BY <1>1, <1>2, <1>3, <1>4, <1>5 DEF Counts
<1> QED BY <1>1, <1>6 DEF Balanced, s, n

LEMMA DefinitionsBalanced ==
  ASSUME NEW d, IsDefinitions(d), NEW f
  PROVE  Balanced(DefinitionItems(d, f), 0, Len(d))
<1> DEFINE s == DefinitionItems(d, f)
           S == {s[i] : i \in 1..(2 * Len(d))}
           n == 2 * Len(d)
           r == [i \in 1..(n + 1) |-> i \div 2]
<1>1. IsSeq(d) /\ Len(d) \in Nat BY SequenceLen DEF IsDefinitions
<1>2. s \in [1..n -> S] /\ n \in Nat
  <2>1. s \in [1..n -> S] BY DEF DefinitionItems
  <2> QED BY <1>1, <2>1
<1>3. \A i \in 1..n : s[i] = IF i % 2 = 1 THEN Expr(d[(i + 1) \div 2].x, f)
                             ELSE Make("define", <<d[i \div 2].bnd>>, f)
  BY DEF DefinitionItems
<1> HIDE DEF s, S
<1>4. IsSeq(s) /\ Len(s) = n BY <1>2, IndexedSequence
<1>5. r \in [1..(n + 1) -> Nat] /\ \A i \in 1..(n + 1) : r[i] = i \div 2 BY <1>2
<1>6. r[1] = 0 /\ r[n + 1] = Len(d) BY <1>1, <1>5
<1> HIDE DEF r
<1>7. ASSUME NEW i \in 1..n
      PROVE  Need(s[i]) \in 0..r[i] /\ r[i + 1] = r[i] - Need(s[i]) + Leaves(s[i])
  <2>1. r[i] = i \div 2 /\ r[i + 1] = (i + 1) \div 2 BY <1>2, <1>5
  <2>2. CASE i % 2 = 1
    <3>1. Need(s[i]) = 0 /\ Leaves(s[i]) = 1 BY <1>3, <2>2, ExprNeeds
    <3>2. (i + 1) \div 2 = (i \div 2) + 1 /\ i \div 2 \in Nat BY <1>2, <2>2
    <3> QED BY <2>1, <3>1, <3>2
  <2>3. CASE i % 2 # 1
    <3>1. Need(s[i]) = 1 /\ Leaves(s[i]) = 1
      <4> DEFINE m == Make("define", <<d[i \div 2].bnd>>, f)
      <4>1. Takes(m) = 1 BY DEF Make, Takes
      <4>2. s[i] = m BY <1>3, <2>3
      <4> QED BY <4>1, <4>2, MakeNeeds
    <3>2. (i + 1) \div 2 = i \div 2 /\ i \div 2 \in Nat /\ i \div 2 >= 1 BY <1>2, <2>3
    <3> QED BY <2>1, <3>1, <3>2
  <2> QED BY <2>2, <2>3
<1>8. Counts(s, r, 0, Len(d)) BY <1>4, <1>5, <1>6, <1>7 DEF Counts
<1> QED BY <1>4, <1>8 DEF Balanced, s

LEMMA InitTreeInv ==
  ASSUME Init PROVE TreeInv
<1> DEFINE a == Forms(source)
           b == EndBody
           m == Make("module", <<>>, SystemScope)
           p == [i \in 0..0 |-> 0]
           r == [i \in 1..4 |-> IF i <= 2 THEN 0 ELSE 1]
<1>1. todo = <<a, b, m>> /\ out = <<>> /\ Len(out) = 0 BY DEF Init
<1>2. Need(a) = 0 /\ Leaves(a) = 0 /\ Need(b) = 0 /\ Leaves(b) = 1
  BY DEF Need, Leaves, Forms, EndBody
<1>3. Need(m) = 1 /\ Leaves(m) = 1 /\ m.do = "make" /\ m.op = "module"
  BY DEF Need, Leaves, Make, Takes
<1> HIDE DEF a, b, m
<1>4. IsSeq(todo) /\ Len(todo) = 3 /\ todo[1] = a /\ todo[2] = b /\ todo[3] = m
  BY <1>1, Sequence3
<1>5. Trees(out, p) /\ p[Len(out)] = 0 BY <1>1 DEF Trees
<1>6. r \in [1..4 -> Nat] /\ r[1] = 0 /\ r[2] = 0 /\ r[3] = 1 /\ r[4] = 1 OBVIOUS
<1> HIDE DEF p, r
<1>7. Counts(todo, r, 0, 1) BY <1>2, <1>3, <1>4, <1>6 DEF Counts
<1>8. Balanced(todo, 0, 1) BY <1>4, <1>7 DEF Balanced
<1>9. todo # <<>> BY <1>4, EmptySequence
<1>10. Ends(todo, out) BY <1>3, <1>4, <1>9 DEF Ends
<1> QED BY <1>5, <1>8, <1>10 DEF TreeInv

LEMMA LastStays ==
  ASSUME NEW td, IsSeq(td), td # <<>>, NEW items, IsSeq(items), NEW nodes, NEW nodes2,
         Ends(td, nodes), td[1].do # "make" \/ td[1].op # "module"
  PROVE  Ends(items \o Tail(td), nodes2)
<1>1. Len(td) \in Nat /\ Len(td) > 0 BY SequenceLen
<1>2. /\ IsSeq(items \o Tail(td)) /\ Len(items \o Tail(td)) = Len(items) + (Len(td) - 1)
      /\ Len(items) \in Nat
      /\ \A i \in 2..Len(td) : (items \o Tail(td))[Len(items) + (i - 1)] = td[i]
  BY DoEffect
<1>3. td[Len(td)].do = "make" /\ td[Len(td)].op = "module" BY DEF Ends
<1> DEFINE n == Len(td)
<1>4. n # 1 /\ n \in Nat /\ n > 0 BY <1>1, <1>3
<1>5. n \in 2..n
  <2> HIDE DEF n
  <2> QED BY <1>4
<1>6. (items \o Tail(td))[Len(items \o Tail(td))] = td[n] BY <1>2, <1>5
<1>7. items \o Tail(td) # <<>>
  <2>1. Len(items \o Tail(td)) = Len(items) + (n - 1) /\ Len(items) \in Nat BY <1>2
  <2> HIDE DEF n
  <2>2. Len(items \o Tail(td)) > 0 BY <1>5, <2>1
  <2> QED BY <1>2, <2>2, SequenceLen
<1> QED BY <1>3, <1>6, <1>7 DEF Ends

(* Steps that make no node *)
LEMMA TreeStep ==
  ASSUME IInv, TreeInv, todo # <<>>, item.do # "make", out' = out,
         NEW items, todo' = items \o Tail(todo), Balanced(items, Need(item), Leaves(item))
  PROVE  TreeInv'
<1>1. IsSeq(todo) /\ item = todo[1] BY CurrentItem
<1>2. PICK p : Trees(out, p) /\ Balanced(todo, p[Len(out)], 1) BY DEF TreeInv
<1> DEFINE x == p[Len(out)]
           n == x - Need(item)
<1>3. x \in Nat /\ Need(item) \in 0..x /\ Balanced(Tail(todo), x - Need(item) + Leaves(item), 1)
  BY <1>1, <1>2, RestBalanced
<1>4. n \in Nat /\ Need(item) + n = x /\ Leaves(item) + n = x - Need(item) + Leaves(item)
  BY <1>3 DEF Leaves
<1> HIDE DEF n, x
<1>5. Balanced(items, Need(item) + n, Leaves(item) + n) BY <1>4, MoreBalanced
<1>6. Balanced(items, x, Leaves(item) + n) /\ Balanced(Tail(todo), Leaves(item) + n, 1)
  BY <1>3, <1>4, <1>5
<1>7. Balanced(items \o Tail(todo), x, 1) BY <1>6, BothBalanced
<1>8. Ends(todo, out) /\ IsSeq(items) BY DEF TreeInv, Balanced
<1>9. Ends(items \o Tail(todo), out) BY <1>1, <1>8, LastStays
<1>10. Trees(out', p) /\ Balanced(todo', p[Len(out')], 1) /\ Ends(todo', out')
  BY <1>2, <1>7, <1>9 DEF x
<1> QED BY <1>10 DEF TreeInv

(* Steps that make one *)
LEMMA TreesGrow ==
  ASSUME NEW nodes, IsSeq(nodes), NEW p, Trees(nodes, p), NEW node,
         Takes(node) \in 0..p[Len(nodes)]
  PROVE  \E q : /\ Trees(Append(nodes, node), q)
                /\ q[Len(Append(nodes, node))] = p[Len(nodes)] - Takes(node) + 1
<1> DEFINE n == Len(nodes)
           s == Append(nodes, node)
           y == p[n] - Takes(node) + 1
           q == [i \in 0..(n + 1) |-> IF i = n + 1 THEN y ELSE p[i]]
<1>1. /\ n \in Nat /\ IsSeq(s) /\ Len(s) = n + 1 /\ s[n + 1] = node
      /\ \A i \in 1..n : s[i] = nodes[i] BY SequenceLen, AppendSequence
<1>2. /\ p \in [0..n -> Nat] /\ p[0] = 0
      /\ \A i \in 1..n : Takes(nodes[i]) \in 0..p[i - 1] /\ p[i] = p[i - 1] - Takes(nodes[i]) + 1
  BY DEF Trees
<1> HIDE DEF s
<1>3. y \in Nat BY <1>1, <1>2
<1> HIDE DEF y
<1>4. /\ q \in [0..(n + 1) -> Nat] /\ q[n + 1] = y
      /\ \A i \in 0..n : q[i] = p[i] BY <1>1, <1>2, <1>3
<1> HIDE DEF q
<1>5. ASSUME NEW i \in 1..(n + 1)
      PROVE  Takes(s[i]) \in 0..q[i - 1] /\ q[i] = q[i - 1] - Takes(s[i]) + 1
  <2>1. CASE i = n + 1 BY <1>1, <2>1, <1>4 DEF y
  <2>2. CASE i # n + 1
    <3>1. i \in 1..n /\ i \in 0..n /\ i - 1 \in 0..n BY <1>1, <2>2
    <3> QED BY <1>1, <1>2, <1>4, <3>1
  <2> QED BY <2>1, <2>2
<1>6. Trees(s, q) BY <1>1, <1>2, <1>4, <1>5 DEF Trees
<1> QED BY <1>1, <1>4, <1>6 DEF s, y

LEMMA TreeMakes ==
  ASSUME IInv, TreeInv, todo # <<>>, NEW op, NEW of, Makes(op, of),
         Takes([op |-> op, of |-> of, in |-> item.in]) = Need(item), Leaves(item) = 1,
         item.do # "make" \/ op = item.op
  PROVE  TreeInv'
<1> DEFINE node == [op |-> op, of |-> of, in |-> item.in]
<1>1. IsSeq(todo) /\ item = todo[1] /\ Len(todo) \in Nat /\ Len(todo) > 0
  BY CurrentItem
<1>2. todo' = <<>> \o Tail(todo) /\ out' = Append(out, node) BY DEF Makes, Node, Do
<1>3. node.op = op OBVIOUS
<1>4. Takes(node) = Need(item) OBVIOUS
<1> HIDE DEF node
<1>5. PICK p : Trees(out, p) /\ Balanced(todo, p[Len(out)], 1) BY DEF TreeInv
<1> DEFINE x == p[Len(out)]
<1>6. x \in Nat /\ Need(item) \in 0..x /\ Balanced(Tail(todo), x - Need(item) + Leaves(item), 1)
  BY <1>1, <1>5, RestBalanced
<1>7. IsSeq(out) BY DEF IInv, OutOK
<1>8. PICK q : Trees(out', q) /\ q[Len(out')] = x - Takes(node) + 1
  BY <1>2, <1>4, <1>5, <1>6, <1>7, TreesGrow
<1> HIDE DEF x
<1>9. x - Takes(node) + 1 \in Nat BY <1>4, <1>6
<1>10. Balanced(Tail(todo), q[Len(out')], 1) BY <1>4, <1>6, <1>8
<1>11. Balanced(todo', q[Len(out')], 1)
  BY <1>8, <1>9, <1>2, <1>10, NothingBalanced, BothBalanced
<1>12. Ends(todo', out')
  <2>1. CASE item.do # "make" \/ item.op # "module"
    BY <1>1, <1>2, <2>1, EmptySequence, LastStays DEF TreeInv
  <2>2. CASE item.do = "make" /\ item.op = "module"
    <3>1. /\ Len(out') = Len(out) + 1 /\ out'[Len(out) + 1] = node /\ IsSeq(out')
          /\ Len(out) \in Nat BY <1>2, <1>7, AppendSequence, SequenceLen
    <3>2. out'[Len(out')].op = "module" BY <1>3, <2>2, <3>1
    <3>3. out' # <<>> BY <3>1, SequenceLen
    <3>4. todo' # <<>> => todo'[Len(todo')].do = "make" /\ todo'[Len(todo')].op = "module"
      <4> SUFFICES ASSUME todo' # <<>>
                   PROVE  todo'[Len(todo')].do = "make" /\ todo'[Len(todo')].op = "module"
        OBVIOUS
      <4>1. /\ IsSeq(todo') /\ Len(todo') = Len(<<>>) + (Len(todo) - 1)
            /\ \A i \in 2..Len(todo) : todo'[Len(<<>>) + (i - 1)] = todo[i]
        BY <1>1, <1>2, EmptySequence, DoEffect
      <4>2. Len(<<>>) = 0 /\ Len(todo') > 0 BY <4>1, EmptySequence, SequenceLen
      <4>3. Len(todo) \in 2..Len(todo) /\ 0 + (Len(todo) - 1) = Len(todo')
        BY <1>1, <4>1, <4>2
      <4>4. todo'[Len(todo')] = todo[Len(todo)] BY <4>1, <4>2, <4>3
      <4> QED BY <4>4 DEF TreeInv, Ends
    <3> QED BY <3>2, <3>3, <3>4 DEF Ends
  <2> QED BY <2>1, <2>2
<1> QED BY <1>8, <1>11, <1>12 DEF TreeInv

LEMMA TwoBalanced ==
  ASSUME NEW a, NEW b, NEW x \in Nat, NEW y \in Nat, NEW z \in Nat,
         Need(a) \in 0..x, y = x - Need(a) + Leaves(a),
         Need(b) \in 0..y, z = y - Need(b) + Leaves(b)
  PROVE  Balanced(<<a, b>>, x, z)
<1> DEFINE s == <<a, b>>
           r == [i \in 1..3 |-> IF i = 1 THEN x ELSE IF i = 2 THEN y ELSE z]
<1>1. IsSeq(s) /\ Len(s) = 2 /\ s[1] = a /\ s[2] = b BY Sequence2
<1>2. r \in [1..3 -> Nat] /\ r[1] = x /\ r[2] = y /\ r[3] = z OBVIOUS
<1> HIDE DEF s, r
<1>3. ASSUME NEW i \in 1..2
      PROVE  Need(s[i]) \in 0..r[i] /\ r[i + 1] = r[i] - Need(s[i]) + Leaves(s[i])
  BY <1>1, <1>2
<1>4. Counts(s, r, x, z) BY <1>1, <1>2, <1>3 DEF Counts
<1> QED BY <1>1, <1>4 DEF Balanced, s

LEMMA ItemNeeds ==
  ASSUME IInv, TreeInv, todo # <<>>
  PROVE  Need(item) \in Nat
BY CurrentItem, RestBalanced DEF TreeInv

LEMMA OneForOne ==
  ASSUME IInv, TreeInv, todo # <<>>, item.do # "make", out' = out,
         NEW a, todo' = <<a>> \o Tail(todo), Need(a) = Need(item), Leaves(a) = Leaves(item)
  PROVE  TreeInv'
<1> DEFINE x == Need(item)
<1>1. x \in Nat BY ItemNeeds
<1>2. Need(a) \in 0..x /\ x - Need(a) + Leaves(a) = Leaves(item) BY <1>1 DEF Leaves
<1> HIDE DEF x
<1>3. Balanced(<<a>>, x, x - Need(a) + Leaves(a)) BY <1>1, <1>2, OneBalanced
<1>4. Balanced(<<a>>, Need(item), Leaves(item)) BY <1>2, <1>3 DEF x
<1> QED BY <1>4, TreeStep

LEMMA NoneForNone ==
  ASSUME IInv, TreeInv, todo # <<>>, item.do \in {"pop", "forms", "form"}, out' = out,
         todo' = <<>> \o Tail(todo)
  PROVE  TreeInv'
BY NothingBalanced, TreeStep DEF Need, Leaves

LEMMA ExprItemNeeds ==
  ASSUME Current("expr")
  PROVE  todo # <<>> /\ item.do # "make" /\ Need(item) = 0 /\ Leaves(item) = 1
BY DEF Current, Need, Leaves

LEMMA FailsTreeInv ==
  ASSUME IInv, TreeInv, Current("expr"), Fails
  PROVE  TreeInv'
BY ExprItemNeeds, TreeMakes DEF Takes, Fails

-----------------------------------------------------------------------------
(* The steps, again *)
LEMMA PopScopeTree == IInv /\ TreeInv /\ PopScope => TreeInv'
BY NoneForNone DEF PopScope, Current, Do

LEMMA MakeNodeTree ==
  ASSUME IInv, TreeInv, MakeNode PROVE TreeInv'
<1>1. todo # <<>> /\ item.do = "make" /\ Makes(item.op, item.of)
  BY DEF MakeNode, Current
<1>2. Need(item) = Takes(item) /\ Leaves(item) = 1 BY <1>1 DEF Need, Leaves
<1>3. Takes([op |-> item.op, of |-> item.of, in |-> item.in]) = Takes(item) BY DEF Takes
<1> QED BY <1>1, <1>2, <1>3, TreeMakes

LEMMA ParseBodyTree ==
  ASSUME IInv, TreeInv, ParseBody PROVE TreeInv'
<1> DEFINE a == Form(car(item.x))
           b == Forms(cdr(item.x))
<1>1. /\ todo # <<>> /\ item.do = "forms" /\ out' = out
      /\ todo' = (IF IsPair(item.x) THEN <<a, b>> ELSE <<>>) \o Tail(todo)
  BY DEF ParseBody, Do, Current
<1>2. CASE IsPair(item.x)
  <2>1. Need(a) = 0 /\ Leaves(a) = 0 /\ Need(b) = 0 /\ Leaves(b) = 0
    BY DEF Need, Leaves, Form, Forms
  <2>2. Need(item) = 0 /\ Leaves(item) = 0 /\ item.do # "make" BY <1>1 DEF Need, Leaves
  <2>3. todo' = <<a, b>> \o Tail(todo) BY <1>1, <1>2
  <2> HIDE DEF a, b
  <2>4. Balanced(<<a, b>>, 0, 0) BY <2>1, TwoBalanced
  <2>5. Balanced(<<a, b>>, Need(item), Leaves(item)) BY <2>2, <2>4
  <2> QED BY <1>1, <2>2, <2>3, <2>5, TreeStep
<1>3. CASE ~IsPair(item.x) BY <1>1, <1>3, NoneForNone
<1> QED BY <1>2, <1>3

LEMMA FormTree ==
  ASSUME IInv, TreeInv, Current("form"), out' = out,
         \/ todo' = <<>> \o Tail(todo)
         \/ \E a : a.do \in {"forms", "form"} /\ todo' = <<a>> \o Tail(todo)
  PROVE  TreeInv'
BY NoneForNone, OneForOne DEF Current, Need, Leaves

LEMMA FormsTree ==
  IInv /\ TreeInv /\ (FormEmpty \/ FormMacro \/ FormBegin \/ FormDefine \/ FormExpression)
    => TreeInv'
<1> SUFFICES ASSUME IInv, TreeInv,
                    FormEmpty \/ FormMacro \/ FormBegin \/ FormDefine \/ FormExpression
             PROVE  TreeInv' OBVIOUS
<1>1. Current("form") /\ out' = out
  BY DEF FormEmpty, FormMacro, FormUse, FormBegin, FormDefine, FormExpression
<1>2. \/ todo' = <<>> \o Tail(todo)
      \/ \E a : a.do \in {"forms", "form"} /\ todo' = <<a>> \o Tail(todo)
  <2>1. CASE FormEmpty \/ FormDefine \/ FormExpression
    BY <2>1 DEF FormEmpty, FormDefine, FormExpression, Do
  <2>2. CASE FormMacro
    <3> DEFINE a == Form(Expanded(item.x))
    <3>1. todo' = <<a>> \o Tail(todo) \/ todo' = <<>> \o Tail(todo)
      BY <2>2 DEF FormMacro, FormUse, Do
    <3>2. a.do \in {"forms", "form"} BY DEF Form
    <3> HIDE DEF a
    <3>3. CASE todo' = <<a>> \o Tail(todo)
      <4>1. \E b : b.do \in {"forms", "form"} /\ todo' = <<b>> \o Tail(todo)
        BY <3>2, <3>3
      <4> QED BY <4>1
    <3>4. CASE todo' = <<>> \o Tail(todo) BY <3>4
    <3> QED BY <3>1, <3>3, <3>4
  <2>3. CASE FormBegin
    <3> DEFINE a == Forms(cdr(item.x))
    <3>1. todo' = <<a>> \o Tail(todo) BY <2>3 DEF FormBegin, Do
    <3>2. a.do \in {"forms", "form"} BY DEF Forms
    <3> HIDE DEF a
    <3>3. \E b : b.do \in {"forms", "form"} /\ todo' = <<b>> \o Tail(todo) BY <3>1, <3>2
    <3> QED BY <3>3
  <2> QED BY <2>1, <2>2, <2>3
<1> QED BY <1>1, <1>2, FormTree

LEMMA CompileBodyTree ==
  ASSUME IInv, TreeInv, CompileBody PROVE TreeInv'
<1> DEFINE d == ctx.defns
           f == ctx.scope
           defns == DefinitionItems(d, f)
           exprs == Exprs(ctx.exprs, f)
           m == Make("body", <<Len(d), Len(exprs)>>, f)
           items == defns \o exprs \o <<m>>
           x == Len(d) + Len(ctx.exprs)
<1>1. todo # <<>> /\ item.do = "endBody" /\ out' = out BY DEF CompileBody, Current
<1>2. todo' = items \o Tail(todo) BY DEF CompileBody, DefinitionItems, Exprs, Do
<1>3. IsDefinitions(d) /\ IsSeq(ctx.exprs)
  BY DEF IInv, CtxOK, IsDefinitions, IsSyntaxSequence
<1>4. Len(d) \in Nat /\ Len(ctx.exprs) \in Nat /\ Len(exprs) = Len(ctx.exprs)
  BY <1>3, ExprsProperties, SequenceLen DEF IsDefinitions
<1>5. Balanced(defns, 0, Len(d)) BY <1>3, DefinitionsBalanced
<1>6. Balanced(exprs, Len(d), x) BY <1>3, <1>4, ExprsBalanced
<1>7. Need(m) = x /\ Leaves(m) = 1
  <2> DEFINE k == Len(d)
             l == Len(exprs)
             m2 == Make("body", <<k, l>>, f)
  <2>1. m = m2 /\ x = k + l BY <1>4
  <2> HIDE DEF k, l
  <2>2. Takes(m2) = k + l BY DEF Takes, Make
  <2>3. Need(m2) = Takes(m2) /\ Leaves(m2) = 1 BY MakeNeeds
  <2> QED BY <2>1, <2>2, <2>3
<1>8. x \in Nat
  <2> DEFINE k == Len(d)
             l == Len(ctx.exprs)
  <2>1. k \in Nat /\ l \in Nat BY <1>4
  <2> HIDE DEF k, l
  <2>2. k + l \in Nat BY <2>1
  <2> QED BY <2>2 DEF k, l
<1> HIDE DEF defns, exprs, m, x
<1>9. Balanced(<<m>>, x, 1) BY <1>7, <1>8, OneBalanced
<1>10. Balanced(defns \o exprs, 0, x) BY <1>5, <1>6, BothBalanced
<1>11. Balanced(items, 0, 1) BY <1>9, <1>10, BothBalanced
<1>12. Need(item) = 0 /\ Leaves(item) = 1 /\ item.do # "make" BY <1>1 DEF Need, Leaves
<1> HIDE DEF items
<1> QED BY <1>1, <1>2, <1>11, <1>12, TreeStep

LEMMA ExprMakesTree ==
  ASSUME IInv, TreeInv, Current("expr"), NEW op \in {"datum", "unspecified", "ref"}, NEW of,
         Makes(op, of)
  PROVE  TreeInv'
<1> DEFINE node == [op |-> op, of |-> of, in |-> item.in]
<1>1. Takes(node) = 0 BY DEF Takes
<1>2. todo # <<>> /\ item.do # "make" /\ Need(item) = 0 /\ Leaves(item) = 1
  BY ExprItemNeeds
<1>3. Takes([op |-> op, of |-> of, in |-> item.in]) = Need(item) BY <1>1, <1>2
<1> HIDE DEF node
<1> QED BY <1>2, <1>3, TreeMakes

LEMMA CompileValueTree == IInv /\ TreeInv /\ CompileValue => TreeInv'
BY ExprMakesTree DEF CompileValue

LEMMA CompileVariableTree ==
  ASSUME IInv, TreeInv, CompileVariable PROVE TreeInv'
<1> DEFINE b == isBinding(item.x)
<1>1. Current("expr") /\ (Makes("ref", <<b>>) \/ Makes("unspecified", <<>>))
  BY DEF CompileVariable
<1> HIDE DEF b
<1> QED BY <1>1, ExprMakesTree

LEMMA CompileInvalidTree == IInv /\ TreeInv /\ CompileInvalid => TreeInv'
BY FailsTreeInv DEF CompileInvalid

LEMMA CompileMacroTree ==
  ASSUME IInv, TreeInv, CompileMacro PROVE TreeInv'
<1>1. Current("expr") BY DEF CompileMacro, ExpressionUse
<1>2. CASE OrPattern(item.x)
  <2> DEFINE a == Expr(Expanded(item.x), item.in)
  <2>1. todo' = <<a>> \o Tail(todo) /\ out' = out
    BY <1>2 DEF CompileMacro, ExpressionUse, Do
  <2>2. Need(a) = 0 /\ Leaves(a) = 1 BY ExprNeeds
  <2> HIDE DEF a
  <2> QED BY <1>1, <2>1, <2>2, ExprItemNeeds, OneForOne
<1>3. CASE ~OrPattern(item.x)
  BY <1>1, <1>3, FailsTreeInv DEF CompileMacro, ExpressionUse
<1> QED BY <1>2, <1>3

LEMMA CompileCallTree ==
  ASSUME IInv, TreeInv, CompileCall PROVE TreeInv'
<1> DEFINE a == Expr(car(item.x), item.in)
           b == Args(cdr(item.x), "apply", 0, item.in)
<1>1. Current("expr") /\ todo' = <<a, b>> \o Tail(todo) /\ out' = out
  BY DEF CompileCall, Do
<1>2. Need(a) = 0 /\ Leaves(a) = 1 BY ExprNeeds
<1>3. Need(b) = 1 /\ Leaves(b) = 1 BY DEF Need, Leaves, Args
<1> HIDE DEF a, b
<1>4. Balanced(<<a, b>>, 0, 1) BY <1>2, <1>3, TwoBalanced
<1>5. Balanced(<<a, b>>, Need(item), Leaves(item)) BY <1>1, <1>4, ExprItemNeeds
<1> QED BY <1>1, <1>5, ExprItemNeeds, TreeStep

LEMMA CompileArgsTree ==
  ASSUME IInv, TreeInv, CompileArgs PROVE TreeInv'
<1>1. todo # <<>> /\ item.do = "args" BY DEF CompileArgs, Current
<1>2. item.op \in {"apply", "begin"} /\ item.n \in Nat BY <1>1, CurrentItem DEF IsItem
<1> DEFINE k == IF item.op = "apply" THEN item.n + 1 ELSE item.n
<1>3. Need(item) = k /\ Leaves(item) = 1 /\ k \in Nat /\ item.do # "make"
  BY <1>1, <1>2 DEF Need, Leaves
<1>4. CASE IsPair(item.x)
  <2> DEFINE a == Expr(car(item.x), item.in)
             b == Args(cdr(item.x), item.op, item.n + 1, item.in)
  <2>1. todo' = <<a, b>> \o Tail(todo) /\ out' = out BY <1>4 DEF CompileArgs, Do
  <2>2. Need(a) = 0 /\ Leaves(a) = 1 BY ExprNeeds
  <2>3. b.do = "args" /\ b.op = item.op /\ b.n = item.n + 1 BY DEF Args
  <2> HIDE DEF a, b
  <2>4. Need(b) = k + 1 /\ Leaves(b) = 1 BY <1>2, <2>3 DEF Need, Leaves
  <2> HIDE DEF k
  <2>5. k + 1 \in Nat /\ 0 \in 0..k /\ k + 1 = k - 0 + 1
        /\ k + 1 \in 0..(k + 1) /\ 1 = (k + 1) - (k + 1) + 1 BY <1>3
  <2>6. Balanced(<<a, b>>, k, 1) BY <1>3, <2>2, <2>4, <2>5, TwoBalanced
  <2> QED BY <1>1, <1>3, <2>1, <2>6, TreeStep
<1>5. CASE ~IsPair(item.x)
  <2> DEFINE node == [op |-> item.op, of |-> <<item.n>>, in |-> item.in]
  <2>1. Makes(item.op, <<item.n>>) BY <1>5 DEF CompileArgs
  <2>2. node.op = item.op /\ node.of[1] = item.n BY Sequence1
  <2>3. Takes(node) = Need(item)
    <3> HIDE DEF node
    <3> QED BY <1>2, <1>3, <2>2 DEF Takes
  <2> HIDE DEF k
  <2> QED BY <1>1, <1>3, <2>1, <2>3, TreeMakes
<1> QED BY <1>4, <1>5

(* Expressions, and one item for them all *)
LEMMA ExprsThenBalanced ==
  ASSUME NEW xs, IsSeq(xs), NEW f, NEW last, Need(last) = Len(xs), Leaves(last) = 1
  PROVE  Balanced(Exprs(xs, f) \o <<last>>, 0, 1)
<1> DEFINE n == Len(xs)
<1>1. n \in Nat BY SequenceLen
<1>2. Balanced(Exprs(xs, f), 0, n)
  <2>1. Balanced(Exprs(xs, f), 0, 0 + n) BY ExprsBalanced
  <2> HIDE DEF n
  <2> QED BY <1>1, <2>1
<1>3. Need(last) = n OBVIOUS
<1> HIDE DEF n
<1>4. Need(last) \in 0..n /\ n - Need(last) + Leaves(last) = 1 BY <1>1, <1>3
<1>5. Balanced(<<last>>, n, n - Need(last) + Leaves(last)) BY <1>1, <1>4, OneBalanced
<1>6. Balanced(<<last>>, n, 1) BY <1>4, <1>5
<1> QED BY <1>2, <1>6, BothBalanced

LEMMA CompileBeginTree ==
  ASSUME IInv, TreeInv, CompileBegin PROVE TreeInv'
<1> DEFINE a == Args(cdr(item.x), "begin", 0, item.in)
           xs == item.x.exprs
           last == Make("begin", <<Len(xs)>>, item.in)
           items == Exprs(xs, item.in) \o <<last>>
<1>1. /\ Current("expr") /\ out' = out
      /\ \/ IsPair(item.x) /\ todo' = <<a>> \o Tail(todo)
         \/ item.x.k = "begin" /\ todo' = items \o Tail(todo)
  BY DEF CompileBegin, Do, Heads, Exprs
<1>2. todo # <<>> /\ item.do # "make" /\ Need(item) = 0 /\ Leaves(item) = 1
  BY <1>1, ExprItemNeeds
<1>3. CASE IsPair(item.x) /\ todo' = <<a>> \o Tail(todo)
  <2>1. Need(a) = 0 /\ Leaves(a) = 1 BY DEF Need, Leaves, Args
  <2> HIDE DEF a
  <2> QED BY <1>1, <1>2, <1>3, <2>1, OneForOne
<1>4. CASE item.x.k = "begin" /\ todo' = items \o Tail(todo)
  <2>1. IsSeq(xs)
    BY <1>1, <1>4, ExpressionItem, PartsAreSyntax DEF Value, Nil, BindingOf
  <2> HIDE DEF xs
  <2>2. last.do = "make" /\ last.op = "begin" /\ last.of[1] = Len(xs)
    BY Sequence1 DEF Make
  <2> HIDE DEF last
  <2>3. Need(last) = Len(xs) /\ Leaves(last) = 1 BY <2>2 DEF Need, Leaves, Takes
  <2>4. Balanced(items, 0, 1) BY <2>1, <2>3, ExprsThenBalanced
  <2> HIDE DEF items
  <2>5. Balanced(items, Need(item), Leaves(item)) BY <1>2, <2>4
  <2> QED BY <1>1, <1>2, <1>4, <2>5, TreeStep
<1> QED BY <1>1, <1>3, <1>4

LEMMA CompileIfTree ==
  ASSUME IInv, TreeInv, CompileIf PROVE TreeInv'
<1> DEFINE form == cdr(item.x)
           parts == IfParts(form)
           last == Make("if", <<Len(parts)>>, item.in)
<1>1. Current("expr") /\ Heads(item.x, RES_IF) BY DEF CompileIf
<1>2. CASE ~TwoAndRest(form) BY <1>2, <1>1, FailsTreeInv DEF CompileIf
<1>3. CASE TwoAndRest(form)
  <2>1. todo' = (Exprs(parts, item.in) \o <<last>>) \o Tail(todo) /\ out' = out
    BY <1>3 DEF CompileIf, IfParts, Exprs, Do
  <2>2. IsSyntax(form) BY <1>1, ExpressionItem, CarCdrSyntax DEF Heads
  <2>3. IsSeq(parts) BY <1>3, <2>2, IfPartsProperties DEF IsSyntaxSequence
  <2> HIDE DEF parts
  <2>4. last.do = "make" /\ last.op = "if" /\ last.of[1] = Len(parts)
    BY Sequence1 DEF Make
  <2> HIDE DEF last
  <2>5. Need(last) = Len(parts) /\ Leaves(last) = 1 BY <2>4 DEF Need, Leaves, Takes
  <2>6. Balanced(Exprs(parts, item.in) \o <<last>>, 0, 1)
    BY <2>3, <2>5, ExprsThenBalanced
  <2>7. todo # <<>> /\ item.do # "make" /\ Need(item) = 0 /\ Leaves(item) = 1
    BY <1>1, ExprItemNeeds
  <2> DEFINE items == Exprs(parts, item.in) \o <<last>>
  <2>8. Balanced(items, Need(item), Leaves(item)) /\ todo' = items \o Tail(todo)
    BY <2>1, <2>6, <2>7
  <2> HIDE DEF items
  <2> QED BY <2>1, <2>7, <2>8, TreeStep
<1> QED BY <1>2, <1>3

LEMMA CompileSetBangTree ==
  ASSUME IInv, TreeInv, CompileSetBang PROVE TreeInv'
<1> DEFINE form == cdr(item.x)
           b == isBinding(car(form))
<1>1. Current("expr") BY DEF CompileSetBang
<1>2. CASE ~(Two(form) /\ IsVariable(b)) BY <1>2, <1>1, FailsTreeInv DEF CompileSetBang
<1>3. CASE Two(form) /\ IsVariable(b)
  <2> DEFINE e == Expr(car(cdr(form)), item.in)
             m == Make("set", <<b>>, item.in)
  <2>1. todo' = <<e, m>> \o Tail(todo) /\ out' = out BY <1>3 DEF CompileSetBang, Do
  <2>2. Need(e) = 0 /\ Leaves(e) = 1 BY ExprNeeds
  <2>3. Need(m) = 1 /\ Leaves(m) = 1 BY DEF Need, Leaves, Make, Takes
  <2> HIDE DEF e, m
  <2>4. Balanced(<<e, m>>, 0, 1) BY <2>2, <2>3, TwoBalanced
  <2>5. Balanced(<<e, m>>, Need(item), Leaves(item)) BY <1>1, <2>4, ExprItemNeeds
  <2> QED BY <1>1, <2>1, <2>5, ExprItemNeeds, TreeStep
<1> QED BY <1>2, <1>3

LEMMA CompileLambdaTree ==
  ASSUME IInv, TreeInv, CompileLambda PROVE TreeInv'
<1> DEFINE form == cdr(item.x)
           a == Params(car(form), cdr(form), nextScope)
<1>1. Current("expr") BY DEF CompileLambda
<1>2. CASE OneAndRest(form)
  <2>1. todo' = <<a>> \o Tail(todo) /\ out' = out BY <1>2 DEF CompileLambda, Do
  <2>2. Need(a) = 0 /\ Leaves(a) = 1 BY DEF Need, Leaves, Params
  <2> HIDE DEF a
  <2> QED BY <1>1, <2>1, <2>2, ExprItemNeeds, OneForOne
<1>3. CASE ~OneAndRest(form) BY <1>1, <1>3, FailsTreeInv DEF CompileLambda
<1> QED BY <1>2, <1>3

LEMMA CompileLetTree ==
  ASSUME IInv, TreeInv, CompileLet PROVE TreeInv'
<1> DEFINE form == cdr(item.x)
           a == Inits(car(form), cdr(form), item.in)
<1>1. Current("expr") BY DEF CompileLet
<1>2. CASE OneAndRest(form) /\ IsList(car(form))
  <2>1. todo' = <<a>> \o Tail(todo) /\ out' = out BY <1>2 DEF CompileLet, Do
  <2>2. Need(a) = 0 /\ Leaves(a) = 1 BY DEF Need, Leaves, Inits
  <2> HIDE DEF a
  <2> QED BY <1>1, <2>1, <2>2, ExprItemNeeds, OneForOne
<1>3. CASE ~(OneAndRest(form) /\ IsList(car(form)))
  BY <1>1, <1>3, FailsTreeInv DEF CompileLet
<1> QED BY <1>2, <1>3

(* lambda *)
LEMMA ParamsNeeds ==
  ASSUME Current("params")
  PROVE  todo # <<>> /\ item.do # "make" /\ Need(item) = 0 /\ Leaves(item) = 1
BY DEF Current, Need, Leaves

LEMMA LambdaParamTree ==
  ASSUME IInv, TreeInv, LambdaParam PROVE TreeInv'
<1> DEFINE y == cdr(item.x)
           vs == item.vars \o AddedParam(car(item.x))
           a == [item EXCEPT !.x = y, !.first = FALSE, !.vars = vs]
<1>1. Current("params") /\ todo' = <<a>> \o Tail(todo) /\ out' = out
  BY DEF LambdaParam, Do
<1>2. item \in [do : {"params"}, x : {item.x}, body : {item.body}, vars : {item.vars},
                first : {item.first}, scope : {item.scope}] BY <1>1, ParamsItem
<1> HIDE DEF y, vs
<1>3. a.do = "params" BY <1>2
<1> HIDE DEF a
<1>4. Need(a) = 0 /\ Leaves(a) = 1 BY <1>3 DEF Need, Leaves
<1> QED BY <1>1, <1>4, ParamsNeeds, OneForOne

LEMMA LambdaListParamTree ==
  ASSUME IInv, TreeInv, LambdaListParam PROVE TreeInv'
<1> DEFINE a == Body(item.body, "lambda list", item.vars \o AddedParam(item.x), item.scope)
<1>1. Current("params") /\ todo' = <<a>> \o Tail(todo) /\ out' = out
  BY DEF LambdaListParam, Do
<1>2. a.do = "body" /\ a.op = "lambda list" BY DEF Body
<1> HIDE DEF a
<1>3. Takes(a) = 1 BY <1>2 DEF Takes
<1>4. Need(a) = Takes(a) - 1 /\ Leaves(a) = 1 BY <1>2 DEF Need, Leaves
<1>5. Need(a) = 0 /\ Leaves(a) = 1 BY <1>3, <1>4
<1> QED BY <1>1, <1>5, ParamsNeeds, OneForOne

LEMMA LambdaParamsEndTree ==
  ASSUME IInv, TreeInv, LambdaParamsEnd PROVE TreeInv'
<1>1. Current("params") /\ out' = out BY DEF LambdaParamsEnd
<1>2. CASE item.first
  <2> DEFINE m == Make("unspecified", <<>>, frames[item.scope])
             p == Pop(item.scope)
  <2>1. todo' = <<m, p>> \o Tail(todo) BY <1>2 DEF LambdaParamsEnd, Do
  <2>2. Need(m) = 0 /\ Leaves(m) = 1 BY DEF Need, Leaves, Make, Takes
  <2>3. Need(p) = 0 /\ Leaves(p) = 0 BY DEF Need, Leaves, Pop
  <2> HIDE DEF m, p
  <2>4. Balanced(<<m, p>>, 0, 1) BY <2>2, <2>3, TwoBalanced
  <2>5. Balanced(<<m, p>>, Need(item), Leaves(item)) BY <1>1, <2>4, ParamsNeeds
  <2> QED BY <1>1, <2>1, <2>5, ParamsNeeds, TreeStep
<1>3. CASE ~item.first
  <2> DEFINE a == Body(item.body, "lambda", item.vars, item.scope)
  <2>1. todo' = <<a>> \o Tail(todo) BY <1>3 DEF LambdaParamsEnd, Do
  <2>2. a.do = "body" /\ a.op = "lambda" BY DEF Body
  <2> HIDE DEF a
  <2>3. Takes(a) = 1 BY <2>2 DEF Takes
  <2>4. Need(a) = 0 /\ Leaves(a) = 1 BY <2>2, <2>3 DEF Need, Leaves
  <2> QED BY <1>1, <2>1, <2>4, ParamsNeeds, OneForOne
<1> QED BY <1>2, <1>3

LEMMA BodyItemsBalanced ==
  ASSUME NEW y, NEW x \in Nat
  PROVE  Balanced(BodyItems(y), x, x + 1)
<1>1. CASE IsNil(y)
  <2> DEFINE m == Make("body", <<0, 0>>, nextScope)
  <2>1. m.do = "make" /\ m.op = "body" /\ m.of[1] = 0 /\ m.of[2] = 0
    BY Sequence2 DEF Make
  <2>2. BodyItems(y) = <<m>> BY <1>1 DEF BodyItems
  <2> HIDE DEF m
  <2>3. Need(m) = 0 /\ Leaves(m) = 1 BY <2>1 DEF Need, Leaves, Takes
  <2>4. Need(m) \in 0..x /\ x - Need(m) + Leaves(m) = x + 1 BY <2>3
  <2>5. Balanced(<<m>>, x, x - Need(m) + Leaves(m)) BY <2>4, OneBalanced
  <2> QED BY <2>2, <2>4, <2>5
<1>2. CASE ~IsNil(y)
  <2> DEFINE a == Forms(y)
             b == EndBody
  <2>1. BodyItems(y) = <<a, b>> BY <1>2 DEF BodyItems
  <2>2. Need(a) = 0 /\ Leaves(a) = 0 /\ Need(b) = 0 /\ Leaves(b) = 1
    BY DEF Need, Leaves, Forms, EndBody
  <2> HIDE DEF a, b
  <2>3. x + 1 \in Nat /\ 0 \in 0..x /\ x = x - 0 + 0 /\ x + 1 = x - 0 + 1 OBVIOUS
  <2> QED BY <2>1, <2>2, <2>3, TwoBalanced
<1> QED BY <1>1, <1>2

LEMMA CompileLambdaBodyTree ==
  ASSUME IInv, TreeInv, CompileLambdaBody PROVE TreeInv'
<1> DEFINE m == Make(item.op, item.of, item.in)
           p == Pop(nextScope)
           q == Pop(item.in)
           first == BodyItems(item.x)
           last == <<m, p, q>>
           x == Takes(item) - 1
           r == [i \in 1..4 |-> IF i = 1 THEN x + 1 ELSE 1]
<1>1. todo # <<>> /\ item.do = "body" /\ out' = out BY DEF CompileLambdaBody, Current
<1>2. todo' = (first \o last) \o Tail(todo) BY DEF CompileLambdaBody, BodyItems, Do
<1>3. Takes(item) \in Nat \ {0} BY <1>1, CurrentItem DEF IsItem
<1>4. x \in Nat /\ Takes(item) = x + 1 BY <1>3
<1>5. Need(m) = x + 1 /\ Leaves(m) = 1
  <2>1. m.op = item.op /\ m.of = item.of BY DEF Make
  <2>2. Takes(m) = Takes(item)
    <3> HIDE DEF m
    <3> QED BY <2>1 DEF Takes
  <2> QED BY <1>4, <2>2, MakeNeeds
<1>6. Need(p) = 0 /\ Leaves(p) = 0 /\ Need(q) = 0 /\ Leaves(q) = 0
  BY DEF Need, Leaves, Pop
<1>7. Need(item) = x /\ Leaves(item) = 1 /\ item.do # "make" BY <1>1 DEF Need, Leaves
<1> HIDE DEF m, p, q, x
<1>8. /\ IsSeq(last) /\ Len(last) = 3
      /\ last[1] = m /\ last[2] = p /\ last[3] = q BY Sequence3
<1>9. r \in [1..4 -> Nat] /\ r[1] = x + 1 /\ r[2] = 1 /\ r[3] = 1 /\ r[4] = 1 BY <1>4
<1> HIDE DEF r, last
<1>10. Balanced(last, x + 1, 1) BY <1>4, <1>5, <1>8, <1>9, <1>6 DEF Counts, Balanced
<1>11. Balanced(first, x, x + 1) BY <1>4, BodyItemsBalanced
<1> HIDE DEF first
<1>12. Balanced(first \o last, Need(item), Leaves(item))
  BY <1>10, <1>11, <1>7, BothBalanced
<1> QED BY <1>1, <1>2, <1>7, <1>12, TreeStep

(* let *)
LEMMA LetInitTree ==
  ASSUME IInv, TreeInv, LetInit PROVE TreeInv'
<1> DEFINE rest == cdr(item.x)
           ns == Append(item.names, car(car(item.x)))
           xs == Append(item.values, car(cdr(car(item.x))))
           a == IF Two(car(item.x))
                THEN [item EXCEPT !.x = rest, !.names = ns, !.values = xs]
                ELSE [item EXCEPT !.x = rest]
<1>1. Current("inits") /\ todo' = <<a>> \o Tail(todo) /\ out' = out BY DEF LetInit, Do
<1>2. todo # <<>> /\ item.do = "inits" BY <1>1 DEF Current
<1>3. item \in [do : {"inits"}, x : {item.x}, body : {item.body}, names : {item.names},
                values : {item.values}, in : {item.in}] BY <1>1, InitsItem
<1> HIDE DEF rest, ns, xs
<1>4. a.do = "inits" BY <1>3
<1> HIDE DEF a
<1>5. Need(a) = Need(item) /\ Leaves(a) = Leaves(item) /\ item.do # "make"
  BY <1>2, <1>4 DEF Need, Leaves
<1> QED BY <1>1, <1>2, <1>5, OneForOne

LEMMA LetValuesTree ==
  ASSUME IInv, TreeInv, LetValues PROVE TreeInv'
<1> DEFINE last == LetScope(item)
           items == Exprs(item.values, item.in) \o <<last>>
<1>1. Current("inits") /\ out' = out /\ todo' = items \o Tail(todo)
  BY DEF LetValues, Do, Exprs
<1>2. todo # <<>> /\ item.do = "inits" /\ IsSeq(item.values)
  BY <1>1, InitsItem DEF Current, IsSyntaxSequence
<1>3. last.do = "letScope" /\ last.n = Len(item.values) BY DEF LetScope
<1> HIDE DEF last
<1>4. Need(last) = Len(item.values) /\ Leaves(last) = 1 BY <1>3 DEF Need, Leaves
<1>5. Balanced(items, 0, 1) BY <1>2, <1>4, ExprsThenBalanced
<1> HIDE DEF items
<1>6. Need(item) = 0 /\ Leaves(item) = 1 /\ item.do # "make" BY <1>2 DEF Need, Leaves
<1>7. Balanced(items, Need(item), Leaves(item)) BY <1>5, <1>6
<1> QED BY <1>1, <1>2, <1>6, <1>7, TreeStep

LEMMA EnterLetTree ==
  ASSUME IInv, TreeInv, EnterLet PROVE TreeInv'
<1> DEFINE a == LetVars(item, nextScope)
<1>1. todo # <<>> /\ item.do = "letScope" /\ out' = out /\ todo' = <<a>> \o Tail(todo)
  BY DEF EnterLet, Current, Do
<1>2. a.do = "letVars" /\ a.n = item.n BY DEF LetVars
<1> HIDE DEF a
<1>3. Need(a) = Need(item) /\ Leaves(a) = Leaves(item) /\ item.do # "make"
  BY <1>1, <1>2 DEF Need, Leaves
<1> QED BY <1>1, <1>3, OneForOne

LEMMA LetVarTree ==
  ASSUME IInv, TreeInv, LetVar PROVE TreeInv'
<1> DEFINE ns == Tail(item.names)
           vs == item.vars \o AddedParam(Head(item.names))
           a == [item EXCEPT !.names = ns, !.vars = vs]
<1>1. Current("letVars") /\ out' = out /\ todo' = <<a>> \o Tail(todo) BY DEF LetVar, Do
<1>2. /\ todo # <<>> /\ item.do = "letVars"
      /\ item \in [do : {"letVars"}, body : {item.body}, names : {item.names}, n : {item.n},
                   vars : {item.vars}, scope : {item.scope}] BY <1>1, LetVarsItem
<1> HIDE DEF ns, vs
<1>3. a.do = "letVars" /\ a.n = item.n BY <1>2
<1> HIDE DEF a
<1>4. Need(a) = Need(item) /\ Leaves(a) = Leaves(item) /\ item.do # "make"
  BY <1>2, <1>3 DEF Need, Leaves
<1> QED BY <1>1, <1>2, <1>4, OneForOne

LEMMA LetBodyTree ==
  ASSUME IInv, TreeInv, LetBody PROVE TreeInv'
<1> DEFINE s == item.vars
           t == <<item.n>>
           of == s \o t
           a == Body(item.body, "let", of, item.scope)
<1>1. Current("letVars") /\ out' = out /\ todo' = <<a>> \o Tail(todo) BY DEF LetBody, Do
<1>2. todo # <<>> /\ item.do = "letVars" /\ item.n \in Nat /\ IsSeq(s)
  BY <1>1, LetVarsItem
<1>3. IsSeq(t) /\ Len(t) = 1 /\ t[1] = item.n BY Sequence1
<1> HIDE DEF s, t
<1>4. of[Len(of)] = item.n
  <2>1. /\ Len(of) = Len(s) + Len(t) /\ Len(s) \in Nat
        /\ \A i \in 1..Len(t) : of[Len(s) + i] = t[i]
    <3>1. IsSeq(s) /\ IsSeq(t) BY <1>2, <1>3
    <3> QED BY <3>1, ConcatSequence, SequenceLen
  <2> HIDE DEF of
  <2> QED BY <1>3, <2>1
<1> HIDE DEF of
<1>5. a.do = "body" /\ a.op = "let" /\ a.of = of BY DEF Body
<1> HIDE DEF a
<1>6. Takes(a) = item.n + 1 BY <1>4, <1>5 DEF Takes
<1>7. Need(a) = Need(item) /\ Leaves(a) = Leaves(item) /\ item.do # "make"
  BY <1>2, <1>5, <1>6 DEF Need, Leaves
<1> QED BY <1>1, <1>2, <1>7, OneForOne

LEMMA StutteringTree == IInv /\ TreeInv /\ UNCHANGED vars => TreeInv'
BY DEF TreeInv, vars

LEMMA NextTreeInv == IInv /\ TreeInv /\ [Next]_vars => TreeInv'
BY PopScopeTree, MakeNodeTree, ParseBodyTree, FormsTree, CompileBodyTree, CompileValueTree,
   CompileVariableTree, CompileMacroTree, CompileCallTree, CompileBeginTree, CompileArgsTree,
   CompileIfTree, CompileSetBangTree, CompileInvalidTree, CompileLambdaTree, LambdaParamTree,
   LambdaListParamTree, LambdaParamsEndTree, CompileLambdaBodyTree, CompileLetTree, LetInitTree,
   LetValuesTree, EnterLetTree, LetVarTree, LetBodyTree, StutteringTree
   DEF Next, CoreNext

(* What is still to be done needs the nodes that are not yet parts of      *)
(* others, and leaves one, the module.                                     *)
THEOREM TreeGrows == Spec => []TreeInv
<1>1. IInv /\ IInv' /\ TreeInv /\ [Next]_vars => TreeInv' BY NextTreeInv
<1> QED BY <1>1, InitTreeInv, Invariant, PTL DEF Spec

LEMMA TreesAreApart ==
  ASSUME NEW nodes, Len(nodes) \in Nat, NEW p, Trees(nodes, p)
  PROVE  /\ ApartAfter(nodes, p)
         /\ \A f : ApartAfter(nodes, f) => \A i \in 0..Len(nodes) : f[i] = p[i]
<1> DEFINE n == Len(nodes)
<1>1. /\ p \in [0..n -> Nat] /\ p[0] = 0
      /\ \A i \in 1..n : p[i] = p[i - 1] - Takes(nodes[i]) + 1 BY DEF Trees
<1>2. ApartAfter(nodes, p)
  <2> DEFINE g == [i \in 0..n |-> IF i = 0 THEN 0 ELSE p[i - 1] - Takes(nodes[i]) + 1]
  <2>1. \A i \in 0..n : p[i] = g[i] BY <1>1
  <2>2. p = g BY <1>1, <2>1
  <2> QED BY <2>2 DEF ApartAfter
<1>3. ASSUME NEW f, ApartAfter(nodes, f), NEW i \in 0..n
      PROVE  f[i] = p[i]
  <2> DEFINE T == {k \in Nat : k <= n => f[k] = p[k]}
  <2>1. \A j \in 0..n : f[j] = IF j = 0 THEN 0 ELSE f[j - 1] - Takes(nodes[j]) + 1
    BY <1>3 DEF ApartAfter
  <2>2. 0 \in T BY <1>1, <2>1
  <2>3. ASSUME NEW k \in Nat, k \in T
        PROVE  k + 1 \in T
    <3> SUFFICES ASSUME k + 1 <= n
                 PROVE  f[k + 1] = p[k + 1] OBVIOUS
    <3> DEFINE j == k + 1
    <3>1. j \in 1..n /\ j \in 0..n /\ j # 0 /\ j - 1 = k /\ k <= n OBVIOUS
    <3>2. f[k] = p[k] BY <2>3, <3>1
    <3> HIDE DEF j
    <3>3. f[j] = f[j - 1] - Takes(nodes[j]) + 1 /\ p[j] = p[j - 1] - Takes(nodes[j]) + 1
      BY <1>1, <2>1, <3>1
    <3>4. f[j] = p[j] BY <3>1, <3>2, <3>3
    <3> QED BY <3>4 DEF j
  <2>4. i \in T
    <3>1. i \in Nat OBVIOUS
    <3> HIDE DEF T
    <3> QED BY <2>2, <2>3, <3>1, Induction
  <2> QED BY <2>4
<1> QED BY <1>2, <1>3

(* Whatever the body is and whatever was wrong with it: when the parser is *)
(* done, each part that a node of the AST has was made, once, and all are  *)
(* parts of one module.                                                    *)
THEOREM TreeIsWhole == Spec => []WholeTree
<1>1. IInv /\ TreeInv => WholeTree
  <2> SUFFICES ASSUME IInv, TreeInv, todo = <<>> PROVE WholeTree BY DEF WholeTree
  <2> DEFINE f == CHOOSE g : ApartAfter(out, g)
             n == Len(out)
  <2>1. PICK p : Trees(out, p) /\ Balanced(todo, p[n], 1) BY DEF TreeInv
  <2>2. n \in Nat BY SequenceLen DEF IInv, OutOK
  <2>3. ApartAfter(out, f) BY <2>1, <2>2, TreesAreApart
  <2> HIDE DEF f
  <2>4. \A i \in 0..n : f[i] = p[i] BY <2>1, <2>2, <2>3, TreesAreApart
  <2>5. p[n] = 1
    <3>1. PICK r : Counts(todo, r, p[n], 1) BY <2>1 DEF Balanced
    <3>2. Len(todo) = 0 /\ 0 + 1 = 1 BY EmptySequence
    <3> HIDE DEF n
    <3>3. r[1] = p[n] /\ r[Len(todo) + 1] = 1 BY <3>1 DEF Counts
    <3> QED BY <3>2, <3>3
  <2>6. out[n].op = "module" BY DEF TreeInv, Ends
  <2>7. ASSUME NEW i \in 1..n
        PROVE  Takes(out[i]) <= f[i - 1]
    <3>1. Takes(out[i]) \in 0..p[i - 1] /\ p \in [0..n -> Nat] BY <2>1 DEF Trees
    <3> HIDE DEF n
    <3>2. i - 1 \in 0..n BY <2>2
    <3>3. p[i - 1] \in Nat /\ f[i - 1] = p[i - 1] BY <2>4, <3>1, <3>2
    <3> QED BY <3>1, <3>3
  <2>8. f[n] = 1
    <3> HIDE DEF n
    <3> QED BY <2>2, <2>4, <2>5
  <2> QED BY <2>6, <2>7, <2>8 DEF WholeTree, ApartAfter, f
<1> QED BY <1>1, Invariant, TreeGrows, PTL

-----------------------------------------------------------------------------
(* Marks. *)

-----------------------------------------------------------------------------

LEMMA ConcatIs ==
  ASSUME NEW first, NEW second, second # <<>>
  PROVE  concat(first, second) = (CHOOSE f : ConcatFrom(first, second, f))[1]
BY DEF concat, ConcatFrom, ConcatStep

LEMMA ConcatOne ==
  ASSUME NEW a, NEW second, second # <<>>
  PROVE  concat(<<a>>, second) = ConcatStep(a, second)
<1> DEFINE first == <<a>>
           g == [i \in 1..2 |-> IF i > 1 THEN second ELSE ConcatStep(a, second)]
           f == CHOOSE h : ConcatFrom(first, second, h)
<1>1. Len(first) = 1 /\ first[1] = a OBVIOUS
<1>2. g[1] = ConcatStep(a, second) /\ g[2] = second OBVIOUS
<1> HIDE DEF first
<1>3. g = [i \in 1..2 |-> IF i > 1 THEN second ELSE ConcatStep(first[i], g[i + 1])]
  BY <1>1, <1>2
<1>4. ConcatFrom(first, second, g) BY <1>1, <1>3 DEF ConcatFrom
<1>5. ConcatFrom(first, second, f) BY <1>4
<1>6. concat(first, second) = f[1] BY ConcatIs
<1> HIDE DEF f
<1>7. f[2] = second BY <1>1, <1>5 DEF ConcatFrom
<1>8. f[1] = ConcatStep(first[1], f[2]) BY <1>1, <1>5 DEF ConcatFrom
<1> QED BY <1>1, <1>6, <1>7, <1>8 DEF first

LEMMA ConcatTwo ==
  ASSUME NEW a, NEW b, NEW second, second # <<>>
  PROVE  concat(<<a, b>>, second) = ConcatStep(a, ConcatStep(b, second))
<1> DEFINE first == <<a, b>>
           s == ConcatStep(b, second)
           g == [i \in 1..3 |-> IF i > 2 THEN second ELSE IF i = 2 THEN s ELSE ConcatStep(a, s)]
           f == CHOOSE h : ConcatFrom(first, second, h)
<1>1. Len(first) = 2 /\ first[1] = a /\ first[2] = b OBVIOUS
<1>2. g[1] = ConcatStep(a, s) /\ g[2] = s /\ g[3] = second OBVIOUS
<1> HIDE DEF first
<1>3. g = [i \in 1..3 |-> IF i > 2 THEN second ELSE ConcatStep(first[i], g[i + 1])]
  BY <1>1, <1>2
<1>4. ConcatFrom(first, second, g) BY <1>1, <1>3 DEF ConcatFrom
<1>5. ConcatFrom(first, second, f) BY <1>4
<1>6. concat(first, second) = f[1] BY ConcatIs
<1> HIDE DEF f
<1>7. f[3] = second BY <1>1, <1>5 DEF ConcatFrom
<1>8. f[2] = ConcatStep(first[2], f[3]) BY <1>1, <1>5 DEF ConcatFrom
<1>9. f[1] = ConcatStep(first[1], f[2]) BY <1>1, <1>5 DEF ConcatFrom
<1> QED BY <1>1, <1>6, <1>7, <1>8, <1>9 DEF first

LEMMA ConcatMarks ==
  ASSUME NEW m \in Nat \ {0}
  PROVE  /\ \A a : concat(a, <<>>) = a
         /\ concat(<<m>>, <<AntiMark>>) = <<>>
         /\ concat(<<AntiMark, m>>, <<AntiMark>>) = <<AntiMark>>
<1>1. ConcatStep(m, <<AntiMark>>) = <<>> BY DEF ConcatStep, AntiMark
<1>2. ConcatStep(AntiMark, <<>>) = <<AntiMark>> BY DEF ConcatStep, AntiMark
<1>3. <<AntiMark>> # <<>> OBVIOUS
<1>4. \A a : concat(a, <<>>) = a BY DEF concat
<1> QED BY <1>1, <1>2, <1>3, <1>4, ConcatOne, ConcatTwo

LEMMA StampsOfMarks ==
  /\ wrapSymbol(<<>>, <<>>) = <<>>
  /\ wrapSymbol(<<AntiMark>>, <<>>) = <<>>
  /\ \A m \in Nat \ {0} : wrapSymbol(<<m>>, <<>>) = <<m>>
<1>1. \A mark : wrapSymbol(mark, <<>>) = (CHOOSE f : StampsFrom(mark, <<>>, f))[1]
  BY DEF wrapSymbol, StampsFrom
<1>2. wrapSymbol(<<>>, <<>>) = <<>>
  <2> DEFINE mark == <<>>
             g == [i \in 1..1 |-> <<>>]
             f == CHOOSE h : StampsFrom(mark, <<>>, h)
  <2>1. Len(mark) = 0 OBVIOUS
  <2> HIDE DEF mark
  <2>2. StampsFrom(mark, <<>>, g) BY <2>1 DEF StampsFrom
  <2>3. StampsFrom(mark, <<>>, f) BY <2>2
  <2>4. wrapSymbol(mark, <<>>) = f[1] BY <1>1
  <2> HIDE DEF f
  <2>5. f[1] = <<>> BY <2>1, <2>3 DEF StampsFrom
  <2> QED BY <2>4, <2>5 DEF mark
<1>3. ASSUME NEW m
      PROVE  wrapSymbol(<<m>>, <<>>) = IF m = AntiMark THEN <<>> ELSE Append(<<>>, m)
  <2> DEFINE mark == <<m>>
             s == IF m = AntiMark THEN <<>> ELSE Append(<<>>, m)
             g == [i \in 1..2 |-> IF i > 1 THEN <<>> ELSE s]
             f == CHOOSE h : StampsFrom(mark, <<>>, h)
  <2>1. Len(mark) = 1 /\ mark[1] = m OBVIOUS
  <2>2. g[1] = s /\ g[2] = <<>> OBVIOUS
  <2> HIDE DEF mark
  <2>3. g = [i \in 1..2 |-> IF i > 1 THEN <<>>
                            ELSE IF mark[i] = AntiMark THEN g[i + 1]
                            ELSE Append(g[i + 1], mark[i])] BY <2>1, <2>2
  <2>4. StampsFrom(mark, <<>>, g) BY <2>1, <2>3 DEF StampsFrom
  <2>5. StampsFrom(mark, <<>>, f) BY <2>4
  <2>6. wrapSymbol(mark, <<>>) = f[1] BY <1>1
  <2> HIDE DEF f
  <2>7. \A i \in 1..2 : f[i] = IF i > 1 THEN <<>>
                              ELSE IF mark[i] = AntiMark THEN f[i + 1]
                              ELSE Append(f[i + 1], mark[i])
    <3>1. \A i \in 1..(Len(mark) + 1) :
            f[i] = IF i > Len(mark) THEN <<>>
                   ELSE IF mark[i] = AntiMark THEN f[i + 1] ELSE Append(f[i + 1], mark[i])
      BY <2>5, Zenon DEF StampsFrom
    <3> QED BY <2>1, <3>1
  <2>8. f[2] = <<>> /\ f[1] = IF mark[1] = AntiMark THEN f[2] ELSE Append(f[2], mark[1])
    BY <2>7
  <2> QED BY <2>1, <2>6, <2>7, <2>8 DEF mark
<1>4. \A m \in Nat \ {0} : m # AntiMark /\ Append(<<>>, m) = <<m>> BY DEF AntiMark
<1> QED BY <1>2, <1>3, <1>4

-----------------------------------------------------------------------------
(* The kinds of syntax, their parts and what marks make of them *)
LEMMA UserParts ==
  ASSUME NEW x, IsUser(x)
  PROVE  \/ x \in {Value, Nil}
         \/ x \in [k : {"symbol"}, name : {x.name}, stamps : {<<>>}, mark : {<<>>}]
         \/ /\ x \in [k : {"pair"}, car : {x.car}, cdr : {x.cdr}, mark : {<<>>}]
            /\ IsUser(x.car) /\ IsUser(x.cdr)
BY DEF IsUser, ClosedUser

LEMMA UserAtom == IsUser(Value) /\ IsUser(Nil)
BY DEF ClosedUser, IsUser

LEMMA UserSyntax == \A x \in Syntax : IsUser(x)
BY SyntaxAssumption DEF ClosedUser, IsUser

(* wrap, by the kind of what it wraps *)
LEMMA WrapAtom ==
  ASSUME NEW m
  PROVE  /\ wrap(Value, m) = Value /\ wrap(Nil, m) = Nil
         /\ \A b : wrap(BindingOf(b), m) = BindingOf(b)
         /\ \A x : wrap(x, <<>>) = x
BY DEF wrap, IsSymbol, IsPair, Value, Nil, BindingOf

LEMMA WrapSymbol ==
  ASSUME NEW n, NEW s, NEW c, NEW x \in [k : {"symbol"}, name : {n}, stamps : {s}, mark : {c}],
         NEW m, m # <<>>
  PROVE  wrap(x, m) \in [k : {"symbol"}, name : {n}, stamps : {wrapSymbol(concat(m, c), s)},
                         mark : {concat(m, c)}]
<1>1. IsSymbol(x) /\ ~IsPair(x) /\ x.mark = c BY DEF IsSymbol, IsPair
<1> DEFINE newMark == concat(m, c)
<1>2. wrap(x, m) = [x EXCEPT !.mark = newMark, !.stamps = wrapSymbol(newMark, @)]
  BY <1>1 DEF wrap
<1> HIDE DEF newMark
<1>3. wrap(x, m) \in [k : {"symbol"}, name : {n}, stamps : {wrapSymbol(newMark, s)},
                    mark : {newMark}] BY <1>2
<1> QED BY <1>3 DEF newMark

LEMMA WrapPair ==
  ASSUME NEW a, NEW d, NEW c, NEW x \in [k : {"pair"}, car : {a}, cdr : {d}, mark : {c}],
         NEW m, m # <<>>
  PROVE  wrap(x, m) \in [k : {"pair"}, car : {a}, cdr : {d}, mark : {concat(m, c)}]
<1>1. IsPair(x) /\ x.mark = c BY DEF IsPair
<1> DEFINE newMark == concat(m, c)
<1>2. wrap(x, m) = [x EXCEPT !.mark = newMark] BY <1>1 DEF wrap
<1> HIDE DEF newMark
<1>3. wrap(x, m) \in [k : {"pair"}, car : {a}, cdr : {d}, mark : {newMark}] BY <1>2
<1> QED BY <1>3 DEF newMark

LEMMA CarIsWrap == \A p : car(p) = wrap(p.car, p.mark) /\ cdr(p) = wrap(p.cdr, p.mark)
BY DEF car, cdr

-----------------------------------------------------------------------------

LEMMA ListToItems ==
  ASSUME NEW items, NEW d, Len(items) \in Nat
  PROVE  \E f : ListItems(items, d, f)
<1> DEFINE n == Len(items)
           f == CHOOSE g : ListFrom(items, d, g)
<1>1. ListTo(items, d) = f[1] BY DEF ListTo, ListFrom
<1>2. ListFrom(items, d, f) BY ListFromExists
<1> HIDE DEF f
<1>3. \A i \in 1..(n + 1) : f[i] = IF i > n THEN d ELSE Pair(items[i], f[i + 1])
  BY <1>2 DEF ListFrom
<1>4. f[n + 1] = d /\ \A i \in 1..n : f[i] = Pair(items[i], f[i + 1]) BY <1>3
<1> QED BY <1>1, <1>4 DEF ListItems

LEMMA ShortLists ==
  ASSUME NEW items, NEW d
  PROVE  /\ Len(items) = 1 => ListTo(items, d) = Pair(items[1], d)
         /\ Len(items) = 2 => ListTo(items, d) = Pair(items[1], Pair(items[2], d))
         /\ Len(items) = 3 =>
              ListTo(items, d) = Pair(items[1], Pair(items[2], Pair(items[3], d)))
         /\ Len(items) = 4 =>
              ListTo(items, d) = Pair(items[1], Pair(items[2], Pair(items[3], Pair(items[4], d))))
<1>1. ASSUME Len(items) = 1
      PROVE  ListTo(items, d) = Pair(items[1], d) BY <1>1, ListToItems DEF ListItems
<1>2. ASSUME Len(items) = 2
      PROVE  ListTo(items, d) = Pair(items[1], Pair(items[2], d))
  <2>1. PICK f : ListItems(items, d, f) BY <1>2, ListToItems
  <2>2. f[3] = d /\ f[2] = Pair(items[2], f[3]) /\ f[1] = Pair(items[1], f[2])
    BY <1>2, <2>1 DEF ListItems
  <2> QED BY <2>1, <2>2 DEF ListItems
<1>3. ASSUME Len(items) = 3
      PROVE  ListTo(items, d) = Pair(items[1], Pair(items[2], Pair(items[3], d)))
  <2>1. PICK f : ListItems(items, d, f) BY <1>3, ListToItems
  <2>2. f[4] = d /\ f[3] = Pair(items[3], f[4]) /\ f[2] = Pair(items[2], f[3])
        /\ f[1] = Pair(items[1], f[2]) BY <1>3, <2>1 DEF ListItems
  <2> QED BY <2>1, <2>2 DEF ListItems
<1>4. ASSUME Len(items) = 4
      PROVE  ListTo(items, d) = Pair(items[1], Pair(items[2], Pair(items[3], Pair(items[4], d))))
  <2>1. PICK f : ListItems(items, d, f) BY <1>4, ListToItems
  <2>2. f[5] = d /\ f[4] = Pair(items[4], f[5]) /\ f[3] = Pair(items[3], f[4])
        /\ f[2] = Pair(items[2], f[3]) /\ f[1] = Pair(items[1], f[2])
    BY <1>4, <2>1 DEF ListItems
  <2> QED BY <2>1, <2>2 DEF ListItems
<1> QED BY <1>1, <1>2, <1>3, <1>4

LEMMA FormOfOne == \A a, d : ListTo(<<a>>, d) = Pair(a, d)
<1> TAKE a, d
<1> DEFINE s == <<a>>
<1>1. Len(s) = 1 /\ s[1] = a OBVIOUS
<1> HIDE DEF s
<1> QED BY <1>1, ShortLists DEF s

LEMMA FormOfTwo == \A a, b, d : ListTo(<<a, b>>, d) = Pair(a, Pair(b, d))
<1> TAKE a, b, d
<1> DEFINE s == <<a, b>>
<1>1. Len(s) = 2 /\ s[1] = a /\ s[2] = b OBVIOUS
<1> HIDE DEF s
<1>2. ListTo(s, d) = Pair(s[1], Pair(s[2], d)) BY <1>1, ShortLists
<1> QED BY <1>1, <1>2 DEF s

LEMMA FormOfThree ==
  \A a, b, c, d : ListTo(<<a, b, c>>, d) = Pair(a, Pair(b, Pair(c, d)))
<1> TAKE a, b, c, d
<1> DEFINE s == <<a, b, c>>
<1>1. Len(s) = 3 /\ s[1] = a /\ s[2] = b /\ s[3] = c OBVIOUS
<1> HIDE DEF s
<1>2. ListTo(s, d) = Pair(s[1], Pair(s[2], Pair(s[3], d))) BY <1>1, ShortLists
<1> QED BY <1>1, <1>2 DEF s

LEMMA FormOfFour ==
  \A a, b, c, e, d :
    ListTo(<<a, b, c, e>>, d) = Pair(a, Pair(b, Pair(c, Pair(e, d))))
<1> TAKE a, b, c, e, d
<1> DEFINE s == <<a, b, c, e>>
<1>1. Len(s) = 4 /\ s[1] = a /\ s[2] = b /\ s[3] = c /\ s[4] = e OBVIOUS
<1> HIDE DEF s
<1>2. ListTo(s, d) = Pair(s[1], Pair(s[2], Pair(s[3], Pair(s[4], d))))
  BY <1>1, ShortLists
<1> QED BY <1>1, <1>2 DEF s

-----------------------------------------------------------------------------

LEMMA MarkedMade ==
  ASSUME NEW m \in Stamp
  PROVE  /\ \A a, d : wrap(Pair(a, d), MarkOf(m)) = Made(m, a, d)
         /\ \A n : wrap(Symbol(n), MarkOf(m)) = MadeSymbol(n, m)
         /\ \A a, d : /\ car(Made(m, a, d)) = wrap(a, MarkOf(m))
                      /\ cdr(Made(m, a, d)) = wrap(d, MarkOf(m))
         /\ wrap(Nil, MarkOf(m)) = Nil /\ wrap(Value, MarkOf(m)) = Value
<1> DEFINE c == <<m>>
<1>1. concat(c, <<>>) = c /\ wrapSymbol(c, <<>>) = c /\ c # <<>>
  BY ConcatMarks, StampsOfMarks DEF Stamp
<1> HIDE DEF c
<1>2. ASSUME NEW a, NEW d
      PROVE  wrap(Pair(a, d), c) = [k |-> "pair", car |-> a, cdr |-> d, mark |-> c]
  BY <1>1, WrapPair DEF Pair
<1>3. ASSUME NEW n
      PROVE  wrap(Symbol(n), c) = [k |-> "symbol", name |-> n, stamps |-> c, mark |-> c]
  BY <1>1, WrapSymbol DEF Symbol
<1>4. ASSUME NEW a, NEW d
      PROVE  car(Made(m, a, d)) = wrap(a, c) /\ cdr(Made(m, a, d)) = wrap(d, c)
  BY CarIsWrap DEF Made, c
<1>5. wrap(Nil, c) = Nil /\ wrap(Value, c) = Value BY WrapAtom
<1> QED BY <1>2, <1>3, <1>4, <1>5 DEF c, MarkOf, Made, MadeSymbol

(* The anti-mark before the program's syntax *)
LEMMA WrappedKinds ==
  ASSUME NEW u, IsUser(u)
  PROVE  \/ u \in {Value, Nil} /\ Wrapped(u) = u
         \/ /\ u \in [k : {"symbol"}, name : {u.name}, stamps : {<<>>}, mark : {<<>>}]
            /\ Wrapped(u) \in [k : {"symbol"}, name : {u.name}, stamps : {<<>>},
                               mark : {<<AntiMark>>}]
         \/ /\ u \in [k : {"pair"}, car : {u.car}, cdr : {u.cdr}, mark : {<<>>}]
            /\ IsUser(u.car) /\ IsUser(u.cdr)
            /\ Wrapped(u) \in [k : {"pair"}, car : {u.car}, cdr : {u.cdr}, mark : {<<AntiMark>>}]
<1> DEFINE m == <<AntiMark>>
<1>1. concat(m, <<>>) = m /\ wrapSymbol(m, <<>>) = <<>> /\ m # <<>>
  BY StampsOfMarks DEF concat
<1>2. Wrapped(u) = wrap(u, m) BY DEF Wrapped
<1> HIDE DEF m
<1>3. CASE u \in {Value, Nil} BY <1>2, <1>3, WrapAtom
<1>4. CASE u \in [k : {"symbol"}, name : {u.name}, stamps : {<<>>}, mark : {<<>>}]
  BY <1>1, <1>4, <1>2, WrapSymbol DEF m
<1>5. CASE /\ u \in [k : {"pair"}, car : {u.car}, cdr : {u.cdr}, mark : {<<>>}]
           /\ IsUser(u.car) /\ IsUser(u.cdr) BY <1>1, <1>5, <1>2, WrapPair DEF m
<1> QED BY <1>3, <1>4, <1>5, UserParts

(* ... cancels the mark of an expansion, and the two of it the anti-mark. *)
LEMMA MarksOfInput ==
  ASSUME NEW u, IsUser(u), NEW m \in Stamp
  PROVE  wrap(Wrapped(u), MarkOf(m)) = u /\ wrap(Wrapped(u), <<AntiMark, m>>) = Wrapped(u)
<1> DEFINE a == <<AntiMark>>
           b == <<m>>
           c == <<AntiMark, m>>
           w == Wrapped(u)
<1>1. /\ concat(b, a) = <<>> /\ concat(c, a) = a
      /\ wrapSymbol(<<>>, <<>>) = <<>> /\ wrapSymbol(a, <<>>) = <<>>
      /\ b # <<>> /\ c # <<>> BY ConcatMarks, StampsOfMarks DEF Stamp
<1> HIDE DEF b, c, w
<1>2. CASE u \in {Value, Nil} /\ w = u BY <1>2, WrapAtom DEF w, b, c, MarkOf
<1>3. CASE /\ u \in [k : {"symbol"}, name : {u.name}, stamps : {<<>>}, mark : {<<>>}]
           /\ w \in [k : {"symbol"}, name : {u.name}, stamps : {<<>>}, mark : {a}]
  BY <1>1, <1>3, WrapSymbol DEF w, b, c, MarkOf
<1>4. CASE /\ u \in [k : {"pair"}, car : {u.car}, cdr : {u.cdr}, mark : {<<>>}]
           /\ w \in [k : {"pair"}, car : {u.car}, cdr : {u.cdr}, mark : {a}]
  BY <1>1, <1>4, WrapPair DEF w, b, c, MarkOf
<1>5. \/ u \in {Value, Nil} /\ w = u
      \/ /\ u \in [k : {"symbol"}, name : {u.name}, stamps : {<<>>}, mark : {<<>>}]
         /\ w \in [k : {"symbol"}, name : {u.name}, stamps : {<<>>}, mark : {a}]
      \/ /\ u \in [k : {"pair"}, car : {u.car}, cdr : {u.cdr}, mark : {<<>>}]
         /\ w \in [k : {"pair"}, car : {u.car}, cdr : {u.cdr}, mark : {a}]
  BY WrappedKinds DEF w
<1> QED BY <1>2, <1>3, <1>4, <1>5

(* Parts of the program's syntax *)
LEMMA UserCarCdr ==
  ASSUME NEW u, IsUser(u), IsPair(u)
  PROVE  /\ u.mark = <<>> /\ IsUser(car(u)) /\ IsUser(cdr(u))
         /\ Wrapped(u).k = "pair"
         /\ car(Wrapped(u)) = Wrapped(car(u)) /\ cdr(Wrapped(u)) = Wrapped(cdr(u))
BY WrappedKinds, CarIsWrap, WrapAtom DEF IsPair, Value, Nil, Wrapped

LEMMA WrappedUser ==
  ASSUME NEW u, IsUser(u)
  PROVE  Wrapped(u).k = u.k
BY WrappedKinds DEF Value, Nil

(* The parts that the parser takes of what the macro made *)
LEMMA OrParts ==
  ASSUME NEW m \in Stamp, NEW b, NEW r, IsUser(b), IsUser(r)
  PROVE  /\ wrap(UnmarkedOr(b, r), MarkOf(m)) = MadeOr(m, b, r)
         /\ car(MadeOr(m, b, r)) = MadeSymbol("or", m)
         /\ cdr(MadeOr(m, b, r)) = Made(m, Wrapped(b), Wrapped(r))
         /\ car(cdr(MadeOr(m, b, r))) = b /\ cdr(cdr(MadeOr(m, b, r))) = r
<1>1. /\ wrap(UnmarkedOr(b, r), MarkOf(m)) = MadeOr(m, b, r)
      /\ car(MadeOr(m, b, r)) = MadeSymbol("or", m)
      /\ cdr(MadeOr(m, b, r)) = wrap(OrTail(b, r), MarkOf(m))
  BY MarkedMade DEF UnmarkedOr, MadeOr
<1>2. wrap(OrTail(b, r), MarkOf(m)) = Made(m, Wrapped(b), Wrapped(r))
  BY MarkedMade DEF OrTail
<1>3. wrap(Wrapped(b), MarkOf(m)) = b /\ wrap(Wrapped(r), MarkOf(m)) = r BY MarksOfInput
<1> DEFINE v == Wrapped(b)
           w == Wrapped(r)
<1> HIDE DEF v, w
<1>4. car(Made(m, v, w)) = wrap(v, MarkOf(m)) /\ cdr(Made(m, v, w)) = wrap(w, MarkOf(m))
  BY MarkedMade
<1> QED BY <1>1, <1>2, <1>3, <1>4 DEF v, w

LEMMA IfMade ==
  ASSUME NEW m \in Stamp, NEW b, NEW r, IsUser(b), IsUser(r),
         NEW x, x = MadeIf(m, b, r)
  PROVE  /\ wrap(UnmarkedIf(b, r), MarkOf(m)) = x
         /\ car(x) = MadeSymbol("if", m) /\ IsPair(cdr(x)) /\ car(cdr(x)) = Tmp(m)
         /\ IsPair(cdr(cdr(x))) /\ car(cdr(cdr(x))) = Tmp(m)
         /\ IsPair(cdr(cdr(cdr(x)))) /\ car(cdr(cdr(cdr(x)))) = MadeOr(m, b, r)
         /\ cdr(cdr(cdr(cdr(x)))) = Nil
<1> DEFINE t == Symbol("tmp")
           o == UnmarkedOr(b, r)
<1>1. wrap(UnmarkedIf(b, r), MarkOf(m)) = x BY MarkedMade DEF UnmarkedIf, MadeIf
<1>2. /\ car(x) = MadeSymbol("if", m)
      /\ cdr(x) = Made(m, t, Pair(t, Pair(o, Nil))) BY MarkedMade DEF MadeIf, IfTail
<1>3. /\ wrap(t, MarkOf(m)) = Tmp(m) /\ wrap(o, MarkOf(m)) = MadeOr(m, b, r)
      /\ wrap(Nil, MarkOf(m)) = Nil BY MarkedMade, OrParts DEF Tmp
<1>4. \A a, d : IsPair(Made(m, a, d)) BY DEF Made, IsPair
<1> HIDE DEF t, o
<1>5. car(cdr(x)) = Tmp(m) /\ cdr(cdr(x)) = Made(m, t, Pair(o, Nil))
  BY <1>2, <1>3, MarkedMade
<1>6. car(cdr(cdr(x))) = Tmp(m) /\ cdr(cdr(cdr(x))) = Made(m, o, Nil)
  BY <1>3, <1>5, MarkedMade
<1>7. car(cdr(cdr(cdr(x)))) = MadeOr(m, b, r) /\ cdr(cdr(cdr(cdr(x)))) = Nil
  BY <1>3, <1>6, MarkedMade
<1> QED BY <1>1, <1>2, <1>4, <1>5, <1>6, <1>7

LEMMA BodyParts ==
  ASSUME NEW m \in Stamp, NEW b, NEW r, IsUser(b), IsUser(r)
  PROVE  car(MadeBody(m, b, r)) = MadeIf(m, b, r) /\ cdr(MadeBody(m, b, r)) = Nil
BY MarkedMade, IfMade DEF MadeBody

LEMMA InitParts ==
  ASSUME NEW m \in Stamp, NEW a, IsUser(a)
  PROVE  /\ car(MadeInits(m, a)) = MadeInit(m, a) /\ cdr(MadeInits(m, a)) = Nil
         /\ car(MadeInit(m, a)) = Tmp(m) /\ IsPair(cdr(MadeInit(m, a)))
         /\ car(cdr(MadeInit(m, a))) = a /\ cdr(cdr(MadeInit(m, a))) = Nil
<1>1. car(MadeInits(m, a)) = MadeInit(m, a) /\ cdr(MadeInits(m, a)) = Nil
  BY MarkedMade DEF MadeInits, MadeInit, UnmarkedInit
<1>2. car(MadeInit(m, a)) = Tmp(m) /\ cdr(MadeInit(m, a)) = Made(m, Wrapped(a), Nil)
  BY MarkedMade DEF MadeInit, Tmp
<1>3. IsPair(Made(m, Wrapped(a), Nil)) BY DEF Made, IsPair
<1>4. wrap(Wrapped(a), MarkOf(m)) = a BY MarksOfInput
<1> DEFINE v == Wrapped(a)
<1> HIDE DEF v
<1>5. car(Made(m, v, Nil)) = wrap(v, MarkOf(m)) /\ cdr(Made(m, v, Nil)) = Nil
  BY MarkedMade
<1> QED BY <1>1, <1>2, <1>3, <1>4, <1>5 DEF v

LEMMA LetMade ==
  ASSUME NEW m \in Stamp, NEW a, NEW b, NEW r, IsUser(a), IsUser(b), IsUser(r),
         NEW x, x = MadeLet(m, a, b, r)
  PROVE  /\ car(x) = MadeSymbol("let", m) /\ IsPair(cdr(x))
         /\ car(cdr(x)) = MadeInits(m, a) /\ cdr(cdr(x)) = MadeBody(m, b, r)
<1> DEFINE i == UnmarkedInit(a)
           f == UnmarkedIf(b, r)
<1>1. /\ car(x) = MadeSymbol("let", m)
      /\ cdr(x) = Made(m, Pair(i, Nil), Pair(f, Nil)) BY MarkedMade DEF MadeLet, LetTail
<1>2. IsPair(Made(m, Pair(i, Nil), Pair(f, Nil))) BY DEF Made, IsPair
<1> HIDE DEF i, f
<1>3. car(cdr(x)) = Made(m, i, Nil) /\ cdr(cdr(x)) = Made(m, f, Nil) BY <1>1, MarkedMade
<1> QED BY <1>1, <1>2, <1>3 DEF i, f, MadeInits, MadeBody

-----------------------------------------------------------------------------

(* Later expansions have other marks. *)
LEMMA ShownStays ==
  ASSUME NEW n \in Nat, NEW n2 \in Nat, n <= n2
  PROVE  /\ \A x : IsShown(x, n) => IsShown(x, n2)
         /\ \A x : IsFormList(x, n) => IsFormList(x, n2)
         /\ \A x : IsVarList(x, n) => IsVarList(x, n2)
         /\ \A x : IsExpr(x, n) => IsExpr(x, n2)
         /\ \A s : AllShown(s, n) => AllShown(s, n2)
         /\ \A s : AllNames(s, n) => AllNames(s, n2)
<1>1. 1..n \subseteq 1..n2 OBVIOUS
<1>2. \A x : IsTmp(x, n) => IsTmp(x, n2) BY <1>1 DEF IsTmp
<1>3. \A x : IsLet(x, n) => IsLet(x, n2) BY <1>1 DEF IsLet
<1>4. \A x : IsIf(x, n) => IsIf(x, n2) BY <1>1 DEF IsIf
<1>5. \A x : IsOr(x, n) => IsOr(x, n2) BY <1>1 DEF IsOr
<1>6. \A x : IsBody(x, n) => IsBody(x, n2) BY <1>1 DEF IsBody
<1>7. \A x : IsInits(x, n) => IsInits(x, n2) BY <1>1 DEF IsInits
<1>8. \A x : IsName(x, n) => IsName(x, n2) BY <1>2 DEF IsName
<1>9. \A x : IsShown(x, n) => IsShown(x, n2) BY <1>3, <1>4, <1>5, <1>8 DEF IsShown
<1>10. \A s : AllShown(s, n) => AllShown(s, n2) BY <1>9 DEF AllShown
<1>11. \A x : IsExpr(x, n) => IsExpr(x, n2) BY <1>9, <1>10 DEF IsExpr, IsBegin
<1> QED BY <1>6, <1>7, <1>8, <1>9, <1>10, <1>11 DEF IsFormList, IsVarList, AllNames

-----------------------------------------------------------------------------

LEMMA UseParts ==
  ASSUME NEW n \in Nat, NEW x, IsUse(x, n),
         NEW args, args = cdr(Wrapped(x)), NEW p, p = cdr(x)
  PROVE  /\ args.k = p.k
         /\ IsPair(p) => /\ IsUser(car(p)) /\ IsUser(cdr(p))
                         /\ car(args) = Wrapped(car(p)) /\ cdr(args) = Wrapped(cdr(p))
<1>1. CASE IsUser(x) /\ IsPair(x) BY <1>1, UserCarCdr, WrappedUser
<1>2. CASE IsOr(x, n)
  <2>1. PICK m \in 1..n : \E b, r : IsUser(b) /\ IsUser(r) /\ x = MadeOr(m, b, r)
    BY <1>2 DEF IsOr
  <2>2. PICK b, r : IsUser(b) /\ IsUser(r) /\ x = MadeOr(m, b, r) BY <2>1
  <2>3. m \in Stamp BY DEF Stamp
  <2>4. p = Made(m, Wrapped(b), Wrapped(r)) /\ car(p) = b /\ cdr(p) = r
    BY <2>2, <2>3, OrParts
  <2> DEFINE a == <<AntiMark>>
             c == <<AntiMark, m>>
  <2>5. concat(a, <<m>>) = c /\ concat(c, <<>>) = c /\ c # <<>> /\ a # <<>>
    <3>1. concat(a, <<m>>) = ConcatStep(AntiMark, <<m>>) BY ConcatOne
    <3>2. ConcatStep(AntiMark, <<m>>) = <<AntiMark>> \o <<m>> BY DEF ConcatStep
    <3> QED BY <2>3, <3>1, <3>2, ConcatMarks DEF Stamp
  <2>6. x \in [k : {"pair"}, car : {x.car}, cdr : {OrTail(b, r)}, mark : {<<m>>}]
    BY <2>2 DEF MadeOr, Made
  <2> HIDE DEF a, c
  <2>7. Wrapped(x) \in [k : {"pair"}, car : {x.car}, cdr : {OrTail(b, r)}, mark : {c}]
    <3>1. Wrapped(x) = wrap(x, a) BY DEF Wrapped, a
    <3> QED BY <2>5, <2>6, <3>1, WrapPair
  <2>8. Wrapped(x).cdr = OrTail(b, r) /\ Wrapped(x).mark = c BY <2>7
  <2>9. args = wrap(OrTail(b, r), c) BY <2>8, CarIsWrap
  <2>10. OrTail(b, r) \in [k : {"pair"}, car : {Wrapped(b)}, cdr : {Wrapped(r)}, mark : {<<>>}]
    BY DEF OrTail, Pair
  <2>11. args \in [k : {"pair"}, car : {Wrapped(b)}, cdr : {Wrapped(r)}, mark : {c}]
    BY <2>5, <2>9, <2>10, WrapPair
  <2>12. /\ args.k = "pair" /\ args.car = Wrapped(b) /\ args.cdr = Wrapped(r)
         /\ args.mark = c BY <2>11
  <2>13. car(args) = wrap(Wrapped(b), c) /\ cdr(args) = wrap(Wrapped(r), c)
    BY <2>12, CarIsWrap
  <2>14. car(args) = Wrapped(b) /\ cdr(args) = Wrapped(r)
    BY <2>2, <2>3, <2>13, MarksOfInput DEF c
  <2>15. p.k = "pair" BY <2>4 DEF Made
  <2> QED BY <2>2, <2>4, <2>12, <2>14, <2>15
<1> QED BY <1>1, <1>2 DEF IsUse

(* What an expansion makes of them *)
LEMMA ExpandedIs ==
  ASSUME markStamp \in Nat, NEW n \in Nat, NEW x, IsUse(x, n), OrPattern(x), NEW p, p = cdr(x)
  PROVE  /\ IsNil(p) => Expanded(x) = Value
         /\ ~IsNil(p) => /\ IsPair(p) /\ IsUser(car(p)) /\ IsUser(cdr(p))
                         /\ IsNil(cdr(p)) \/ IsPair(cdr(p))
         /\ ~IsNil(p) /\ IsNil(cdr(p)) => Expanded(x) = car(p)
         /\ ~IsNil(p) /\ ~IsNil(cdr(p)) =>
              /\ IsUser(car(cdr(p))) /\ IsUser(cdr(cdr(p)))
              /\ Expanded(x) = MadeLet(markStamp + 1, car(p), car(cdr(p)), cdr(cdr(p)))
<1> DEFINE m == markStamp + 1
           args == cdr(Wrapped(x))
           more == cdr(args)
<1>1. m \in Stamp BY DEF Stamp
<1>2. Expanded(x) = wrap(OrExpansion(Wrapped(x)), <<m>>) BY DEF Expanded
<1>3. OrExpansion(Wrapped(x)) =
        IF IsNil(args) THEN Value
        ELSE IF IsNil(more) THEN car(args)
        ELSE List(<<Symbol("let"), List(<<List(<<Symbol("tmp"), car(args)>>)>>),
                    List(<<Symbol("if"), Symbol("tmp"), Symbol("tmp"),
                           ListTo(<<Symbol("or"), car(more)>>, cdr(more))>>)>>)
  BY DEF OrExpansion
<1>4. /\ args.k = p.k
      /\ IsPair(p) => /\ IsUser(car(p)) /\ IsUser(cdr(p))
                      /\ car(args) = Wrapped(car(p)) /\ cdr(args) = Wrapped(cdr(p))
  BY UseParts
<1>5. \/ IsNil(p)
      \/ IsPair(p) /\ (IsNil(cdr(p)) \/ IsPair(cdr(p))) BY DEF OrPattern, IsList
<1> HIDE DEF m, args
<1>6. CASE IsNil(p) BY <1>4, <1>6, <1>2, <1>3, WrapAtom DEF IsNil
<1>7. CASE ~IsNil(p) /\ IsNil(cdr(p))
  <2>1. IsPair(p) /\ ~IsNil(args) BY <1>4, <1>5, <1>7 DEF IsNil
  <2>2. more.k = cdr(p).k BY <1>4, <2>1, WrappedUser
  <2>3. Expanded(x) = wrap(Wrapped(car(p)), <<m>>)
    BY <1>2, <1>3, <1>4, <1>7, <2>1, <2>2 DEF IsNil
  <2>4. Expanded(x) = car(p) BY <1>1, <1>4, <2>1, <2>3, MarksOfInput DEF MarkOf
  <2> QED BY <1>4, <1>7, <2>1, <2>4
<1>8. CASE ~IsNil(p) /\ ~IsNil(cdr(p))
  <2> DEFINE a == car(p)
             b == car(cdr(p))
             r == cdr(cdr(p))
  <2>1. IsPair(p) /\ ~IsNil(args) /\ IsPair(cdr(p)) /\ IsUser(cdr(p))
    BY <1>4, <1>5, <1>8 DEF IsNil
  <2>2. IsUser(a) /\ IsUser(b) /\ IsUser(r) BY <1>4, <2>1, UserCarCdr
  <2>3. /\ car(args) = Wrapped(a) /\ more.k = "pair"
        /\ car(more) = Wrapped(b) /\ cdr(more) = Wrapped(r) BY <1>4, <2>1, UserCarCdr
  <2>4. ~IsNil(more) BY <2>3 DEF IsNil
  <2>5. OrExpansion(Wrapped(x)) =
          List(<<Symbol("let"), List(<<List(<<Symbol("tmp"), Wrapped(a)>>)>>),
                 List(<<Symbol("if"), Symbol("tmp"), Symbol("tmp"),
                        ListTo(<<Symbol("or"), Wrapped(b)>>, Wrapped(r))>>)>>)
    BY <1>3, <2>1, <2>3, <2>4
  <2> HIDE DEF a, b, r, more
  <2>6. ListTo(<<Symbol("or"), Wrapped(b)>>, Wrapped(r)) = UnmarkedOr(b, r)
    BY FormOfTwo DEF UnmarkedOr, OrTail
  <2>7. List(<<Symbol("if"), Symbol("tmp"), Symbol("tmp"), UnmarkedOr(b, r)>>)
          = UnmarkedIf(b, r) BY FormOfFour DEF List, UnmarkedIf, IfTail
  <2>8. List(<<Symbol("tmp"), Wrapped(a)>>) = UnmarkedInit(a)
    BY FormOfTwo DEF List, UnmarkedInit
  <2> DEFINE t == Symbol("let")
             i == UnmarkedInit(a)
             f == UnmarkedIf(b, r)
  <2>9. OrExpansion(Wrapped(x)) = List(<<t, List(<<i>>), f>>) BY <2>5, <2>6, <2>7, <2>8
  <2>10. List(<<i>>) = Pair(i, Nil) /\ List(<<t, Pair(i, Nil), f>>) = Pair(t, Pair(Pair(i, Nil), Pair(f, Nil)))
    <3> HIDE DEF t, i, f
    <3> QED BY FormOfOne, FormOfThree DEF List
  <2>11. OrExpansion(Wrapped(x)) = Pair(Symbol("let"), LetTail(a, b, r))
    BY <2>9, <2>10 DEF LetTail
  <2>12. Expanded(x) = wrap(Pair(Symbol("let"), LetTail(a, b, r)), MarkOf(m))
    BY <1>2, <2>11 DEF MarkOf
  <2>13. Expanded(x) = MadeLet(m, a, b, r) BY <1>1, <2>12, MarkedMade DEF MadeLet
  <2> QED BY <1>4, <1>8, <2>1, <2>2, <2>13 DEF a, b, r, m
<1> QED BY <1>5, <1>6, <1>7, <1>8

LEMMA ExpandedShown ==
  ASSUME markStamp \in Nat, NEW n \in Nat, NEW x, IsUse(x, n), OrPattern(x)
  PROVE  IsShown(Expanded(x), markStamp + 1)
<1> DEFINE p == cdr(x)
           m == markStamp + 1
<1>1. /\ IsNil(p) => Expanded(x) = Value
      /\ ~IsNil(p) => IsUser(car(p))
      /\ ~IsNil(p) /\ IsNil(cdr(p)) => Expanded(x) = car(p)
      /\ ~IsNil(p) /\ ~IsNil(cdr(p)) =>
           /\ IsUser(car(cdr(p))) /\ IsUser(cdr(cdr(p)))
           /\ Expanded(x) = MadeLet(m, car(p), car(cdr(p)), cdr(cdr(p))) BY ExpandedIs
<1>2. m \in 1..m OBVIOUS
<1> HIDE DEF p, m
<1>3. IsLet(Expanded(x), m) \/ IsUser(Expanded(x)) BY <1>1, <1>2, UserAtom DEF IsLet
<1> QED BY <1>3 DEF IsShown, IsName, m

LEMMA SystemKeys ==
  /\ \A y \in DOMAIN SystemBindings : y[2] = <<>>
  /\ \A n \in {"or", "if", "let"} : <<n, <<>>>> \in DOMAIN SystemBindings
  /\ SystemBindings[<<"or", <<>>>>] = MACRO_OR
  /\ SystemBindings[<<"if", <<>>>>] = RES_IF
  /\ SystemBindings[<<"let", <<>>>>] = RES_LET
BY DEF SystemBindings

LEMMA SystemIsOutermost ==
  ASSUME IInv
  PROVE  /\ Len(env) \in Nat /\ Len(env) >= 2
         /\ \A x : Env!MeaningFrom(SystemScope, x) = Env!MeaningAt(1, x)
<1>1. /\ Len(env) \in Nat /\ Len(env) >= 2 /\ env[1].scope = SystemScope
  BY SequenceLen DEF IInv, EnvOK
<1>2. ASSUME NEW i \in 1..Len(env), env[i].scope = SystemScope
      PROVE  i = 1
  <2> SUFFICES ASSUME i # 1 PROVE FALSE OBVIOUS
  <2>1. i \in 2..Len(env) /\ i - 1 \in 1..Len(env) BY <1>1
  <2>2. frames[SystemScope] = env[i - 1].scope BY <1>2, <2>1 DEF IInv, EnvOK
  <2>3. env[i - 1].scope \in 1..Len(frames) BY <2>1 DEF IInv, EnvOK
  <2>4. 1 \in 1..Len(frames) => frames[1] \in 0..0 BY DEF IInv, FramesOK
  <2>5. frames \in Seq(Nat) BY DEF IInv, FramesOK
  <2> QED BY <2>2, <2>3, <2>4, <2>5 DEF SystemScope
<1>3. ASSUME NEW x
      PROVE  Env!MeaningFrom(SystemScope, x) = Env!MeaningAt(1, x)
  <2> DEFINE i == CHOOSE k \in 1..Len(env) : env[k].scope = SystemScope
  <2>1. i = 1 /\ SystemScope \in Env!Open BY <1>1, <1>2 DEF Env!Open
  <2>2. Env!MeaningFrom(SystemScope, x) = Env!MeaningAt(i, x)
    BY <2>1 DEF Env!MeaningFrom
  <2> QED BY <2>1, <2>2
<1> QED BY <1>1, <1>3

(* Whatever the program binds, these names of an expansion mean what they  *)
(* do in the scope of the macro.                                           *)
LEMMA NamesOfMacro ==
  ASSUME IInv, KeysOK(env), NEW m \in Stamp, NEW n \in {"or", "if", "let"}
  PROVE  isBinding(MadeSymbol(n, m)) = SystemBindings[<<n, <<>>>>]
<1> DEFINE ss == MadeSymbol(n, m)
           own == <<ss.name, ss.stamps>>
           key == <<n, <<>>>>
           seenBy(i) == Env!MeaningFrom(SystemScope,
                          <<ss.name, SubSeq(ss.stamps, 1, Len(ss.stamps) - i)>>)
           found == {i \in 1..Len(ss.stamps) : seenBy(i) # Env!NoBinding}
           first == CHOOSE i \in found : \A j \in found : i <= j
<1>1. ss.k = "symbol" /\ ss.name = n /\ ss.stamps = <<m>> BY DEF MadeSymbol
<1>2. own[1] = n /\ own[1] # "tmp" /\ own[2] # <<>> BY <1>1
<1>3. Len(ss.stamps) = 1 /\ SubSeq(ss.stamps, 1, 1 - 1) = <<>> BY <1>1
<1>4. isBinding(ss) = IF Env!Meaning(own) # Env!NoBinding THEN Env!Meaning(own)
                      ELSE IF found = {} THEN Env!NoBinding ELSE seenBy(first)
  BY <1>1 DEF isBinding, lookupSyntaxSymbol
<1>5. Env!Meaning(own) = Env!NoBinding
  <2> HIDE DEF own
  <2>1. \A i \in 1..Len(env) : own \notin DOMAIN env[i].vars
    BY <1>2, SystemKeys, SystemIsOutermost DEF KeysOK
  <2> QED BY <2>1 DEF Env!Meaning, Env!MeaningAt
<1>6. seenBy(1) = Env!MeaningAt(1, key) BY <1>1, <1>3, SystemIsOutermost
<1>7. Env!MeaningAt(1, key) = SystemBindings[key]
  <2> HIDE DEF key
  <2>1. key \in DOMAIN env[1].vars /\ env[1].vars = SystemBindings
    BY SystemKeys DEF KeysOK, key
  <2> DEFINE binders == {i \in 1..1 : key \in DOMAIN env[i].vars}
             last == CHOOSE i \in binders : \A j \in binders : j <= i
  <2>2. binders = {1} BY <2>1
  <2>3. last = 1 BY <2>2
  <2>4. Env!MeaningAt(1, key) = env[last].vars[key] BY <2>2 DEF Env!MeaningAt
  <2> QED BY <2>1, <2>3, <2>4
<1>8. SystemBindings[key] # Env!NoBinding
  BY SystemKeys DEF Env!NoBinding, MACRO_OR, RES_IF, RES_LET
<1>9. found = {1} BY <1>3, <1>6, <1>7, <1>8
<1>10. first = 1
  <2> HIDE DEF found, seenBy
  <2> QED BY <1>9
<1> QED BY <1>4, <1>5, <1>6, <1>7, <1>9, <1>10

(* What an expression with a list, or a form, begins with *)
LEMMA HeadsMade ==
  ASSUME NEW n \in Nat, NEW x, IsExpr(x, n), IsPair(x)
  PROVE  \/ IsUser(x)
         \/ IsLet(x, n) /\ \E m \in 1..n : car(x) = MadeSymbol("let", m)
         \/ IsIf(x, n) /\ \E m \in 1..n : car(x) = MadeSymbol("if", m)
         \/ IsOr(x, n) /\ \E m \in 1..n : car(x) = MadeSymbol("or", m)
<1>1. /\ \A m : ~IsPair(Tmp(m))
      /\ ~IsPair(BindingOf(m_unspec)) /\ \A e : ~IsPair(Begin(e))
  BY DEF Tmp, MadeSymbol, IsPair, BindingOf, Begin
<1>2. \A m \in 1..n : m \in Stamp BY DEF Stamp
<1>3. IsUser(x) \/ IsLet(x, n) \/ IsIf(x, n) \/ IsOr(x, n)
  BY <1>1 DEF IsExpr, IsShown, IsName, IsTmp, IsBegin
<1>4. CASE IsLet(x, n) BY <1>4, <1>2, LetMade DEF IsLet
<1>5. CASE IsIf(x, n) BY <1>5, <1>2, IfMade DEF IsIf
<1>6. CASE IsOr(x, n) BY <1>6, <1>2, OrParts DEF IsOr
<1> QED BY <1>3, <1>4, <1>5, <1>6

LEMMA HeadOfExpr ==
  ASSUME IInv, KeysOK(env), NEW n \in Nat, NEW x, IsExpr(x, n), IsPair(x)
  PROVE  \/ IsUser(x)
         \/ IsLet(x, n) /\ isBinding(car(x)) = RES_LET
         \/ IsIf(x, n) /\ isBinding(car(x)) = RES_IF
         \/ IsOr(x, n) /\ isBinding(car(x)) = MACRO_OR
BY NamesOfMacro, SystemKeys, HeadsMade DEF Stamp

LEMMA HeadsOr ==
  ASSUME IInv, KeysOK(env), NEW n \in Nat, NEW x, IsExpr(x, n), Heads(x, MACRO_OR)
  PROVE  IsUse(x, n)
BY HeadOfExpr DEF Heads, IsUse, MACRO_OR, RES_IF, RES_LET

(* ... and when it begins with neither of these, it is the program's. *)
LEMMA HeadsUser ==
  ASSUME IInv, KeysOK(env), NEW n \in Nat, NEW x, IsExpr(x, n), IsPair(x),
         isBinding(car(x)) \notin {MACRO_OR, RES_IF, RES_LET}
  PROVE  IsUser(x) /\ IsUser(car(x)) /\ IsUser(cdr(x))
BY HeadOfExpr, UserCarCdr

LEMMA VariableKeepsKeys ==
  ASSUME IInv, KeysOK(env), NEW x, Env!Define(x, nextVariable), x[2] = <<>> \/ x[1] = "tmp"
  PROVE  KeysOK(env')
<1> DEFINE n == Len(env)
           v == env[n].vars
           w == [y \in DOMAIN v \cup {x} |-> IF y = x THEN nextVariable ELSE v[y]]
<1>1. env' = [env EXCEPT ![n].vars = w] BY DEF Env!Define
<1>2. /\ IsSeq(env) /\ n \in Nat /\ n >= 2 /\ DOMAIN env = 1..n
      /\ env[n] \in [scope : 1..Len(frames), vars : {v}]
      /\ nextVariable > 0 BY SequenceLen DEF IInv, EnvOK, nextVariable, VariablesOK
<1> DEFINE E == {env[i] : i \in 1..n} \cup {[env[n] EXCEPT !.vars = w]}
<1>3. env' \in [1..n -> E] BY <1>1, <1>2
<1>4. Len(env') = n
  <2> HIDE DEF n, E
  <2> QED BY <1>2, <1>3, IndexedSequence
<1>5. env'[n].vars = w /\ \A i \in 1..n : i # n => env'[i] = env[i]
  <2> HIDE DEF w
  <2>1. env' = [env EXCEPT ![n] = [env[n] EXCEPT !.vars = w]] BY <1>1
  <2> QED BY <1>2, <2>1
<1>6. ASSUME NEW i \in 2..n, NEW y \in DOMAIN env'[i].vars
      PROVE  y[2] = <<>> \/ y[1] = "tmp"
  <2>1. CASE i # n
    <3>1. i \in 1..n BY <1>2
    <3>2. env'[i] = env[i] BY <1>5, <2>1, <3>1
    <3> QED BY <1>6, <3>2 DEF KeysOK
  <2>2. CASE i = n BY <1>5, <1>6, <2>2, <1>2 DEF KeysOK
  <2> QED BY <2>1, <2>2
<1>7. env'[1].vars = SystemBindings
  <2>1. 1 \in 1..n /\ 1 # n BY <1>2
  <2>2. env'[1] = env[1] BY <1>5, <2>1
  <2> QED BY <2>2 DEF KeysOK
<1> QED BY <1>4, <1>6, <1>7 DEF KeysOK

LEMMA ScopeKeepsKeys ==
  ASSUME IInv, KeysOK(env)
  PROVE  /\ \A f : NewScope(f) => KeysOK(env')
         /\ Env!Leave => KeysOK(env')
<1>1. IsSeq(env) /\ Len(env) \in Nat /\ Len(env) >= 2 /\ env # <<>>
  BY SequenceLen DEF IInv, EnvOK
<1>2. ASSUME NEW f, NewScope(f)
      PROVE  KeysOK(env')
  <2> DEFINE new == [scope |-> nextScope, vars |-> [x \in {} |-> Env!NoBinding]]
  <2>1. env' = Append(env, new) BY <1>2 DEF NewScope, Env!Enter
  <2>2. DOMAIN new.vars = {} OBVIOUS
  <2> HIDE DEF new
  <2>3. /\ Len(env') = Len(env) + 1 /\ env'[Len(env) + 1] = new
        /\ \A i \in 1..Len(env) : env'[i] = env[i] BY <1>1, <2>1, AppendSequence
  <2>4. /\ \A i \in 2..Len(env') : i = Len(env) + 1 \/ i \in 2..Len(env)
        /\ \A i \in 2..Len(env) : env'[i] = env[i]
        /\ env'[1] = env[1] BY <1>1, <2>3
  <2>5. ASSUME NEW i \in 2..Len(env'), NEW y \in DOMAIN env'[i].vars
        PROVE  y[2] = <<>> \/ y[1] = "tmp" BY <2>2, <2>3, <2>4, <2>5 DEF KeysOK
  <2> QED BY <2>4, <2>5 DEF KeysOK
<1>3. ASSUME Env!Leave
      PROVE  KeysOK(env') BY <1>3, <1>1, FrontSequence DEF Env!Leave, KeysOK
<1> QED BY <1>2, <1>3

(* The names that are bound *)
LEMMA NameIsKey ==
  ASSUME NEW n, NEW x, IsName(x, n), IsSymbol(x)
  PROVE  x.stamps = <<>> \/ x.name = "tmp"
BY UserParts DEF IsSymbol, Value, Nil, IsTmp, Tmp, MadeSymbol, IsName

LEMMA ParamKeepsKeys ==
  ASSUME IInv, KeysOK(env), NEW n, NEW x, IsName(x, n), NEW s, DefineParam(x, s)
  PROVE  KeysOK(env')
<1>1. CASE UNCHANGED scopeVars BY <1>1 DEF scopeVars
<1>2. CASE IsSymbol(x) /\ BindVariable(x, s)
  <2>1. Env!Define(<<x.name, x.stamps>>, nextVariable) BY <1>2 DEF BindVariable
  <2> DEFINE y == <<x.name, x.stamps>>
  <2>2. y[2] = <<>> \/ y[1] = "tmp" BY <1>2, NameIsKey
  <2> HIDE DEF y
  <2>3. Env!Define(y, nextVariable) BY <2>1 DEF y
  <2> QED BY <2>2, <2>3, VariableKeepsKeys
<1> QED BY <1>1, <1>2 DEF DefineParam

-----------------------------------------------------------------------------

LEMMA ItemStaysShown ==
  ASSUME NEW n \in Nat, NEW n2 \in Nat, n <= n2
  PROVE  /\ \A it : ItemShown(it, n) => ItemShown(it, n2)
         /\ \A c : CtxShown(c, n) => CtxShown(c, n2)
BY ShownStays DEF ItemShown, CtxShown, DefinitionsShown

(* Items take the place of the head of the list. *)
LEMMA MarksStep ==
  ASSUME IInv, MarksInv, todo # <<>>, markStamp' \in Nat, markStamp <= markStamp',
         NEW items, todo' = items \o Tail(todo), ItemsShown(items, markStamp'),
         CtxShown(ctx', markStamp'), KeysOK(env')
  PROVE  MarksInv'
<1>1. IsSeq(todo) /\ IsSeq(items) /\ markStamp \in Nat
  BY CurrentItem DEF ItemsShown, IInv
<1>2. IsSeq(items \o Tail(todo)) BY <1>1, DoEffect
<1>3. ASSUME NEW j \in 1..Len(items \o Tail(todo))
      PROVE  ItemShown((items \o Tail(todo))[j], markStamp')
  <2>1. CASE j <= Len(items) BY <1>1, <2>1, DoEffect DEF ItemsShown
  <2>2. CASE ~(j <= Len(items))
    <3>1. Len(items) \in Nat /\ Len(items \o Tail(todo)) \in Nat
      BY <1>1, <1>2, SequenceLen
    <3>2. j > Len(items) BY <2>2, <3>1
    <3> DEFINE i == (j - Len(items)) + 1
    <3>3. i \in 2..Len(todo) /\ (items \o Tail(todo))[j] = todo[i]
      BY <1>1, <3>2, RestOfTodo
    <3>4. Len(todo) \in Nat BY <1>1, SequenceLen
    <3>5. ItemShown(todo[i], markStamp) BY <3>3, <3>4 DEF MarksInv, ItemsShown
    <3> HIDE DEF i
    <3> QED BY <1>1, <3>3, <3>5, ItemStaysShown
  <2> QED BY <2>1, <2>2
<1>4. ItemsShown(todo', markStamp') BY <1>2, <1>3 DEF ItemsShown
<1> QED BY <1>4 DEF MarksInv

(* Lists of items *)
LEMMA NoneShown == \A n : ItemsShown(<<>>, n)
BY EmptySequence DEF ItemsShown

LEMMA OneShown ==
  ASSUME NEW n, NEW a, ItemShown(a, n)
  PROVE  ItemsShown(<<a>>, n)
BY Sequence1 DEF ItemsShown

LEMMA TwoShown ==
  ASSUME NEW n, NEW a, NEW b, ItemShown(a, n), ItemShown(b, n)
  PROVE  ItemsShown(<<a, b>>, n)
<1> DEFINE s == <<a, b>>
<1>1. IsSeq(s) /\ Len(s) = 2 /\ s[1] = a /\ s[2] = b BY Sequence2
<1> HIDE DEF s
<1>2. \A i \in 1..Len(s) : ItemShown(s[i], n) BY <1>1
<1> QED BY <1>1, <1>2 DEF ItemsShown, s

LEMMA BothShown ==
  ASSUME NEW n, NEW s, NEW t, ItemsShown(s, n), ItemsShown(t, n)
  PROVE  ItemsShown(s \o t, n)
<1>1. IsSeq(s) /\ IsSeq(t) /\ Len(s) \in Nat /\ Len(t) \in Nat
  BY SequenceLen DEF ItemsShown
<1>2. /\ IsSeq(s \o t) /\ Len(s \o t) = Len(s) + Len(t)
      /\ \A i \in 1..Len(s) : (s \o t)[i] = s[i]
      /\ \A i \in 1..Len(t) : (s \o t)[Len(s) + i] = t[i] BY <1>1, ConcatSequence
<1>3. ASSUME NEW i \in 1..Len(s \o t)
      PROVE  ItemShown((s \o t)[i], n) BY <1>1, <1>2 DEF ItemsShown
<1> QED BY <1>2, <1>3 DEF ItemsShown

LEMMA PlainItemsShown ==
  ASSUME NEW n
  PROVE  /\ \A x, in : IsExpr(x, n) => ItemShown(Expr(x, in), n)
         /\ \A x, op, k, in : IsUser(x) => ItemShown(Args(x, op, k, in), n)
         /\ \A op, of, in : ItemShown(Make(op, of, in), n)
         /\ \A s : ItemShown(Pop(s), n)
         /\ ItemShown(EndBody, n)
         /\ \A x : IsShown(x, n) => ItemShown(Form(x), n)
         /\ \A x : IsFormList(x, n) => ItemShown(Forms(x), n)
         /\ \A x, op, of, in : IsFormList(x, n) => ItemShown(Body(x, op, of, in), n)
BY DEF ItemShown, Expr, Args, Make, Pop, EndBody, Forms, Form, Body

LEMMA ExprsShown ==
  ASSUME NEW n, NEW xs, IsSeq(xs), AllShown(xs, n), NEW f
  PROVE  ItemsShown(Exprs(xs, f), n)
<1>1. /\ IsSeq(Exprs(xs, f)) /\ Len(Exprs(xs, f)) = Len(xs)
      /\ \A i \in 1..Len(xs) : Exprs(xs, f)[i] = Expr(xs[i], f) BY ExprsProperties
<1>2. \A i \in 1..Len(xs) : IsExpr(xs[i], n) BY DEF AllShown, IsExpr
<1> QED BY <1>1, <1>2, PlainItemsShown DEF ItemsShown

LEMMA MoreShown ==
  ASSUME NEW n, NEW s, IsSeq(s), AllShown(s, n), NEW x, IsShown(x, n)
  PROVE  AllShown(Append(s, x), n)
BY SequenceLen, AppendSequence DEF AllShown

LEMMA MoreDefinitionsShown ==
  ASSUME NEW n, NEW s, IsSeq(s), DefinitionsShown(s, n), NEW d, IsExpr(d.x, n)
  PROVE  DefinitionsShown(Append(s, d), n)
BY SequenceLen, AppendSequence DEF DefinitionsShown

LEMMA AtomsShown ==
  ASSUME NEW n
  PROVE  IsShown(BindingOf(m_unspec), n) /\ AllShown(<<>>, n)
BY EmptySequence DEF IsShown, AllShown

(* What the head of the list says of the step it is taken in *)
LEMMA CurrentShown ==
  ASSUME IInv, MarksInv, todo # <<>>
  PROVE  ItemShown(item, markStamp) /\ markStamp \in Nat /\ CtxShown(ctx, markStamp)
         /\ KeysOK(env)
BY CurrentItem DEF IInv, MarksInv, ItemsShown

(* The scopes, the context and the marks stay as they are. *)
LEMMA MarksStay ==
  ASSUME IInv, MarksInv, todo # <<>>, UNCHANGED <<markStamp, ctx>>, KeysOK(env'),
         NEW items, todo' = items \o Tail(todo), ItemsShown(items, markStamp)
  PROVE  MarksInv'
<1>1. markStamp' \in Nat /\ markStamp <= markStamp' /\ CtxShown(ctx', markStamp')
  BY CurrentShown
<1>2. ItemsShown(items, markStamp') OBVIOUS
<1> QED BY <1>1, <1>2, MarksStep

LEMMA NothingMore ==
  ASSUME IInv, MarksInv, todo # <<>>, UNCHANGED <<markStamp, ctx>>, KeysOK(env'),
         todo' = <<>> \o Tail(todo)
  PROVE  MarksInv'
BY NoneShown, MarksStay

LEMMA OneMore ==
  ASSUME IInv, MarksInv, todo # <<>>, UNCHANGED <<markStamp, ctx>>, KeysOK(env'),
         NEW a, todo' = <<a>> \o Tail(todo), ItemShown(a, markStamp)
  PROVE  MarksInv'
BY OneShown, MarksStay

LEMMA TwoMore ==
  ASSUME IInv, MarksInv, todo # <<>>, UNCHANGED <<markStamp, ctx>>, KeysOK(env'),
         NEW a, NEW b, todo' = <<a, b>> \o Tail(todo),
         ItemShown(a, markStamp), ItemShown(b, markStamp)
  PROVE  MarksInv'
BY TwoShown, MarksStay

LEMMA UserIsShown ==
  ASSUME NEW x, IsUser(x), NEW n
  PROVE  /\ IsName(x, n) /\ IsShown(x, n) /\ IsExpr(x, n)
         /\ IsFormList(x, n) /\ IsVarList(x, n)
BY DEF IsName, IsShown, IsExpr, IsFormList, IsVarList

(* The parts of the lists that the parser goes along *)
LEMMA FormListParts ==
  ASSUME NEW n \in Nat, NEW x, IsFormList(x, n), IsPair(x)
  PROVE  IsShown(car(x), n) /\ IsFormList(cdr(x), n)
BY UserCarCdr, UserIsShown, BodyParts, UserAtom DEF IsBody, Stamp, IsIf, IsShown,
   IsFormList

LEMMA VarListParts ==
  ASSUME NEW n \in Nat, NEW x, IsVarList(x, n), IsPair(x), NEW init, init = car(x)
  PROVE  /\ IsVarList(cdr(x), n)
         /\ Two(init) => IsName(car(init), n) /\ IsUser(car(cdr(init)))
BY UserCarCdr, UserIsShown, InitParts, UserAtom DEF Two, IsInits, Stamp, IsTmp, IsName,
   IsVarList

LEMMA IfMadeParts ==
  ASSUME NEW n \in Nat, NEW x, IsIf(x, n), NEW form, form = cdr(x)
  PROVE  /\ TwoAndRest(form)
         /\ IsShown(car(form), n) /\ IsShown(car(cdr(form)), n)
         /\ IsPair(cdr(cdr(form))) /\ IsShown(car(cdr(cdr(form))), n)
BY IfMade DEF IsIf, Stamp, IsTmp, IsOr, TwoAndRest, IsList, IsShown, IsName

LEMMA UserIfParts ==
  ASSUME NEW form, IsUser(form), TwoAndRest(form), NEW n
  PROVE  /\ IsShown(car(form), n) /\ IsShown(car(cdr(form)), n)
         /\ IsPair(cdr(cdr(form))) => IsShown(car(cdr(cdr(form))), n)
BY UserCarCdr, UserIsShown DEF TwoAndRest

LEMMA LetMadeParts ==
  ASSUME NEW n \in Nat, NEW x, IsLet(x, n), NEW form, form = cdr(x)
  PROVE  IsPair(form) /\ IsInits(car(form), n) /\ IsBody(cdr(form), n)
BY LetMade DEF IsLet, Stamp, IsInits, IsBody

(* The kinds of what is shown *)
LEMMA ShownNotBegin ==
  ASSUME NEW n, NEW x, IsShown(x, n)
  PROVE  x.k # "begin"
<1>1. IsUser(x) => x.k \in {"value", "nil", "symbol", "pair"}
  BY UserParts DEF Value, Nil
<1>2. /\ BindingOf(m_unspec).k = "binding" /\ \A m : Tmp(m).k = "symbol"
      /\ \A m, a, d : Made(m, a, d).k = "pair" BY DEF BindingOf, Tmp, MadeSymbol, Made
<1>3. /\ \A m, a, b, r : MadeLet(m, a, b, r).k = "pair"
      /\ \A m, b, r : MadeIf(m, b, r).k = "pair" /\ MadeOr(m, b, r).k = "pair"
  BY <1>2 DEF MadeLet, MadeIf, MadeOr
<1> QED BY <1>1, <1>2, <1>3 DEF IsShown, IsName, IsTmp, IsLet, IsIf, IsOr

LEMMA ShownKinds ==
  ASSUME NEW n, NEW x, IsExpr(x, n)
  PROVE  /\ x.k = "begin" <=> IsBegin(x, n)
         /\ IsBegin(x, n) => ~IsPair(x)
BY ShownNotBegin DEF IsBegin, Begin, IsExpr, IsPair

-----------------------------------------------------------------------------
(* One lemma for each action *)
LEMMA ExpressionShown ==
  ASSUME IInv, MarksInv, Current("expr")
  PROVE  /\ todo # <<>> /\ IsSyntax(item.x) /\ IsExpr(item.x, markStamp)
         /\ markStamp \in Nat /\ KeysOK(env)
BY ExpressionItem, CurrentShown DEF ItemShown

LEMMA ReservedShown ==
  ASSUME IInv, MarksInv, Current("expr"), NEW b, Heads(item.x, b),
         b \notin {MACRO_OR, RES_IF, RES_LET}
  PROVE  /\ todo # <<>> /\ markStamp \in Nat /\ KeysOK(env)
         /\ IsPair(item.x) /\ IsUser(item.x)
         /\ IsUser(car(item.x)) /\ IsUser(cdr(item.x))
BY ExpressionShown, HeadsUser DEF Heads

(* A form *)
LEMMA FormShown ==
  ASSUME IInv, MarksInv, Current("form")
  PROVE  /\ todo # <<>> /\ item.do = "form" /\ item \in [do : {"form"}, x : {item.x}]
         /\ IsShown(item.x, markStamp) /\ IsExpr(item.x, markStamp)
         /\ markStamp \in Nat /\ KeysOK(env) /\ CtxShown(ctx, markStamp)
BY CurrentShown DEF Current, ItemShown, IsExpr

LEMMA ReservedFormShown ==
  ASSUME IInv, MarksInv, Current("form"), NEW b, Heads(item.x, b),
         b \notin {MACRO_OR, RES_IF, RES_LET}
  PROVE  IsPair(item.x) /\ IsUser(item.x) /\ IsUser(cdr(item.x))
BY FormShown, HeadsUser DEF Heads

(* A step that only takes the head of the list away *)
LEMMA EndsMarks ==
  IInv /\ MarksInv /\ (MakeNode \/ CompileValue \/ CompileVariable \/ CompileInvalid \/ FormEmpty)
    => MarksInv'
<1> SUFFICES ASSUME IInv, MarksInv,
                    MakeNode \/ CompileValue \/ CompileVariable \/ CompileInvalid \/ FormEmpty
             PROVE  MarksInv' OBVIOUS
<1>1. /\ todo # <<>> /\ todo' = <<>> \o Tail(todo)
      /\ UNCHANGED <<markStamp, ctx>> /\ env' = env
  <2>1. CASE MakeNode BY <2>1 DEF MakeNode, Current, Makes, Do, tableVars, scopeVars
  <2>2. CASE CompileValue
    BY <2>2 DEF CompileValue, Current, Makes, Do, tableVars, scopeVars
  <2>3. CASE CompileVariable
    BY <2>3 DEF CompileVariable, Current, Makes, Do, tableVars, scopeVars
  <2>4. CASE CompileInvalid
    BY <2>4 DEF CompileInvalid, Fails, Current, Makes, Do, tableVars, scopeVars
  <2>5. CASE FormEmpty BY <2>5 DEF FormEmpty, Current, Do, tableVars, scopeVars
  <2> QED BY <2>1, <2>2, <2>3, <2>4, <2>5
<1>2. KeysOK(env') BY <1>1 DEF MarksInv
<1> QED BY <1>1, <1>2, NothingMore

LEMMA FailsMarks ==
  ASSUME IInv, MarksInv, todo # <<>>, Fails, UNCHANGED <<markStamp, ctx>>, env' = env
  PROVE  MarksInv'
BY NothingMore DEF Fails, Makes, Do, MarksInv

LEMMA PopScopeMarks ==
  ASSUME IInv, MarksInv, PopScope PROVE MarksInv'
BY ScopeKeepsKeys, NothingMore DEF PopScope, Current, Do, MarksInv

LEMMA ParseBodyMarks ==
  ASSUME IInv, MarksInv, ParseBody PROVE MarksInv'
<1> DEFINE a == Form(car(item.x))
           b == Forms(cdr(item.x))
<1>1. /\ todo # <<>> /\ item.do = "forms" /\ UNCHANGED <<markStamp, ctx>> /\ env' = env
      /\ IF IsPair(item.x) THEN todo' = <<a, b>> \o Tail(todo) ELSE todo' = <<>> \o Tail(todo)
  BY DEF ParseBody, Current, Do, tableVars, scopeVars
<1>2. IsFormList(item.x, markStamp) /\ markStamp \in Nat /\ KeysOK(env')
  BY <1>1, CurrentShown DEF ItemShown
<1>3. CASE IsPair(item.x)
  <2>1. ItemShown(a, markStamp) /\ ItemShown(b, markStamp)
    BY <1>2, <1>3, FormListParts, PlainItemsShown
  <2> HIDE DEF a, b
  <2> QED BY <1>1, <1>2, <1>3, <2>1, TwoMore
<1>4. CASE ~IsPair(item.x) BY <1>1, <1>2, <1>4, NothingMore
<1> QED BY <1>3, <1>4

(* An expansion takes the place of its form. *)
LEMMA ExpansionMarks ==
  ASSUME IInv, MarksInv, todo # <<>>, markStamp' = markStamp + 1, ctx' = ctx, env' = env,
         NEW a, todo' = <<a>> \o Tail(todo), ItemShown(a, markStamp + 1)
  PROVE  MarksInv'
<1>1. markStamp \in Nat /\ CtxShown(ctx, markStamp) /\ KeysOK(env) BY CurrentShown
<1>2. markStamp' \in Nat /\ markStamp <= markStamp' BY <1>1
<1>3. CtxShown(ctx', markStamp') /\ KeysOK(env') BY <1>1, <1>2, ItemStaysShown
<1>4. ItemsShown(<<a>>, markStamp') BY OneShown
<1>5. \E items : /\ todo' = items \o Tail(todo) /\ ItemsShown(items, markStamp') BY <1>4
<1> QED BY <1>2, <1>3, <1>5, MarksStep

LEMMA FormMacroMarks ==
  ASSUME IInv, MarksInv, FormMacro PROVE MarksInv'
<1> DEFINE a == Form(Expanded(item.x))
<1>1. /\ Current("form") /\ Heads(item.x, MACRO_OR) /\ ctx' = ctx /\ env' = env
      /\ IF OrPattern(item.x)
         THEN todo' = <<a>> \o Tail(todo) /\ markStamp' = markStamp + 1
         ELSE todo' = <<>> \o Tail(todo) /\ markStamp' = markStamp
  BY DEF FormMacro, FormUse, Do, tableVars, scopeVars
<1>2. todo # <<>> /\ item.do = "form" /\ IsSyntax(item.x) BY <1>1, FormItem
<1>3. IsExpr(item.x, markStamp) /\ markStamp \in Nat /\ KeysOK(env) BY <1>1, FormShown
<1>4. CASE OrPattern(item.x)
  <2>1. IsUse(item.x, markStamp) BY <1>1, <1>3, HeadsOr
  <2>2. IsShown(Expanded(item.x), markStamp + 1) BY <1>3, <1>4, <2>1, ExpandedShown
  <2>3. ItemShown(a, markStamp + 1) BY <2>2, PlainItemsShown
  <2> HIDE DEF a
  <2> QED BY <1>1, <1>2, <1>4, <2>3, ExpansionMarks
<1>5. CASE ~OrPattern(item.x) BY <1>1, <1>2, <1>3, <1>5, NothingMore
<1> QED BY <1>4, <1>5

LEMMA CompileMacroMarks ==
  ASSUME IInv, MarksInv, CompileMacro PROVE MarksInv'
<1> DEFINE a == Expr(Expanded(item.x), item.in)
<1>1. /\ Current("expr") /\ Heads(item.x, MACRO_OR) /\ ctx' = ctx /\ env' = env
      /\ IF OrPattern(item.x)
         THEN todo' = <<a>> \o Tail(todo) /\ markStamp' = markStamp + 1
         ELSE Fails /\ markStamp' = markStamp
  BY DEF CompileMacro, ExpressionUse, Do, tableVars, scopeVars
<1>2. IsExpr(item.x, markStamp) /\ markStamp \in Nat /\ KeysOK(env) /\ todo # <<>>
  BY <1>1, ExpressionShown
<1>3. CASE OrPattern(item.x)
  <2>1. IsUse(item.x, markStamp) BY <1>1, <1>2, HeadsOr
  <2>2. IsShown(Expanded(item.x), markStamp + 1) BY <1>2, <1>3, <2>1, ExpandedShown
  <2>3. ItemShown(a, markStamp + 1) BY <2>2, PlainItemsShown DEF IsExpr
  <2> HIDE DEF a
  <2> QED BY <1>1, <1>2, <1>3, <2>3, ExpansionMarks
<1>4. CASE ~OrPattern(item.x) BY <1>1, <1>2, <1>4, FailsMarks
<1> QED BY <1>3, <1>4

LEMMA FormBeginMarks ==
  ASSUME IInv, MarksInv, FormBegin PROVE MarksInv'
<1> DEFINE a == Forms(cdr(item.x))
<1>1. /\ Current("form") /\ Heads(item.x, RES_BEGIN)
      /\ UNCHANGED <<markStamp, ctx>> /\ env' = env /\ todo' = <<a>> \o Tail(todo)
  BY DEF FormBegin, Do, tableVars, scopeVars
<1>2. todo # <<>> /\ KeysOK(env') /\ IsUser(cdr(item.x))
  BY <1>1, FormShown, ReservedFormShown DEF RES_BEGIN, MACRO_OR, RES_IF, RES_LET
<1>3. ItemShown(a, markStamp) BY <1>2, UserIsShown, PlainItemsShown
<1> HIDE DEF a
<1> QED BY <1>1, <1>2, <1>3, OneMore

LEMMA FormExpressionMarks ==
  ASSUME IInv, MarksInv, FormExpression PROVE MarksInv'
<1> DEFINE exprs == Append(ctx.exprs, item.x)
<1>1. /\ todo # <<>> /\ item.do = "form" /\ markStamp' = markStamp /\ env' = env
      /\ todo' = <<>> \o Tail(todo) /\ ctx' = [ctx EXCEPT !.exprs = exprs]
  BY DEF FormExpression, Current, Do, tableVars, scopeVars
<1>2. /\ IsShown(item.x, markStamp) /\ markStamp \in Nat /\ KeysOK(env')
      /\ CtxShown(ctx, markStamp) BY <1>1, CurrentShown DEF ItemShown
<1>3. /\ ctx \in [scope : {ctx.scope}, defns : {ctx.defns}, exprs : {ctx.exprs}]
      /\ IsSeq(ctx.exprs) BY DEF IInv, CtxOK, IsSyntaxSequence
<1>4. AllShown(exprs, markStamp) BY <1>2, <1>3, MoreShown DEF CtxShown
<1> HIDE DEF exprs
<1>5. ctx'.exprs = exprs /\ ctx'.defns = ctx.defns BY <1>1, <1>3
<1>6. CtxShown(ctx', markStamp') BY <1>1, <1>2, <1>4, <1>5 DEF CtxShown
<1>7. markStamp' \in Nat /\ markStamp <= markStamp' /\ ItemsShown(<<>>, markStamp')
  BY <1>1, <1>2, NoneShown
<1>8. \E items : todo' = items \o Tail(todo) /\ ItemsShown(items, markStamp')
  BY <1>1, <1>7
<1> QED BY <1>1, <1>2, <1>6, <1>7, <1>8, MarksStep

LEMMA AnonymousShown ==
  ASSUME NEW exprs, IsSeq(exprs), NEW n, AllShown(exprs, n)
  PROVE  IsBegin(Anonymous(exprs).x, n)
<1> DEFINE all == Append(exprs, BindingOf(m_unspec))
<1>1. Anonymous(exprs).x = Begin(all) BY DEF Anonymous
<1>2. IsSeq(all) /\ AllShown(all, n) BY AppendSequence, MoreShown, AtomsShown
<1> HIDE DEF all
<1>3. Begin(all).exprs = all BY DEF Begin
<1> QED BY <1>1, <1>2, <1>3 DEF IsBegin

LEMMA FormDefineMarks ==
  ASSUME IInv, MarksInv, FormDefine PROVE MarksInv'
<1> DEFINE form == cdr(item.x)
           target == car(form)
           rest == cdr(form)
           value == IF IsNil(rest) THEN BindingOf(m_unspec) ELSE car(rest)
           grouped == IF ctx.exprs = <<>> THEN ctx.defns
                      ELSE Append(ctx.defns, Anonymous(ctx.exprs))
           Defined(bnd) == Append(grouped, [bnd |-> bnd, x |-> value])
           Defines(bnd) == ctx' = [ctx EXCEPT !.exprs = <<>>, !.defns = Defined(bnd)]
<1>1. /\ Current("form") /\ Heads(item.x, RES_DEFINE) /\ todo' = <<>> \o Tail(todo)
      /\ markStamp' = markStamp
      /\ \/ UNCHANGED <<ctx, scopeVars>>
         \/ ctx' = [ctx EXCEPT !.exprs = <<>>, !.defns = grouped] /\ UNCHANGED scopeVars
         \/ /\ OneAndRest(form)
            /\ \/ Defines(Env!NoBinding) /\ UNCHANGED scopeVars
               \/ /\ Defines(nextVariable)
                  /\ IsSymbol(target) /\ BindVariable(target, ctx.scope)
  BY DEF FormDefine, Do
<1>2. /\ IsPair(item.x) /\ item.do = "form" /\ todo # <<>> /\ CtxOK(ctx)
  BY <1>1, FormItem DEF Heads
<1>3. markStamp \in Nat /\ KeysOK(env) /\ CtxShown(ctx, markStamp) BY <1>1, FormShown
<1>4. IsUser(form) BY <1>1, ReservedFormShown DEF RES_DEFINE, MACRO_OR, RES_IF, RES_LET
<1> HIDE DEF form
<1>5. /\ ctx \in [scope : {ctx.scope}, defns : {ctx.defns}, exprs : {ctx.exprs}]
      /\ IsSeq(ctx.exprs) /\ IsSeq(ctx.defns)
  BY <1>2 DEF CtxOK, IsSyntaxSequence
<1>6. IsSeq(grouped) /\ DefinitionsShown(grouped, markStamp)
  BY <1>3, <1>5, AnonymousShown, MoreDefinitionsShown, AppendSequence DEF CtxShown,
     IsExpr
<1>7. ASSUME NEW bnd, OneAndRest(form)
      PROVE  DefinitionsShown(Defined(bnd), markStamp)
  <2>1. IsUser(rest) /\ IsList(rest) BY <1>4, <1>7, UserCarCdr DEF OneAndRest
  <2>2. IsShown(value, markStamp)
    BY <2>1, UserCarCdr, UserIsShown, AtomsShown DEF IsList
  <2> HIDE DEF value, grouped
  <2>3. IsExpr([bnd |-> bnd, x |-> value].x, markStamp) BY <2>2 DEF IsExpr
  <2> QED BY <1>6, <2>3, MoreDefinitionsShown
<1>8. ASSUME NEW d, DefinitionsShown(d, markStamp),
             ctx' = [ctx EXCEPT !.exprs = <<>>, !.defns = d]
      PROVE  CtxShown(ctx', markStamp') BY <1>5, <1>8, <1>1, AtomsShown DEF CtxShown
<1> HIDE DEF grouped, Defined, target
<1>9. CtxShown(ctx', markStamp') BY <1>1, <1>3, <1>6, <1>7, <1>8
<1>10. KeysOK(env')
  <2>1. CASE UNCHANGED scopeVars BY <1>3, <2>1 DEF scopeVars
  <2>2. CASE OneAndRest(form) /\ IsSymbol(target) /\ BindVariable(target, ctx.scope)
    <3>1. IsUser(target) BY <1>4, <2>2, UserCarCdr DEF OneAndRest, target
    <3> DEFINE y == <<target.name, target.stamps>>
    <3>2. y[2] = <<>> \/ y[1] = "tmp" BY <2>2, <3>1, UserIsShown, NameIsKey
    <3>3. Env!Define(y, nextVariable) BY <2>2 DEF BindVariable
    <3> HIDE DEF y
    <3> QED BY <1>3, <3>2, <3>3, VariableKeepsKeys
  <2> QED BY <1>1, <2>1, <2>2
<1>11. markStamp' \in Nat /\ markStamp <= markStamp' /\ ItemsShown(<<>>, markStamp')
  BY <1>1, <1>3, NoneShown
<1>12. \E items : todo' = items \o Tail(todo) /\ ItemsShown(items, markStamp')
  BY <1>1, <1>11
<1> QED BY <1>2, <1>9, <1>10, <1>11, <1>12, MarksStep

LEMMA CompileBodyMarks ==
  ASSUME IInv, MarksInv, CompileBody PROVE MarksInv'
<1> DEFINE d == ctx.defns
           f == ctx.scope
           defns == DefinitionItems(d, f)
           exprs == Exprs(ctx.exprs, f)
           last == <<Make("body", <<Len(d), Len(exprs)>>, f)>>
           items == defns \o exprs \o last
<1>1. todo # <<>> /\ UNCHANGED <<markStamp, ctx>> /\ env' = env
  BY DEF CompileBody, Current, tableVars, scopeVars
<1>2. todo' = items \o Tail(todo) BY DEF CompileBody, DefinitionItems, Exprs, Do
<1>3. /\ AllShown(ctx.exprs, markStamp) /\ DefinitionsShown(d, markStamp)
      /\ markStamp \in Nat /\ KeysOK(env') BY <1>1, CurrentShown DEF CtxShown
<1>4. IsSeq(d) /\ IsSeq(ctx.exprs) /\ Len(d) \in Nat
  BY SequenceLen DEF IInv, CtxOK, IsSyntaxSequence
<1>5. ItemsShown(exprs, markStamp) BY <1>3, <1>4, ExprsShown
<1>6. ItemsShown(last, markStamp)
  <2> DEFINE m == Make("body", <<Len(d), Len(exprs)>>, f)
  <2>1. ItemShown(m, markStamp) BY PlainItemsShown
  <2>2. last = <<m>> OBVIOUS
  <2> HIDE DEF m, last
  <2> QED BY <2>1, <2>2, OneShown
<1>7. ItemsShown(defns, markStamp)
  <2> DEFINE k == 2 * Len(d)
             S == {defns[i] : i \in 1..k}
  <2>1. k \in Nat BY <1>4
  <2>2. defns \in [1..k -> S] BY DEF DefinitionItems
  <2>3. IsSeq(defns) /\ Len(defns) = k
    <3> HIDE DEF S, k, defns
    <3> QED BY <2>1, <2>2, IndexedSequence
  <2>4. ASSUME NEW i \in 1..k
        PROVE  ItemShown(defns[i], markStamp)
    <3>1. CASE i % 2 = 1
      <4>1. defns[i] = Expr(d[(i + 1) \div 2].x, f) BY <3>1 DEF DefinitionItems
      <4>2. (i + 1) \div 2 \in 1..Len(d) BY <1>4, <3>1
      <4>3. IsExpr(d[(i + 1) \div 2].x, markStamp) BY <1>3, <4>2 DEF DefinitionsShown
      <4> QED BY <4>1, <4>3, PlainItemsShown
    <3>2. CASE i % 2 # 1 BY <3>2, PlainItemsShown DEF DefinitionItems
    <3> QED BY <3>1, <3>2
  <2> HIDE DEF defns
  <2> QED BY <2>3, <2>4 DEF ItemsShown
<1> HIDE DEF defns, exprs, last
<1>8. ItemsShown(items, markStamp) BY <1>5, <1>7, <1>6, BothShown
<1> HIDE DEF items
<1> QED BY <1>1, <1>2, <1>3, <1>8, MarksStay

LEMMA CompileCallMarks ==
  ASSUME IInv, MarksInv, CompileCall PROVE MarksInv'
<1> DEFINE h == isBinding(car(item.x))
           a == Expr(car(item.x), item.in)
           b == Args(cdr(item.x), "apply", 0, item.in)
<1>1. /\ Current("expr") /\ IsPair(item.x) /\ (h = Env!NoBinding \/ IsVariable(h))
      /\ UNCHANGED <<markStamp, ctx>> /\ env' = env /\ todo' = <<a, b>> \o Tail(todo)
  BY DEF CompileCall, Do, tableVars, scopeVars
<1>2. h \notin {MACRO_OR, RES_IF, RES_LET}
  <2> HIDE DEF h
  <2> QED BY <1>1 DEF IsVariable, Env!NoBinding, MACRO_OR, RES_IF, RES_LET
<1>3. todo # <<>> /\ KeysOK(env) /\ IsUser(car(item.x)) /\ IsUser(cdr(item.x))
  BY <1>1, <1>2, ExpressionShown, HeadsUser
<1>4. ItemShown(a, markStamp) /\ ItemShown(b, markStamp)
  BY <1>3, UserIsShown, PlainItemsShown
<1>5. KeysOK(env') BY <1>1, <1>3
<1> HIDE DEF a, b
<1> QED BY <1>1, <1>3, <1>4, <1>5, TwoMore

LEMMA CompileBeginMarks ==
  ASSUME IInv, MarksInv, CompileBegin PROVE MarksInv'
<1> DEFINE a == Args(cdr(item.x), "begin", 0, item.in)
           exprs == Exprs(item.x.exprs, item.in)
           m == Make("begin", <<Len(item.x.exprs)>>, item.in)
<1>1. /\ Current("expr") /\ UNCHANGED <<markStamp, ctx>> /\ env' = env
      /\ \/ Heads(item.x, RES_BEGIN) /\ todo' = <<a>> \o Tail(todo)
         \/ item.x.k = "begin" /\ todo' = (exprs \o <<m>>) \o Tail(todo)
  BY DEF CompileBegin, Exprs, Do, tableVars, scopeVars
<1>2. todo # <<>> /\ IsExpr(item.x, markStamp) /\ markStamp \in Nat /\ KeysOK(env')
  BY <1>1, ExpressionShown
<1>3. CASE Heads(item.x, RES_BEGIN) /\ todo' = <<a>> \o Tail(todo)
  <2>1. IsUser(cdr(item.x))
    BY <1>1, <1>3, ReservedShown DEF RES_BEGIN, MACRO_OR, RES_IF, RES_LET
  <2>2. ItemShown(a, markStamp) BY <2>1, PlainItemsShown
  <2> HIDE DEF a
  <2> QED BY <1>1, <1>2, <1>3, <2>2, OneMore
<1>4. CASE item.x.k = "begin" /\ todo' = (exprs \o <<m>>) \o Tail(todo)
  <2>1. IsSeq(item.x.exprs) /\ AllShown(item.x.exprs, markStamp)
    BY <1>2, <1>4, ShownKinds DEF IsBegin
  <2>2. ItemsShown(exprs, markStamp) BY <2>1, ExprsShown
  <2>3. ItemShown(m, markStamp) BY PlainItemsShown
  <2> HIDE DEF exprs, m
  <2>4. ItemsShown(exprs \o <<m>>, markStamp) BY <2>2, <2>3, OneShown, BothShown
  <2> QED BY <1>1, <1>2, <1>4, <2>4, MarksStay
<1> QED BY <1>1, <1>3, <1>4

LEMMA CompileArgsMarks ==
  ASSUME IInv, MarksInv, CompileArgs PROVE MarksInv'
<1> DEFINE a == Expr(car(item.x), item.in)
           b == Args(cdr(item.x), item.op, item.n + 1, item.in)
<1>1. /\ todo # <<>> /\ item.do = "args" /\ UNCHANGED <<markStamp, ctx>> /\ env' = env
      /\ IF IsPair(item.x) THEN todo' = <<a, b>> \o Tail(todo) ELSE todo' = <<>> \o Tail(todo)
  BY DEF CompileArgs, Current, Makes, Do, tableVars, scopeVars
<1>2. IsUser(item.x) /\ KeysOK(env') BY <1>1, CurrentShown DEF ItemShown
<1>3. CASE IsPair(item.x)
  <2>1. IsUser(car(item.x)) /\ IsUser(cdr(item.x)) BY <1>2, <1>3, UserCarCdr
  <2>2. ItemShown(a, markStamp) /\ ItemShown(b, markStamp)
    BY <2>1, UserIsShown, PlainItemsShown
  <2> HIDE DEF a, b
  <2> QED BY <1>1, <1>2, <1>3, <2>2, TwoMore
<1>4. CASE ~IsPair(item.x) BY <1>1, <1>2, <1>4, NothingMore
<1> QED BY <1>3, <1>4

LEMMA AllShownConcat ==
  ASSUME NEW n, NEW s, NEW t, IsSeq(s), IsSeq(t), AllShown(s, n), AllShown(t, n)
  PROVE  AllShown(s \o t, n)
<1>1. Len(s) \in Nat /\ Len(t) \in Nat BY SequenceLen
<1>2. /\ Len(s \o t) = Len(s) + Len(t)
      /\ \A i \in 1..Len(s) : (s \o t)[i] = s[i]
      /\ \A i \in 1..Len(t) : (s \o t)[Len(s) + i] = t[i] BY ConcatSequence
<1>3. ASSUME NEW i \in 1..Len(s \o t)
      PROVE  IsShown((s \o t)[i], n) BY <1>1, <1>2 DEF AllShown
<1> QED BY <1>3 DEF AllShown

LEMMA IfPartsShown ==
  ASSUME NEW n, NEW form,
         IsShown(car(form), n), IsShown(car(cdr(form)), n),
         IsPair(cdr(cdr(form))) => IsShown(car(cdr(cdr(form))), n)
  PROVE  AllShown(IfParts(form), n)
<1> DEFINE rest == cdr(cdr(form))
           s == <<car(form), car(cdr(form))>>
           t == IF IsPair(rest) THEN <<car(rest)>> ELSE <<>>
<1>1. IfParts(form) = s \o t BY DEF IfParts
<1>2. IsSeq(s) /\ AllShown(s, n)
  <2>1. IsSeq(s) /\ Len(s) = 2 /\ s[1] = car(form) /\ s[2] = car(cdr(form))
    BY Sequence2
  <2> HIDE DEF s
  <2>2. \A i \in 1..2 : IsShown(s[i], n) BY <2>1
  <2> QED BY <2>1, <2>2 DEF AllShown
<1>3. IsSeq(t) /\ AllShown(t, n)
  <2>1. CASE IsPair(rest)
    <3>1. t = <<car(rest)>> BY <2>1
    <3>2. IsSeq(<<car(rest)>>)
          /\ \A i \in 1..Len(<<car(rest)>>) : <<car(rest)>>[i] = car(rest) BY Sequence1
    <3>3. IsShown(car(rest), n) BY <2>1
    <3> HIDE DEF t, rest
    <3> QED BY <3>1, <3>2, <3>3 DEF AllShown
  <2>2. CASE ~IsPair(rest) BY <2>2, EmptySequence, AtomsShown
  <2> QED BY <2>1, <2>2
<1> HIDE DEF s, t
<1> QED BY <1>1, <1>2, <1>3, AllShownConcat

LEMMA CompileIfMarks ==
  ASSUME IInv, MarksInv, CompileIf PROVE MarksInv'
<1> DEFINE form == cdr(item.x)
           parts == IfParts(form)
           last == <<Make("if", <<Len(parts)>>, item.in)>>
<1>1. /\ Current("expr") /\ Heads(item.x, RES_IF) /\ UNCHANGED <<markStamp, ctx>> /\ env' = env
      /\ IF TwoAndRest(form) THEN todo' = (Exprs(parts, item.in) \o last) \o Tail(todo) ELSE Fails
  BY DEF CompileIf, IfParts, Exprs, Do, tableVars, scopeVars
<1>2. /\ todo # <<>> /\ markStamp \in Nat /\ KeysOK(env')
      /\ IsPair(item.x) /\ IsSyntax(item.x) /\ IsExpr(item.x, markStamp)
  BY <1>1, ExpressionShown DEF Heads
<1>3. CASE ~TwoAndRest(form) BY <1>1, <1>2, <1>3, FailsMarks
<1>4. CASE TwoAndRest(form)
  <2>1. IsSeq(parts)
    BY <1>2, <1>4, CarCdrSyntax, IfPartsProperties DEF IsSyntaxSequence
  <2>5. AllShown(parts, markStamp)
    <3>1. IsUser(item.x) \/ IsIf(item.x, markStamp)
      BY <1>1, <1>2, ExpressionShown, HeadOfExpr DEF Heads, RES_IF, RES_LET, MACRO_OR
    <3>2. CASE IsUser(item.x)
      <4>1. IsUser(form) BY <1>2, <3>2, UserCarCdr
      <4> HIDE DEF form
      <4> QED BY <1>4, <4>1, UserIfParts, IfPartsShown
    <3>3. CASE IsIf(item.x, markStamp) BY <1>2, <3>3, IfMadeParts, IfPartsShown
    <3> QED BY <3>1, <3>2, <3>3
  <2> HIDE DEF parts
  <2>2. ItemsShown(Exprs(parts, item.in), markStamp) BY <2>1, <2>5, ExprsShown
  <2>3. ItemsShown(last, markStamp) BY OneShown, PlainItemsShown
  <2> HIDE DEF last
  <2>4. ItemsShown(Exprs(parts, item.in) \o last, markStamp) BY <2>2, <2>3, BothShown
  <2> QED BY <1>1, <1>2, <1>4, <2>4, MarksStay
<1> QED BY <1>3, <1>4

LEMMA CompileSetBangMarks ==
  ASSUME IInv, MarksInv, CompileSetBang PROVE MarksInv'
<1> DEFINE form == cdr(item.x)
           h == isBinding(car(form))
           a == Expr(car(cdr(form)), item.in)
           b == Make("set", <<h>>, item.in)
<1>1. /\ Current("expr") /\ Heads(item.x, RES_SETBANG)
      /\ UNCHANGED <<markStamp, ctx>> /\ env' = env
      /\ IF Two(form) /\ IsVariable(h) THEN todo' = <<a, b>> \o Tail(todo) ELSE Fails
  BY DEF CompileSetBang, Do, tableVars, scopeVars
<1>2. todo # <<>> /\ markStamp \in Nat /\ KeysOK(env') /\ IsUser(form)
  BY <1>1, ReservedShown DEF RES_SETBANG, MACRO_OR, RES_IF, RES_LET
<1>3. CASE ~(Two(form) /\ IsVariable(h)) BY <1>1, <1>2, <1>3, FailsMarks
<1>4. CASE Two(form) /\ IsVariable(h)
  <2>1. IsUser(car(cdr(form))) BY <1>2, <1>4, UserCarCdr DEF Two
  <2>2. ItemShown(a, markStamp) /\ ItemShown(b, markStamp)
    BY <2>1, UserIsShown, PlainItemsShown
  <2> HIDE DEF a, b
  <2> QED BY <1>1, <1>2, <1>4, <2>2, TwoMore
<1> QED BY <1>3, <1>4

(* lambda *)
LEMMA CompileLambdaMarks ==
  ASSUME IInv, MarksInv, CompileLambda PROVE MarksInv'
<1> DEFINE form == cdr(item.x)
           a == Params(car(form), cdr(form), nextScope)
<1>1. /\ Current("expr") /\ Heads(item.x, RES_LAMBDA) /\ UNCHANGED <<markStamp, ctx>>
      /\ IF OneAndRest(form) THEN NewScope(item.in) /\ todo' = <<a>> \o Tail(todo)
         ELSE Fails /\ env' = env BY DEF CompileLambda, Do, scopeVars
<1>2. todo # <<>> /\ markStamp \in Nat /\ KeysOK(env) /\ IsUser(form)
  BY <1>1, ReservedShown DEF RES_LAMBDA, MACRO_OR, RES_IF, RES_LET
<1>3. CASE ~OneAndRest(form) BY <1>1, <1>2, <1>3, FailsMarks
<1>4. CASE OneAndRest(form)
  <2>1. IsUser(car(form)) /\ IsUser(cdr(form)) BY <1>2, <1>4, UserCarCdr DEF OneAndRest
  <2>2. ItemShown(a, markStamp) BY <2>1 DEF ItemShown, Params
  <2>3. KeysOK(env') BY <1>1, <1>2, <1>4, ScopeKeepsKeys
  <2> HIDE DEF a
  <2> QED BY <1>1, <1>2, <1>4, <2>2, <2>3, OneMore
<1> QED BY <1>3, <1>4

LEMMA ParamsShown ==
  ASSUME IInv, MarksInv, Current("params")
  PROVE  /\ todo # <<>> /\ markStamp \in Nat /\ KeysOK(env)
         /\ IsUser(item.x) /\ IsUser(item.body)
         /\ item \in [do : {"params"}, x : {item.x}, body : {item.body}, vars : {item.vars},
                      first : {item.first}, scope : {item.scope}]
BY ParamsItem, CurrentShown DEF ItemShown

LEMMA LambdaParamMarks ==
  ASSUME IInv, MarksInv, LambdaParam PROVE MarksInv'
<1> DEFINE rest == cdr(item.x)
           vs == item.vars \o AddedParam(car(item.x))
           a == [item EXCEPT !.x = rest, !.first = FALSE, !.vars = vs]
<1>1. /\ Current("params") /\ IsPair(item.x) /\ DefineParam(car(item.x), item.scope)
      /\ UNCHANGED <<markStamp, ctx>> /\ todo' = <<a>> \o Tail(todo)
  BY DEF LambdaParam, Do
<1>2. /\ todo # <<>> /\ markStamp \in Nat /\ KeysOK(env)
      /\ IsUser(item.x) /\ IsUser(item.body)
      /\ item \in [do : {"params"}, x : {item.x}, body : {item.body}, vars : {item.vars},
                   first : {item.first}, scope : {item.scope}] BY <1>1, ParamsShown
<1>3. KeysOK(env') BY <1>1, <1>2, UserCarCdr, UserIsShown, ParamKeepsKeys
<1>4. IsUser(rest) BY <1>1, <1>2, UserCarCdr
<1> HIDE DEF rest, vs
<1>5. a.do = "params" /\ a.x = rest /\ a.body = item.body BY <1>2
<1> HIDE DEF a
<1>6. ItemShown(a, markStamp) BY <1>2, <1>4, <1>5 DEF ItemShown
<1> QED BY <1>1, <1>2, <1>3, <1>6, OneMore

LEMMA LambdaListParamMarks ==
  ASSUME IInv, MarksInv, LambdaListParam PROVE MarksInv'
<1> DEFINE a == Body(item.body, "lambda list", item.vars \o AddedParam(item.x), item.scope)
<1>1. /\ Current("params") /\ DefineParam(item.x, item.scope)
      /\ UNCHANGED <<markStamp, ctx>> /\ todo' = <<a>> \o Tail(todo)
  BY DEF LambdaListParam, Do
<1>2. todo # <<>> /\ KeysOK(env) /\ IsUser(item.body) /\ IsName(item.x, markStamp)
  BY <1>1, ParamsShown, UserIsShown
<1>3. KeysOK(env') BY <1>1, <1>2, ParamKeepsKeys
<1>4. ItemShown(a, markStamp) BY <1>2, UserIsShown, PlainItemsShown
<1> HIDE DEF a
<1> QED BY <1>1, <1>2, <1>3, <1>4, OneMore

LEMMA LambdaParamsEndMarks ==
  ASSUME IInv, MarksInv, LambdaParamsEnd PROVE MarksInv'
<1> DEFINE a == Make("unspecified", <<>>, frames[item.scope])
           p == Pop(item.scope)
           b == Body(item.body, "lambda", item.vars, item.scope)
<1>1. /\ Current("params") /\ UNCHANGED <<markStamp, ctx>> /\ env' = env
      /\ IF item.first THEN todo' = <<a, p>> \o Tail(todo) ELSE todo' = <<b>> \o Tail(todo)
  BY DEF LambdaParamsEnd, Do, tableVars, scopeVars
<1>2. todo # <<>> /\ KeysOK(env') /\ IsUser(item.body) BY <1>1, ParamsShown
<1>3. ItemShown(a, markStamp) /\ ItemShown(p, markStamp) /\ ItemShown(b, markStamp)
  BY <1>2, UserIsShown, PlainItemsShown
<1> HIDE DEF a, p, b
<1>4. CASE item.first BY <1>1, <1>2, <1>3, <1>4, TwoMore
<1>5. CASE ~item.first BY <1>1, <1>2, <1>3, <1>5, OneMore
<1> QED BY <1>4, <1>5

LEMMA CompileLambdaBodyMarks ==
  ASSUME IInv, MarksInv, CompileLambdaBody PROVE MarksInv'
<1> DEFINE hs == BodyItems(item.x)
           m == Make(item.op, item.of, item.in)
           p == Pop(nextScope)
           q == Pop(item.in)
           ts == <<m, p, q>>
           items == hs \o ts
<1>1. /\ todo # <<>> /\ item.do = "body" /\ NewScope(item.in) /\ ctx' = NewContext(nextScope)
      /\ todo' = items \o Tail(todo) /\ markStamp' = markStamp
  BY DEF CompileLambdaBody, Do, Current, BodyItems
<1>2. IsFormList(item.x, markStamp) /\ markStamp \in Nat /\ KeysOK(env)
  BY <1>1, CurrentShown DEF ItemShown
<1>3. KeysOK(env') BY <1>1, <1>2, ScopeKeepsKeys
<1>4. CtxShown(ctx', markStamp')
  BY <1>1, EmptySequence, AtomsShown DEF NewContext, CtxShown, DefinitionsShown
<1>5. ItemsShown(hs, markStamp)
  <2>1. CASE IsNil(item.x) BY <2>1, PlainItemsShown, OneShown DEF BodyItems
  <2>2. CASE ~IsNil(item.x)
    <3> DEFINE a == Forms(item.x)
    <3>1. ItemShown(a, markStamp) /\ ItemShown(EndBody, markStamp)
      BY <1>2, PlainItemsShown
    <3>2. hs = <<a, EndBody>> BY <2>2 DEF BodyItems
    <3> HIDE DEF a, hs
    <3> QED BY <3>1, <3>2, TwoShown
  <2> QED BY <2>1, <2>2
<1>6. ItemsShown(ts, markStamp)
  <2>1. ItemShown(m, markStamp) /\ ItemShown(p, markStamp) /\ ItemShown(q, markStamp)
    BY PlainItemsShown
  <2> HIDE DEF m, p, q
  <2>2. IsSeq(ts) /\ Len(ts) = 3 /\ ts[1] = m /\ ts[2] = p /\ ts[3] = q
    BY Sequence3
  <2> HIDE DEF ts
  <2>3. \A i \in 1..3 : ItemShown(ts[i], markStamp) BY <2>1, <2>2
  <2> QED BY <2>2, <2>3 DEF ItemsShown
<1> HIDE DEF hs, ts
<1>7. ItemsShown(items, markStamp') BY <1>1, <1>5, <1>6, BothShown
<1>8. markStamp' \in Nat /\ markStamp <= markStamp' BY <1>1, <1>2
<1> HIDE DEF items
<1> QED BY <1>1, <1>3, <1>4, <1>7, <1>8, MarksStep

(* let *)
LEMMA MoreNames ==
  ASSUME NEW s, IsSeq(s), NEW x
  PROVE  /\ \A n : AllNames(s, n) /\ IsName(x, n) => AllNames(Append(s, x), n)
         /\ AllUser(s) /\ IsUser(x) => AllUser(Append(s, x))
BY SequenceLen, AppendSequence DEF AllNames, AllUser

LEMMA CompileLetMarks ==
  ASSUME IInv, MarksInv, CompileLet PROVE MarksInv'
<1> DEFINE form == cdr(item.x)
           a == Inits(car(form), cdr(form), item.in)
<1>1. /\ Current("expr") /\ Heads(item.x, RES_LET) /\ UNCHANGED <<markStamp, ctx>> /\ env' = env
      /\ IF OneAndRest(form) /\ IsList(car(form)) THEN todo' = <<a>> \o Tail(todo) ELSE Fails
  BY DEF CompileLet, Do, tableVars, scopeVars
<1>2. /\ todo # <<>> /\ markStamp \in Nat /\ KeysOK(env) /\ KeysOK(env')
      /\ IsPair(item.x) /\ IsExpr(item.x, markStamp) BY <1>1, ExpressionShown DEF Heads
<1>3. CASE ~(OneAndRest(form) /\ IsList(car(form))) BY <1>1, <1>2, <1>3, FailsMarks
<1>4. CASE OneAndRest(form) /\ IsList(car(form))
  <2>1. IsVarList(car(form), markStamp) /\ IsFormList(cdr(form), markStamp)
    <3>1. IsUser(item.x) \/ IsLet(item.x, markStamp)
      BY <1>1, <1>2, HeadOfExpr DEF Heads, RES_IF, RES_LET, MACRO_OR
    <3>2. CASE IsUser(item.x)
      <4>1. IsUser(form) BY <1>2, <3>2, UserCarCdr
      <4> HIDE DEF form
      <4> QED BY <1>4, <4>1, UserCarCdr, UserIsShown DEF OneAndRest
    <3>3. CASE IsLet(item.x, markStamp)
      BY <1>2, <3>3, LetMadeParts DEF IsVarList, IsFormList
    <3> QED BY <3>1, <3>2, <3>3
  <2>2. ItemShown(a, markStamp)
    BY <2>1, EmptySequence DEF AllNames, AllUser, ItemShown, Inits
  <2> HIDE DEF a
  <2> QED BY <1>1, <1>2, <1>4, <2>2, OneMore
<1> QED BY <1>3, <1>4

LEMMA InitsShown ==
  ASSUME IInv, MarksInv, Current("inits")
  PROVE  /\ todo # <<>> /\ markStamp \in Nat /\ KeysOK(env)
         /\ IsVarList(item.x, markStamp) /\ IsFormList(item.body, markStamp)
         /\ IsSeq(item.names) /\ AllNames(item.names, markStamp)
         /\ IsSeq(item.values) /\ AllUser(item.values)
         /\ item \in [do : {"inits"}, x : {item.x}, body : {item.body}, names : {item.names},
                      values : {item.values}, in : {item.in}]
BY InitsItem, CurrentShown DEF IsSyntaxSequence, ItemShown

LEMMA LetInitMarks ==
  ASSUME IInv, MarksInv, LetInit PROVE MarksInv'
<1> DEFINE init == car(item.x)
           rest == cdr(item.x)
           ns == Append(item.names, car(init))
           vs == Append(item.values, car(cdr(init)))
           a == [item EXCEPT !.x = rest, !.names = ns, !.values = vs]
           b == [item EXCEPT !.x = rest]
           next == IF Two(init) THEN a ELSE b
<1>1. /\ Current("inits") /\ IsPair(item.x) /\ UNCHANGED <<markStamp, ctx>> /\ env' = env
      /\ todo' = <<next>> \o Tail(todo) BY DEF LetInit, Do, tableVars, scopeVars
<1>2. /\ todo # <<>> /\ markStamp \in Nat /\ KeysOK(env')
      /\ IsVarList(item.x, markStamp) /\ IsFormList(item.body, markStamp)
      /\ IsSeq(item.names) /\ AllNames(item.names, markStamp)
      /\ IsSeq(item.values) /\ AllUser(item.values)
      /\ item \in [do : {"inits"}, x : {item.x}, body : {item.body}, names : {item.names},
                   values : {item.values}, in : {item.in}] BY <1>1, InitsShown
<1>3. /\ IsVarList(rest, markStamp)
      /\ Two(init) => IsName(car(init), markStamp) /\ IsUser(car(cdr(init)))
  BY <1>1, <1>2, VarListParts
<1>4. ItemShown(b, markStamp)
  <2> HIDE DEF rest
  <2>1. /\ b.do = "inits" /\ b.x = rest /\ b.body = item.body
        /\ b.names = item.names /\ b.values = item.values BY <1>2
  <2> HIDE DEF b
  <2> QED BY <1>2, <1>3, <2>1 DEF ItemShown
<1>5. ASSUME Two(init)
      PROVE  ItemShown(a, markStamp)
  <2>1. IsName(car(init), markStamp) /\ IsUser(car(cdr(init))) BY <1>3, <1>5
  <2>2. AllNames(ns, markStamp) /\ AllUser(vs) BY <1>2, <2>1, MoreNames
  <2> HIDE DEF rest, ns, vs
  <2>3. /\ a.do = "inits" /\ a.x = rest /\ a.body = item.body /\ a.names = ns /\ a.values = vs
    BY <1>2
  <2> HIDE DEF a
  <2> QED BY <1>2, <1>3, <2>2, <2>3 DEF ItemShown
<1>6. ItemShown(next, markStamp) BY <1>4, <1>5
<1> HIDE DEF next
<1> QED BY <1>1, <1>2, <1>6, OneMore

LEMMA LetValuesMarks ==
  ASSUME IInv, MarksInv, LetValues PROVE MarksInv'
<1> DEFINE a == LetScope(item)
           exprs == Exprs(item.values, item.in)
<1>1. /\ Current("inits") /\ UNCHANGED <<markStamp, ctx>> /\ env' = env
      /\ todo' = (exprs \o <<a>>) \o Tail(todo)
  BY DEF LetValues, Exprs, Do, tableVars, scopeVars
<1>2. /\ todo # <<>> /\ KeysOK(env') /\ IsFormList(item.body, markStamp)
      /\ AllNames(item.names, markStamp)
      /\ IsSeq(item.values) /\ AllShown(item.values, markStamp)
  BY <1>1, InitsShown, UserIsShown DEF AllUser, AllShown
<1>3. ItemShown(a, markStamp) BY <1>2 DEF ItemShown, LetScope
<1>4. ItemsShown(exprs, markStamp) BY <1>2, ExprsShown
<1> HIDE DEF a, exprs
<1>5. ItemsShown(exprs \o <<a>>, markStamp) BY <1>3, <1>4, OneShown, BothShown
<1> QED BY <1>1, <1>2, <1>5, MarksStay

LEMMA EnterLetMarks ==
  ASSUME IInv, MarksInv, EnterLet PROVE MarksInv'
<1> DEFINE a == LetVars(item, nextScope)
<1>1. /\ todo # <<>> /\ item.do = "letScope" /\ NewScope(item.in) /\ UNCHANGED <<markStamp, ctx>>
      /\ todo' = <<a>> \o Tail(todo) BY DEF EnterLet, Current, Do
<1>2. /\ KeysOK(env) /\ IsFormList(item.body, markStamp) /\ AllNames(item.names, markStamp)
  BY <1>1, CurrentShown DEF ItemShown
<1>3. ItemShown(a, markStamp) BY <1>2 DEF ItemShown, LetVars
<1>4. KeysOK(env') BY <1>1, <1>2, ScopeKeepsKeys
<1> HIDE DEF a
<1> QED BY <1>1, <1>3, <1>4, OneMore

LEMMA LetVarMarks ==
  ASSUME IInv, MarksInv, LetVar PROVE MarksInv'
<1> DEFINE ns == Tail(item.names)
           vs == item.vars \o AddedParam(Head(item.names))
           a == [item EXCEPT !.names = ns, !.vars = vs]
<1>1. /\ Current("letVars") /\ item.names # <<>> /\ DefineParam(Head(item.names), item.scope)
      /\ UNCHANGED <<markStamp, ctx>> /\ todo' = <<a>> \o Tail(todo) BY DEF LetVar, Do
<1>2. /\ todo # <<>> /\ item.do = "letVars" /\ IsSeq(item.names)
      /\ item \in [do : {"letVars"}, body : {item.body}, names : {item.names}, n : {item.n},
                   vars : {item.vars}, scope : {item.scope}]
  BY <1>1, LetVarsItem DEF IsSyntaxSequence
<1>3. KeysOK(env) /\ IsFormList(item.body, markStamp) /\ AllNames(item.names, markStamp)
  BY <1>2, CurrentShown DEF ItemShown
<1>4. KeysOK(env')
  BY <1>1, <1>2, <1>3, SequenceLen, TailSequence, ParamKeepsKeys DEF AllNames
<1>5. AllNames(ns, markStamp)
  <2>1. Len(item.names) \in Nat /\ Len(ns) = Len(item.names) - 1
        /\ \A i \in 1..(Len(item.names) - 1) : ns[i] = item.names[i + 1]
    BY <1>1, <1>2, SequenceLen, TailSequence
  <2> HIDE DEF ns
  <2>2. \A i \in 1..Len(ns) : i + 1 \in 1..Len(item.names) /\ ns[i] = item.names[i + 1]
    BY <2>1
  <2> QED BY <1>3, <2>2 DEF AllNames
<1> HIDE DEF ns, vs
<1>6. a.do = "letVars" /\ a.body = item.body /\ a.names = ns BY <1>2
<1> HIDE DEF a
<1>7. ItemShown(a, markStamp) BY <1>3, <1>5, <1>6 DEF ItemShown
<1> QED BY <1>1, <1>2, <1>4, <1>7, OneMore

LEMMA LetBodyMarks ==
  ASSUME IInv, MarksInv, LetBody PROVE MarksInv'
<1> DEFINE a == Body(item.body, "let", item.vars \o <<item.n>>, item.scope)
<1>1. /\ todo # <<>> /\ item.do = "letVars" /\ UNCHANGED <<markStamp, ctx>> /\ env' = env
      /\ todo' = <<a>> \o Tail(todo) BY DEF LetBody, Current, Do, tableVars, scopeVars
<1>2. KeysOK(env') /\ IsFormList(item.body, markStamp)
  BY <1>1, CurrentShown DEF ItemShown
<1>3. ItemShown(a, markStamp) BY <1>2, PlainItemsShown
<1> HIDE DEF a
<1> QED BY <1>1, <1>2, <1>3, OneMore

-----------------------------------------------------------------------------
LEMMA InitMarks ==
  ASSUME Init PROVE MarksInv
<1> DEFINE a == Forms(source)
           m == Make("module", <<>>, SystemScope)
<1>1. /\ source \in Source /\ todo = <<a, EndBody, m>> /\ ctx = NewContext(LibraryScope)
      /\ env = <<[scope |-> SystemScope, vars |-> SystemBindings],
                 [scope |-> LibraryScope, vars |-> [x \in {} |-> Env!NoBinding]]>>
  BY DEF Init
<1>2. IsFormList(source, markStamp) BY <1>1, UserSyntax, SyntaxAssumption DEF IsFormList
<1>3. ItemShown(a, markStamp) /\ ItemShown(EndBody, markStamp) /\ ItemShown(m, markStamp)
  BY <1>2, PlainItemsShown
<1>4. ItemsShown(todo, markStamp)
  <2> HIDE DEF a, m
  <2>1. /\ IsSeq(todo) /\ Len(todo) = 3
        /\ todo[1] = a /\ todo[2] = EndBody /\ todo[3] = m BY <1>1, Sequence3
  <2>2. \A i \in 1..3 : ItemShown(todo[i], markStamp) BY <1>3, <2>1
  <2> QED BY <2>1, <2>2 DEF ItemsShown
<1>5. CtxShown(ctx, markStamp)
  BY <1>1, EmptySequence, AtomsShown DEF NewContext, CtxShown, DefinitionsShown
<1>6. KeysOK(env)
  <2> DEFINE e1 == [scope |-> SystemScope, vars |-> SystemBindings]
             e2 == [scope |-> LibraryScope, vars |-> [x \in {} |-> Env!NoBinding]]
  <2>1. env = <<e1, e2>> /\ e1.vars = SystemBindings /\ DOMAIN e2.vars = {} BY <1>1
  <2> HIDE DEF e1, e2
  <2>2. Len(env) = 2 /\ env[1] = e1 /\ env[2] = e2 BY <2>1, Sequence2
  <2>3. \A i \in 2..Len(env) : i = 2 BY <2>2
  <2> QED BY <2>1, <2>2, <2>3 DEF KeysOK
<1> QED BY <1>4, <1>5, <1>6 DEF MarksInv

LEMMA NextMarks ==
  ASSUME IInv, MarksInv, [Next]_vars PROVE MarksInv'
<1>1. CASE UNCHANGED vars BY <1>1 DEF vars, scopeVars, MarksInv
<1>2. CASE Next
  BY <1>2, EndsMarks, PopScopeMarks, ParseBodyMarks, FormMacroMarks, FormBeginMarks,
     FormDefineMarks, FormExpressionMarks, CompileBodyMarks, CompileMacroMarks,
     CompileCallMarks, CompileBeginMarks, CompileArgsMarks, CompileIfMarks,
     CompileSetBangMarks, CompileLambdaMarks, LambdaParamMarks, LambdaListParamMarks,
     LambdaParamsEndMarks, CompileLambdaBodyMarks, CompileLetMarks, LetInitMarks,
     LetValuesMarks, EnterLetMarks, LetVarMarks, LetBodyMarks, Zenon
     DEF Next, CoreNext
<1> QED BY <1>1, <1>2

LEMMA ShownSymbols ==
  ASSUME NEW n, NEW x, IsShown(x, n), IsSymbol(x)
  PROVE  x.stamps = x.mark /\ (x.mark # <<>> => \E m \in 1..n : x.mark = <<m>>)
<1>1. \/ IsUser(x)
      \/ IsTmp(x, n)
  <2>1. ~IsSymbol(BindingOf(m_unspec)) /\ \A m, a, d : ~IsSymbol(Made(m, a, d))
    BY DEF IsSymbol, BindingOf, Made
  <2>2. /\ \A m, a, b, r : ~IsSymbol(MadeLet(m, a, b, r))
        /\ \A m, b, r : ~IsSymbol(MadeIf(m, b, r)) /\ ~IsSymbol(MadeOr(m, b, r))
    BY <2>1 DEF MadeLet, MadeIf, MadeOr
  <2> QED BY <2>1, <2>2 DEF IsShown, IsName, IsLet, IsIf, IsOr
<1>2. CASE IsUser(x) BY <1>2, UserParts DEF IsSymbol, Value, Nil
<1>3. CASE IsTmp(x, n) BY <1>3 DEF IsTmp, Tmp, MadeSymbol
<1> QED BY <1>1, <1>2, <1>3

LEMMA HeadSymbols ==
  ASSUME NEW n \in Nat, NEW x, IsExpr(x, n), IsPair(x), NEW h, h = car(x), IsSymbol(h)
  PROVE  h.stamps = h.mark /\ (h.mark # <<>> => \E m \in 1..n : h.mark = <<m>>)
<1>1. ASSUME NEW m \in 1..n, NEW s, h = MadeSymbol(s, m)
      PROVE  h.stamps = h.mark /\ h.mark = <<m>> BY <1>1 DEF MadeSymbol
<1>2. \/ IsUser(x)
      \/ \E m \in 1..n : \E s : h = MadeSymbol(s, m) BY HeadsMade
<1>3. CASE IsUser(x) BY <1>3, UserCarCdr, UserIsShown, ShownSymbols
<1> QED BY <1>1, <1>2, <1>3

LEMMA MarksInvMeans == IInv /\ MarksInv => MarksCancel
<1> SUFFICES ASSUME IInv, MarksInv, NEW x \in LookedAt
             PROVE  /\ x.stamps = x.mark
                    /\ x.mark # <<>> => \E m \in 1..markStamp : x.mark = <<m>>
  BY DEF MarksCancel
<1>1. /\ IsSymbol(x) /\ todo # <<>>
      /\ \/ item.do \in {"expr", "form", "params"} /\ IsPair(item.x) /\ x = car(item.x)
         \/ item.do \in {"expr", "form", "params"} /\ ~IsPair(item.x) /\ x = item.x
         \/ item.do = "letVars" /\ item.names # <<>> /\ x = Head(item.names)
  BY DEF LookedAt, Current
<1>2. ItemShown(item, markStamp) /\ markStamp \in Nat BY <1>1, CurrentShown
<1>3. \/ IsShown(x, markStamp)
      \/ IsPair(item.x) /\ x = car(item.x) /\ IsExpr(item.x, markStamp)
  <2>1. CASE item.do \in {"expr", "form", "params"}
    BY <1>2, <2>1, <1>1, UserIsShown, ShownKinds DEF ItemShown, IsExpr, IsSymbol
  <2>2. CASE item.do = "letVars" /\ item.names # <<>> /\ x = Head(item.names)
    BY <1>2, <2>2, <1>1, LetVarsItem, SequenceLen, TailSequence DEF ItemShown,
       IsSyntaxSequence, Current, AllNames, IsShown
  <2> QED BY <1>1, <2>1, <2>2
<1>4. CASE IsPair(item.x) /\ x = car(item.x) /\ IsExpr(item.x, markStamp)
  BY <1>1, <1>2, <1>4, HeadSymbols
<1> QED BY <1>1, <1>2, <1>3, <1>4, ShownSymbols

(* However macro uses nest and whatever program is compiled, a symbol that *)
(* is looked up or bound is one of the program's, unmarked, or has the one *)
(* mark of the expansion that made it, in its syntax and as the symbol of  *)
(* the table: the anti-mark that expandMacro puts on the input of a macro  *)
(* and the mark on its output meet, and concat cancels them.               *)
THEOREM MarksCancelAlways == Spec => []MarksCancel
<1>1. Init => IInv /\ MarksInv BY InitIInv, InitMarks
<1>2. IInv /\ MarksInv /\ [Next]_vars => IInv' /\ MarksInv' BY NextIInv, NextMarks
<1>3. IInv /\ MarksInv => MarksCancel BY MarksInvMeans
<1> QED BY <1>1, <1>2, <1>3, PTL DEF Spec

-----------------------------------------------------------------------------
(* What HygienicParser says of syntax and scopes is what SchemeParser does. *)
LEMMA SameConstants ==
  /\ Hygiene!AntiMark = AntiMark /\ Hygiene!NullMark = NullMark
  /\ Hygiene!MACRO_OR = MACRO_OR /\ Hygiene!RES_BEGIN = RES_BEGIN
  /\ Hygiene!RES_DEFINE = RES_DEFINE /\ Hygiene!RES_SETBANG = RES_SETBANG
  /\ Hygiene!RES_IF = RES_IF /\ Hygiene!RES_LAMBDA = RES_LAMBDA
  /\ Hygiene!RES_LET = RES_LET /\ Hygiene!RES_LETREC = RES_LETREC
  /\ Hygiene!m_unspec = m_unspec /\ Hygiene!Env!NoBinding = Env!NoBinding
  /\ Hygiene!SystemScope = SystemScope /\ Hygiene!LibraryScope = LibraryScope
  /\ Hygiene!Value = Value /\ Hygiene!Nil = Nil /\ Hygiene!EndBody = EndBody
BY DEF Hygiene!AntiMark, AntiMark, Hygiene!NullMark, NullMark, Hygiene!MACRO_OR, MACRO_OR,
       Hygiene!RES_BEGIN, RES_BEGIN, Hygiene!RES_DEFINE, RES_DEFINE,
       Hygiene!RES_SETBANG, RES_SETBANG, Hygiene!RES_IF, RES_IF, Hygiene!RES_LAMBDA, RES_LAMBDA,
       Hygiene!RES_LET, RES_LET, Hygiene!RES_LETREC, RES_LETREC, Hygiene!m_unspec, m_unspec,
       Hygiene!Env!NoBinding, Env!NoBinding, Hygiene!SystemScope, SystemScope,
       Hygiene!LibraryScope, LibraryScope, Hygiene!Value, Value, Hygiene!Nil, Nil,
       Hygiene!EndBody, EndBody

LEMMA SameKinds ==
  \A x : /\ Hygiene!IsNil(x) <=> IsNil(x)
         /\ Hygiene!IsPair(x) <=> IsPair(x)
         /\ Hygiene!IsSymbol(x) <=> IsSymbol(x)
         /\ Hygiene!IsVariable(x) <=> IsVariable(x)
BY DEF Hygiene!IsNil, IsNil, Hygiene!IsPair, IsPair, Hygiene!IsSymbol, IsSymbol,
       Hygiene!IsVariable, IsVariable

LEMMA SameWraps == \A x, mark : Hygiene!wrap(x, mark) = wrap(x, mark)
<1>1. \A a, b : Hygiene!concat(a, b) = concat(a, b)
  BY SameConstants DEF Hygiene!concat, concat
<1>2. \A a, b : Hygiene!wrapSymbol(a, b) = wrapSymbol(a, b)
  BY SameConstants DEF Hygiene!wrapSymbol, wrapSymbol
<1> QED BY <1>1, <1>2, SameKinds DEF Hygiene!wrap, wrap

LEMMA SameParts == \A x : Hygiene!car(x) = car(x) /\ Hygiene!cdr(x) = cdr(x)
BY SameWraps DEF Hygiene!car, car, Hygiene!cdr, cdr

LEMMA SameShapes ==
  \A x : /\ Hygiene!IsList(x) <=> IsList(x)
         /\ Hygiene!OneAndRest(x) <=> OneAndRest(x)
         /\ Hygiene!Two(x) <=> Two(x)
         /\ Hygiene!TwoAndRest(x) <=> TwoAndRest(x)
         /\ Hygiene!OrPattern(x) <=> OrPattern(x)
<1>1. \A x : Hygiene!IsList(x) <=> IsList(x) BY SameKinds DEF Hygiene!IsList, IsList
<1>2. \A x : Hygiene!OrPattern(x) <=> OrPattern(x)
  BY <1>1, SameKinds, SameParts DEF Hygiene!OrPattern, OrPattern
<1> QED BY <1>1, <1>2, SameKinds, SameParts
        DEF Hygiene!OneAndRest, OneAndRest, Hygiene!Two, Two, Hygiene!TwoAndRest, TwoAndRest

LEMMA SameMeanings ==
  /\ \A x : Hygiene!Env!Meaning(x) = Env!Meaning(x)
  /\ \A s, x : /\ Hygiene!Env!MeaningFrom(s, x) = Env!MeaningFrom(s, x)
               /\ Hygiene!Env!MeaningOnlyIn(s, x) = Env!MeaningOnlyIn(s, x)
<1>1. \A n, x : Hygiene!Env!MeaningAt(n, x) = Env!MeaningAt(n, x)
  BY SameConstants DEF Hygiene!Env!MeaningAt, Env!MeaningAt
<1> QED BY <1>1, SameConstants
        DEF Hygiene!Env!Meaning, Env!Meaning, Hygiene!Env!MeaningFrom, Env!MeaningFrom,
            Hygiene!Env!MeaningOnlyIn, Env!MeaningOnlyIn, Hygiene!Env!Open, Env!Open

LEMMA SameBindings ==
  /\ \A x : Hygiene!isBinding(x) = isBinding(x)
  /\ \A x, b : Hygiene!Heads(x, b) <=> Heads(x, b)
  /\ \A x, s : Hygiene!IsBound(x, s) <=> IsBound(x, s)
<1>1. ASSUME NEW ss
      PROVE  Hygiene!lookupSyntaxSymbol(ss) = lookupSyntaxSymbol(ss)
  <2> DEFINE key(i) == <<ss.name, SubSeq(ss.stamps, 1, Len(ss.stamps) - i)>>
             own == <<ss.name, ss.stamps>>
             seenBy(i) == Env!MeaningFrom(SystemScope, key(i))
             seen(i) == Hygiene!Env!MeaningFrom(Hygiene!SystemScope, key(i))
             found == {i \in 1..Len(ss.stamps) : seenBy(i) # Env!NoBinding}
             met == {i \in 1..Len(ss.stamps) : seen(i) # Hygiene!Env!NoBinding}
  <2>1. \A i : seen(i) = seenBy(i) BY SameMeanings, SameConstants
  <2>2. /\ lookupSyntaxSymbol(ss) =
             IF Env!Meaning(own) # Env!NoBinding THEN Env!Meaning(own)
             ELSE IF found = {} THEN Env!NoBinding
             ELSE seenBy(CHOOSE i \in found : \A j \in found : i <= j)
        /\ Hygiene!lookupSyntaxSymbol(ss) =
             IF Hygiene!Env!Meaning(own) # Hygiene!Env!NoBinding THEN Hygiene!Env!Meaning(own)
             ELSE IF met = {} THEN Hygiene!Env!NoBinding
             ELSE seen(CHOOSE i \in met : \A j \in met : i <= j)
    BY DEF lookupSyntaxSymbol, Hygiene!lookupSyntaxSymbol
  <2> HIDE DEF seen, seenBy, own
  <2>3. met = found BY <2>1, SameConstants
  <2> HIDE DEF found, met
  <2> QED BY <2>1, <2>2, <2>3, SameMeanings, SameConstants
<1>2. \A x : Hygiene!isBinding(x) = isBinding(x)
  BY <1>1, SameConstants DEF Hygiene!isBinding, isBinding
<1>3. \A x, b : Hygiene!Heads(x, b) <=> Heads(x, b)
  BY <1>2, SameKinds, SameParts DEF Hygiene!Heads, Heads
<1>4. \A x, s : Hygiene!IsBound(x, s) <=> IsBound(x, s)
  BY SameMeanings, SameConstants DEF Hygiene!IsBound, IsBound
<1> QED BY <1>2, <1>3, <1>4

LEMMA SameForms ==
  /\ \A x : Hygiene!BindingOf(x) = BindingOf(x) /\ Hygiene!Begin(x) = Begin(x)
  /\ \A x : Hygiene!Anonymous(x) = Anonymous(x)
BY SameConstants DEF Hygiene!BindingOf, BindingOf, Hygiene!Begin, Begin,
   Hygiene!Anonymous, Anonymous

LEMMA SameExpansions ==
  /\ \A m, a, b, r : Hygiene!LetForm(m, a, b, r) = LetForm(m, a, b, r)
  /\ \A x : Hygiene!Renamed(x) = Renamed(x)
<1>1. /\ \A a, d : Hygiene!Pair(a, d) = Pair(a, d)
      /\ \A m : Hygiene!Own(m) = Own(m) BY DEF Hygiene!Pair, Pair, Hygiene!Own, Own
<1>2. \A s, d : Hygiene!ListTo(s, d) = ListTo(s, d) BY <1>1 DEF Hygiene!ListTo, ListTo
<1>3. \A s : Hygiene!List(s) = List(s) BY <1>2, SameConstants DEF Hygiene!List, List
<1>4. \A b, r : Hygiene!OrForm(b, r) = OrForm(b, r)
  BY <1>1, SameConstants, SameForms DEF Hygiene!OrForm, OrForm
<1>5. \A m, b, r : Hygiene!IfForm(m, b, r) = IfForm(m, b, r)
  BY <1>1, <1>3, <1>4, SameConstants, SameForms DEF Hygiene!IfForm, IfForm
<1>6. \A m, a : Hygiene!OwnInits(m, a) = OwnInits(m, a)
  BY <1>1, <1>3 DEF Hygiene!OwnInits, OwnInits
<1>7. \A m, a, b, r : Hygiene!LetForm(m, a, b, r) = LetForm(m, a, b, r)
  BY <1>3, <1>5, <1>6, SameConstants, SameForms DEF Hygiene!LetForm, LetForm
<1> QED BY <1>7, SameConstants, SameKinds, SameParts DEF Hygiene!Renamed, Renamed

LEMMA SameItems ==
  /\ \A x, in : Hygiene!Expr(x, in) = Expr(x, in)
  /\ \A x, op, n, in : Hygiene!Args(x, op, n, in) = Args(x, op, n, in)
  /\ \A op, of, in : Hygiene!Make(op, of, in) = Make(op, of, in)
  /\ \A s : Hygiene!Pop(s) = Pop(s)
  /\ \A x, b, s : Hygiene!Params(x, b, s) = Params(x, b, s)
  /\ \A x, b, in : Hygiene!Inits(x, b, in) = Inits(x, b, in)
  /\ \A it : Hygiene!LetScope(it) = LetScope(it)
  /\ \A it, s : Hygiene!LetVars(it, s) = LetVars(it, s)
  /\ \A x, op, of, in : Hygiene!Body(x, op, of, in) = Body(x, op, of, in)
  /\ \A x : Hygiene!Forms(x) = Forms(x) /\ Hygiene!Form(x) = Form(x)
  /\ \A s : Hygiene!NewContext(s) = NewContext(s)
BY DEF Hygiene!Expr, Expr, Hygiene!Args, Args, Hygiene!Make, Make, Hygiene!Pop, Pop,
       Hygiene!Params, Params, Hygiene!Inits, Inits, Hygiene!LetScope, LetScope,
       Hygiene!LetVars, LetVars, Hygiene!Body, Body, Hygiene!Forms, Forms, Hygiene!Form, Form,
       Hygiene!NewContext, NewContext

LEMMA SameSteps ==
  /\ Hygiene!nextScope = nextScope /\ Hygiene!nextVariable = nextVariable
  /\ \A x : Hygiene!AddedParam(x) = AddedParam(x)
  /\ \A f : NewScope(f) => Hygiene!NewScope(f)
  /\ Env!Leave => Hygiene!Env!Leave
  /\ \A x, s : BindVariable(x, s) => Hygiene!BindVariable(x, s)
  /\ \A x, s : DefineParam(x, s) => Hygiene!DefineParam(x, s)
<1>1. Hygiene!nextScope = nextScope /\ Hygiene!nextVariable = nextVariable
  BY DEF Hygiene!nextScope, nextScope, Hygiene!nextVariable, nextVariable
<1>2. \A x : Hygiene!AddedParam(x) = AddedParam(x)
  BY <1>1, SameKinds DEF Hygiene!AddedParam, AddedParam
<1>3. \A f : NewScope(f) => Hygiene!NewScope(f)
  BY <1>1, SameConstants
     DEF NewScope, Hygiene!NewScope, Env!Enter, Hygiene!Env!Enter, Env!Open, Hygiene!Env!Open
<1>4. Env!Leave => Hygiene!Env!Leave BY DEF Env!Leave, Hygiene!Env!Leave
<1>5. ASSUME NEW x, NEW s, BindVariable(x, s)
      PROVE  Hygiene!BindVariable(x, s)
  BY <1>1, <1>5 DEF BindVariable, Hygiene!BindVariable, Env!Define, Hygiene!Env!Define
<1>6. ASSUME NEW x, NEW s, DefineParam(x, s)
      PROVE  Hygiene!DefineParam(x, s)
  BY <1>5, <1>6, SameKinds, SameBindings
     DEF DefineParam, Hygiene!DefineParam, Report, Hygiene!Report, scopeVars, Hygiene!scopeVars
<1> QED BY <1>1, <1>2, <1>3, <1>4, <1>5, <1>6

-----------------------------------------------------------------------------
(* What stands for the syntax that is shown *)
LEMMA PlainParts == \A a, d : car(Pair(a, d)) = a /\ cdr(Pair(a, d)) = d /\ IsPair(Pair(a, d))
<1> TAKE a, d
<1>1. /\ Pair(a, d).k = "pair" /\ Pair(a, d).car = a /\ Pair(a, d).cdr = d
      /\ Pair(a, d).mark = <<>> BY DEF Pair
<1> QED BY <1>1, CarIsWrap, WrapAtom DEF IsPair

LEMMA MadeFields ==
  ASSUME NEW m, NEW a, NEW d, NEW x, x = Made(m, a, d)
  PROVE  x.k = "pair" /\ x.car = a /\ x.mark # <<>> /\ x.mark[1] = m
BY DEF Made

LEMMA CleanUser ==
  ASSUME NEW x, IsUser(x)
  PROVE  /\ ~IsMarked(x) /\ x.k # "begin"
         /\ CleanExpr(x) = x /\ CleanForms(x) = x /\ CleanVars(x) = x /\ CleanValue(x) = x
BY UserParts DEF IsSymbol, IsPair, Value, Nil, IsMarked, CleanExpr, CleanForms,
   CleanVars, CleanValue

LEMMA SymbolsDiffer ==
  /\ Symbol("let") # Symbol("if") /\ Symbol("let") # Symbol("or") /\ Symbol("if") # Symbol("or")
BY DEF Symbol

LEMMA CleanTmp ==
  ASSUME NEW m
  PROVE  CleanExpr(Tmp(m)) = Own(m)
BY DEF IsMarked, IsSymbol, Tmp, MadeSymbol, CleanExpr

LEMMA CleanMadeOr ==
  ASSUME NEW m \in Stamp, NEW b, NEW r, IsUser(b), IsUser(r), NEW x, x = MadeOr(m, b, r)
  PROVE  CleanExpr(x) = OrForm(b, r)
BY MadeFields, OrParts, SymbolsDiffer DEF MadeOr, CleanOr, CleanExpr, IsMarked, IsPair,
   IsSymbol

LEMMA CleanMadeIf ==
  ASSUME NEW m \in Stamp, NEW b, NEW r, IsUser(b), IsUser(r), NEW x, x = MadeIf(m, b, r)
  PROVE  CleanIf(x) = IfForm(m, b, r) /\ CleanExpr(x) = IfForm(m, b, r)
<1>1. x.k = "pair" /\ x.car = Symbol("if") /\ x.mark # <<>> /\ x.mark[1] = m
  BY MadeFields DEF MadeIf
<1>2. car(cdr(cdr(cdr(x)))) = MadeOr(m, b, r) BY IfMade
<1>3. CleanIf(x) = IfForm(m, b, r)
  <2> DEFINE or == cdr(MadeOr(m, b, r))
  <2>1. car(or) = b /\ cdr(or) = r BY OrParts
  <2>2. CleanIf(x) = IfForm(x.mark[1], car(or), cdr(or)) BY <1>2 DEF CleanIf
  <2> HIDE DEF or
  <2> QED BY <1>1, <2>1, <2>2
<1> QED BY <1>1, <1>3, SymbolsDiffer DEF CleanExpr, IsMarked, IsPair, IsSymbol

LEMMA CleanMadeBody ==
  ASSUME NEW m \in Stamp, NEW b, NEW r, IsUser(b), IsUser(r), NEW x, x = MadeBody(m, b, r)
  PROVE  /\ CleanBody(x) = Pair(IfForm(m, b, r), Nil)
         /\ CleanForms(x) = Pair(IfForm(m, b, r), Nil)
BY MadeFields, BodyParts, CleanMadeIf, FormOfOne DEF MadeBody, CleanBody, List,
   CleanForms, IsMarked, IsPair

LEMMA CleanMadeInits ==
  ASSUME NEW m \in Stamp, NEW a, IsUser(a), NEW x, x = MadeInits(m, a)
  PROVE  /\ CleanInits(x) = Pair(Pair(Own(m), Pair(a, Nil)), Nil)
         /\ CleanVars(x) = Pair(Pair(Own(m), Pair(a, Nil)), Nil)
<1>1. x.k = "pair" /\ x.mark # <<>> /\ x.mark[1] = m BY MadeFields DEF MadeInits
<1>2. car(cdr(car(x))) = a BY InitParts
<1>3. OwnInits(m, a) = Pair(Pair(Own(m), Pair(a, Nil)), Nil)
  <2>1. List(<<Own(m), a>>) = Pair(Own(m), Pair(a, Nil)) BY FormOfTwo DEF List
  <2> DEFINE i == Pair(Own(m), Pair(a, Nil))
  <2>2. OwnInits(m, a) = List(<<i>>) BY <2>1 DEF OwnInits
  <2> HIDE DEF i
  <2>3. List(<<i>>) = Pair(i, Nil) BY FormOfOne DEF List
  <2> QED BY <2>2, <2>3 DEF i
<1>4. CleanInits(x) = Pair(Pair(Own(m), Pair(a, Nil)), Nil)
  BY <1>1, <1>2, <1>3 DEF CleanInits
<1> QED BY <1>1, <1>4 DEF CleanVars, IsMarked, IsPair

LEMMA LetFormIs ==
  ASSUME NEW m, NEW a, NEW b, NEW r
  PROVE  LetForm(m, a, b, r) =
           Pair(BindingOf(RES_LET), Pair(OwnInits(m, a), Pair(IfForm(m, b, r), Nil)))
<1> DEFINE i == OwnInits(m, a)
           f == IfForm(m, b, r)
           t == BindingOf(RES_LET)
<1>1. LetForm(m, a, b, r) = List(<<t, i, f>>) BY DEF LetForm
<1> HIDE DEF i, f, t
<1>2. List(<<t, i, f>>) = Pair(t, Pair(i, Pair(f, Nil))) BY FormOfThree DEF List
<1> QED BY <1>1, <1>2 DEF i, f, t

LEMMA IfFormIs ==
  ASSUME NEW m, NEW b, NEW r
  PROVE  IfForm(m, b, r) =
           Pair(BindingOf(RES_IF), Pair(Own(m), Pair(Own(m), Pair(OrForm(b, r), Nil))))
<1> DEFINE o == OrForm(b, r)
           t == BindingOf(RES_IF)
           v == Own(m)
<1>1. IfForm(m, b, r) = List(<<t, v, v, o>>) BY DEF IfForm
<1> HIDE DEF o, t, v
<1>2. List(<<t, v, v, o>>) = Pair(t, Pair(v, Pair(v, Pair(o, Nil))))
  BY FormOfFour DEF List
<1> QED BY <1>1, <1>2 DEF o, t, v

LEMMA CleanMadeLet ==
  ASSUME NEW m \in Stamp, NEW a, NEW b, NEW r, IsUser(a), IsUser(b), IsUser(r),
         NEW x, x = MadeLet(m, a, b, r)
  PROVE  CleanExpr(x) = LetForm(m, a, b, r)
BY MadeFields, LetMade, InitParts, CleanMadeBody, LetFormIs DEF MadeLet, CleanInits,
   MadeInits, CleanLet, CleanExpr, IsMarked, IsPair, IsSymbol

LEMMA CleanBinding == CleanExpr(BindingOf(m_unspec)) = BindingOf(m_unspec)
BY DEF IsMarked, BindingOf, IsSymbol, IsPair, CleanExpr

LEMMA CleanShown ==
  ASSUME NEW n, NEW x, IsShown(x, n)
  PROVE  CleanValue(x) = CleanExpr(x)
BY ShownNotBegin DEF CleanValue

-----------------------------------------------------------------------------
(* Names, heads and bindings *)
LEMMA LookupByName ==
  ASSUME NEW x, NEW y, x.name = y.name, x.stamps = y.stamps
  PROVE  lookupSyntaxSymbol(x) = lookupSyntaxSymbol(y)
BY DEF lookupSyntaxSymbol

LEMMA OwnIsTmp ==
  ASSUME NEW m, NEW x, x = Tmp(m), NEW y, y = Own(m)
  PROVE  /\ IsSymbol(x) /\ IsSymbol(y) /\ isBinding(x) = isBinding(y)
         /\ AddedParam(x) = AddedParam(y)
         /\ \A s : DefineParam(x, s) => DefineParam(y, s)
BY LookupByName DEF Tmp, MadeSymbol, Own, isBinding, IsBound, BindVariable, IsSymbol,
   AddedParam, DefineParam

LEMMA CleanName ==
  ASSUME NEW n, NEW x, IsName(x, n)
  PROVE  /\ AddedParam(CleanExpr(x)) = AddedParam(x)
         /\ \A s : DefineParam(x, s) => DefineParam(CleanExpr(x), s)
BY CleanUser, CleanTmp, OwnIsTmp DEF IsTmp, IsName

LEMMA KeywordsAre ==
  /\ \A b, r : /\ OrForm(b, r).k = "pair" /\ IsPair(OrForm(b, r))
               /\ isBinding(car(OrForm(b, r))) = MACRO_OR
  /\ \A m, b, r : /\ IfForm(m, b, r).k = "pair" /\ IsPair(IfForm(m, b, r))
                  /\ isBinding(car(IfForm(m, b, r))) = RES_IF
  /\ \A m, a, b, r : /\ LetForm(m, a, b, r).k = "pair" /\ IsPair(LetForm(m, a, b, r))
                     /\ isBinding(car(LetForm(m, a, b, r))) = RES_LET
BY PlainParts, IfFormIs, LetFormIs DEF isBinding, BindingOf, Pair, OrForm, IsPair

(* A marked form, with the hygienic form it stands for *)
LEMMA CleanForm ==
  ASSUME NEW n \in Nat, NEW x
  PROVE  /\ IsOr(x, n) => \E b, r : /\ IsUser(b) /\ IsUser(r) /\ CleanExpr(x) = OrForm(b, r)
                                    /\ IsPair(x) /\ car(cdr(x)) = b /\ cdr(cdr(x)) = r
                                    /\ IsPair(cdr(x))
         /\ IsIf(x, n) => \E m, b, r : /\ IsUser(b) /\ IsUser(r) /\ m \in 1..n
                                       /\ x = MadeIf(m, b, r) /\ IsPair(x)
                                       /\ CleanExpr(x) = IfForm(m, b, r)
         /\ IsLet(x, n) => \E m, a, b, r : /\ IsUser(a) /\ IsUser(b) /\ IsUser(r) /\ m \in 1..n
                                           /\ x = MadeLet(m, a, b, r) /\ IsPair(x)
                                           /\ CleanExpr(x) = LetForm(m, a, b, r)
<1>1. \A m \in 1..n : m \in Stamp BY DEF Stamp
<1>2. \A m, a, d : IsPair(Made(m, a, d)) BY DEF Made, IsPair
<1>3. ASSUME IsOr(x, n)
      PROVE  \E b, r : /\ IsUser(b) /\ IsUser(r) /\ CleanExpr(x) = OrForm(b, r)
                       /\ IsPair(x) /\ car(cdr(x)) = b /\ cdr(cdr(x)) = r
                       /\ IsPair(cdr(x))
  BY <1>3, <1>1, <1>2, CleanMadeOr, OrParts DEF IsOr, MadeOr
<1>4. ASSUME IsIf(x, n)
      PROVE  \E m, b, r : /\ IsUser(b) /\ IsUser(r) /\ m \in 1..n
                          /\ x = MadeIf(m, b, r) /\ IsPair(x)
                          /\ CleanExpr(x) = IfForm(m, b, r)
  BY <1>4, <1>1, <1>2, CleanMadeIf DEF IsIf, MadeIf
<1>5. ASSUME IsLet(x, n)
      PROVE  \E m, a, b, r : /\ IsUser(a) /\ IsUser(b) /\ IsUser(r) /\ m \in 1..n
                             /\ x = MadeLet(m, a, b, r) /\ IsPair(x)
                             /\ CleanExpr(x) = LetForm(m, a, b, r)
  BY <1>5, <1>1, <1>2, CleanMadeLet DEF IsLet, MadeLet
<1> QED BY <1>3, <1>4, <1>5

LEMMA CleanHead ==
  ASSUME IInv, KeysOK(env), NEW n \in Nat, NEW x, IsExpr(x, n), NEW y, y = CleanValue(x)
  PROVE  /\ y.k = x.k /\ isBinding(y) = isBinding(x)
         /\ \A b : Heads(y, b) <=> Heads(x, b)
<1>1. CASE IsUser(x) BY <1>1, CleanUser
<1>2. CASE IsBegin(x, n)
  BY <1>2, ShownKinds DEF CleanValue, Begin, isBinding, Heads, IsPair
<1>3. CASE x = BindingOf(m_unspec) BY <1>3, CleanShown, CleanBinding DEF IsShown
<1>4. CASE IsTmp(x, n)
  BY <1>4, CleanTmp, CleanShown, OwnIsTmp DEF IsTmp, IsShown, IsName, IsSymbol, Heads,
     IsPair
<1>5. CASE IsShown(x, n) /\ IsPair(x) /\ ~IsUser(x)
  BY <1>5, CleanShown, HeadOfExpr, CleanForm, KeywordsAre DEF Heads, IsPair, isBinding
<1>6. IsLet(x, n) \/ IsIf(x, n) \/ IsOr(x, n) => IsPair(x) BY CleanForm
<1> QED BY <1>1, <1>2, <1>3, <1>4, <1>5, <1>6 DEF IsExpr, IsShown, IsName

-----------------------------------------------------------------------------
(* Sequences of which each element is taken for what it means *)
LEMMA SequencesEqual ==
  ASSUME NEW s, NEW t, IsSeq(s), IsSeq(t), Len(s) = Len(t),
         \A i \in 1..Len(s) : s[i] = t[i]
  PROVE  s = t
BY SeqMonotonic, SeqEqual DEF IsSeq

LEMMA Sequences ==
  ASSUME NEW s, IsSeq(s), NEW t, t = [i \in 1..Len(s) |-> t[i]]
  PROVE  IsSeq(t) /\ Len(t) = Len(s) /\ Len(s) \in Nat
<1> DEFINE n == Len(s)
           S == {t[i] : i \in 1..n}
<1>1. n \in Nat BY SequenceLen
<1>2. t \in [1..n -> S] OBVIOUS
<1> HIDE DEF n, S
<1>3. IsSeq(t) /\ Len(t) = n BY <1>1, <1>2, IndexedSequence
<1> QED BY <1>1, <1>3 DEF n

LEMMA CleanItemsAre ==
  ASSUME NEW s, IsSeq(s), NEW t, t = CleanItems(s)
  PROVE  /\ IsSeq(t) /\ Len(t) = Len(s) /\ Len(s) \in Nat
         /\ \A i \in 1..Len(s) : t[i] = CleanItem(s[i])
BY Sequences DEF CleanItems

LEMMA CleanAllAre ==
  ASSUME NEW s, IsSeq(s), NEW t, t = CleanAll(s)
  PROVE  /\ IsSeq(t) /\ Len(t) = Len(s) /\ Len(s) \in Nat
         /\ \A i \in 1..Len(s) : t[i] = CleanExpr(s[i])
BY Sequences DEF CleanAll

LEMMA CleanDefinitionsAre ==
  ASSUME NEW s, IsSeq(s), NEW t, t = CleanDefinitions(s)
  PROVE  /\ IsSeq(t) /\ Len(t) = Len(s) /\ Len(s) \in Nat
         /\ \A i \in 1..Len(s) : t[i] = CleanDefinition(s[i])
BY Sequences DEF CleanDefinitions

(* What is added to a sequence, and what remains of one *)
LEMMA AppendIs ==
  ASSUME NEW s, NEW t, IsSeq(s), IsSeq(t), Len(t) = Len(s) + 1,
         \A i \in 1..Len(s) : t[i] = s[i]
  PROVE  t = Append(s, t[Len(s) + 1])
<1> DEFINE e == t[Len(s) + 1]
<1>1. /\ IsSeq(Append(s, e)) /\ Len(Append(s, e)) = Len(s) + 1 /\ Len(s) \in Nat
      /\ Append(s, e)[Len(s) + 1] = e
      /\ \A i \in 1..Len(s) : Append(s, e)[i] = s[i] BY AppendSequence, SequenceLen
<1>2. \A i \in 1..(Len(s) + 1) : i = Len(s) + 1 \/ i \in 1..Len(s) BY <1>1
<1>3. \A i \in 1..Len(t) : t[i] = Append(s, e)[i] BY <1>1, <1>2
<1> HIDE DEF e
<1>4. t = Append(s, e) BY <1>1, <1>3, SequencesEqual
<1> QED BY <1>4 DEF e

LEMMA CleanAllAppend ==
  ASSUME NEW s, IsSeq(s), NEW e
  PROVE  CleanAll(Append(s, e)) = Append(CleanAll(s), CleanExpr(e))
<1> DEFINE u == Append(s, e)
           c == CleanAll(s)
           t == CleanAll(u)
<1>1. /\ IsSeq(u) /\ Len(u) = Len(s) + 1 /\ u[Len(s) + 1] = e /\ Len(s) \in Nat
      /\ \A i \in 1..Len(s) : u[i] = s[i] BY AppendSequence, SequenceLen
<1> HIDE DEF u
<1>2. /\ IsSeq(c) /\ Len(c) = Len(s)
      /\ \A i \in 1..Len(s) : c[i] = CleanExpr(s[i]) BY CleanAllAre
<1>3. /\ IsSeq(t) /\ Len(t) = Len(u)
      /\ \A i \in 1..Len(u) : t[i] = CleanExpr(u[i]) BY <1>1, CleanAllAre
<1> HIDE DEF c, t
<1>4. t[Len(c) + 1] = CleanExpr(e) /\ \A i \in 1..Len(c) : t[i] = c[i]
  BY <1>1, <1>2, <1>3
<1>5. t = Append(c, t[Len(c) + 1]) BY <1>1, <1>2, <1>3, <1>4, AppendIs
<1> QED BY <1>4, <1>5 DEF u, c, t

LEMMA CleanDefinitionsAppend ==
  ASSUME NEW s, IsSeq(s), NEW e
  PROVE  CleanDefinitions(Append(s, e)) = Append(CleanDefinitions(s), CleanDefinition(e))
<1> DEFINE u == Append(s, e)
           c == CleanDefinitions(s)
           t == CleanDefinitions(u)
<1>1. /\ IsSeq(u) /\ Len(u) = Len(s) + 1 /\ u[Len(s) + 1] = e /\ Len(s) \in Nat
      /\ \A i \in 1..Len(s) : u[i] = s[i] BY AppendSequence, SequenceLen
<1> HIDE DEF u
<1>2. /\ IsSeq(c) /\ Len(c) = Len(s)
      /\ \A i \in 1..Len(s) : c[i] = CleanDefinition(s[i]) BY CleanDefinitionsAre
<1>3. /\ IsSeq(t) /\ Len(t) = Len(u)
      /\ \A i \in 1..Len(u) : t[i] = CleanDefinition(u[i]) BY <1>1, CleanDefinitionsAre
<1> HIDE DEF c, t
<1>4. t[Len(c) + 1] = CleanDefinition(e) /\ \A i \in 1..Len(c) : t[i] = c[i]
  BY <1>1, <1>2, <1>3
<1>5. t = Append(c, t[Len(c) + 1]) BY <1>1, <1>2, <1>3, <1>4, AppendIs
<1> QED BY <1>4, <1>5 DEF u, c, t

LEMMA CleanEmpty ==
  /\ CleanItems(<<>>) = <<>> /\ CleanAll(<<>>) = <<>> /\ CleanDefinitions(<<>>) = <<>>
<1> DEFINE e == <<>>
<1>1. IsSeq(e) /\ Len(e) = 0 BY EmptySequence
<1> HIDE DEF e
<1>2. \A t : IsSeq(t) /\ Len(t) = 0 => t = e BY <1>1, SequencesEqual
<1> QED BY <1>1, <1>2, CleanItemsAre, CleanAllAre, CleanDefinitionsAre DEF e

LEMMA CleanUserSequence ==
  ASSUME NEW s, IsSeq(s), AllUser(s)
  PROVE  CleanAll(s) = s
<1> DEFINE t == CleanAll(s)
<1>1. /\ IsSeq(t) /\ Len(t) = Len(s)
      /\ \A i \in 1..Len(s) : t[i] = CleanExpr(s[i]) BY CleanAllAre
<1> HIDE DEF t
<1>2. \A i \in 1..Len(t) : t[i] = s[i] BY <1>1, CleanUser DEF AllUser
<1> QED BY <1>1, <1>2, SequencesEqual DEF t

LEMMA CleanAllRest ==
  ASSUME NEW s, IsSeq(s), s # <<>>, NEW c, c = CleanAll(s)
  PROVE  c # <<>> /\ Head(c) = CleanExpr(Head(s)) /\ Tail(c) = CleanAll(Tail(s))
<1>1. /\ IsSeq(c) /\ Len(c) = Len(s) /\ Len(s) \in Nat
      /\ \A i \in 1..Len(s) : c[i] = CleanExpr(s[i]) BY CleanAllAre
<1>2. Len(s) > 0 /\ c # <<>> BY <1>1, SequenceLen
<1> DEFINE u == Tail(s)
           t == Tail(c)
           v == CleanAll(u)
<1>3. /\ IsSeq(u) /\ Len(u) = Len(s) - 1 /\ Head(s) = s[1]
      /\ \A i \in 1..(Len(s) - 1) : u[i] = s[i + 1] BY TailSequence
<1>4. /\ IsSeq(t) /\ Len(t) = Len(c) - 1 /\ Head(c) = c[1]
      /\ \A i \in 1..(Len(c) - 1) : t[i] = c[i + 1] BY <1>1, <1>2, TailSequence
<1> HIDE DEF u, t
<1>5. /\ IsSeq(v) /\ Len(v) = Len(u)
      /\ \A i \in 1..Len(u) : v[i] = CleanExpr(u[i]) BY <1>3, CleanAllAre
<1> HIDE DEF v
<1>6. Head(c) = CleanExpr(Head(s)) BY <1>1, <1>2, <1>3, <1>4
<1>7. \A i \in 1..Len(t) : t[i] = v[i] BY <1>1, <1>3, <1>4, <1>5
<1>8. t = v BY <1>1, <1>3, <1>4, <1>5, <1>7, SequencesEqual
<1> QED BY <1>2, <1>6, <1>8 DEF t, u, v

LEMMA CleanItemsRest ==
  ASSUME NEW s, IsSeq(s), s # <<>>, NEW c, c = CleanItems(s)
  PROVE  c # <<>> /\ Head(c) = CleanItem(Head(s)) /\ Tail(c) = CleanItems(Tail(s))
<1>1. /\ IsSeq(c) /\ Len(c) = Len(s) /\ Len(s) \in Nat
      /\ \A i \in 1..Len(s) : c[i] = CleanItem(s[i]) BY CleanItemsAre
<1>2. Len(s) > 0 /\ c # <<>> BY <1>1, SequenceLen
<1> DEFINE u == Tail(s)
           t == Tail(c)
           v == CleanItems(u)
<1>3. /\ IsSeq(u) /\ Len(u) = Len(s) - 1 /\ Head(s) = s[1]
      /\ \A i \in 1..(Len(s) - 1) : u[i] = s[i + 1] BY TailSequence
<1>4. /\ IsSeq(t) /\ Len(t) = Len(c) - 1 /\ Head(c) = c[1]
      /\ \A i \in 1..(Len(c) - 1) : t[i] = c[i + 1] BY <1>1, <1>2, TailSequence
<1> HIDE DEF u, t
<1>5. /\ IsSeq(v) /\ Len(v) = Len(u)
      /\ \A i \in 1..Len(u) : v[i] = CleanItem(u[i]) BY <1>3, CleanItemsAre
<1> HIDE DEF v
<1>6. Head(c) = CleanItem(Head(s)) BY <1>1, <1>2, <1>3, <1>4
<1>7. \A i \in 1..Len(t) : t[i] = v[i] BY <1>1, <1>3, <1>4, <1>5
<1>8. t = v BY <1>1, <1>3, <1>4, <1>5, <1>7, SequencesEqual
<1> QED BY <1>2, <1>6, <1>8 DEF t, u, v

LEMMA CleanItemsJoin ==
  ASSUME NEW s, NEW t, IsSeq(s), IsSeq(t)
  PROVE  CleanItems(s \o t) = CleanItems(s) \o CleanItems(t)
<1> DEFINE u == s \o t
           a == CleanItems(s)
           b == CleanItems(t)
           c == CleanItems(u)
           d == a \o b
<1>1. /\ IsSeq(u) /\ Len(u) = Len(s) + Len(t) /\ Len(s) \in Nat /\ Len(t) \in Nat
      /\ \A i \in 1..Len(s) : u[i] = s[i]
      /\ \A i \in 1..Len(t) : u[Len(s) + i] = t[i] BY ConcatSequence, SequenceLen
<1>2. /\ IsSeq(a) /\ Len(a) = Len(s) /\ \A i \in 1..Len(s) : a[i] = CleanItem(s[i])
      /\ IsSeq(b) /\ Len(b) = Len(t) /\ \A i \in 1..Len(t) : b[i] = CleanItem(t[i])
  BY CleanItemsAre
<1> HIDE DEF u, a, b
<1>3. /\ IsSeq(c) /\ Len(c) = Len(u) /\ \A i \in 1..Len(u) : c[i] = CleanItem(u[i])
  BY <1>1, CleanItemsAre
<1>4. /\ IsSeq(d) /\ Len(d) = Len(a) + Len(b)
      /\ \A i \in 1..Len(a) : d[i] = a[i]
      /\ \A i \in 1..Len(b) : d[Len(a) + i] = b[i] BY <1>2, ConcatSequence
<1> HIDE DEF c, d
<1>5. ASSUME NEW i \in 1..Len(c)
      PROVE  c[i] = d[i]
  <2>1. CASE i <= Len(s) BY <1>1, <1>3, <2>1, <1>2, <1>4
  <2>2. CASE ~(i <= Len(s))
    <3> DEFINE j == i - Len(s)
    <3>1. j \in 1..Len(t) /\ Len(s) + j = i /\ i \in 1..Len(u) BY <1>1, <1>3, <2>2
    <3> HIDE DEF j
    <3>2. u[i] = t[j] /\ d[i] = b[j] BY <1>1, <1>2, <1>4, <3>1
    <3> QED BY <1>2, <1>3, <3>1, <3>2
  <2> QED BY <2>1, <2>2
<1>6. Len(c) = Len(d) BY <1>1, <1>2, <1>3, <1>4
<1>7. IsSeq(c) /\ IsSeq(d) /\ \A i \in 1..Len(c) : c[i] = d[i]
  BY <1>3, <1>4, <1>5
<1>8. c = d BY <1>6, <1>7, SequencesEqual
<1> QED BY <1>8 DEF u, a, b, c, d

LEMMA CleanItemsOne == \A a : CleanItems(<<a>>) = <<CleanItem(a)>>
<1> TAKE a
<1> DEFINE s == <<a>>
           t == <<CleanItem(a)>>
           c == CleanItems(s)
<1>1. IsSeq(s) /\ Len(s) = 1 /\ s[1] = a BY Sequence1
<1>2. IsSeq(t) /\ Len(t) = 1 /\ t[1] = CleanItem(a) BY Sequence1
<1> HIDE DEF s, t
<1>3. IsSeq(c) /\ Len(c) = Len(s) /\ \A i \in 1..Len(s) : c[i] = CleanItem(s[i])
  BY <1>1, CleanItemsAre
<1> HIDE DEF c
<1>4. \A i \in 1..Len(c) : c[i] = t[i] BY <1>1, <1>2, <1>3
<1>5. c = t BY <1>1, <1>2, <1>3, <1>4, SequencesEqual
<1> QED BY <1>5 DEF s, t, c

LEMMA CleanItemsTwo == \A a, b : CleanItems(<<a, b>>) = <<CleanItem(a), CleanItem(b)>>
<1> TAKE a, b
<1> DEFINE s == <<a, b>>
           t == <<CleanItem(a), CleanItem(b)>>
           c == CleanItems(s)
<1>1. IsSeq(s) /\ Len(s) = 2 /\ s[1] = a /\ s[2] = b BY Sequence2
<1>2. IsSeq(t) /\ Len(t) = 2 /\ t[1] = CleanItem(a) /\ t[2] = CleanItem(b)
  BY Sequence2
<1> HIDE DEF s, t
<1>3. IsSeq(c) /\ Len(c) = Len(s) /\ \A i \in 1..Len(s) : c[i] = CleanItem(s[i])
  BY <1>1, CleanItemsAre
<1> HIDE DEF c
<1>4. \A i \in 1..Len(c) : c[i] = t[i] BY <1>1, <1>2, <1>3
<1>5. c = t BY <1>1, <1>2, <1>3, <1>4, SequencesEqual
<1> QED BY <1>5 DEF s, t, c

LEMMA CleanItemsThree ==
  \A a, b, e : CleanItems(<<a, b, e>>) = <<CleanItem(a), CleanItem(b), CleanItem(e)>>
<1> TAKE a, b, e
<1> DEFINE s == <<a, b, e>>
           t == <<CleanItem(a), CleanItem(b), CleanItem(e)>>
           c == CleanItems(s)
<1>1. IsSeq(s) /\ Len(s) = 3 /\ s[1] = a /\ s[2] = b /\ s[3] = e BY Sequence3
<1>2. /\ IsSeq(t) /\ Len(t) = 3
      /\ t[1] = CleanItem(a) /\ t[2] = CleanItem(b) /\ t[3] = CleanItem(e) BY Sequence3
<1> HIDE DEF s, t
<1>3. IsSeq(c) /\ Len(c) = Len(s) /\ \A i \in 1..Len(s) : c[i] = CleanItem(s[i])
  BY <1>1, CleanItemsAre
<1> HIDE DEF c
<1>4. \A i \in 1..Len(c) : c[i] = t[i] BY <1>1, <1>2, <1>3
<1>5. c = t BY <1>1, <1>2, <1>3, <1>4, SequencesEqual
<1> QED BY <1>5 DEF s, t, c

-----------------------------------------------------------------------------
(* What is to be done, without marks *)
LEMMA CleanPlain ==
  ASSUME NEW it, it.do \in {"args", "make", "pop", "params", "endBody"}
  PROVE  CleanItem(it) = it
BY DEF CleanItem

LEMMA CleanUpdates ==
  /\ \A it : it.do = "expr" => CleanItem(it) = [it EXCEPT !.x = CleanValue(it.x)]
  /\ \A it : it.do = "form" => CleanItem(it) = [it EXCEPT !.x = CleanExpr(it.x)]
  /\ \A it : it.do = "forms" \/ it.do = "body" => CleanItem(it) = [it EXCEPT !.x = CleanForms(it.x)]
  /\ \A it : it.do = "inits" =>
       CleanItem(it) = [it EXCEPT !.x = CleanVars(it.x), !.names = CleanAll(it.names),
                                  !.body = CleanForms(it.body)]
  /\ \A it : it.do = "letScope" \/ it.do = "letVars" =>
       CleanItem(it) = [it EXCEPT !.names = CleanAll(it.names), !.body = CleanForms(it.body)]
BY DEF CleanItem

(* ... field by field *)
LEMMA CleanExprFields ==
  ASSUME NEW it, NEW x, NEW in, it \in [do : {"expr"}, x : {x}, in : {in}]
  PROVE  CleanItem(it) \in [do : {"expr"}, x : {CleanValue(x)}, in : {in}]
<1> DEFINE y == CleanValue(x)
<1>1. it.do = "expr" /\ it.x = x OBVIOUS
<1>2. CleanItem(it) = [it EXCEPT !.x = y] BY <1>1, CleanUpdates
<1> HIDE DEF y
<1>3. CleanItem(it) \in [do : {"expr"}, x : {y}, in : {in}] BY <1>2
<1> QED BY <1>3 DEF y

LEMMA CleanFormFields ==
  ASSUME NEW it, NEW x, it \in [do : {"form"}, x : {x}]
  PROVE  CleanItem(it) \in [do : {"form"}, x : {CleanExpr(x)}]
<1> DEFINE y == CleanExpr(x)
<1>1. it.do = "form" /\ it.x = x OBVIOUS
<1>2. CleanItem(it) = [it EXCEPT !.x = y] BY <1>1, CleanUpdates
<1> HIDE DEF y
<1>3. CleanItem(it) \in [do : {"form"}, x : {y}] BY <1>2
<1> QED BY <1>3 DEF y

LEMMA CleanFormsFields ==
  ASSUME NEW it, NEW x, it \in [do : {"forms"}, x : {x}]
  PROVE  CleanItem(it) \in [do : {"forms"}, x : {CleanForms(x)}]
<1> DEFINE y == CleanForms(x)
<1>1. it.do = "forms" /\ it.x = x OBVIOUS
<1>2. CleanItem(it) = [it EXCEPT !.x = y] BY <1>1, CleanUpdates
<1> HIDE DEF y
<1>3. CleanItem(it) \in [do : {"forms"}, x : {y}] BY <1>2
<1> QED BY <1>3 DEF y

LEMMA CleanBodyFields ==
  ASSUME NEW it, NEW x, NEW op, NEW of, NEW in,
         it \in [do : {"body"}, x : {x}, op : {op}, of : {of}, in : {in}]
  PROVE  CleanItem(it) \in [do : {"body"}, x : {CleanForms(x)}, op : {op}, of : {of}, in : {in}]
<1> DEFINE y == CleanForms(x)
<1>1. it.do = "body" /\ it.x = x OBVIOUS
<1>2. CleanItem(it) = [it EXCEPT !.x = y] BY <1>1, CleanUpdates
<1> HIDE DEF y
<1>3. CleanItem(it) \in [do : {"body"}, x : {y}, op : {op}, of : {of}, in : {in}]
  BY <1>2
<1> QED BY <1>3 DEF y

LEMMA CleanInitsFields ==
  ASSUME NEW it, NEW x, NEW body, NEW names, NEW values, NEW in,
         it \in [do : {"inits"}, x : {x}, body : {body}, names : {names},
                 values : {values}, in : {in}]
  PROVE  CleanItem(it) \in [do : {"inits"}, x : {CleanVars(x)}, body : {CleanForms(body)},
                            names : {CleanAll(names)}, values : {values}, in : {in}]
<1> DEFINE y == CleanVars(x)
           b == CleanForms(body)
           ns == CleanAll(names)
<1>1. it.do = "inits" /\ it.x = x /\ it.names = names /\ it.body = body OBVIOUS
<1>2. CleanItem(it) = [it EXCEPT !.x = y, !.names = ns, !.body = b]
  BY <1>1, CleanUpdates
<1> HIDE DEF y, b, ns
<1>3. CleanItem(it) \in [do : {"inits"}, x : {y}, body : {b}, names : {ns},
                         values : {values}, in : {in}] BY <1>2
<1> QED BY <1>3 DEF y, b, ns

LEMMA CleanLetScopeFields ==
  ASSUME NEW it, NEW body, NEW names, NEW n, NEW in,
         it \in [do : {"letScope"}, body : {body}, names : {names}, n : {n}, in : {in}]
  PROVE  CleanItem(it) \in [do : {"letScope"}, body : {CleanForms(body)},
                            names : {CleanAll(names)}, n : {n}, in : {in}]
<1> DEFINE b == CleanForms(body)
           ns == CleanAll(names)
<1>1. it.do = "letScope" /\ it.names = names /\ it.body = body OBVIOUS
<1>2. CleanItem(it) = [it EXCEPT !.names = ns, !.body = b] BY <1>1, CleanUpdates
<1> HIDE DEF b, ns
<1>3. CleanItem(it) \in [do : {"letScope"}, body : {b}, names : {ns}, n : {n}, in : {in}]
  BY <1>2
<1> QED BY <1>3 DEF b, ns

LEMMA CleanLetVarsFields ==
  ASSUME NEW it, NEW body, NEW names, NEW n, NEW vs, NEW scope,
         it \in [do : {"letVars"}, body : {body}, names : {names}, n : {n}, vars : {vs},
                 scope : {scope}]
  PROVE  CleanItem(it) \in [do : {"letVars"}, body : {CleanForms(body)},
                            names : {CleanAll(names)}, n : {n}, vars : {vs}, scope : {scope}]
<1> DEFINE b == CleanForms(body)
           ns == CleanAll(names)
<1>1. it.do = "letVars" /\ it.names = names /\ it.body = body OBVIOUS
<1>2. CleanItem(it) = [it EXCEPT !.names = ns, !.body = b] BY <1>1, CleanUpdates
<1> HIDE DEF b, ns
<1>3. CleanItem(it) \in [do : {"letVars"}, body : {b}, names : {ns}, n : {n}, vars : {vs},
                         scope : {scope}] BY <1>2
<1> QED BY <1>3 DEF b, ns

(* ... and of new items *)
LEMMA CleanNew ==
  /\ \A x, in : CleanItem(Expr(x, in)) = Expr(CleanValue(x), in)
  /\ \A x : CleanItem(Form(x)) = Form(CleanExpr(x))
  /\ \A x : CleanItem(Forms(x)) = Forms(CleanForms(x))
  /\ \A x, op, of, in : CleanItem(Body(x, op, of, in)) = Body(CleanForms(x), op, of, in)
  /\ \A x, op, n, in : CleanItem(Args(x, op, n, in)) = Args(x, op, n, in)
  /\ \A op, of, in : CleanItem(Make(op, of, in)) = Make(op, of, in)
  /\ \A s : CleanItem(Pop(s)) = Pop(s)
  /\ \A x, body, s : CleanItem(Params(x, body, s)) = Params(x, body, s)
  /\ CleanItem(EndBody) = EndBody
<1>1. ASSUME NEW x, NEW in
      PROVE  CleanItem(Expr(x, in)) = Expr(CleanValue(x), in)
  BY CleanExprFields DEF Expr
<1>2. ASSUME NEW x
      PROVE  CleanItem(Form(x)) = Form(CleanExpr(x)) BY CleanFormFields DEF Form
<1>3. ASSUME NEW x
      PROVE  CleanItem(Forms(x)) = Forms(CleanForms(x)) BY CleanFormsFields DEF Forms
<1>4. ASSUME NEW x, NEW op, NEW of, NEW in
      PROVE  CleanItem(Body(x, op, of, in)) = Body(CleanForms(x), op, of, in)
  <2> DEFINE R == [do : {"body"}, x : {CleanForms(x)}, op : {op}, of : {of}, in : {in}]
  <2>1. Body(x, op, of, in) \in [do : {"body"}, x : {x}, op : {op}, of : {of}, in : {in}]
    BY DEF Body
  <2>2. CleanItem(Body(x, op, of, in)) \in R BY <2>1, CleanBodyFields
  <2>3. Body(CleanForms(x), op, of, in) \in R BY DEF Body
  <2> QED BY <2>2, <2>3
<1>5. /\ \A x, op, n, in : CleanItem(Args(x, op, n, in)) = Args(x, op, n, in)
      /\ \A op, of, in : CleanItem(Make(op, of, in)) = Make(op, of, in)
      /\ \A s : CleanItem(Pop(s)) = Pop(s)
      /\ \A x, body, s : CleanItem(Params(x, body, s)) = Params(x, body, s)
      /\ CleanItem(EndBody) = EndBody BY CleanPlain DEF Args, Make, Pop, Params, EndBody
<1> QED BY <1>1, <1>2, <1>3, <1>4, <1>5

LEMMA CleanInits1 ==
  ASSUME NEW x, NEW body, NEW in
  PROVE  CleanItem(Inits(x, body, in)) = Inits(CleanVars(x), CleanForms(body), in)
<1> DEFINE e == <<>>
           R == [do : {"inits"}, x : {CleanVars(x)}, body : {CleanForms(body)},
                 names : {CleanAll(e)}, values : {e}, in : {in}]
<1>1. Inits(x, body, in) \in [do : {"inits"}, x : {x}, body : {body}, names : {e},
                              values : {e}, in : {in}] BY DEF Inits
<1>2. CleanItem(Inits(x, body, in)) \in R BY <1>1, CleanInitsFields
<1>3. Inits(CleanVars(x), CleanForms(body), in) \in R BY CleanEmpty DEF Inits
<1> QED BY <1>2, <1>3

(* The head of the list, and items that take its place *)
LEMMA CleanCurrent ==
  ASSUME IInv, todo # <<>>
  PROVE  /\ cleanTodo # <<>> /\ Hygiene!item = CleanItem(item)
         /\ Tail(cleanTodo) = CleanItems(Tail(todo))
BY CurrentItem, CleanItemsRest DEF cleanTodo, Hygiene!item, item

LEMMA CleanDo ==
  ASSUME IInv, todo # <<>>, NEW items, IsSeq(items), todo' = items \o Tail(todo),
         NEW c, c = CleanItems(items)
  PROVE  Hygiene!Do(c)
<1>1. IsSeq(todo) /\ Tail(cleanTodo) = CleanItems(Tail(todo))
  BY CurrentItem, CleanCurrent
<1>2. IsSeq(Tail(todo)) BY <1>1, TailSequence
<1>3. CleanItems(items \o Tail(todo)) = c \o Tail(cleanTodo)
  BY <1>1, <1>2, CleanItemsJoin
<1>4. cleanTodo' = c \o Tail(cleanTodo) BY <1>3 DEF cleanTodo
<1> QED BY <1>4 DEF Hygiene!Do

LEMMA CleanDoNothing ==
  ASSUME IInv, todo # <<>>, todo' = <<>> \o Tail(todo)
  PROVE  Hygiene!Do(<<>>)
BY CleanDo, CleanEmpty, EmptySequence

LEMMA CleanDoOne ==
  ASSUME IInv, todo # <<>>, NEW a, todo' = <<a>> \o Tail(todo), NEW c, c = CleanItem(a)
  PROVE  Hygiene!Do(<<c>>)
<1> DEFINE s == <<a>>
<1>1. IsSeq(s) /\ CleanItems(s) = <<c>> BY Sequence1, CleanItemsOne
<1> HIDE DEF s
<1>2. todo' = s \o Tail(todo) BY DEF s
<1> QED BY <1>1, <1>2, CleanDo

LEMMA CleanDoTwo ==
  ASSUME IInv, todo # <<>>, NEW a, NEW b, todo' = <<a, b>> \o Tail(todo),
         NEW c, c = CleanItem(a), NEW d, d = CleanItem(b)
  PROVE  Hygiene!Do(<<c, d>>)
<1> DEFINE s == <<a, b>>
<1>1. IsSeq(s) /\ CleanItems(s) = <<c, d>> BY Sequence2, CleanItemsTwo
<1> HIDE DEF s
<1>2. todo' = s \o Tail(todo) BY DEF s
<1> QED BY <1>1, <1>2, CleanDo

LEMMA SameContext == ctx' = ctx => cleanCtx' = cleanCtx
BY DEF cleanCtx

(* What is before the parser in both *)
LEMMA CleanExpressionItem ==
  ASSUME IInv, MarksInv, Current("expr"), NEW y, y = CleanValue(item.x)
  PROVE  /\ Hygiene!Current("expr") /\ Hygiene!item.x = y /\ Hygiene!item.in = item.in
         /\ y.k = item.x.k /\ isBinding(y) = isBinding(item.x)
         /\ \A b : Heads(y, b) <=> Heads(item.x, b)
         /\ IsUser(item.x) => y = item.x
<1>1. todo # <<>> /\ item.do = "expr" /\ IsExpr(item.x, markStamp) /\ markStamp \in Nat
      /\ KeysOK(env) BY ExpressionShown, ExpressionItem
<1>2. ItemShown(item, markStamp) BY <1>1, CurrentShown
<1>3. item \in [do : {"expr"}, x : {item.x}, in : {item.in}] BY <1>1, <1>2 DEF ItemShown
<1>4. CleanItem(item) \in [do : {"expr"}, x : {y}, in : {item.in}]
  BY <1>3, CleanExprFields
<1>5. cleanTodo # <<>> /\ Hygiene!item = CleanItem(item) BY <1>1, CleanCurrent
<1>6. Hygiene!item.do = "expr" /\ Hygiene!item.x = y /\ Hygiene!item.in = item.in
  BY <1>4, <1>5
<1>7. Hygiene!Current("expr") BY <1>5, <1>6 DEF Hygiene!Current
<1> QED BY <1>1, <1>6, <1>7, CleanHead, CleanUser

LEMMA CleanFormItem ==
  ASSUME IInv, MarksInv, Current("form"), NEW y, y = CleanExpr(item.x)
  PROVE  /\ Hygiene!Current("form") /\ Hygiene!item.x = y
         /\ y.k = item.x.k
         /\ \A b : Heads(y, b) <=> Heads(item.x, b)
         /\ IsUser(item.x) => y = item.x
<1>1. /\ todo # <<>> /\ item \in [do : {"form"}, x : {item.x}]
      /\ IsShown(item.x, markStamp) /\ IsExpr(item.x, markStamp)
      /\ markStamp \in Nat /\ KeysOK(env) BY FormShown
<1>2. CleanItem(item) \in [do : {"form"}, x : {y}] BY <1>1, CleanFormFields
<1>3. cleanTodo # <<>> /\ Hygiene!item = CleanItem(item) BY <1>1, CleanCurrent
<1>4. Hygiene!item.do = "form" /\ Hygiene!item.x = y BY <1>2, <1>3
<1>5. Hygiene!Current("form") BY <1>3, <1>4 DEF Hygiene!Current
<1>6. y = CleanValue(item.x) BY <1>1, CleanShown
<1> QED BY <1>1, <1>4, <1>5, <1>6, CleanHead, CleanUser

(* A node is made, an error reported. *)
LEMMA CleanMakes ==
  ASSUME IInv, todo # <<>>, Hygiene!item.in = item.in, NEW op, NEW of, Makes(op, of)
  PROVE  Hygiene!Makes(op, of)
BY CleanDoNothing DEF Makes, Do, Hygiene!Makes, Node, Hygiene!Node

LEMMA CleanFails ==
  ASSUME IInv, todo # <<>>, Hygiene!item.in = item.in, Fails
  PROVE  Hygiene!Fails
BY CleanMakes DEF Fails, Hygiene!Fails, Report, Hygiene!Report

-----------------------------------------------------------------------------
(* Each step is one of the parser that has no marks. *)
LEMMA SameTables ==
  /\ UNCHANGED scopeVars => UNCHANGED Hygiene!scopeVars
  /\ UNCHANGED tableVars => UNCHANGED Hygiene!tableVars
BY DEF scopeVars, tableVars, Hygiene!scopeVars, Hygiene!tableVars

LEMMA SameReports ==
  /\ Report => Hygiene!Report
  /\ \A bad : ReportIf(bad) => Hygiene!ReportIf(bad)
BY DEF Report, Hygiene!Report, ReportIf, Hygiene!ReportIf

LEMMA CompileValueClean ==
  ASSUME IInv, MarksInv, CompileValue PROVE Hygiene!CompileValue
BY ExpressionShown, CleanExpressionItem, CleanMakes, SameContext, SameTables DEF
   CompileValue, Hygiene!CompileValue

LEMMA CompileVariableClean ==
  ASSUME IInv, MarksInv, CompileVariable PROVE Hygiene!CompileVariable
<1> DEFINE b == isBinding(item.x)
<1>1. /\ Current("expr") /\ item.x.k \in {"symbol", "binding"}
      /\ IF IsVariable(b) THEN Makes("ref", <<b>>) ELSE Makes("unspecified", <<>>)
      /\ ReportIf(~IsVariable(b) /\ b # m_unspec)
      /\ UNCHANGED <<source, ctx, markStamp, tableVars>> BY DEF CompileVariable
<1>2. /\ todo # <<>> /\ Hygiene!Current("expr") /\ Hygiene!item.in = item.in
      /\ Hygiene!item.x.k \in {"symbol", "binding"}
      /\ Hygiene!isBinding(Hygiene!item.x) = b
  BY <1>1, ExpressionShown, CleanExpressionItem, SameBindings
<1> HIDE DEF b
<1>3. /\ Hygiene!IsVariable(b) <=> IsVariable(b)
      /\ Hygiene!m_unspec = m_unspec BY SameKinds, SameConstants
<1>4. IF Hygiene!IsVariable(b) THEN Hygiene!Makes("ref", <<b>>)
      ELSE Hygiene!Makes("unspecified", <<>>) BY <1>1, <1>2, <1>3, CleanMakes
<1>5. Hygiene!ReportIf(~Hygiene!IsVariable(b) /\ b # Hygiene!m_unspec)
  BY <1>1, <1>3 DEF ReportIf, Hygiene!ReportIf
<1> QED BY <1>1, <1>2, <1>4, <1>5, SameContext, SameTables DEF Hygiene!CompileVariable

LEMMA CompileInvalidClean ==
  ASSUME IInv, MarksInv, CompileInvalid PROVE Hygiene!CompileInvalid
BY ExpressionShown, CleanExpressionItem, SameKinds, SameBindings, SameConstants,
   CleanFails, SameContext, SameTables DEF CompileInvalid, IsNil, Hygiene!CompileInvalid

(* An expression that is the program's *)
LEMMA CleanUserItem ==
  ASSUME IInv, MarksInv, Current("expr"), NEW x, x = item.x, IsUser(x)
  PROVE  /\ todo # <<>> /\ Hygiene!Current("expr")
         /\ Hygiene!item.x = x /\ Hygiene!item.in = item.in
         /\ Hygiene!cdr(x) = cdr(x) /\ Hygiene!car(x) = car(x)
         /\ Hygiene!IsPair(x) <=> IsPair(x)
         /\ \A b : Hygiene!Heads(Hygiene!item.x, b) <=> Heads(x, b)
BY ExpressionShown, CleanExpressionItem, SameParts, SameKinds, SameBindings

LEMMA CleanUserNew ==
  ASSUME NEW x, IsUser(x)
  PROVE  /\ \A in : CleanItem(Expr(x, in)) = Expr(x, in)
         /\ CleanItem(Form(x)) = Form(x) /\ CleanItem(Forms(x)) = Forms(x)
         /\ \A op, of, in : CleanItem(Body(x, op, of, in)) = Body(x, op, of, in)
         /\ \A body, in : IsUser(body) => CleanItem(Inits(x, body, in)) = Inits(x, body, in)
BY CleanNew, CleanUser, CleanInits1

LEMMA CompileCallClean ==
  ASSUME IInv, MarksInv, CompileCall PROVE Hygiene!CompileCall
<1> DEFINE x == item.x
           b == isBinding(car(x))
           a == Expr(car(x), item.in)
           r == Args(cdr(x), "apply", 0, item.in)
<1>1. /\ Current("expr") /\ IsPair(x) /\ (b = Env!NoBinding \/ IsVariable(b))
      /\ todo' = <<a, r>> \o Tail(todo)
      /\ UNCHANGED <<source, ctx, out, errors, markStamp, tableVars>>
  BY DEF CompileCall, Do
<1>2. b \notin {MACRO_OR, RES_IF, RES_LET}
  <2> HIDE DEF b
  <2> QED BY <1>1 DEF IsVariable, Env!NoBinding, MACRO_OR, RES_IF, RES_LET
<1>3. IsUser(x) /\ IsUser(car(x)) /\ IsUser(cdr(x))
  BY <1>1, <1>2, ExpressionShown, HeadsUser
<1>4. /\ todo # <<>> /\ Hygiene!Current("expr")
      /\ Hygiene!item.x = x /\ Hygiene!item.in = item.in
      /\ Hygiene!cdr(x) = cdr(x) /\ Hygiene!car(x) = car(x) /\ Hygiene!IsPair(x)
  BY <1>1, <1>3, CleanUserItem
<1>5. Hygiene!Do(<<a, r>>)
  <2>1. CleanItem(a) = a /\ CleanItem(r) = r BY <1>3, CleanUserNew, CleanNew
  <2> HIDE DEF a, r
  <2> QED BY <1>1, <1>4, <2>1, CleanDoTwo
<1>6. /\ a = Hygiene!Expr(Hygiene!car(x), item.in)
      /\ r = Hygiene!Args(Hygiene!cdr(x), "apply", 0, item.in) BY <1>4, SameItems
<1>7. /\ Hygiene!isBinding(Hygiene!car(x)) = b
      /\ Hygiene!IsVariable(b) <=> IsVariable(b) BY <1>4, SameBindings, SameKinds
<1> HIDE DEF x, b, a, r
<1> QED BY <1>1, <1>4, <1>5, <1>6, <1>7, SameContext, SameTables, SameConstants
        DEF Hygiene!CompileCall

(* The two expansions of a use of "or" *)
LEMMA ExpansionsAgree ==
  ASSUME markStamp \in Nat, NEW n \in Nat, NEW x, IsUse(x, n), NEW y, y = CleanExpr(x)
  PROVE  /\ OrPattern(y) <=> OrPattern(x)
         /\ OrPattern(x) => CleanExpr(Expanded(x)) = Renamed(y)
<1> DEFINE p == cdr(x)
           q == cdr(y)
           m == markStamp + 1
<1>1. q.k = p.k /\ (IsPair(p) => car(q) = car(p) /\ cdr(q) = cdr(p))
  BY CleanUser, CleanForm, PlainParts DEF OrForm, IsPair, IsUse
<1>2. /\ OrPattern(x) <=> IsList(p) /\ (IsPair(p) => IsList(cdr(p)))
      /\ OrPattern(y) <=> IsList(q) /\ (IsPair(q) => IsList(cdr(q))) BY DEF OrPattern
<1>3. Renamed(y) = IF IsNil(q) THEN Value
                   ELSE IF IsNil(cdr(q)) THEN car(q)
                   ELSE LetForm(m, car(q), car(cdr(q)), cdr(cdr(q))) BY DEF Renamed
<1> HIDE DEF q
<1>4. OrPattern(y) <=> OrPattern(x) BY <1>1, <1>2 DEF IsList, IsPair, IsNil
<1>5. ASSUME OrPattern(x)
      PROVE  CleanExpr(Expanded(x)) = Renamed(y)
  <2>1. /\ IsNil(p) => Expanded(x) = Value
        /\ ~IsNil(p) => IsPair(p) /\ IsUser(car(p))
        /\ ~IsNil(p) /\ IsNil(cdr(p)) => Expanded(x) = car(p)
        /\ ~IsNil(p) /\ ~IsNil(cdr(p)) =>
             /\ IsUser(car(cdr(p))) /\ IsUser(cdr(cdr(p)))
             /\ Expanded(x) = MadeLet(m, car(p), car(cdr(p)), cdr(cdr(p)))
    BY <1>5, ExpandedIs
  <2>2. m \in Stamp BY <2>1 DEF Stamp
  <2>3. IsNil(q) <=> IsNil(p) BY <1>1 DEF IsNil
  <2> HIDE DEF p, m
  <2>4. CASE IsNil(p) BY <1>3, <2>3, <2>4, <2>1, UserAtom, CleanUser
  <2>5. CASE ~IsNil(p) /\ IsNil(cdr(p)) BY <1>1, <1>3, <2>1, <2>3, <2>5, CleanUser
  <2>6. CASE ~IsNil(p) /\ ~IsNil(cdr(p))
    BY <1>1, <1>3, <2>1, <2>3, <2>6, <2>2, CleanMadeLet
  <2> QED BY <2>4, <2>5, <2>6
<1> QED BY <1>4, <1>5

LEMMA UseNotBegin ==
  ASSUME NEW n, NEW x, IsUse(x, n)
  PROVE  IsShown(x, n)
BY UserIsShown DEF IsUse, IsShown

LEMMA CompileMacroClean ==
  ASSUME IInv, MarksInv, CompileMacro PROVE Hygiene!CompileOr
<1> DEFINE x == item.x
           y == CleanExpr(x)
           a == Expr(Expanded(x), item.in)
           c == Expr(Renamed(y), item.in)
<1>1. /\ Current("expr") /\ Heads(x, MACRO_OR) /\ UNCHANGED <<source, ctx, tableVars>>
      /\ IF OrPattern(x)
         THEN /\ todo' = <<a>> \o Tail(todo) /\ markStamp' = markStamp + 1
              /\ UNCHANGED <<out, errors>>
         ELSE Fails /\ UNCHANGED markStamp BY DEF CompileMacro, ExpressionUse, Do
<1>2. IsExpr(x, markStamp) /\ markStamp \in Nat /\ KeysOK(env) /\ todo # <<>>
  BY <1>1, ExpressionShown
<1>3. IsUse(x, markStamp) BY <1>1, <1>2, HeadsOr
<1>4. y = CleanValue(x) BY <1>3, UseNotBegin, CleanShown
<1>5. /\ Hygiene!Current("expr") /\ Hygiene!item.x = y /\ Hygiene!item.in = item.in
      /\ Hygiene!Heads(y, Hygiene!MACRO_OR)
  BY <1>1, <1>4, CleanExpressionItem, SameBindings, SameConstants
<1>6. /\ OrPattern(y) <=> OrPattern(x)
      /\ OrPattern(x) => CleanExpr(Expanded(x)) = Renamed(y)
  BY <1>2, <1>3, ExpansionsAgree
<1>7. Hygiene!OrPattern(y) <=> OrPattern(x) BY <1>6, SameShapes
<1>8. OrPattern(x) => CleanItem(a) = c
  BY <1>2, <1>3, <1>6, ExpandedShown, CleanShown, CleanNew
<1>9. c = Hygiene!Expr(Hygiene!Renamed(y), item.in) BY SameItems, SameExpansions
<1> HIDE DEF x, y, a, c
<1>10. CASE OrPattern(x)
  <2>1. Hygiene!Do(<<c>>) BY <1>1, <1>2, <1>8, <1>10, CleanDoOne
  <2> QED BY <1>1, <1>5, <1>7, <1>9, <1>10, <2>1, SameContext, SameTables
          DEF Hygiene!CompileOr, Hygiene!ExpressionUse
<1>11. CASE ~OrPattern(x)
  BY <1>1, <1>2, <1>5, <1>11, <1>7, CleanFails, SameContext, SameTables DEF
     Hygiene!CompileOr, Hygiene!ExpressionUse
<1> QED BY <1>10, <1>11

LEMMA FormMacroClean ==
  ASSUME IInv, MarksInv, FormMacro PROVE Hygiene!FormOr
<1> DEFINE x == item.x
           y == CleanExpr(x)
           a == Form(Expanded(x))
           c == Form(Renamed(y))
<1>1. /\ Current("form") /\ Heads(x, MACRO_OR) /\ UNCHANGED <<source, ctx, out, tableVars>>
      /\ IF OrPattern(x)
         THEN /\ todo' = <<a>> \o Tail(todo) /\ markStamp' = markStamp + 1
              /\ UNCHANGED errors
         ELSE Report /\ todo' = <<>> \o Tail(todo) /\ UNCHANGED markStamp
  BY DEF FormMacro, FormUse, Do
<1>2. IsExpr(x, markStamp) /\ markStamp \in Nat /\ KeysOK(env) /\ todo # <<>>
  BY <1>1, FormShown
<1>3. IsUse(x, markStamp) BY <1>1, <1>2, HeadsOr
<1>4. /\ Hygiene!Current("form") /\ Hygiene!item.x = y
      /\ Hygiene!Heads(y, Hygiene!MACRO_OR)
  BY <1>1, CleanFormItem, SameBindings, SameConstants
<1>5. /\ OrPattern(y) <=> OrPattern(x)
      /\ OrPattern(x) => CleanExpr(Expanded(x)) = Renamed(y)
  BY <1>2, <1>3, ExpansionsAgree
<1>6. Hygiene!OrPattern(y) <=> OrPattern(x) BY <1>5, SameShapes
<1>7. OrPattern(x) => CleanItem(a) = c BY <1>5, CleanNew
<1>8. c = Hygiene!Form(Hygiene!Renamed(y)) BY SameItems, SameExpansions
<1> HIDE DEF x, y, a, c
<1>9. CASE OrPattern(x)
  <2>1. Hygiene!Do(<<c>>) BY <1>1, <1>2, <1>7, <1>9, CleanDoOne
  <2> QED BY <1>1, <1>4, <1>6, <1>8, <1>9, <2>1, SameContext, SameTables
          DEF Hygiene!FormOr, Hygiene!FormUse
<1>10. CASE ~OrPattern(x)
  BY <1>1, <1>2, <1>10, <1>4, <1>6, CleanDoNothing, SameReports, SameContext,
     SameTables DEF Hygiene!FormOr, Hygiene!FormUse
<1> QED BY <1>9, <1>10

(* Items for a list of expressions *)
LEMMA CleanExprs ==
  ASSUME NEW n, NEW xs, IsSeq(xs), AllShown(xs, n), NEW f, NEW c, c = Exprs(xs, f)
  PROVE  /\ IsSeq(c) /\ Len(c) = Len(xs)
         /\ CleanItems(c) = Exprs(CleanAll(xs), f) /\ Len(CleanAll(xs)) = Len(xs)
<1> DEFINE ys == CleanAll(xs)
           d == Exprs(ys, f)
           t == CleanItems(c)
<1>1. /\ IsSeq(c) /\ Len(c) = Len(xs) /\ Len(xs) \in Nat
      /\ \A i \in 1..Len(xs) : c[i] = Expr(xs[i], f) BY ExprsProperties
<1>2. IsSeq(ys) /\ Len(ys) = Len(xs) /\ \A i \in 1..Len(xs) : ys[i] = CleanExpr(xs[i])
  BY CleanAllAre
<1> HIDE DEF ys
<1>3. /\ IsSeq(d) /\ Len(d) = Len(ys)
      /\ \A i \in 1..Len(ys) : d[i] = Expr(ys[i], f) BY <1>2, ExprsProperties
<1>4. IsSeq(t) /\ Len(t) = Len(c) /\ \A i \in 1..Len(c) : t[i] = CleanItem(c[i])
  BY <1>1, CleanItemsAre
<1> HIDE DEF d, t
<1>5. ASSUME NEW i \in 1..Len(t)
      PROVE  t[i] = d[i] BY <1>1, <1>4, <1>2, <1>3, CleanShown, CleanNew DEF AllShown
<1>6. t = d BY <1>1, <1>2, <1>3, <1>4, <1>5, SequencesEqual
<1> QED BY <1>1, <1>2, <1>6 DEF t, d, ys

LEMMA SameExprs ==
  \A xs, f : [i \in 1..Len(xs) |-> Hygiene!Expr(xs[i], f)] = Exprs(xs, f)
BY SameItems DEF Exprs

(* ... with the node that they are parts of *)
LEMMA CleanDoExprs ==
  ASSUME IInv, todo # <<>>, NEW n, NEW xs, IsSeq(xs), AllShown(xs, n), NEW f,
         NEW last, todo' = (Exprs(xs, f) \o <<last>>) \o Tail(todo),
         NEW ys, ys = CleanAll(xs), NEW c, c = CleanItem(last)
  PROVE  Hygiene!Do(Exprs(ys, f) \o <<c>>)
<1> DEFINE es == Exprs(xs, f)
           ts == <<last>>
           items == es \o ts
<1>1. IsSeq(es) /\ CleanItems(es) = Exprs(ys, f) BY CleanExprs
<1>2. IsSeq(ts) /\ CleanItems(ts) = <<c>> BY Sequence1, CleanItemsOne
<1>3. todo' = items \o Tail(todo) OBVIOUS
<1> HIDE DEF es, ts
<1>4. IsSeq(items) /\ CleanItems(items) = Exprs(ys, f) \o <<c>>
  BY <1>1, <1>2, ConcatSequence, CleanItemsJoin
<1> HIDE DEF items
<1> QED BY <1>3, <1>4, CleanDo

LEMMA CompileBeginClean ==
  ASSUME IInv, MarksInv, CompileBegin PROVE Hygiene!CompileBegin
<1> DEFINE x == item.x
           a == Args(cdr(x), "begin", 0, item.in)
           xs == x.exprs
           m == Make("begin", <<Len(xs)>>, item.in)
<1>1. /\ Current("expr")
      /\ \/ Heads(x, RES_BEGIN) /\ todo' = <<a>> \o Tail(todo)
         \/ x.k = "begin" /\ todo' = (Exprs(xs, item.in) \o <<m>>) \o Tail(todo)
      /\ UNCHANGED <<source, ctx, out, errors, markStamp, tableVars>>
  BY DEF CompileBegin, Exprs, Do
<1>2. todo # <<>> /\ IsExpr(x, markStamp) BY <1>1, ExpressionShown
<1>3. CASE Heads(x, RES_BEGIN) /\ todo' = <<a>> \o Tail(todo)
  <2>1. IsUser(x) /\ IsUser(cdr(x))
    BY <1>1, <1>3, ReservedShown DEF RES_BEGIN, MACRO_OR, RES_IF, RES_LET
  <2>2. /\ Hygiene!Current("expr")
        /\ Hygiene!item.x = x /\ Hygiene!item.in = item.in /\ Hygiene!cdr(x) = cdr(x)
        /\ Hygiene!Heads(Hygiene!item.x, RES_BEGIN) BY <1>1, <1>3, <2>1, CleanUserItem
  <2>3. CleanItem(a) = a BY CleanNew
  <2>4. a = Hygiene!Args(Hygiene!cdr(x), "begin", 0, item.in) BY <2>2, SameItems
  <2> HIDE DEF x, a
  <2>5. Hygiene!Do(<<a>>) BY <1>2, <1>3, <2>3, CleanDoOne
  <2> QED BY <1>1, <2>2, <2>4, <2>5, SameContext, SameTables, SameConstants
          DEF Hygiene!CompileBegin
<1>4. CASE x.k = "begin" /\ todo' = (Exprs(xs, item.in) \o <<m>>) \o Tail(todo)
  <2> DEFINE ys == CleanAll(xs)
             y == Begin(ys)
  <2>1. IsSeq(xs) /\ AllShown(xs, markStamp) BY <1>2, <1>4, ShownKinds DEF IsBegin
  <2>2. CleanValue(x) = y BY <1>4 DEF CleanValue
  <2>3. y.k = "begin" /\ y.exprs = ys BY DEF Begin
  <2>4. Len(ys) = Len(xs) BY <2>1, CleanAllAre
  <2>5. /\ Hygiene!Current("expr") /\ Hygiene!item.x = y /\ Hygiene!item.in = item.in
    BY <1>1, <2>2, CleanExpressionItem
  <2>6. CleanItem(m) = m BY CleanNew
  <2>7. Hygiene!Do(Exprs(ys, item.in) \o <<m>>)
    <3> HIDE DEF m, ys, x
    <3> QED BY <1>2, <1>4, <2>1, <2>6, CleanDoExprs DEF ys
  <2>8. m = Hygiene!Make("begin", <<Len(ys)>>, item.in) BY <2>4, SameItems
  <2>9. [i \in 1..Len(ys) |-> Hygiene!Expr(ys[i], item.in)] = Exprs(ys, item.in)
    BY SameExprs
  <2> DEFINE h == Hygiene!item
  <2>10. Hygiene!CompileBegin <=>
           /\ Hygiene!Current("expr")
           /\ \/ /\ Hygiene!Heads(h.x, Hygiene!RES_BEGIN)
                 /\ Hygiene!Do(<<Hygiene!Args(Hygiene!cdr(h.x), "begin", 0, h.in)>>)
              \/ /\ h.x.k = "begin"
                 /\ Hygiene!Do([i \in 1..Len(h.x.exprs) |-> Hygiene!Expr(h.x.exprs[i], h.in)]
                               \o <<Hygiene!Make("begin", <<Len(h.x.exprs)>>, h.in)>>)
           /\ UNCHANGED <<source, cleanCtx, out, errors, markStamp, Hygiene!tableVars>>
    BY DEF Hygiene!CompileBegin
  <2> HIDE DEF x, m, ys, y
  <2>11. h.x.k = "begin" /\ h.x.exprs = ys /\ h.in = item.in BY <2>3, <2>5
  <2> HIDE DEF h
  <2>12. Hygiene!Do([i \in 1..Len(h.x.exprs) |-> Hygiene!Expr(h.x.exprs[i], h.in)]
                    \o <<Hygiene!Make("begin", <<Len(h.x.exprs)>>, h.in)>>)
    BY <2>7, <2>8, <2>9, <2>11
  <2> QED BY <1>1, <2>5, <2>10, <2>11, <2>12, SameContext, SameTables
<1> QED BY <1>1, <1>3, <1>4

LEMMA CompileArgsClean ==
  ASSUME IInv, MarksInv, CompileArgs PROVE Hygiene!CompileArgs
<1> DEFINE x == item.x
           a == Expr(car(x), item.in)
           r == Args(cdr(x), item.op, item.n + 1, item.in)
<1>1. /\ todo # <<>> /\ item.do = "args"
      /\ IF IsPair(x) THEN todo' = <<a, r>> \o Tail(todo) /\ UNCHANGED <<out, errors>>
         ELSE Makes(item.op, <<item.n>>) /\ ReportIf(~IsNil(x))
      /\ UNCHANGED <<source, ctx, markStamp, tableVars>> BY DEF CompileArgs, Do, Current
<1>2. IsUser(x) BY <1>1, CurrentShown DEF ItemShown
<1>3. CleanItem(item) = item BY <1>1, CleanPlain
<1>4. Hygiene!item = item /\ Hygiene!Current("args")
  BY <1>1, <1>3, CleanCurrent DEF Hygiene!Current
<1>5. /\ Hygiene!IsPair(x) <=> IsPair(x)
      /\ Hygiene!IsNil(x) <=> IsNil(x)
      /\ Hygiene!car(x) = car(x) /\ Hygiene!cdr(x) = cdr(x) BY SameKinds, SameParts
<1>6. /\ a = Hygiene!Expr(Hygiene!car(x), item.in)
      /\ r = Hygiene!Args(Hygiene!cdr(x), item.op, item.n + 1, item.in)
  BY <1>5, SameItems
<1>7. CASE IsPair(x)
  <2>1. CleanItem(a) = a /\ CleanItem(r) = r
    BY <1>2, <1>7, UserCarCdr, CleanUserNew, CleanNew
  <2> HIDE DEF a, r, x
  <2>2. Hygiene!Do(<<a, r>>) BY <1>1, <1>7, <2>1, CleanDoTwo
  <2> QED BY <1>1, <1>4, <1>5, <1>6, <1>7, <2>2, SameContext, SameTables
          DEF Hygiene!CompileArgs, x
<1>8. CASE ~IsPair(x)
  BY <1>1, <1>4, <1>5, <1>8, CleanMakes, SameContext, SameTables DEF ReportIf,
     Hygiene!ReportIf, Hygiene!CompileArgs
<1> QED BY <1>7, <1>8

(* if *)
LEMMA CleanAllOne == \A a : CleanAll(<<a>>) = <<CleanExpr(a)>>
<1> TAKE a
<1> DEFINE e == <<>>
           p == CleanExpr(a)
<1>1. IsSeq(e) /\ CleanAll(e) = e BY EmptySequence, CleanEmpty
<1>2. Append(e, a) = <<a>> /\ Append(e, p) = <<p>>
  <2> HIDE DEF p
  <2> QED OBVIOUS
<1> HIDE DEF e
<1>3. CleanAll(Append(e, a)) = Append(e, p) BY <1>1, CleanAllAppend
<1> QED BY <1>2, <1>3

LEMMA TwoIsAppended ==
  ASSUME NEW a, NEW b
  PROVE  Append(<<a>>, b) = <<a, b>>
<1> DEFINE s == <<a>>
           t == <<a, b>>
<1>1. IsSeq(s) /\ Len(s) = 1 /\ s[1] = a BY Sequence1
<1>2. IsSeq(t) /\ Len(t) = 2 /\ t[1] = a /\ t[2] = b BY Sequence2
<1> HIDE DEF s, t
<1>3. Len(t) = Len(s) + 1 /\ t[Len(s) + 1] = b /\ \A i \in 1..Len(s) : t[i] = s[i]
  BY <1>1, <1>2
<1>4. t = Append(s, t[Len(s) + 1]) BY <1>1, <1>2, <1>3, AppendIs
<1>5. t = Append(s, b) BY <1>3, <1>4
<1> QED BY <1>5 DEF s, t

LEMMA AppendIsJoin ==
  ASSUME NEW s, IsSeq(s), NEW e
  PROVE  Append(s, e) = s \o <<e>>
BY SeqMonotonic DEF IsSeq

LEMMA CleanAllTwo == \A a, b : CleanAll(<<a, b>>) = <<CleanExpr(a), CleanExpr(b)>>
<1> TAKE a, b
<1> DEFINE s == <<a>>
           p == CleanExpr(a)
           q == CleanExpr(b)
           t == <<p>>
<1>1. IsSeq(s) /\ CleanAll(s) = t BY Sequence1, CleanAllOne
<1>2. Append(s, b) = <<a, b>> /\ Append(t, q) = <<p, q>> BY TwoIsAppended
<1> HIDE DEF s, t
<1>3. CleanAll(Append(s, b)) = Append(t, q) BY <1>1, CleanAllAppend
<1> QED BY <1>2, <1>3

LEMMA CleanAllMore ==
  ASSUME NEW s, IsSeq(s), NEW c, NEW t, t = CleanAll(s), NEW r, r = CleanExpr(c)
  PROVE  CleanAll(s \o Only(c)) = t \o Only(r)
<1>1. IsSeq(t) BY CleanAllAre
<1>2. Append(s, c) = s \o Only(c) /\ Append(t, r) = t \o Only(r)
  BY <1>1, AppendIsJoin DEF Only
<1>3. CleanAll(Append(s, c)) = Append(t, r) BY CleanAllAppend
<1> QED BY <1>2, <1>3

LEMMA CleanAllThree ==
  ASSUME NEW a, NEW b, NEW c
  PROVE  CleanAll(<<a, b>> \o <<c>>) = <<CleanExpr(a), CleanExpr(b)>> \o <<CleanExpr(c)>>
<1> DEFINE s == <<a, b>>
           t == <<CleanExpr(a), CleanExpr(b)>>
           r == CleanExpr(c)
<1>1. IsSeq(s) /\ CleanAll(s) = t BY Sequence2, CleanAllTwo
<1> HIDE DEF s, t, r
<1>2. CleanAll(s \o Only(c)) = t \o Only(r) BY <1>1, CleanAllMore DEF r
<1> QED BY <1>2 DEF s, t, r, Only

LEMMA CleanIfParts ==
  ASSUME NEW f, NEW g, CleanExpr(car(f)) = car(g), CleanExpr(car(cdr(f))) = car(cdr(g)),
         IsPair(cdr(cdr(g))) <=> IsPair(cdr(cdr(f))),
         IsPair(cdr(cdr(f))) => CleanExpr(car(cdr(cdr(f)))) = car(cdr(cdr(g)))
  PROVE  CleanAll(IfParts(f)) = IfParts(g)
<1> DEFINE a == car(f)
           b == car(cdr(f))
           c == car(cdr(cdr(f)))
           p == car(g)
           q == car(cdr(g))
           r == car(cdr(cdr(g)))
<1>1. CASE IsPair(cdr(cdr(f)))
  <2>1. IfParts(f) = <<a, b>> \o <<c>> /\ IfParts(g) = <<p, q>> \o <<r>>
    BY <1>1 DEF IfParts
  <2>2. CleanExpr(a) = p /\ CleanExpr(b) = q /\ CleanExpr(c) = r BY <1>1
  <2> HIDE DEF a, b, c, p, q, r
  <2>3. CleanAll(<<a, b>> \o <<c>>) = <<CleanExpr(a), CleanExpr(b)>> \o <<CleanExpr(c)>>
    BY CleanAllThree, ZenonT(30)
  <2>4. CleanAll(<<a, b>> \o <<c>>) = <<p, q>> \o <<r>> BY <2>2, <2>3, Zenon
  <2> QED BY <2>1, <2>4
<1>2. CASE ~IsPair(cdr(cdr(f)))
  <2>1. IfParts(f) = <<a, b>> \o <<>> /\ IfParts(g) = <<p, q>> \o <<>>
    BY <1>2 DEF IfParts
  <2>2. CleanExpr(a) = p /\ CleanExpr(b) = q OBVIOUS
  <2> HIDE DEF a, b, p, q
  <2>3. IfParts(f) = <<a, b>> /\ IfParts(g) = <<p, q>> BY <2>1
  <2>4. CleanAll(<<a, b>>) = <<p, q>> BY <2>2, CleanAllTwo
  <2> QED BY <2>3, <2>4
<1> QED BY <1>1, <1>2

LEMMA CleanIfForm ==
  ASSUME NEW n \in Nat, NEW x, NEW y, y = CleanExpr(x),
         (IsPair(x) /\ IsUser(x)) \/ IsIf(x, n)
  PROVE  SameIf(cdr(x), cdr(y))
<1> DEFINE f == cdr(x)
           g == cdr(y)
<1>1. CASE IsPair(x) /\ IsUser(x)
  <2>1. g = f /\ IsUser(f) BY <1>1, UserCarCdr, CleanUser
  <2>2. ASSUME TwoAndRest(f)
        PROVE  CleanAll(IfParts(f)) = IfParts(f)
    <3> HIDE DEF f
    <3>1. IsUser(car(f)) /\ IsUser(cdr(f)) /\ IsPair(cdr(f))
      BY <2>1, <2>2, UserCarCdr DEF TwoAndRest
    <3>2. IsUser(car(cdr(f))) /\ IsUser(cdr(cdr(f))) BY <3>1, UserCarCdr
    <3>3. IsPair(cdr(cdr(f))) => IsUser(car(cdr(cdr(f)))) BY <3>2, UserCarCdr
    <3> QED BY <3>1, <3>2, <3>3, CleanUser, CleanIfParts
  <2> QED BY <2>1, <2>2 DEF SameIf
<1>2. CASE IsIf(x, n)
  <2>1. PICK m, b, r : /\ IsUser(b) /\ IsUser(r) /\ m \in 1..n
                       /\ x = MadeIf(m, b, r) /\ y = IfForm(m, b, r) BY <1>2, CleanForm
  <2>2. m \in Stamp BY <2>1 DEF Stamp
  <2>3. /\ car(f) = Tmp(m) /\ IsPair(f) /\ car(cdr(f)) = Tmp(m)
        /\ IsPair(cdr(f))
        /\ IsPair(cdr(cdr(f))) /\ car(cdr(cdr(f))) = MadeOr(m, b, r)
        /\ cdr(cdr(cdr(f))) = Nil BY <2>1, <2>2, IfMade
  <2>4. g = Pair(Own(m), Pair(Own(m), Pair(OrForm(b, r), Nil)))
    BY <2>1, IfFormIs, PlainParts
  <2>5. /\ IsPair(g) /\ car(g) = Own(m)
        /\ cdr(g) = Pair(Own(m), Pair(OrForm(b, r), Nil)) BY <2>4, PlainParts
  <2>6. /\ IsPair(cdr(g)) /\ car(cdr(g)) = Own(m)
        /\ cdr(cdr(g)) = Pair(OrForm(b, r), Nil) BY <2>5, PlainParts
  <2>7. /\ IsPair(cdr(cdr(g))) /\ car(cdr(cdr(g))) = OrForm(b, r)
        /\ cdr(cdr(cdr(g))) = Nil BY <2>6, PlainParts
  <2>8. CleanExpr(Tmp(m)) = Own(m) /\ CleanExpr(MadeOr(m, b, r)) = OrForm(b, r)
    BY <2>1, <2>2, CleanTmp, CleanMadeOr
  <2> HIDE DEF f, g
  <2>9. CleanAll(IfParts(f)) = IfParts(g) BY <2>3, <2>5, <2>6, <2>7, <2>8, CleanIfParts
  <2>10. TwoAndRest(f) /\ TwoAndRest(g) BY <2>3, <2>5, <2>6, <2>7 DEF TwoAndRest, IsList
  <2>11. SameIf(f, g) BY <2>3, <2>7, <2>9, <2>10 DEF SameIf
  <2> QED BY <2>11 DEF f, g
<1> QED BY <1>1, <1>2

LEMMA CompileIfClean ==
  ASSUME IInv, MarksInv, CompileIf PROVE Hygiene!CompileIf
<1> DEFINE x == item.x
           y == CleanExpr(x)
           f == cdr(x)
           g == cdr(y)
           in == item.in
           more == cdr(cdr(f))
           m == Make("if", <<Len(IfParts(f))>>, in)
<1>1. /\ Current("expr") /\ Heads(x, RES_IF)
      /\ IF TwoAndRest(f)
         THEN /\ todo' = (Exprs(IfParts(f), in) \o <<m>>) \o Tail(todo)
              /\ ReportIf(IsPair(more) /\ ~IsNil(cdr(more)))
              /\ UNCHANGED out
         ELSE Fails
      /\ UNCHANGED <<source, ctx, markStamp, tableVars>>
  BY DEF CompileIf, IfParts, Exprs, Do
<1>2. /\ todo # <<>> /\ markStamp \in Nat /\ KeysOK(env)
      /\ IsPair(x) /\ IsSyntax(x) /\ IsExpr(x, markStamp)
  BY <1>1, ExpressionShown DEF Heads
<1>3. IsUser(x) \/ IsIf(x, markStamp)
  BY <1>1, <1>2, HeadOfExpr DEF Heads, RES_IF, RES_LET, MACRO_OR
<1>4. y = CleanValue(x) BY <1>3, UserIsShown, CleanShown DEF IsShown
<1>5. /\ Hygiene!Current("expr") /\ Hygiene!item.x = y /\ Hygiene!item.in = in
      /\ Hygiene!Heads(y, Hygiene!RES_IF)
  BY <1>1, <1>4, CleanExpressionItem, SameBindings, SameConstants
<1>6. SameIf(f, g) BY <1>2, <1>3, CleanIfForm
<1>7. /\ Hygiene!cdr(y) = g
      /\ Hygiene!TwoAndRest(g) <=> TwoAndRest(f)
      /\ Hygiene!cdr(Hygiene!cdr(g)) = cdr(cdr(g))
      /\ Hygiene!IsPair(cdr(cdr(g))) <=> IsPair(more)
      /\ Hygiene!IsNil(Hygiene!cdr(cdr(cdr(g)))) <=> IsNil(cdr(more))
      /\ Hygiene!IsPair(cdr(cdr(g))) <=> IsPair(cdr(cdr(g)))
      /\ Hygiene!car(g) = car(g) /\ Hygiene!car(Hygiene!cdr(g)) = car(cdr(g))
      /\ Hygiene!car(cdr(cdr(g))) = car(cdr(cdr(g)))
  BY <1>6, SameParts, SameKinds, SameShapes DEF SameIf
<1> DEFINE h == Hygiene!item
           hf == Hygiene!cdr(h.x)
           hr == Hygiene!cdr(Hygiene!cdr(hf))
           hp == <<Hygiene!car(hf), Hygiene!car(Hygiene!cdr(hf))>> \o
                 IF Hygiene!IsPair(hr) THEN <<Hygiene!car(hr)>> ELSE <<>>
<1>8. Hygiene!CompileIf <=>
        /\ Hygiene!Current("expr")
        /\ Hygiene!Heads(h.x, Hygiene!RES_IF)
        /\ IF Hygiene!TwoAndRest(hf)
           THEN /\ Hygiene!Do([i \in 1..Len(hp) |-> Hygiene!Expr(hp[i], h.in)]
                              \o <<Hygiene!Make("if", <<Len(hp)>>, h.in)>>)
                /\ Hygiene!ReportIf(Hygiene!IsPair(hr) /\ ~Hygiene!IsNil(Hygiene!cdr(hr)))
                /\ UNCHANGED out
           ELSE Hygiene!Fails
        /\ UNCHANGED <<source, cleanCtx, markStamp, Hygiene!tableVars>>
  BY DEF Hygiene!CompileIf
<1>9. h.x = y /\ h.in = in /\ hf = g /\ hr = cdr(cdr(g)) BY <1>5, <1>7
<1>10. hp = IfParts(g)
  <2> HIDE DEF h, g
  <2>1. hp = <<car(g), car(cdr(g))>> \o IF IsPair(cdr(cdr(g))) THEN <<car(cdr(cdr(g)))>> ELSE <<>>
    BY <1>7, <1>9
  <2> QED BY <2>1 DEF IfParts
<1>11. CASE TwoAndRest(f)
  <2>1. IsSyntax(f) BY <1>2, CarCdrSyntax
  <2>2. IsSeq(IfParts(f)) /\ AllShown(IfParts(f), markStamp)
    <3>1. IsSeq(IfParts(f)) BY <1>11, <2>1, IfPartsProperties DEF IsSyntaxSequence
    <3>2. CASE IsUser(x)
      <4>1. IsUser(f) BY <1>2, <3>2, UserCarCdr
      <4> HIDE DEF f
      <4> QED BY <1>11, <3>1, <4>1, UserIfParts, IfPartsShown
    <3>3. CASE IsIf(x, markStamp) BY <1>2, <3>1, <3>3, IfMadeParts, IfPartsShown
    <3> QED BY <1>3, <3>2, <3>3
  <2>3. IfParts(g) = CleanAll(IfParts(f)) BY <1>6, <1>11 DEF SameIf
  <2> DEFINE ps == IfParts(f)
             qs == IfParts(g)
             k == Hygiene!Make("if", <<Len(qs)>>, in)
  <2>4. Len(qs) = Len(ps) BY <2>2, <2>3, CleanAllAre
  <2>5. CleanItem(m) = m BY CleanNew
  <2>6. m = k BY <2>4, SameItems
  <2> HIDE DEF m, ps, qs, k
  <2>7. Hygiene!Do(Exprs(qs, in) \o <<k>>)
    BY <1>1, <1>2, <1>11, <2>2, <2>3, <2>5, <2>6, CleanDoExprs DEF ps, qs
  <2>8. [i \in 1..Len(qs) |-> Hygiene!Expr(qs[i], in)] = Exprs(qs, in) BY SameExprs
  <2> HIDE DEF hp, h, hr, hf, in
  <2>9. Hygiene!Do([i \in 1..Len(hp) |-> Hygiene!Expr(hp[i], h.in)]
                   \o <<Hygiene!Make("if", <<Len(hp)>>, h.in)>>)
    BY <1>9, <1>10, <2>7, <2>8 DEF qs, k
  <2>10. Hygiene!ReportIf(Hygiene!IsPair(hr) /\ ~Hygiene!IsNil(Hygiene!cdr(hr)))
    BY <1>1, <1>7, <1>9, <1>11 DEF ReportIf, Hygiene!ReportIf
  <2> HIDE DEF x, y, f, g
  <2> QED BY <1>1, <1>5, <1>7, <1>8, <1>9, <1>11, <2>9, <2>10, SameContext, SameTables
<1>12. CASE ~TwoAndRest(f)
  <2>1. Hygiene!Fails BY <1>1, <1>2, <1>5, <1>12, CleanFails
  <2> HIDE DEF hp, h, hr, hf, x, y, f, g
  <2> QED BY <1>1, <1>5, <1>7, <1>8, <1>9, <1>12, <2>1, SameContext, SameTables
<1> QED BY <1>11, <1>12

(* set! *)
LEMMA CompileSetBangClean ==
  ASSUME IInv, MarksInv, CompileSetBang PROVE Hygiene!CompileSetBang
<1> DEFINE x == item.x
           form == cdr(x)
           b == isBinding(car(form))
           a == Expr(car(cdr(form)), item.in)
           m == Make("set", <<b>>, item.in)
<1>1. /\ Current("expr") /\ Heads(x, RES_SETBANG)
      /\ IF Two(form) /\ IsVariable(b)
         THEN todo' = <<a, m>> \o Tail(todo) /\ UNCHANGED <<out, errors>>
         ELSE Fails
      /\ UNCHANGED <<source, ctx, markStamp, tableVars>> BY DEF CompileSetBang, Do
<1>2. IsUser(x) /\ IsUser(form)
  BY <1>1, ReservedShown DEF RES_SETBANG, MACRO_OR, RES_IF, RES_LET
<1>3. /\ todo # <<>> /\ Hygiene!Current("expr")
      /\ Hygiene!item.x = x /\ Hygiene!item.in = item.in /\ Hygiene!cdr(x) = form
      /\ Hygiene!Heads(Hygiene!item.x, RES_SETBANG) BY <1>1, <1>2, CleanUserItem
<1>4. /\ Hygiene!Two(form) <=> Two(form)
      /\ Hygiene!isBinding(Hygiene!car(form)) = b
      /\ Hygiene!IsVariable(b) <=> IsVariable(b)
      /\ Hygiene!car(Hygiene!cdr(form)) = car(cdr(form))
  BY SameShapes, SameParts, SameBindings, SameKinds
<1>5. /\ a = Hygiene!Expr(car(cdr(form)), item.in)
      /\ m = Hygiene!Make("set", <<b>>, item.in) BY SameItems
<1>6. CASE Two(form) /\ IsVariable(b)
  <2>1. CleanItem(a) = a /\ CleanItem(m) = m
    <3>1. IsUser(car(cdr(form)))
      <4> HIDE DEF form
      <4>1. IsUser(cdr(form)) /\ IsPair(cdr(form)) BY <1>2, <1>6, UserCarCdr DEF Two
      <4> QED BY <4>1, UserCarCdr
    <3> QED BY <3>1, CleanUserNew, CleanNew
  <2> HIDE DEF a, m
  <2>2. Hygiene!Do(<<a, m>>) BY <1>1, <1>3, <1>6, <2>1, CleanDoTwo
  <2> HIDE DEF b, form, x
  <2> QED BY <1>1, <1>3, <1>4, <1>5, <1>6, <2>2, SameContext, SameTables, SameConstants
          DEF Hygiene!CompileSetBang
<1>7. CASE ~(Two(form) /\ IsVariable(b))
  <2>1. Hygiene!Fails BY <1>1, <1>3, <1>7, CleanFails
  <2> HIDE DEF b, form, x, a, m
  <2> QED BY <1>1, <1>3, <1>4, <1>7, <2>1, SameContext, SameTables, SameConstants
          DEF Hygiene!CompileSetBang
<1> QED BY <1>6, <1>7

(* lambda *)
LEMMA CompileLambdaClean ==
  ASSUME IInv, MarksInv, CompileLambda PROVE Hygiene!CompileLambda
<1> DEFINE x == item.x
           form == cdr(x)
           a == Params(car(form), cdr(form), nextScope)
<1>1. /\ Current("expr") /\ Heads(x, RES_LAMBDA)
      /\ IF OneAndRest(form)
         THEN /\ NewScope(item.in) /\ todo' = <<a>> \o Tail(todo) /\ UNCHANGED <<out, errors>>
         ELSE Fails /\ UNCHANGED <<scopeVars, frames>>
      /\ UNCHANGED <<source, ctx, markStamp, variables>> BY DEF CompileLambda, Do
<1>2. IsUser(x) /\ IsUser(form)
  BY <1>1, ReservedShown DEF RES_LAMBDA, MACRO_OR, RES_IF, RES_LET
<1>3. /\ todo # <<>> /\ Hygiene!Current("expr")
      /\ Hygiene!item.x = x /\ Hygiene!item.in = item.in /\ Hygiene!cdr(x) = form
      /\ Hygiene!Heads(Hygiene!item.x, RES_LAMBDA) BY <1>1, <1>2, CleanUserItem
<1>4. /\ Hygiene!OneAndRest(form) <=> OneAndRest(form)
      /\ Hygiene!car(form) = car(form) /\ Hygiene!cdr(form) = cdr(form)
      /\ Hygiene!nextScope = nextScope BY SameShapes, SameParts, SameSteps
<1>5. a = Hygiene!Params(car(form), cdr(form), nextScope) BY SameItems
<1>6. CASE OneAndRest(form)
  <2>1. CleanItem(a) = a BY CleanNew
  <2> HIDE DEF a
  <2>2. Hygiene!Do(<<a>>) BY <1>1, <1>3, <1>6, <2>1, CleanDoOne
  <2>3. Hygiene!NewScope(item.in) BY <1>1, <1>6, SameSteps
  <2> HIDE DEF form, x
  <2> QED BY <1>1, <1>3, <1>4, <1>5, <1>6, <2>2, <2>3, SameContext, SameConstants
          DEF Hygiene!CompileLambda
<1>7. CASE ~OneAndRest(form)
  <2>1. Hygiene!Fails BY <1>1, <1>3, <1>7, CleanFails
  <2> HIDE DEF form, x, a
  <2> QED BY <1>1, <1>3, <1>4, <1>7, <2>1, SameContext, SameTables, SameConstants
          DEF Hygiene!CompileLambda
<1> QED BY <1>6, <1>7

LEMMA CleanLetForm ==
  ASSUME NEW n \in Nat, NEW x, NEW y, y = CleanExpr(x),
         (IsPair(x) /\ IsUser(x)) \/ IsLet(x, n)
  PROVE  SameLet(cdr(x), cdr(y))
<1> DEFINE f == cdr(x)
           g == cdr(y)
<1>1. CASE IsPair(x) /\ IsUser(x)
  <2>1. g = f /\ IsUser(f) BY <1>1, UserCarCdr, CleanUser
  <2> HIDE DEF f, g
  <2>2. SameLet(f, g) BY <2>1, UserCarCdr, CleanUser DEF SameLet, OneAndRest
  <2> QED BY <2>2 DEF f, g
<1>2. CASE IsLet(x, n)
  <2>1. PICK m, a, b, r : /\ IsUser(a) /\ IsUser(b) /\ IsUser(r) /\ m \in 1..n
                          /\ x = MadeLet(m, a, b, r) /\ y = LetForm(m, a, b, r)
    BY <1>2, CleanForm
  <2>2. m \in Stamp BY <2>1 DEF Stamp
  <2> DEFINE vs == Pair(Pair(Own(m), Pair(a, Nil)), Nil)
             bs == Pair(IfForm(m, b, r), Nil)
  <2>3. IsPair(f) /\ car(f) = MadeInits(m, a) /\ cdr(f) = MadeBody(m, b, r)
    BY <2>1, <2>2, LetMade
  <2>4. OwnInits(m, a) = vs BY FormOfOne, FormOfTwo DEF OwnInits, List
  <2>5. CleanVars(MadeInits(m, a)) = vs /\ CleanForms(MadeBody(m, b, r)) = bs
    BY <2>1, <2>2, CleanMadeInits, CleanMadeBody
  <2>6. IsPair(vs) /\ IsPair(bs) BY PlainParts
  <2> HIDE DEF vs, bs
  <2>7. g = Pair(vs, bs) BY <2>1, <2>4, LetFormIs, PlainParts DEF bs
  <2>8. IsPair(g) /\ car(g) = vs /\ cdr(g) = bs BY <2>7, PlainParts
  <2>9. IsPair(car(f)) /\ IsPair(cdr(f)) BY <2>3 DEF IsPair, MadeInits, MadeBody, Made
  <2> HIDE DEF f, g
  <2>10. SameLet(f, g) BY <2>3, <2>5, <2>6, <2>8, <2>9 DEF SameLet, OneAndRest, IsList
  <2> QED BY <2>10 DEF f, g
<1> QED BY <1>1, <1>2

LEMMA CompileLetClean ==
  ASSUME IInv, MarksInv, CompileLet PROVE Hygiene!CompileLet
<1> DEFINE x == item.x
           y == CleanExpr(x)
           f == cdr(x)
           g == cdr(y)
           in == item.in
           a == Inits(car(f), cdr(f), in)
           c == Inits(car(g), cdr(g), in)
<1>1. /\ Current("expr") /\ Heads(x, RES_LET)
      /\ IF OneAndRest(f) /\ IsList(car(f))
         THEN todo' = <<a>> \o Tail(todo) /\ UNCHANGED <<out, errors>>
         ELSE Fails
      /\ UNCHANGED <<source, ctx, markStamp, tableVars>> BY DEF CompileLet, Do
<1>2. /\ todo # <<>> /\ markStamp \in Nat /\ KeysOK(env)
      /\ IsPair(x) /\ IsExpr(x, markStamp) BY <1>1, ExpressionShown DEF Heads
<1>3. IsUser(x) \/ IsLet(x, markStamp)
  BY <1>1, <1>2, HeadOfExpr DEF Heads, RES_IF, RES_LET, MACRO_OR
<1>4. y = CleanValue(x) BY <1>3, UserIsShown, CleanShown DEF IsShown
<1>5. /\ Hygiene!Current("expr") /\ Hygiene!item.x = y /\ Hygiene!item.in = in
      /\ Hygiene!Heads(y, Hygiene!RES_LET)
  BY <1>1, <1>4, CleanExpressionItem, SameBindings, SameConstants
<1>6. SameLet(f, g) BY <1>2, <1>3, CleanLetForm
<1>7. /\ Hygiene!cdr(y) = g
      /\ Hygiene!OneAndRest(g) <=> OneAndRest(g)
      /\ Hygiene!IsList(Hygiene!car(g)) <=> IsList(car(g))
      /\ Hygiene!car(g) = car(g) /\ Hygiene!cdr(g) = cdr(g) BY SameParts, SameShapes
<1>8. c = Hygiene!Inits(car(g), cdr(g), in) BY SameItems
<1>9. CASE OneAndRest(f) /\ IsList(car(f))
  <2>1. CleanItem(a) = c BY <1>6, <1>9, CleanInits1 DEF SameLet
  <2>2. OneAndRest(g) /\ IsList(car(g)) BY <1>6, <1>9 DEF SameLet
  <2> HIDE DEF a, c, x, y, f, g
  <2>3. Hygiene!Do(<<c>>) BY <1>1, <1>2, <1>9, <2>1, CleanDoOne
  <2> QED BY <1>1, <1>5, <1>7, <1>8, <1>9, <2>2, <2>3, SameContext, SameTables
          DEF Hygiene!CompileLet
<1>10. CASE ~(OneAndRest(f) /\ IsList(car(f)))
  <2>1. ~(OneAndRest(g) /\ IsList(car(g))) BY <1>6, <1>10 DEF SameLet
  <2> HIDE DEF a, c, x, y, f, g
  <2>2. Hygiene!Fails BY <1>1, <1>2, <1>5, <1>10, CleanFails
  <2> QED BY <1>1, <1>5, <1>7, <1>10, <2>1, <2>2, SameContext, SameTables
          DEF Hygiene!CompileLet
<1> QED BY <1>9, <1>10

(* An item that is the same in both *)
LEMMA CleanPlainItem ==
  ASSUME IInv, todo # <<>>, item.do \in {"args", "make", "pop", "params", "endBody"}
  PROVE  Hygiene!item = item /\ \A d : Hygiene!Current(d) <=> Current(d)
BY CleanPlain, CleanCurrent DEF Current, Hygiene!Current

LEMMA PopScopeClean ==
  ASSUME IInv, MarksInv, PopScope PROVE Hygiene!PopScope
BY CleanPlainItem, CleanDoNothing, SameSteps, SameContext DEF PopScope, Current, Do,
   Hygiene!PopScope

LEMMA MakeNodeClean ==
  ASSUME IInv, MarksInv, MakeNode PROVE Hygiene!MakeNode
BY CleanPlainItem, CleanMakes, SameContext, SameTables DEF MakeNode, Current,
   Hygiene!MakeNode

(* Parameters are always the program's *)
LEMMA CleanParamsItem ==
  ASSUME IInv, MarksInv, Current("params"), NEW x, x = item.x
  PROVE  /\ todo # <<>> /\ Hygiene!Current("params") /\ Hygiene!item = item
         /\ IsUser(x) /\ IsUser(item.body)
         /\ Hygiene!car(x) = car(x) /\ Hygiene!cdr(x) = cdr(x)
         /\ Hygiene!AddedParam(x) = AddedParam(x)
         /\ Hygiene!AddedParam(car(x)) = AddedParam(car(x))
         /\ Hygiene!IsPair(x) <=> IsPair(x)
         /\ Hygiene!IsSymbol(x) <=> IsSymbol(x)
         /\ Hygiene!IsNil(x) <=> IsNil(x)
BY ParamsShown, CleanPlainItem, SameParts, SameKinds, SameSteps DEF Current

LEMMA LambdaParamClean ==
  ASSUME IInv, MarksInv, LambdaParam PROVE Hygiene!LambdaParam
<1> DEFINE x == item.x
           a == [item EXCEPT !.x = cdr(x), !.first = FALSE,
                             !.vars = item.vars \o AddedParam(car(x))]
<1>1. /\ Current("params") /\ IsPair(x) /\ DefineParam(car(x), item.scope)
      /\ todo' = <<a>> \o Tail(todo)
      /\ UNCHANGED <<source, ctx, out, markStamp, frames>> BY DEF LambdaParam, Do
<1>2. /\ todo # <<>> /\ Hygiene!Current("params") /\ Hygiene!item = item
      /\ Hygiene!car(x) = car(x) /\ Hygiene!cdr(x) = cdr(x) /\ Hygiene!IsPair(x)
      /\ Hygiene!AddedParam(car(x)) = AddedParam(car(x)) BY <1>1, CleanParamsItem
<1>3. a.do = "params"
  <2> DEFINE r == cdr(x)
             vs == item.vars \o AddedParam(car(x))
  <2>1. item \in [do : {"params"}, x : {item.x}, body : {item.body}, vars : {item.vars},
                  first : {item.first}, scope : {item.scope}] BY <1>1, ParamsShown
  <2> HIDE DEF r, vs
  <2>2. [item EXCEPT !.x = r, !.first = FALSE, !.vars = vs].do = "params" BY <2>1
  <2> QED BY <2>2 DEF r, vs
<1> DEFINE h == Hygiene!item
           k == [h EXCEPT !.x = Hygiene!cdr(h.x), !.first = FALSE,
                          !.vars = h.vars \o Hygiene!AddedParam(Hygiene!car(h.x))]
<1>4. Hygiene!LambdaParam <=>
        /\ Hygiene!Current("params")
        /\ Hygiene!IsPair(h.x)
        /\ Hygiene!DefineParam(Hygiene!car(h.x), h.scope)
        /\ Hygiene!Do(<<k>>)
        /\ UNCHANGED <<source, cleanCtx, out, markStamp, frames>>
  BY DEF Hygiene!LambdaParam
<1>5. k = a BY <1>2
<1>6. h = item BY <1>2
<1> HIDE DEF a, k, h
<1>7. Hygiene!Do(<<a>>)
  <2>1. CleanItem(a) = a BY <1>3, CleanPlain
  <2> QED BY <1>1, <1>2, <2>1, CleanDoOne
<1>8. Hygiene!DefineParam(car(x), item.scope) BY <1>1, SameSteps
<1> QED BY <1>1, <1>2, <1>4, <1>5, <1>6, <1>7, <1>8, SameContext

LEMMA LambdaListParamClean ==
  ASSUME IInv, MarksInv, LambdaListParam PROVE Hygiene!LambdaListParam
<1> DEFINE x == item.x
           vs == item.vars \o AddedParam(x)
           a == Body(item.body, "lambda list", vs, item.scope)
<1>1. /\ Current("params") /\ IsSymbol(x) /\ DefineParam(x, item.scope)
      /\ todo' = <<a>> \o Tail(todo)
      /\ UNCHANGED <<source, ctx, out, markStamp, frames>> BY DEF LambdaListParam, Do
<1>2. /\ todo # <<>> /\ Hygiene!Current("params") /\ Hygiene!item = item
      /\ IsUser(item.body) /\ Hygiene!IsSymbol(x)
      /\ Hygiene!AddedParam(x) = AddedParam(x) BY <1>1, CleanParamsItem
<1> DEFINE h == Hygiene!item
           us == h.vars \o Hygiene!AddedParam(h.x)
           k == Hygiene!Body(h.body, "lambda list", us, h.scope)
<1>3. Hygiene!LambdaListParam <=>
        /\ Hygiene!Current("params")
        /\ Hygiene!IsSymbol(h.x)
        /\ Hygiene!DefineParam(h.x, h.scope)
        /\ Hygiene!Do(<<k>>)
        /\ UNCHANGED <<source, cleanCtx, out, markStamp, frames>>
  BY DEF Hygiene!LambdaListParam
<1>4. h = item /\ us = vs BY <1>2
<1> HIDE DEF us, vs, h
<1>5. CleanItem(a) = a BY <1>2, CleanUserNew
<1>6. k = a BY <1>4, SameItems
<1> HIDE DEF a, k
<1>7. Hygiene!Do(<<a>>) BY <1>1, <1>2, <1>5, CleanDoOne
<1>8. Hygiene!DefineParam(x, item.scope) BY <1>1, SameSteps
<1> QED BY <1>1, <1>2, <1>3, <1>4, <1>6, <1>7, <1>8, SameContext

LEMMA LambdaParamsEndClean ==
  ASSUME IInv, MarksInv, LambdaParamsEnd PROVE Hygiene!LambdaParamsEnd
<1> DEFINE x == item.x
           a == Make("unspecified", <<>>, frames[item.scope])
           p == Pop(item.scope)
           b == Body(item.body, "lambda", item.vars, item.scope)
<1>1. /\ Current("params") /\ ~IsPair(x) /\ ~IsSymbol(x)
      /\ IF item.first THEN todo' = <<a, p>> \o Tail(todo) ELSE todo' = <<b>> \o Tail(todo)
      /\ ReportIf(item.first \/ ~IsNil(x))
      /\ UNCHANGED <<source, ctx, out, markStamp, tableVars>> BY DEF LambdaParamsEnd, Do
<1>2. /\ todo # <<>> /\ Hygiene!Current("params") /\ Hygiene!item = item
      /\ IsUser(item.body) /\ ~Hygiene!IsSymbol(x) /\ ~Hygiene!IsPair(x)
      /\ Hygiene!IsNil(x) <=> IsNil(x) BY <1>1, CleanParamsItem
<1>3. CleanItem(a) = a /\ CleanItem(p) = p /\ CleanItem(b) = b
  BY <1>2, CleanUserNew, CleanNew
<1> DEFINE h == Hygiene!item
           ha == Hygiene!Make("unspecified", <<>>, frames[h.scope])
           hp == Hygiene!Pop(h.scope)
           hb == Hygiene!Body(h.body, "lambda", h.vars, h.scope)
<1>4. Hygiene!LambdaParamsEnd <=>
        /\ Hygiene!Current("params")
        /\ ~Hygiene!IsPair(h.x) /\ ~Hygiene!IsSymbol(h.x)
        /\ Hygiene!Do(IF h.first THEN <<ha, hp>> ELSE <<hb>>)
        /\ Hygiene!ReportIf(h.first \/ ~Hygiene!IsNil(h.x))
        /\ UNCHANGED <<source, cleanCtx, out, markStamp, Hygiene!tableVars>>
  BY DEF Hygiene!LambdaParamsEnd
<1>5. h = item /\ ha = a /\ hp = p /\ hb = b BY <1>2, SameItems
<1> HIDE DEF h, a, p, b, ha, hp, hb
<1>6. CASE item.first
  BY <1>1, <1>2, <1>3, <1>6, <1>4, <1>5, CleanDoTwo, SameContext, SameTables DEF
     ReportIf, Hygiene!ReportIf
<1>7. CASE ~item.first
  BY <1>1, <1>2, <1>3, <1>7, <1>4, <1>5, CleanDoOne, SameContext, SameTables DEF
     ReportIf, Hygiene!ReportIf
<1> QED BY <1>6, <1>7

(* The forms of a body and the variables of a let, one after the other *)
LEMMA CleanFormList ==
  ASSUME NEW n \in Nat, NEW x, IsFormList(x, n), NEW y, y = CleanForms(x)
  PROVE  /\ y.k = x.k
         /\ IsPair(x) => CleanExpr(car(x)) = car(y) /\ CleanForms(cdr(x)) = cdr(y)
<1>1. CASE IsUser(x) BY <1>1, CleanUser, UserCarCdr
<1>2. CASE IsBody(x, n)
  <2>1. PICK m, b, r : m \in 1..n /\ IsUser(b) /\ IsUser(r) /\ x = MadeBody(m, b, r)
    BY <1>2 DEF IsBody
  <2>2. m \in Stamp BY <2>1 DEF Stamp
  <2> DEFINE i == IfForm(m, b, r)
  <2>3. y = Pair(i, Nil) BY <2>1, <2>2, CleanMadeBody
  <2>4. CleanExpr(MadeIf(m, b, r)) = i BY <2>1, <2>2, CleanMadeIf
  <2>5. car(x) = MadeIf(m, b, r) /\ cdr(x) = Nil BY <2>1, <2>2, BodyParts
  <2> HIDE DEF i
  <2>6. x.k = "pair" /\ y.k = "pair" BY <2>1, <2>3 DEF MadeBody, Made, Pair
  <2>7. car(y) = i /\ cdr(y) = Nil BY <2>3, PlainParts
  <2>8. CleanForms(Nil) = Nil BY UserAtom, CleanUser
  <2> QED BY <2>4, <2>5, <2>6, <2>7, <2>8
<1> QED BY <1>1, <1>2 DEF IsFormList

LEMMA CleanVarList ==
  ASSUME NEW n \in Nat, NEW x, IsVarList(x, n), NEW y, y = CleanVars(x)
  PROVE  /\ y.k = x.k
         /\ IsPair(x) =>
              /\ CleanVars(cdr(x)) = cdr(y) /\ cdr(y).k = cdr(x).k
              /\ Two(car(y)) <=> Two(car(x))
              /\ Two(car(x)) => /\ CleanExpr(car(car(x))) = car(car(y))
                                /\ car(cdr(car(x))) = car(cdr(car(y)))
<1>1. CASE IsUser(x)
  <2>1. y = x BY <1>1, CleanUser
  <2>2. ASSUME IsPair(x)
        PROVE  /\ CleanVars(cdr(x)) = cdr(x)
               /\ Two(car(x)) => CleanExpr(car(car(x))) = car(car(x))
    <3> DEFINE init == car(x)
    <3>1. IsUser(init) /\ IsUser(cdr(x)) BY <1>1, <2>2, UserCarCdr
    <3> HIDE DEF init
    <3>2. Two(init) => IsUser(car(init)) BY <3>1, UserCarCdr DEF Two
    <3>3. Two(init) => CleanExpr(car(init)) = car(init) BY <3>2, CleanUser
    <3> QED BY <3>1, <3>3, CleanUser DEF init
  <2> QED BY <2>1, <2>2
<1>2. CASE IsInits(x, n)
  <2>1. PICK m, a : m \in 1..n /\ IsUser(a) /\ x = MadeInits(m, a) BY <1>2 DEF IsInits
  <2>2. m \in Stamp BY <2>1 DEF Stamp
  <2> DEFINE v == Pair(Own(m), Pair(a, Nil))
             init == MadeInit(m, a)
  <2>3. y = Pair(v, Nil) BY <2>1, <2>2, CleanMadeInits
  <2>4. car(x) = init /\ cdr(x) = Nil BY <2>1, <2>2, InitParts
  <2>5. /\ IsPair(init) /\ car(init) = Tmp(m) /\ IsPair(cdr(init))
        /\ car(cdr(init)) = a /\ cdr(cdr(init)) = Nil
    BY <2>1, <2>2, InitParts DEF IsPair, MadeInit, Made
  <2>6. /\ IsPair(v) /\ car(v) = Own(m) /\ cdr(v) = Pair(a, Nil) BY PlainParts
  <2>7. /\ IsPair(cdr(v)) /\ car(cdr(v)) = a /\ cdr(cdr(v)) = Nil BY <2>6, PlainParts
  <2> HIDE DEF v, init
  <2>8. x.k = "pair" /\ y.k = "pair" BY <2>1, <2>3 DEF MadeInits, Made, Pair
  <2>9. car(y) = v /\ cdr(y) = Nil BY <2>3, PlainParts
  <2>10. CleanVars(Nil) = Nil /\ CleanExpr(Tmp(m)) = Own(m)
    BY UserAtom, CleanUser, CleanTmp
  <2>11. Two(v) /\ Two(init) BY <2>5, <2>6, <2>7 DEF Two, IsNil, Nil
  <2> QED BY <2>4, <2>5, <2>6, <2>7, <2>8, <2>9, <2>10, <2>11
<1> QED BY <1>1, <1>2 DEF IsVarList

LEMMA CleanBodyItems ==
  ASSUME NEW n \in Nat, NEW x, IsFormList(x, n), NEW y, y = CleanForms(x)
  PROVE  CleanItems(BodyItems(x)) = BodyItems(y) /\ IsSeq(BodyItems(x))
<1>1. IsNil(y) <=> IsNil(x) BY CleanFormList DEF IsNil
<1> DEFINE m == Make("body", <<0, 0>>, nextScope)
           f == Forms(x)
           g == Forms(y)
<1>2. CleanItem(m) = m /\ CleanItem(f) = g /\ CleanItem(EndBody) = EndBody BY CleanNew
<1>3. /\ IsNil(x) => BodyItems(x) = <<m>> /\ BodyItems(y) = <<m>>
      /\ ~IsNil(x) => BodyItems(x) = <<f, EndBody>> /\ BodyItems(y) = <<g, EndBody>>
  BY <1>1 DEF BodyItems
<1> HIDE DEF m, f, g
<1>4. CleanItems(<<m>>) = <<m>> /\ IsSeq(<<m>>) BY <1>2, CleanItemsOne, Sequence1
<1>5. CleanItems(<<f, EndBody>>) = <<g, EndBody>> /\ IsSeq(<<f, EndBody>>)
  BY <1>2, CleanItemsTwo, Sequence2
<1> QED BY <1>3, <1>4, <1>5

LEMMA CompileLambdaBodyClean ==
  IInv /\ MarksInv /\ CompileLambdaBody => Hygiene!CompileLambdaBody
<1> SUFFICES ASSUME IInv, MarksInv, CompileLambdaBody PROVE Hygiene!CompileLambdaBody
  OBVIOUS
<1> DEFINE x == item.x
           y == CleanForms(x)
           hs == BodyItems(x)
           m == Make(item.op, item.of, item.in)
           p == Pop(nextScope)
           q == Pop(item.in)
           ts == <<m, p, q>>
           items == hs \o ts
<1>1. /\ Current("body") /\ todo # <<>> /\ item.do = "body"
      /\ NewScope(item.in) /\ ctx' = NewContext(nextScope)
      /\ todo' = items \o Tail(todo) /\ ReportIf(IsNil(x))
      /\ UNCHANGED <<source, out, markStamp, variables>>
  BY DEF CompileLambdaBody, Do, Current, BodyItems
<1>2. /\ IsFormList(x, markStamp) /\ markStamp \in Nat
      /\ item \in [do : {"body"}, x : {x}, op : {item.op}, of : {item.of}, in : {item.in}]
  BY <1>1, CurrentShown DEF ItemShown
<1> DEFINE h == Hygiene!item
<1>3. Hygiene!Current("body") /\ h.x = y /\ h.op = item.op /\ h.of = item.of /\ h.in = item.in
  <2>1. CleanItem(item) \in [do : {"body"}, x : {y}, op : {item.op}, of : {item.of},
                             in : {item.in}] BY <1>2, CleanBodyFields
  <2>2. cleanTodo # <<>> /\ h = CleanItem(item) BY <1>1, CleanCurrent
  <2> HIDE DEF y, h
  <2>3. h.do = "body" /\ h.x = y /\ h.op = item.op /\ h.of = item.of /\ h.in = item.in
    BY <2>1, <2>2
  <2> QED BY <2>2, <2>3 DEF Hygiene!Current, h
<1>4. CleanItems(hs) = BodyItems(y) /\ IsSeq(hs) BY <1>2, CleanBodyItems
<1>5. CleanItems(ts) = ts /\ IsSeq(ts)
  <2>1. CleanItem(m) = m /\ CleanItem(p) = p /\ CleanItem(q) = q BY CleanNew
  <2> HIDE DEF m, p, q
  <2> QED BY <2>1, CleanItemsThree, Sequence3
<1>6. Hygiene!Do(BodyItems(y) \o ts)
  <2> HIDE DEF hs, ts, y
  <2>1. CleanItems(items) = BodyItems(y) \o ts /\ IsSeq(items)
    BY <1>4, <1>5, ConcatSequence, CleanItemsJoin
  <2> HIDE DEF items
  <2> QED BY <1>1, <2>1, CleanDo
<1> DEFINE hb == IF Hygiene!IsNil(h.x)
                 THEN <<Hygiene!Make("body", <<0, 0>>, Hygiene!nextScope)>>
                 ELSE <<Hygiene!Forms(h.x), Hygiene!EndBody>>
           ht == <<Hygiene!Make(h.op, h.of, h.in), Hygiene!Pop(Hygiene!nextScope),
                   Hygiene!Pop(h.in)>>
<1>7. Hygiene!CompileLambdaBody <=>
        /\ Hygiene!Current("body")
        /\ Hygiene!NewScope(h.in)
        /\ cleanCtx' = Hygiene!NewContext(Hygiene!nextScope)
        /\ Hygiene!Do(hb \o ht)
        /\ Hygiene!ReportIf(Hygiene!IsNil(h.x))
        /\ UNCHANGED <<source, out, markStamp, variables>>
  BY DEF Hygiene!CompileLambdaBody
<1>8. hb = BodyItems(y)
  <2> HIDE DEF h, y
  <2> QED BY <1>3, SameKinds, SameSteps, SameItems, SameConstants DEF BodyItems
<1>9. ht = ts
  <2> HIDE DEF h, y
  <2> QED BY <1>3, SameSteps, SameItems
<1>10. Hygiene!IsNil(h.x) <=> IsNil(x) BY <1>2, <1>3, CleanFormList, SameKinds DEF IsNil
<1>11. cleanCtx' = Hygiene!NewContext(Hygiene!nextScope)
  BY <1>1, CleanEmpty, SameSteps, SameItems DEF cleanCtx, NewContext
<1>12. Hygiene!NewScope(h.in) BY <1>1, <1>3, SameSteps
<1>13. Hygiene!ReportIf(Hygiene!IsNil(h.x))
  BY <1>1, <1>10 DEF ReportIf, Hygiene!ReportIf
<1> HIDE DEF h, hb, ht, ts, x, y
<1> QED BY <1>1, <1>3, <1>6, <1>7, <1>8, <1>9, <1>11, <1>12, <1>13

LEMMA CleanInitsItem ==
  ASSUME IInv, MarksInv, Current("inits"), NEW x, x = item.x
  PROVE  /\ Hygiene!Current("inits")
         /\ Hygiene!item \in [do : {"inits"}, x : {CleanVars(x)}, body : {CleanForms(item.body)},
                              names : {CleanAll(item.names)}, values : {item.values},
                              in : {item.in}]
         /\ Hygiene!item = CleanItem(item)
BY InitsShown, CleanCurrent, CleanInitsFields DEF Hygiene!Current

LEMMA LetInitClean ==
  ASSUME IInv, MarksInv, LetInit PROVE Hygiene!LetInit
<1> DEFINE x == item.x
           y == CleanVars(x)
           init == car(x)
           rest == cdr(x)
           ns == Append(item.names, car(init))
           vs == Append(item.values, car(cdr(init)))
           a == [item EXCEPT !.x = rest, !.names = ns, !.values = vs]
           b == [item EXCEPT !.x = rest]
           next == IF Two(init) THEN a ELSE b
           h == Hygiene!item
           hInit == Hygiene!car(h.x)
           hRest == Hygiene!cdr(h.x)
           hNs == Append(h.names, Hygiene!car(hInit))
           hVs == Append(h.values, Hygiene!car(Hygiene!cdr(hInit)))
           k == [h EXCEPT !.x = hRest, !.names = hNs, !.values = hVs]
           l == [h EXCEPT !.x = hRest]
           B == {CleanForms(item.body)}
<1>1. /\ Current("inits") /\ IsPair(x) /\ todo' = <<next>> \o Tail(todo)
      /\ errors' = errors + (IF Two(init) THEN 0 ELSE 1) + (IF IsList(rest) THEN 0 ELSE 1)
      /\ UNCHANGED <<source, ctx, out, markStamp, tableVars>> BY DEF LetInit, Do
<1>2. /\ todo # <<>> /\ markStamp \in Nat /\ IsVarList(x, markStamp)
      /\ IsSeq(item.names) /\ IsSeq(item.values)
      /\ item \in [do : {"inits"}, x : {x}, body : {item.body}, names : {item.names},
                   values : {item.values}, in : {item.in}] BY <1>1, InitsShown
<1>3. /\ Hygiene!Current("inits")
      /\ h \in [do : {"inits"}, x : {y}, body : B, names : {CleanAll(item.names)},
                values : {item.values}, in : {item.in}] BY <1>1, CleanInitsItem
<1>4. Hygiene!LetInit <=>
        /\ Hygiene!Current("inits")
        /\ Hygiene!IsPair(h.x)
        /\ Hygiene!Do(<<IF Hygiene!Two(hInit) THEN k ELSE l>>)
        /\ errors' = errors + (IF Hygiene!Two(hInit) THEN 0 ELSE 1)
                            + (IF Hygiene!IsList(hRest) THEN 0 ELSE 1)
        /\ UNCHANGED <<source, cleanCtx, out, markStamp, Hygiene!tableVars>>
  BY DEF Hygiene!LetInit
<1>5. /\ y.k = x.k
      /\ CleanVars(rest) = cdr(y) /\ cdr(y).k = rest.k
      /\ Two(car(y)) <=> Two(init)
      /\ Two(init) => CleanExpr(car(init)) = car(car(y)) /\ car(cdr(init)) = car(cdr(car(y)))
  BY <1>1, <1>2, CleanVarList
<1>6. h.x = y /\ h.names = CleanAll(item.names) /\ h.values = item.values
  <2> HIDE DEF h, y, B, x
  <2> QED BY <1>3
<1>7. /\ hInit = car(y) /\ hRest = cdr(y)
      /\ Hygiene!car(hInit) = car(car(y)) /\ Hygiene!car(Hygiene!cdr(hInit)) = car(cdr(car(y)))
  <2> HIDE DEF h, y
  <2> QED BY <1>6, SameParts
<1>8. /\ Hygiene!IsPair(h.x)
      /\ Hygiene!Two(hInit) <=> Two(init)
      /\ Hygiene!IsList(hRest) <=> IsList(rest)
  <2> HIDE DEF h, y, hInit, hRest, init, rest
  <2> QED BY <1>1, <1>5, <1>6, <1>7, SameKinds, SameShapes DEF IsPair, IsNil, IsList
<1>9. CleanItem(b) = l
  <2> HIDE DEF x, y, init, h, hRest, B
  <2>1. b \in [do : {"inits"}, x : {rest}, body : {item.body}, names : {item.names},
               values : {item.values}, in : {item.in}] BY <1>2
  <2> HIDE DEF b, rest
  <2>2. CleanItem(b) \in [do : {"inits"}, x : {CleanVars(rest)}, body : B,
                          names : {CleanAll(item.names)}, values : {item.values}, in : {item.in}]
    BY <2>1, CleanInitsFields DEF B
  <2>3. l \in [do : {"inits"}, x : {hRest}, body : B, names : {CleanAll(item.names)},
               values : {item.values}, in : {item.in}] BY <1>3
  <2>4. hRest = CleanVars(rest) BY <1>5, <1>7
  <2> HIDE DEF l
  <2> QED BY <2>2, <2>3, <2>4 DEF B
<1>10. ASSUME Two(init)
       PROVE  CleanItem(a) = k
  <2>1. CleanAll(ns) = hNs
    <3> DEFINE e == car(init)
               s == item.names
    <3>1. CleanAll(Append(s, e)) = Append(CleanAll(s), CleanExpr(e))
      BY <1>2, CleanAllAppend
    <3>2. Hygiene!car(hInit) = CleanExpr(e) BY <1>5, <1>7, <1>10
    <3> QED BY <1>6, <3>1, <3>2
  <2>2. vs = hVs BY <1>5, <1>6, <1>7, <1>10
  <2> HIDE DEF x, y, init, h, hRest, B, ns, hNs, vs, hVs
  <2>3. a \in [do : {"inits"}, x : {rest}, body : {item.body}, names : {ns},
               values : {vs}, in : {item.in}] BY <1>2
  <2> HIDE DEF a, rest
  <2>4. CleanItem(a) \in [do : {"inits"}, x : {CleanVars(rest)}, body : B,
                          names : {CleanAll(ns)}, values : {vs}, in : {item.in}]
    BY <2>3, CleanInitsFields DEF B
  <2>5. k \in [do : {"inits"}, x : {hRest}, body : B, names : {hNs},
               values : {hVs}, in : {item.in}] BY <1>3
  <2>6. hRest = CleanVars(rest) BY <1>5, <1>7
  <2> HIDE DEF k
  <2> QED BY <2>1, <2>2, <2>4, <2>5, <2>6 DEF B
<1>11. CleanItem(next) = IF Hygiene!Two(hInit) THEN k ELSE l BY <1>8, <1>9, <1>10
<1> HIDE DEF next, k, l, a, b, h, hInit, hRest, init, rest, x, y
<1>12. Hygiene!Do(<<IF Hygiene!Two(hInit) THEN k ELSE l>>)
  <2> DEFINE c == IF Hygiene!Two(hInit) THEN k ELSE l
  <2>1. CleanItem(next) = c BY <1>11
  <2> HIDE DEF c
  <2>2. Hygiene!Do(<<c>>) BY <1>1, <1>2, <2>1, CleanDoOne
  <2> QED BY <2>2 DEF c
<1> QED BY <1>1, <1>3, <1>4, <1>8, <1>12, SameContext, SameTables

LEMMA CleanLetScope ==
  ASSUME NEW x, NEW body, NEW names, NEW values, NEW in,
         NEW it, it \in [do : {"inits"}, x : {x}, body : {body}, names : {names},
                         values : {values}, in : {in}]
  PROVE  CleanItem(LetScope(it)) = LetScope(CleanItem(it))
<1> DEFINE a == LetScope(it)
           c == CleanItem(it)
           R == [do : {"letScope"}, body : {CleanForms(body)}, names : {CleanAll(names)},
                 n : {Len(values)}, in : {in}]
<1>1. a \in [do : {"letScope"}, body : {body}, names : {names}, n : {Len(values)}, in : {in}]
  BY DEF LetScope
<1>2. c \in [do : {"inits"}, x : {CleanVars(x)}, body : {CleanForms(body)},
             names : {CleanAll(names)}, values : {values}, in : {in}]
  BY CleanInitsFields
<1> HIDE DEF a, c
<1>3. CleanItem(a) \in R BY <1>1, CleanLetScopeFields
<1>4. LetScope(c) \in R BY <1>2 DEF LetScope
<1> QED BY <1>3, <1>4 DEF a, c

LEMMA LetValuesClean ==
  ASSUME IInv, MarksInv, LetValues PROVE Hygiene!LetValues
<1> DEFINE x == item.x
           a == LetScope(item)
           xs == item.values
           exprs == Exprs(xs, item.in)
           h == Hygiene!item
<1>1. /\ Current("inits") /\ ~IsPair(x) /\ todo' = (exprs \o <<a>>) \o Tail(todo)
      /\ UNCHANGED <<source, ctx, out, errors, markStamp, tableVars>>
  BY DEF LetValues, Exprs, Do
<1>2. /\ todo # <<>> /\ markStamp \in Nat /\ IsVarList(x, markStamp)
      /\ IsSeq(xs) /\ AllUser(xs)
      /\ item \in [do : {"inits"}, x : {x}, body : {item.body}, names : {item.names},
                   values : {xs}, in : {item.in}] BY <1>1, InitsShown
<1>3. /\ Hygiene!Current("inits") /\ h = CleanItem(item)
      /\ h \in [do : {"inits"}, x : {CleanVars(x)}, body : {CleanForms(item.body)},
                names : {CleanAll(item.names)}, values : {xs}, in : {item.in}]
  BY <1>1, CleanInitsItem
<1>4. CleanItem(a) = LetScope(h) BY <1>2, <1>3, CleanLetScope
<1>5. CleanAll(xs) = xs /\ AllShown(xs, markStamp)
  BY <1>2, CleanUserSequence, UserIsShown DEF AllUser, AllShown
<1> HIDE DEF h
<1>6. h.x = CleanVars(x) /\ h.values = xs /\ h.in = item.in BY <1>3
<1>7. ~Hygiene!IsPair(h.x) BY <1>1, <1>2, <1>6, CleanVarList, SameKinds DEF IsPair
<1> DEFINE c == LetScope(h)
<1> HIDE DEF a, c, xs, x
<1>8. Hygiene!Do(Exprs(xs, item.in) \o <<c>>)
  BY <1>1, <1>2, <1>4, <1>5, CleanDoExprs DEF c
<1> DEFINE hs == [i \in 1..Len(h.values) |-> Hygiene!Expr(h.values[i], h.in)]
           d == Hygiene!LetScope(h)
<1>9. Hygiene!LetValues <=>
        /\ Hygiene!Current("inits")
        /\ ~Hygiene!IsPair(h.x)
        /\ Hygiene!Do(hs \o <<d>>)
        /\ UNCHANGED <<source, cleanCtx, out, errors, markStamp, Hygiene!tableVars>>
  BY DEF Hygiene!LetValues, h
<1>10. hs = Exprs(xs, item.in) BY <1>6, SameExprs
<1>11. d = c BY SameItems DEF c
<1> HIDE DEF hs, d
<1> QED BY <1>1, <1>3, <1>7, <1>8, <1>9, <1>10, <1>11, SameContext, SameTables

LEMMA CleanLetVars ==
  ASSUME NEW body, NEW names, NEW n, NEW in, NEW scope,
         NEW it, it \in [do : {"letScope"}, body : {body}, names : {names}, n : {n}, in : {in}]
  PROVE  CleanItem(LetVars(it, scope)) = LetVars(CleanItem(it), scope)
<1> DEFINE a == LetVars(it, scope)
           c == CleanItem(it)
           e == <<>>
           R == [do : {"letVars"}, body : {CleanForms(body)}, names : {CleanAll(names)},
                 n : {n}, vars : {e}, scope : {scope}]
<1>1. a \in [do : {"letVars"}, body : {body}, names : {names}, n : {n}, vars : {e},
             scope : {scope}] BY DEF LetVars
<1>2. c \in [do : {"letScope"}, body : {CleanForms(body)}, names : {CleanAll(names)},
             n : {n}, in : {in}] BY CleanLetScopeFields
<1> HIDE DEF a, c
<1>3. CleanItem(a) \in R BY <1>1, CleanLetVarsFields
<1>4. LetVars(c, scope) \in R BY <1>2 DEF LetVars
<1> QED BY <1>3, <1>4 DEF a, c

LEMMA EnterLetClean ==
  ASSUME IInv, MarksInv, EnterLet PROVE Hygiene!EnterLet
<1> DEFINE a == LetVars(item, nextScope)
           h == Hygiene!item
           c == LetVars(h, nextScope)
<1>1. /\ todo # <<>> /\ item.do = "letScope" /\ NewScope(item.in)
      /\ todo' = <<a>> \o Tail(todo)
      /\ UNCHANGED <<source, ctx, out, errors, markStamp, variables>>
  BY DEF EnterLet, Current, Do
<1>2. item \in [do : {"letScope"}, body : {item.body}, names : {item.names}, n : {item.n},
                in : {item.in}] BY <1>1, CurrentShown DEF ItemShown
<1>3. cleanTodo # <<>> /\ h = CleanItem(item) BY <1>1, CleanCurrent
<1>4. CleanItem(a) = c BY <1>2, <1>3, CleanLetVars
<1>5. CleanItem(item) \in [do : {"letScope"}, body : {CleanForms(item.body)},
                           names : {CleanAll(item.names)}, n : {item.n}, in : {item.in}]
  BY <1>2, CleanLetScopeFields
<1>6. h.do = "letScope" /\ h.in = item.in
  <2> HIDE DEF h
  <2> QED BY <1>3, <1>5
<1>7. Hygiene!Current("letScope") BY <1>3, <1>6 DEF Hygiene!Current
<1>8. Hygiene!NewScope(h.in) BY <1>1, <1>6, SameSteps
<1>9. c = Hygiene!LetVars(h, Hygiene!nextScope) BY SameItems, SameSteps
<1> HIDE DEF a, c
<1>10. Hygiene!Do(<<c>>) BY <1>1, <1>4, CleanDoOne
<1> QED BY <1>1, <1>7, <1>8, <1>9, <1>10, SameContext DEF Hygiene!EnterLet

LEMMA CleanLetVarsItem ==
  ASSUME IInv, MarksInv, Current("letVars")
  PROVE  /\ todo # <<>> /\ Hygiene!Current("letVars") /\ markStamp \in Nat
         /\ item \in [do : {"letVars"}, body : {item.body}, names : {item.names}, n : {item.n},
                      vars : {item.vars}, scope : {item.scope}]
         /\ IsSeq(item.names) /\ AllNames(item.names, markStamp)
         /\ IsFormList(item.body, markStamp)
         /\ Hygiene!item \in [do : {"letVars"}, body : {CleanForms(item.body)},
                              names : {CleanAll(item.names)}, n : {item.n}, vars : {item.vars},
                              scope : {item.scope}]
BY LetVarsItem, CurrentShown, CleanCurrent, CleanLetVarsFields DEF IsSyntaxSequence,
   ItemShown, Hygiene!Current

LEMMA LetVarClean ==
  ASSUME IInv, MarksInv, LetVar PROVE Hygiene!LetVar
<1> DEFINE e == Head(item.names)
           d == CleanExpr(e)
           ns == Tail(item.names)
           vs == item.vars \o AddedParam(e)
           a == [item EXCEPT !.names = ns, !.vars = vs]
           h == Hygiene!item
           hNs == Tail(h.names)
           hVs == h.vars \o Hygiene!AddedParam(Head(h.names))
           k == [h EXCEPT !.names = hNs, !.vars = hVs]
           B == {CleanForms(item.body)}
<1>1. /\ Current("letVars") /\ item.names # <<>> /\ DefineParam(e, item.scope)
      /\ todo' = <<a>> \o Tail(todo)
      /\ UNCHANGED <<source, ctx, out, markStamp, frames>> BY DEF LetVar, Do
<1>2. /\ todo # <<>> /\ Hygiene!Current("letVars") /\ markStamp \in Nat
      /\ item \in [do : {"letVars"}, body : {item.body}, names : {item.names}, n : {item.n},
                   vars : {item.vars}, scope : {item.scope}]
      /\ IsSeq(item.names) /\ AllNames(item.names, markStamp)
      /\ h \in [do : {"letVars"}, body : B, names : {CleanAll(item.names)}, n : {item.n},
                vars : {item.vars}, scope : {item.scope}] BY <1>1, CleanLetVarsItem
<1>3. Hygiene!LetVar <=>
        /\ Hygiene!Current("letVars")
        /\ h.names # <<>>
        /\ Hygiene!DefineParam(Head(h.names), h.scope)
        /\ Hygiene!Do(<<k>>)
        /\ UNCHANGED <<source, cleanCtx, out, markStamp, frames>> BY DEF Hygiene!LetVar
<1>4. h.names = CleanAll(item.names) /\ h.vars = item.vars /\ h.scope = item.scope
  <2> HIDE DEF h, B
  <2> QED BY <1>2
<1>5. h.names # <<>> /\ Head(h.names) = d /\ hNs = CleanAll(ns)
  <2> HIDE DEF h
  <2> QED BY <1>1, <1>2, <1>4, CleanAllRest
<1>6. IsName(e, markStamp)
  <2>1. Len(item.names) \in Nat /\ Len(item.names) > 0 /\ e = item.names[1]
    BY <1>1, <1>2, SequenceLen, TailSequence
  <2> HIDE DEF e
  <2> QED BY <1>2, <2>1 DEF AllNames
<1>7. Hygiene!DefineParam(Head(h.names), h.scope)
  BY <1>1, <1>6, <1>4, <1>5, CleanName, SameSteps
<1>8. hVs = vs
  <2>1. Hygiene!AddedParam(Head(h.names)) = AddedParam(e)
    BY <1>5, <1>6, CleanName, SameSteps
  <2> HIDE DEF h, e
  <2> QED BY <1>4, <2>1
<1>9. CleanItem(a) = k
  <2> HIDE DEF h, B, hNs, ns, hVs, vs, e, d
  <2>1. a \in [do : {"letVars"}, body : {item.body}, names : {ns}, n : {item.n}, vars : {vs},
               scope : {item.scope}] BY <1>2
  <2> HIDE DEF a
  <2>2. CleanItem(a) \in [do : {"letVars"}, body : B, names : {CleanAll(ns)}, n : {item.n},
                          vars : {vs}, scope : {item.scope}]
    BY <2>1, CleanLetVarsFields DEF B
  <2>3. k \in [do : {"letVars"}, body : B, names : {hNs}, n : {item.n}, vars : {hVs},
               scope : {item.scope}] BY <1>2
  <2> HIDE DEF k
  <2> QED BY <1>5, <1>8, <2>2, <2>3 DEF B
<1> HIDE DEF h, B, hNs, ns, hVs, vs, e, d, a, k
<1>10. Hygiene!Do(<<k>>) BY <1>1, <1>2, <1>9, CleanDoOne
<1> QED BY <1>1, <1>2, <1>3, <1>5, <1>7, <1>10, SameContext

LEMMA LetBodyClean ==
  ASSUME IInv, MarksInv, LetBody PROVE Hygiene!LetBody
<1> DEFINE vs == item.vars \o <<item.n>>
           b == CleanForms(item.body)
           a == Body(item.body, "let", vs, item.scope)
           c == Body(b, "let", vs, item.scope)
           h == Hygiene!item
           hVs == h.vars \o <<h.n>>
<1>1. /\ Current("letVars") /\ item.names = <<>> /\ todo' = <<a>> \o Tail(todo)
      /\ UNCHANGED <<source, ctx, out, errors, markStamp, tableVars>> BY DEF LetBody, Do
<1>2. /\ todo # <<>> /\ Hygiene!Current("letVars")
      /\ h \in [do : {"letVars"}, body : {b}, names : {CleanAll(item.names)}, n : {item.n},
                vars : {item.vars}, scope : {item.scope}] BY <1>1, CleanLetVarsItem
<1>3. Hygiene!LetBody <=>
        /\ Hygiene!Current("letVars")
        /\ h.names = <<>>
        /\ Hygiene!Do(<<Hygiene!Body(h.body, "let", hVs, h.scope)>>)
        /\ UNCHANGED <<source, cleanCtx, out, errors, markStamp, Hygiene!tableVars>>
  BY DEF Hygiene!LetBody
<1>4. /\ h.names = <<>> /\ h.body = b /\ h.vars = item.vars /\ h.n = item.n
      /\ h.scope = item.scope
  <2>1. CleanAll(item.names) = <<>> BY <1>1, CleanEmpty
  <2> HIDE DEF h, b
  <2> QED BY <1>2, <2>1
<1>5. CleanItem(a) = c BY CleanNew
<1>6. hVs = vs
  <2> HIDE DEF h
  <2> QED BY <1>4
<1> HIDE DEF h, hVs, vs, b
<1>7. Hygiene!Body(h.body, "let", hVs, h.scope) = c BY <1>4, <1>6, SameItems
<1> HIDE DEF a, c
<1>8. Hygiene!Do(<<c>>) BY <1>1, <1>2, <1>5, CleanDoOne
<1> QED BY <1>1, <1>2, <1>3, <1>4, <1>7, <1>8, SameContext, SameTables

(* Forms of a body *)
LEMMA ParseBodyClean ==
  ASSUME IInv, MarksInv, ParseBody PROVE Hygiene!ParseBody
<1> DEFINE x == item.x
           y == CleanForms(x)
           a == Form(car(x))
           b == Forms(cdr(x))
           c == Form(car(y))
           d == Forms(cdr(y))
           h == Hygiene!item
<1>1. /\ todo # <<>> /\ item.do = "forms"
      /\ IF IsPair(x) THEN todo' = <<a, b>> \o Tail(todo) ELSE todo' = <<>> \o Tail(todo)
      /\ ReportIf(~IsList(x))
      /\ UNCHANGED <<source, ctx, out, markStamp, tableVars>>
  BY DEF ParseBody, Do, Current
<1>2. /\ item \in [do : {"forms"}, x : {x}] /\ IsFormList(x, markStamp) /\ markStamp \in Nat
  BY <1>1, CurrentShown DEF ItemShown
<1>3. Hygiene!Current("forms") /\ h.x = y
  <2>1. CleanItem(item) \in [do : {"forms"}, x : {y}] BY <1>2, CleanFormsFields
  <2>2. cleanTodo # <<>> /\ h = CleanItem(item) BY <1>1, CleanCurrent
  <2> HIDE DEF y, h
  <2>3. h.do = "forms" /\ h.x = y BY <2>1, <2>2
  <2> QED BY <2>2, <2>3 DEF Hygiene!Current, h
<1>4. /\ y.k = x.k
      /\ IsPair(x) => CleanExpr(car(x)) = car(y) /\ CleanForms(cdr(x)) = cdr(y)
  BY <1>2, CleanFormList
<1>5. Hygiene!ParseBody <=>
        /\ Hygiene!Current("forms")
        /\ Hygiene!Do(IF Hygiene!IsPair(h.x)
                      THEN <<Hygiene!Form(Hygiene!car(h.x)), Hygiene!Forms(Hygiene!cdr(h.x))>>
                      ELSE <<>>)
        /\ Hygiene!ReportIf(~Hygiene!IsList(h.x))
        /\ UNCHANGED <<source, cleanCtx, out, markStamp, Hygiene!tableVars>>
  BY DEF Hygiene!ParseBody
<1> HIDE DEF h
<1>6. Hygiene!Form(Hygiene!car(h.x)) = c /\ Hygiene!Forms(Hygiene!cdr(h.x)) = d
  BY <1>3, SameParts, SameItems
<1> HIDE DEF x, y
<1>7. /\ Hygiene!IsPair(h.x) <=> IsPair(x)
      /\ Hygiene!IsList(h.x) <=> IsList(x)
  BY <1>3, <1>4, SameKinds, SameShapes DEF IsPair, IsNil, IsList
<1>8. Hygiene!ReportIf(~Hygiene!IsList(h.x))
  BY <1>1, <1>7 DEF ReportIf, Hygiene!ReportIf
<1>9. CASE IsPair(x)
  <2>1. CleanItem(a) = c /\ CleanItem(b) = d BY <1>4, <1>9, CleanNew
  <2> HIDE DEF a, b, c, d
  <2>2. Hygiene!Do(<<c, d>>) BY <1>1, <1>9, <2>1, CleanDoTwo
  <2> QED BY <1>1, <1>3, <1>5, <1>6, <1>7, <1>8, <1>9, <2>2, SameContext, SameTables
<1>10. CASE ~IsPair(x)
  <2>1. Hygiene!Do(<<>>) BY <1>1, <1>10, CleanDoNothing
  <2> HIDE DEF a, b, c, d
  <2> QED BY <1>1, <1>3, <1>5, <1>7, <1>8, <1>10, <2>1, SameContext, SameTables
<1> QED BY <1>9, <1>10

LEMMA FormEmptyClean ==
  ASSUME IInv, MarksInv, FormEmpty PROVE Hygiene!FormEmpty
BY CleanFormItem, SameKinds, CleanDoNothing, SameReports, SameContext, SameTables DEF
   FormEmpty, Do, Current, IsNil, Hygiene!FormEmpty

LEMMA FormBeginClean ==
  ASSUME IInv, MarksInv, FormBegin PROVE Hygiene!FormBegin
<1> DEFINE x == item.x
           a == Forms(cdr(x))
<1>1. /\ todo # <<>> /\ Current("form") /\ Heads(x, RES_BEGIN)
      /\ todo' = <<a>> \o Tail(todo)
      /\ UNCHANGED <<source, ctx, out, errors, markStamp, tableVars>>
  BY DEF FormBegin, Do, Current
<1>2. IsUser(x) /\ IsUser(cdr(x))
  BY <1>1, ReservedFormShown DEF RES_BEGIN, MACRO_OR, RES_IF, RES_LET
<1>3. /\ Hygiene!Current("form") /\ Hygiene!item.x = x
      /\ Hygiene!Heads(x, Hygiene!RES_BEGIN)
  BY <1>1, <1>2, CleanFormItem, SameBindings, SameConstants
<1>4. a = Hygiene!Forms(Hygiene!cdr(Hygiene!item.x)) BY <1>3, SameParts, SameItems
<1>5. CleanItem(a) = a BY <1>2, CleanUserNew
<1> HIDE DEF a, x
<1>6. Hygiene!Do(<<a>>) BY <1>1, <1>5, CleanDoOne
<1> QED BY <1>1, <1>3, <1>4, <1>6, SameContext, SameTables DEF Hygiene!FormBegin

LEMMA ContextFields ==
  /\ cleanCtx = CleanContext(ctx) /\ cleanCtx' = CleanContext(ctx')
  /\ cleanCtx.scope = ctx.scope /\ cleanCtx.defns = CleanDefinitions(ctx.defns)
  /\ cleanCtx.exprs = CleanAll(ctx.exprs)
BY DEF cleanCtx, CleanContext

LEMMA ContextUpdate ==
  ASSUME NEW c, IsContext(c), NEW d, NEW e
  PROVE  CleanContext(Updated(c, d, e)) =
           Updated(CleanContext(c), CleanDefinitions(d), CleanAll(e))
<1> DEFINE b == Updated(c, d, e)
           cd == CleanDefinitions(d)
           ce == CleanAll(e)
           cd0 == CleanDefinitions(c.defns)
           ce0 == CleanAll(c.exprs)
           R == [scope : {c.scope}, defns : {cd}, exprs : {ce}]
<1>1. b.scope = c.scope /\ b.defns = d /\ b.exprs = e BY DEF IsContext, Updated
<1>2. CleanContext(b) = [scope |-> c.scope, defns |-> cd, exprs |-> ce]
  BY <1>1 DEF CleanContext
<1>3. CleanContext(c) = [scope |-> c.scope, defns |-> cd0, exprs |-> ce0]
  BY DEF CleanContext
<1> HIDE DEF b, cd, ce, cd0, ce0
<1>4. CleanContext(b) \in R BY <1>2
<1> DEFINE r == CleanContext(c)
<1>5. r \in [scope : {c.scope}, defns : {cd0}, exprs : {ce0}] BY <1>3
<1> HIDE DEF r
<1>6. Updated(r, cd, ce) \in R BY <1>5 DEF Updated
<1> QED BY <1>4, <1>6 DEF b, cd, ce, r

LEMMA CleanNotEmpty ==
  ASSUME NEW s, IsSeq(s), NEW t, t = CleanAll(s)
  PROVE  t = <<>> <=> s = <<>>
BY CleanEmpty, CleanAllRest

LEMMA ContextIs ==
  ASSUME IInv
  PROVE  /\ ctx \in [scope : {ctx.scope}, defns : {ctx.defns}, exprs : {ctx.exprs}]
         /\ IsSeq(ctx.exprs) /\ IsSeq(ctx.defns) /\ Len(ctx.defns) \in Nat
BY SequenceLen DEF IInv, CtxOK, IsSyntaxSequence

LEMMA FormExpressionClean ==
  ASSUME IInv, MarksInv, FormExpression PROVE Hygiene!FormExpression
<1> DEFINE x == item.x
           y == CleanExpr(x)
           es == Append(ctx.exprs, x)
           ys == Append(CleanAll(ctx.exprs), y)
           h == Hygiene!item
<1>1. /\ todo # <<>> /\ Current("form") /\ ~IsNil(x)
      /\ ~Heads(x, MACRO_OR) /\ ~Heads(x, RES_BEGIN) /\ ~Heads(x, RES_DEFINE)
      /\ todo' = <<>> \o Tail(todo) /\ ctx' = [ctx EXCEPT !.exprs = es]
      /\ UNCHANGED <<source, out, errors, markStamp, tableVars>>
  BY DEF FormExpression, Current, Do
<1>2. /\ Hygiene!Current("form") /\ h.x = y /\ y.k = x.k
      /\ \A b : Heads(y, b) <=> Heads(x, b) BY <1>1, CleanFormItem
<1>3. /\ ctx \in [scope : {ctx.scope}, defns : {ctx.defns}, exprs : {ctx.exprs}]
      /\ IsSeq(ctx.exprs) BY ContextIs
<1>4. CleanAll(es) = ys BY <1>3, CleanAllAppend
<1>5. Hygiene!FormExpression <=>
        /\ Hygiene!Current("form")
        /\ ~Hygiene!IsNil(h.x)
        /\ \A b \in {Hygiene!MACRO_OR, Hygiene!RES_BEGIN, Hygiene!RES_DEFINE} :
             ~Hygiene!Heads(h.x, b)
        /\ cleanCtx' = [cleanCtx EXCEPT !.exprs = Append(cleanCtx.exprs, h.x)]
        /\ Hygiene!Do(<<>>)
        /\ UNCHANGED <<source, out, errors, markStamp, Hygiene!tableVars>>
  BY DEF Hygiene!FormExpression
<1> HIDE DEF h
<1>6. Append(cleanCtx.exprs, h.x) = ys BY <1>2, ContextFields
<1>7. /\ ~Hygiene!IsNil(h.x)
      /\ \A b \in {Hygiene!MACRO_OR, Hygiene!RES_BEGIN, Hygiene!RES_DEFINE} :
           ~Hygiene!Heads(h.x, b)
  <2> HIDE DEF x, y
  <2> QED BY <1>1, <1>2, SameKinds, SameBindings, SameConstants DEF IsNil
<1> HIDE DEF es, ys, x, y
<1>8. cleanCtx' = [cleanCtx EXCEPT !.exprs = ys]
  <2> DEFINE d == ctx.defns
             cd == CleanDefinitions(ctx.defns)
  <2>1. ctx' = Updated(ctx, d, es) BY <1>1, <1>3 DEF Updated
  <2>2. CleanContext(ctx') = Updated(CleanContext(ctx), CleanDefinitions(d), CleanAll(es))
    BY <1>3, <2>1, ContextUpdate DEF IsContext
  <2>3. cleanCtx' = [cleanCtx EXCEPT !.exprs = ys, !.defns = cd]
    BY <1>4, <2>2, ContextFields DEF Updated
  <2>4. cleanCtx \in [scope : {ctx.scope}, defns : {cd}, exprs : {CleanAll(ctx.exprs)}]
    BY DEF cleanCtx
  <2> HIDE DEF cd
  <2> QED BY <2>3, <2>4
<1>9. Hygiene!Do(<<>>) BY <1>1, CleanDoNothing
<1> QED BY <1>1, <1>2, <1>5, <1>6, <1>7, <1>8, <1>9, SameTables

LEMMA CleanAnonymous ==
  ASSUME NEW s, IsSeq(s)
  PROVE  CleanDefinition(Anonymous(s)) = Anonymous(CleanAll(s))
<1> DEFINE u == BindingOf(m_unspec)
           t == CleanAll(s)
           p == Append(s, u)
           q == Append(t, u)
<1>1. CleanAll(p) = q BY CleanAllAppend, CleanBinding
<1> HIDE DEF t, p, q
<1>2. CleanValue(Begin(p)) = Begin(q) BY <1>1 DEF Begin, CleanValue
<1>3. Anonymous(s).bnd = Env!NoBinding /\ Anonymous(s).x = Begin(p)
  BY DEF Anonymous, p, u
<1>4. CleanDefinition(Anonymous(s)) = [bnd |-> Env!NoBinding, x |-> Begin(q)]
  BY <1>2, <1>3 DEF CleanDefinition
<1>5. Anonymous(t) = [bnd |-> Env!NoBinding, x |-> Begin(q)] BY DEF Anonymous, q, u
<1> QED BY <1>4, <1>5 DEF t

LEMMA CleanGrouped ==
  ASSUME NEW d, IsSeq(d), NEW e, IsSeq(e)
  PROVE  /\ IsSeq(Grouped(d, e))
         /\ CleanDefinitions(Grouped(d, e)) = Grouped(CleanDefinitions(d), CleanAll(e))
<1> DEFINE cd == CleanDefinitions(d)
           ce == CleanAll(e)
<1>1. ce = <<>> <=> e = <<>> BY CleanNotEmpty
<1>2. CASE e = <<>> BY <1>1, <1>2 DEF Grouped
<1>3. CASE e # <<>>
  <2> DEFINE a == Anonymous(e)
             b == Anonymous(ce)
  <2>1. CleanDefinition(a) = b BY CleanAnonymous
  <2> HIDE DEF a, b
  <2>2. IsSeq(Append(d, a)) /\ CleanDefinitions(Append(d, a)) = Append(cd, b)
    BY <2>1, AppendSequence, CleanDefinitionsAppend
  <2> QED BY <1>1, <1>3, <2>2 DEF a, b, Grouped
<1> QED BY <1>2, <1>3

LEMMA CleanDefined ==
  ASSUME NEW g, IsSeq(g), NEW v, CleanValue(v) = v, NEW bnd,
         NEW cg, cg = CleanDefinitions(g)
  PROVE  CleanDefinitions(Append(g, [bnd |-> bnd, x |-> v])) = Append(cg, [bnd |-> bnd, x |-> v])
<1> DEFINE d == [bnd |-> bnd, x |-> v]
<1>1. CleanDefinition(d) = d BY DEF CleanDefinition
<1> HIDE DEF d
<1>2. CleanDefinitions(Append(g, d)) = Append(cg, d) BY <1>1, CleanDefinitionsAppend
<1> QED BY <1>2 DEF d

(* The context after a definition *)
LEMMA CleanContextDefines ==
  ASSUME IInv, NEW d, ctx' = [ctx EXCEPT !.exprs = <<>>, !.defns = d],
         NEW cd, cd = CleanDefinitions(d)
  PROVE  cleanCtx' = [cleanCtx EXCEPT !.exprs = <<>>, !.defns = cd]
<1> DEFINE e == <<>>
<1>1. /\ ctx \in [scope : {ctx.scope}, defns : {ctx.defns}, exprs : {ctx.exprs}]
      /\ CleanAll(e) = e BY ContextIs, CleanEmpty
<1>2. ctx' = Updated(ctx, d, e) BY DEF Updated
<1> HIDE DEF e
<1>3. CleanContext(ctx') = Updated(CleanContext(ctx), CleanDefinitions(d), CleanAll(e))
  BY <1>1, <1>2, ContextUpdate DEF IsContext
<1> QED BY <1>1, <1>3, ContextFields DEF e, Updated

LEMMA FormDefineClean ==
  ASSUME IInv, MarksInv, FormDefine PROVE Hygiene!FormDefine
<1> DEFINE x == item.x
           form == cdr(x)
           target == car(form)
           rest == cdr(form)
           value == IF IsNil(rest) THEN BindingOf(m_unspec) ELSE car(rest)
           grouped == IF ctx.exprs = <<>> THEN ctx.defns
                      ELSE Append(ctx.defns, Anonymous(ctx.exprs))
           after == topLevel \/ ctx.exprs = <<>>
           right == OneAndRest(form) /\ IsSymbol(target)
           tooLong == IF IsPair(rest) /\ ~IsNil(cdr(rest)) THEN 1 ELSE 0
           Defined(bnd) == Append(grouped, [bnd |-> bnd, x |-> value])
           Defines(bnd) == ctx' = [ctx EXCEPT !.exprs = <<>>, !.defns = Defined(bnd)]
           hx == Hygiene!item.x
           hForm == Hygiene!cdr(hx)
           hTarget == Hygiene!car(hForm)
           hRest == Hygiene!cdr(hForm)
           hValue == IF Hygiene!IsNil(hRest) THEN Hygiene!BindingOf(Hygiene!m_unspec)
                     ELSE Hygiene!car(hRest)
           hGrouped == IF cleanCtx.exprs = <<>> THEN cleanCtx.defns
                       ELSE Append(cleanCtx.defns, Hygiene!Anonymous(cleanCtx.exprs))
           hAfter == Hygiene!topLevel \/ cleanCtx.exprs = <<>>
           hRight == Hygiene!OneAndRest(hForm) /\ Hygiene!IsSymbol(hTarget)
           hLong == IF Hygiene!IsPair(hRest) /\ ~Hygiene!IsNil(Hygiene!cdr(hRest)) THEN 1 ELSE 0
           HDefined(bnd) == Append(hGrouped, [bnd |-> bnd, x |-> hValue])
           HDefines(bnd) ==
             cleanCtx' = [cleanCtx EXCEPT !.exprs = <<>>, !.defns = HDefined(bnd)]
           cDefns == CleanDefinitions(ctx.defns)
           cExprs == CleanAll(ctx.exprs)
           cGrouped == IF cExprs = <<>> THEN cDefns ELSE Append(cDefns, Anonymous(cExprs))
<1>1. /\ todo # <<>> /\ Current("form") /\ Heads(x, RES_DEFINE) /\ todo' = <<>> \o Tail(todo)
      /\ \/ ~after /\ Report /\ UNCHANGED <<ctx, scopeVars, variables>>
         \/ /\ after /\ ~right
            /\ Report /\ ctx' = [ctx EXCEPT !.exprs = <<>>, !.defns = grouped]
            /\ UNCHANGED <<scopeVars, variables>>
         \/ /\ after /\ right /\ IsBound(target, ctx.scope)
            /\ Defines(Env!NoBinding) /\ errors' = errors + 1 + tooLong
            /\ UNCHANGED <<scopeVars, variables>>
         \/ /\ after /\ right /\ ~IsBound(target, ctx.scope)
            /\ Defines(nextVariable) /\ BindVariable(target, ctx.scope)
            /\ errors' = errors + tooLong
      /\ UNCHANGED <<source, out, markStamp, frames>> BY DEF FormDefine, Do, Current
<1>2. /\ Hygiene!Current("form")
      /\ Hygiene!Heads(hx, Hygiene!RES_DEFINE)
      /\ Hygiene!Do(<<>>)
      /\ \/ ~hAfter /\ Hygiene!Report /\ UNCHANGED <<cleanCtx, Hygiene!scopeVars, variables>>
         \/ /\ hAfter /\ ~hRight
            /\ Hygiene!Report /\ cleanCtx' = [cleanCtx EXCEPT !.exprs = <<>>, !.defns = hGrouped]
            /\ UNCHANGED <<Hygiene!scopeVars, variables>>
         \/ /\ hAfter /\ hRight /\ Hygiene!IsBound(hTarget, cleanCtx.scope)
            /\ HDefines(Hygiene!Env!NoBinding) /\ errors' = errors + 1 + hLong
            /\ UNCHANGED <<Hygiene!scopeVars, variables>>
         \/ /\ hAfter /\ hRight /\ ~Hygiene!IsBound(hTarget, cleanCtx.scope)
            /\ HDefines(Hygiene!nextVariable) /\ Hygiene!BindVariable(hTarget, cleanCtx.scope)
            /\ errors' = errors + hLong
      /\ UNCHANGED <<source, out, markStamp, frames>>
      => Hygiene!FormDefine BY DEF Hygiene!FormDefine
<1>3. IsUser(x) /\ IsUser(form)
  BY <1>1, ReservedFormShown DEF RES_DEFINE, MACRO_OR, RES_IF, RES_LET
<1>4. /\ Hygiene!Current("form") /\ hx = x /\ Hygiene!Heads(hx, Hygiene!RES_DEFINE)
  BY <1>1, <1>3, CleanFormItem, SameBindings, SameConstants
<1> HIDE DEF hx, x
<1>5. hForm = form /\ hTarget = target /\ hRest = rest BY <1>4, SameParts
<1> HIDE DEF hForm, hTarget, hRest
<1>6. /\ hRight <=> right
      /\ hLong = tooLong /\ hValue = value
  <2> HIDE DEF form, target, rest
  <2> QED BY <1>5, SameKinds, SameShapes, SameForms, SameConstants, SameParts
<1>7. /\ IsSeq(ctx.exprs) /\ IsSeq(ctx.defns) BY ContextIs
<1>8. /\ cleanCtx.scope = ctx.scope /\ cleanCtx.defns = cDefns /\ cleanCtx.exprs = cExprs
  BY ContextFields
<1>9. hAfter <=> after
  <2>1. cExprs = <<>> <=> ctx.exprs = <<>> BY <1>7, CleanNotEmpty
  <2>2. Hygiene!topLevel <=> topLevel
    BY <1>8, SameConstants DEF Hygiene!topLevel, topLevel
  <2> HIDE DEF cExprs
  <2> QED BY <1>8, <2>1, <2>2
<1>10. IsSeq(grouped) /\ CleanDefinitions(grouped) = cGrouped
  BY <1>7, CleanGrouped DEF Grouped
<1>11. hGrouped = cGrouped
  <2> HIDE DEF cExprs, cDefns
  <2> QED BY <1>8, SameForms
<1>12. right => CleanValue(value) = value
  <2> SUFFICES ASSUME right PROVE CleanValue(value) = value OBVIOUS
  <2> HIDE DEF form
  <2>1. IsUser(rest) /\ IsList(rest) BY <1>3, UserCarCdr DEF OneAndRest
  <2> HIDE DEF rest
  <2>2. CleanValue(BindingOf(m_unspec)) = BindingOf(m_unspec)
    BY AtomsShown, CleanShown, CleanBinding
  <2>3. IsPair(rest) => CleanValue(car(rest)) = car(rest) BY <2>1, UserCarCdr, CleanUser
  <2> QED BY <2>1, <2>2, <2>3 DEF IsList
<1>13. Hygiene!Do(<<>>) BY <1>1, CleanDoNothing
<1>14. /\ Hygiene!IsBound(hTarget, cleanCtx.scope) <=> IsBound(target, ctx.scope)
       /\ BindVariable(target, ctx.scope) => Hygiene!BindVariable(hTarget, cleanCtx.scope)
  BY <1>5, <1>8, SameBindings, SameSteps
<1>15. /\ Report => Hygiene!Report
       /\ UNCHANGED scopeVars => UNCHANGED Hygiene!scopeVars
       /\ Hygiene!Env!NoBinding = Env!NoBinding /\ Hygiene!nextVariable = nextVariable
  BY SameReports, SameTables, SameConstants, SameSteps
<1> HIDE DEF target, form, rest, value, after, hAfter, right, hRight, tooLong, hLong, hValue,
             cGrouped, grouped, hGrouped, cDefns, cExprs
<1>16. ctx' = [ctx EXCEPT !.exprs = <<>>, !.defns = grouped]
         => cleanCtx' = [cleanCtx EXCEPT !.exprs = <<>>, !.defns = hGrouped]
  BY <1>10, <1>11, CleanContextDefines
<1>17. ASSUME NEW bnd, right, Defines(bnd)
       PROVE  HDefines(bnd)
  <2>1. CleanDefinitions(Defined(bnd)) = HDefined(bnd)
    BY <1>6, <1>10, <1>11, <1>12, <1>17, CleanDefined
  <2> DEFINE d == Defined(bnd)
             c == HDefined(bnd)
  <2>2. ctx' = [ctx EXCEPT !.exprs = <<>>, !.defns = d] /\ c = CleanDefinitions(d)
    BY <1>17, <2>1
  <2> HIDE DEF d, c
  <2>3. cleanCtx' = [cleanCtx EXCEPT !.exprs = <<>>, !.defns = c]
    BY <2>2, CleanContextDefines
  <2> QED BY <2>3 DEF c
<1>18. ctx' = ctx => cleanCtx' = cleanCtx BY SameContext
<1> HIDE DEF Defines, HDefines
<1>19. CASE ~after /\ Report /\ UNCHANGED <<ctx, scopeVars, variables>>
  BY <1>1, <1>2, <1>4, <1>9, <1>13, <1>15, <1>18, <1>19
<1>20. CASE /\ after /\ ~right
            /\ Report /\ ctx' = [ctx EXCEPT !.exprs = <<>>, !.defns = grouped]
            /\ UNCHANGED <<scopeVars, variables>>
  BY <1>1, <1>2, <1>4, <1>6, <1>9, <1>13, <1>15, <1>16, <1>20
<1>21. CASE /\ after /\ right /\ IsBound(target, ctx.scope)
            /\ Defines(Env!NoBinding) /\ errors' = errors + 1 + tooLong
            /\ UNCHANGED <<scopeVars, variables>>
  <2>1. HDefines(Hygiene!Env!NoBinding) BY <1>15, <1>17, <1>21
  <2> QED BY <1>1, <1>2, <1>4, <1>6, <1>9, <1>13, <1>14, <1>15, <1>21, <2>1
<1>22. CASE /\ after /\ right /\ ~IsBound(target, ctx.scope)
            /\ Defines(nextVariable) /\ BindVariable(target, ctx.scope)
            /\ errors' = errors + tooLong
  <2>1. HDefines(Hygiene!nextVariable) BY <1>15, <1>17, <1>22
  <2> QED BY <1>1, <1>2, <1>4, <1>6, <1>9, <1>13, <1>14, <1>22, <2>1
<1> QED BY <1>1, <1>19, <1>20, <1>21, <1>22

LEMMA DefinitionItemsAre ==
  ASSUME NEW d, IsSeq(d), NEW f
  PROVE  Defining(DefinitionItems(d, f), d, f)
<1> DEFINE s == DefinitionItems(d, f)
           k == 2 * Len(d)
           S == {s[i] : i \in 1..k}
<1>1. Len(d) \in Nat /\ k \in Nat BY SequenceLen
<1>2. s \in [1..k -> S] BY DEF DefinitionItems
<1>3. IsSeq(s) /\ Len(s) = k
  <2> HIDE DEF S, k
  <2> QED BY <1>1, <1>2, IndexedSequence
<1> QED BY <1>1, <1>3 DEF DefinitionItems, Defining

LEMMA CleanDefinitionItems ==
  ASSUME NEW d, IsSeq(d), NEW f, NEW s, s = DefinitionItems(d, f),
         NEW c, c = CleanDefinitions(d)
  PROVE  CleanItems(s) = DefinitionItems(c, f) /\ IsSeq(s) /\ Len(c) = Len(d)
<1> DEFINE t == CleanItems(s)
           u == DefinitionItems(c, f)
           k == 2 * Len(d)
<1>1. /\ Len(d) \in Nat /\ IsSeq(s) /\ Len(s) = k
      /\ \A i \in 1..k :
           s[i] = IF i % 2 = 1 THEN Expr(d[(i + 1) \div 2].x, f)
                  ELSE Make("define", <<d[i \div 2].bnd>>, f)
  BY DefinitionItemsAre DEF Defining
<1>2. IsSeq(c) /\ Len(c) = Len(d) /\ \A i \in 1..Len(d) : c[i] = CleanDefinition(d[i])
  BY CleanDefinitionsAre
<1>3. /\ IsSeq(u) /\ Len(u) = k
      /\ \A i \in 1..k :
           u[i] = IF i % 2 = 1 THEN Expr(c[(i + 1) \div 2].x, f)
                  ELSE Make("define", <<c[i \div 2].bnd>>, f)
  <2>1. Defining(u, c, f) BY <1>2, DefinitionItemsAre
  <2> HIDE DEF u
  <2> QED BY <1>2, <2>1 DEF Defining
<1>4. IsSeq(t) /\ Len(t) = k /\ \A i \in 1..k : t[i] = CleanItem(s[i])
  BY <1>1, CleanItemsAre
<1> HIDE DEF t, u
<1>5. ASSUME NEW i \in 1..k
      PROVE  t[i] = u[i]
  <2>1. CASE i % 2 = 1
    <3> DEFINE j == (i + 1) \div 2
    <3>1. j \in 1..Len(d) BY <1>1, <2>1
    <3>2. s[i] = Expr(d[j].x, f) /\ u[i] = Expr(c[j].x, f) BY <1>1, <1>3, <2>1
    <3> HIDE DEF j
    <3>3. c[j].x = CleanValue(d[j].x)
      <4>1. c[j] = CleanDefinition(d[j]) BY <1>2, <3>1
      <4>2. CleanDefinition(d[j]).x = CleanValue(d[j].x) BY DEF CleanDefinition
      <4> QED BY <4>1, <4>2
    <3> QED BY <1>4, <3>2, <3>3, CleanNew
  <2>2. CASE i % 2 # 1
    <3> DEFINE j == i \div 2
    <3>1. j \in 1..Len(d) BY <1>1, <2>2
    <3>2. s[i] = Make("define", <<d[j].bnd>>, f) /\ u[i] = Make("define", <<c[j].bnd>>, f)
      BY <1>1, <1>3, <2>2
    <3> HIDE DEF j
    <3>3. c[j].bnd = d[j].bnd
      <4>1. c[j] = CleanDefinition(d[j]) BY <1>2, <3>1
      <4>2. CleanDefinition(d[j]).bnd = d[j].bnd BY DEF CleanDefinition
      <4> QED BY <4>1, <4>2
    <3> DEFINE m == Make("define", <<d[j].bnd>>, f)
    <3>4. CleanItem(m) = m BY CleanNew
    <3>5. s[i] = m /\ u[i] = m BY <3>2, <3>3
    <3> HIDE DEF m
    <3> QED BY <1>4, <3>4, <3>5
  <2> QED BY <2>1, <2>2
<1>6. t = u
  <2> HIDE DEF k
  <2> QED BY <1>3, <1>4, <1>5, SequencesEqual
<1> QED BY <1>1, <1>2, <1>6 DEF t, u

LEMMA CompileBodyClean ==
  ASSUME IInv, MarksInv, CompileBody PROVE Hygiene!CompileBody
<1> DEFINE d == ctx.defns
           xs == ctx.exprs
           f == ctx.scope
           defns == DefinitionItems(d, f)
           exprs == Exprs(xs, f)
           m == Make("body", <<Len(d), Len(exprs)>>, f)
           last == <<m>>
           both == defns \o exprs
           items == both \o last
           cd == CleanDefinitions(d)
           cxs == CleanAll(xs)
           cDefns == DefinitionItems(cd, f)
           cExprs == Exprs(cxs, f)
           k == Make("body", <<Len(cd), Len(cExprs)>>, f)
<1>1. /\ Current("endBody") /\ todo # <<>> /\ item.do = "endBody"
      /\ todo' = items \o Tail(todo)
      /\ UNCHANGED <<source, ctx, out, errors, markStamp, tableVars>>
  BY DEF CompileBody, DefinitionItems, Exprs, Do, Current
<1>2. AllShown(xs, markStamp) BY <1>1, CurrentShown DEF CtxShown
<1>3. IsSeq(d) /\ IsSeq(xs) BY ContextIs
<1>4. CleanItems(defns) = cDefns /\ IsSeq(defns) /\ Len(cd) = Len(d)
  BY <1>3, CleanDefinitionItems
<1>5. CleanItems(exprs) = cExprs /\ IsSeq(exprs) /\ Len(cxs) = Len(xs)
      /\ Len(exprs) = Len(xs) BY <1>2, <1>3, CleanExprs
<1>6. Len(cExprs) = Len(exprs)
  <2>1. IsSeq(cxs) BY <1>3, CleanAllAre
  <2> HIDE DEF cxs, exprs
  <2>2. Len(cExprs) = Len(cxs) BY <2>1, ExprsProperties
  <2> HIDE DEF cExprs
  <2> QED BY <1>5, <2>2
<1>7. m = k BY <1>4, <1>6
<1>8. CleanItems(last) = <<k>> /\ IsSeq(last)
  <2>1. CleanItem(m) = m BY CleanNew
  <2> HIDE DEF m, k
  <2> QED BY <1>7, <2>1, CleanItemsOne, Sequence1
<1> HIDE DEF defns, exprs, last, m, k, cDefns, cExprs, cd, cxs
<1>9. CleanItems(both) = cDefns \o cExprs /\ IsSeq(both)
  BY <1>4, <1>5, ConcatSequence, CleanItemsJoin
<1> HIDE DEF both
<1>10. CleanItems(items) = (cDefns \o cExprs) \o <<k>> /\ IsSeq(items)
  BY <1>8, <1>9, ConcatSequence, CleanItemsJoin
<1> HIDE DEF items
<1>11. Hygiene!Do((cDefns \o cExprs) \o <<k>>) BY <1>1, <1>10, CleanDo
<1>12. Hygiene!Current("endBody") BY <1>1, CleanPlainItem
<1> DEFINE hd == [i \in 1..(2 * Len(cleanCtx.defns)) |->
                    IF i % 2 = 1
                    THEN Hygiene!Expr(cleanCtx.defns[(i + 1) \div 2].x, cleanCtx.scope)
                    ELSE Hygiene!Make("define", <<cleanCtx.defns[i \div 2].bnd>>, cleanCtx.scope)]
           he == [i \in 1..Len(cleanCtx.exprs) |->
                    Hygiene!Expr(cleanCtx.exprs[i], cleanCtx.scope)]
           hm == Hygiene!Make("body", <<Len(cleanCtx.defns), Len(he)>>, cleanCtx.scope)
<1>13. Hygiene!CompileBody <=>
         /\ Hygiene!Current("endBody")
         /\ Hygiene!Do((hd \o he) \o <<hm>>)
         /\ UNCHANGED <<source, cleanCtx, out, errors, markStamp, Hygiene!tableVars>>
  BY DEF Hygiene!CompileBody
<1>14. cleanCtx.defns = cd /\ cleanCtx.exprs = cxs /\ cleanCtx.scope = f
  BY ContextFields DEF cd, cxs
<1>15. hd = cDefns BY <1>14, SameItems DEF cDefns, DefinitionItems
<1>16. he = cExprs BY <1>14, SameExprs DEF cExprs
<1>17. hm = k BY <1>14, <1>16, SameItems DEF k
<1> HIDE DEF hd, he, hm
<1> QED BY <1>1, <1>11, <1>12, <1>13, <1>15, <1>16, <1>17, SameContext, SameTables

-----------------------------------------------------------------------------
LEMMA InitClean ==
  ASSUME Init PROVE Hygiene!Init
<1> DEFINE a == Forms(source)
           m == Make("module", <<>>, SystemScope)
<1>1. /\ source \in Source /\ todo = <<a, EndBody, m>> /\ ctx = NewContext(LibraryScope)
      /\ out = <<>> /\ errors = 0 /\ markStamp = 0
      /\ env = <<[scope |-> SystemScope, vars |-> SystemBindings],
                 [scope |-> LibraryScope, vars |-> [x \in {} |-> Env!NoBinding]]>>
      /\ left = {} /\ frames = <<0, SystemScope>> /\ variables = <<SystemScope>>
  BY DEF Init
<1>2. IsUser(source) BY <1>1, UserSyntax, SyntaxAssumption
<1>3. CleanItem(a) = a /\ CleanItem(m) = m /\ CleanItem(EndBody) = EndBody
  BY <1>2, CleanUserNew, CleanNew
<1>4. a = Hygiene!Forms(source) /\ m = Hygiene!Make("module", <<>>, Hygiene!SystemScope)
      /\ Hygiene!EndBody = EndBody BY SameItems, SameConstants
<1> HIDE DEF a, m
<1>5. cleanTodo = <<a, EndBody, m>> BY <1>1, <1>3, CleanItemsThree DEF cleanTodo
<1>6. cleanCtx = NewContext(LibraryScope) BY <1>1, CleanEmpty DEF cleanCtx, NewContext
<1>7. cleanCtx = Hygiene!NewContext(Hygiene!LibraryScope)
  BY <1>6, SameItems, SameConstants
<1>8. env = <<[scope |-> Hygiene!SystemScope, vars |-> Hygiene!SystemBindings],
              [scope |-> Hygiene!LibraryScope, vars |-> [x \in {} |-> Hygiene!Env!NoBinding]]>>
  BY <1>1, SameConstants DEF SystemBindings, Hygiene!SystemBindings
<1> QED BY <1>1, <1>4, <1>5, <1>7, <1>8, SameConstants DEF Hygiene!Init

LEMMA StutterClean == UNCHANGED vars => UNCHANGED Hygiene!vars
BY DEF vars, Hygiene!vars, scopeVars, Hygiene!scopeVars, cleanTodo, cleanCtx

LEMMA CoreNextClean == IInv /\ MarksInv /\ CoreNext => Hygiene!CoreNext
BY PopScopeClean, MakeNodeClean, ParseBodyClean, FormEmptyClean, FormBeginClean,
   FormDefineClean, FormExpressionClean, CompileBodyClean, CompileValueClean,
   CompileVariableClean, CompileCallClean, CompileBeginClean, CompileArgsClean,
   CompileIfClean, CompileSetBangClean, CompileInvalidClean, CompileLambdaClean,
   LambdaParamClean, LambdaListParamClean, LambdaParamsEndClean, CompileLambdaBodyClean,
   CompileLetClean, LetInitClean, LetValuesClean, EnterLetClean, LetVarClean, LetBodyClean
   DEF CoreNext, Hygiene!CoreNext

LEMMA NextClean == IInv /\ MarksInv /\ [Next]_vars => [Hygiene!HygienicNext]_Hygiene!vars
BY CoreNextClean, FormMacroClean, CompileMacroClean, StutterClean
   DEF Next, Hygiene!HygienicNext

(* Macro expansion captures nothing, in any program, however uses nest and *)
(* whatever names the program defines: with its marks taken for what they  *)
(* mean (SchemeParser.cpp, lookupSyntaxSymbol and expandMacro), every step *)
(* of the parser is one of the parser whose "or" says let, if and or by    *)
(* what they are and whose variable has a name that no program can write.  *)
THEOREM MacrosAreHygienic == Spec => ImplementsHygienic
<1>1. Spec => [](IInv /\ MarksInv)
  <2>1. Init => IInv /\ MarksInv BY InitIInv, InitMarks
  <2>2. (IInv /\ MarksInv) /\ [Next]_vars => (IInv /\ MarksInv)' BY NextIInv, NextMarks
  <2> QED BY <2>1, <2>2, PTL DEF Spec
<1>2. Init => Hygiene!Init BY InitClean
<1>3. (IInv /\ MarksInv) /\ [Next]_vars => [Hygiene!HygienicNext]_Hygiene!vars
  BY NextClean
<1> QED BY <1>1, <1>2, <1>3, PTL DEF Spec, ImplementsHygienic, Hygiene!HygienicSpec

==============================================================================
