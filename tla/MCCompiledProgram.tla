--------------------------- MODULE MCCompiledProgram --------------------------
(***************************************************************************)
(* A library with a variable x and a procedure f of two parameters, whose  *)
(* body defines y; what y is, what f returns and what it is called with    *)
(* are chosen from expressions.  Then programs of other shapes, and ones   *)
(* with forms that make no code.                                           *)
(***************************************************************************)
EXTENDS CompiledProgram

Frame(id, n) == [id |-> id, length |-> n]
Number(n) == [k |-> "datum", skind |-> "integer", n |-> n]
Bool(t) == [k |-> "datum", skind |-> "bool", b |-> t]
Unknown(skind) == [k |-> "datum", skind |-> skind]
Unspecified == [k |-> "unspecified"]
V(f, i) == [k |-> "var", frame |-> f, place |-> i]
Apply(f, args) == [k |-> "apply", target |-> f, params |-> args]
If(c, a, b) == [k |-> "if", cond |-> c, thenAst |-> a, elseAst |-> <<b>>]
When(c, a) == [k |-> "if", cond |-> c, thenAst |-> a, elseAst |-> <<>>]
Def(place, x) == [place |-> place, value |-> x]
Body(id, n, defs, exprs) == [frame |-> Frame(id, n), defs |-> defs, exprs |-> exprs]
(* The frame of the parameters is the one before that of the body.         *)
Closure(id, n, defs, exprs) ==
  [k |-> "closure", frame |-> Frame(id, n), params |-> n, list |-> FALSE,
   body |-> Body(id + 1, Len(defs), defs, exprs)]
Rest(id, n, defs, exprs) ==
  [Closure(id, n, defs, exprs) EXCEPT !.list = TRUE, !.frame.length = n + 1]
Begin(xs) == [k |-> "begin", exprs |-> xs]
Set(f, i, x) == [k |-> "set", frame |-> f, place |-> i, value |-> x]
Let(id, values, exprs) ==
  [k |-> "let", frame |-> Frame(id, Len(values)), values |-> values,
   body |-> Body(id + 1, 0, <<>>, exprs)]

Plus(a, b) == Apply(V(1, 1), <<a, b>>)
Minus(a, b) == Apply(V(1, 2), <<a, b>>)
Times(a, b) == Apply(V(1, 3), <<a, b>>)
Less(a, b) == Apply(V(1, 5), <<a, b>>)
Show(a) == Apply(V(1, 9), <<a>>)

Module(defs, exprs) ==
  [systemFrame |-> Frame(1, 9),
   body |-> Body(2, IF defs = <<>> THEN 0 ELSE defs[Len(defs)].place, defs, exprs)]

x == V(2, 1)
f == V(2, 2)
a == V(3, 1)
b == V(3, 2)
y == V(4, 1)

Atoms == {Number(0), Number(3), x, a, b, y}
Calls == {Minus(a, b), Plus(x, y), Less(y, a), Plus(Minus(a, y), Times(b, x)),
          Apply(Closure(7, 1, <<>>, <<Minus(V(7, 1), a)>>), <<y>>),
          Apply(Closure(9, 0, <<>>, <<Plus(Apply(Closure(11, 1, <<Def(1, Minus(V(11, 1), b))>>,
                                                         <<Plus(x, V(12, 1))>>), <<y>>), a)>>),
                <<>>),
          Show(Minus(b, a))}
Ifs == {If(c, d, e) : c \in {a, Less(a, x)}, d \in {b, x, Plus(a, y)}, e \in {y, Minus(x, b)}}
       \cup {When(a, y), When(Less(a, x), Plus(y, b)), When(b, Number(5)),
             When(a, x), If(When(a, b), x, y), If(If(a, b, x), When(a, a), y)}

Bodies ==
  {<<e>> : e \in Atoms \cup Calls \cup Ifs} \cup
  {<<Show(y), e>> : e \in {a, When(b, y)}} \cup
  {<<If(Less(a, Number(1)), b,
       Plus(Apply(f, <<Minus(a, Number(1)), Plus(b, y)>>), Minus(y, a)))>>,
   <<If(a, Apply(f, <<Minus(a, Number(1)),
                      Minus(Apply(f, <<Number(0), a>>), Apply(f, <<Number(0), b>>))>>), b)>>}

Values == {Number(2), Minus(b, a), If(a, x, b), Plus(Show(a), b),
           Apply(Closure(5, 1, <<>>, <<Plus(V(5, 1), a)>>), <<x>>)}
Args == {<<Number(2), x>>, <<Number(0), Minus(x, Number(1))>>, <<Bool(TRUE), Number(4)>>}

Generated ==
  {Module(<<Def(1, Number(3)), Def(2, Closure(3, 2, <<Def(1, v)>>, body))>>,
          <<Show(Apply(f, args)), Apply(f, args)>>) :
     v \in Values, body \in Bodies, args \in Args}

g == V(2, 3)
(* inputs/scm/fact.scm and min of inputs/scm/test1.scm; a procedure that   *)
(* returns procedures, used twice; mutual recursion                        *)
Written == {
  Module(<<Def(1, Closure(3, 1,
             <<Def(1, Closure(5, 2, <<>>,
                 <<If(Less(V(5, 2), Number(2)), V(5, 1),
                      Apply(V(4, 1), <<Times(V(5, 1), V(5, 2)), Minus(V(5, 2), Number(1))>>))>>))>>,
             <<Apply(V(4, 1), <<Number(1), V(3, 1)>>)>>))>>,
         <<Show(Apply(V(2, 1), <<Number(4)>>))>>),
  Module(<<Def(1, Closure(3, 2, <<>>, <<If(Less(V(3, 1), V(3, 2)), V(3, 1), V(3, 2))>>))>>,
         <<Apply(V(2, 1), <<Number(10), Apply(V(2, 1), <<Number(7), Number(9)>>)>>)>>),
  Module(<<Def(1, Closure(3, 1, <<Def(1, Times(V(3, 1), Number(10)))>>,
                    <<Closure(5, 1, <<>>, <<Minus(Plus(V(4, 1), V(3, 1)), V(5, 1))>>)>>)),
           Def(2, Apply(V(2, 1), <<Number(1)>>)), Def(3, Apply(V(2, 1), <<Number(2)>>))>>,
         <<Show(Apply(f, <<Number(1)>>)), Show(Apply(g, <<Number(2)>>)),
           Show(Apply(Apply(x, <<Number(3)>>), <<Apply(f, <<Apply(g, <<Number(0)>>)>>)>>)), g>>),
  Module(<<Def(1, Number(0)),
           Def(2, Closure(3, 1, <<>>, <<If(V(3, 1), Apply(g, <<Minus(V(3, 1), Number(1))>>), Number(1))>>)),
           Def(3, Closure(5, 1, <<>>, <<If(V(5, 1), Apply(f, <<Minus(V(5, 1), Number(1))>>), x)>>))>>,
         <<Show(Apply(f, <<Number(2)>>)), Show(Apply(g, <<Number(2)>>))>>),
  \* bodies without expressions, values nobody uses, division and comparisons
  Module(<<>>, <<>>),
  Module(<<Def(1, Closure(3, 0, <<>>, <<>>))>>, <<Apply(x, <<>>), x>>),
  Module(<<Def(1, Unspecified)>>,
         <<Show(Apply(V(1, 4), <<Minus(Number(1), Number(8)), Number(2)>>)),
           Show(Apply(V(1, 6), <<Number(2), Number(1)>>)),
           Show(Apply(V(1, 7), <<Number(2), Bool(TRUE)>>)),
           Show(Apply(V(1, 8), <<Bool(FALSE), Number(1)>>)), x>>),
  \* what cannot be compiled, or runs into errors
  Module(<<Def(1, Number(1))>>, <<Show(Let(3, <<x>>, <<x>>))>>),
  Module(<<Def(1, Number(1))>>, <<Set(2, 1, Number(2))>>),
  Module(<<Def(1, Unknown("real"))>>, <<x>>),
  Module(<<>>, <<If(Unknown("real"), Show(Number(1)), Number(2))>>),
  Module(<<Def(1, Unknown("string"))>>, <<Number(1)>>),
  Module(<<>>, <<Apply(V(1, 1), <<Number(1), Number(2), Number(3), Number(4)>>)>>),
  Module(<<Def(1, Closure(3, 4, <<>>, <<V(3, 4)>>))>>, <<Number(1)>>),
  Module(<<Def(1, Rest(3, 1, <<>>, <<V(3, 2)>>))>>, <<Apply(x, <<Number(1), Number(2)>>)>>),
  Module(<<Def(1, Closure(3, 2, <<>>, <<V(3, 2)>>))>>, <<Apply(x, <<Number(1)>>)>>),
  Module(<<Def(1, f), Def(2, Number(1))>>, <<x>>),
  Module(<<>>, <<Apply(Number(5), <<>>)>>),
  Module(<<Def(1, f), Def(2, Number(1))>>, <<Apply(Apply(x, <<>>), <<>>)>>) }

(* Expressions before a definition of the top level: SchemeParser makes a  *)
(* definition without a variable of them, whose value is a begin.          *)
Deferring ==
  {Module(<<Def(1, Number(3)), Def(0, Begin(<<e, Unspecified>>)), Def(2, d)>>, <<Show(f)>>) :
     e \in {Show(x), Plus(x, x), Show(Plus(x, Number(1)))}, d \in {Number(1), x}}

(* Forms that make no code where their values are not used: the program    *)
(* compiles, and goes on as if they were not there.  Each has an effect    *)
(* that what comes behind it would show.                                   *)
NoCode(frame, place, id) ==
  {Set(frame, place, Number(7)), Begin(<<Show(x), Set(frame, place, x)>>),
   Let(id, <<x>>, <<Set(frame, place, Plus(V(id, 1), Number(1))), Show(V(id, 1))>>)}

Dropping ==
  {Module(<<Def(1, Number(3)), Def(2, Closure(3, 1, <<Def(1, Minus(V(3, 1), x))>>,
                                              <<inner, Plus(Minus(V(3, 1), V(4, 1)), x)>>))>>,
          <<Show(Apply(f, <<Number(5)>>)), outer, Show(Apply(f, <<x>>)), x>>) :
     inner \in UNION {{e, When(x, e), When(V(4, 1), When(V(3, 1), e))} : e \in NoCode(3, 1, 11)}
               \cup {If(V(3, 1), Show(V(4, 1)), x), Unknown("string")},
     outer \in UNION {{e, When(Less(Number(1), x), e)} : e \in NoCode(2, 1, 15)}
               \cup {When(Plus(x, x), Unknown("string")), If(x, Set(2, 1, Number(7)), x)}}

Programs == Generated \cup Written \cup Deferring \cup Dropping

===============================================================================
