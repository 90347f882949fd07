---------------------------- MODULE MCSchemeParser ----------------------------
(***************************************************************************)
(* Bodies of one or two forms.  The names they define are those the macro  *)
(* uses: tmp, if, let, or.                                                 *)
(***************************************************************************)
EXTENDS SchemeParserHygiene

S(n) == Symbol(n)
Form2(n, a, b) == List(<<S(n), a, b>>)
Or(a, b) == Form2("or", a, b)
Let(n, v, b) == List(<<S("let"), List(<<List(<<S(n), v>>)>>), b>>)
Lambda(n, b) == List(<<S("lambda"), List(<<S(n)>>), b>>)
Define(n, v) == Form2("define", S(n), v)

Taken == {"tmp", "if", "let", "or"}

Ors ==
  {Or(Value, S(n)) : n \in Taken \cup {"x", "y"}} \cup
  {List(<<S("or"), S("tmp"), S("if"), S("x")>>), List(<<S("or")>>),
   List(<<S("or"), S("x")>>), List(<<S("or"), List(<<S("begin"), Define("x", Value)>>)>>),
   Or(Or(Value, S("tmp")), S("x")), Or(S("x"), Or(S("tmp"), S("tmp"))),
   Or(Value, Lambda("tmp", Or(S("tmp"), S("x")))),
   Or(Let("tmp", Value, S("tmp")), S("tmp"))}

Binders ==
  {Let(n, S("x"), Or(Value, S(n))) : n \in Taken} \cup
  {Lambda(n, Or(S("x"), S(n))) : n \in Taken} \cup
  {Let("tmp", Or(S("tmp"), Value), Lambda("x", Or(S("tmp"), S("x")))),
   List(<<S("lambda"), S("x"), Define("tmp", S("x")), Or(S("tmp"), S("x"))>>),
   List(<<S("lambda"), ListTo(<<S("x")>>, S("tmp")), Or(S("tmp"), S("x"))>>)}

Plain ==
  {Define("x", Value), Define("tmp", Or(Value, S("x"))), Define("if", Lambda("x", S("if"))),
   Define("let", Value),
   List(<<S("define"), S("x")>>),
   List(<<S("begin"), S("tmp"), Define("tmp", Value)>>), List(<<S("begin")>>),
   List(<<S("x"), Or(S("x"), S("tmp"))>>), Form2("+", S("+"), S("x")),
   Form2("set!", S("tmp"), Or(S("tmp"), Value)),
   List(<<S("if"), S("x"), S("tmp"), S("x")>>), Form2("if", S("x"), S("x"))}

Wrong ==
  {Value, Nil, S("if"), ListTo(<<S("x")>>, Value), ListTo(<<S("begin"), S("x")>>, Value),
   List(<<S("x"), ListTo(<<S("begin"), S("x")>>, Value)>>),
   List(<<S("if"), S("x")>>), List(<<S("if"), S("x"), S("x"), S("x"), S("x")>>),
   Form2("set!", S("y"), S("x")), Form2("set!", Value, S("x")), List(<<S("set!"), S("x")>>),
   List(<<S("lambda")>>), Form2("lambda", Value, S("x")), Form2("lambda", Nil, S("x")),
   List(<<S("lambda"), S("x")>>),
   Form2("lambda", List(<<S("x"), S("x")>>), S("x")),
   Form2("lambda", ListTo(<<S("x")>>, S("x")), S("x")),
   Form2("lambda", ListTo(<<Value>>, Value), S("x")),
   List(<<S("let")>>), Form2("let", S("x"), S("x")), Form2("let", Nil, S("x")),
   Form2("let", List(<<List(<<S("x")>>)>>), S("x")),
   Form2("let", ListTo(<<List(<<S("x"), Value>>)>>, S("x")), S("x")),
   List(<<S("let"), List(<<List(<<S("x"), Value>>)>>)>>),
   Form2("let", List(<<List(<<S("x"), Value>>), List(<<S("x"), Value>>)>>), S("x")),
   Form2("let", List(<<List(<<Value, Value>>)>>), S("x")),
   Lambda("x", List(<<S("begin"), S("x"), Define("tmp", Value)>>)),
   List(<<S("lambda"), S("tmp"), S("tmp"), Define("x", S("tmp"))>>),
   List(<<S("define")>>), List(<<S("define"), Value>>),
   List(<<S("define"), S("x"), Value, Value>>), List(<<S("define"), Or(Value, S("x"))>>),
   Form2("x", Nil, Define("x", Value)), Form2("letrec", Nil, S("x")),
   ListTo(<<S("or")>>, Value), ListTo(<<S("or"), Value>>, Value),
   List(<<S("x"), ListTo(<<S("or")>>, Value)>>)}

Last == Plain \cup {Value} \cup {Or(Value, S(n)) : n \in Taken}

BodiesOfForms ==
  {List(<<f, g>>) : f \in Ors \cup Binders \cup Plain \cup Wrong, g \in Last} \cup
  {Nil, ListTo(<<S("x")>>, Value), List(<<Define("x", Value), Define("x", Value), S("x")>>)}

(* The bodies with their parts; none is nested deeper than this.           *)
MaxDepth == 12

Parts ==
  LET within[n \in 0..MaxDepth] ==
        IF n = 0 THEN BodiesOfForms
        ELSE LET found == within[n - 1]
                 pairs == {x \in found : IsPair(x)}
             IN  found \cup {x.car : x \in pairs} \cup {x.cdr : x \in pairs}
  IN  within[MaxDepth]

===============================================================================
