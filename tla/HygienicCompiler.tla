--------------------------- MODULE HygienicCompiler ---------------------------
(***************************************************************************)
(* What compiling a body promises: names mean what the text around them    *)
(* says, and "or" is a form of the language, with a variable of its own    *)
(* that no name of the program can mean.  There are no marks, no symbol    *)
(* table and no expansion here: an environment is a function from names.   *)
(*                                                                         *)
(* Syntax and the nodes of the AST are represented as in SchemeParser.     *)
(* A result r is [vars, frames: how many there are; out: the nodes made;   *)
(* ok: nothing was wrong with the text].                                   *)
(***************************************************************************)
EXTENDS Integers, Sequences, TLC

LOCAL Unspecified == -9

Base == ("or" :> -1) @@ ("begin" :> -2) @@ ("define" :> -3) @@ ("set!" :> -4)
        @@ ("if" :> -5) @@ ("lambda" :> -6) @@ ("let" :> -7) @@ ("letrec" :> -8)
        @@ ("+" :> 1)

Meaning(e, n) == IF n \in DOMAIN e THEN e[n] ELSE 0

RECURSIVE Items(_), Proper(_), Params(_)

Proper(x) == x.k = "nil" \/ (x.k = "pair" /\ Proper(x.cdr))
Items(x) == IF x.k = "pair" THEN <<x.car>> \o Items(x.cdr) ELSE <<>>

(* The parameters of lambda, the one for a list included                   *)
Params(x) ==
  CASE x.k = "pair" -> <<x.car>> \o Params(x.cdr)
    [] x.k = "nil"  -> <<>>
    [] OTHER        -> <<x>>

HeadOf(e, x) ==
  IF x.k = "pair" /\ x.car.k = "symbol" THEN Meaning(e, x.car.name) ELSE 0

Names(items) == {items[i].name : i \in {i \in 1..Len(items) : items[i].k = "symbol"}}

AllDistinct(items) ==
  \A i, j \in 1..Len(items) :
    /\ items[i].k = "symbol"
    /\ i # j => items[i].name # items[j].name

(* items[i] means variable first + i.                                      *)
Bound(e, items, first) ==
  [n \in Names(items) |-> first + CHOOSE i \in 1..Len(items) : items[i].name = n] @@ e

Wrong(r) == [r EXCEPT !.ok = FALSE]
Add(r, op, of, in) == [r EXCEPT !.out = Append(@, [op |-> op, of |-> of, in |-> in])]

(* What a body consists of: its definitions and the expressions behind     *)
(* them.  c is [e, vars, defns, exprs, ok].                                *)
RECURSIVE CollectForm(_, _, _), CollectForms(_, _, _)

CollectForms(items, c, top) ==
  IF items = <<>> THEN c
  ELSE CollectForms(Tail(items), CollectForm(Head(items), c, top), top)

CollectForm(x, c, top) ==
  LET args == Items(x.cdr)
      h == HeadOf(c.e, x)
      grouped == IF c.exprs = <<>> THEN c.defns
                 ELSE Append(c.defns, [bnd |-> 0, xs |-> c.exprs])
  IN  CASE x.k = "nil" -> Wrong(c)
        [] h = -1 /\ Proper(x) /\ Len(args) = 1 -> CollectForm(args[1], c, top)
        [] h = -2 -> CollectForms(args, IF Proper(x) THEN c ELSE Wrong(c), top)
        [] h = -3 -> IF /\ Proper(x) /\ Len(args) \in {1, 2}
                        /\ args[1].k = "symbol"
                        /\ args[1].name \notin c.here
                        /\ top \/ c.exprs = <<>>
                     THEN [c EXCEPT
                             !.e = (args[1].name :> (c.vars + 1)) @@ @,
                             !.here = @ \cup {args[1].name},
                             !.vars = @ + 1,
                             !.exprs = <<>>,
                             !.defns = Append(grouped, [bnd |-> c.vars + 1, xs |-> Tail(args)])]
                     ELSE Wrong(c)
        [] OTHER -> [c EXCEPT !.exprs = Append(@, x)]

RECURSIVE Compile(_, _, _, _), CompileAll(_, _, _, _), CompileOr(_, _, _, _),
          CompileDefns(_, _, _, _), CompileBody(_, _, _, _)

CompileAll(items, f, e, r) ==
  IF items = <<>> THEN r ELSE CompileAll(Tail(items), f, e, Compile(Head(items), f, e, r))

(* Definitions are made in order.  An anonymous one evaluates expressions. *)
CompileDefns(defns, f, e, r) ==
  IF defns = <<>> THEN r
  ELSE LET d == Head(defns)
           values == CompileAll(d.xs, f, e, r)
           value == IF d.bnd = 0
                    THEN Add(Add(values, "unspecified", <<>>, f), "begin", <<Len(d.xs) + 1>>, f)
                    ELSE IF d.xs = <<>> THEN Add(r, "unspecified", <<>>, f)
                    ELSE values
       IN  CompileDefns(Tail(defns), f, e, Add(value, "define", <<d.bnd>>, f))

(* The body of a library, of lambda or of let, in its own frame f          *)
CompileBody(items, f, e, r) ==
  LET c == CollectForms(items, [e |-> e, here |-> {}, vars |-> r.vars, defns |-> <<>>,
                                exprs |-> <<>>, ok |-> r.ok], f = 2)
      ready == [r EXCEPT !.vars = c.vars, !.ok = c.ok]
  IN  Add(CompileAll(c.exprs, f, c.e, CompileDefns(c.defns, f, c.e, ready)),
          "body", <<Len(c.defns), Len(c.exprs)>>, f)

(* The first argument is kept in a variable, tested and returned.          *)
CompileOr(args, f, e, r) ==
  CASE args = <<>>   -> Add(r, "datum", <<>>, f)
    [] Len(args) = 1 -> Compile(args[1], f, e, r)
    [] OTHER ->
         LET value == Compile(args[1], f, e, r)
             tmp == value.vars + 1
             params == value.frames + 1
             body == params + 1
             tested == Add(Add([value EXCEPT !.vars = @ + 1, !.frames = @ + 2],
                               "ref", <<tmp>>, body), "ref", <<tmp>>, body)
             rest == CompileOr(Tail(args), body, e, tested)
         IN  Add(Add(Add(rest, "if", <<3>>, body), "body", <<0, 1>>, body),
                 "let", <<tmp, 1>>, params)

Compile(x, f, e, r) ==
  LET h == HeadOf(e, x)
      args == Items(x.cdr)
      n == Len(args)
      AllOf(op, items, k) == Add(CompileAll(items, f, e, r), op, <<k>>, f)
      LambdaBody(params, op) ==
        LET p == r.frames + 1
            made == [r EXCEPT !.vars = @ + Len(params), !.frames = @ + 2]
        IN  Add(CompileBody(Tail(args), p + 1, Bound(e, params, r.vars), made),
                op, [i \in 1..Len(params) |-> r.vars + i], p)
      LetBody(inits) ==
        LET nm == [i \in 1..Len(inits) |-> Items(inits[i])[1]]
            v == CompileAll([i \in 1..Len(inits) |-> Items(inits[i])[2]], f, e, r)
            p == v.frames + 1
            made == [v EXCEPT !.vars = @ + Len(nm), !.frames = @ + 2]
        IN  IF AllDistinct(nm)
            THEN Add(CompileBody(Tail(args), p + 1, Bound(e, nm, v.vars), made),
                     "let", [i \in 1..Len(nm) |-> v.vars + i] \o <<Len(nm)>>, p)
            ELSE Wrong(r)
  IN  CASE x.k = "value" -> Add(r, "datum", <<>>, f)
        [] x.k = "symbol" -> IF Meaning(e, x.name) > 0
                             THEN Add(r, "ref", <<Meaning(e, x.name)>>, f) ELSE Wrong(r)
        [] x.k = "nil" \/ ~Proper(x) -> Wrong(r)
        [] x.k = "pair" /\ Proper(x) ->
             CASE h >= 0 -> AllOf("apply", <<x.car>> \o args, n)
               [] h = -1 -> CompileOr(args, f, e, r)
               [] h = -2 -> AllOf("begin", args, n)
               [] h = -4 /\ n = 2 /\ args[1].k = "symbol" /\ Meaning(e, args[1].name) > 0 ->
                    Add(Compile(args[2], f, e, r), "set", <<Meaning(e, args[1].name)>>, f)
               [] h = -5 /\ n \in {2, 3} -> AllOf("if", args, n)
               [] h = -6 /\ n >= 2 /\ args[1].k # "nil" /\ AllDistinct(Params(args[1])) ->
                    LambdaBody(Params(args[1]),
                               IF Proper(args[1]) THEN "lambda" ELSE "lambda list")
               [] h = -7 /\ n >= 2 /\ Proper(args[1])
                    /\ \A i \in 1..Len(Items(args[1])) :
                         Proper(Items(args[1])[i]) /\ Len(Items(Items(args[1])[i])) = 2 ->
                    LetBody(Items(args[1]))
               [] OTHER -> Wrong(r)

CompileLibrary(x) ==
  LET r == CompileBody(Items(x), 2, Base,
                       [vars |-> 1, frames |-> 2, out |-> <<>>, ok |-> Proper(x)])
  IN  Add(r, "module", <<>>, 1)

===============================================================================
