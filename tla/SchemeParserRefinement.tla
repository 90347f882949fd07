------------------------ MODULE SchemeParserRefinement ------------------------
(***************************************************************************)
(* SchemeParser, with its marks taken for what they mean.  What an         *)
(* expansion made, and only that, is marked, with the mark of the          *)
(* expansion; the arguments of the macro lose the mark when they are taken *)
(* out.  So marked syntax is the form that OrExpansion builds, or one of   *)
(* the parts that the parser takes it to: what HygienicParser has in its   *)
(* place is that form without the marks, around the same arguments.        *)
(***************************************************************************)
EXTENDS HygienicParser

CleanOr(x) == OrForm(car(cdr(x)), cdr(cdr(x)))

CleanIf(x) ==
  LET or == cdr(car(cdr(cdr(cdr(x)))))
  IN  IfForm(x.mark[1], car(or), cdr(or))

CleanBody(x) == List(<<CleanIf(car(x))>>)

CleanInits(x) == OwnInits(x.mark[1], car(cdr(car(x))))

CleanLet(x) ==
  Pair(BindingOf(RES_LET), Pair(CleanInits(car(cdr(x))), CleanBody(cdr(cdr(x)))))

IsMarked(x) == (IsSymbol(x) \/ IsPair(x)) /\ x.mark # <<>>

(* An expression or form, the forms of a body and the variables of a let   *)
CleanExpr(x) ==
  IF ~IsMarked(x) THEN x
  ELSE IF IsSymbol(x) THEN Own(x.mark[1])
  ELSE IF x.car = Symbol("let") THEN CleanLet(x)
  ELSE IF x.car = Symbol("if") THEN CleanIf(x)
  ELSE CleanOr(x)

CleanForms(x) == IF IsMarked(x) THEN CleanBody(x) ELSE x
CleanVars(x) == IF IsMarked(x) THEN CleanInits(x) ELSE x

CleanAll(s) == [i \in 1..Len(s) |-> CleanExpr(s[i])]

CleanValue(x) == IF x.k = "begin" THEN Begin(CleanAll(x.exprs)) ELSE CleanExpr(x)

CleanItem(it) ==
  CASE it.do = "expr" -> [it EXCEPT !.x = CleanValue(@)]
    [] it.do = "form" -> [it EXCEPT !.x = CleanExpr(@)]
    [] it.do \in {"forms", "body"} -> [it EXCEPT !.x = CleanForms(@)]
    [] it.do = "inits" -> [it EXCEPT !.x = CleanVars(@), !.names = CleanAll(@),
                                     !.body = CleanForms(@)]
    [] it.do \in {"letScope", "letVars"} ->
         [it EXCEPT !.names = CleanAll(@), !.body = CleanForms(@)]
    [] OTHER -> it

CleanItems(s) == [i \in 1..Len(s) |-> CleanItem(s[i])]

CleanDefinition(d) == [bnd |-> d.bnd, x |-> CleanValue(d.x)]
CleanDefinitions(s) == [i \in 1..Len(s) |-> CleanDefinition(s[i])]

cleanTodo == CleanItems(todo)

cleanCtx == [scope |-> ctx.scope, defns |-> CleanDefinitions(ctx.defns),
             exprs |-> CleanAll(ctx.exprs)]

Hygiene == INSTANCE HygienicParser WITH todo <- cleanTodo, ctx <- cleanCtx

(* The parser does what one does that never marks anything and whose "or"  *)
(* cannot capture: wherever the names of let, if, or and tmp are bound,    *)
(* step by step, with the same nodes, errors, scopes and variables.        *)
ImplementsHygienic == Hygiene!HygienicSpec

===============================================================================
