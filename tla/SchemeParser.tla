------------------------------ MODULE SchemeParser ----------------------------
(***************************************************************************)
(* SchemeParser (parser/SchemeParser.{hpp,cpp}) with the macro "or", marks *)
(* and the wrapping of syntax (parser/Syntax.{hpp,cpp}).                   *)
(*                                                                         *)
(* The parser is a set of functions that call each other.  "todo" is what  *)
(* they still have to do, the next thing first: an expression to compile,  *)
(* a round of a loop, a scope to pop, a node of the AST to make.  The AST  *)
(* is the sequence "out" of its nodes, each behind its parts.              *)
(*                                                                         *)
(* The symbol table is used through what it implements, a LexicalEnv.  A   *)
(* symbol is its name and the stamps of the marks it was wrapped in: the   *)
(* table has one symbol for these (Interned).  Scopes are made together    *)
(* with frames, so both have the same numbers; variables are numbered too. *)
(* Coordinates are left out.                                               *)
(*                                                                         *)
(* A definition marked "Faulty" is not part of the model: it is what a     *)
(* plausible slip would make of the one behind it.                         *)
(***************************************************************************)
EXTENDS Integers, Sequences, FiniteSets

CONSTANTS
  Source,          \* the possible bodies
  Syntax           \* these and their parts: syntax without marks

VARIABLES
  source,          \* the body being compiled
  todo,            \* what is still to be done
  ctx,             \* the Context of the body being parsed
  out,             \* the nodes made
  errors,          \* the number of errors reported
  markStamp,       \* m_markStamp
  env, left,       \* the symbol table
  frames,          \* of every frame, its parent
  variables        \* of every variable, its frame

scopeVars == <<env, left>>
vars == <<source, todo, ctx, out, errors, markStamp, scopeVars, frames, variables>>

Env == INSTANCE LexicalEnv WITH Symbol <- {}, Scope <- Nat, Binding <- Int

-----------------------------------------------------------------------------
(* Bindings are numbers: a variable, or one of these.                      *)
MACRO_OR == -1             \* reserved words from here on
RES_BEGIN == -2
RES_DEFINE == -3
RES_SETBANG == -4
RES_IF == -5
RES_LAMBDA == -6
RES_LET == -7
RES_LETREC == -8           \* and all that compile to an error
m_unspec == -9             \* which no symbol is bound to

SystemScope == 1
LibraryScope == 2

SystemBindings ==
  [x \in {<<n, <<>>>> : n \in {"or", "begin", "define", "set!", "if", "lambda", "let",
                               "letrec", "+"}} |->
     CASE x[1] = "or" -> MACRO_OR       [] x[1] = "begin" -> RES_BEGIN
       [] x[1] = "define" -> RES_DEFINE [] x[1] = "set!" -> RES_SETBANG
       [] x[1] = "if" -> RES_IF         [] x[1] = "lambda" -> RES_LAMBDA
       [] x[1] = "let" -> RES_LET       [] x[1] = "letrec" -> RES_LETREC
       [] OTHER -> 1]                   \* a variable of the system frame

IsVariable(b) == b > 0

-----------------------------------------------------------------------------
(* Syntax.  A list of marks is a sequence, the outermost first; a mark is  *)
(* its stamp, the anti-mark is 0.  All marks have the scope of "or".       *)
AntiMark == 0

Symbol(n) == [k |-> "symbol", name |-> n, stamps |-> <<>>, mark |-> <<>>]
Value == [k |-> "value"]
Nil == [k |-> "nil"]
BindingOf(b) == [k |-> "binding", bnd |-> b]
Pair(a, d) == [k |-> "pair", car |-> a, cdr |-> d, mark |-> <<>>]

(* The list that recordDefine builds of m_bindBegin and expressions        *)
Begin(exprs) == [k |-> "begin", exprs |-> exprs]

ListTo(items, d) ==
  LET from[i \in 1..(Len(items) + 1)] ==
        IF i > Len(items) THEN d ELSE Pair(items[i], from[i + 1])
  IN  from[1]

List(items) == ListTo(items, Nil)

IsNil(x) == x.k = "nil"
IsPair(x) == x.k = "pair"
IsSymbol(x) == x.k = "symbol"

(* concat: a mark before an anti-mark cancel each other.  A mark that is   *)
(* left before nothing makes the code follow a null pointer.               *)
NullMark == <<-1>>

(* Faulty: nothing cancels.                                                *)
concatAll(first, second) == first \o second

concat(first, second) ==
  LET from[i \in 1..(Len(first) + 1)] ==
        IF i > Len(first) THEN second
        ELSE LET next == from[i + 1]
             IN  IF first[i] = AntiMark THEN <<AntiMark>> \o next
                 ELSE IF next = <<>> THEN NullMark
                 ELSE IF next[1] = AntiMark THEN Tail(next)
                 ELSE <<first[i]>> \o next
  IN  IF second = <<>> THEN first ELSE from[1]

(* The symbol a symbol becomes: its stamps and those of the marks.         *)
wrapSymbol(mark, stamps) ==
  LET from[i \in 1..(Len(mark) + 1)] ==
        IF i > Len(mark) THEN stamps
        ELSE IF mark[i] = AntiMark THEN from[i + 1]
        ELSE Append(from[i + 1], mark[i])
  IN  from[1]

(* Syntax::wrap                                                            *)
wrap(x, mark) ==
  IF mark = <<>> \/ ~(IsSymbol(x) \/ IsPair(x)) THEN x
  ELSE LET newMark == concat(mark, x.mark)
       IN  IF IsPair(x) THEN [x EXCEPT !.mark = newMark]
           ELSE [x EXCEPT !.mark = newMark, !.stamps = wrapSymbol(newMark, @)]

(* Accessors of pairs wrap what they return.  (Bound variables have TLC    *)
(* evaluate their arguments once.)                                         *)
car(p) == CHOOSE x \in {wrap(q.car, q.mark) : q \in {p}} : TRUE
cdr(p) == CHOOSE x \in {wrap(q.cdr, q.mark) : q \in {p}} : TRUE

(* What the reader makes has no marks and no bindings.                     *)
ASSUME SyntaxAssumption ==
  /\ Source \subseteq Syntax
  /\ Syntax \subseteq {Value, Nil} \cup [k : {"symbol"}, name : STRING, stamps : {<<>>}, mark : {<<>>}]
                              \cup [k : {"pair"}, car : Syntax, cdr : Syntax, mark : {<<>>}]

-----------------------------------------------------------------------------
(* lookupSyntaxSymbol: the binding of the marked symbol, or else that of   *)
(* its ancestors in the scopes of the macros that marked it                *)
lookupSyntaxSymbol(ss) ==
  LET seenBy(i) == Env!MeaningFrom(SystemScope,
                     <<ss.name, SubSeq(ss.stamps, 1, Len(ss.stamps) - i)>>)
      found == {i \in 1..Len(ss.stamps) : seenBy(i) # Env!NoBinding}
  IN  IF Env!Meaning(<<ss.name, ss.stamps>>) # Env!NoBinding
      THEN Env!Meaning(<<ss.name, ss.stamps>>)
      ELSE IF found = {} THEN Env!NoBinding
      ELSE seenBy(CHOOSE i \in found : \A j \in found : i <= j)

isBinding(x) ==
  CASE x.k = "symbol"  -> lookupSyntaxSymbol(x)
    [] x.k = "binding" -> x.bnd
    [] OTHER           -> Env!NoBinding

(* The form is a pair whose car has that binding.                          *)
Heads(x, b) == IsPair(x) /\ isBinding(car(x)) = b

(* needParams: n parameters and nothing else, or and a list.               *)
IsList(x) == IsNil(x) \/ IsPair(x)
OneAndRest(x) == IsPair(x) /\ IsList(cdr(x))
Two(x) == IsPair(x) /\ IsPair(cdr(x)) /\ IsNil(cdr(cdr(x)))
TwoAndRest(x) == IsPair(x) /\ IsPair(cdr(x)) /\ IsList(cdr(cdr(x)))

-----------------------------------------------------------------------------
(* MacroOr::expand                                                         *)
OrPattern(form) ==
  LET args == cdr(form)
  IN  IsList(args) /\ (IsPair(args) => IsList(cdr(args)))

OrExpansion(form) ==
  LET args == cdr(form)
      more == cdr(args)
  IN  IF IsNil(args) THEN Value
      ELSE IF IsNil(more) THEN car(args)
      ELSE List(<<Symbol("let"), List(<<List(<<Symbol("tmp"), car(args)>>)>>),
                  List(<<Symbol("if"), Symbol("tmp"), Symbol("tmp"),
                         ListTo(<<Symbol("or"), car(more)>>, cdr(more))>>)>>)

(* expandMacro: the macro sees its input marked with the anti-mark; its    *)
(* output is marked with a new stamp.                                      *)
Wrapped(form) == wrap(form, <<AntiMark>>)
(* Faulty: the macro's input is not marked.                                *)
ExpandedUnmarked(form) == wrap(OrExpansion(form), <<markStamp + 1>>)

Expanded(form) == wrap(OrExpansion(Wrapped(form)), <<markStamp + 1>>)

-----------------------------------------------------------------------------
(* What there is to do.  "in" is the frame of the context.                 *)
Expr(x, in) == [do |-> "expr", x |-> x, in |-> in]
Args(x, op, n, in) == [do |-> "args", x |-> x, op |-> op, n |-> n, in |-> in]
Make(op, of, in) == [do |-> "make", op |-> op, of |-> of, in |-> in]
Pop(scope) == [do |-> "pop", scope |-> scope]
Params(x, body, scope) ==
  [do |-> "params", x |-> x, body |-> body, vars |-> <<>>, first |-> TRUE, scope |-> scope]
Inits(x, body, in) ==
  [do |-> "inits", x |-> x, body |-> body, names |-> <<>>, values |-> <<>>, in |-> in]
LetScope(it) ==
  [do |-> "letScope", body |-> it.body, names |-> it.names, n |-> Len(it.values), in |-> it.in]
LetVars(it, scope) ==
  [do |-> "letVars", body |-> it.body, names |-> it.names, n |-> it.n, vars |-> <<>>,
   scope |-> scope]
Body(x, op, of, in) == [do |-> "body", x |-> x, op |-> op, of |-> of, in |-> in]
Forms(x) == [do |-> "forms", x |-> x]
Form(x) == [do |-> "form", x |-> x]
EndBody == [do |-> "endBody"]

item == Head(todo)
Current(d) == todo # <<>> /\ item.do = d

Do(items) == todo' = items \o Tail(todo)

(* A node of the AST is made.                                              *)
Node(op, of, in) == out' = Append(out, [op |-> op, of |-> of, in |-> in])
Makes(op, of) == Node(op, of, item.in) /\ Do(<<>>)

Report == errors' = errors + 1
ReportIf(bad) == errors' = IF bad THEN errors + 1 ELSE errors

(* Faulty: there is nothing in the place of the expression.                *)
FailsWithoutNode == Report /\ Do(<<>>) /\ UNCHANGED out

(* An error makes the expression an unspecified value.                     *)
Fails == Report /\ Makes("unspecified", <<>>)

tableVars == <<scopeVars, frames, variables>>

NewContext(scope) == [scope |-> scope, defns |-> <<>>, exprs |-> <<>>]

(* The constructor makes the system scope, compileLibraryBody another one. *)
Init ==
  /\ source \in Source
  /\ todo = <<Forms(source), EndBody, Make("module", <<>>, SystemScope)>>
  /\ ctx = NewContext(LibraryScope)
  /\ out = <<>>
  /\ errors = 0
  /\ markStamp = 0
  /\ env = <<[scope |-> SystemScope, vars |-> SystemBindings],
             [scope |-> LibraryScope, vars |-> [x \in {} |-> Env!NoBinding]]>>
  /\ left = {}
  /\ frames = <<0, SystemScope>>
  /\ variables = <<SystemScope>>

-----------------------------------------------------------------------------
(* Scopes, frames and variables                                            *)
nextScope == Len(frames) + 1

(* Faulty: the frame is its own parent.                                    *)
NewScopeAroundItself(parentFrame) ==
  /\ Env!Enter(nextScope)
  /\ frames' = Append(frames, nextScope)

NewScope(parentFrame) ==
  /\ Env!Enter(nextScope)
  /\ frames' = Append(frames, parentFrame)

(* ~ScopePopper, ON_BLOCK_EXIT_OBJ ( popThisScope )                        *)
PopScope ==
  /\ Current("pop")
  /\ Env!Leave
  /\ Do(<<>>)
  /\ UNCHANGED <<source, ctx, out, errors, markStamp, frames, variables>>

MakeNode ==
  /\ Current("make")
  /\ Makes(item.op, item.of)
  /\ UNCHANGED <<source, ctx, errors, markStamp, tableVars>>

nextVariable == Len(variables) + 1

IsBound(ss, scope) == Env!MeaningOnlyIn(scope, <<ss.name, ss.stamps>>) # Env!NoBinding

(* bindSyntaxSymbol and newVariable, for a name that is not bound in the   *)
(* scope; scope is the innermost one (ScopesMatchPops).                    *)
BindVariable(ss, scope) ==
  /\ Env!Define(<<ss.name, ss.stamps>>, nextVariable)
  /\ variables' = Append(variables, scope)

(* A parameter of lambda, or a variable of let.  A name that was there     *)
(* before makes an anonymous variable.                                     *)
DefineParam(x, scope) ==
  IF ~IsSymbol(x) THEN Report /\ UNCHANGED <<scopeVars, variables>>
  ELSE IF IsBound(x, scope)
  THEN /\ Report
       /\ variables' = Append(variables, scope)
       /\ UNCHANGED scopeVars
  ELSE BindVariable(x, scope) /\ UNCHANGED errors

AddedParam(x) == IF IsSymbol(x) THEN <<nextVariable>> ELSE <<>>

-----------------------------------------------------------------------------
(* compileBody, first half: parseBody and processBodyForm.  A nested begin *)
(* is spliced into the body.                                               *)
ParseBody ==
  /\ Current("forms")
  /\ Do(IF IsPair(item.x) THEN <<Form(car(item.x)), Forms(cdr(item.x))>> ELSE <<>>)
  /\ ReportIf(~IsList(item.x))
  /\ UNCHANGED <<source, ctx, out, markStamp, tableVars>>

FormEmpty ==
  /\ Current("form")
  /\ IsNil(item.x)
  /\ Report
  /\ Do(<<>>)
  /\ UNCHANGED <<source, ctx, out, markStamp, tableVars>>

(* A use of the macro as a form of a body, with what it expands to         *)
FormUse(expansion) ==
  /\ Current("form")
  /\ Heads(item.x, MACRO_OR)
  /\ IF OrPattern(item.x)
     THEN /\ Do(<<Form(expansion)>>)
          /\ markStamp' = markStamp + 1
          /\ UNCHANGED errors
     ELSE Report /\ Do(<<>>) /\ UNCHANGED markStamp
  /\ UNCHANGED <<source, ctx, out, tableVars>>

FormMacro == FormUse(Expanded(item.x))

FormBegin ==
  /\ Current("form")
  /\ Heads(item.x, RES_BEGIN)
  /\ Do(<<Forms(cdr(item.x))>>)
  /\ UNCHANGED <<source, ctx, out, errors, markStamp, tableVars>>

(* recordDefine.  At the top level the expressions before a definition     *)
(* become the value of an anonymous one.                                   *)
topLevel == ctx.scope = LibraryScope

Anonymous(exprs) ==
  [bnd |-> Env!NoBinding, x |-> Begin(Append(exprs, BindingOf(m_unspec)))]

FormDefine ==
  /\ Current("form")
  /\ Heads(item.x, RES_DEFINE)
  /\ Do(<<>>)
  /\ LET form == cdr(item.x)
         target == car(form)
         rest == cdr(form)
         value == IF IsNil(rest) THEN BindingOf(m_unspec) ELSE car(rest)
         grouped == IF ctx.exprs = <<>> THEN ctx.defns
                    ELSE Append(ctx.defns, Anonymous(ctx.exprs))
         Defines(bnd) == ctx' = [ctx EXCEPT !.exprs = <<>>,
                                            !.defns = Append(grouped, [bnd |-> bnd, x |-> value])]
     IN  \/ /\ ~topLevel /\ ctx.exprs # <<>>
            /\ Report
            /\ UNCHANGED <<ctx, scopeVars, variables>>
         \/ /\ topLevel \/ ctx.exprs = <<>>
            /\ ~(OneAndRest(form) /\ IsSymbol(target))
            /\ Report
            /\ ctx' = [ctx EXCEPT !.exprs = <<>>, !.defns = grouped]
            /\ UNCHANGED <<scopeVars, variables>>
         \/ /\ topLevel \/ ctx.exprs = <<>>
            /\ OneAndRest(form) /\ IsSymbol(target)
            /\ LET tooLong == IF IsPair(rest) /\ ~IsNil(cdr(rest)) THEN 1 ELSE 0
               IN  IF IsBound(target, ctx.scope)
                   THEN /\ Defines(Env!NoBinding)
                        /\ errors' = errors + 1 + tooLong
                        /\ UNCHANGED <<scopeVars, variables>>
                   ELSE /\ Defines(nextVariable)
                        /\ BindVariable(target, ctx.scope)
                        /\ errors' = errors + tooLong
  /\ UNCHANGED <<source, out, markStamp, frames>>

FormExpression ==
  /\ Current("form")
  /\ ~IsNil(item.x)
  /\ \A b \in {MACRO_OR, RES_BEGIN, RES_DEFINE} : ~Heads(item.x, b)
  /\ ctx' = [ctx EXCEPT !.exprs = Append(@, item.x)]
  /\ Do(<<>>)
  /\ UNCHANGED <<source, out, errors, markStamp, tableVars>>

(* compileBody, second half: all names of the body are known now.          *)
CompileBody ==
  /\ Current("endBody")
  /\ LET d == ctx.defns
         defns == [i \in 1..(2 * Len(d)) |->
                     IF i % 2 = 1 THEN Expr(d[(i + 1) \div 2].x, ctx.scope)
                     ELSE Make("define", <<d[i \div 2].bnd>>, ctx.scope)]
         exprs == [i \in 1..Len(ctx.exprs) |-> Expr(ctx.exprs[i], ctx.scope)]
     IN  Do(defns \o exprs \o <<Make("body", <<Len(d), Len(exprs)>>, ctx.scope)>>)
  /\ UNCHANGED <<source, ctx, out, errors, markStamp, tableVars>>

-----------------------------------------------------------------------------
(* compileExpression                                                       *)
CompileValue ==
  /\ Current("expr")
  /\ item.x.k = "value"
  /\ Makes("datum", <<>>)
  /\ UNCHANGED <<source, ctx, errors, markStamp, tableVars>>

(* ... with compileBinding                                                 *)
CompileVariable ==
  /\ Current("expr")
  /\ item.x.k \in {"symbol", "binding"}
  /\ LET b == isBinding(item.x)
     IN  /\ IF IsVariable(b) THEN Makes("ref", <<b>>) ELSE Makes("unspecified", <<>>)
         /\ ReportIf(~IsVariable(b) /\ b # m_unspec)
  /\ UNCHANGED <<source, ctx, markStamp, tableVars>>

(* A use of the macro as an expression                                     *)
ExpressionUse(expansion) ==
  /\ Current("expr")
  /\ Heads(item.x, MACRO_OR)
  /\ IF OrPattern(item.x)
     THEN /\ Do(<<Expr(expansion, item.in)>>)
          /\ markStamp' = markStamp + 1
          /\ UNCHANGED <<out, errors>>
     ELSE Fails /\ UNCHANGED markStamp
  /\ UNCHANGED <<source, ctx, tableVars>>

CompileMacro == ExpressionUse(Expanded(item.x))

CompileCall ==
  /\ Current("expr")
  /\ IsPair(item.x)
  /\ LET b == isBinding(car(item.x)) IN b = Env!NoBinding \/ IsVariable(b)
  /\ Do(<<Expr(car(item.x), item.in), Args(cdr(item.x), "apply", 0, item.in)>>)
  /\ UNCHANGED <<source, ctx, out, errors, markStamp, tableVars>>

CompileBegin ==
  /\ Current("expr")
  /\ \/ /\ Heads(item.x, RES_BEGIN)
        /\ Do(<<Args(cdr(item.x), "begin", 0, item.in)>>)
     \/ /\ item.x.k = "begin"
        /\ Do([i \in 1..Len(item.x.exprs) |-> Expr(item.x.exprs[i], item.in)]
              \o <<Make("begin", <<Len(item.x.exprs)>>, item.in)>>)
  /\ UNCHANGED <<source, ctx, out, errors, markStamp, tableVars>>

(* Faulty: a dot ends the list in silence.                                 *)
CompileArgsToDot ==
  /\ Current("args")
  /\ IF IsPair(item.x)
     THEN /\ Do(<<Expr(car(item.x), item.in),
                  Args(cdr(item.x), item.op, item.n + 1, item.in)>>)
          /\ UNCHANGED <<out, errors>>
     ELSE Makes(item.op, <<item.n>>) /\ UNCHANGED errors
  /\ UNCHANGED <<source, ctx, markStamp, tableVars>>

(* Faulty: only the end of the list ends the loop.                         *)
CompileArgsToNil ==
  /\ Current("args")
  /\ IF IsPair(item.x)
     THEN /\ Do(<<Expr(car(item.x), item.in),
                  Args(cdr(item.x), item.op, item.n + 1, item.in)>>)
          /\ UNCHANGED <<out, errors>>
     ELSE IF IsNil(item.x) THEN Makes(item.op, <<item.n>>) /\ UNCHANGED errors
     ELSE UNCHANGED <<todo, out, errors>>
  /\ UNCHANGED <<source, ctx, markStamp, tableVars>>

(* The loops of compileCall and compileBegin; they go on to the end of the *)
(* list or to the error of needPair.                                       *)
CompileArgs ==
  /\ Current("args")
  /\ IF IsPair(item.x)
     THEN /\ Do(<<Expr(car(item.x), item.in),
                  Args(cdr(item.x), item.op, item.n + 1, item.in)>>)
          /\ UNCHANGED <<out, errors>>
     ELSE Makes(item.op, <<item.n>>) /\ ReportIf(~IsNil(item.x))
  /\ UNCHANGED <<source, ctx, markStamp, tableVars>>

CompileIf ==
  /\ Current("expr")
  /\ Heads(item.x, RES_IF)
  /\ LET form == cdr(item.x)
         rest == cdr(cdr(form))
         parts == <<car(form), car(cdr(form))>> \o
                  IF IsPair(rest) THEN <<car(rest)>> ELSE <<>>
     IN  IF TwoAndRest(form)
         THEN /\ Do([i \in 1..Len(parts) |-> Expr(parts[i], item.in)]
                     \o <<Make("if", <<Len(parts)>>, item.in)>>)
              /\ ReportIf(IsPair(rest) /\ ~IsNil(cdr(rest)))
              /\ UNCHANGED out
         ELSE Fails
  /\ UNCHANGED <<source, ctx, markStamp, tableVars>>

(* The target is looked up before the value is compiled.                   *)
CompileSetBang ==
  /\ Current("expr")
  /\ Heads(item.x, RES_SETBANG)
  /\ LET form == cdr(item.x)
         b == isBinding(car(form))
     IN  IF Two(form) /\ IsVariable(b)
         THEN /\ Do(<<Expr(car(cdr(form)), item.in), Make("set", <<b>>, item.in)>>)
              /\ UNCHANGED <<out, errors>>
         ELSE Fails
  /\ UNCHANGED <<source, ctx, markStamp, tableVars>>

(* The other reserved words, and ()                                        *)
CompileInvalid ==
  /\ Current("expr")
  /\ \/ IsNil(item.x)
     \/ Heads(item.x, RES_DEFINE)
     \/ Heads(item.x, RES_LETREC)
  /\ Fails
  /\ UNCHANGED <<source, ctx, markStamp, tableVars>>

-----------------------------------------------------------------------------
(* compileLambda                                                           *)
CompileLambda ==
  /\ Current("expr")
  /\ Heads(item.x, RES_LAMBDA)
  /\ LET form == cdr(item.x)
     IN  IF OneAndRest(form)
         THEN /\ NewScope(item.in)
              /\ Do(<<Params(car(form), cdr(form), nextScope)>>)
              /\ UNCHANGED <<out, errors>>
         ELSE Fails /\ UNCHANGED <<scopeVars, frames>>
  /\ UNCHANGED <<source, ctx, markStamp, variables>>

LambdaParam ==
  /\ Current("params")
  /\ IsPair(item.x)
  /\ DefineParam(car(item.x), item.scope)
  /\ Do(<<[item EXCEPT !.x = cdr(@), !.first = FALSE,
                       !.vars = @ \o AddedParam(car(item.x))]>>)
  /\ UNCHANGED <<source, ctx, out, markStamp, frames>>

(* One parameter, alone or behind a dot, gets the other arguments.         *)
LambdaListParam ==
  /\ Current("params")
  /\ IsSymbol(item.x)
  /\ DefineParam(item.x, item.scope)
  /\ Do(<<Body(item.body, "lambda list", item.vars \o AddedParam(item.x), item.scope)>>)
  /\ UNCHANGED <<source, ctx, out, markStamp, frames>>

(* Faulty: the scope stays on the way out with an error.                   *)
LambdaParamsEndInScope ==
  /\ Current("params")
  /\ ~IsPair(item.x) /\ ~IsSymbol(item.x)
  /\ Do(IF item.first
        THEN <<Make("unspecified", <<>>, frames[item.scope])>>
        ELSE <<Body(item.body, "lambda", item.vars, item.scope)>>)
  /\ ReportIf(item.first \/ ~IsNil(item.x))
  /\ UNCHANGED <<source, ctx, out, markStamp, tableVars>>

LambdaParamsEnd ==
  /\ Current("params")
  /\ ~IsPair(item.x) /\ ~IsSymbol(item.x)
  /\ Do(IF item.first
        THEN <<Make("unspecified", <<>>, frames[item.scope]), Pop(item.scope)>>
        ELSE <<Body(item.body, "lambda", item.vars, item.scope)>>)
  /\ ReportIf(item.first \/ ~IsNil(item.x))
  /\ UNCHANGED <<source, ctx, out, markStamp, tableVars>>

(* Faulty: the frame of the body is not inside that of the parameters.     *)
CompileLambdaBodyBesideParams ==
  /\ Current("body")
  /\ NewScope(frames[item.in])
  /\ ctx' = NewContext(nextScope)
  /\ Do((IF IsNil(item.x) THEN <<Make("body", <<0, 0>>, nextScope)>>
                          ELSE <<Forms(item.x), EndBody>>)
        \o <<Make(item.op, item.of, item.in), Pop(nextScope), Pop(item.in)>>)
  /\ ReportIf(IsNil(item.x))
  /\ UNCHANGED <<source, out, markStamp, variables>>

(* The body of lambda and let gets a scope of its own.                     *)
CompileLambdaBody ==
  /\ Current("body")
  /\ NewScope(item.in)
  /\ ctx' = NewContext(nextScope)
  /\ Do((IF IsNil(item.x) THEN <<Make("body", <<0, 0>>, nextScope)>>
                          ELSE <<Forms(item.x), EndBody>>)
        \o <<Make(item.op, item.of, item.in), Pop(nextScope), Pop(item.in)>>)
  /\ ReportIf(IsNil(item.x))
  /\ UNCHANGED <<source, out, markStamp, variables>>

-----------------------------------------------------------------------------
(* compileLet and compileBasicLet.  The values are compiled before there   *)
(* is a scope for the variables.                                           *)
CompileLet ==
  /\ Current("expr")
  /\ Heads(item.x, RES_LET)
  /\ LET form == cdr(item.x)
     IN  IF OneAndRest(form) /\ IsList(car(form))
         THEN /\ Do(<<Inits(car(form), cdr(form), item.in)>>)
              /\ UNCHANGED <<out, errors>>
         ELSE Fails
  /\ UNCHANGED <<source, ctx, markStamp, tableVars>>

LetInit ==
  /\ Current("inits")
  /\ IsPair(item.x)
  /\ LET init == car(item.x)
         rest == cdr(item.x)
     IN  /\ Do(<<IF Two(init)
                 THEN [item EXCEPT !.x = rest, !.names = Append(@, car(init)),
                                   !.values = Append(@, car(cdr(init)))]
                 ELSE [item EXCEPT !.x = rest]>>)
         /\ errors' = errors + (IF Two(init) THEN 0 ELSE 1) + (IF IsList(rest) THEN 0 ELSE 1)
  /\ UNCHANGED <<source, ctx, out, markStamp, tableVars>>

LetValues ==
  /\ Current("inits")
  /\ ~IsPair(item.x)
  /\ Do([i \in 1..Len(item.values) |-> Expr(item.values[i], item.in)] \o <<LetScope(item)>>)
  /\ UNCHANGED <<source, ctx, out, errors, markStamp, tableVars>>

EnterLet ==
  /\ Current("letScope")
  /\ NewScope(item.in)
  /\ Do(<<LetVars(item, nextScope)>>)
  /\ UNCHANGED <<source, ctx, out, errors, markStamp, variables>>

LetVar ==
  /\ Current("letVars")
  /\ item.names # <<>>
  /\ DefineParam(Head(item.names), item.scope)
  /\ Do(<<[item EXCEPT !.names = Tail(@), !.vars = @ \o AddedParam(Head(item.names))]>>)
  /\ UNCHANGED <<source, ctx, out, markStamp, frames>>

LetBody ==
  /\ Current("letVars")
  /\ item.names = <<>>
  /\ Do(<<Body(item.body, "let", item.vars \o <<item.n>>, item.scope)>>)
  /\ UNCHANGED <<source, ctx, out, errors, markStamp, tableVars>>

-----------------------------------------------------------------------------
(* The functions and loops that expand no macro                            *)
CoreNext ==
  \/ PopScope \/ MakeNode
  \/ ParseBody \/ FormEmpty \/ FormBegin \/ FormDefine \/ FormExpression
  \/ CompileBody
  \/ CompileValue \/ CompileVariable \/ CompileCall \/ CompileBegin
  \/ CompileArgs \/ CompileIf \/ CompileSetBang \/ CompileInvalid
  \/ CompileLambda \/ LambdaParam \/ LambdaListParam \/ LambdaParamsEnd
  \/ CompileLambdaBody
  \/ CompileLet \/ LetInit \/ LetValues \/ EnterLet \/ LetVar \/ LetBody

Next == FormMacro \/ CompileMacro \/ CoreNext

Spec == Init /\ [][Next]_vars

(* The parser is never interrupted.                                        *)
FairSpec == Spec /\ WF_vars(Next)

-----------------------------------------------------------------------------
Frame == 1..Len(frames)
Variable == 1..Len(variables)
Op == {"datum", "unspecified", "ref", "set", "apply", "begin", "if", "lambda",
       "lambda list", "let", "define", "body", "module"}

(* Of syntax, only what is at the head of the list of things to do is      *)
(* looked at; its type is in the guards.                                   *)
TypeOK ==
  /\ errors \in Nat
  /\ markStamp \in Nat
  /\ \A f \in Frame : frames[f] \in 0..(f - 1)
  /\ \A v \in Variable : variables[v] \in Frame
  /\ \A i \in 1..Len(env) :
       /\ env[i].scope \in Frame
       /\ \A x \in DOMAIN env[i].vars : env[i].vars[x] \in Variable \cup (m_unspec..-1)
  /\ left \subseteq Frame
  /\ \A i \in 1..Len(out) :
       /\ out[i].op \in Op
       /\ out[i].in \in Frame
       /\ out[i].op \in {"ref", "set"} => out[i].of[1] \in Variable
  /\ ctx.scope \in Frame

(* The scope that an item of the list will pop.                            *)
PopsScope(it) ==
  CASE it.do = "pop" -> <<it.scope>>
    [] it.do \in {"params", "letVars"} -> <<it.scope>>
    [] it.do = "body" -> <<it.in>>
    [] OTHER -> <<>>

(* The open scopes are those of the system and of the library and, each    *)
(* once and in the order of nesting, those that are still to be popped:    *)
(* popThisScope's assertion holds on every way out of lambda and let, the  *)
(* ones that report an error included.  Names are bound in the innermost   *)
(* one only, though bind would do it in any: a binding in another one      *)
(* would break the order of its symbol's chain.                            *)
ScopesMatchPops ==
  LET open[i \in 1..(Len(todo) + 1)] ==
        IF i > Len(todo) THEN 2 ELSE open[i + 1] + Len(PopsScope(todo[i]))
  IN  /\ \A d \in {"params", "letVars"} : Current(d) => item.scope = env[Len(env)].scope
      /\ \A d \in {"forms", "form", "endBody"} : Current(d) => ctx.scope = env[Len(env)].scope
      /\ Len(env) = open[1]
      /\ env[1].scope = SystemScope
      /\ env[2].scope = LibraryScope
      /\ \A i \in 1..Len(todo) :
           \A j \in 1..Len(PopsScope(todo[i])) : env[open[i]].scope = PopsScope(todo[i])[j]

(* The symbols that are looked up or bound next                            *)
LookedAt ==
  LET heads == IF Current("expr") \/ Current("form") \/ Current("params")
               THEN {IF IsPair(item.x) THEN car(item.x) ELSE item.x}
               ELSE IF Current("letVars") /\ item.names # <<>> THEN {Head(item.names)}
               ELSE {}
  IN  {x \in heads : IsSymbol(x)}

(* However macro uses nest, mark and anti-mark have cancelled when a       *)
(* symbol is used: it is one of the program's, as it was read, or has the  *)
(* one mark of the expansion that made it, in its syntax and in the table. *)
MarksCancel ==
  \A x \in LookedAt :
    /\ x.stamps = x.mark
    /\ x.mark # <<>> => \E m \in 1..markStamp : x.mark = <<m>>

(* A frame and those around it                                             *)
Enclosing(f) ==
  LET around[g \in 0..Len(frames)] == IF g = 0 THEN {} ELSE {g} \cup around[frames[g]]
  IN  around[f]

(* Whatever macros have done to its name, a variable is one of the frame   *)
(* it is used in or of one around it: the chain of static links that the   *)
(* generated code follows reaches it.                                      *)
VariablesReachable ==
  \A i \in 1..Len(out) :
    out[i].op \in {"ref", "set"} => variables[out[i].of[1]] \in Enclosing(out[i].in)

(* How many of the nodes before it a node has as its parts                 *)
Takes(node) ==
  CASE node.op \in {"datum", "unspecified", "ref"} -> 0
    [] node.op \in {"set", "define", "lambda", "lambda list", "module"} -> 1
    [] node.op = "apply" -> node.of[1] + 1
    [] node.op \in {"begin", "if"} -> node.of[1]
    [] node.op = "let" -> node.of[Len(node.of)] + 1
    [] node.op = "body" -> node.of[1] + node.of[2]

(* The code generator is run after errors too.  Whatever was wrong, each   *)
(* part that a node has was made, once, and all are parts of one module.   *)
WholeTree ==
  LET apart[i \in 0..Len(out)] ==
        IF i = 0 THEN 0 ELSE apart[i - 1] - Takes(out[i]) + 1
  IN  todo = <<>> => /\ \A i \in 1..Len(out) : Takes(out[i]) <= apart[i - 1]
                     /\ apart[Len(out)] = 1
                     /\ out[Len(out)].op = "module"

(* Compilation, with its macro expansions, ends.                           *)
Terminates == <>(todo = <<>>)

=============================================================================
