------------------------ MODULE SchemeParserInvariants -------------------------
(***************************************************************************)
(* What SchemeParserProofs says about SchemeParser: the inductive          *)
(* invariants of what is still to be done (IInv), of the tree (TreeInv)    *)
(* and of the marks (MarksInv), the parts they are made of, and what their *)
(* proofs speak of.                                                        *)
(***************************************************************************)
EXTENDS SchemeParserRefinement

(* Sequences whose elements need no common type                            *)
IsSeq(s) == \E S : s \in Seq(S)

(* Syntax, whatever its marks: what the reader made, and what the parser   *)
(* and the macro put in, of bindings only that of no value                 *)
IsBeginIn(x, S) ==
  /\ x \in [k : {"begin"}, exprs : {x.exprs}]
  /\ IsSeq(x.exprs)
  /\ \A i \in 1..Len(x.exprs) : x.exprs[i] \in S

ClosedSyntax(S) ==
  \A x \in S :
    \/ x \in [k : {"pair"}, car : S, cdr : S, mark : {x.mark}]
    \/ x \in [k : {"symbol"}, name : {x.name}, stamps : {x.stamps}, mark : {x.mark}]
    \/ IsBeginIn(x, S)
    \/ x \in {Value, Nil, BindingOf(m_unspec)}

IsSyntax(x) == \E S : x \in S /\ ClosedSyntax(S)

(* A list of syntax is syntax: its recursive definition has a solution.    *)
ListFrom(items, d, f) ==
  f = [i \in 1..(Len(items) + 1) |->
         IF i > Len(items) THEN d ELSE Pair(items[i], f[i + 1])]

(* Every set with frame f that has the parents of its frames has a.        *)
Reaches(fs, f, a) ==
  \A S : f \in S /\ (\A h \in 1..Len(fs) : h \in S => fs[h] \in S) => a \in S

FramesOK(fs) ==
  /\ fs \in Seq(Nat)
  /\ \A f \in 1..Len(fs) : fs[f] \in 0..(f - 1)

VariablesOK(vs, fs) ==
  /\ vs \in Seq(Nat)
  /\ \A v \in 1..Len(vs) : vs[v] \in 1..Len(fs)

(* The open scopes are nested as their frames are, and bind variables of   *)
(* their own frame.                                                        *)
EnvOK(ev, fs, vs) ==
  /\ IsSeq(ev)
  /\ Len(ev) >= 2
  /\ ev[1].scope = SystemScope
  /\ ev[2].scope = LibraryScope
  /\ \A i \in 1..Len(ev) :
       /\ ev[i] \in [scope : 1..Len(fs), vars : {ev[i].vars}]
       /\ \A x \in DOMAIN ev[i].vars :
            \/ ev[i].vars[x] \in m_unspec..-1
            \/ ev[i].vars[x] \in 1..Len(vs) /\ vs[ev[i].vars[x]] = ev[i].scope
  /\ \A i \in 2..Len(ev) : fs[ev[i].scope] = ev[i - 1].scope

IsSyntaxSequence(s) == IsSeq(s) /\ \A i \in 1..Len(s) : IsSyntax(s[i])

CtxOK(c) ==
  /\ c \in [scope : {c.scope}, defns : {c.defns}, exprs : {c.exprs}]
  /\ IsSyntaxSequence(c.exprs)
  /\ IsSeq(c.defns)
  /\ \A i \in 1..Len(c.defns) : IsSyntax(c.defns[i].x)

(* A node, and a node to be made, of a variable that its frame reaches     *)
IsNode(node, fs, vs) ==
  /\ node.op \in Op
  /\ node.in \in 1..Len(fs)
  /\ node.op \in {"ref", "set"} =>
       node.of[1] \in 1..Len(vs) /\ Reaches(fs, node.in, vs[node.of[1]])
  /\ Takes(node) \in Nat

IsItem(it, fs, vs) ==
  \/ it.do \in {"expr", "forms", "form"} /\ IsSyntax(it.x)
  \/ it.do \in {"pop", "endBody"}
  \/ it.do = "make" /\ IsNode(it, fs, vs)
  \/ /\ it.do = "args"
     /\ IsSyntax(it.x) /\ it.op \in {"apply", "begin"} /\ it.n \in Nat
  \/ /\ it \in [do : {"params"}, x : {it.x}, body : {it.body}, vars : {it.vars},
                first : {it.first}, scope : {it.scope}]
     /\ IsSyntax(it.x) /\ IsSyntax(it.body)
  \/ /\ it \in [do : {"inits"}, x : {it.x}, body : {it.body}, names : {it.names},
                values : {it.values}, in : {it.in}]
     /\ IsSyntax(it.x) /\ IsSyntax(it.body)
     /\ IsSyntaxSequence(it.names) /\ IsSyntaxSequence(it.values)
  \/ /\ it.do = "letScope"
     /\ IsSyntax(it.body) /\ IsSyntaxSequence(it.names) /\ it.n \in Nat
  \/ /\ it \in [do : {"letVars"}, body : {it.body}, names : {it.names}, n : {it.n},
                vars : {it.vars}, scope : {it.scope}]
     /\ IsSyntax(it.body) /\ IsSyntaxSequence(it.names) /\ it.n \in Nat
     /\ IsSeq(it.vars)
  \/ /\ it.do = "body"
     /\ IsSyntax(it.x)
     /\ it.op \in {"lambda", "lambda list", "let"} /\ Takes(it) \in Nat \ {0}

(* The items of a body whose names are being defined come first: there is  *)
(* one context at a time.                                                  *)
OfBody == {"forms", "form", "endBody"}

BodyFirst(td) ==
  \A i \in 1..Len(td) : td[i].do \in OfBody =>
    \A j \in 1..(i - 1) : td[j].do \in {"forms", "form"}

(* An item that is to be done in scope s                                   *)
Fits(it, s, c) ==
  /\ it.do \in {"expr", "args", "inits", "letScope", "body"} => it.in = s
  /\ it.do \in {"pop", "params", "letVars"} => it.scope = s
  /\ it.do \in OfBody => c = s

(* How many scopes are open, at each item and at the end                   *)
Closes(it) == Len(PopsScope(it))

Schedule(td, d, ev, c) ==
  /\ d \in [1..(Len(td) + 1) -> Nat]
  /\ d[1] = Len(ev)
  /\ d[Len(td) + 1] = 2
  /\ \A i \in 1..Len(td) :
       d[i] = d[i + 1] + Closes(td[i]) /\ Fits(td[i], ev[d[i]].scope, c)
  /\ \A i, j \in 1..(Len(td) + 1) : i <= j => d[j] <= d[i]

Schedulable(td, ev, c) == \E d : Schedule(td, d, ev, c)

(* The same for items that come before others: n scopes are open then.     *)
ScheduleBefore(items, e, ev, c, n) ==
  /\ e \in [1..(Len(items) + 1) -> Nat]
  /\ e[1] = Len(ev)
  /\ e[Len(items) + 1] = n
  /\ \A i \in 1..Len(items) :
       e[i] = e[i + 1] + Closes(items[i]) /\ Fits(items[i], ev[e[i]].scope, c)
  /\ \A i, j \in 1..(Len(items) + 1) : i <= j => e[j] <= e[i]

TodoOK(td, fs, vs) ==
  /\ IsSeq(td)
  /\ \A i \in 1..Len(td) : IsItem(td[i], fs, vs)
  /\ BodyFirst(td)

OutOK(nodes, fs, vs) ==
  /\ IsSeq(nodes)
  /\ \A i \in 1..Len(nodes) : IsNode(nodes[i], fs, vs)

IInv ==
  /\ errors \in Nat
  /\ markStamp \in Nat
  /\ source \in Source
  /\ left \subseteq 1..Len(frames)
  /\ FramesOK(frames)
  /\ VariablesOK(variables, frames)
  /\ EnvOK(env, frames, variables)
  /\ CtxOK(ctx) /\ ctx.scope \in 1..Len(frames)
  /\ TodoOK(todo, frames, variables)
  /\ OutOK(out, frames, variables)
  /\ Schedulable(todo, env, ctx.scope)

(* New frames and variables change nothing of the old ones.                *)
Extends(s, t) == Len(s) <= Len(t) /\ \A i \in 1..Len(s) : t[i] = s[i]

(* A step in the innermost scope: it leaves the open scopes as they are.   *)
InnerScope == env[Len(env)].scope

(* Items that can take the place of item it, to be done in scope s         *)
ItemsFit(items, it, s, c, fs, vs) ==
  /\ IsSeq(items)
  /\ \A i \in 1..Len(items) : IsItem(items[i], fs, vs) /\ Fits(items[i], s, c)
  /\ \A i \in 1..(Len(items) - 1) : Closes(items[i]) = 0
  /\ Closes(it) = IF Len(items) = 0 THEN 0 ELSE Closes(items[Len(items)])
  /\ \/ it.do \notin {"forms", "form"} /\ BodyFirst(items)
     \/ \A i \in 1..Len(items) : items[i].do \in {"forms", "form"}

(* The kinds of items that open or close no scope and belong to no body    *)
Plain == {"expr", "args", "make", "inits", "letScope"}

IsPlain(it, s, fs, vs) ==
  /\ it.do \in Plain
  /\ IsItem(it, fs, vs)
  /\ it.do # "make" => it.in = s

(* The meaning of a name, if it has one, is a binding of an open scope.    *)
IsMeaning(b) ==
  \/ b = Env!NoBinding
  \/ \E j \in 1..Len(env) : \E x \in DOMAIN env[j].vars : b = env[j].vars[x]

(* Expressions, one after the other, and an item behind them               *)
Exprs(xs, f) == [i \in 1..Len(xs) |-> Expr(xs[i], f)]

(* The parts of an if                                                      *)
IfParts(form) ==
  LET rest == cdr(cdr(form))
  IN  <<car(form), car(cdr(form))>> \o IF IsPair(rest) THEN <<car(rest)>> ELSE <<>>

(* A step of the innermost scope's names: new variables, and a new binding *)
(* of that scope                                                           *)
VariableStep ==
  /\ left' = left
  /\ VariablesOK(variables', frames) /\ Extends(variables, variables')
  /\ EnvOK(env', frames, variables') /\ Len(env') = Len(env)
  /\ \A i \in 1..Len(env) : env'[i].scope = env[i].scope

IsDefinitions(s) == IsSeq(s) /\ \A i \in 1..Len(s) : IsSyntax(s[i].x)

(* The expressions of a body, once its names are known                     *)
ArePlain(items, s, fs, vs) ==
  IsSeq(items) /\ \A i \in 1..Len(items) : IsPlain(items[i], s, fs, vs)

DefinitionItems(d, f) ==
  [i \in 1..(2 * Len(d)) |->
     IF i % 2 = 1 THEN Expr(d[(i + 1) \div 2].x, f)
     ELSE Make("define", <<d[i \div 2].bnd>>, f)]

(* The scope of a body                                                     *)
BodyItems(x) ==
  IF IsNil(x) THEN <<Make("body", <<0, 0>>, nextScope)>> ELSE <<Forms(x), EndBody>>

(* The open scopes                                                         *)
OpenAt(td, f) ==
  f = [i \in 1..(Len(td) + 1) |-> IF i > Len(td) THEN 2 ELSE f[i + 1] + Len(PopsScope(td[i]))]

(* The frames around a frame                                               *)
AroundEach(fs, around) ==
  around = [g \in 0..Len(fs) |-> IF g = 0 THEN {} ELSE {g} \cup around[fs[g]]]

(* The tree of the nodes.  What an item takes of the nodes made before it, *)
(* and how many there are in their place when it is done                   *)
Need(it) ==
  CASE it.do = "make" -> Takes(it)
    [] it.do = "args" -> IF it.op = "apply" THEN it.n + 1 ELSE it.n
    [] it.do \in {"letScope", "letVars"} -> it.n
    [] it.do = "body" -> Takes(it) - 1
    [] OTHER -> 0

Leaves(it) == IF it.do \in {"pop", "forms", "form"} THEN 0 ELSE 1

(* r[i] of the nodes are there for the i-th item and those behind it.      *)
Counts(items, r, x, y) ==
  /\ r \in [1..(Len(items) + 1) -> Nat]
  /\ r[1] = x
  /\ r[Len(items) + 1] = y
  /\ \A i \in 1..Len(items) :
       /\ Need(items[i]) \in 0..r[i]
       /\ r[i + 1] = r[i] - Need(items[i]) + Leaves(items[i])

Balanced(items, x, y) == IsSeq(items) /\ \E r : Counts(items, r, x, y)

(* p[i] trees have been made when there are i nodes.                       *)
Trees(nodes, p) ==
  /\ p \in [0..Len(nodes) -> Nat]
  /\ p[0] = 0
  /\ \A i \in 1..Len(nodes) :
       /\ Takes(nodes[i]) \in 0..p[i - 1]
       /\ p[i] = p[i - 1] - Takes(nodes[i]) + 1

Ends(td, nodes) ==
  /\ td # <<>> => td[Len(td)].do = "make" /\ td[Len(td)].op = "module"
  /\ td = <<>> => nodes # <<>> /\ nodes[Len(nodes)].op = "module"

TreeInv ==
  /\ \E p : Trees(out, p) /\ Balanced(todo, p[Len(out)], 1)
  /\ Ends(todo, out)

ApartAfter(nodes, f) ==
  f = [i \in 0..Len(nodes) |-> IF i = 0 THEN 0 ELSE f[i - 1] - Takes(nodes[i]) + 1]

(* Syntax as the reader made it                                            *)
ClosedUser(S) ==
  \A x \in S :
    \/ x \in {Value, Nil}
    \/ x \in [k : {"symbol"}, name : {x.name}, stamps : {<<>>}, mark : {<<>>}]
    \/ x \in [k : {"pair"}, car : S, cdr : S, mark : {<<>>}]

IsUser(x) == \E S : x \in S /\ ClosedUser(S)

(* What concat makes of the lists of marks that meet                       *)
ConcatStep(a, next) ==
  IF a = AntiMark THEN <<AntiMark>> \o next
  ELSE IF next = <<>> THEN NullMark
  ELSE IF next[1] = AntiMark THEN Tail(next)
  ELSE <<a>> \o next

ConcatFrom(first, second, f) ==
  f = [i \in 1..(Len(first) + 1) |->
         IF i > Len(first) THEN second ELSE ConcatStep(first[i], f[i + 1])]

(* The same of wrapSymbol                                                  *)
StampsFrom(mark, stamps, f) ==
  f = [i \in 1..(Len(mark) + 1) |->
         IF i > Len(mark) THEN stamps
         ELSE IF mark[i] = AntiMark THEN f[i + 1] ELSE Append(f[i + 1], mark[i])]

(* Short lists, pair by pair                                               *)
ListItems(items, d, f) ==
  /\ ListTo(items, d) = f[1]
  /\ f[Len(items) + 1] = d
  /\ \A i \in 1..Len(items) : f[i] = Pair(items[i], f[i + 1])

(* What the macro makes of its arguments a, b and the others r, as the     *)
(* parser takes it apart: pairs and symbols with the mark of expansion m,  *)
(* around the arguments behind the anti-mark                               *)
Made(m, a, d) == [k |-> "pair", car |-> a, cdr |-> d, mark |-> <<m>>]

MadeSymbol(n, m) == [k |-> "symbol", name |-> n, stamps |-> <<m>>, mark |-> <<m>>]

Tmp(m) == MadeSymbol("tmp", m)

OrTail(b, r) == Pair(Wrapped(b), Wrapped(r))

UnmarkedOr(b, r) == Pair(Symbol("or"), OrTail(b, r))

MadeOr(m, b, r) == Made(m, Symbol("or"), OrTail(b, r))

IfTail(b, r) == Pair(Symbol("tmp"), Pair(Symbol("tmp"), Pair(UnmarkedOr(b, r), Nil)))

UnmarkedIf(b, r) == Pair(Symbol("if"), IfTail(b, r))

MadeIf(m, b, r) == Made(m, Symbol("if"), IfTail(b, r))

MadeBody(m, b, r) == Made(m, UnmarkedIf(b, r), Nil)

UnmarkedInit(a) == Pair(Symbol("tmp"), Pair(Wrapped(a), Nil))

MadeInit(m, a) == Made(m, Symbol("tmp"), Pair(Wrapped(a), Nil))

MadeInits(m, a) == Made(m, UnmarkedInit(a), Nil)

LetTail(a, b, r) == Pair(Pair(UnmarkedInit(a), Nil), Pair(UnmarkedIf(b, r), Nil))

MadeLet(m, a, b, r) == Made(m, Symbol("let"), LetTail(a, b, r))

Stamp == Nat \ {0}

MarkOf(m) == <<m>>

(* What the parser has before it when n expansions have been made          *)
IsTmp(x, n) == \E m \in 1..n : x = Tmp(m)

IsLet(x, n) == \E m \in 1..n : \E a, b, r :
                 IsUser(a) /\ IsUser(b) /\ IsUser(r) /\ x = MadeLet(m, a, b, r)

IsIf(x, n) == \E m \in 1..n : \E b, r : IsUser(b) /\ IsUser(r) /\ x = MadeIf(m, b, r)

IsOr(x, n) == \E m \in 1..n : \E b, r : IsUser(b) /\ IsUser(r) /\ x = MadeOr(m, b, r)

IsBody(x, n) == \E m \in 1..n : \E b, r : IsUser(b) /\ IsUser(r) /\ x = MadeBody(m, b, r)

IsInits(x, n) == \E m \in 1..n : \E a : IsUser(a) /\ x = MadeInits(m, a)

(* Names, expressions and forms, the forms of a body, variables of a let   *)
IsName(x, n) == IsUser(x) \/ IsTmp(x, n)

IsShown(x, n) ==
  \/ x = BindingOf(m_unspec)
  \/ IsName(x, n) \/ IsLet(x, n) \/ IsIf(x, n) \/ IsOr(x, n)

IsFormList(x, n) == IsUser(x) \/ IsBody(x, n)

IsVarList(x, n) == IsUser(x) \/ IsInits(x, n)

AllShown(s, n) == \A i \in 1..Len(s) : IsShown(s[i], n)

AllNames(s, n) == \A i \in 1..Len(s) : IsName(s[i], n)

AllUser(s) == \A i \in 1..Len(s) : IsUser(s[i])

(* ... or the value of an anonymous definition                             *)
IsBegin(x, n) == x = Begin(x.exprs) /\ IsSeq(x.exprs) /\ AllShown(x.exprs, n)

IsExpr(x, n) == IsShown(x, n) \/ IsBegin(x, n)

(* The arguments of a use of the macro: they are the program's, and the    *)
(* macro sees them behind the anti-mark, in a use that it made itself too. *)
IsUse(x, n) == (IsUser(x) /\ IsPair(x)) \/ IsOr(x, n)

(* The system scope has its bindings, and all that is bound in the others  *)
(* is a name of the program's or the one that the macro makes.             *)
KeysOK(ev) ==
  /\ ev[1].vars = SystemBindings
  /\ \A i \in 2..Len(ev) : \A y \in DOMAIN ev[i].vars : y[2] = <<>> \/ y[1] = "tmp"

(* The inductive invariant, with n expansions made                         *)
ItemShown(it, n) ==
  /\ it.do = "expr" => it \in [do : {"expr"}, x : {it.x}, in : {it.in}] /\ IsExpr(it.x, n)
  /\ it.do = "args" => IsUser(it.x)
  /\ it.do = "form" => it \in [do : {"form"}, x : {it.x}] /\ IsShown(it.x, n)
  /\ it.do = "forms" => it \in [do : {"forms"}, x : {it.x}] /\ IsFormList(it.x, n)
  /\ it.do = "body" =>
       /\ it \in [do : {"body"}, x : {it.x}, op : {it.op}, of : {it.of}, in : {it.in}]
       /\ IsFormList(it.x, n)
  /\ it.do = "params" => IsUser(it.x) /\ IsUser(it.body)
  /\ it.do = "inits" => /\ IsVarList(it.x, n) /\ IsFormList(it.body, n)
                        /\ AllNames(it.names, n) /\ AllUser(it.values)
  /\ it.do = "letScope" =>
       it \in [do : {"letScope"}, body : {it.body}, names : {it.names}, n : {it.n}, in : {it.in}]
  /\ it.do \in {"letScope", "letVars"} => AllNames(it.names, n) /\ IsFormList(it.body, n)

ItemsShown(items, n) == IsSeq(items) /\ \A i \in 1..Len(items) : ItemShown(items[i], n)

DefinitionsShown(d, n) == \A i \in 1..Len(d) : IsExpr(d[i].x, n)

CtxShown(c, n) == AllShown(c.exprs, n) /\ DefinitionsShown(c.defns, n)

MarksInv ==
  /\ ItemsShown(todo, markStamp)
  /\ CtxShown(ctx, markStamp)
  /\ KeysOK(env)

Only(e) == <<e>>

(* What is behind the keyword in both                                      *)
SameIf(f, g) ==
  /\ TwoAndRest(g) <=> TwoAndRest(f)
  /\ IsPair(cdr(cdr(g))) <=> IsPair(cdr(cdr(f)))
  /\ IsNil(cdr(cdr(cdr(g)))) <=> IsNil(cdr(cdr(cdr(f))))
  /\ TwoAndRest(f) => CleanAll(IfParts(f)) = IfParts(g)

(* let                                                                     *)
SameLet(f, g) ==
  /\ OneAndRest(g) <=> OneAndRest(f)
  /\ OneAndRest(f) =>
       /\ IsList(car(g)) <=> IsList(car(f))
       /\ CleanVars(car(f)) = car(g) /\ CleanForms(cdr(f)) = cdr(g)

(* The context                                                             *)
CleanContext(c) == [scope |-> c.scope, defns |-> CleanDefinitions(c.defns),
                    exprs |-> CleanAll(c.exprs)]

IsContext(c) == c \in [scope : {c.scope}, defns : {c.defns}, exprs : {c.exprs}]

Updated(c, d, e) == [c EXCEPT !.exprs = e, !.defns = d]

(* The definitions when another one follows                                *)
Grouped(d, e) == IF e = <<>> THEN d ELSE Append(d, Anonymous(e))

(* s is what a body does for its definitions d                             *)
Defining(s, d, f) ==
  /\ Len(d) \in Nat /\ IsSeq(s) /\ Len(s) = 2 * Len(d)
  /\ \A i \in 1..(2 * Len(d)) :
       s[i] = IF i % 2 = 1 THEN Expr(d[(i + 1) \div 2].x, f)
              ELSE Make("define", <<d[i \div 2].bnd>>, f)

===============================================================================
