----------------------------- MODULE SimpleCodeGen ----------------------------
(***************************************************************************)
(* SimpleCodeGen (codegen/SimpleCodeGen.{hpp,cpp}): the C code for an AST. *)
(*                                                                         *)
(* A node of the AST is a record, k its kind.  A frame is its number and   *)
(* the length of its list of variables; a variable is its frame and its    *)
(* place in that list.  Frame 1 is the system's.                           *)
(*                                                                         *)
(* A C function is its sequence of statements and the number of names made *)
(* for it by nextTmp, temporaries and labels alike; names are numbers from *)
(* 0 on.  The functions that generate code return the generator's state s, *)
(* and in s.e the C expression that they return.  A context is a sequence, *)
(* the innermost first.                                                    *)
(*                                                                         *)
(* A definition marked "Faulty" is not part of the model: it is what a     *)
(* plausible slip would make of the one behind it.                         *)
(***************************************************************************)
EXTENDS Integers, Sequences

SystemFrame == 1
g_sysframe == -1         \* as a temporary, the name of the system's frame

(* C expressions.  Text is what is no C, like "?LET".                      *)
Const(n) == [c |-> "const", n |-> n]
Real == [c |-> "real"]
Text == [c |-> "text"]
Tmp(t) == [c |-> "tmp", t |-> t]
Cell(t, a) == [c |-> "cell", t |-> t, a |-> a]
Param(i) == [c |-> "param", i |-> i]
Env(t) == [c |-> "env", t |-> t]
Nothing == [c |-> "nothing"]

(* C statements                                                            *)
Alloc(t, n) == [s |-> "alloc", t |-> t, n |-> n]
Assign(t, e) == [s |-> "assign", t |-> t, e |-> e]
Store(t, a, e) == [s |-> "store", t |-> t, a |-> a, e |-> e]
SetParam(i, e) == [s |-> "param", i |-> i, e |-> e]
NewClosure(t, fp, n, list, env) ==
  [s |-> "closure", t |-> t, fp |-> fp, pcount |-> n, plist |-> list, e |-> Tmp(env)]
CallTo(t, cl) == [s |-> "call", t |-> t, e |-> Tmp(cl)]
IfNot(e, lab) == [s |-> "ifnot", e |-> e, lab |-> lab]
Goto(lab) == [s |-> "goto", lab |-> lab]
Label(lab) == [s |-> "label", lab |-> lab]
Return(e) == [s |-> "return", e |-> e]

-----------------------------------------------------------------------------
nextTmp(s, f, n) == [s EXCEPT !.funcs[f].tmps = @ + n]

newFunc(s) == [s EXCEPT !.funcs = Append(@, [code |-> <<>>, tmps |-> 0])]
Emit(s, f, code) == [s EXCEPT !.funcs[f].code = @ \o code]
Gives(s, e) == [s EXCEPT !.e = e]

(* The assertion is that the variables have no addresses yet.              *)
assignAddresses(s, start, frame) ==
  IF frame.id \in DOMAIN s.start
  THEN [s EXCEPT !.ok = @ /\ frame.length = 0]
  ELSE [s EXCEPT !.start = [f \in DOMAIN @ \cup {frame.id} |->
                              IF f = frame.id THEN start ELSE @[f]]]

Address(s, frame, place) == s.start[frame] + place - 1

-----------------------------------------------------------------------------
RECURSIVE gen(_, _, _)

(* Faulty: the walk through the frames begins at the second one.           *)
genVarInParent(x, ctx, s) ==
  LET f == ctx[1].func
      hops == (CHOOSE i \in 1..Len(ctx) : ctx[i].frame = x.frame) - 1
      made == s.funcs[f].tmps
      At(i) == IF i = 0 THEN ctx[IF hops > 1 THEN 2 ELSE 1].tmp ELSE made + i - 1
  IN  Gives(Emit(nextTmp(s, f, hops), f,
                 [i \in 1..hops |-> Assign(At(i), Cell(At(i - 1), 0))]),
            Cell(At(hops), Address(s, x.frame, x.place)))

(* Cell 0 of each frame on the way is the next one.  The value is not read *)
(* here: the expression that does it is put where the value is used.       *)
genVar(x, ctx, s) ==
  LET f == ctx[1].func
      reached == {i \in 1..Len(ctx) : ctx[i].frame = x.frame}
      hops == (CHOOSE i \in reached : TRUE) - 1
      made == s.funcs[f].tmps
      At(i) == IF i = 0 THEN ctx[1].tmp ELSE made + i - 1
  IN  IF reached = {} THEN [s EXCEPT !.ok = FALSE]
      ELSE Gives(Emit(nextTmp(s, f, hops), f,
                      [i \in 1..hops |-> Assign(At(i), Cell(At(i - 1), 0))]),
                 Cell(At(hops), Address(s, x.frame, x.place)))

genDatum(x, s) ==
  Gives(s, CASE x.skind = "integer" -> Const(x.n)
             [] x.skind = "bool"    -> Const(IF x.b THEN 1 ELSE 0)
             [] x.skind = "real"    -> Real
             [] OTHER               -> Text)

(* A body allocates its frame, makes its definitions and evaluates its     *)
(* expressions.  What a definition without a variable returns is dropped.  *)
genBody(body, parentCtx, f, s) ==
  LET frametmp == s.funcs[f].tmps
      ctx == <<[frame |-> body.frame.id, tmp |-> frametmp, func |-> f]>> \o parentCtx
      entered == Emit(assignAddresses(nextTmp(s, f, 1), 1, body.frame), f,
                      <<Alloc(frametmp, body.frame.length + 1),
                        Store(frametmp, 0, Tmp(parentCtx[1].tmp))>>)
      defined[i \in 0..Len(body.defs)] ==
        IF i = 0 THEN entered
        ELSE LET defn == body.defs[i]
                 v == gen(defn.value, ctx, defined[i - 1])
             IN  IF defn.place = 0 THEN v
                 ELSE Emit(v, f, <<Store(frametmp, Address(v, body.frame.id, defn.place), v.e)>>)
      evaluated[i \in 0..Len(body.exprs)] ==
        IF i = 0 THEN Gives(defined[Len(body.defs)], Nothing)
        ELSE gen(body.exprs[i], ctx, evaluated[i - 1])
  IN  evaluated[Len(body.exprs)]

(* Faulty: a function whose body has no expressions has no return.         *)
ReturnOfSome(s) == IF s.e = Nothing THEN <<>> ELSE <<Return(s.e)>>

ReturnOf(s) == <<Return(IF s.e = Nothing THEN Const(0) ELSE s.e)>>

(* A function of its own; its code finds the closure's environment in      *)
(* g_param0.  A parameter for a list gets a cell, but no value.            *)
genClosure(x, ctx, s) ==
  LET f == ctx[1].func
      cf == Len(s.funcs) + 1
      paramCtx == <<[frame |-> x.frame.id, tmp |-> 0, func |-> cf]>> \o ctx
      entered == assignAddresses(nextTmp(newFunc(s), cf, 1), 1, x.frame)
      extracted ==
        Emit(entered, cf,
             <<Alloc(0, x.frame.length + 1), Store(0, 0, Param(0))>> \o
             [i \in 1..x.params |-> LET addr == Address(entered, x.frame.id, i)
                                    IN  Store(0, addr, Param(addr))])
      done == genBody(x.body, paramCtx, cf, extracted)
      cltmp == done.funcs[f].tmps
  IN  Gives(Emit(Emit(nextTmp(done, f, 1), cf, ReturnOf(done)), f,
                 <<NewClosure(cltmp, cf, x.params, x.list, ctx[1].tmp)>>), Tmp(cltmp))

(* Faulty: each argument goes to its register at once.                     *)
genApplyInPlace(x, ctx, s) ==
  LET f == ctx[1].func
      target == gen(x.target, ctx, s)
      cltmp == target.funcs[f].tmps
      called == Emit(nextTmp(target, f, 2), f, <<Assign(cltmp, target.e)>>)
      args[i \in 0..Len(x.params)] ==
        IF i = 0 THEN called
        ELSE LET v == gen(x.params[i], ctx, args[i - 1]) IN Emit(v, f, <<SetParam(i, v.e)>>)
  IN  Gives(Emit(args[Len(x.params)], f,
                 <<SetParam(0, Env(cltmp)), CallTo(cltmp + 1, cltmp)>>), Tmp(cltmp + 1))

(* The arguments are evaluated first and put into the registers then.      *)
genApply(x, ctx, s) ==
  LET f == ctx[1].func
      target == gen(x.target, ctx, s)
      cltmp == target.funcs[f].tmps
      called == Emit(nextTmp(target, f, 2), f, <<Assign(cltmp, target.e)>>)
      args[i \in 0..Len(x.params)] ==
        IF i = 0 THEN [s |-> called, es |-> <<>>]
        ELSE LET before == args[i - 1]
                 v == gen(x.params[i], ctx, before.s)
             IN  [s |-> v, es |-> Append(before.es, v.e)]
      all == args[Len(x.params)]
  IN  Gives(Emit(all.s, f,
                 <<SetParam(0, Env(cltmp))>> \o
                 [i \in 1..Len(all.es) |-> SetParam(i, all.es[i])] \o
                 <<CallTo(cltmp + 1, cltmp)>>), Tmp(cltmp + 1))

(* Without an else, the value is the expression of the other part, which   *)
(* is used behind the label whichever way was taken.                       *)
genIf(x, ctx, s) ==
  LET f == ctx[1].func
      tested == gen(x.cond, ctx, s)
      exitlab == tested.funcs[f].tmps
      twoArmed == x.elseAst # <<>>
      elselab == IF twoArmed THEN exitlab + 1 ELSE exitlab
      then == gen(x.thenAst, ctx,
                  Emit(nextTmp(tested, f, elselab - exitlab + 1), f, <<IfNot(tested.e, elselab)>>))
      restmp == then.funcs[f].tmps
      else == gen(x.elseAst[1], ctx,
                  Emit(nextTmp(then, f, 1), f,
                       <<Assign(restmp, then.e), Goto(exitlab), Label(elselab)>>))
  IN  IF twoArmed
      THEN Gives(Emit(else, f, <<Assign(restmp, else.e), Label(exitlab)>>), Tmp(restmp))
      ELSE Emit(then, f, <<Label(exitlab)>>)

(* An assertion that fails ends it.  Other nodes become the name of their  *)
(* kind behind a question mark.                                            *)
gen(x, ctx, s) ==
  IF ~s.ok THEN s
  ELSE CASE x.k = "closure"     -> genClosure(x, ctx, s)
         [] x.k = "apply"       -> genApply(x, ctx, s)
         [] x.k = "datum"       -> genDatum(x, s)
         [] x.k = "unspecified" -> Gives(s, Const(0))
         [] x.k = "var"         -> genVar(x, ctx, s)
         [] x.k = "if"          -> genIf(x, ctx, s)
         [] OTHER               -> Gives(s, Text)

(* The context of the system's frame, whose addresses begin at 0, and      *)
(* function 1, module_init                                                 *)
genSystem == <<[frame |-> SystemFrame, tmp |-> g_sysframe, func |-> 0]>>

generate(module) ==
  LET s == genBody(module.body, genSystem, 1,
             newFunc(assignAddresses([funcs |-> <<>>, start |-> [f \in {} |-> 0],
                                      ok |-> TRUE, e |-> Nothing], 0, module.systemFrame)))
  IN  Emit(s, 1, ReturnOf(s))

===============================================================================
