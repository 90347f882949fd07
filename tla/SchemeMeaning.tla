---------------------------- MODULE SchemeMeaning -----------------------------
(***************************************************************************)
(* What an AST (see SimpleCodeGen) means: an evaluator with environments.  *)
(* An environment is a place in "envs": the frame it is of, the values of  *)
(* its variables and the environment around it.                            *)
(*                                                                         *)
(* A value is an integer, a procedure, or unspecified.  Truth is what the  *)
(* representation makes of it: #t and #f are 1 and 0.                      *)
(*                                                                         *)
(* A result is [envs, out: what was displayed, ok: no program may expect   *)
(* anything of what went wrong, v: the value].                             *)
(***************************************************************************)
EXTENDS Integers, Sequences

Number(n) == [k |-> "int", n |-> n]
Procedure(x, env) == [k |-> "procedure", x |-> x, env |-> env]
System(place) == [k |-> "system", place |-> place]
Unspecified == [k |-> "unspecified"]
Unset == [k |-> "unset"]

Wrong(r) == [r EXCEPT !.ok = FALSE, !.v = Unspecified]
Value(r, v) == [r EXCEPT !.v = v]

(* C's division, towards 0                                                 *)
Quotient(a, b) ==
  LET abs(n) == IF n < 0 THEN -n ELSE n
  IN  IF (a < 0) = (b < 0) THEN abs(a) \div abs(b) ELSE -(abs(a) \div abs(b))

Truth(p) == IF p THEN 1 ELSE 0

(* The procedures + - * / < > == !=, by their places                       *)
Arithmetic(place, a, b) ==
  CASE place = 1 -> a + b            [] place = 2 -> a - b
    [] place = 3 -> a * b            [] place = 4 -> Quotient(a, b)
    [] place = 5 -> Truth(a < b)     [] place = 6 -> Truth(a > b)
    [] place = 7 -> Truth(a = b)     [] place = 8 -> Truth(a # b)

Display == 9

CallSystem(place, args, r) ==
  IF place = Display
  THEN IF Len(args) = 1 /\ args[1].k = "int"
       THEN [r EXCEPT !.out = Append(@, args[1].n), !.v = Unspecified] ELSE Wrong(r)
  ELSE IF Len(args) = 2 /\ (\A i \in 1..2 : args[i].k = "int") /\ (place = 4 => args[2].n # 0)
       THEN Value(r, Number(Arithmetic(place, args[1].n, args[2].n))) ELSE Wrong(r)

(* The environment of a frame, from inside env                             *)
Find(r, env, frame) ==
  LET from[e \in 0..Len(r.envs)] ==
        IF e = 0 THEN 0 ELSE IF r.envs[e].frame = frame THEN e ELSE from[r.envs[e].parent]
  IN  from[env]

Enter(r, frame, values, parent) ==
  [r EXCEPT !.envs = Append(@,
     [frame |-> frame.id, parent |-> parent,
      vals |-> [i \in 1..frame.length |-> IF i <= Len(values) THEN values[i] ELSE Unset]])]

RECURSIVE Eval(_, _, _)

(* All of xs in order; the values are in r.vs.                             *)
EvalAll(xs, env, r) ==
  LET upTo[i \in 0..Len(xs)] ==
        IF i = 0 THEN [r |-> r, vs |-> <<>>]
        ELSE LET before == upTo[i - 1]
                 next == Eval(xs[i], env, before.r)
             IN  [r |-> next, vs |-> Append(before.vs, next.v)]
  IN  upTo[Len(xs)]

(* A body in its own environment: its definitions, then its expressions    *)
EvalBody(body, parent, r) ==
  LET env == Len(r.envs) + 1
      defined[i \in 0..Len(body.defs)] ==
        IF i = 0 THEN Enter(r, body.frame, <<>>, parent)
        ELSE LET v == Eval(body.defs[i].value, env, defined[i - 1])
             IN  IF body.defs[i].place = 0 THEN v
                 ELSE [v EXCEPT !.envs[env].vals[body.defs[i].place] = v.v]
      all == EvalAll(body.exprs, env, Value(defined[Len(body.defs)], Unspecified))
  IN  all.r

CallProcedure(f, args, r) ==
  IF f.k = "system" THEN CallSystem(f.place, args, r)
  ELSE IF f.k # "procedure" THEN Wrong(r)
  ELSE IF f.x.list \/ Len(args) # f.x.params THEN Wrong(r)
  ELSE EvalBody(f.x.body, Len(r.envs) + 1, Enter(r, f.x.frame, args, f.env))

Eval(x, env, r) ==
  IF ~r.ok THEN r
  ELSE CASE x.k = "datum" /\ x.skind = "integer" -> Value(r, Number(x.n))
         [] x.k = "datum" /\ x.skind = "bool" -> Value(r, Number(Truth(x.b)))
         [] x.k = "var" ->
              LET e == Find(r, env, x.frame)
              IN  IF e = 0 THEN Wrong(r)
                  ELSE IF r.envs[e].vals[x.place].k = "unset" THEN Wrong(r)
                  ELSE Value(r, r.envs[e].vals[x.place])
         [] x.k = "unspecified" -> Value(r, Unspecified)
         [] x.k = "closure" -> Value(r, Procedure(x, env))
         [] x.k = "if" ->
              LET c == Eval(x.cond, env, r)
              IN  IF c.v.k = "unspecified" THEN Wrong(c)
                  ELSE IF c.v # Number(0) THEN Eval(x.thenAst, env, c)
                  ELSE IF x.elseAst = <<>> THEN Value(c, Unspecified)
                  ELSE Eval(x.elseAst[1], env, c)
         [] x.k = "apply" ->
              LET all == EvalAll(<<x.target>> \o x.params, env, r)
              IN  IF all.r.ok THEN CallProcedure(all.vs[1], Tail(all.vs), all.r) ELSE all.r
         [] x.k = "begin" -> EvalAll(x.exprs, env, Value(r, Unspecified)).r
         [] x.k = "set" ->
              LET v == Eval(x.value, env, r)
                  e == Find(v, env, x.frame)
              IN  IF e = 0 THEN Wrong(v)
                  ELSE Value([v EXCEPT !.envs[e].vals[x.place] = v.v], Unspecified)
         [] x.k = "let" ->
              LET all == EvalAll(x.values, env, r)
              IN  IF all.r.ok
                  THEN EvalBody(x.body, Len(all.r.envs) + 1, Enter(all.r, x.frame, all.vs, env))
                  ELSE all.r
         [] OTHER -> Wrong(r)

Meaning(module) ==
  EvalBody(module.body, 1,
           Enter([envs |-> <<>>, out |-> <<>>, ok |-> TRUE, v |-> Unspecified],
                 module.systemFrame, [i \in 1..module.systemFrame.length |-> System(i)], 0))

===============================================================================
