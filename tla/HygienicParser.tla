---------------------------- MODULE HygienicParser ----------------------------
(***************************************************************************)
(* What the marks of SchemeParser are for: a parser with "or" as a macro   *)
(* that cannot capture a name.  Its expansion says let, if and or by what  *)
(* they are and not by their names, and binds a symbol that no program can *)
(* write.  Nothing is ever marked.                                         *)
(***************************************************************************)
EXTENDS SchemeParser

(* The symbol that expansion m makes for its variable                      *)
Own(m) == [k |-> "symbol", name |-> "tmp", stamps |-> <<m>>, mark |-> <<>>]

(* Its form for the arguments a, b and the list of those behind them       *)
OrForm(b, rest) == Pair(BindingOf(MACRO_OR), Pair(b, rest))
IfForm(m, b, rest) == List(<<BindingOf(RES_IF), Own(m), Own(m), OrForm(b, rest)>>)
OwnInits(m, a) == List(<<List(<<Own(m), a>>)>>)
LetForm(m, a, b, rest) ==
  List(<<BindingOf(RES_LET), OwnInits(m, a), IfForm(m, b, rest)>>)

Renamed(form) ==
  LET args == cdr(form)
      more == cdr(args)
  IN  IF IsNil(args) THEN Value
      ELSE IF IsNil(more) THEN car(args)
      ELSE LetForm(markStamp + 1, car(args), car(more), cdr(more))

FormOr == FormUse(Renamed(item.x))
CompileOr == ExpressionUse(Renamed(item.x))

HygienicNext == FormOr \/ CompileOr \/ CoreNext

HygienicSpec == Init /\ [][HygienicNext]_vars

===============================================================================
