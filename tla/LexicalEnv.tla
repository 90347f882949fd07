------------------------------ MODULE LexicalEnv ------------------------------
(***************************************************************************)
(* What the symbol table promises the parser: a lexical environment, that  *)
(* is a stack of scopes, the innermost last, each with the symbols bound   *)
(* in it.  A symbol means what the innermost scope that binds it says.     *)
(* Nothing here knows of per-symbol chains, levels or active flags.        *)
(***************************************************************************)
EXTENDS Naturals, Sequences

CONSTANTS
  Symbol,      \* the symbols a program can bind
  Scope,       \* identities of scopes
  Binding      \* identities of bindings; 0 is not one

VARIABLES
  env,         \* the open scopes, innermost last: [scope, vars]
  left         \* the scopes that have been closed

vars == <<env, left>>

NoBinding == 0

(* The frames of the scope stack; "vars" is a partial function.            *)
IsFrame(f) ==
  /\ f.scope \in Scope
  /\ DOMAIN f.vars \subseteq Symbol
  /\ \A x \in DOMAIN f.vars : f.vars[x] \in Binding

TypeOK ==
  /\ \A i \in 1..Len(env) : IsFrame(env[i])
  /\ left \subseteq Scope

Open == {env[i].scope : i \in 1..Len(env)}

Init ==
  /\ env = <<>>
  /\ left = {}

(* A scope is opened once, inside the innermost one.                       *)
Enter(s) ==
  /\ s \notin Open \cup left
  /\ env' = Append(env, [scope |-> s, vars |-> [x \in {} |-> NoBinding]])
  /\ UNCHANGED left

(* The innermost scope gives a symbol it does not bind yet a meaning.      *)
Define(x, b) ==
  /\ env # <<>>
  /\ x \notin DOMAIN env[Len(env)].vars
  /\ env' = [env EXCEPT ![Len(env)].vars =
               [y \in DOMAIN @ \cup {x} |-> IF y = x THEN b ELSE @[y]]]
  /\ UNCHANGED left

(* Closing the innermost scope restores the environment it was opened in.  *)
Leave ==
  /\ env # <<>>
  /\ env' = SubSeq(env, 1, Len(env) - 1)
  /\ left' = left \cup {env[Len(env)].scope}

Next ==
  \/ \E s \in Scope : Enter(s)
  \/ \E x \in Symbol, b \in Binding : Define(x, b)
  \/ Leave

Spec == Init /\ [][Next]_vars

-----------------------------------------------------------------------------
(* The meaning of x as seen from the first n open scopes.                  *)
MeaningAt(n, x) ==
  LET binders == {i \in 1..n : x \in DOMAIN env[i].vars}
  IN  IF binders = {} THEN NoBinding
      ELSE env[CHOOSE i \in binders : \A j \in binders : j <= i].vars[x]

Meaning(x) == MeaningAt(Len(env), x)

(* The meaning of x for code that captured scope s; none once s is closed. *)
MeaningFrom(s, x) ==
  IF s \in Open
  THEN MeaningAt(CHOOSE i \in 1..Len(env) : env[i].scope = s, x)
  ELSE NoBinding

(* The meaning scope s itself gives to x.                                  *)
MeaningOnlyIn(s, x) ==
  LET here == {i \in 1..Len(env) : env[i].scope = s /\ x \in DOMAIN env[i].vars}
  IN  IF here = {} THEN NoBinding ELSE env[CHOOSE i \in here : TRUE].vars[x]

===============================================================================
