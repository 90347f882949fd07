------------------------- MODULE SymbolTableRefinement ------------------------
(***************************************************************************)
(* SymbolTable implements LexicalEnv: the open scopes, ordered by level,   *)
(* with the bindings that their lists hold.                                *)
(***************************************************************************)
EXTENDS SymbolTable

Depth == IF topScope = NoScope THEN 0 ELSE scopes[topScope].level + 2

(* The open scope at a position of the stack; the outermost has level -1.  *)
ScopeAt(i) == CHOOSE s \in Scope : Active(s) /\ scopes[s].level = i - 2

VarsOf(s) ==
  [x \in {bindings[b].sym : b \in bindingList[s]} |->
     CHOOSE b \in bindingList[s] : bindings[b].sym = x]

envBar == [i \in 1..Depth |-> [scope |-> ScopeAt(i), vars |-> VarsOf(ScopeAt(i))]]

leftBar == {s \in Scope : ~Active(s)}

Env == INSTANCE LexicalEnv
         WITH Symbol <- 0..(MaxSymbols - 1), Scope <- 1..MaxScopes,
              Binding <- 1..MaxBindings, env <- envBar, left <- leftBar

(* Every step of the symbol table is a step of the lexical environment or  *)
(* leaves it alone.                                                        *)
ImplementsEnv == Env!Spec

(* The three lookups give the meaning the lexical environment gives.       *)
LookupsAgree ==
  \A x \in Uid :
    /\ Lookup(x) = Env!Meaning(x)
    /\ \A s \in Scope :
         /\ LookupHereAndUp(s, x) = Env!MeaningFrom(s, x)
         /\ Active(s) => LookupOnlyHere(s, x) = Env!MeaningOnlyIn(s, x)

===============================================================================
