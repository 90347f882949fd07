------------------------------ MODULE SymbolTable -----------------------------
(***************************************************************************)
(* SymbolTable, Scope, Symbol and Binding (parser/SymbolTable.{hpp,cpp}).  *)
(*                                                                         *)
(* Every symbol heads a chain of its bindings (Symbol::m_top and           *)
(* Binding::m_prev), every scope lists the bindings made in it             *)
(* (Scope::m_bindingList), and a lookup finds its answer by comparing the  *)
(* levels of the scopes along a chain.  A chain is a sequence here, the    *)
(* innermost binding last; a scope's list is a set, its order being used   *)
(* for nothing.  Symbols, scopes and bindings are numbered in the order    *)
(* in which they are allocated.                                            *)
(*                                                                         *)
(* Scope::bind is an operation of any scope object; its callers use the    *)
(* innermost scope only, and so does Bind.                                 *)
(*                                                                         *)
(* A definition marked "Faulty" is not part of the model: it is what a     *)
(* plausible slip would make of the one behind it, and shows that a        *)
(* property notices.                                                       *)
(***************************************************************************)
EXTENDS Integers, Sequences, FiniteSets

CONSTANTS
  Name,            \* spellings
  MaxSymbols,      \* bounds on what is allocated
  MaxScopes,
  MaxBindings,
  MaxStamp         \* bound on m_markStamp, far below 2^32

ASSUME Bounds ==
  /\ MaxSymbols \in Nat
  /\ MaxScopes \in Nat
  /\ MaxBindings \in Nat
  /\ MaxStamp \in Nat

VARIABLES
  symbols,         \* uid -> [name, parentSymbol, markStamp]
  map,             \* m_map: name -> uid
  markMap,         \* m_markMap: <<markStamp, parent uid>> -> uid
  uid,             \* m_uid
  markStamp,       \* m_markStamp
  chain,           \* uid -> its bindings, Symbol::m_top last
  bindings,        \* all bindings made: [sym, scope]
  scopes,          \* all scopes made: [parent, level, active]
  bindingList,     \* of every scope, the set of its bindings
  topScope         \* m_topScope

symbolVars == <<symbols, map, markMap, uid>>
scopeVars == <<scopes, topScope>>
bindingVars == <<bindings, bindingList>>
vars == <<symbols, map, markMap, uid, markStamp, chain, bindings, scopes,
          bindingList, topScope>>

NoSymbol == -1
NoScope == 0
NoBinding == 0

Uid == 0..(uid - 1)
Scope == 1..Len(scopes)
Binding == 1..Len(bindings)

Extend(f, k, v) == [x \in DOMAIN f \cup {k} |-> IF x = k THEN v ELSE f[x]]

LastOf(S) == CHOOSE i \in S : \A j \in S : j <= i

-----------------------------------------------------------------------------
(* Lookups.  They change nothing; the actions and the parser call them.    *)

Owner(b) == bindings[b].scope
LevelOf(b) == scopes[Owner(b)].level

(* SymbolTable::lookup *)
Lookup(x) == IF chain[x] = <<>> THEN NoBinding ELSE chain[x][Len(chain[x])]

(* Scope::lookupOnlyHere: the walk from m_top ends at the first binding    *)
(* that is this scope's own or not deeper than this scope.                 *)
LookupOnlyHere(s, x) ==
  LET c == chain[x]
      stops == {i \in 1..Len(c) : Owner(c[i]) = s \/ LevelOf(c[i]) <= scopes[s].level}
  IN  IF stops # {} /\ Owner(c[LastOf(stops)]) = s THEN c[LastOf(stops)] ELSE NoBinding

(* Faulty: the popped flag is looked at, the levels are not.               *)
LookupHereAndUpIgnoresLevels(s, x) ==
  IF scopes[s].active THEN Lookup(x) ELSE NoBinding

(* Faulty: bindings of the scope itself are taken for deeper ones.         *)
LookupHereAndUpTooStrict(s, x) ==
  LET c == chain[x]
      visible == {i \in 1..Len(c) : LevelOf(c[i]) < scopes[s].level}
  IN  IF scopes[s].active /\ visible # {} THEN c[LastOf(visible)] ELSE NoBinding

(* Scope::lookupHereAndUp: the first binding that is not deeper than this  *)
(* scope; nothing once the scope was popped.                               *)
LookupHereAndUp(s, x) ==
  LET c == chain[x]
      visible == {i \in 1..Len(c) : LevelOf(c[i]) <= scopes[s].level}
  IN  IF scopes[s].active /\ visible # {} THEN c[LastOf(visible)] ELSE NoBinding

-----------------------------------------------------------------------------
Init ==
  /\ symbols = [x \in {} |-> NoSymbol]
  /\ map = [n \in {} |-> NoSymbol]
  /\ markMap = [k \in {} |-> NoSymbol]
  /\ uid = 0
  /\ markStamp = 0
  /\ chain = [x \in {} |-> <<>>]
  /\ bindings = <<>>
  /\ scopes = <<>>
  /\ bindingList = <<>>
  /\ topScope = NoScope

AddSymbol(sym) ==
  /\ uid < MaxSymbols
  /\ symbols' = Extend(symbols, uid, sym)
  /\ chain' = Extend(chain, uid, <<>>)
  /\ uid' = uid + 1

(* Faulty: m_map is not asked for the name.                                *)
NewSymbolAlways(n) ==
  /\ AddSymbol([name |-> n, parentSymbol |-> NoSymbol, markStamp |-> 0])
  /\ map' = Extend(map, n, uid)
  /\ UNCHANGED <<markMap, markStamp, bindingVars, scopeVars>>

(* Faulty: the number is taken after m_uid was incremented.                *)
NewSymbolCountsFirst(n) ==
  /\ n \notin DOMAIN map
  /\ AddSymbol([name |-> n, parentSymbol |-> NoSymbol, markStamp |-> 0])
  /\ map' = Extend(map, n, uid')
  /\ UNCHANGED <<markMap, markStamp, bindingVars, scopeVars>>

(* SymbolTable::newSymbol ( name ), when the name is not in m_map yet.     *)
NewSymbol(n) ==
  /\ n \notin DOMAIN map
  /\ AddSymbol([name |-> n, parentSymbol |-> NoSymbol, markStamp |-> 0])
  /\ map' = Extend(map, n, uid)
  /\ UNCHANGED <<markMap, markStamp, bindingVars, scopeVars>>

(* SymbolTable::newSymbol ( parentSymbol, markStamp ): a symbol of the     *)
(* same name that a macro expansion produced.                              *)
NewMarkedSymbol(p, k) ==
  /\ <<k, p>> \notin DOMAIN markMap
  /\ AddSymbol([name |-> symbols[p].name, parentSymbol |-> p, markStamp |-> k])
  /\ markMap' = Extend(markMap, <<k, p>>, uid)
  /\ UNCHANGED <<map, markStamp, bindingVars, scopeVars>>

(* SymbolTable::nextMarkStamp *)
NextMarkStamp ==
  /\ markStamp < MaxStamp
  /\ markStamp' = markStamp + 1
  /\ UNCHANGED <<symbolVars, chain, bindingVars, scopeVars>>

(* SymbolTable::newScope *)
NewScope ==
  /\ Len(scopes) < MaxScopes
  /\ scopes' = Append(scopes,
       [parent |-> topScope,
        level |-> IF topScope = NoScope THEN -1 ELSE scopes[topScope].level + 1,
        active |-> TRUE])
  /\ bindingList' = Append(bindingList, {})
  /\ topScope' = Len(scopes) + 1
  /\ UNCHANGED <<symbolVars, markStamp, chain, bindings>>

(* Faulty: an existing binding of the scope is not looked for.             *)
BindAlways(x) ==
  LET b == Len(bindings) + 1
  IN  /\ topScope # NoScope
      /\ b <= MaxBindings
      /\ bindings' = Append(bindings, [sym |-> x, scope |-> topScope])
      /\ bindingList' = [bindingList EXCEPT ![topScope] = @ \cup {b}]
      /\ chain' = [chain EXCEPT ![x] = Append(@, b)]
      /\ UNCHANGED <<symbolVars, markStamp, scopeVars>>

(* Scope::bind in the innermost scope, when it defines a new binding.      *)
Bind(x) ==
  LET b == Len(bindings) + 1
  IN  /\ topScope # NoScope
      /\ b <= MaxBindings
      /\ LookupOnlyHere(topScope, x) = NoBinding
      /\ bindings' = Append(bindings, [sym |-> x, scope |-> topScope])
      /\ bindingList' = [bindingList EXCEPT ![topScope] = @ \cup {b}]
      /\ chain' = [chain EXCEPT ![x] = Append(@, b)]
      /\ UNCHANGED <<symbolVars, markStamp, scopeVars>>

(* Faulty ways to pop a scope: the bindings are taken off the wrong end of *)
(* the chains; all scopes are left.                                        *)
PopScopeTakesOldest ==
  LET popped(x) == {b \in bindingList[topScope] : bindings[b].sym = x}
  IN  /\ topScope # NoScope
      /\ chain' = [x \in DOMAIN chain |->
                     SubSeq(chain[x], 1 + Cardinality(popped(x)), Len(chain[x]))]
      /\ scopes' = [scopes EXCEPT ![topScope].active = FALSE]
      /\ topScope' = scopes[topScope].parent
      /\ UNCHANGED <<symbolVars, markStamp, bindingVars>>

PopScopeLeavesAll ==
  LET popped(x) == {b \in bindingList[topScope] : bindings[b].sym = x}
  IN  /\ topScope # NoScope
      /\ chain' = [x \in DOMAIN chain |->
                     SubSeq(chain[x], 1, Len(chain[x]) - Cardinality(popped(x)))]
      /\ scopes' = [scopes EXCEPT ![topScope].active = FALSE]
      /\ topScope' = NoScope
      /\ UNCHANGED <<symbolVars, markStamp, bindingVars>>

(* SymbolTable::popScope with Scope::popBindings: every binding of the     *)
(* scope takes the top binding off its symbol's chain.                     *)
PopScope ==
  LET popped(x) == {b \in bindingList[topScope] : bindings[b].sym = x}
  IN  /\ topScope # NoScope
      /\ chain' = [x \in DOMAIN chain |->
                     SubSeq(chain[x], 1, Len(chain[x]) - Cardinality(popped(x)))]
      /\ scopes' = [scopes EXCEPT ![topScope].active = FALSE]
      /\ topScope' = scopes[topScope].parent
      /\ UNCHANGED <<symbolVars, markStamp, bindingVars>>

Next ==
  \/ \E n \in Name : NewSymbol(n)
  \/ \E p \in Uid, k \in 1..markStamp : NewMarkedSymbol(p, k)
  \/ NextMarkStamp
  \/ NewScope
  \/ \E x \in Uid : Bind(x)
  \/ PopScope

Spec == Init /\ [][Next]_vars

-----------------------------------------------------------------------------
(* Properties.                                                             *)

TypeOK ==
  /\ uid \in Nat
  /\ markStamp \in Nat
  /\ symbols \in [Uid -> [name : Name, parentSymbol : Uid \cup {NoSymbol},
                          markStamp : 0..markStamp]]
  /\ DOMAIN map \subseteq Name
  /\ \A n \in DOMAIN map : map[n] \in Uid
  /\ DOMAIN markMap \subseteq (1..markStamp) \X Uid
  /\ \A k \in DOMAIN markMap : markMap[k] \in Uid
  /\ bindings \in Seq([sym : Uid, scope : Scope])
  /\ scopes \in Seq([parent : Scope \cup {NoScope}, level : Int, active : BOOLEAN])
  /\ bindingList \in Seq(SUBSET Binding)
  /\ Len(bindingList) = Len(scopes)
  /\ chain \in [Uid -> Seq(Binding)]
  /\ topScope \in Scope \cup {NoScope}

Active(s) == scopes[s].active

(* A symbol is its spelling and the marks it went through: the two tables  *)
(* never hold two symbols for one name, or for one symbol under one mark   *)
(* (newSymbol; TestSymbolTable compares names by pointer).                 *)
Interned ==
  /\ \A x, y \in Uid : symbols[x] = symbols[y] => x = y
  /\ \A n \in DOMAIN map :
       symbols[map[n]] = [name |-> n, parentSymbol |-> NoSymbol, markStamp |-> 0]
  /\ \A k \in DOMAIN markMap :
       /\ symbols[markMap[k]].markStamp = k[1]
       /\ symbols[markMap[k]].parentSymbol = k[2]
       /\ symbols[markMap[k]].name = symbols[k[2]].name

(* The open scopes are topScope and its ancestors, one per level.          *)
ScopeStack ==
  /\ topScope # NoScope => Active(topScope)
  /\ \A s \in Scope : Active(s) => topScope # NoScope /\ s <= topScope
  /\ \A s \in Scope : Active(s) =>
       IF scopes[s].parent = NoScope THEN scopes[s].level = -1
       ELSE /\ scopes[s].parent < s
            /\ Active(scopes[s].parent)
            /\ scopes[s].level = scopes[scopes[s].parent].level + 1
  /\ \A s, t \in Scope : Active(s) /\ Active(t) /\ s < t =>
       /\ s <= scopes[t].parent
       /\ scopes[s].level < scopes[t].level

(* A chain holds bindings of its symbol in open scopes, ever deeper ones;  *)
(* this is what makes the level comparisons of the lookups right.          *)
ChainsNested ==
  \A x \in Uid :
    /\ \A i \in 1..Len(chain[x]) :
         /\ bindings[chain[x][i]].sym = x
         /\ Active(Owner(chain[x][i]))
         /\ chain[x][i] \in bindingList[Owner(chain[x][i])]
    /\ \A i, j \in 1..Len(chain[x]) :
         i < j => Owner(chain[x][i]) < Owner(chain[x][j])

(* A scope lists its own bindings, and while it is open each of them is    *)
(* still in its symbol's chain.                                            *)
ListsReachable ==
  \A s \in Scope : \A b \in bindingList[s] :
    /\ Owner(b) = s
    /\ Active(s) => \E i \in 1..Len(chain[bindings[b].sym]) :
                      chain[bindings[b].sym][i] = b

(* Scopes, chains and the scopes' lists fit together at every moment.      *)
ScopesNested == ScopeStack /\ ChainsNested /\ ListsReachable

(* The assertion of Symbol::pop never fails: whenever the innermost scope  *)
(* is popped, each of its bindings is on top of its symbol's chain, and no *)
(* symbol is popped twice.                                                 *)
PopAssertion ==
  topScope # NoScope =>
    \A b \in bindingList[topScope] :
      /\ Lookup(bindings[b].sym) = b
      /\ \A c \in bindingList[topScope] : bindings[c].sym = bindings[b].sym => c = b

(* A scope that a macro has captured keeps seeing the same bindings        *)
(* whatever is bound or popped in deeper scopes: only a bind in that scope *)
(* itself, or its own popping, changes what lookupHereAndUp answers there. *)
CapturedScopeStable ==
  [][\A s \in Scope : Active(s) /\ s # topScope =>
       \A x \in Uid : LookupHereAndUp(s, x)' = LookupHereAndUp(s, x)]_vars

===============================================================================
