--------------------------- MODULE SymbolTableProofs --------------------------
(***************************************************************************)
(* Theorems about SymbolTable, for every set of names and every bound.     *)
(***************************************************************************)
EXTENDS SymbolTableRefinement, TLAPS, FiniteSetTheorems, SequenceTheorems, WellFoundedInduction

(* The inductive invariant.  PopAssertion alone is not inductive: that the *)
(* bindings of the innermost scope end their chains needs the order of the *)
(* chains, and that order needs the open scopes to be nested.              *)
IInv == TypeOK /\ ScopeStack /\ ChainsNested /\ ListsReachable

-----------------------------------------------------------------------------
(* What TypeOK says of single elements.                                    *)
LEMMA Typed ==
  ASSUME TypeOK
  PROVE  /\ Len(scopes) \in Nat
         /\ Len(bindings) \in Nat
         /\ Len(bindingList) = Len(scopes)
         /\ topScope \in Nat
         /\ \A s \in Scope :
              /\ s \in Nat /\ s > 0
              /\ scopes[s].parent \in Scope \cup {NoScope}
              /\ scopes[s].parent \in Nat
              /\ scopes[s].level \in Int
              /\ scopes[s].active \in BOOLEAN
              /\ bindingList[s] \subseteq Binding
         /\ \A b \in Binding : bindings[b].sym \in Uid /\ Owner(b) \in Scope
         /\ \A x \in Uid :
              /\ chain[x] \in Seq(Binding)
              /\ Len(chain[x]) \in Nat
              /\ \A i \in 1..Len(chain[x]) :
                   chain[x][i] \in Binding /\ Owner(chain[x][i]) \in Scope
<1>1. /\ Len(scopes) \in Nat
      /\ \A s \in Scope : scopes[s] \in [parent : Scope \cup {NoScope}, level : Int,
                                        active : BOOLEAN]
  BY ElementOfSeq, LenProperties DEF TypeOK, Scope
<1>2. /\ Len(bindings) \in Nat
      /\ \A b \in Binding : bindings[b] \in [sym : Uid, scope : Scope]
  BY ElementOfSeq, LenProperties DEF TypeOK, Binding
<1>3. /\ Len(bindingList) = Len(scopes)
      /\ \A s \in Scope : bindingList[s] \in SUBSET Binding
  BY ElementOfSeq DEF TypeOK, Scope
<1>4. \A x \in Uid : chain[x] \in Seq(Binding)
  BY DEF TypeOK
<1>5. \A x \in Uid : /\ Len(chain[x]) \in Nat
                    /\ \A i \in 1..Len(chain[x]) : chain[x][i] \in Binding
  BY <1>4, ElementOfSeq, LenProperties
<1>6. \A b \in Binding : bindings[b].sym \in Uid /\ Owner(b) \in Scope
  BY <1>2 DEF Owner
<1>7. topScope \in Nat
  BY <1>1 DEF TypeOK, Scope, NoScope
<1>8. \A s \in Scope : /\ s \in Nat /\ s > 0
                      /\ scopes[s].parent \in Nat
  BY <1>1 DEF Scope, NoScope
<1> QED BY <1>1, <1>2, <1>3, <1>4, <1>5, <1>6, <1>7, <1>8

-----------------------------------------------------------------------------
(* The symbols whose chains the innermost scope's bindings end: a symbol   *)
(* has one such binding, the last of its chain, or none.                   *)
LEMMA PoppedFromChain ==
  ASSUME IInv, topScope # NoScope, NEW x \in Uid
  PROVE  LET popped == {b \in bindingList[topScope] : bindings[b].sym = x}
             n == Len(chain[x])
         IN  \/ /\ n > 0
                /\ Owner(chain[x][n]) = topScope
                /\ popped = {chain[x][n]}
             \/ /\ \A i \in 1..n : Owner(chain[x][i]) # topScope
                /\ popped = {}
<1> DEFINE popped == {b \in bindingList[topScope] : bindings[b].sym = x}
           n == Len(chain[x])
<1>1. topScope \in Scope /\ bindingList[topScope] \subseteq Binding /\ Active(topScope)
  BY Typed DEF IInv, TypeOK, ScopeStack
<1>2. chain[x] \in Seq(Binding) /\ n \in Nat
  BY Typed DEF IInv
<1>3. \A i \in 1..n : Owner(chain[x][i]) \in Scope /\ Owner(chain[x][i]) <= topScope
  BY Typed DEF IInv, ChainsNested, ScopeStack
<1>4. \A b \in popped : \E i \in 1..n : chain[x][i] = b /\ Owner(chain[x][i]) = topScope
  BY <1>1 DEF IInv, ListsReachable
<1>5. \A i \in 1..n : Owner(chain[x][i]) = topScope => i = n /\ chain[x][i] \in popped
  <2> SUFFICES ASSUME NEW i \in 1..n, Owner(chain[x][i]) = topScope
               PROVE  i = n /\ chain[x][i] \in popped
    OBVIOUS
  <2>1. i < n => Owner(chain[x][i]) < Owner(chain[x][n])
    BY <1>2 DEF IInv, ChainsNested
  <2>2. i = n
    <3>1. n \in 1..n
      BY <1>2
    <3>2. topScope \in Nat /\ Owner(chain[x][n]) \in Nat /\ Owner(chain[x][n]) <= topScope
      BY <1>1, <1>3, <3>1, Typed DEF IInv
    <3> QED BY <1>2, <2>1, <3>2
  <2>3. chain[x][i] \in popped
    BY DEF IInv, ChainsNested
  <2> QED BY <2>2, <2>3
<1>6. CASE popped = {}
  BY <1>5, <1>6
<1>7. CASE popped # {}
  <2>1. n > 0 /\ Owner(chain[x][n]) = topScope
    BY <1>2, <1>4, <1>5, <1>7
  <2>2. popped = {chain[x][n]}
    BY <1>2, <1>4, <1>5, <1>7
  <2> QED BY <2>1, <2>2
<1> QED BY <1>6, <1>7

-----------------------------------------------------------------------------
LEMMA InitIInv == Init => IInv
<1> SUFFICES ASSUME Init PROVE IInv
  OBVIOUS
<1> USE DEF Init, Uid, Scope, Binding
<1>1. TypeOK
  <2>1. Uid = {} /\ Scope = {} /\ Binding = {}
    OBVIOUS
  <2>2. symbols \in [Uid -> [name : Name, parentSymbol : Uid \cup {NoSymbol},
                           markStamp : 0..markStamp]]
    BY <2>1
  <2>3. chain \in [Uid -> Seq(Binding)]
    BY <2>1
  <2>4. /\ bindings \in Seq([sym : Uid, scope : Scope])
        /\ scopes \in Seq([parent : Scope \cup {NoScope}, level : Int, active : BOOLEAN])
        /\ bindingList \in Seq(SUBSET Binding)
    OBVIOUS
  <2> QED BY <2>2, <2>3, <2>4 DEF TypeOK
<1>2. ScopeStack /\ ChainsNested /\ ListsReachable
  BY DEF ScopeStack, ChainsNested, ListsReachable
<1> QED BY <1>1, <1>2 DEF IInv

(* Making a symbol or taking a stamp disturbs no scope and no chain.       *)
LEMMA AddSymbolIInv ==
  ASSUME IInv, NEW sym, AddSymbol(sym),
         markStamp' = markStamp, UNCHANGED <<bindings, bindingList, scopes, topScope>>,
         sym \in [name : Name, parentSymbol : Uid \cup {NoSymbol}, markStamp : 0..markStamp],
         DOMAIN map' \subseteq Name, \A n \in DOMAIN map' : map'[n] \in Uid',
         DOMAIN markMap' \subseteq (1..markStamp) \X Uid,
         \A k \in DOMAIN markMap' : markMap'[k] \in Uid'
  PROVE  IInv'
<1>1. /\ uid \in Nat /\ uid' = uid + 1
      /\ Uid' = Uid \cup {uid} /\ uid \notin Uid
      /\ Scope' = Scope /\ Binding' = Binding
      /\ \A s : Active(s)' = Active(s)
      /\ \A b : Owner(b)' = Owner(b)
  BY DEF IInv, TypeOK, AddSymbol, Uid, Scope, Binding, Active, Owner
<1>2. /\ \A x \in Uid : chain'[x] = chain[x]
      /\ chain'[uid] = <<>>
      /\ DOMAIN chain' = Uid'
      /\ chain' \in [Uid' -> Seq(Binding)]
  BY <1>1 DEF IInv, TypeOK, AddSymbol, Extend
<1>3. TypeOK'
  <2>1. symbols' \in [Uid' -> [name : Name, parentSymbol : Uid' \cup {NoSymbol},
                             markStamp : 0..markStamp]]
    BY <1>1 DEF IInv, TypeOK, AddSymbol, Extend
  <2>2. bindings \in Seq([sym : Uid', scope : Scope])
    <3>1. [sym : Uid, scope : Scope] \subseteq [sym : Uid', scope : Scope]
      BY <1>1
    <3> QED BY <3>1, SeqMonotonic, Zenon DEF IInv, TypeOK
  <2> QED BY <1>1, <1>2, <2>1, <2>2 DEF IInv, TypeOK
<1>4. ScopeStack'
  BY <1>1 DEF IInv, ScopeStack, Active
<1>5. ChainsNested'
  BY <1>1, <1>2 DEF IInv, ChainsNested
<1>6. ListsReachable'
  <2> SUFFICES ASSUME NEW s \in Scope, NEW b \in bindingList[s]
               PROVE  /\ Owner(b) = s
                      /\ Active(s) => \E i \in 1..Len(chain'[bindings[b].sym]) :
                                        chain'[bindings[b].sym][i] = b
    BY <1>1 DEF ListsReachable
  <2>1. b \in Binding /\ bindings[b].sym \in Uid
    BY Typed DEF IInv
  <2> QED BY <1>2, <2>1 DEF IInv, ListsReachable
<1> QED BY <1>3, <1>4, <1>5, <1>6 DEF IInv

LEMMA NewSymbolIInv ==
  ASSUME IInv, NEW n \in Name, NewSymbol(n)
  PROVE  IInv'
<1> DEFINE sym == [name |-> n, parentSymbol |-> NoSymbol, markStamp |-> 0]
<1>1. AddSymbol(sym) /\ UNCHANGED <<markMap, markStamp, bindings, bindingList, scopes, topScope>>
  BY DEF NewSymbol, bindingVars, scopeVars
<1>2. uid \in Nat /\ markStamp \in Nat /\ Uid \subseteq Uid' /\ uid \in Uid'
  BY <1>1 DEF IInv, TypeOK, Uid, AddSymbol
<1>3. sym \in [name : Name, parentSymbol : Uid \cup {NoSymbol}, markStamp : 0..markStamp]
  BY <1>2
<1>4. DOMAIN map' \subseteq Name /\ \A m \in DOMAIN map' : map'[m] \in Uid'
  BY <1>2 DEF NewSymbol, Extend, IInv, TypeOK
<1>5. DOMAIN markMap' \subseteq (1..markStamp) \X Uid
      /\ \A k \in DOMAIN markMap' : markMap'[k] \in Uid'
  BY <1>1, <1>2 DEF IInv, TypeOK
<1> QED
  <2> HIDE DEF sym
  <2> QED BY <1>1, <1>3, <1>4, <1>5, AddSymbolIInv

LEMMA NewMarkedSymbolIInv ==
  ASSUME IInv, NEW p \in Uid, NEW k \in 1..markStamp, NewMarkedSymbol(p, k)
  PROVE  IInv'
<1> DEFINE sym == [name |-> symbols[p].name, parentSymbol |-> p, markStamp |-> k]
<1>1. AddSymbol(sym) /\ UNCHANGED <<map, markStamp, bindings, bindingList, scopes, topScope>>
  BY DEF NewMarkedSymbol, bindingVars, scopeVars
<1>2. uid \in Nat /\ markStamp \in Nat /\ Uid \subseteq Uid' /\ uid \in Uid'
  BY <1>1 DEF IInv, TypeOK, Uid, AddSymbol
<1>3. sym \in [name : Name, parentSymbol : Uid \cup {NoSymbol}, markStamp : 0..markStamp]
  BY <1>2 DEF IInv, TypeOK
<1>4. DOMAIN map' \subseteq Name /\ \A m \in DOMAIN map' : map'[m] \in Uid'
  BY <1>1, <1>2 DEF IInv, TypeOK
<1>5. DOMAIN markMap' \subseteq (1..markStamp) \X Uid
      /\ \A key \in DOMAIN markMap' : markMap'[key] \in Uid'
  <2>1. /\ DOMAIN markMap \subseteq (1..markStamp) \X Uid
        /\ \A key \in DOMAIN markMap : markMap[key] \in Uid
    BY DEF IInv, TypeOK
  <2>2. markMap' = Extend(markMap, <<k, p>>, uid) /\ <<k, p>> \in (1..markStamp) \X Uid
    BY DEF NewMarkedSymbol
  <2>3. /\ DOMAIN markMap' = DOMAIN markMap \cup {<<k, p>>}
        /\ \A key \in DOMAIN markMap' :
             markMap'[key] = IF key = <<k, p>> THEN uid ELSE markMap[key]
    BY <2>2 DEF Extend
  <2> QED BY <1>2, <2>1, <2>2, <2>3
<1> QED
  <2> HIDE DEF sym
  <2> QED BY <1>1, <1>3, <1>4, <1>5, AddSymbolIInv

LEMMA NextMarkStampIInv ==
  ASSUME IInv, NextMarkStamp
  PROVE  IInv'
<1> USE DEF NextMarkStamp, symbolVars, bindingVars, scopeVars
<1>1. /\ Uid' = Uid /\ Scope' = Scope /\ Binding' = Binding
      /\ markStamp \in Nat /\ markStamp' \in Nat
      /\ 0..markStamp \subseteq 0..markStamp' /\ 1..markStamp \subseteq 1..markStamp'
  BY DEF IInv, TypeOK, Uid, Scope, Binding
<1>2. TypeOK'
  BY <1>1 DEF IInv, TypeOK
<1>3. ScopeStack' /\ ChainsNested' /\ ListsReachable'
  BY <1>1 DEF IInv, ScopeStack, ChainsNested, ListsReachable, Active, Owner
<1> QED BY <1>2, <1>3 DEF IInv

LEMMA NewScopeIInv ==
  ASSUME IInv, NewScope
  PROVE  IInv'
<1> DEFINE s == Len(scopes) + 1
           rec == [parent |-> topScope,
                   level |-> IF topScope = NoScope THEN -1 ELSE scopes[topScope].level + 1,
                   active |-> TRUE]
<1>a. TypeOK /\ ScopeStack /\ ChainsNested /\ ListsReachable
  BY DEF IInv
<1>b. /\ Len(scopes) \in Nat /\ Len(bindingList) = Len(scopes)
      /\ topScope \in Nat /\ topScope \in Scope \cup {NoScope}
      /\ \A t \in Scope : /\ t \in Nat /\ t # NoScope
                          /\ scopes[t].parent \in Scope \cup {NoScope}
                          /\ scopes[t].level \in Int
  <2>1. topScope \in Scope \cup {NoScope}
    BY <1>a DEF TypeOK
  <2>2. \A t \in Scope : t \in Nat /\ t # NoScope
    BY <1>a, Typed DEF NoScope
  <2> QED BY <1>a, <2>1, <2>2, Typed
<1>1. /\ UNCHANGED <<symbols, map, markMap, uid, markStamp, chain, bindings>>
      /\ scopes' = Append(scopes, rec)
      /\ bindingList' = Append(bindingList, {})
      /\ topScope' = s
  BY DEF NewScope, symbolVars
<1>3. rec \in [parent : Scope \cup {NoScope}, level : Int, active : BOOLEAN]
  BY <1>b
<1>5. rec.active = TRUE /\ rec.parent = topScope
      /\ rec.level = IF topScope = NoScope THEN -1 ELSE scopes[topScope].level + 1
  OBVIOUS
<1> HIDE DEF rec
<1>4. /\ \A t \in Scope : scopes'[t] = scopes[t] /\ bindingList'[t] = bindingList[t]
      /\ scopes'[s] = rec /\ bindingList'[s] = {}
      /\ Len(bindingList') = s /\ Len(scopes') = s
  BY <1>a, <1>b, <1>1, <1>3, AppendProperties DEF Scope, TypeOK
<1>2. /\ Scope' = Scope \cup {s} /\ s \notin Scope /\ s \in Nat /\ s # NoScope
      /\ \A t \in Scope : t < s
      /\ Uid' = Uid /\ Binding' = Binding
      /\ \A b : Owner(b)' = Owner(b)
  BY <1>b, <1>1, <1>4 DEF Scope, Uid, Binding, Owner, NoScope
<1> HIDE DEF s
<1>6. /\ \A t \in Scope : scopes'[t].active = scopes[t].active
      /\ scopes'[s].active = TRUE
      /\ \A t \in Scope' : t <= s
  <2>1. \A t \in Scope' : t <= s
    BY <1>2, <1>b
  <2> QED BY <1>4, <1>5, <2>1
<1>7. TypeOK'
  <2>1. scopes' \in Seq([parent : Scope' \cup {NoScope}, level : Int, active : BOOLEAN])
    <3>1. scopes' \in Seq([parent : Scope \cup {NoScope}, level : Int, active : BOOLEAN])
      BY <1>a, <1>1, <1>3, AppendProperties DEF TypeOK
    <3>2. [parent : Scope \cup {NoScope}, level : Int, active : BOOLEAN]
            \subseteq [parent : Scope' \cup {NoScope}, level : Int, active : BOOLEAN]
      BY <1>2
    <3> QED BY <3>1, <3>2, SeqMonotonic, Zenon
  <2>2. bindings \in Seq([sym : Uid, scope : Scope'])
    <3>1. [sym : Uid, scope : Scope] \subseteq [sym : Uid, scope : Scope']
      BY <1>2
    <3> QED BY <1>a, <3>1, SeqMonotonic, Zenon DEF TypeOK
  <2>3. bindingList' \in Seq(SUBSET Binding)
    BY <1>a, <1>1, AppendProperties DEF TypeOK
  <2> QED BY <1>a, <1>1, <1>2, <1>4, <2>1, <2>2, <2>3 DEF TypeOK
<1>8. ScopeStack'
  <2>1. \A t \in Scope : scopes[t].active =>
          topScope # NoScope /\ topScope \in Scope /\ t <= topScope
    BY <1>a, <1>b DEF ScopeStack, Active
  <2>2. topScope # NoScope => topScope \in Scope /\ scopes[topScope].active
    BY <1>a, <1>b DEF ScopeStack, Active
  <2>3. ASSUME NEW t \in Scope', scopes'[t].active
        PROVE  IF scopes'[t].parent = NoScope THEN scopes'[t].level = -1
               ELSE /\ scopes'[t].parent < t
                    /\ scopes'[scopes'[t].parent].active
                    /\ scopes'[t].level = scopes'[scopes'[t].parent].level + 1
    <3>1. CASE t = s
      <4>1. scopes'[t] = rec
        BY <1>4, <3>1
      <4>2. CASE topScope = NoScope
        BY <1>5, <4>1, <4>2
      <4>3. CASE topScope # NoScope
        <5>1. topScope \in Scope /\ scopes[topScope].active
          BY <2>2, <4>3
        <5>2. topScope < t /\ scopes'[topScope] = scopes[topScope]
          BY <1>2, <1>4, <3>1, <5>1
        <5>3. scopes'[t].parent = topScope /\ scopes'[t].level = scopes[topScope].level + 1
          BY <1>5, <4>1, <4>3
        <5> QED BY <4>3, <5>1, <5>2, <5>3
      <4> QED BY <4>2, <4>3
    <3>2. CASE t \in Scope
      <4>1. scopes'[t] = scopes[t] /\ scopes[t].active
        BY <1>4, <2>3, <3>2
      <4>2. IF scopes[t].parent = NoScope THEN scopes[t].level = -1
            ELSE /\ scopes[t].parent < t
                 /\ scopes[scopes[t].parent].active
                 /\ scopes[t].level = scopes[scopes[t].parent].level + 1
        BY <1>a, <3>2, <4>1 DEF ScopeStack, Active
      <4>3. CASE scopes[t].parent = NoScope
        BY <4>1, <4>2, <4>3
      <4>4. CASE scopes[t].parent # NoScope
        <5>1. scopes'[scopes[t].parent] = scopes[scopes[t].parent]
          BY <1>b, <1>4, <3>2, <4>4
        <5> QED BY <4>1, <4>2, <4>4, <5>1
      <4> QED BY <4>3, <4>4
    <3> QED BY <1>2, <3>1, <3>2
  <2>4. ASSUME NEW t \in Scope', NEW u \in Scope', scopes'[t].active, scopes'[u].active, t < u
        PROVE  t <= scopes'[u].parent /\ scopes'[t].level < scopes'[u].level
    <3>1. t \in Scope /\ scopes[t].active /\ scopes'[t] = scopes[t]
      <4>1. t # s
        BY <1>2, <1>6, <1>b, <2>4
      <4> QED BY <1>2, <1>4, <2>4, <4>1
    <3>2. CASE u = s
      <4>1. t <= topScope /\ topScope \in Scope /\ scopes[topScope].active /\ topScope # NoScope
        BY <2>1, <2>2, <3>1
      <4>2. t = topScope \/ scopes[t].level < scopes[topScope].level
        <5>1. t \in Nat /\ topScope \in Nat
          BY <1>b, <3>1
        <5> QED BY <1>a, <3>1, <4>1, <5>1 DEF ScopeStack, Active
      <4>3. scopes[t].level \in Int /\ scopes[topScope].level \in Int
        BY <1>b, <3>1, <4>1
      <4>4. scopes'[u] = rec
        BY <1>4, <3>2
      <4> QED BY <1>5, <3>1, <4>1, <4>2, <4>3, <4>4
    <3>3. CASE u \in Scope
      BY <1>a, <1>4, <2>4, <3>1, <3>3 DEF ScopeStack, Active
    <3> QED BY <1>2, <3>2, <3>3
  <2>5. topScope' \in Scope' /\ topScope' # NoScope /\ scopes'[topScope'].active
    BY <1>1, <1>2, <1>6
  <2>6. \A t \in Scope' : t <= topScope'
    BY <1>1, <1>6
  <2> QED BY <2>3, <2>4, <2>5, <2>6 DEF ScopeStack, Active
<1>9. ChainsNested'
  <2>1. ASSUME NEW x \in Uid, NEW i \in 1..Len(chain[x])
        PROVE  /\ Owner(chain[x][i]) \in Scope
               /\ bindings[chain[x][i]].sym = x
               /\ Active(Owner(chain[x][i]))
               /\ chain[x][i] \in bindingList[Owner(chain[x][i])]
    BY <1>a, Typed DEF ChainsNested
  <2>2. ASSUME NEW x \in Uid, NEW i \in 1..Len(chain[x])
        PROVE  scopes'[Owner(chain[x][i])].active
               /\ chain[x][i] \in bindingList'[Owner(chain[x][i])]
    BY <1>4, <1>6, <2>1 DEF Active
  <2> QED BY <1>a, <1>1, <1>2, <2>1, <2>2 DEF ChainsNested, Active
<1>10. ListsReachable'
  <2> SUFFICES ASSUME NEW t \in Scope', NEW b \in bindingList'[t]
               PROVE  /\ Owner(b) = t
                      /\ scopes'[t].active => \E i \in 1..Len(chain[bindings[b].sym]) :
                                        chain[bindings[b].sym][i] = b
    BY <1>1, <1>2 DEF ListsReachable, Active
  <2>1. t \in Scope /\ b \in bindingList[t]
    BY <1>2, <1>4
  <2> QED BY <1>a, <1>6, <2>1 DEF ListsReachable, Active
<1> QED BY <1>7, <1>8, <1>9, <1>10 DEF IInv

-----------------------------------------------------------------------------
(* In the innermost scope lookupOnlyHere answers with the end of the       *)
(* chain, if that end is the scope's own binding.                          *)
LEMMA LookupInTopScope ==
  ASSUME IInv, topScope # NoScope, NEW x \in Uid
  PROVE  LET n == Len(chain[x])
         IN  LookupOnlyHere(topScope, x) =
               IF n > 0 /\ Owner(chain[x][n]) = topScope THEN chain[x][n] ELSE NoBinding
<1> DEFINE n == Len(chain[x])
           stops == {i \in 1..n : \/ Owner(chain[x][i]) = topScope
                                 \/ LevelOf(chain[x][i]) <= scopes[topScope].level}
<1>1. n \in Nat /\ topScope \in Scope /\ topScope \in Nat /\ scopes[topScope].active
  BY Typed DEF IInv, TypeOK, ScopeStack, Active
<1>2. \A i \in 1..n : /\ Owner(chain[x][i]) \in Scope
                      /\ scopes[Owner(chain[x][i])].active
  BY Typed DEF IInv, ChainsNested, Active
<1>3. \A s \in Scope : scopes[s].active =>
        s = topScope \/ scopes[s].level < scopes[topScope].level
  <2>1. \A s \in Scope : scopes[s].active => s <= topScope
    BY DEF IInv, ScopeStack, Active
  <2>2. \A s \in Scope : s \in Nat
    BY Typed DEF IInv
  <2> QED BY <1>1, <2>1, <2>2 DEF IInv, ScopeStack, Active
<1>4. \A s \in Scope : scopes[s].level \in Int
  BY Typed DEF IInv
<1>5. stops = 1..n
  <2>1. ASSUME NEW i \in 1..n
        PROVE  \/ Owner(chain[x][i]) = topScope
               \/ scopes[Owner(chain[x][i])].level <= scopes[topScope].level
    <3> DEFINE s == Owner(chain[x][i])
    <3>1. s \in Scope /\ scopes[s].active
      BY <1>2
    <3> HIDE DEF s
    <3>2. s = topScope \/ scopes[s].level <= scopes[topScope].level
      BY <1>1, <1>3, <1>4, <3>1
    <3> QED BY <3>2 DEF s
  <2> QED BY <2>1 DEF LevelOf
<1>6. n > 0 => LastOf(1..n) = n
  BY <1>1 DEF LastOf
<1>7. LookupOnlyHere(topScope, x) =
        IF stops # {} /\ Owner(chain[x][LastOf(stops)]) = topScope
        THEN chain[x][LastOf(stops)] ELSE NoBinding
  BY DEF LookupOnlyHere
<1> HIDE DEF stops
<1>8. CASE n = 0
  <2>1. stops = {}
    BY <1>5, <1>8
  <2> QED BY <1>7, <1>8, <2>1
<1>9. CASE n > 0
  <2>1. stops # {} /\ LastOf(stops) = n
    BY <1>1, <1>5, <1>6, <1>9
  <2> QED BY <1>7, <1>9, <2>1
<1> QED BY <1>1, <1>8, <1>9

LEMMA BindIInv ==
  ASSUME IInv, NEW x \in Uid, Bind(x)
  PROVE  IInv'
<1> DEFINE b == Len(bindings) + 1
           n == Len(chain[x])
<1>a. TypeOK /\ ScopeStack /\ ChainsNested /\ ListsReachable
  BY DEF IInv
<1>b. /\ Len(bindings) \in Nat
      /\ \A c \in Binding : bindings[c].sym \in Uid /\ Owner(c) \in Scope
      /\ \A s \in Scope : s \in Nat /\ bindingList[s] \subseteq Binding
      /\ \A y \in Uid : /\ chain[y] \in Seq(Binding) /\ Len(chain[y]) \in Nat
                        /\ \A i \in 1..Len(chain[y]) :
                             chain[y][i] \in Binding /\ Owner(chain[y][i]) \in Scope
  BY <1>a, Typed
<1>1. /\ UNCHANGED <<symbols, map, markMap, uid, markStamp, scopes, topScope>>
      /\ topScope # NoScope /\ topScope \in Scope /\ scopes[topScope].active
      /\ LookupOnlyHere(topScope, x) = NoBinding
      /\ bindings' = Append(bindings, [sym |-> x, scope |-> topScope])
      /\ bindingList' = [bindingList EXCEPT ![topScope] = @ \cup {b}]
      /\ chain' = [chain EXCEPT ![x] = Append(@, b)]
  BY <1>a DEF Bind, symbolVars, scopeVars, TypeOK, ScopeStack, Active
<1>2. /\ Uid' = Uid /\ Scope' = Scope
      /\ Len(bindings') = b
      /\ Binding' = Binding \cup {b} /\ b \notin Binding /\ b # NoBinding
      /\ \A c \in Binding : bindings'[c] = bindings[c]
      /\ bindings'[b] = [sym |-> x, scope |-> topScope]
  <2>1. [sym |-> x, scope |-> topScope] \in [sym : Uid, scope : Scope]
    BY <1>1
  <2>2. /\ Len(bindings') = b
        /\ \A c \in Binding : bindings'[c] = bindings[c]
        /\ bindings'[b] = [sym |-> x, scope |-> topScope]
    BY <1>a, <1>1, <2>1, AppendProperties DEF TypeOK, Binding
  <2> QED BY <1>1, <1>b, <2>2 DEF Uid, Scope, Binding, NoBinding
<1> HIDE DEF b
<1>3. /\ \A c \in Binding : bindings'[c].sym = bindings[c].sym /\ Owner(c)' = Owner(c)
      /\ bindings'[b].sym = x /\ bindings'[b].scope = topScope
  BY <1>2 DEF Owner
<1>4. /\ chain' \in [Uid -> Seq(Binding \cup {b})]
      /\ \A y \in Uid : y # x => chain'[y] = chain[y]
      /\ chain'[x] = Append(chain[x], b)
      /\ Len(chain'[x]) = n + 1
      /\ \A i \in 1..n : chain'[x][i] = chain[x][i]
      /\ chain'[x][n + 1] = b
  <2>1. \A y \in Uid : chain[y] \in Seq(Binding \cup {b})
    BY <1>b, SeqMonotonic
  <2>2. DOMAIN chain = Uid
    BY <1>a DEF TypeOK
  <2>3. /\ Append(chain[x], b) \in Seq(Binding \cup {b})
        /\ Len(Append(chain[x], b)) = n + 1
        /\ \A i \in 1..n : Append(chain[x], b)[i] = chain[x][i]
        /\ Append(chain[x], b)[n + 1] = b
    <3>1. b \in Binding \cup {b}
      OBVIOUS
    <3> QED BY <2>1, <3>1, AppendProperties
  <2>4. chain' = [y \in Uid |-> IF y = x THEN Append(chain[x], b) ELSE chain[y]]
    BY <1>1, <2>2
  <2>5. /\ \A y \in Uid : y # x => chain'[y] = chain[y]
        /\ chain'[x] = Append(chain[x], b)
    BY <2>4
  <2>6. chain' \in [Uid -> Seq(Binding \cup {b})]
    BY <2>1, <2>3, <2>4
  <2> QED BY <2>3, <2>5, <2>6
<1>c. scopes' = scopes /\ topScope \in Scope /\ scopes[topScope].active
  BY <1>1
<1>d. ASSUME NEW y \in Uid, NEW i \in 1..Len(chain'[y])
      PROVE  \/ y = x /\ i = n + 1
             \/ i \in 1..Len(chain[y]) /\ chain'[y][i] = chain[y][i]
  <2>1. CASE y # x
    BY <1>4, <2>1
  <2>2. CASE y = x
    <3>1. i \in 1..(n + 1) /\ n \in Nat
      BY <1>4, <1>b, <2>2
    <3>2. i = n + 1 \/ i \in 1..n
      BY <3>1
    <3> QED BY <1>4, <2>2, <3>2
  <2> QED BY <2>1, <2>2
<1>5. \A i \in 1..n : Owner(chain[x][i]) < topScope
  <2>1. \A i \in 1..n : Owner(chain[x][i]) # topScope
    <3>1. b # NoBinding /\ ~(n > 0 /\ Owner(chain[x][n]) = topScope)
      <4>1. n > 0 => chain[x][n] \in Binding /\ chain[x][n] # NoBinding
        BY <1>b DEF Binding, NoBinding
      <4> QED BY <1>1, <1>2, <4>1, LookupInTopScope
    <3> QED BY <1>1, <3>1, PoppedFromChain
  <2>2. \A i \in 1..n : Owner(chain[x][i]) <= topScope
    BY <1>a, <1>b DEF ChainsNested, ScopeStack
  <2> QED BY <1>1, <1>b, <2>1, <2>2
<1>6. /\ bindingList' \in Seq(SUBSET (Binding \cup {b}))
      /\ Len(bindingList') = Len(bindingList)
      /\ \A s \in Scope : bindingList'[s] =
           IF s = topScope THEN bindingList[s] \cup {b} ELSE bindingList[s]
  <2>1. bindingList \in Seq(SUBSET (Binding \cup {b}))
    <3>1. SUBSET Binding \subseteq SUBSET (Binding \cup {b})
      OBVIOUS
    <3> QED BY <1>a, <3>1, SeqMonotonic, Zenon DEF TypeOK
  <2>2. bindingList[topScope] \cup {b} \in SUBSET (Binding \cup {b})
    BY <1>1, <1>b
  <2>3. Scope = 1..Len(bindingList)
    BY <1>a DEF TypeOK, Scope
  <2>4. bindingList' = [bindingList EXCEPT ![topScope] = bindingList[topScope] \cup {b}]
    BY <1>1
  <2>5. topScope \in 1..Len(bindingList)
    BY <1>1, <2>3
  <2> DEFINE T == SUBSET (Binding \cup {b})
             e == bindingList[topScope] \cup {b}
  <2>6. bindingList \in Seq(T) /\ e \in T
    BY <2>1, <2>2
  <2>7. bindingList' = [bindingList EXCEPT ![topScope] = e]
    BY <2>4
  <2> HIDE DEF T, e
  <2>8. /\ bindingList' \in Seq(T)
        /\ Len(bindingList') = Len(bindingList)
        /\ \A s \in 1..Len(bindingList) :
             bindingList'[s] = IF s = topScope THEN e ELSE bindingList[s]
    BY <2>5, <2>6, <2>7, ExceptSeq
  <2> QED BY <2>3, <2>8 DEF T, e
<1>7. TypeOK'
  <2>1. bindings' \in Seq([sym : Uid, scope : Scope])
    <3>1. [sym |-> x, scope |-> topScope] \in [sym : Uid, scope : Scope]
      BY <1>1
    <3> QED BY <1>a, <1>1, <3>1, AppendProperties DEF TypeOK
  <2> QED BY <1>a, <1>1, <1>2, <1>4, <1>6, <2>1 DEF TypeOK
<1>8. ScopeStack'
  BY <1>a, <1>1, <1>2 DEF ScopeStack, Active
<1>9. ChainsNested'
  <2>1. ASSUME NEW y \in Uid, NEW i \in 1..Len(chain'[y])
        PROVE  /\ bindings'[chain'[y][i]].sym = y
               /\ scopes'[bindings'[chain'[y][i]].scope].active
               /\ chain'[y][i] \in bindingList'[bindings'[chain'[y][i]].scope]
    <3>1. CASE y = x /\ i = n + 1
      <4>1. chain'[y][i] = b
        BY <1>4, <3>1
      <4>2. b \in bindingList'[topScope]
        BY <1>6, <1>c
      <4> QED BY <1>3, <1>c, <3>1, <4>1, <4>2
    <3>2. CASE i \in 1..Len(chain[y]) /\ chain'[y][i] = chain[y][i]
      <4>1. /\ chain[y][i] \in Binding /\ Owner(chain[y][i]) \in Scope
            /\ bindings[chain[y][i]].sym = y
            /\ scopes[Owner(chain[y][i])].active
            /\ chain[y][i] \in bindingList[Owner(chain[y][i])]
        BY <1>a, <1>b, <3>2 DEF ChainsNested, Active
      <4>2. bindings'[chain[y][i]].scope = Owner(chain[y][i])
        BY <1>2, <4>1 DEF Owner
      <4>3. bindings'[chain[y][i]].sym = y
        BY <1>3, <4>1
      <4>4. chain[y][i] \in bindingList'[Owner(chain[y][i])]
        BY <1>6, <4>1
      <4> QED BY <1>c, <3>2, <4>1, <4>2, <4>3, <4>4
    <3> QED BY <1>d, <2>1, <3>1, <3>2
  <2>2. ASSUME NEW y \in Uid, NEW i \in 1..Len(chain'[y]), NEW j \in 1..Len(chain'[y]), i < j
        PROVE  bindings'[chain'[y][i]].scope < bindings'[chain'[y][j]].scope
    <3>1. /\ i \in 1..Len(chain[y]) /\ chain'[y][i] = chain[y][i]
          /\ bindings'[chain'[y][i]].scope = Owner(chain[y][i])
      <4>1. i \in 1..Len(chain[y]) /\ chain'[y][i] = chain[y][i]
        <5>1. ~(y = x /\ i = n + 1)
          BY <1>4, <1>b, <2>2
        <5> QED BY <1>d, <2>2, <5>1
      <4> QED BY <1>2, <1>b, <4>1 DEF Owner
    <3>2. CASE y = x /\ j = n + 1
      BY <1>3, <1>4, <1>5, <3>1, <3>2
    <3>3. CASE j \in 1..Len(chain[y]) /\ chain'[y][j] = chain[y][j]
      <4>1. bindings'[chain'[y][j]].scope = Owner(chain[y][j])
        BY <1>2, <1>b, <3>3 DEF Owner
      <4>2. Owner(chain[y][i]) < Owner(chain[y][j])
        BY <1>a, <2>2, <3>1, <3>3 DEF ChainsNested
      <4> QED BY <3>1, <4>1, <4>2
    <3> QED BY <1>d, <2>2, <3>2, <3>3
  <2> QED BY <1>2, <2>1, <2>2 DEF ChainsNested, Active, Owner
<1>10. ListsReachable'
  <2>1. ASSUME NEW s \in Scope, NEW c \in bindingList'[s]
        PROVE  /\ bindings'[c].scope = s
               /\ scopes'[s].active => \E i \in 1..Len(chain'[bindings'[c].sym]) :
                                         chain'[bindings'[c].sym][i] = c
    <3>1. CASE c = b
      <4>1. s = topScope
        BY <1>2, <1>6, <1>b, <3>1
      <4>2. n + 1 \in 1..Len(chain'[x])
        BY <1>4, <1>b
      <4> QED BY <1>3, <1>4, <3>1, <4>1, <4>2
    <3>2. CASE c \in bindingList[s]
      <4>1. /\ c \in Binding /\ bindings[c].sym \in Uid
            /\ Owner(c) = s
            /\ scopes[s].active => \E i \in 1..Len(chain[bindings[c].sym]) :
                                     chain[bindings[c].sym][i] = c
        BY <1>a, <1>b, <3>2 DEF ListsReachable, Active
      <4>2. bindings'[c].sym = bindings[c].sym /\ bindings'[c].scope = Owner(c)
        BY <1>2, <4>1 DEF Owner
      <4>3. \A y \in Uid : \A i \in 1..Len(chain[y]) :
              i \in 1..Len(chain'[y]) /\ chain'[y][i] = chain[y][i]
        <5> SUFFICES ASSUME NEW y \in Uid, NEW i \in 1..Len(chain[y])
                     PROVE  i \in 1..Len(chain'[y]) /\ chain'[y][i] = chain[y][i]
          OBVIOUS
        <5>1. CASE y = x
          BY <1>4, <1>b, <5>1
        <5>2. CASE y # x
          BY <1>4, <5>2
        <5> QED BY <5>1, <5>2
      <4> QED BY <1>c, <4>1, <4>2, <4>3
    <3> QED BY <1>6, <2>1, <3>1, <3>2
  <2> QED BY <1>2, <2>1 DEF ListsReachable, Active, Owner
<1> QED BY <1>7, <1>8, <1>9, <1>10 DEF IInv

-----------------------------------------------------------------------------
(* popBindings leaves on every chain exactly the bindings of other scopes. *)
LEMMA PoppedChains ==
  ASSUME IInv, PopScope, NEW x \in Uid
  PROVE  LET n == Len(chain[x])
         IN  \E m \in 0..n :
               /\ chain'[x] \in Seq(Binding)
               /\ Len(chain'[x]) = m
               /\ \A i \in 1..m : chain'[x][i] = chain[x][i]
               /\ \A i \in 1..n : i <= m <=> Owner(chain[x][i]) # topScope
<1> DEFINE n == Len(chain[x])
           popped == {b \in bindingList[topScope] : bindings[b].sym = x}
<1>1. topScope # NoScope /\ n \in Nat /\ chain[x] \in Seq(Binding) /\ x \in DOMAIN chain
  BY Typed DEF IInv, TypeOK, PopScope
<1>2. chain'[x] = SubSeq(chain[x], 1, n - Cardinality(popped))
  BY <1>1 DEF PopScope
<1>3. \A i \in 1..n : chain[x][i] \in Binding
  BY Typed DEF IInv
<1>4. \/ n > 0 /\ Owner(chain[x][n]) = topScope /\ popped = {chain[x][n]}
      \/ (\A i \in 1..n : Owner(chain[x][i]) # topScope) /\ popped = {}
  BY <1>1, PoppedFromChain
<1> HIDE DEF popped
<1>5. CASE n > 0 /\ Owner(chain[x][n]) = topScope /\ popped = {chain[x][n]}
  <2>1. Cardinality(popped) = 1
    BY <1>5, FS_Singleton
  <2>2. chain'[x] = SubSeq(chain[x], 1, n - 1)
    BY <1>2, <2>1
  <2>3. /\ chain'[x] \in Seq(Binding)
        /\ Len(chain'[x]) = n - 1
        /\ \A i \in 1..(n - 1) : chain'[x][i] = chain[x][i]
    <3> DEFINE c == chain[x]
               k == n - 1
    <3>1. k \in Nat /\ k < n
      BY <1>1, <1>5
    <3>2. \A i \in 1..k : c[i] \in Binding
      BY <1>1, <1>3, <3>1
    <3> HIDE DEF c, k
    <3>3. /\ SubSeq(c, 1, k) \in Seq(Binding)
          /\ Len(SubSeq(c, 1, k)) = IF 1 <= k THEN k - 1 + 1 ELSE 0
          /\ \A i \in 1..(k - 1 + 1) : SubSeq(c, 1, k)[i] = c[1 + i - 1]
      BY <3>1, <3>2, SubSeqProperties
    <3>4. chain'[x] = SubSeq(c, 1, k)
      BY <2>2 DEF c, k
    <3>5. Len(chain'[x]) = k /\ \A i \in 1..k : chain'[x][i] = c[i]
      BY <3>1, <3>3, <3>4
    <3> QED BY <3>3, <3>4, <3>5 DEF c, k
  <2>4. \A i \in 1..n : i <= n - 1 <=> Owner(chain[x][i]) # topScope
    <3> SUFFICES ASSUME NEW i \in 1..n, i <= n - 1
                 PROVE  Owner(chain[x][i]) # topScope
      BY <1>1, <1>5
    <3>1. Owner(chain[x][i]) < Owner(chain[x][n])
      BY <1>1, <1>5 DEF IInv, ChainsNested
    <3>2. Owner(chain[x][i]) \in Nat /\ Owner(chain[x][n]) \in Nat
      BY <1>1, <1>5, Typed DEF IInv
    <3> QED BY <1>5, <3>1, <3>2
  <2>5. n - 1 \in 0..n
    BY <1>1, <1>5
  <2> QED BY <2>3, <2>4, <2>5
<1>6. CASE (\A i \in 1..n : Owner(chain[x][i]) # topScope) /\ popped = {}
  <2>1. n - Cardinality(popped) = n
    BY <1>1, <1>6, FS_EmptySet
  <2>2. chain'[x] = chain[x]
    BY <1>1, <1>2, <2>1, SubSeqFull
  <2> QED BY <1>1, <1>6, <2>2
<1> QED BY <1>4, <1>5, <1>6

LEMMA PopScopeIInv ==
  ASSUME IInv, PopScope
  PROVE  IInv'
<1> DEFINE p == scopes[topScope].parent
<1>a. TypeOK /\ ScopeStack /\ ChainsNested /\ ListsReachable
  BY DEF IInv
<1>b. /\ \A b \in Binding : bindings[b].sym \in Uid /\ Owner(b) \in Scope
      /\ \A s \in Scope : /\ s \in Nat /\ s > 0 /\ bindingList[s] \subseteq Binding
                          /\ scopes[s].parent \in Scope \cup {NoScope}
                          /\ scopes[s].level \in Int
      /\ \A x \in Uid : \A i \in 1..Len(chain[x]) : Owner(chain[x][i]) \in Scope
  BY <1>a, Typed
<1>1. /\ UNCHANGED <<symbols, map, markMap, uid, markStamp, bindings, bindingList>>
      /\ Uid' = Uid /\ Binding' = Binding /\ \A b : Owner(b)' = Owner(b)
      /\ scopes' = [scopes EXCEPT ![topScope].active = FALSE]
      /\ topScope' = p
  BY DEF PopScope, symbolVars, bindingVars, Uid, Binding, Owner
<1>c. /\ topScope # NoScope /\ topScope \in Scope /\ scopes[topScope].active
      /\ p \in Scope \cup {NoScope}
      /\ p # NoScope => p \in Scope /\ p < topScope /\ scopes[p].active
  BY <1>a, <1>b DEF PopScope, TypeOK, ScopeStack, Active
<1>2. /\ Scope' = Scope
      /\ Len(scopes') = Len(scopes)
      /\ scopes' \in Seq([parent : Scope \cup {NoScope}, level : Int, active : BOOLEAN])
      /\ \A s \in Scope : /\ scopes'[s].parent = scopes[s].parent
                          /\ scopes'[s].level = scopes[s].level
                          /\ scopes'[s].active <=> s # topScope /\ scopes[s].active
  <2> DEFINE R == [parent : Scope \cup {NoScope}, level : Int, active : BOOLEAN]
             e == [scopes[topScope] EXCEPT !.active = FALSE]
  <2>1. scopes \in Seq(R) /\ topScope \in 1..Len(scopes)
    BY <1>a, <1>c DEF TypeOK, Scope
  <2>2. scopes[topScope] \in R
    BY <2>1, ElementOfSeq
  <2>3. /\ e \in R /\ e.active = FALSE
        /\ e.parent = scopes[topScope].parent /\ e.level = scopes[topScope].level
    BY <2>2
  <2>4. scopes' = [scopes EXCEPT ![topScope] = e]
    BY <1>1
  <2> HIDE DEF R, e
  <2>5. /\ scopes' \in Seq(R)
        /\ Len(scopes') = Len(scopes)
        /\ \A s \in 1..Len(scopes) : scopes'[s] = IF s = topScope THEN e ELSE scopes[s]
    BY <2>1, <2>3, <2>4, ExceptSeq
  <2>6. Scope' = Scope
    BY <2>5 DEF Scope
  <2>7. ASSUME NEW s \in Scope
        PROVE  /\ scopes'[s].parent = scopes[s].parent
               /\ scopes'[s].level = scopes[s].level
               /\ scopes'[s].active <=> s # topScope /\ scopes[s].active
    <3>1. scopes'[s] = IF s = topScope THEN e ELSE scopes[s]
      BY <2>5 DEF Scope
    <3> QED BY <2>3, <3>1
  <2> QED BY <2>5, <2>6, <2>7 DEF R
<1> HIDE DEF p
<1>3. ASSUME NEW x \in Uid
      PROVE  /\ chain'[x] \in Seq(Binding)
             /\ \A i \in 1..Len(chain'[x]) :
                  /\ i \in 1..Len(chain[x]) /\ chain'[x][i] = chain[x][i]
                  /\ Owner(chain[x][i]) # topScope
             /\ \A i \in 1..Len(chain[x]) : Owner(chain[x][i]) # topScope =>
                  i \in 1..Len(chain'[x]) /\ chain'[x][i] = chain[x][i]
  <2>1. PICK m \in 0..Len(chain[x]) :
               /\ chain'[x] \in Seq(Binding)
               /\ Len(chain'[x]) = m
               /\ \A i \in 1..m : chain'[x][i] = chain[x][i]
               /\ \A i \in 1..Len(chain[x]) : i <= m <=> Owner(chain[x][i]) # topScope
    BY PoppedChains
  <2>2. Len(chain[x]) \in Nat
    BY <1>a, Typed
  <2> QED BY <2>1, <2>2
<1>4. TypeOK'
  <2>1. chain' \in [Uid -> Seq(Binding)]
    <3>1. chain' = [x \in Uid |-> chain'[x]]
      BY <1>a DEF TypeOK, PopScope
    <3> QED BY <1>3, <3>1
  <2>2. topScope' \in Scope \cup {NoScope}
    BY <1>1, <1>c
  <2> QED BY <1>a, <1>1, <1>2, <2>1, <2>2 DEF TypeOK
<1>5. ScopeStack'
  <2>1. ASSUME NEW s \in Scope, scopes'[s].active
        PROVE  /\ s # topScope /\ scopes[s].active /\ s < topScope
               /\ p # NoScope /\ s <= p
    <3>1. s # topScope /\ scopes[s].active
      BY <1>2, <2>1
    <3>2. s <= topScope
      BY <1>a, <3>1 DEF ScopeStack, Active
    <3>3. s < topScope
      BY <1>b, <1>c, <3>1, <3>2
    <3>4. s <= p
      BY <1>a, <1>c, <3>1, <3>3 DEF ScopeStack, Active, p
    <3> QED BY <1>b, <1>c, <3>1, <3>3, <3>4 DEF NoScope
  <2>2. p # NoScope => scopes'[p].active
    BY <1>2, <1>b, <1>c
  <2>3. ASSUME NEW s \in Scope, scopes'[s].active
        PROVE  IF scopes'[s].parent = NoScope THEN scopes'[s].level = -1
               ELSE /\ scopes'[s].parent < s
                    /\ scopes'[scopes'[s].parent].active
                    /\ scopes'[s].level = scopes'[scopes'[s].parent].level + 1
    <3> DEFINE q == scopes[s].parent
    <3>1. scopes[s].active /\ s < topScope
      BY <2>1, <2>3
    <3>2. IF q = NoScope THEN scopes[s].level = -1
          ELSE q < s /\ scopes[q].active /\ scopes[s].level = scopes[q].level + 1
      BY <1>a, <3>1 DEF ScopeStack, Active
    <3>3. scopes'[s].parent = q /\ scopes'[s].level = scopes[s].level
      BY <1>2
    <3>4. q \in Scope \cup {NoScope}
      BY <1>b
    <3> HIDE DEF q
    <3>5. CASE q = NoScope
      BY <3>2, <3>3, <3>5
    <3>6. CASE q # NoScope
      <4>1. q \in Scope /\ q # topScope
        BY <1>b, <1>c, <3>1, <3>2, <3>4, <3>6
      <4> QED BY <1>2, <3>2, <3>3, <3>6, <4>1
    <3> QED BY <3>5, <3>6
  <2>4. ASSUME NEW s \in Scope, NEW t \in Scope, scopes'[s].active, scopes'[t].active, s < t
        PROVE  s <= scopes'[t].parent /\ scopes'[s].level < scopes'[t].level
    BY <1>a, <1>2, <2>4 DEF ScopeStack, Active
  <2> QED BY <1>1, <1>2, <2>1, <2>2, <2>3, <2>4 DEF ScopeStack, Active
<1>6. ChainsNested'
  <2>1. ASSUME NEW x \in Uid, NEW i \in 1..Len(chain'[x])
        PROVE  /\ bindings[chain'[x][i]].sym = x
               /\ scopes'[Owner(chain'[x][i])].active
               /\ chain'[x][i] \in bindingList[Owner(chain'[x][i])]
    <3>1. /\ i \in 1..Len(chain[x]) /\ chain'[x][i] = chain[x][i]
          /\ Owner(chain[x][i]) # topScope
      BY <1>3
    <3>2. /\ bindings[chain[x][i]].sym = x
          /\ scopes[Owner(chain[x][i])].active
          /\ chain[x][i] \in bindingList[Owner(chain[x][i])]
          /\ Owner(chain[x][i]) \in Scope
      BY <1>a, <1>b, <3>1 DEF ChainsNested, Active
    <3> QED BY <1>2, <3>1, <3>2
  <2>2. ASSUME NEW x \in Uid, NEW i \in 1..Len(chain'[x]), NEW j \in 1..Len(chain'[x]), i < j
        PROVE  Owner(chain'[x][i]) < Owner(chain'[x][j])
    BY <1>a, <1>3, <2>2 DEF ChainsNested
  <2> QED BY <1>1, <2>1, <2>2 DEF ChainsNested, Active, Owner
<1>7. ListsReachable'
  <2>1. ASSUME NEW s \in Scope, NEW b \in bindingList[s]
        PROVE  /\ Owner(b) = s
               /\ scopes'[s].active => \E i \in 1..Len(chain'[bindings[b].sym]) :
                                         chain'[bindings[b].sym][i] = b
    <3>1. Owner(b) = s /\ bindings[b].sym \in Uid
      BY <1>a, <1>b DEF ListsReachable
    <3>2. ASSUME scopes'[s].active
          PROVE  \E i \in 1..Len(chain'[bindings[b].sym]) : chain'[bindings[b].sym][i] = b
      <4>1. s # topScope /\ scopes[s].active
        BY <1>2, <3>2
      <4>2. PICK i \in 1..Len(chain[bindings[b].sym]) : chain[bindings[b].sym][i] = b
        BY <1>a, <4>1 DEF ListsReachable, Active
      <4> QED BY <1>3, <3>1, <4>1, <4>2
    <3> QED BY <3>1, <3>2
  <2> QED BY <1>1, <1>2, <2>1 DEF ListsReachable, Active, Owner
<1> QED BY <1>4, <1>5, <1>6, <1>7 DEF IInv

-----------------------------------------------------------------------------
LEMMA UnchangedIInv ==
  ASSUME IInv, UNCHANGED vars
  PROVE  IInv'
BY DEF IInv, vars, TypeOK, ScopeStack, ChainsNested, ListsReachable, Active, Owner, Uid,
       Scope, Binding

(* The symbol table keeps its invariant whatever is allocated, bound and   *)
(* popped: open scopes are nested, chains hold ever deeper bindings of     *)
(* open scopes only, and no listed binding is lost.                        *)
THEOREM SymbolTableInvariant == Spec => []IInv
<1>1. Init => IInv
  BY InitIInv
<1>2. IInv /\ [Next]_vars => IInv'
  BY NewSymbolIInv, NewMarkedSymbolIInv, NextMarkStampIInv, NewScopeIInv, BindIInv,
     PopScopeIInv, UnchangedIInv DEF Next
<1> QED BY <1>1, <1>2, PTL DEF Spec

(* Type correctness of the symbol table.                                   *)
THEOREM TypeCorrect == Spec => []TypeOK
<1>1. IInv => TypeOK
  BY DEF IInv
<1> QED BY <1>1, SymbolTableInvariant, PTL

(* Open scopes are a stack, chains hold ever deeper bindings of open       *)
(* scopes, and every binding an open scope lists is in its chain: what the *)
(* level comparisons of the lookups and popBindings rely on.               *)
THEOREM ScopesStayNested ==
  Spec => []ScopesNested
<1>1. IInv => ScopesNested
  BY DEF IInv, ScopesNested
<1> QED BY <1>1, SymbolTableInvariant, PTL

(* The assertion of Symbol::pop cannot fail.                               *)
THEOREM PopNeverFails == Spec => []PopAssertion
<1>1. IInv => PopAssertion
  <2> SUFFICES ASSUME IInv, topScope # NoScope, NEW b \in bindingList[topScope]
               PROVE  /\ Lookup(bindings[b].sym) = b
                      /\ \A c \in bindingList[topScope] :
                           bindings[c].sym = bindings[b].sym => c = b
    BY DEF PopAssertion
  <2> DEFINE x == bindings[b].sym
             n == Len(chain[x])
  <2>1. x \in Uid /\ n \in Nat
    BY Typed DEF IInv, TypeOK
  <2>2. n > 0 /\ {c \in bindingList[topScope] : bindings[c].sym = x} = {chain[x][n]}
    BY <2>1, PoppedFromChain
  <2>3. \A c \in bindingList[topScope] : bindings[c].sym = x => c = chain[x][n]
    BY <2>2
  <2>4. chain[x] # <<>>
    BY <2>1, <2>2
  <2> QED BY <2>3, <2>4 DEF Lookup
<1> QED BY <1>1, SymbolTableInvariant, PTL

-----------------------------------------------------------------------------
(* A set of positions that is not empty has a last one.                    *)
LEMMA LastOfIsLast ==
  ASSUME NEW n \in Nat, NEW S \in SUBSET (1..n), S # {}
  PROVE  LastOf(S) \in S /\ \A j \in S : j <= LastOf(S)
<1> DEFINE T == {n - i : i \in S}
           R == OpToRel(<, Nat)
<1>1. T \subseteq Nat /\ T # {}
  <2>1. \A i \in S : n - i \in Nat
    OBVIOUS
  <2> QED BY <2>1, Zenon
<1>2. IsWellFoundedOn(R, Nat)
  BY NatLessThanWellFounded
<1>3. \A y, x \in Nat : y < x => <<y, x>> \in R
  BY DEF OpToRel
<1> HIDE DEF T, R
<1>4. PICK x \in T : \A y \in T : ~(<<y, x>> \in R)
  BY <1>1, <1>2, WFMin
<1>5. \A y \in T : x <= y
  <2> SUFFICES ASSUME NEW y \in T PROVE x <= y
    OBVIOUS
  <2>1. x \in Nat /\ y \in Nat
    BY <1>1
  <2>2. ~(y < x)
    BY <1>3, <1>4, <2>1, Zenon
  <2> QED BY <2>1, <2>2
<1>6. PICK i \in S : x = n - i
  BY DEF T
<1>7. \A j \in S : j <= i
  BY <1>5, <1>6 DEF T
<1> QED BY <1>6, <1>7 DEF LastOf

(* The positions of a chain that lookupHereAndUp can answer with.          *)
Visible(s, x) == {i \in 1..Len(chain[x]) : LevelOf(chain[x][i]) <= scopes[s].level}

(* What lookupHereAndUp answers depends on the visible part of the chain   *)
(* only.                                                                   *)
LEMMA SameVisible ==
  ASSUME IInv, NEW s \in Scope, NEW x \in Uid,
         scopes'[s].active = scopes[s].active,
         Visible(s, x)' = Visible(s, x),
         \A i \in Visible(s, x) : chain'[x][i] = chain[x][i]
  PROVE  LookupHereAndUp(s, x)' = LookupHereAndUp(s, x)
<1> DEFINE V == Visible(s, x)
<1>1. /\ LookupHereAndUp(s, x) =
           IF scopes[s].active /\ V # {} THEN chain[x][LastOf(V)] ELSE NoBinding
      /\ LookupHereAndUp(s, x)' =
           IF scopes'[s].active /\ V # {} THEN chain'[x][LastOf(V)] ELSE NoBinding
  <2>1. LookupHereAndUp(s, x)' =
          IF scopes'[s].active /\ Visible(s, x)' # {}
          THEN chain'[x][LastOf(Visible(s, x)')] ELSE NoBinding
    BY DEF LookupHereAndUp, Visible
  <2> QED BY <2>1 DEF LookupHereAndUp, Visible
<1>2. V # {} => LastOf(V) \in V
  <2>1. Len(chain[x]) \in Nat /\ V \in SUBSET (1..Len(chain[x]))
    BY Typed DEF IInv, Visible
  <2> QED BY <2>1, LastOfIsLast
<1> HIDE DEF V
<1>3. V # {} => chain'[x][LastOf(V)] = chain[x][LastOf(V)]
  BY <1>2 DEF V
<1> QED BY <1>1, <1>3

(* The levels of the open scopes grow towards topScope.                    *)
LEMMA TopIsDeepest ==
  ASSUME IInv, NEW s \in Scope, Active(s), s # topScope
  PROVE  /\ topScope \in Scope
         /\ scopes[s].level \in Int /\ scopes[topScope].level \in Int
         /\ scopes[s].level < scopes[topScope].level
<1>1. topScope \in Scope /\ Active(topScope) /\ s <= topScope
  BY DEF IInv, ScopeStack, TypeOK
<1>2. s \in Nat /\ topScope \in Nat
  BY <1>1, Typed DEF IInv
<1>3. scopes[s].level \in Int /\ scopes[topScope].level \in Int
  BY <1>1, Typed DEF IInv
<1> QED BY <1>1, <1>2, <1>3 DEF IInv, ScopeStack

LEMMA BindKeepsCaptured ==
  ASSUME IInv, NEW y \in Uid, Bind(y),
         NEW s \in Scope, Active(s), s # topScope, NEW x \in Uid
  PROVE  LookupHereAndUp(s, x)' = LookupHereAndUp(s, x)
<1> DEFINE n == Len(chain[x])
           b == Len(bindings) + 1
<1>1. /\ scopes' = scopes
      /\ bindings' = Append(bindings, [sym |-> y, scope |-> topScope])
      /\ chain' = [chain EXCEPT ![y] = Append(@, b)]
  BY DEF Bind, scopeVars
<1>2. n \in Nat /\ \A i \in 1..n : chain[x][i] \in Binding
  BY Typed DEF IInv
<1>3. scopes[s].level < scopes[topScope].level
      /\ scopes[s].level \in Int /\ scopes[topScope].level \in Int
  BY TopIsDeepest
<1>4. /\ \A c \in Binding : bindings'[c] = bindings[c]
      /\ bindings'[b].scope = topScope
  <2>1. [sym |-> y, scope |-> topScope] \in [sym : Uid, scope : Scope]
    BY TopIsDeepest
  <2> QED BY <1>1, <2>1, AppendProperties DEF IInv, TypeOK, Binding
<1> HIDE DEF b
<1>5. /\ \A i \in 1..n : chain'[x][i] = chain[x][i]
      /\ \/ Len(chain'[x]) = n
         \/ Len(chain'[x]) = n + 1 /\ chain'[x][n + 1] = b
  <2>1. DOMAIN chain = Uid /\ chain[x] \in Seq(Binding)
    BY DEF IInv, TypeOK
  <2>2. CASE x # y
    BY <1>1, <2>1, <2>2
  <2>3. CASE x = y
    <3>1. chain'[x] = Append(chain[x], b)
      BY <1>1, <2>1, <2>3
    <3>2. chain[x] \in Seq(Binding \cup {b})
      BY <2>1, SeqMonotonic
    <3> QED BY <3>1, <3>2, AppendProperties
  <2> QED BY <2>2, <2>3
<1>6. \A i \in 1..n : bindings'[chain'[x][i]].scope = bindings[chain[x][i]].scope
  BY <1>2, <1>4, <1>5
<1>7. Visible(s, x)' = Visible(s, x)
  <2>1. ASSUME NEW i \in 1..Len(chain'[x]),
               scopes'[bindings'[chain'[x][i]].scope].level <= scopes'[s].level
        PROVE  i \in 1..n
    <3>1. CASE Len(chain'[x]) = n
      BY <2>1, <3>1
    <3>2. CASE Len(chain'[x]) = n + 1 /\ chain'[x][n + 1] = b
      <4>1. i # n + 1
        <5> SUFFICES ASSUME i = n + 1 PROVE FALSE
          OBVIOUS
        <5>1. bindings'[chain'[x][i]].scope = topScope /\ scopes' = scopes
          BY <1>1, <1>4, <3>2
        <5>2. scopes[topScope].level <= scopes[s].level
          BY <2>1, <5>1
        <5> QED BY <1>3, <5>2
      <4> QED BY <1>2, <2>1, <3>2, <4>1
    <3> QED BY <1>5, <3>1, <3>2
  <2>2. \A i \in 1..n : i \in 1..Len(chain'[x])
    BY <1>2, <1>5
  <2> QED BY <1>1, <1>6, <2>1, <2>2 DEF Visible, LevelOf, Owner
<1> QED BY <1>1, <1>5, <1>7, SameVisible DEF Visible

LEMMA PopScopeKeepsCaptured ==
  ASSUME IInv, PopScope,
         NEW s \in Scope, Active(s), s # topScope, NEW x \in Uid
  PROVE  LookupHereAndUp(s, x)' = LookupHereAndUp(s, x)
<1> DEFINE n == Len(chain[x])
<1>1. /\ bindings' = bindings
      /\ \A t \in Scope : scopes'[t].level = scopes[t].level
      /\ scopes'[s].active = scopes[s].active
  <2>1. DOMAIN scopes = Scope
    BY LenProperties DEF IInv, TypeOK, Scope
  <2>2. topScope \in Scope
    BY TopIsDeepest
  <2>3. \A t \in Scope :
          scopes[t] \in [parent : Scope \cup {NoScope}, level : Int, active : BOOLEAN]
    BY ElementOfSeq DEF IInv, TypeOK, Scope
  <2> QED BY <2>1, <2>2, <2>3 DEF PopScope, bindingVars
<1>2. n \in Nat /\ \A i \in 1..n : Owner(chain[x][i]) \in Scope
  BY Typed DEF IInv
<1>3. scopes[s].level < scopes[topScope].level
      /\ scopes[s].level \in Int /\ scopes[topScope].level \in Int
  BY TopIsDeepest
<1>4. PICK m \in 0..n :
        /\ Len(chain'[x]) = m
        /\ \A i \in 1..m : chain'[x][i] = chain[x][i]
        /\ \A i \in 1..n : i <= m <=> Owner(chain[x][i]) # topScope
  BY PoppedChains
<1>5. \A i \in 1..n : LevelOf(chain[x][i]) <= scopes[s].level => i \in 1..m
  BY <1>2, <1>3, <1>4 DEF LevelOf
<1>6. \A i \in 1..m : i \in 1..n /\ bindings'[chain'[x][i]].scope = bindings[chain[x][i]].scope
  BY <1>1, <1>2, <1>4
<1>7. Visible(s, x)' = Visible(s, x)
  BY <1>1, <1>2, <1>4, <1>5, <1>6 DEF Visible, LevelOf, Owner
<1>8. \A i \in Visible(s, x) : chain'[x][i] = chain[x][i]
  BY <1>4, <1>5 DEF Visible
<1> QED BY <1>1, <1>7, <1>8, SameVisible

(* A scope captured by a macro sees the same bindings until it is the      *)
(* innermost scope again or is popped (Scope::lookupHereAndUp).            *)
THEOREM CapturedScopesAreStable == Spec => CapturedScopeStable
<1> DEFINE Stable == \A s \in Scope : Active(s) /\ s # topScope =>
              \A x \in Uid : LookupHereAndUp(s, x)' = LookupHereAndUp(s, x)
<1>1. IInv /\ [Next]_vars => [Stable]_vars
  <2> SUFFICES ASSUME IInv, [Next]_vars, NEW s \in Scope, Active(s), s # topScope, NEW x \in Uid
               PROVE  LookupHereAndUp(s, x)' = LookupHereAndUp(s, x)
    OBVIOUS
  <2>1. ASSUME UNCHANGED <<bindings>>, scopes'[s] = scopes[s],
               \A t \in Scope : scopes'[t].level = scopes[t].level, chain'[x] = chain[x]
        PROVE  LookupHereAndUp(s, x)' = LookupHereAndUp(s, x)
    <3>1. \A i \in 1..Len(chain[x]) : Owner(chain[x][i]) \in Scope
      BY Typed DEF IInv
    <3>2. Visible(s, x)' = Visible(s, x)
      BY <2>1, <3>1 DEF Visible, LevelOf, Owner
    <3> QED BY <2>1, <3>2, SameVisible
  <2>2. ASSUME NEW sym, AddSymbol(sym), UNCHANGED <<bindings, scopes>>
        PROVE  LookupHereAndUp(s, x)' = LookupHereAndUp(s, x)
    <3>1. chain'[x] = chain[x]
      BY <2>2 DEF AddSymbol, Extend, Uid, IInv, TypeOK
    <3> QED BY <2>1, <2>2, <3>1
  <2>3. CASE \E n \in Name : NewSymbol(n)
    BY <2>2, <2>3 DEF NewSymbol, bindingVars, scopeVars
  <2>4. CASE \E p \in Uid, k \in 1..markStamp : NewMarkedSymbol(p, k)
    BY <2>2, <2>4 DEF NewMarkedSymbol, bindingVars, scopeVars
  <2>5. CASE NextMarkStamp
    BY <2>1, <2>5 DEF NextMarkStamp, bindingVars, scopeVars
  <2>6. CASE NewScope
    <3>1. \A t \in Scope : scopes'[t] = scopes[t]
      <4> DEFINE rec == [parent |-> topScope,
                         level |-> IF topScope = NoScope THEN -1 ELSE scopes[topScope].level + 1,
                         active |-> TRUE]
      <4>1. rec \in [parent : Scope \cup {NoScope}, level : Int, active : BOOLEAN]
        BY Typed DEF IInv, TypeOK
      <4>2. scopes' = Append(scopes, rec)
        BY <2>6 DEF NewScope
      <4> HIDE DEF rec
      <4> QED BY <4>1, <4>2, AppendProperties DEF IInv, TypeOK, Scope
    <3>2. chain' = chain /\ bindings' = bindings
      BY <2>6 DEF NewScope
    <3> QED BY <2>1, <3>1, <3>2
  <2>7. CASE \E y \in Uid : Bind(y)
    BY <2>7, BindKeepsCaptured
  <2>8. CASE PopScope
    BY <2>8, PopScopeKeepsCaptured
  <2>9. CASE UNCHANGED vars
    BY <2>1, <2>9 DEF vars
  <2> QED BY <2>3, <2>4, <2>5, <2>6, <2>7, <2>8, <2>9 DEF Next
<1> QED BY <1>1, SymbolTableInvariant, PTL DEF Spec, CapturedScopeStable

-----------------------------------------------------------------------------
(* Interned is inductive together with the converse: the tables know every *)
(* symbol.                                                                 *)
SymbolsInTables ==
  \A x \in Uid :
    IF symbols[x].parentSymbol = NoSymbol
    THEN /\ symbols[x].markStamp = 0
         /\ symbols[x].name \in DOMAIN map
         /\ map[symbols[x].name] = x
    ELSE /\ <<symbols[x].markStamp, symbols[x].parentSymbol>> \in DOMAIN markMap
         /\ markMap[<<symbols[x].markStamp, symbols[x].parentSymbol>>] = x

LEMMA NewSymbolInterned ==
  ASSUME TypeOK, Interned, SymbolsInTables, NEW n \in Name, NewSymbol(n)
  PROVE  Interned' /\ SymbolsInTables'
<1> DEFINE sym == [name |-> n, parentSymbol |-> NoSymbol, markStamp |-> 0]
<1>1. /\ uid \in Nat /\ Uid' = Uid \cup {uid} /\ uid \notin Uid
      /\ \A x \in Uid : symbols'[x] = symbols[x]
      /\ symbols'[uid] = sym
  BY DEF NewSymbol, AddSymbol, Extend, TypeOK, Uid
<1>2. /\ n \notin DOMAIN map
      /\ DOMAIN map' = DOMAIN map \cup {n}
      /\ \A m \in DOMAIN map : map'[m] = map[m] /\ map[m] \in Uid
      /\ map'[n] = uid
      /\ markMap' = markMap
  BY DEF NewSymbol, Extend, TypeOK
<1>3. \A k \in DOMAIN markMap : markMap[k] \in Uid /\ k[2] \in Uid
  BY DEF TypeOK
<1>4. \A x \in Uid : symbols[x] # sym
  <2> SUFFICES ASSUME NEW x \in Uid, symbols[x] = sym PROVE FALSE
    OBVIOUS
  <2>1. symbols[x].parentSymbol = NoSymbol /\ symbols[x].name = n
    OBVIOUS
  <2> QED BY <1>2, <2>1 DEF SymbolsInTables
<1>5. Interned'
  BY <1>1, <1>2, <1>3, <1>4 DEF Interned
<1>6. SymbolsInTables'
  BY <1>1, <1>2 DEF SymbolsInTables
<1> QED BY <1>5, <1>6

LEMMA NewMarkedSymbolInterned ==
  ASSUME TypeOK, Interned, SymbolsInTables,
         NEW p \in Uid, NEW k \in 1..markStamp, NewMarkedSymbol(p, k)
  PROVE  Interned' /\ SymbolsInTables'
<1> DEFINE sym == [name |-> symbols[p].name, parentSymbol |-> p, markStamp |-> k]
<1>1. /\ uid \in Nat /\ Uid' = Uid \cup {uid} /\ uid \notin Uid
      /\ \A x \in Uid : symbols'[x] = symbols[x]
      /\ symbols'[uid] = sym
      /\ p # NoSymbol
  BY DEF NewMarkedSymbol, AddSymbol, Extend, TypeOK, Uid, NoSymbol
<1>2. /\ <<k, p>> \notin DOMAIN markMap
      /\ DOMAIN markMap' = DOMAIN markMap \cup {<<k, p>>}
      /\ \A key \in DOMAIN markMap : markMap'[key] = markMap[key]
      /\ markMap'[<<k, p>>] = uid
      /\ map' = map
  BY DEF NewMarkedSymbol, Extend
<1>3. /\ \A key \in DOMAIN markMap : markMap[key] \in Uid /\ key[2] \in Uid
      /\ \A m \in DOMAIN map : map[m] \in Uid
  BY DEF TypeOK
<1>4. \A x \in Uid : symbols[x] # sym
  BY <1>1, <1>2 DEF SymbolsInTables
<1>5. Interned'
  <2>1. \A x, y \in Uid' : symbols'[x] = symbols'[y] => x = y
    BY <1>1, <1>4 DEF Interned
  <2>2. \A n \in DOMAIN map' :
          symbols'[map'[n]] = [name |-> n, parentSymbol |-> NoSymbol, markStamp |-> 0]
    BY <1>1, <1>2, <1>3 DEF Interned
  <2>3. ASSUME NEW key \in DOMAIN markMap'
        PROVE  /\ symbols'[markMap'[key]].markStamp = key[1]
               /\ symbols'[markMap'[key]].parentSymbol = key[2]
               /\ symbols'[markMap'[key]].name = symbols'[key[2]].name
    <3>1. CASE key = <<k, p>>
      BY <1>1, <1>2, <3>1
    <3>2. CASE key \in DOMAIN markMap
      BY <1>1, <1>2, <1>3, <3>2 DEF Interned
    <3> QED BY <1>2, <3>1, <3>2
  <2> QED BY <2>1, <2>2, <2>3 DEF Interned
<1>6. SymbolsInTables'
  <2> SUFFICES ASSUME NEW x \in Uid'
               PROVE  IF symbols'[x].parentSymbol = NoSymbol
                      THEN /\ symbols'[x].markStamp = 0
                           /\ symbols'[x].name \in DOMAIN map'
                           /\ map'[symbols'[x].name] = x
                      ELSE /\ <<symbols'[x].markStamp, symbols'[x].parentSymbol>>
                                 \in DOMAIN markMap'
                           /\ markMap'[<<symbols'[x].markStamp,
                                         symbols'[x].parentSymbol>>] = x
    BY DEF SymbolsInTables
  <2>1. CASE x = uid
    <3>1. symbols'[x].parentSymbol = p /\ symbols'[x].markStamp = k
      BY <1>1, <2>1
    <3> QED BY <1>1, <1>2, <2>1, <3>1
  <2>2. CASE x \in Uid
    BY <1>1, <1>2, <2>2 DEF SymbolsInTables
  <2> QED BY <1>1, <2>1, <2>2
<1> QED BY <1>5, <1>6

(* No two symbols have the same name and marks: comparing symbols by       *)
(* pointer, as the whole parser does, compares what they stand for.        *)
THEOREM SymbolsAreInterned == Spec => []Interned
<1>1. Init => Interned /\ SymbolsInTables
  BY DEF Init, Interned, SymbolsInTables, Uid
<1>2. TypeOK /\ Interned /\ SymbolsInTables /\ [Next]_vars => (Interned /\ SymbolsInTables)'
  <2> SUFFICES ASSUME TypeOK, Interned, SymbolsInTables, [Next]_vars
               PROVE  Interned' /\ SymbolsInTables'
    OBVIOUS
  <2>1. ASSUME UNCHANGED symbolVars
        PROVE  Interned' /\ SymbolsInTables'
    BY <2>1 DEF symbolVars, Interned, SymbolsInTables, Uid
  <2>2. CASE NextMarkStamp \/ NewScope \/ (\E x \in Uid : Bind(x)) \/ PopScope
    BY <2>1, <2>2 DEF NextMarkStamp, NewScope, Bind, PopScope
  <2>3. CASE UNCHANGED vars
    BY <2>1, <2>3 DEF vars, symbolVars
  <2> QED BY <2>2, <2>3, NewSymbolInterned, NewMarkedSymbolInterned DEF Next
<1> QED BY <1>1, <1>2, TypeCorrect, PTL DEF Spec

-----------------------------------------------------------------------------
(***************************************************************************)
(* SymbolTable implements LexicalEnv, and its lookups give the meaning     *)
(* that the lexical environment gives, for every set of names and every    *)
(* bound.                                                                  *)
(***************************************************************************)

(* The environment is the open scopes by level: no level between the       *)
(* outermost scope's and topScope's is without one.  Nothing is allocated  *)
(* beyond the bounds, which are the sets of identities of LexicalEnv.      *)
LevelsOpen ==
  \A s \in Scope : Active(s) =>
    /\ -1 <= scopes[s].level
    /\ \A l \in -1..scopes[s].level : \E t \in Scope : Active(t) /\ scopes[t].level = l

Bounded ==
  /\ uid <= MaxSymbols
  /\ Len(scopes) <= MaxScopes
  /\ Len(bindings) <= MaxBindings

EnvInv == IInv /\ LevelsOpen /\ Bounded

-----------------------------------------------------------------------------
(* What a new scope, a new binding and a popped scope change               *)
LEMMA NewScopeEffect ==
  ASSUME IInv, NewScope
  PROVE  LET s == Len(scopes) + 1
         IN  /\ Scope' = Scope \cup {s} /\ s \notin Scope /\ s \in Nat /\ s <= MaxScopes
             /\ topScope' = s /\ topScope' # NoScope
             /\ UNCHANGED <<bindings, chain, uid, markStamp, symbols>>
             /\ \A t \in Scope : scopes'[t] = scopes[t] /\ bindingList'[t] = bindingList[t]
             /\ scopes'[s].active
             /\ scopes'[s].level = IF topScope = NoScope THEN -1 ELSE scopes[topScope].level + 1
             /\ bindingList'[s] = {}
             /\ Len(scopes') = s
<1> DEFINE s == Len(scopes) + 1
           rec == [parent |-> topScope,
                   level |-> IF topScope = NoScope THEN -1 ELSE scopes[topScope].level + 1,
                   active |-> TRUE]
           R == [parent : Scope \cup {NoScope}, level : Int, active : BOOLEAN]
           B == SUBSET Binding
<1>1. /\ Len(scopes) \in Nat /\ Len(bindingList) = Len(scopes) /\ MaxScopes \in Nat
      /\ topScope \in Scope \cup {NoScope}
      /\ \A t \in Scope : scopes[t].level \in Int
  BY Typed, Bounds DEF IInv, TypeOK
<1>2. /\ scopes' = Append(scopes, rec) /\ bindingList' = Append(bindingList, {})
      /\ topScope' = s /\ Len(scopes) < MaxScopes
      /\ UNCHANGED <<bindings, chain, uid, markStamp, symbols>>
  BY DEF NewScope, symbolVars
<1>3. rec \in R /\ scopes \in Seq(R) /\ bindingList \in Seq(B) /\ {} \in B
  BY <1>1 DEF IInv, TypeOK
<1>4. rec.active /\ rec.level = IF topScope = NoScope THEN -1 ELSE scopes[topScope].level + 1
  OBVIOUS
<1> HIDE DEF rec, R, B
<1>5. /\ Len(scopes') = s /\ scopes'[s] = rec
      /\ \A t \in 1..Len(scopes) : scopes'[t] = scopes[t]
  BY <1>2, <1>3, AppendProperties
<1>6. /\ bindingList'[s] = {} /\ \A t \in 1..Len(scopes) : bindingList'[t] = bindingList[t]
  BY <1>1, <1>2, <1>3, AppendProperties
<1>7. Scope' = Scope \cup {s} /\ s \notin Scope /\ s \in Nat /\ s # NoScope /\ s <= MaxScopes
  BY <1>1, <1>2, <1>5 DEF Scope, NoScope
<1> QED BY <1>2, <1>4, <1>5, <1>6, <1>7 DEF Scope

LEMMA PopScopeEffect ==
  ASSUME IInv, PopScope
  PROVE  /\ Scope' = Scope /\ topScope \in Scope /\ Active(topScope)
         /\ Len(scopes') = Len(scopes)
         /\ topScope' = scopes[topScope].parent
         /\ UNCHANGED <<bindings, bindingList, uid, markStamp, symbols>>
         /\ \A s \in Scope : /\ scopes'[s].level = scopes[s].level
                             /\ scopes'[s].active <=> s # topScope /\ scopes[s].active
<1> DEFINE R == [parent : Scope \cup {NoScope}, level : Int, active : BOOLEAN]
           e == [scopes[topScope] EXCEPT !.active = FALSE]
<1>1. /\ topScope # NoScope /\ topScope \in Scope /\ Active(topScope)
      /\ scopes' = [scopes EXCEPT ![topScope].active = FALSE]
      /\ topScope' = scopes[topScope].parent
      /\ UNCHANGED <<bindings, bindingList, uid, markStamp, symbols>>
  BY DEF PopScope, symbolVars, bindingVars, IInv, TypeOK, ScopeStack
<1>2. scopes \in Seq(R) /\ topScope \in 1..Len(scopes) /\ scopes[topScope] \in R
  BY <1>1, ElementOfSeq DEF IInv, TypeOK, Scope
<1>3. e \in R /\ e.active = FALSE /\ e.level = scopes[topScope].level
  BY <1>2
<1>4. scopes' = [scopes EXCEPT ![topScope] = e]
  BY <1>1
<1> HIDE DEF R, e
<1>5. /\ Len(scopes') = Len(scopes)
      /\ \A s \in 1..Len(scopes) : scopes'[s] = IF s = topScope THEN e ELSE scopes[s]
  BY <1>2, <1>3, <1>4, ExceptSeq
<1>6. ASSUME NEW s \in Scope
      PROVE  /\ scopes'[s].level = scopes[s].level
             /\ scopes'[s].active <=> s # topScope /\ scopes[s].active
  <2>1. scopes'[s] = IF s = topScope THEN e ELSE scopes[s]
    BY <1>5 DEF Scope
  <2> QED BY <1>3, <2>1
<1> QED BY <1>1, <1>5, <1>6 DEF Scope

LEMMA BindEffect ==
  ASSUME IInv, NEW x \in Uid, Bind(x)
  PROVE  LET b == Len(bindings) + 1
         IN  /\ UNCHANGED <<scopes, topScope, uid, markStamp, symbols>>
             /\ topScope \in Scope /\ Active(topScope)
             /\ Len(bindings') = b /\ b <= MaxBindings /\ b \in Nat
             /\ Binding' = Binding \cup {b} /\ b \notin Binding
             /\ \A c \in Binding : bindings'[c] = bindings[c]
             /\ bindings'[b].sym = x
             /\ bindingList'[topScope] = bindingList[topScope] \cup {b}
             /\ \A s \in Scope : s # topScope => bindingList'[s] = bindingList[s]
             /\ LookupOnlyHere(topScope, x) = NoBinding
<1> DEFINE b == Len(bindings) + 1
           rec == [sym |-> x, scope |-> topScope]
           R == [sym : Uid, scope : Scope]
           B == SUBSET Binding
<1>1. /\ UNCHANGED <<scopes, topScope, uid, markStamp, symbols>>
      /\ topScope \in Scope /\ Active(topScope)
      /\ LookupOnlyHere(topScope, x) = NoBinding
      /\ bindings' = Append(bindings, rec) /\ b <= MaxBindings
      /\ bindingList' = [bindingList EXCEPT ![topScope] = bindingList[topScope] \cup {b}]
  BY DEF Bind, symbolVars, scopeVars, IInv, TypeOK, ScopeStack
<1>2. Len(bindings) \in Nat /\ bindings \in Seq(R) /\ rec \in R /\ rec.sym = x
      /\ DOMAIN bindingList = Scope
  BY <1>1, Typed DEF IInv, TypeOK, Scope
<1> HIDE DEF rec, R
<1>3. /\ Len(bindings') = b /\ bindings'[b] = rec
      /\ \A c \in 1..Len(bindings) : bindings'[c] = bindings[c]
  BY <1>1, <1>2, AppendProperties
<1>4. Binding' = Binding \cup {b} /\ b \notin Binding /\ b \in Nat
  BY <1>2, <1>3 DEF Binding
<1>5. /\ bindingList'[topScope] = bindingList[topScope] \cup {b}
      /\ \A s \in Scope : s # topScope => bindingList'[s] = bindingList[s]
  BY <1>1, <1>2
<1> QED BY <1>1, <1>2, <1>3, <1>4, <1>5 DEF Binding

-----------------------------------------------------------------------------
(* The strengthened invariant                                              *)
LEMMA NewScopeLevels ==
  ASSUME EnvInv, NewScope
  PROVE  LevelsOpen' /\ Bounded'
<1> DEFINE s == Len(scopes) + 1
<1>0. IInv /\ LevelsOpen /\ Bounded
  BY DEF EnvInv
<1>1. /\ Scope' = Scope \cup {s} /\ s <= MaxScopes /\ Len(scopes') = s
      /\ UNCHANGED <<bindings, uid>>
      /\ \A t \in Scope : scopes'[t] = scopes[t]
      /\ scopes'[s].active
      /\ scopes'[s].level = IF topScope = NoScope THEN -1 ELSE scopes[topScope].level + 1
  BY <1>0, NewScopeEffect
<1>2. /\ \A t \in Scope : scopes[t].level \in Int
      /\ topScope # NoScope => topScope \in Scope /\ scopes[topScope].active
      /\ \A t \in Scope : scopes[t].active =>
           /\ -1 <= scopes[t].level
           /\ \A l \in -1..scopes[t].level :
                \E u \in Scope : scopes[u].active /\ scopes[u].level = l
  BY <1>0, Typed DEF IInv, TypeOK, ScopeStack, LevelsOpen, Active
<1> HIDE DEF s
<1>3. ASSUME NEW t \in Scope', scopes'[t].active
      PROVE  /\ -1 <= scopes'[t].level
             /\ \A l \in -1..scopes'[t].level :
                  \E u \in Scope' : scopes'[u].active /\ scopes'[u].level = l
  <2>1. CASE t \in Scope
    BY <1>1, <1>2, <1>3, <2>1
  <2>2. CASE t = s /\ topScope = NoScope
    BY <1>1, <1>2, <2>2
  <2>3. CASE t = s /\ topScope # NoScope
    <3>1. /\ scopes[topScope].level \in Int /\ -1 <= scopes[topScope].level
          /\ scopes'[s].level = scopes[topScope].level + 1
          /\ \A l \in -1..scopes[topScope].level :
               \E u \in Scope : scopes[u].active /\ scopes[u].level = l
      BY <1>1, <1>2, <2>3
    <3>2. ASSUME NEW l \in -1..scopes'[s].level
          PROVE  \E u \in Scope' : scopes'[u].active /\ scopes'[u].level = l
      <4>1. CASE l \in -1..scopes[topScope].level
        BY <1>1, <3>1, <4>1
      <4>2. CASE l = scopes'[s].level
        BY <1>1, <4>2
      <4> QED BY <3>1, <4>1, <4>2
    <3> QED BY <2>3, <3>1, <3>2
  <2> QED BY <1>1, <2>1, <2>2, <2>3
<1>4. LevelsOpen'
  BY <1>3 DEF LevelsOpen, Active
<1> QED BY <1>0, <1>1, <1>4 DEF Bounded

LEMMA PopScopeLevels ==
  ASSUME EnvInv, PopScope
  PROVE  LevelsOpen' /\ Bounded'
<1>0. IInv /\ LevelsOpen /\ Bounded
  BY DEF EnvInv
<1>1. /\ Scope' = Scope /\ Len(scopes') = Len(scopes) /\ UNCHANGED <<bindings, uid>>
      /\ \A s \in Scope : /\ scopes'[s].level = scopes[s].level
                          /\ scopes'[s].active <=> s # topScope /\ scopes[s].active
  BY <1>0, PopScopeEffect
<1>2. ASSUME NEW s \in Scope', scopes'[s].active
      PROVE  /\ -1 <= scopes'[s].level
             /\ \A l \in -1..scopes'[s].level :
                  \E t \in Scope' : scopes'[t].active /\ scopes'[t].level = l
  <2>1. s \in Scope /\ scopes[s].active /\ s # topScope /\ scopes'[s].level = scopes[s].level
    BY <1>1, <1>2
  <2>2. /\ scopes[s].level \in Int /\ scopes[topScope].level \in Int
        /\ scopes[s].level < scopes[topScope].level
    BY <1>0, <2>1, TopIsDeepest DEF Active
  <2>3. -1 <= scopes[s].level
    BY <1>0, <2>1 DEF LevelsOpen, Active
  <2>4. ASSUME NEW l \in -1..scopes[s].level
        PROVE  \E t \in Scope : scopes'[t].active /\ scopes'[t].level = l
    <3>1. PICK t \in Scope : scopes[t].active /\ scopes[t].level = l
      BY <1>0, <2>1 DEF LevelsOpen, Active
    <3>2. t # topScope
      BY <2>2, <3>1
    <3> QED BY <1>1, <3>1, <3>2
  <2> QED BY <1>1, <2>1, <2>3, <2>4
<1>3. LevelsOpen'
  BY <1>2 DEF LevelsOpen, Active
<1> QED BY <1>0, <1>1, <1>3 DEF Bounded

LEMMA SymbolsLevels ==
  ASSUME EnvInv, \/ \E n \in Name : NewSymbol(n)
                 \/ \E p \in Uid, k \in 1..markStamp : NewMarkedSymbol(p, k)
                 \/ NextMarkStamp
                 \/ UNCHANGED vars
  PROVE  /\ LevelsOpen' /\ Bounded'
         /\ UNCHANGED <<scopes, topScope, bindings, bindingList>>
<1>1. /\ UNCHANGED <<scopes, topScope, bindings, bindingList>>
      /\ (uid' = uid \/ (uid' = uid + 1 /\ uid < MaxSymbols))
  BY DEF NewSymbol, NewMarkedSymbol, AddSymbol, NextMarkStamp, vars, scopeVars, bindingVars,
         symbolVars
<1>2. uid' <= MaxSymbols
  BY <1>1, Bounds DEF EnvInv, IInv, TypeOK, Bounded
<1> QED BY <1>1, <1>2 DEF EnvInv, LevelsOpen, Bounded, Active, Scope

LEMMA BindLevels ==
  ASSUME EnvInv, NEW x \in Uid, Bind(x)
  PROVE  LevelsOpen' /\ Bounded'
BY BindEffect DEF EnvInv, LevelsOpen, Bounded, Active, Scope

(* EnvInv holds always.                                                    *)
THEOREM EnvInvariant == Spec => []EnvInv
<1>1. Init => EnvInv
  <2>1. Init => LevelsOpen
    BY DEF Init, LevelsOpen, Scope
  <2>2. Init => Bounded
    BY Bounds DEF Init, Bounded
  <2> QED BY <2>1, <2>2, InitIInv DEF EnvInv
<1>2. EnvInv /\ [Next]_vars => EnvInv'
  <2> SUFFICES ASSUME EnvInv, [Next]_vars PROVE EnvInv'
    OBVIOUS
  <2>1. IInv'
    BY NewSymbolIInv, NewMarkedSymbolIInv, NextMarkStampIInv, NewScopeIInv, BindIInv,
       PopScopeIInv, UnchangedIInv DEF Next, EnvInv
  <2>2. LevelsOpen' /\ Bounded'
    BY NewScopeLevels, PopScopeLevels, SymbolsLevels, BindLevels DEF Next
  <2> QED BY <2>1, <2>2 DEF EnvInv
<1> QED BY <1>1, <1>2, PTL DEF Spec

-----------------------------------------------------------------------------
(* The frames of the environment                                           *)

(* f is the frame of scope s: the bindings of its list L, by their symbol. *)
IsFrameOf(f, s, L, bs) ==
  /\ f = [scope |-> s, vars |-> f.vars]
  /\ f.vars = [x \in {bs[b].sym : b \in L} |-> f.vars[x]]
  /\ \A b \in L : f.vars[bs[b].sym] = b

(* A scope has one frame.                                                  *)
LEMMA FrameUnique ==
  ASSUME NEW f, NEW g, NEW s, NEW L, NEW bs, NEW cs,
         IsFrameOf(f, s, L, bs), IsFrameOf(g, s, L, cs),
         \A b \in L : bs[b].sym = cs[b].sym
  PROVE  f = g
<1> DEFINE D == {bs[b].sym : b \in L}
<1>1. D = {cs[b].sym : b \in L}
  OBVIOUS
<1>2. f.vars = [x \in D |-> f.vars[x]] /\ g.vars = [x \in D |-> g.vars[x]]
  BY <1>1, Zenon DEF IsFrameOf
<1>3. ASSUME NEW x \in D PROVE f.vars[x] = g.vars[x]
  <2>1. PICK b \in L : x = bs[b].sym
    BY <1>3
  <2> QED BY <2>1 DEF IsFrameOf
<1> HIDE DEF D
<1>4. f.vars = g.vars
  BY <1>2, <1>3
<1> QED BY <1>4, Zenon DEF IsFrameOf

(* The environment has one frame for every level of the open scopes.       *)
EnvShape ==
  /\ Depth \in Nat
  /\ envBar = [i \in 1..Depth |-> envBar[i]]
  /\ topScope = NoScope => Depth = 0
  /\ topScope # NoScope => /\ topScope \in Scope /\ scopes[topScope].active
                           /\ Depth > 0 /\ scopes[topScope].level = Depth - 2
  /\ \A i \in 1..Depth : \E s \in Scope : scopes[s].active /\ scopes[s].level = i - 2
  /\ \A s \in Scope, i \in Int : scopes[s].active /\ scopes[s].level = i - 2 =>
       i \in 1..Depth /\ IsFrameOf(envBar[i], s, bindingList[s], bindings)

(* No scope binds a symbol twice.                                          *)
LEMMA BoundOnce ==
  ASSUME IInv, NEW s \in Scope, scopes[s].active,
         NEW b \in bindingList[s], NEW c \in bindingList[s], bindings[b].sym = bindings[c].sym
  PROVE  b = c
<1> DEFINE x == bindings[b].sym
<1>1. x \in Uid /\ s \in Nat
  BY Typed DEF IInv
<1>2. Owner(b) = s /\ Owner(c) = s
  BY DEF IInv, ListsReachable
<1>3. PICK i \in 1..Len(chain[x]) : chain[x][i] = b
  BY DEF IInv, ListsReachable, Active
<1>4. PICK j \in 1..Len(chain[x]) : chain[x][j] = c
  BY DEF IInv, ListsReachable, Active
<1>5. ~(i < j) /\ ~(j < i)
  BY <1>1, <1>2, <1>3, <1>4 DEF IInv, ChainsNested
<1>6. i = j
  BY <1>1, <1>5, Typed DEF IInv
<1> QED BY <1>3, <1>4, <1>6

LEMMA FrameOfScope ==
  ASSUME IInv, NEW s \in Scope, scopes[s].active
  PROVE  IsFrameOf([scope |-> s, vars |-> VarsOf(s)], s, bindingList[s], bindings)
<1> DEFINE L == bindingList[s]
           D == {bindings[b].sym : b \in L}
           v == [x \in D |-> CHOOSE b \in L : bindings[b].sym = x]
<1>1. VarsOf(s) = v
  BY DEF VarsOf
<1>2. ASSUME NEW b \in L PROVE v[bindings[b].sym] = b
  <2> DEFINE x == bindings[b].sym
             c == CHOOSE a \in L : bindings[a].sym = x
  <2>1. c \in L /\ bindings[c].sym = x
    OBVIOUS
  <2>2. c = b
    BY <2>1, BoundOnce
  <2>3. x \in D
    OBVIOUS
  <2> QED BY <2>2, <2>3
<1>3. v = [x \in D |-> v[x]]
  OBVIOUS
<1> HIDE DEF v
<1> QED BY <1>1, <1>2, <1>3 DEF IsFrameOf

LEMMA LevelsDiffer ==
  ASSUME IInv, NEW s \in Scope, NEW t \in Scope, scopes[s].active, scopes[t].active,
         scopes[s].level = scopes[t].level
  PROVE  s = t
<1>1. s \in Nat /\ t \in Nat /\ scopes[s].level \in Int /\ scopes[t].level \in Int
  BY Typed DEF IInv
<1>2. ~(s < t) /\ ~(t < s)
  BY <1>1 DEF IInv, ScopeStack, Active
<1> QED BY <1>1, <1>2

LEMMA Shape == EnvInv => EnvShape
<1> SUFFICES ASSUME EnvInv PROVE EnvShape
  OBVIOUS
<1>0. IInv /\ LevelsOpen
  BY DEF EnvInv
<1>1. /\ \A s \in Scope : s \in Nat /\ s # NoScope /\ scopes[s].level \in Int
      /\ topScope # NoScope => topScope \in Scope /\ scopes[topScope].active
  BY <1>0, Typed DEF IInv, TypeOK, ScopeStack, Active, NoScope
<1>2. \A s \in Scope : scopes[s].active =>
        -1 <= scopes[s].level /\ topScope # NoScope
        /\ (s = topScope \/ scopes[s].level < scopes[topScope].level)
  BY <1>0, <1>1, TopIsDeepest DEF IInv, LevelsOpen, ScopeStack, Active
<1>3. /\ Depth \in Nat
      /\ topScope = NoScope => Depth = 0
      /\ topScope # NoScope => Depth > 0 /\ scopes[topScope].level = Depth - 2
  <2>1. CASE topScope = NoScope
    BY <2>1 DEF Depth
  <2>2. CASE topScope # NoScope
    <3>1. Depth = scopes[topScope].level + 2 /\ scopes[topScope].level \in Int
          /\ -1 <= scopes[topScope].level
      BY <1>1, <1>2, <2>2 DEF Depth
    <3> QED BY <2>2, <3>1
  <2> QED BY <2>1, <2>2
<1>4. envBar = [i \in 1..Depth |-> envBar[i]]
      /\ \A i \in 1..Depth :
           envBar[i] = [scope |-> ScopeAt(i), vars |-> VarsOf(ScopeAt(i))]
  BY DEF envBar
<1>5. ASSUME NEW i \in 1..Depth
      PROVE  \E s \in Scope : scopes[s].active /\ scopes[s].level = i - 2
  <2>1. topScope # NoScope
    BY <1>3
  <2>2. i - 2 \in -1..scopes[topScope].level
    BY <1>3, <2>1
  <2> QED BY <1>0, <1>1, <2>1, <2>2 DEF LevelsOpen, Active
<1>6. ASSUME NEW s \in Scope, NEW i \in Int, scopes[s].active, scopes[s].level = i - 2
      PROVE  i \in 1..Depth /\ IsFrameOf(envBar[i], s, bindingList[s], bindings)
  <2>1. i \in 1..Depth
    BY <1>1, <1>2, <1>3, <1>6
  <2>2. ScopeAt(i) = s
    <3>1. \A t \in Scope : Active(t) /\ scopes[t].level = i - 2 => t = s
      BY <1>0, <1>6, LevelsDiffer DEF Active
    <3> QED BY <1>6, <3>1 DEF ScopeAt, Active
  <2> QED BY <1>0, <1>4, <1>6, <2>1, <2>2, FrameOfScope
<1> QED BY <1>1, <1>3, <1>4, <1>5, <1>6 DEF EnvShape

-----------------------------------------------------------------------------
(* Every operation is one of the environment's                             *)

LEMMA AppendIsFunction ==
  ASSUME NEW n \in Nat, NEW e, e = [i \in 1..n |-> e[i]], NEW f
  PROVE  /\ Len(e) = n
         /\ Append(e, f) = [i \in 1..(n + 1) |-> IF i = n + 1 THEN f ELSE e[i]]
<1> DEFINE S == {e[i] : i \in 1..n} \cup {f}
           g == [i \in 1..(n + 1) |-> IF i = n + 1 THEN f ELSE e[i]]
<1>1. e \in Seq(S) /\ Len(e) = n
  <2>1. e \in [1..n -> S]
    OBVIOUS
  <2> HIDE DEF S
  <2> QED BY <2>1
<1>2. g \in Seq(S) /\ Len(g) = n + 1
  <2>1. g \in [1..(n + 1) -> S] /\ n + 1 \in Nat
    OBVIOUS
  <2> HIDE DEF S, g
  <2> QED BY <2>1
<1>3. f \in S
  OBVIOUS
<1> HIDE DEF S
<1>4. /\ Append(e, f) \in Seq(S) /\ Len(Append(e, f)) = n + 1
      /\ \A i \in 1..n : Append(e, f)[i] = e[i]
      /\ Append(e, f)[n + 1] = f
  BY <1>1, <1>3, AppendProperties
<1>5. \A i \in 1..(n + 1) : Append(e, f)[i] = g[i]
  <2> SUFFICES ASSUME NEW i \in 1..(n + 1) PROVE Append(e, f)[i] = g[i]
    OBVIOUS
  <2>1. CASE i = n + 1
    BY <1>4, <2>1
  <2>2. CASE i \in 1..n
    BY <1>4, <2>2
  <2> QED BY <2>1, <2>2
<1> HIDE DEF g
<1>6. Append(e, f) = g
  BY <1>2, <1>4, <1>5, SeqEqual
<1> QED BY <1>1, <1>6 DEF g

LEMMA FrontElements ==
  ASSUME NEW S, NEW e, NEW k \in Nat, \A i \in 1..k : e[i] \in S
  PROVE  /\ SubSeq(e, 1, k) \in Seq(S)
         /\ Len(SubSeq(e, 1, k)) = k
         /\ \A i \in 1..k : SubSeq(e, 1, k)[i] = e[i]
<1>1. /\ SubSeq(e, 1, k) \in Seq(S)
      /\ Len(SubSeq(e, 1, k)) = IF 1 <= k THEN k - 1 + 1 ELSE 0
      /\ \A i \in 1..(k - 1 + 1) : SubSeq(e, 1, k)[i] = e[1 + i - 1]
  BY SubSeqProperties
<1> QED BY <1>1

LEMMA FrontIsFunction ==
  ASSUME NEW S, NEW n \in Nat, n > 0, NEW e \in [1..n -> S]
  PROVE  /\ Len(e) = n
         /\ SubSeq(e, 1, n - 1) = [i \in 1..(n - 1) |-> e[i]]
<1> DEFINE k == n - 1
           g == [i \in 1..k |-> e[i]]
<1>1. e \in Seq(S) /\ Len(e) = n
  OBVIOUS
<1>2. k \in Nat /\ \A i \in 1..k : e[i] \in S
  OBVIOUS
<1> HIDE DEF k
<1>3. g \in Seq(S) /\ Len(g) = k
  <2>1. g \in [1..k -> S]
    BY <1>2
  <2> HIDE DEF g
  <2> QED BY <1>2, <2>1
<1>4. /\ SubSeq(e, 1, k) \in Seq(S) /\ Len(SubSeq(e, 1, k)) = k
      /\ \A i \in 1..k : SubSeq(e, 1, k)[i] = e[i]
  BY <1>2, FrontElements
<1>5. \A i \in 1..k : SubSeq(e, 1, k)[i] = g[i]
  BY <1>4
<1> HIDE DEF g
<1>6. SubSeq(e, 1, k) = g
  BY <1>3, <1>4, <1>5, SeqEqual
<1> QED BY <1>1, <1>6 DEF g, k

(* Symbols and mark stamps are no part of the environment.                 *)
LEMMA SymbolsUnseen ==
  ASSUME UNCHANGED <<scopes, topScope, bindings, bindingList>>
  PROVE  envBar' = envBar /\ leftBar' = leftBar
BY DEF envBar, leftBar, Depth, ScopeAt, VarsOf, Active, Scope

(* A frame whose scope stays open and keeps its bindings stays the same.   *)
LEMMA FrameStays ==
  ASSUME EnvShape, EnvShape', NEW i \in 1..Depth, NEW s \in Scope,
         scopes[s].active, scopes[s].level = i - 2,
         s \in Scope', scopes'[s].active, scopes'[s].level = scopes[s].level,
         bindingList'[s] = bindingList[s],
         \A b \in bindingList[s] : bindings'[b].sym = bindings[b].sym
  PROVE  i \in 1..Depth' /\ envBar'[i] = envBar[i]
<1>1. i \in Int
  OBVIOUS
<1>2. IsFrameOf(envBar[i], s, bindingList[s], bindings)
  BY <1>1 DEF EnvShape
<1>3. i \in 1..Depth' /\ IsFrameOf(envBar'[i], s, bindingList[s], bindings')
  BY <1>1 DEF EnvShape
<1> QED BY <1>2, <1>3, FrameUnique

LEMMA NewScopeEnters ==
  ASSUME EnvInv, EnvShape, EnvShape', NewScope
  PROVE  Env!Next
<1> DEFINE s == Len(scopes) + 1
           empty == [scope |-> s, vars |-> [x \in {} |-> 0]]
<1>0. IInv
  BY DEF EnvInv
<1>1. /\ Scope' = Scope \cup {s} /\ s \notin Scope /\ s \in Nat /\ s <= MaxScopes
      /\ topScope' = s /\ topScope' # NoScope
      /\ bindings' = bindings
      /\ \A t \in Scope : scopes'[t] = scopes[t] /\ bindingList'[t] = bindingList[t]
      /\ scopes'[s].active
      /\ scopes'[s].level = IF topScope = NoScope THEN -1 ELSE scopes[topScope].level + 1
      /\ bindingList'[s] = {}
  BY <1>0, NewScopeEffect
<1>2. s > 0
  BY <1>0, Typed DEF IInv
<1> HIDE DEF s
<1>3. Depth \in Nat /\ Depth' = Depth + 1
  <2>1. Depth \in Nat /\ Depth' \in Nat /\ scopes'[s].level = Depth' - 2
    BY <1>1 DEF EnvShape
  <2>2. CASE topScope = NoScope
    BY <1>1, <2>1, <2>2 DEF EnvShape
  <2>3. CASE topScope # NoScope
    <3>1. scopes[topScope].level = Depth - 2
      BY <2>3 DEF EnvShape
    <3> QED BY <1>1, <2>1, <2>3, <3>1
  <2> QED BY <2>2, <2>3
<1>4. ASSUME NEW i \in 1..Depth PROVE envBar'[i] = envBar[i] /\ envBar[i].scope \in Scope
  <2>1. PICK t \in Scope : scopes[t].active /\ scopes[t].level = i - 2
    BY DEF EnvShape
  <2>2. envBar'[i] = envBar[i]
    BY <1>1, <2>1, FrameStays
  <2>3. IsFrameOf(envBar[i], t, bindingList[t], bindings)
    <3>1. i \in Int
      OBVIOUS
    <3> QED BY <2>1, <3>1 DEF EnvShape
  <2>4. envBar[i].scope = t
    BY <2>3 DEF IsFrameOf
  <2> QED BY <2>2, <2>4
<1>5. envBar'[Depth + 1] = empty
  <2>1. scopes'[s].level = (Depth + 1) - 2 /\ Depth + 1 \in Int /\ s \in Scope'
    BY <1>1, <1>3 DEF EnvShape
  <2>2. IsFrameOf(envBar'[Depth + 1], s, {}, bindings')
    <3> DEFINE d == Depth + 1
    <3>1. d \in Int /\ scopes'[s].level = d - 2
      BY <2>1
    <3> HIDE DEF d
    <3>2. IsFrameOf(envBar'[d], s, bindingList'[s], bindings')
      BY <1>1, <2>1, <3>1 DEF EnvShape
    <3> QED BY <1>1, <3>2 DEF d
  <2>3. IsFrameOf(empty, s, {}, bindings')
    BY DEF IsFrameOf
  <2> HIDE DEF empty
  <2> QED BY <2>2, <2>3, FrameUnique
<1>6. envBar' = Append(envBar, empty) /\ Len(envBar) = Depth
  <2>1. envBar = [i \in 1..Depth |-> envBar[i]]
    BY DEF EnvShape
  <2> HIDE DEF empty
  <2>2. /\ Len(envBar) = Depth
        /\ Append(envBar, empty) =
             [i \in 1..(Depth + 1) |-> IF i = Depth + 1 THEN empty ELSE envBar[i]]
    BY <1>3, <2>1, AppendIsFunction
  <2>3. envBar' = [i \in 1..(Depth + 1) |-> envBar'[i]]
    BY <1>3 DEF EnvShape
  <2>4. \A i \in 1..(Depth + 1) : envBar'[i] = IF i = Depth + 1 THEN empty ELSE envBar[i]
    <3> SUFFICES ASSUME NEW i \in 1..(Depth + 1), i # Depth + 1
                 PROVE  envBar'[i] = envBar[i]
      BY <1>5
    <3>1. i \in 1..Depth
      BY <1>3
    <3> QED BY <1>4, <3>1
  <2> QED BY <2>2, <2>3, <2>4
<1>7. leftBar' = leftBar
  BY <1>1 DEF leftBar, Active
<1>8. s \notin {envBar[i].scope : i \in 1..Len(envBar)} \cup leftBar
  BY <1>1, <1>4, <1>6 DEF leftBar
<1>9. s \in 1..MaxScopes
  BY <1>1, <1>2, Bounds
<1>10. Env!Enter(s)
  BY <1>6, <1>7, <1>8 DEF Env!Enter, Env!Open, Env!NoBinding
<1> QED BY <1>9, <1>10 DEF Env!Next

LEMMA PopScopeLeaves ==
  ASSUME EnvInv, EnvShape, EnvShape', PopScope
  PROVE  Env!Next
<1>0. IInv
  BY DEF EnvInv
<1>1. /\ Scope' = Scope /\ topScope \in Scope /\ scopes[topScope].active
      /\ topScope' = scopes[topScope].parent /\ topScope # NoScope
      /\ bindings' = bindings /\ bindingList' = bindingList
      /\ \A s \in Scope : /\ scopes'[s].level = scopes[s].level
                          /\ scopes'[s].active <=> s # topScope /\ scopes[s].active
  BY <1>0, PopScopeEffect DEF Active, PopScope
<1>2. /\ Depth \in Nat /\ Depth > 0 /\ scopes[topScope].level = Depth - 2
      /\ envBar = [i \in 1..Depth |-> envBar[i]]
  BY <1>1 DEF EnvShape
<1>3. Depth' = Depth - 1
  <2>1. IF topScope' = NoScope THEN scopes[topScope].level = -1
        ELSE topScope' \in Scope /\ scopes[topScope].level = scopes[topScope'].level + 1
    BY <1>0, <1>1, Typed DEF IInv, ScopeStack, Active
  <2>2. CASE topScope' = NoScope
    BY <1>2, <2>1, <2>2 DEF EnvShape
  <2>3. CASE topScope' # NoScope
    <3>1. scopes'[topScope'].level = Depth' - 2 /\ Depth' \in Nat
      BY <2>3 DEF EnvShape
    <3>2. scopes'[topScope'].level = scopes[topScope'].level
      BY <1>1, <2>1, <2>3
    <3>3. scopes[topScope].level = scopes[topScope'].level + 1
      BY <2>1, <2>3
    <3> QED BY <1>2, <3>1, <3>2, <3>3
  <2> QED BY <2>2, <2>3
<1>4. ASSUME NEW i \in 1..(Depth - 1) PROVE envBar'[i] = envBar[i]
  <2>1. i \in 1..Depth /\ i # Depth
    BY <1>2
  <2>2. PICK t \in Scope : scopes[t].active /\ scopes[t].level = i - 2
    BY <2>1 DEF EnvShape
  <2>3. t # topScope
    BY <1>2, <2>1, <2>2
  <2> QED BY <1>1, <2>1, <2>2, <2>3, FrameStays
<1>5. envBar[Depth].scope = topScope
  <2>1. IsFrameOf(envBar[Depth], topScope, bindingList[topScope], bindings)
    BY <1>1, <1>2 DEF EnvShape
  <2> QED BY <2>1 DEF IsFrameOf
<1>6. Len(envBar) = Depth /\ envBar' = SubSeq(envBar, 1, Len(envBar) - 1)
  <2>1. /\ Len(envBar) = Depth
        /\ SubSeq(envBar, 1, Depth - 1) = [i \in 1..(Depth - 1) |-> envBar[i]]
    <3> DEFINE S == {envBar[i] : i \in 1..Depth}
    <3>1. envBar \in [1..Depth -> S]
      BY <1>2
    <3> HIDE DEF S
    <3> QED BY <1>2, <3>1, FrontIsFunction
  <2>2. envBar' = [i \in 1..(Depth - 1) |-> envBar'[i]]
    BY <1>3 DEF EnvShape
  <2> QED BY <1>4, <2>1, <2>2
<1>7. leftBar' = leftBar \cup {envBar[Len(envBar)].scope}
  BY <1>1, <1>5, <1>6 DEF leftBar, Active
<1>8. envBar # <<>>
  <2>1. Len(envBar) # 0
    BY <1>2, <1>6
  <2> QED BY <2>1
<1> QED BY <1>6, <1>7, <1>8 DEF Env!Next, Env!Leave

LEMMA BindDefines ==
  ASSUME EnvInv, EnvShape, EnvShape', NEW x \in Uid, Bind(x)
  PROVE  Env!Next
<1> DEFINE b == Len(bindings) + 1
           top == envBar[Depth]
           wider == [y \in DOMAIN top.vars \cup {x} |-> IF y = x THEN b ELSE top.vars[y]]
           fr == [scope |-> topScope, vars |-> wider]
<1>0. IInv /\ uid <= MaxSymbols
  BY DEF EnvInv, Bounded
<1>1. /\ UNCHANGED <<scopes, topScope>>
      /\ topScope \in Scope /\ scopes[topScope].active /\ topScope # NoScope
      /\ b <= MaxBindings /\ b \in Nat
      /\ b \notin Binding
      /\ \A c \in Binding : bindings'[c] = bindings[c]
      /\ bindings'[b].sym = x
      /\ bindingList'[topScope] = bindingList[topScope] \cup {b}
      /\ \A s \in Scope : s # topScope => bindingList'[s] = bindingList[s]
      /\ LookupOnlyHere(topScope, x) = NoBinding
  BY <1>0, BindEffect DEF Active, Bind
<1>2. /\ \A s \in Scope : bindingList[s] \subseteq Binding
      /\ Len(bindings) \in Nat
  BY <1>0, Typed DEF IInv
<1>3. \A c \in bindingList[topScope] : bindings[c].sym # x
  <2> SUFFICES ASSUME NEW c \in bindingList[topScope], bindings[c].sym = x PROVE FALSE
    OBVIOUS
  <2> DEFINE n == Len(chain[x])
  <2>1. n > 0 /\ Owner(chain[x][n]) = topScope /\ n \in Nat
    BY <1>0, <1>1, PoppedFromChain, Typed DEF IInv
  <2>2. LookupOnlyHere(topScope, x) = chain[x][n]
    BY <1>0, <1>1, <2>1, LookupInTopScope
  <2>3. chain[x][n] \in Binding
    BY <1>0, <2>1, Typed DEF IInv
  <2> QED BY <1>1, <2>2, <2>3 DEF Binding, NoBinding
<1>4. Scope' = Scope /\ Depth' = Depth
  BY <1>1 DEF Scope, Depth
<1>5. /\ Depth \in Nat /\ Depth > 0 /\ scopes[topScope].level = Depth - 2
      /\ envBar = [i \in 1..Depth |-> envBar[i]]
      /\ envBar' = [i \in 1..Depth |-> envBar'[i]]
  BY <1>1, <1>4 DEF EnvShape
<1>6. /\ IsFrameOf(top, topScope, bindingList[topScope], bindings)
      /\ IsFrameOf(envBar'[Depth], topScope, bindingList'[topScope], bindings')
  <2>1. Depth \in Int
    BY <1>5
  <2> QED BY <1>1, <1>4, <1>5, <2>1 DEF EnvShape
<1> HIDE DEF b
<1>7. /\ DOMAIN top.vars = {bindings[c].sym : c \in bindingList[topScope]}
      /\ \A c \in bindingList[topScope] : top.vars[bindings[c].sym] = c
      /\ top = [scope |-> topScope, vars |-> top.vars]
  BY <1>6 DEF IsFrameOf
<1> HIDE DEF top
<1>8. x \notin DOMAIN top.vars
  BY <1>3, <1>7
<1>9. IsFrameOf(fr, topScope, bindingList'[topScope], bindings')
  <2> DEFINE D == {bindings'[c].sym : c \in bindingList'[topScope]}
  <2>1. D = DOMAIN top.vars \cup {x}
    BY <1>1, <1>2, <1>7
  <2>2. ASSUME NEW c \in bindingList'[topScope] PROVE wider[bindings'[c].sym] = c
    <3>1. CASE c = b
      BY <1>1, <3>1
    <3>2. CASE c \in bindingList[topScope]
      <4>1. bindings'[c].sym = bindings[c].sym /\ bindings[c].sym # x
        BY <1>1, <1>2, <1>3, <3>2
      <4>2. bindings[c].sym \in DOMAIN top.vars /\ top.vars[bindings[c].sym] = c
        BY <1>7, <3>2
      <4> QED BY <4>1, <4>2
    <3> QED BY <1>1, <2>2, <3>1, <3>2
  <2>3. wider = [y \in DOMAIN top.vars \cup {x} |-> wider[y]]
    OBVIOUS
  <2> HIDE DEF wider
  <2>4. fr.vars = wider /\ fr = [scope |-> topScope, vars |-> wider]
    OBVIOUS
  <2> QED BY <2>1, <2>2, <2>3, <2>4 DEF IsFrameOf
<1>10. envBar'[Depth] = fr
  <2> HIDE DEF fr
  <2> QED BY <1>6, <1>9, FrameUnique
<1>11. ASSUME NEW i \in 1..Depth, i # Depth PROVE envBar'[i] = envBar[i]
  <2>1. PICK t \in Scope : scopes[t].active /\ scopes[t].level = i - 2
    BY DEF EnvShape
  <2>2. t # topScope
    BY <1>5, <1>11, <2>1
  <2>3. bindingList'[t] = bindingList[t]
        /\ \A c \in bindingList[t] : bindings'[c].sym = bindings[c].sym
    BY <1>1, <1>2, <2>2
  <2> QED BY <1>1, <1>4, <2>1, <2>3, FrameStays
<1>12. Len(envBar) = Depth
  BY <1>5, AppendIsFunction
<1>13. envBar' = [envBar EXCEPT ![Depth] = fr]
  <2> HIDE DEF fr
  <2>1. \A i \in 1..Depth : envBar'[i] = IF i = Depth THEN fr ELSE envBar[i]
    BY <1>10, <1>11
  <2>2. [envBar EXCEPT ![Depth] = fr] = [i \in 1..Depth |-> IF i = Depth THEN fr ELSE envBar[i]]
    BY <1>5
  <2> QED BY <1>5, <2>1, <2>2
<1>14. fr = [top EXCEPT !.vars = wider]
  <2> HIDE DEF wider
  <2> QED BY <1>7
<1>15. envBar' = [envBar EXCEPT ![Len(envBar)].vars =
                    [y \in DOMAIN @ \cup {x} |-> IF y = x THEN b ELSE @[y]]]
  BY <1>12, <1>13, <1>14 DEF top
<1>16. leftBar' = leftBar
  BY <1>1, <1>4 DEF leftBar, Active
<1>17. x \in 0..(MaxSymbols - 1) /\ b \in 1..MaxBindings
  <2>1. b > 0
    BY <1>2 DEF b
  <2>2. uid \in Nat
    BY <1>0 DEF IInv, TypeOK
  <2> QED BY <1>0, <1>1, <2>1, <2>2, Bounds DEF Uid
<1>18. envBar # <<>>
  <2>1. Len(envBar) # 0
    BY <1>5, <1>12
  <2> QED BY <2>1
<1>19. Env!Define(x, b)
  BY <1>8, <1>12, <1>15, <1>16, <1>18 DEF Env!Define, top
<1> QED BY <1>17, <1>19 DEF Env!Next

LEMMA EnvStep ==
  ASSUME EnvInv, EnvShape, EnvShape', [Next]_vars
  PROVE  [Env!Next]_<<envBar, leftBar>>
<1>1. CASE \/ \E n \in Name : NewSymbol(n)
           \/ \E p \in Uid, k \in 1..markStamp : NewMarkedSymbol(p, k)
           \/ NextMarkStamp
           \/ UNCHANGED vars
  BY <1>1, SymbolsLevels, SymbolsUnseen
<1>2. CASE NewScope
  BY <1>2, NewScopeEnters
<1>3. CASE PopScope
  BY <1>3, PopScopeLeaves
<1>4. CASE \E x \in Uid : Bind(x)
  BY <1>4, BindDefines
<1> QED BY <1>1, <1>2, <1>3, <1>4 DEF Next

(* Chains, levels and active flags are a lexical environment: opening,     *)
(* binding in and popping a scope are the environment's operations, and    *)
(* popScope restores the environment that newScope found (SymbolTable).    *)
THEOREM ImplementsLexicalEnv == Spec => ImplementsEnv
<1>1. Init => Env!Init
  <2>1. ASSUME Init PROVE envBar = <<>> /\ leftBar = {}
    <3>1. Scope = {} /\ Depth = 0
      BY <2>1 DEF Init, Scope, Depth
    <3>2. 1..0 = {}
      OBVIOUS
    <3> QED BY <3>1, <3>2 DEF envBar, leftBar
  <2> QED BY <2>1 DEF Env!Init
<1>2. EnvInv /\ EnvShape /\ EnvShape' /\ [Next]_vars => [Env!Next]_<<envBar, leftBar>>
  BY EnvStep
<1> QED BY <1>1, <1>2, EnvInvariant, Shape, PTL DEF Spec, ImplementsEnv, Env!Spec, Env!vars

-----------------------------------------------------------------------------
(* The lookups find what the environment means                             *)

(* The positions of x's chain in scopes not deeper than level l.           *)
Upto(l, x) == {j \in 1..Len(chain[x]) : LevelOf(chain[x][j]) <= l}

(* What ChainsNested and ListsReachable say of one chain.                  *)
LEMMA ChainElements ==
  ASSUME IInv, NEW x \in Uid
  PROVE  /\ Len(chain[x]) \in Nat
         /\ \A j \in 1..Len(chain[x]) :
              /\ Owner(chain[x][j]) \in Scope
              /\ scopes[Owner(chain[x][j])].active
              /\ chain[x][j] \in bindingList[Owner(chain[x][j])]
              /\ bindings[chain[x][j]].sym = x
              /\ LevelOf(chain[x][j]) = scopes[Owner(chain[x][j])].level
              /\ LevelOf(chain[x][j]) \in Int
              /\ chain[x][j] # NoBinding
         /\ \A i, j \in 1..Len(chain[x]) : i < j => LevelOf(chain[x][i]) < LevelOf(chain[x][j])
         /\ \A s \in Scope : scopes[s].active =>
              \A b \in bindingList[s] : bindings[b].sym = x =>
                \E j \in 1..Len(chain[x]) : chain[x][j] = b /\ Owner(b) = s
<1>1. /\ Len(chain[x]) \in Nat
      /\ \A j \in 1..Len(chain[x]) : Owner(chain[x][j]) \in Scope /\ chain[x][j] \in Binding
      /\ \A s \in Scope : scopes[s].level \in Int
  BY Typed DEF IInv
<1>2. \A j \in 1..Len(chain[x]) :
        /\ scopes[Owner(chain[x][j])].active
        /\ chain[x][j] \in bindingList[Owner(chain[x][j])]
        /\ bindings[chain[x][j]].sym = x
  BY DEF IInv, ChainsNested, Active
<1>3. \A j \in 1..Len(chain[x]) :
        /\ LevelOf(chain[x][j]) = scopes[Owner(chain[x][j])].level
        /\ LevelOf(chain[x][j]) \in Int
        /\ chain[x][j] # NoBinding
  BY <1>1 DEF LevelOf, Binding, NoBinding
<1>4. ASSUME NEW i \in 1..Len(chain[x]), NEW j \in 1..Len(chain[x]), i < j
      PROVE  LevelOf(chain[x][i]) < LevelOf(chain[x][j])
  <2>1. Owner(chain[x][i]) < Owner(chain[x][j])
    BY <1>4 DEF IInv, ChainsNested
  <2> QED BY <1>1, <1>2, <1>3, <1>4, <2>1 DEF IInv, ScopeStack, Active
<1>5. ASSUME NEW s \in Scope, scopes[s].active, NEW b \in bindingList[s], bindings[b].sym = x
      PROVE  \E j \in 1..Len(chain[x]) : chain[x][j] = b /\ Owner(b) = s
  BY <1>5 DEF IInv, ListsReachable, Active
<1> QED BY <1>1, <1>2, <1>3, <1>4, <1>5

(* A frame binds x exactly when x's chain has an element of its level.     *)
LEMMA BinderInChain ==
  ASSUME IInv, EnvShape, NEW x \in Uid, NEW i \in 1..Depth
  PROVE  /\ x \in DOMAIN envBar[i].vars =>
              \E j \in 1..Len(chain[x]) : LevelOf(chain[x][j]) = i - 2
         /\ \A j \in 1..Len(chain[x]) : LevelOf(chain[x][j]) = i - 2 =>
              x \in DOMAIN envBar[i].vars /\ envBar[i].vars[x] = chain[x][j]
<1>1. PICK s \in Scope : scopes[s].active /\ scopes[s].level = i - 2
  BY DEF EnvShape
<1>2. IsFrameOf(envBar[i], s, bindingList[s], bindings)
  <2>1. i \in Int
    OBVIOUS
  <2> QED BY <1>1, <2>1 DEF EnvShape
<1>3. /\ DOMAIN envBar[i].vars = {bindings[b].sym : b \in bindingList[s]}
      /\ \A b \in bindingList[s] : envBar[i].vars[bindings[b].sym] = b
  BY <1>2 DEF IsFrameOf
<1>4. ASSUME x \in DOMAIN envBar[i].vars
      PROVE  \E j \in 1..Len(chain[x]) : LevelOf(chain[x][j]) = i - 2
  <2>1. PICK b \in bindingList[s] : bindings[b].sym = x
    BY <1>3, <1>4
  <2>2. PICK j \in 1..Len(chain[x]) : chain[x][j] = b /\ Owner(b) = s
    BY <1>1, <2>1, ChainElements
  <2> QED BY <1>1, <2>2 DEF LevelOf
<1>5. ASSUME NEW j \in 1..Len(chain[x]), LevelOf(chain[x][j]) = i - 2
      PROVE  x \in DOMAIN envBar[i].vars /\ envBar[i].vars[x] = chain[x][j]
  <2>1. /\ Owner(chain[x][j]) \in Scope /\ scopes[Owner(chain[x][j])].active
        /\ scopes[Owner(chain[x][j])].level = scopes[s].level
        /\ chain[x][j] \in bindingList[Owner(chain[x][j])]
        /\ bindings[chain[x][j]].sym = x
    BY <1>1, <1>5, ChainElements
  <2>2. Owner(chain[x][j]) = s
    BY <1>1, <2>1, LevelsDiffer
  <2> QED BY <1>3, <2>1, <2>2
<1> QED BY <1>4, <1>5

(* The meaning from the n outermost scopes is the last element of the      *)
(* chain that is not deeper than the n-th.                                 *)
LEMMA MeaningInChain ==
  ASSUME IInv, EnvShape, NEW x \in Uid, NEW n \in 0..Depth
  PROVE  Env!MeaningAt(n, x) =
           IF Upto(n - 2, x) = {} THEN NoBinding ELSE chain[x][LastOf(Upto(n - 2, x))]
<1> DEFINE V == Upto(n - 2, x)
           B == {i \in 1..n : x \in DOMAIN envBar[i].vars}
           j == LastOf(V)
           i == LevelOf(chain[x][j]) + 2
<1>0. Depth \in Nat /\ n \in Nat /\ n <= Depth
  BY DEF EnvShape
<1>1. Env!MeaningAt(n, x) =
        IF B = {} THEN NoBinding ELSE envBar[CHOOSE k \in B : \A m \in B : m <= k].vars[x]
  BY DEF Env!MeaningAt, Env!NoBinding, NoBinding
<1>2. Len(chain[x]) \in Nat /\ V \in SUBSET (1..Len(chain[x]))
  BY ChainElements DEF Upto
<1>3. ASSUME NEW k \in B
      PROVE  \E m \in V : LevelOf(chain[x][m]) = k - 2
  <2>1. k \in 1..Depth /\ k \in 1..n /\ x \in DOMAIN envBar[k].vars
    BY <1>0
  <2>2. PICK m \in 1..Len(chain[x]) : LevelOf(chain[x][m]) = k - 2
    BY <2>1, BinderInChain
  <2>3. k - 2 <= n - 2
    BY <1>0, <2>1
  <2> QED BY <2>2, <2>3 DEF Upto
<1> HIDE DEF B, V
<1>4. CASE V = {}
  BY <1>1, <1>3, <1>4 DEF V
<1>5. CASE V # {}
  <2>1. j \in V /\ \A m \in V : m <= j
    BY <1>2, <1>5, LastOfIsLast
  <2>2. j \in 1..Len(chain[x]) /\ LevelOf(chain[x][j]) <= n - 2
    BY <2>1 DEF V, Upto
  <2>3. /\ Owner(chain[x][j]) \in Scope /\ scopes[Owner(chain[x][j])].active
        /\ LevelOf(chain[x][j]) = scopes[Owner(chain[x][j])].level
        /\ LevelOf(chain[x][j]) \in Int
    BY <2>2, ChainElements
  <2>4. i \in Int /\ LevelOf(chain[x][j]) = i - 2 /\ i <= n
    BY <1>0, <2>2, <2>3
  <2> HIDE DEF i, j
  <2>5. i \in 1..Depth
    BY <2>3, <2>4 DEF EnvShape
  <2>6. x \in DOMAIN envBar[i].vars /\ envBar[i].vars[x] = chain[x][j]
    BY <2>2, <2>4, <2>5, BinderInChain
  <2>7. i \in B
    BY <1>0, <2>4, <2>5, <2>6 DEF B
  <2>8. ASSUME NEW k \in B PROVE k <= i
    <3>1. PICK m \in V : LevelOf(chain[x][m]) = k - 2
      BY <1>3
    <3>2. m \in 1..Len(chain[x]) /\ m <= j
      BY <1>2, <2>1, <3>1
    <3>3. m < j => LevelOf(chain[x][m]) < LevelOf(chain[x][j])
      BY <2>2, <3>2, ChainElements
    <3>4. m < j \/ m = j
      BY <1>2, <2>2, <3>2
    <3>5. k \in Int
      BY DEF B
    <3> QED BY <2>4, <3>1, <3>3, <3>4, <3>5
  <2>9. (CHOOSE k \in B : \A m \in B : m <= k) = i
    <3>1. ASSUME NEW k \in B, \A m \in B : m <= k PROVE k = i
      <4>1. k \in Int /\ k <= i /\ i <= k
        BY <2>7, <2>8, <3>1 DEF B
      <4> QED BY <2>4, <4>1
    <3> QED BY <2>7, <2>8, <3>1
  <2> QED BY <1>1, <1>5, <2>6, <2>7, <2>9 DEF V, j
<1> QED BY <1>4, <1>5

LEMMA LookupAgrees ==
  ASSUME IInv, EnvShape, NEW x \in Uid
  PROVE  Lookup(x) = Env!Meaning(x)
<1> DEFINE n == Len(chain[x])
           V == Upto(Depth - 2, x)
<1>1. Depth \in Nat /\ n \in Nat /\ chain[x] \in Seq(Binding)
  BY ChainElements, Typed DEF EnvShape, IInv
<1>2. Len(envBar) = Depth
  BY <1>1, AppendIsFunction DEF EnvShape
<1>3. Depth \in 0..Depth
  BY <1>1
<1>4. Env!Meaning(x) = IF V = {} THEN NoBinding ELSE chain[x][LastOf(V)]
  BY <1>2, <1>3, MeaningInChain DEF Env!Meaning
<1>5. ASSUME NEW j \in 1..n PROVE LevelOf(chain[x][j]) <= Depth - 2
  <2> DEFINE d == LevelOf(chain[x][j]) + 2
  <2>1. /\ Owner(chain[x][j]) \in Scope /\ scopes[Owner(chain[x][j])].active
        /\ LevelOf(chain[x][j]) = scopes[Owner(chain[x][j])].level
        /\ LevelOf(chain[x][j]) \in Int
    BY ChainElements
  <2>2. d \in Int /\ LevelOf(chain[x][j]) = d - 2
    BY <2>1
  <2> HIDE DEF d
  <2>3. d \in 1..Depth
    BY <2>1, <2>2 DEF EnvShape
  <2> QED BY <1>1, <2>2, <2>3
<1>6. V = 1..n
  BY <1>5 DEF Upto
<1> HIDE DEF V
<1>7. CASE n = 0
  <2>1. chain[x] = <<>> /\ V = {}
    BY <1>1, <1>6, <1>7
  <2> QED BY <1>4, <2>1 DEF Lookup
<1>8. CASE n > 0
  <2>1. n \in V /\ ~(n = 0)
    BY <1>1, <1>6, <1>8
  <2>2. chain[x] # <<>>
    BY <2>1
  <2>3. LastOf(V) = n
    BY <1>1, <1>6, <1>8 DEF LastOf
  <2> QED BY <1>4, <2>1, <2>2, <2>3 DEF Lookup
<1> QED BY <1>1, <1>7, <1>8

(* The frame of an open scope is one of the environment's, and no other    *)
(* frame is that scope's.                                                  *)
LEMMA FrameAt ==
  ASSUME IInv, EnvShape, NEW s \in Scope, scopes[s].active
  PROVE  LET n == scopes[s].level + 2
         IN  /\ n \in 1..Depth /\ n \in 0..Depth /\ n - 2 = scopes[s].level
             /\ envBar[n].scope = s
             /\ \A i \in 1..Depth : envBar[i].scope = s => i = n
<1> DEFINE n == scopes[s].level + 2
<1>1. n \in Int /\ n - 2 = scopes[s].level
  BY Typed DEF IInv
<1> HIDE DEF n
<1>2. n \in 1..Depth /\ IsFrameOf(envBar[n], s, bindingList[s], bindings)
  BY <1>1 DEF EnvShape
<1>3. ASSUME NEW i \in 1..Depth, envBar[i].scope = s PROVE i = n
  <2>1. PICK t \in Scope : scopes[t].active /\ scopes[t].level = i - 2
    BY DEF EnvShape
  <2>2. i \in Int
    OBVIOUS
  <2>3. IsFrameOf(envBar[i], t, bindingList[t], bindings)
    BY <2>1, <2>2 DEF EnvShape
  <2>4. t = s
    BY <1>3, <2>3 DEF IsFrameOf
  <2> QED BY <1>1, <2>1, <2>2, <2>4
<1>4. envBar[n].scope = s
  BY <1>2 DEF IsFrameOf
<1>5. n \in 0..Depth
  BY <1>2
<1> QED BY <1>1, <1>2, <1>3, <1>4, <1>5 DEF n

LEMMA LookupHereAndUpAgrees ==
  ASSUME IInv, EnvShape, NEW x \in Uid, NEW s \in Scope
  PROVE  LookupHereAndUp(s, x) = Env!MeaningFrom(s, x)
<1> DEFINE n == scopes[s].level + 2
           Open == {envBar[i].scope : i \in 1..Len(envBar)}
<1>1. Depth \in Nat
  BY DEF EnvShape
<1>2. Len(envBar) = Depth
  BY <1>1, AppendIsFunction DEF EnvShape
<1>3. Env!MeaningFrom(s, x) =
        IF s \in Open
        THEN Env!MeaningAt(CHOOSE i \in 1..Len(envBar) : envBar[i].scope = s, x)
        ELSE NoBinding
  BY DEF Env!MeaningFrom, Env!Open, Env!NoBinding, NoBinding
<1>4. LookupHereAndUp(s, x) =
        IF scopes[s].active /\ Upto(scopes[s].level, x) # {}
        THEN chain[x][LastOf(Upto(scopes[s].level, x))] ELSE NoBinding
  BY DEF LookupHereAndUp, Upto
<1>5. CASE scopes[s].active
  <2>1. /\ n \in 1..Depth /\ n \in 0..Depth /\ n - 2 = scopes[s].level
        /\ envBar[n].scope = s
        /\ \A i \in 1..Depth : envBar[i].scope = s => i = n
    BY <1>5, FrameAt
  <2> HIDE DEF n
  <2>2. s \in Open
    BY <1>2, <2>1
  <2>3. (CHOOSE i \in 1..Len(envBar) : envBar[i].scope = s) = n
    BY <1>2, <2>1
  <2>4. Env!MeaningFrom(s, x) = Env!MeaningAt(n, x)
    BY <1>3, <2>2, <2>3
  <2>5. Env!MeaningAt(n, x) =
          IF Upto(n - 2, x) = {} THEN NoBinding ELSE chain[x][LastOf(Upto(n - 2, x))]
    BY <2>1, MeaningInChain
  <2> QED BY <1>4, <1>5, <2>1, <2>4, <2>5
<1>6. CASE ~scopes[s].active
  <2>1. s \notin Open
    <3> SUFFICES ASSUME NEW i \in 1..Depth, envBar[i].scope = s PROVE FALSE
      BY <1>2
    <3>1. PICK t \in Scope : scopes[t].active /\ scopes[t].level = i - 2
      BY DEF EnvShape
    <3>2. i \in Int
      OBVIOUS
    <3>3. IsFrameOf(envBar[i], t, bindingList[t], bindings)
      BY <3>1, <3>2 DEF EnvShape
    <3>4. t = s
      BY <3>3 DEF IsFrameOf
    <3> QED BY <1>6, <3>1, <3>4
  <2> HIDE DEF Open
  <2> QED BY <1>3, <1>4, <1>6, <2>1
<1> QED BY <1>5, <1>6

LEMMA LookupOnlyHereAgrees ==
  ASSUME IInv, EnvShape, NEW x \in Uid, NEW s \in Scope, scopes[s].active
  PROVE  LookupOnlyHere(s, x) = Env!MeaningOnlyIn(s, x)
<1> DEFINE n == scopes[s].level + 2
           c == chain[x]
           stops == {i \in 1..Len(c) : Owner(c[i]) = s \/ LevelOf(c[i]) <= scopes[s].level}
           here == {i \in 1..Len(envBar) : envBar[i].scope = s /\ x \in DOMAIN envBar[i].vars}
<1>1. Depth \in Nat /\ scopes[s].level \in Int
  BY Typed DEF EnvShape, IInv
<1>2. Len(envBar) = Depth
  BY <1>1, AppendIsFunction DEF EnvShape
<1>3. /\ n \in 1..Depth /\ n - 2 = scopes[s].level
      /\ envBar[n].scope = s
      /\ \A i \in 1..Depth : envBar[i].scope = s => i = n
  BY FrameAt
<1>4. LookupOnlyHere(s, x) =
        IF stops # {} /\ Owner(c[LastOf(stops)]) = s THEN c[LastOf(stops)] ELSE NoBinding
  BY DEF LookupOnlyHere
<1>5. Env!MeaningOnlyIn(s, x) =
        IF here = {} THEN NoBinding ELSE envBar[CHOOSE i \in here : TRUE].vars[x]
  BY DEF Env!MeaningOnlyIn, Env!NoBinding, NoBinding
<1>6. Len(c) \in Nat /\ stops \in SUBSET (1..Len(c))
  BY ChainElements
<1>7. here \subseteq {n} /\ (n \in here <=> x \in DOMAIN envBar[n].vars)
  BY <1>2, <1>3
<1> HIDE DEF n, here
<1>8. CASE \E j \in 1..Len(c) : LevelOf(c[j]) = scopes[s].level
  <2>1. PICK j \in 1..Len(c) : LevelOf(c[j]) = scopes[s].level
    BY <1>8
  <2>2. x \in DOMAIN envBar[n].vars /\ envBar[n].vars[x] = c[j]
    BY <1>3, <2>1, BinderInChain
  <2>3. here = {n}
    BY <1>7, <2>2
  <2>4. Env!MeaningOnlyIn(s, x) = c[j]
    BY <1>5, <2>2, <2>3
  <2>5. Owner(c[j]) = s
    <3>1. /\ Owner(c[j]) \in Scope /\ scopes[Owner(c[j])].active
          /\ LevelOf(c[j]) = scopes[Owner(c[j])].level
      BY ChainElements
    <3> QED BY <2>1, <3>1, LevelsDiffer
  <2>6. j \in stops
    BY <2>5
  <2>7. ASSUME NEW i \in stops PROVE i <= j
    <3>1. i \in 1..Len(c) /\ LevelOf(c[i]) <= scopes[s].level
      BY <1>1 DEF LevelOf
    <3>2. j < i => LevelOf(c[j]) < LevelOf(c[i])
      BY <3>1, ChainElements
    <3>3. LevelOf(c[i]) \in Int
      BY <3>1, ChainElements
    <3> QED BY <1>1, <1>6, <2>1, <3>1, <3>2, <3>3
  <2> HIDE DEF stops
  <2>8. LastOf(stops) = j
    <3>1. LastOf(stops) \in stops /\ \A i \in stops : i <= LastOf(stops)
      BY <1>6, <2>6, LastOfIsLast
    <3>2. LastOf(stops) <= j
      BY <2>7, <3>1
    <3>3. j <= LastOf(stops)
      BY <2>6, <3>1
    <3>4. LastOf(stops) \in 1..Len(c)
      BY <1>6, <3>1
    <3> HIDE DEF c
    <3> QED BY <1>6, <2>1, <3>2, <3>3, <3>4
  <2> QED BY <1>4, <2>4, <2>5, <2>6, <2>8
<1>9. CASE ~(\E j \in 1..Len(c) : LevelOf(c[j]) = scopes[s].level)
  <2>1. x \notin DOMAIN envBar[n].vars
    BY <1>3, <1>9, BinderInChain
  <2>2. here = {}
    BY <1>7, <2>1
  <2>3. stops # {} => LastOf(stops) \in 1..Len(c)
    <3> HIDE DEF stops
    <3> QED BY <1>6, LastOfIsLast
  <2>4. \A j \in 1..Len(c) : Owner(c[j]) # s
    BY <1>9 DEF LevelOf
  <2> HIDE DEF stops
  <2> QED BY <1>4, <1>5, <2>2, <2>3, <2>4
<1> QED BY <1>8, <1>9

(* In every state the three lookups find what the lexical environment      *)
(* says: lookup the innermost binding, lookupHereAndUp the one that code   *)
(* which captured the scope sees, lookupOnlyHere the scope's own.          *)
THEOREM LookupsAgreeAlways == Spec => []LookupsAgree
<1>1. EnvInv /\ EnvShape => LookupsAgree
  BY LookupAgrees, LookupHereAndUpAgrees, LookupOnlyHereAgrees
     DEF LookupsAgree, EnvInv, Active
<1> QED BY <1>1, EnvInvariant, Shape, PTL

===============================================================================
