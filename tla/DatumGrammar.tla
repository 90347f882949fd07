------------------------------ MODULE DatumGrammar ----------------------------
(***************************************************************************)
(* The data that a sequence of tokens stands for: a grammar, with no       *)
(* reader, no lookahead and no errors.                                     *)
(*                                                                         *)
(*   datum  = atom | ( items ) | ( cars . single ) | the same with [ ]     *)
(*          | #( items )                                                   *)
(*   items  = { datum | comment }                                          *)
(*   cars   = items datum                                                  *)
(*   single = { comment } datum                                            *)
(*   comment = #; single                                                   *)
(*   text   = items [ #; ]                                                 *)
(*                                                                         *)
(* A reading of tokens i to j of t is a datum or, of items, a sequence of  *)
(* data; there may be none.  Data are represented as in SyntaxReader.      *)
(***************************************************************************)
EXTENDS Naturals, Sequences

Nil == <<"nil">>

Joined(items, cdr) ==
  IF items = <<>> THEN cdr
  ELSE IF cdr[1] = "list" THEN <<"list", items \o cdr[2], cdr[3]>>
  ELSE <<"list", items, cdr>>

(* The rules.  "of" has the readings of shorter parts of t, as items, as   *)
(* cars and as a single datum.                                             *)
DatumOf(t, of, i, j) ==
  IF i = j /\ t[i] = "atom" THEN {<<"atom", i>>}
  ELSE IF i < j /\ <<t[i], t[j]>> \in {<<"(", ")">>, <<"[", "]">>}
  THEN {Joined(items, Nil) : items \in of[<<"items", i + 1, j - 1>>]}
       \cup UNION {{Joined(items, cdr) : items \in of[<<"cars", i + 1, k - 1>>],
                                         cdr \in of[<<"single", k + 1, j - 1>>]} :
                     k \in {k \in (i + 1)..(j - 1) : t[k] = "."}}
  ELSE IF i < j /\ <<t[i], t[j]>> = <<"#(", ")">>
  THEN {<<"vector", items>> : items \in of[<<"items", i + 1, j - 1>>]}
  ELSE {}

CarsOf(t, of, i, j) ==
  UNION {{Append(items, d) : items \in of[<<"items", i, k - 1>>], d \in DatumOf(t, of, k, j)} :
           k \in i..j}

CommentOf(t, of, i, j) == i < j /\ t[i] = "#;" /\ of[<<"single", i + 1, j>>] # {}

SingleOf(t, of, i, j) ==
  UNION {DatumOf(t, of, k, j) : k \in {k \in i..j : <<>> \in of[<<"items", i, k - 1>>]}}

ItemsOf(t, of, i, j) ==
  IF i > j THEN {<<>>}
  ELSE (UNION {{<<d>> \o rest : d \in DatumOf(t, of, i, k), rest \in of[<<"items", k + 1, j>>]} :
                 k \in i..j})
       \cup UNION {of[<<"items", k + 1, j>>] : k \in {k \in i..j : CommentOf(t, of, i, k)}}

Parts(t) == {"items", "cars", "single"} \X (1..(Len(t) + 1)) \X (0..Len(t))

Of(t) ==
  LET of[s \in Parts(t)] ==
        IF s[1] = "items" THEN ItemsOf(t, of, s[2], s[3])
        ELSE IF s[1] = "cars" THEN CarsOf(t, of, s[2], s[3])
        ELSE SingleOf(t, of, s[2], s[3])
  IN  of

Datum(t, i, j) == DatumOf(t, Of(t), i, j)
Items(t, i, j) == Of(t)[<<"items", i, j>>]
Cars(t, i, j) == Of(t)[<<"cars", i, j>>]
Single(t, i, j) == Of(t)[<<"single", i, j>>]
Comment(t, i, j) == CommentOf(t, Of(t), i, j)

(* A text is items.  The last comment may lack its datum.                  *)
Readings(t) ==
  Items(t, 1, Len(t))
  \cup IF t # <<>> /\ t[Len(t)] = "#;" THEN Items(t, 1, Len(t) - 1) ELSE {}

===============================================================================
