--------------------------- MODULE SyntaxReaderText ---------------------------
(***************************************************************************)
(* What the reader delivers, against the grammar of data.                  *)
(***************************************************************************)
EXTENDS SyntaxReader

Grammar == INSTANCE DatumGrammar

(* A text of the grammar is read as the data it stands for, without an     *)
(* error (TestSyntaxReader: what was printed reads back equal).            *)
DeliversTheText ==
  mode = "done" /\ Grammar!Readings(input) # {} =>
    errors = 0 /\ results \in Grammar!Readings(input)

(* Anything else is reported.                                              *)
ReportsBadText ==
  mode = "done" /\ Grammar!Readings(input) = {} => errors > 0

===============================================================================
