-------------------------- MODULE SchemeParserHygiene -------------------------
(***************************************************************************)
(* The AST that SchemeParser makes, compared with that of a compiler that  *)
(* has no macros, marks or symbol table.                                   *)
(***************************************************************************)
EXTENDS SchemeParserRefinement

Reference == INSTANCE HygienicCompiler

Meant == Reference!CompileLibrary(source)

(* Macro expansion is hygienic (the "or" of SchemeParser.cpp 321-327 is    *)
(* one of syntax-rules): of a body that is right, the AST is the one in    *)
(* which every name means what the text around it says and the variable of *)
(* "or" is nobody else's, whatever names the program defines before, after *)
(* and around the macro's use.                                             *)
Hygienic == (todo = <<>> /\ Meant.ok) => (out = Meant.out /\ errors = 0)

(* A body that is not right is not compiled without an error: no form is   *)
(* dropped, cut short or taken for another one in silence.                 *)
ReportsWrongText == (todo = <<>> /\ ~Meant.ok) => errors > 0

===============================================================================
