--------------------------- MODULE MCStringCollector --------------------------
(* StringCollector with small buffers: a piece can be longer than twice the  *)
(* static buffer.  The bound on the amount of memory ends the behaviours.    *)
EXTENDS StringCollector

CONSTANTS MaxMemory, MaxLen

MCPiece == {<<"a">>, <<"b", "a">>, <<"b", "b", "b", "b", "b">>}
MCEncoding == {<<"b", "a">>}

Bounded == Len(memory) <= MaxMemory /\ len <= MaxLen
===============================================================================
