--------------------------- MODULE MCBufferedInput ----------------------------
(* BufferedInput on a small instance.  The elements of the source are        *)
(* distinct, so that a lost or repeated element shows; before the first      *)
(* fill the buffer holds put-back values only.                               *)
EXTENDS BufferedInput

CONSTANTS MaxLength, Junk

MCElem == 1..MaxLength \cup {Junk}
MCSource == {[i \in 1..n |-> i] : n \in 0..MaxLength}

MCInit == Init /\ buf = [i \in 0..(BufSize - 1) |-> Junk]
MCSpec == MCInit /\ [][Next]_vars
===============================================================================
