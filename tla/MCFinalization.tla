--------------------------- MODULE MCFinalization ---------------------------
(* Two nodes: the first holds the best ticket, the second the next one.     *)
EXTENDS Finalization

TwoRanked == <<1, 2>>
=============================================================================
