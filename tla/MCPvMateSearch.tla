--------------------------- MODULE MCPvMateSearch ---------------------------
(* A head with the move a, and the reply b to it.                          *)
EXTENDS PvMateSearch

CONSTANTS top, a, b
Tree == [n \in Children \cup {Top} |-> IF n = top THEN {a} ELSE IF n = a THEN {b} ELSE {}]
=============================================================================
