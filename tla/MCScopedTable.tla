--------------------------- MODULE MCScopedTable ---------------------------
(* Three slots and four keys: homes are shared, probing wraps around, and  *)
(* the table fills up.                                                     *)
EXTENDS ScopedTable, TLC

CONSTANTS a, b, c, d, n1, n2

MCKeys == {a, b, c, d}
MCHome == a :> 2 @@ b :> 2 @@ c :> 0 @@ d :> 1
=============================================================================
