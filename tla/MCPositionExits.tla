-------------------------- MODULE MCPositionExits --------------------------
(* One strategy, alone or beside one that is no longer wired but has left a position open. *)
(* Beside it, start() is also called in a running process, and prices and lots are fewer.  *)
EXTENDS PositionExits

CONSTANTS s1, s2

One == <<s1>>
SomePrices == [crowded \in BOOLEAN |-> IF crowded THEN {2, 4} ELSE {2, 3, 4}]
SomeLots == [crowded \in BOOLEAN |-> IF crowded THEN 1 ELSE 2]
=============================================================================
