---------------------------- MODULE MCTradeCycle ----------------------------
(* One or two control requests at a time, two lots of capital, a breaker that *)
(* trips on the second failure and recovers after one clock tick.             *)
EXTENDS TradeCycle

CONSTANTS c1, c2, p1, p2, p3
=============================================================================
