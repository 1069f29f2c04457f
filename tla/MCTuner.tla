------------------------------ MODULE MCTuner ------------------------------
(* One strategy with two parameters; three tunings, restarts and regime switches
when the scheduler starts the sessions, two when requests do. *)
EXTENDS Tuner

CONSTANTS s1, p1, p2

Bounds == [engine |-> 3, paper |-> 2]
TwoParams == <<p1, p2>>
=============================================================================
