-------------------------- MODULE MCCircuitBreaker --------------------------
(* Three concurrent attempts (tick task, event-bus task, control task), the   *)
(* code's threshold of 3 failures, a cool-down of two clock ticks.            *)
EXTENDS CircuitBreaker, TLC

CONSTANTS tickTask, busTask, controlTask

MCAttempts == {tickTask, busTask, controlTask}
MCSymmetry == Permutations(MCAttempts)
=============================================================================
