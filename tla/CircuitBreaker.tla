--------------------------- MODULE CircuitBreaker ---------------------------
(***************************************************************************)
(* engine/execution/circuit_breaker.py, as OrderManager uses it.           *)
(*                                                                         *)
(* One breaker is shared by every order attempt of a strategy.  Attempts   *)
(* come from different asyncio tasks (the tick, the event bus, the HTTP    *)
(* and IPC handlers), and an attempt is suspended at its awaits between    *)
(* allow_request() and record_success() / record_failure(), so several     *)
(* attempts can be in flight at once.                                      *)
(*                                                                         *)
(* Time: the code only compares monotonic() - _opened_at with              *)
(* recovery_seconds, so the model keeps that difference, saturated at      *)
(* RecoverySeconds.                                                        *)
(***************************************************************************)
EXTENDS Naturals

CONSTANTS Attempts,          \* the order attempts that can be in flight together
          FailureThreshold,  \* failure_threshold
          RecoverySeconds,   \* recovery_seconds, in clock ticks of the model
          FailureCap         \* where the failure counter saturates (bound)

ASSUME ConstantsAssumption ==
    /\ FailureThreshold \in Nat \ {0}
    /\ RecoverySeconds \in Nat \ {0}
    /\ FailureCap \in Nat
    /\ FailureCap >= FailureThreshold

VARIABLES state,      \* _state, as stored (not as the property computes it)
          failures,   \* _consecutive_failures
          sinceOpen,  \* monotonic() - _opened_at, saturated at RecoverySeconds
          pc          \* pc[a]: has attempt a been admitted and not yet recorded?

vars == <<state, failures, sinceOpen, pc>>

CBState == {"CLOSED", "OPEN", "HALF_OPEN"}

InFlight == {a \in Attempts : pc[a] = "in_flight"}

-----------------------------------------------------------------------------
(* Helpers *)

CountFailure(n) == IF n < FailureCap THEN n + 1 ELSE n

RecoveryElapsed == sinceOpen >= RecoverySeconds

\* What reading the `state` property returns, and stores back into _state.
ObservedState == IF state = "OPEN" /\ RecoveryElapsed THEN "HALF_OPEN" ELSE state

-----------------------------------------------------------------------------

Init == /\ state = "CLOSED"
        /\ failures = 0
        /\ sinceOpen = RecoverySeconds
        /\ pc = [a \in Attempts |-> "idle"]

\* Mutant: an attempt is let through whatever the breaker says.
Admit_Always(a) ==
    /\ pc[a] = "idle"
    /\ state' = ObservedState
    /\ pc' = [pc EXCEPT ![a] = "in_flight"]
    /\ UNCHANGED <<failures, sinceOpen>>

\* allow_request() returning True.
Admit(a) ==
    /\ pc[a] = "idle"
    /\ ObservedState \in {"CLOSED", "HALF_OPEN"}
    /\ state' = ObservedState
    /\ pc' = [pc EXCEPT ![a] = "in_flight"]
    /\ UNCHANGED <<failures, sinceOpen>>

\* Mutant: a rejection is recorded as one more failure and restarts the cool-down.
Reject_Rearms(a) ==
    /\ pc[a] = "idle"
    /\ ObservedState = "OPEN"
    /\ sinceOpen' = 0
    /\ UNCHANGED <<state, failures, pc>>

\* allow_request() returning False: handle_order_request returns at once,
\* with nothing recorded.
Reject(a) ==
    /\ pc[a] = "idle"
    /\ ObservedState = "OPEN"
    /\ state' = ObservedState
    /\ UNCHANGED <<failures, sinceOpen, pc>>

\* record_success(): closes the breaker from whatever state it is in.
RecordSuccess(a) ==
    /\ pc[a] = "in_flight"
    /\ state' = "CLOSED"
    /\ failures' = 0
    /\ pc' = [pc EXCEPT ![a] = "idle"]
    /\ UNCHANGED sinceOpen

\* Mutant: one failure too many.
Trips_OffByOne(n) == state = "HALF_OPEN" \/ n > FailureThreshold

\* Does a failure trip the breaker?
Trips(n) == state = "HALF_OPEN" \/ n >= FailureThreshold

\* record_failure() with _trip().
RecordFailure(a) ==
    /\ pc[a] = "in_flight"
    /\ pc' = [pc EXCEPT ![a] = "idle"]
    /\ failures' = CountFailure(failures)
    /\ IF Trips(failures')
       THEN state' = "OPEN" /\ sinceOpen' = 0
       ELSE UNCHANGED <<state, sinceOpen>>

\* handle_order_request leaves without recording: the risk check refuses, or a
\* data-store call raises between allow_request and the record.
Abandon(a) ==
    /\ pc[a] = "in_flight"
    /\ pc' = [pc EXCEPT ![a] = "idle"]
    /\ UNCHANGED <<state, failures, sinceOpen>>

\* Monotonic time passes.
Tick ==
    /\ sinceOpen < RecoverySeconds
    /\ sinceOpen' = sinceOpen + 1
    /\ UNCHANGED <<state, failures, pc>>

Next == \/ Tick
        \/ \E a \in Attempts : \/ Admit(a)
                               \/ Reject(a)
                               \/ RecordSuccess(a)
                               \/ RecordFailure(a)
                               \/ Abandon(a)

\* Time passes, a strategy retries on every tick of its loop, and an attempt in
\* flight ends (every await of the pipeline returns or raises).
Fairness ==
    /\ WF_vars(Tick)
    /\ WF_vars(\E a \in Attempts : Admit(a))
    /\ \A a \in Attempts :
          WF_vars(RecordSuccess(a) \/ RecordFailure(a) \/ Abandon(a))

Spec == Init /\ [][Next]_vars
FairSpec == Spec /\ Fairness

-----------------------------------------------------------------------------
(* Properties *)

\* Every variable stays in its range.
TypeOK ==
    /\ state \in CBState
    /\ failures \in 0..FailureCap
    /\ sinceOpen \in 0..RecoverySeconds
    /\ pc \in [Attempts -> {"idle", "in_flight"}]

\* The counter and the state agree, whatever the order in which concurrent
\* attempts report: a closed breaker has absorbed fewer than failure_threshold
\* consecutive failures, an open or half-open one at least that many.
CountMatchesState == (state = "CLOSED") <=> (failures < FailureThreshold)

\* HALF_OPEN is only ever seen once the cool-down of the LAST trip is over, also
\* when several attempts fail after the breaker has opened.
HalfOpenOnlyAfterRecovery == state = "HALF_OPEN" => RecoveryElapsed

Inv == CountMatchesState /\ HalfOpenOnlyAfterRecovery

\* No attempt is admitted while the breaker is cooling down: from the trip on, an
\* admission waits for recovery_seconds unless a success has closed the breaker.
NoAdmissionWhileCooling ==
    [][\A a \in Attempts :
         (pc[a] = "idle" /\ pc'[a] = "in_flight")
            => failures < FailureThreshold \/ RecoveryElapsed]_vars

\* A breaker never blocks its strategy for good: as long as the strategy keeps
\* asking, some attempt is admitted again and again.
AdmitsAgainAndAgain == []<>(InFlight # {})
=============================================================================
