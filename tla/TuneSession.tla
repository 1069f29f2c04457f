---------------------------- MODULE TuneSession ----------------------------
(***************************************************************************)
(* A tuning session of Tier 1 from the inside: the evaluation, the three   *)
(* questions to the LLM providers with the rules that stand in for them,   *)
(* the candidates and the guardrails on what is applied.  (Tuner has the   *)
(* sessions' rows, monitoring and rollback.)                               *)
(*                                                                         *)
(* Sessions come from requests and the scheduler, overlap, and share one   *)
(* ProviderRouter: its budget, and a CircuitBreaker for each provider.     *)
(*                                                                         *)
(* A session gives the event loop away at an await only.  Where a handler  *)
(* does several of the steps below between two awaits, the session is      *)
(* Running in between, and then nobody else moves.                         *)
(***************************************************************************)
EXTENDS Integers, Sequences, FiniteSets, FiniteSetsExt, Functions

CONSTANTS Sessions,          \* those that can be under way together
          Providers,         \* <<primary, fallback>>
          Budget,            \* monthly_budget_usd, in answers
          FailureThreshold,  \* cb_failure_threshold
          RecoverySeconds,   \* cb_recovery_timeout_min, in ticks of the model
          Order,             \* the parameters, in the order they are applied
          TfWeights,         \* those of them that are tf_weight_...
          ScoreWeights,      \* those that are score_w...
          Bounds,            \* parameter -> <<min_value, max_value>>
          Preset,            \* parameter -> its value in the strategy's preset
          One,               \* 1.0: how many units a value has
          Tolerance,         \* 0.001, by which ScoreWeights may miss 1.0
          Pushes,            \* bound: the ends of its range a trial takes each parameter from
          MaxSessions,       \* bound
          MaxMonths          \* bound

ParamSet == Range(Order)
Thresholds == ParamSet \ (TfWeights \cup ScoreWeights)
ASSUME SessionAssumption ==
    /\ IsFiniteSet(Sessions) /\ Sessions # {}
    /\ Providers \in Seq(Range(Providers)) /\ IsInjective(Providers) /\ IsInjective(Order)
    /\ Budget \in Nat /\ FailureThreshold \in Nat \ {0} /\ RecoverySeconds \in Nat \ {0}
    /\ TfWeights \subseteq ParamSet /\ ScoreWeights \subseteq ParamSet \ TfWeights
    /\ Order \in Seq(ParamSet) /\ Preset \in [ParamSet -> Int]
    /\ \A p \in ParamSet : Bounds[p] \in Int \X Int /\ Bounds[p][1] < Bounds[p][2]
    \* Presets keep the bounds of the thresholds; a strategy has a timeframe that weighs, and
    \* timeframes are set before scores.
    /\ \A p \in Thresholds : Preset[p] \in Bounds[p][1]..Bounds[p][2]
    /\ \A p \in TfWeights \cup ScoreWeights : Bounds[p][1] >= 0
    /\ \E p \in TfWeights : Bounds[p][1] > 0
    /\ \A i, j \in DOMAIN Order : Order[i] \in TfWeights /\ Order[j] \in ScoreWeights => i < j
    /\ Pushes \subseteq [ParamSet -> {1, 2}]
    /\ One \in Nat \ {0} /\ Tolerance \in Nat /\ MaxSessions \in Nat /\ MaxMonths \in Nat

VARIABLES live,     \* the parameters in the strategy's SignalGenerator
          job,      \* job[t]: where session t is, the provider it asks, the parameters it has
                    \* read or proposes, and the candidate it is about
          breaker,  \* the state of each provider's CircuitBreaker
          spent,    \* CostTracker.total_used
          begun,    \* sessions so far
          months    \* months gone by
vars == <<live, job, breaker, spent, begun, months>>

Idle == [at |-> "idle", asks |-> 0, from |-> {}, candidate |-> {}]
Nobody == Len(Providers) + 1
Asking == {"diagnosing", "selecting", "approving"}

\* Between two awaits: about to call complete(), told that nobody answers, or approved.
Running(t) == \/ job[t].at \in Asking /\ job[t].asks \in {0, Nobody}
              \/ job[t].at \in {"guarding", "applying"}
HasLoop(t) == \A u \in Sessions \ {t} : ~Running(u)
LoopIsFree == \A u \in Sessions : ~Running(u)

-----------------------------------------------------------------------------
(* ProviderRouter.complete() *)

Cooled(b) == b.since >= RecoverySeconds
Observed(b) == IF b.state = "OPEN" /\ Cooled(b) THEN "HALF_OPEN" ELSE b.state

\* Mutant: failures are counted on.
Succeeded_KeepsCount(b) == [b EXCEPT !.state = "CLOSED"]

Succeeded(b) == [b EXCEPT !.state = "CLOSED", !.failures = 0]

FailedOnce(b) ==
    LET n == Min({b.failures + 1, FailureThreshold}) IN
    IF b.state = "HALF_OPEN" \/ n = FailureThreshold
    THEN [state |-> "OPEN", failures |-> n, since |-> 0]
    ELSE [b EXCEPT !.failures = n]

\* Session t turns to the first provider from the i-th on that its breaker lets through.
Turn(t, i, breakers) ==
    LET up == {k \in i..Len(Providers) : Observed(breakers[k]) # "OPEN"}
        k == IF up = {} THEN Nobody ELSE Min(up)
    IN /\ job' = [job EXCEPT ![t].asks = k]
       /\ breaker' = IF k = Nobody THEN breakers
                     ELSE [breakers EXCEPT ![k].state = Observed(breakers[k])]

\* Mutant: the budget is looked at before the first question only.
Ask_BudgetOnce(t) ==
    /\ job[t].at \in Asking /\ job[t].asks = 0 /\ HasLoop(t)
    /\ IF spent >= Budget /\ job[t].at = "diagnosing"
       THEN job' = [job EXCEPT ![t].asks = Nobody] /\ UNCHANGED breaker
       ELSE Turn(t, 1, breaker)
    /\ UNCHANGED <<live, spent, begun, months>>

Ask(t) ==
    /\ job[t].at \in Asking /\ job[t].asks = 0 /\ HasLoop(t)
    /\ IF spent >= Budget
       THEN job' = [job EXCEPT ![t].asks = Nobody] /\ UNCHANGED breaker
       ELSE Turn(t, 1, breaker)
    /\ UNCHANGED <<live, spent, begun, months>>

Waits(t) == job[t].asks \in 1..Len(Providers)

\* Mutant: every failure begins the round of the providers anew.
Fails_BeginsAnew(t) ==
    /\ Waits(t) /\ LoopIsFree
    /\ Turn(t, 1, [breaker EXCEPT ![job[t].asks] = FailedOnce(@)])
    /\ UNCHANGED <<live, spent, begun, months>>

\* An error or a timeout: the next provider is asked.
Fails(t) ==
    /\ Waits(t) /\ LoopIsFree
    /\ Turn(t, job[t].asks + 1, [breaker EXCEPT ![job[t].asks] = FailedOnce(@)])
    /\ UNCHANGED <<live, spent, begun, months>>

\* How a question ends: with an answer that costs, or with none.
Answered(t) == /\ Waits(t) /\ LoopIsFree
               /\ breaker' = [breaker EXCEPT ![job[t].asks] = Succeeded(@)]
               /\ spent' = spent + 1
Unanswered(t) == job[t].asks = Nobody /\ HasLoop(t) /\ UNCHANGED <<breaker, spent>>

-----------------------------------------------------------------------------
(* The search for candidates *)

Between(low, v, high) == IF v < low THEN low ELSE IF v > high THEN high ELSE v

\* 20 % of a value, or of its range when it is zero.
MaxChange(p, v) == (IF v = 0 THEN Bounds[p][2] - Bounds[p][1] ELSE IF v < 0 THEN -v ELSE v) \div 5

\* _narrow_bounds(): what a trial samples from.
Narrowed(p, v) ==
    LET low == Max({Bounds[p][1], v - MaxChange(p, v)})
        high == Min({Bounds[p][2], v + MaxChange(p, v)})
    IN IF low >= high THEN Bounds[p] ELSE <<low, high>>

\* What a walk-forward run of a trial gives: a profit factor below or above 1, with or without
\* a drawdown. (With more than 10 % of drawdown the trial counts as 0.)
Scores == {[pf |-> 0, mdd |-> 0], [pf |-> 1, mdd |-> 0], [pf |-> 1, mdd |-> 1]}

\* A candidate: the trial's choices from these ranges, and its score.
Candidates == [push : Pushes, score : Scores]
Params(c, from) == [p \in ParamSet |-> Narrowed(p, from[p])[c.push[p]]]

\* DegradedFallback.approve(). The drawdown of the evaluated trades is always 0.
Sound(c) == c.score.pf >= 1 /\ c.score.mdd = 0

-----------------------------------------------------------------------------
(* Guardrails *)

\* Mutant: the change is measured from the value the session has read.
Clamped_Stale(p, old, new) == Between(Bounds[p][1], new, Bounds[p][2])

\* clamp_change()
Clamped(p, old, new) ==
    Between(Bounds[p][1], Between(old - MaxChange(p, old), new, old + MaxChange(p, old)), Bounds[p][2])

\* normalize_weights(): a weight is divided by the sum of its group, and rounded.
GroupOf(p) == CHOOSE group \in {TfWeights, ScoreWeights} : p \in group
Normalised(values) == [p \in ParamSet |->
    LET sum == MapThenSumSet(LAMBDA q : values[q], GroupOf(p)) IN
    IF p \in Thresholds \/ sum = 0 THEN values[p]
    ELSE (2 * One * values[p] + sum) \div (2 * sum)]

AllClamped(params) == [p \in ParamSet |-> Clamped(p, live[p], params[p])]

\* Mutant: weights are normalised first and then clamped.
Guarded_ClampLast(params) == AllClamped(Normalised(params))

\* validate_changes(): against the values that are live now.
Guarded(params) == Normalised(AllClamped(params))

\* _apply_to_components(): one parameter after the other. Setting a score weight makes a new
\* ScoreWeights, which raises if its weights, some of them still the old ones, do not sum to 1.
Place(p) == CHOOSE i \in DOMAIN Order : Order[i] = p
Partly(new, n) == [p \in ParamSet |-> IF Place(p) <= n THEN new[p] ELSE live[p]]
Accepted(new, n) ==
    MapThenSumSet(LAMBDA p : IF Place(p) <= n THEN new[p] ELSE live[p], ScoreWeights)
        \in (One - Tolerance)..(One + Tolerance)
Set(new) == Max({n \in 0..Len(Order) : \A p \in ScoreWeights : Place(p) <= n => Accepted(new, Place(p))})

-----------------------------------------------------------------------------
(* run_tuning_session() *)

Goto(t, at) == job' = [job EXCEPT ![t].at = at, ![t].asks = 0]
End(t) == job' = [job EXCEPT ![t] = Idle]

\* The current parameters are read before the first await.
Begin(t) ==
    /\ job[t].at = "idle" /\ begun < MaxSessions /\ LoopIsFree
    /\ begun' = begun + 1
    /\ job' = [job EXCEPT ![t] = [Idle EXCEPT !.at = "evaluating", !.from = {live}]]
    /\ UNCHANGED <<live, breaker, spent, months>>

\* The trades are read: they are too few, or good enough, or a diagnosis is asked for.
Evaluate(t) ==
    /\ job[t].at = "evaluating" /\ LoopIsFree
    /\ Goto(t, "diagnosing") \/ End(t)
    /\ UNCHANGED <<live, breaker, spent, begun, months>>

\* With the providers' diagnosis or the rules', the report is saved ...
Diagnosed(t) ==
    /\ job[t].at = "diagnosing" /\ (Answered(t) \/ Unanswered(t))
    /\ Goto(t, "reporting")
    /\ UNCHANGED <<live, begun, months>>

\* ... which may fail; then candles are fetched, which may not, ...
Reported(t) ==
    /\ job[t].at = "reporting" /\ LoopIsFree
    /\ Goto(t, "fetching") \/ End(t)
    /\ UNCHANGED <<live, breaker, spent, begun, months>>

\* ... and the trials run. The best of them is the first candidate.
Optimize(t) ==
    /\ job[t].at = "fetching" /\ LoopIsFree
    /\ \/ End(t)
       \/ \E c \in Candidates : job' = [job EXCEPT ![t].at = "selecting", ![t].candidate = {c}]
    /\ UNCHANGED <<live, breaker, spent, begun, months>>

\* An answer names the best candidate or another one, which did not score higher; without a
\* usable answer it is the best. Then the candidate is backtested, to be asked about.
Selected(t) ==
    /\ job[t].at = "selecting"
    /\ \E best \in job[t].candidate, from \in job[t].from, c \in Candidates :
          /\ \/ Answered(t) /\ c.score.pf <= best.score.pf
             \/ Unanswered(t) /\ c = best
          /\ job' = [job EXCEPT ![t] = [Idle EXCEPT !.at = "approving", !.from = {Params(c, from)}, !.candidate = {c}]]
    /\ UNCHANGED <<live, begun, months>>

\* The answer approves or refuses; without a usable answer the rule decides.
Judged(t) ==
    /\ job[t].at = "approving"
    /\ \E c \in job[t].candidate :
          \/ Answered(t) /\ (Goto(t, "guarding") \/ End(t))
          \/ Unanswered(t) /\ IF Sound(c) THEN Goto(t, "guarding") ELSE End(t)
    /\ UNCHANGED <<live, begun, months>>

\* The changes are built against the live values and go through the guardrails, ...
Guard(t) ==
    /\ job[t].at = "guarding"
    /\ \E params \in job[t].from :
          job' = [job EXCEPT ![t] = [Idle EXCEPT !.at = "applying", !.from = {Guarded(params)}]]
    /\ UNCHANGED <<live, breaker, spent, begun, months>>

\* ... and what comes out is set.
Apply(t) ==
    /\ job[t].at = "applying"
    /\ \E new \in job[t].from :
          /\ live' = Partly(new, Set(new))
          /\ IF Set(new) = Len(Order)
             THEN job' = [job EXCEPT ![t] = [Idle EXCEPT !.at = "saving"]]
             ELSE End(t)
    /\ UNCHANGED <<breaker, spent, begun, months>>

\* The rows of the history are saved, or that fails.
Saved(t) ==
    /\ job[t].at = "saving" /\ LoopIsFree
    /\ End(t)
    /\ UNCHANGED <<live, breaker, spent, begun, months>>

-----------------------------------------------------------------------------
(* Environment *)

Tick ==
    /\ LoopIsFree /\ \E k \in DOMAIN breaker : ~Cooled(breaker[k])
    /\ breaker' = [k \in DOMAIN breaker |-> [breaker[k] EXCEPT !.since = Min({@ + 1, RecoverySeconds})]]
    /\ UNCHANGED <<live, job, spent, begun, months>>

\* _maybe_reset(): every look at the costs finds that a month has begun.
Month ==
    /\ LoopIsFree /\ months < MaxMonths /\ spent > 0
    /\ months' = months + 1 /\ spent' = 0
    /\ UNCHANGED <<live, job, breaker, begun>>

\* The trading loop switches the regime and its preset.
ApplyPreset ==
    /\ LoopIsFree /\ live # Preset
    /\ live' = Preset
    /\ UNCHANGED <<job, breaker, spent, begun, months>>

Init ==
    /\ live = Preset /\ spent = 0 /\ begun = 0 /\ months = 0
    /\ job = [t \in Sessions |-> Idle]
    /\ breaker = [k \in DOMAIN Providers |-> [state |-> "CLOSED", failures |-> 0, since |-> RecoverySeconds]]

\* What session t does when it is its turn, or when what it waits for has come.
Goes(t) ==
    \/ Ask(t) \/ Fails(t)
    \/ Evaluate(t) \/ Diagnosed(t) \/ Reported(t) \/ Optimize(t) \/ Selected(t) \/ Judged(t)
    \/ Guard(t) \/ Apply(t) \/ Saved(t)

Next == (\E t \in Sessions : Begin(t) \/ Goes(t)) \/ Tick \/ Month \/ ApplyPreset

Spec == Init /\ [][Next]_vars

\* Every await ends: a provider's client has a timeout, the store and the exchange answer.
FairSpec == Spec /\ \A t \in Sessions : WF_vars(Goes(t))

-----------------------------------------------------------------------------
(* Properties *)

\* The month's budget is overdrawn by what was in flight when it ran out and no more: one
\* answer of each session, though each of them asks three questions.
BudgetHolds == spent < Budget + Cardinality(Sessions)

\* Whatever the sessions interleave, each provider's breaker goes through the steps of
\* CircuitBreaker, with the sessions that wait for the provider as its attempts.
CB(k) == INSTANCE CircuitBreaker
            WITH Attempts <- Sessions, FailureCap <- FailureThreshold,
                 state <- breaker[k].state, failures <- breaker[k].failures, sinceOpen <- breaker[k].since,
                 pc <- [t \in Sessions |-> IF job[t].asks = k THEN "in_flight" ELSE "idle"]
RouterKeepsBreakers ==
    /\ \A k \in DOMAIN Providers : CB(k)!Init
    /\ [][\A k \in DOMAIN Providers : [CB(k)!Next]_(CB(k)!vars)]_vars

\* A session changes a threshold by 20 % of the value it replaces, though its candidate was
\* sampled around the value of the session's start, and it leaves timeframe weights that sum
\* to 1 (to the rounding of each), whatever sum they had.
GuardrailsHold ==
    [][\A t \in Sessions : job[t].at = "applying" /\ live' # live =>
         /\ \A p \in Thresholds :
               live'[p] \in (live[p] - MaxChange(p, live[p]))..(live[p] + MaxChange(p, live[p]))
         /\ 2 * (MapThenSumSet(LAMBDA p : live'[p], TfWeights) - One) \in -Cardinality(TfWeights)..Cardinality(TfWeights)]_vars

\* Sessions end, whether the providers answer or not: when as many as may have begun, none is
\* left under way.
SessionsEnd == []<>(\A t \in Sessions : job[t].at = "idle")
=============================================================================
