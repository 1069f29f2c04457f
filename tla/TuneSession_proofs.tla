------------------------- MODULE TuneSession_proofs -------------------------
(***************************************************************************)
(* What holds of tuning sessions for any number of them, any providers and *)
(* any budget: what they cost, whom they ask and what they change.         *)
(***************************************************************************)
EXTENDS TuneSession, FiniteSetTheorems, WellFoundedInduction, TLAPS

\* The sessions that wait for a provider.
Waiting == {t \in Sessions : Waits(t)}

\* Each session's record has its fields.
Shaped ==
    /\ DOMAIN job = Sessions /\ job = [t \in Sessions |-> job[t]]
    /\ \A t \in Sessions :
          job[t] = [at |-> job[t].at, asks |-> job[t].asks, from |-> job[t].from, candidate |-> job[t].candidate]

\* Nobody waits without a budget, and what has been spent or can still be spent by those
\* who wait stays below the bound.
Accounted ==
    /\ spent \in Nat
    /\ Waiting # {} => Budget > 0
    /\ spent + Cardinality(Waiting) < Budget + Cardinality(Sessions)

\* The three ways a step can go about the budget.
Leaves == Waiting' \subseteq Waiting /\ spent' \in {0, spent}
Asks == spent < Budget /\ spent' = spent
Pays == \E t \in Waiting : Waiting' \subseteq Waiting \ {t} /\ spent' = spent + 1

\* Session t goes on with no question open.
Rests(t) ==
    /\ Shaped' /\ job'[t].asks = 0
    /\ \A u \in Sessions \ {t} : job'[u] = job[u]

\* Only session t's record is replaced, by one that does not wait.
LEMMA Replaced ==
  ASSUME Shaped, NEW t \in Sessions, NEW r,
         r = [at |-> r.at, asks |-> r.asks, from |-> r.from, candidate |-> r.candidate],
         job' = [job EXCEPT ![t] = r]
  PROVE  /\ Shaped'
         /\ \A u \in Sessions \ {t} : job'[u] = job[u]
         /\ job'[t] = r
         /\ r.asks \notin 1..Len(Providers) => Waiting' \subseteq Waiting \ {t}
         /\ Waits(t) => Waiting' \subseteq Waiting
<1>1. /\ DOMAIN job' = Sessions /\ job' = [u \in Sessions |-> job'[u]]
      /\ \A u \in Sessions \ {t} : job'[u] = job[u]
      /\ job'[t] = r
  BY DEF Shaped
<1>2. Shaped'
  BY <1>1 DEF Shaped
<1>3. Waiting' \subseteq Waiting \cup {t}
  BY <1>1 DEF Waiting, Waits
<1>4. r.asks \notin 1..Len(Providers) => t \notin Waiting'
  BY <1>1 DEF Waiting, Waits
<1>5. Waits(t) => t \in Waiting
  BY DEF Waiting
<1> QED
  BY <1>1, <1>2, <1>3, <1>4, <1>5

\* A session turns to a provider, or to nobody.
LEMMA Turned ==
  ASSUME Shaped, NEW t \in Sessions, NEW k, job' = [job EXCEPT ![t].asks = k]
  PROVE  /\ Shaped'
         /\ k = Nobody => Waiting' \subseteq Waiting
         /\ Waits(t) => Waiting' \subseteq Waiting
<1> DEFINE r == [job[t] EXCEPT !.asks = k]
<1>1. r = [at |-> r.at, asks |-> r.asks, from |-> r.from, candidate |-> r.candidate] /\ r.asks = k
  BY DEF Shaped
<1>2. job' = [job EXCEPT ![t] = r]
  OBVIOUS
<1>3. k = Nobody => k \notin 1..Len(Providers)
  BY SessionAssumption DEF Nobody
<1> HIDE DEF r
<1> QED
  BY <1>1, <1>2, <1>3, Replaced

\* A session goes to its next step, or ends.
LEMMA Moved ==
  ASSUME Shaped, NEW t \in Sessions, (\E at : Goto(t, at)) \/ End(t)
  PROVE  Rests(t) /\ Waiting' \subseteq Waiting \ {t}
<1>0. 0 \notin 1..Len(Providers)
  BY SessionAssumption
<1>1. CASE End(t)
  <2>1. Idle = [at |-> Idle.at, asks |-> Idle.asks, from |-> Idle.from, candidate |-> Idle.candidate] /\ Idle.asks = 0
    BY DEF Idle
  <2> QED
    BY <1>0, <1>1, <2>1, Replaced DEF End, Rests
<1>2. ASSUME NEW at, Goto(t, at) PROVE Rests(t) /\ Waiting' \subseteq Waiting \ {t}
  <2> DEFINE r == [at |-> at, asks |-> 0, from |-> job[t].from, candidate |-> job[t].candidate]
  <2>0. [job[t] EXCEPT !.at = at, !.asks = 0] = r
    <3> DEFINE j == [at |-> job[t].at, asks |-> job[t].asks, from |-> job[t].from, candidate |-> job[t].candidate]
               k == [at |-> at, asks |-> job[t].asks, from |-> job[t].from, candidate |-> job[t].candidate]
    <3>1. job[t] = j
      BY DEF Shaped
    <3>2. [j EXCEPT !.at = at] = k /\ [k EXCEPT !.asks = 0] = r
      OBVIOUS
    <3> HIDE DEF j, k, r
    <3>3. [j EXCEPT !.at = at, !.asks = 0] = [[j EXCEPT !.at = at] EXCEPT !.asks = 0]
      OBVIOUS
    <3> QED
      BY <3>1, <3>2, <3>3
  <2>1. r = [at |-> r.at, asks |-> r.asks, from |-> r.from, candidate |-> r.candidate] /\ r.asks = 0
    OBVIOUS
  <2>2. job' = [job EXCEPT ![t] = r]
    BY <1>2, <2>0 DEF Goto
  <2> HIDE DEF r
  <2> QED
    BY <1>0, <2>1, <2>2, Replaced DEF Rests
<1> QED
  BY <1>1, <1>2

\* The records that sessions are given.
Record(at, from, candidate) == [at |-> at, asks |-> 0, from |-> from, candidate |-> candidate]

\* Updates of the idle record, as the code of a step builds them, field by field.
LEMMA FromIdle ==
  ASSUME NEW at, NEW from, NEW candidate
  PROVE  /\ [Idle EXCEPT !.at = at] = Record(at, {}, {})
         /\ [Idle EXCEPT !.at = at, !.from = from] = Record(at, from, {})
         /\ [Idle EXCEPT !.at = at, !.from = from, !.candidate = candidate] = Record(at, from, candidate)
<1>1. Idle = [at |-> "idle", asks |-> 0, from |-> {}, candidate |-> {}]
  BY DEF Idle
<1>2. [Idle EXCEPT !.at = at] = Record(at, {}, {})
  BY <1>1 DEF Record
<1>3. [Record(at, {}, {}) EXCEPT !.from = from] = Record(at, from, {})
  BY DEF Record
<1>4. [Record(at, from, {}) EXCEPT !.candidate = candidate] = Record(at, from, candidate)
  BY DEF Record
<1>5. [Idle EXCEPT !.at = at, !.from = from] = [[Idle EXCEPT !.at = at] EXCEPT !.from = from]
  OBVIOUS
<1>6. [Idle EXCEPT !.at = at, !.from = from, !.candidate = candidate]
        = [[[Idle EXCEPT !.at = at] EXCEPT !.from = from] EXCEPT !.candidate = candidate]
  OBVIOUS
<1> QED
  BY <1>2, <1>3, <1>4, <1>5, <1>6

\* A session that is given a new record does not wait.
LEMMA Given ==
  ASSUME Shaped, NEW t \in Sessions, NEW at, NEW from, NEW candidate,
         job' = [job EXCEPT ![t] = Record(at, from, candidate)]
  PROVE  Rests(t) /\ Waiting' \subseteq Waiting \ {t}
<1> DEFINE r == Record(at, from, candidate)
<1>1. r = [at |-> r.at, asks |-> r.asks, from |-> r.from, candidate |-> r.candidate] /\ r.asks = 0
  BY DEF Record
<1>2. 0 \notin 1..Len(Providers)
  BY SessionAssumption
<1> HIDE DEF r
<1>3. job' = [job EXCEPT ![t] = r]
  BY DEF r
<1> QED
  BY <1>1, <1>2, <1>3, Replaced DEF Rests

\* Asking costs nothing yet.
LEMMA Asked ==
  ASSUME Shaped, spent \in Nat, NEW t \in Sessions, Ask(t) \/ Fails(t)
  PROVE  Shaped' /\ (Leaves \/ Asks)
<1>1. spent' = spent
  BY DEF Ask, Fails
<1>2. CASE Ask(t) /\ spent >= Budget
  <2>1. job' = [job EXCEPT ![t].asks = Nobody]
    BY <1>2 DEF Ask
  <2> QED
    BY <1>1, <2>1, Turned DEF Leaves
<1>3. CASE Ask(t) /\ ~(spent >= Budget)
  <2>1. PICK k : job' = [job EXCEPT ![t].asks = k]
    BY <1>3 DEF Ask, Turn
  <2>2. spent < Budget
    BY <1>3, SessionAssumption
  <2> QED
    BY <1>1, <2>1, <2>2, Turned DEF Asks
<1>4. CASE Fails(t)
  <2>1. PICK k : job' = [job EXCEPT ![t].asks = k]
    BY <1>4 DEF Fails, Turn
  <2> QED
    BY <1>1, <1>4, <2>1, Turned DEF Leaves, Fails
<1> QED
  BY <1>2, <1>3, <1>4

\* A question that is over was answered, and paid for, or was not asked.
LEMMA Paid ==
  ASSUME Shaped, NEW t \in Sessions, Answered(t) \/ Unanswered(t), Waiting' \subseteq Waiting \ {t}
  PROVE  Leaves \/ Pays
<1>1. CASE Answered(t)
  <2>1. t \in Waiting /\ spent' = spent + 1
    BY <1>1 DEF Answered, Waiting
  <2> QED
    BY <2>1 DEF Pays
<1>2. CASE Unanswered(t)
  BY <1>2 DEF Unanswered, Leaves
<1> QED
  BY <1>1, <1>2

\* What follows a question, answered or not: the next step of the session.
LEMMA Questioned ==
  ASSUME Shaped, NEW t \in Sessions, Diagnosed(t) \/ Selected(t) \/ Judged(t)
  PROVE  Rests(t) /\ (Answered(t) \/ Unanswered(t)) /\ (Leaves \/ Pays)
<1>1. CASE Diagnosed(t)
  BY <1>1, Moved, Paid DEF Diagnosed
<1>2. CASE Selected(t)
  <2>1. PICK best \in job[t].candidate, from \in job[t].from, c \in Candidates :
          /\ Answered(t) \/ Unanswered(t)
          /\ job' = [job EXCEPT ![t] = [Idle EXCEPT !.at = "approving", !.from = {Params(c, from)}, !.candidate = {c}]]
    BY <1>2 DEF Selected
  <2>2. job' = [job EXCEPT ![t] = Record("approving", {Params(c, from)}, {c})]
    <3> DEFINE f == {Params(c, from)}
               r == [Idle EXCEPT !.at = "approving"]
    <3>1. r = Record("approving", {}, {})
      BY DEF Idle, Record
    <3>2. [Record("approving", {}, {}) EXCEPT !.from = f] = Record("approving", f, {})
      BY DEF Record
    <3>3. [Record("approving", f, {}) EXCEPT !.candidate = {c}] = Record("approving", f, {c})
      BY DEF Record
    <3>4. job' = [job EXCEPT ![t] = [Idle EXCEPT !.at = "approving", !.from = f, !.candidate = {c}]]
      BY <2>1
    <3> HIDE DEF f
    <3>5. [Idle EXCEPT !.at = "approving", !.from = f, !.candidate = {c}]
            = [[r EXCEPT !.from = f] EXCEPT !.candidate = {c}]
      OBVIOUS
    <3>6. [Idle EXCEPT !.at = "approving", !.from = f, !.candidate = {c}] = Record("approving", f, {c})
      BY <3>1, <3>2, <3>3, <3>5
    <3>7. job' = [job EXCEPT ![t] = Record("approving", f, {c})]
      BY <3>4, <3>6, Zenon
    <3> QED
      BY <3>7 DEF f
  <2>3. Rests(t) /\ Waiting' \subseteq Waiting \ {t}
    BY <2>2, Given
  <2> QED
    BY <2>1, <2>3, Paid
<1>3. CASE Judged(t)
  <2>1. (Answered(t) \/ Unanswered(t)) /\ (Goto(t, "guarding") \/ End(t))
    BY <1>3 DEF Judged
  <2>2. Rests(t) /\ Waiting' \subseteq Waiting \ {t}
    BY <2>1, Moved
  <2> QED
    BY <2>1, <2>2, Paid
<1> QED
  BY <1>1, <1>2, <1>3

\* The steps that ask nobody.
LEMMA Worked ==
  ASSUME Shaped, NEW t \in Sessions,
         Begin(t) \/ Evaluate(t) \/ Reported(t) \/ Optimize(t) \/ Guard(t) \/ Apply(t) \/ Saved(t)
  PROVE  /\ Shaped' /\ Leaves
         /\ job'[t].asks \in {0, job[t].asks}
         /\ \A u \in Sessions \ {t} : job'[u] = job[u]
<1> DEFINE Goal == /\ Shaped' /\ Leaves
                   /\ job'[t].asks \in {0, job[t].asks}
                   /\ \A u \in Sessions \ {t} : job'[u] = job[u]
<1>1. spent' = spent
  BY DEF Begin, Evaluate, Reported, Optimize, Guard, Apply, Saved
<1>2. CASE Begin(t)
  <2>1. [Idle EXCEPT !.at = "evaluating", !.from = {live}] = Record("evaluating", {live}, {})
    BY FromIdle
  <2>2. job' = [job EXCEPT ![t] = Record("evaluating", {live}, {})]
    BY <1>2, <2>1, Zenon DEF Begin
  <2> QED
    BY <1>1, <2>2, Given DEF Leaves, Rests
<1>3. CASE Evaluate(t) \/ Reported(t) \/ Saved(t)
  BY <1>1, <1>3, Moved DEF Evaluate, Reported, Saved, Leaves, Rests
<1>4. CASE Optimize(t)
  <2>1. CASE End(t)
    BY <1>1, <2>1, Moved DEF Leaves, Rests
  <2>2. ASSUME NEW c \in Candidates, job' = [job EXCEPT ![t].at = "selecting", ![t].candidate = {c}]
        PROVE  Goal
    <3> DEFINE k == [at |-> "selecting", asks |-> job[t].asks, from |-> job[t].from, candidate |-> job[t].candidate]
               r == [at |-> "selecting", asks |-> job[t].asks, from |-> job[t].from, candidate |-> {c}]
    <3>1. [job[t] EXCEPT !.at = "selecting"] = k
      BY DEF Shaped
    <3>2. [k EXCEPT !.candidate = {c}] = r
      OBVIOUS
    <3>3. r = [at |-> r.at, asks |-> r.asks, from |-> r.from, candidate |-> r.candidate] /\ r.asks = job[t].asks
      OBVIOUS
    <3> HIDE DEF k, r
    <3>4. job' = [job EXCEPT ![t] = [[job[t] EXCEPT !.at = "selecting"] EXCEPT !.candidate = {c}]]
      BY <2>2 DEF Shaped
    <3>5. job' = [job EXCEPT ![t] = r]
      BY <3>1, <3>2, <3>4
    <3>6. r.asks \notin 1..Len(Providers) \/ Waits(t)
      BY <3>3 DEF Waits
    <3>7. /\ Shaped' /\ Waiting' \subseteq Waiting
          /\ job'[t].asks = job[t].asks /\ \A u \in Sessions \ {t} : job'[u] = job[u]
      BY <3>3, <3>5, <3>6, Replaced
    <3> QED
      BY <1>1, <3>7 DEF Leaves, Rests
  <2> QED
    BY <1>4, <2>1, <2>2 DEF Optimize
<1>5. CASE Guard(t)
  <2>1. PICK params \in job[t].from : job' = [job EXCEPT ![t] = [Idle EXCEPT !.at = "applying", !.from = {Guarded(params)}]]
    BY <1>5 DEF Guard
  <2>2. job' = [job EXCEPT ![t] = Record("applying", {Guarded(params)}, {})]
    BY <2>1, FromIdle
  <2> QED
    BY <1>1, <2>2, Given DEF Leaves, Rests
<1>6. CASE Apply(t)
  <2>1. job' = [job EXCEPT ![t] = [Idle EXCEPT !.at = "saving"]] \/ End(t)
    BY <1>6 DEF Apply
  <2>2. CASE job' = [job EXCEPT ![t] = [Idle EXCEPT !.at = "saving"]]
    <3>1. job' = [job EXCEPT ![t] = Record("saving", {}, {})]
      BY <2>2, FromIdle
    <3> QED
      BY <1>1, <3>1, Given DEF Leaves, Rests
  <2> QED
    BY <1>1, <2>1, <2>2, Moved DEF Leaves, Rests
<1> QED
  BY <1>2, <1>3, <1>4, <1>5, <1>6

\* Every step goes about the budget in one of the three ways.
LEMMA BudgetStep ==
  ASSUME Shaped, spent \in Nat, [Next]_vars
  PROVE  Shaped' /\ (Leaves \/ Asks \/ Pays)
<1>1. ASSUME NEW t \in Sessions, Begin(t) \/ Goes(t) PROVE Shaped' /\ (Leaves \/ Asks \/ Pays)
  BY <1>1, Asked, Questioned, Worked DEF Goes, Rests
<1>2. CASE Tick \/ Month \/ ApplyPreset \/ UNCHANGED vars
  BY <1>2 DEF Tick, Month, ApplyPreset, vars, Shaped, Leaves, Waiting, Waits
<1> QED
  BY <1>1, <1>2 DEF Next

\* Each of the three ways keeps the account.
LEMMA AccountedStep ==
  ASSUME Accounted, Leaves \/ Asks \/ Pays
  PROVE  Accounted'
<1> USE SessionAssumption
<1>1. /\ Waiting \subseteq Sessions /\ Waiting' \subseteq Sessions
      /\ IsFiniteSet(Waiting) /\ IsFiniteSet(Waiting')
      /\ Cardinality(Waiting) \in Nat /\ Cardinality(Waiting') \in Nat /\ Cardinality(Sessions) \in Nat
      /\ Cardinality(Waiting') <= Cardinality(Sessions) /\ Cardinality(Sessions) > 0
  <2>1. Waiting \subseteq Sessions /\ Waiting' \subseteq Sessions
    BY DEF Waiting
  <2>2. IsFiniteSet(Waiting) /\ IsFiniteSet(Waiting') /\ Cardinality(Waiting') <= Cardinality(Sessions)
    BY <2>1, FS_Subset
  <2>3. Cardinality(Sessions) # 0
    BY FS_EmptySet
  <2> QED
    BY <2>1, <2>2, <2>3, FS_CardinalityType
<1>2. CASE Leaves
  <2>1. Cardinality(Waiting') <= Cardinality(Waiting)
    BY <1>1, <1>2, FS_Subset DEF Leaves
  <2>2. Waiting' = {} \/ Budget > 0
    BY <1>2 DEF Leaves, Accounted
  <2>3. Waiting' = {} => Cardinality(Waiting') = 0
    BY FS_EmptySet
  <2> QED
    BY <1>1, <1>2, <2>1, <2>2, <2>3 DEF Leaves, Accounted
<1>3. CASE Asks
  BY <1>1, <1>3 DEF Asks, Accounted
<1>4. CASE Pays
  <2>1. PICK t \in Waiting : Waiting' \subseteq Waiting \ {t} /\ spent' = spent + 1
    BY <1>4 DEF Pays
  <2>2. IsFiniteSet(Waiting \ {t}) /\ Cardinality(Waiting \ {t}) = Cardinality(Waiting) - 1
    BY <1>1, <2>1, FS_RemoveElement
  <2>3. Cardinality(Waiting') <= Cardinality(Waiting) - 1
    BY <2>1, <2>2, FS_Subset
  <2> QED
    BY <1>1, <2>1, <2>3 DEF Accounted
<1> QED
  BY <1>2, <1>3, <1>4

\* For any number of sessions and providers and every budget: what a month costs exceeds the
\* budget by less than one answer for each session, however questions, failures and answers
\* overlap (ProviderRouter.complete, CostTracker).
THEOREM BudgetAlwaysHolds == Spec => []BudgetHolds
<1> DEFINE BInv == Shaped /\ Accounted
<1>1. Init => BInv
  <2> SUFFICES ASSUME Init PROVE BInv
    OBVIOUS
  <2>1. Shaped
    BY DEF Init, Shaped, Idle
  <2>2. Waiting = {}
    BY SessionAssumption DEF Init, Waiting, Waits, Idle
  <2>3. Cardinality(Waiting) = 0 /\ Cardinality(Sessions) \in Nat /\ Cardinality(Sessions) # 0
    BY <2>2, FS_EmptySet, FS_CardinalityType, SessionAssumption
  <2>4. Accounted
    BY <2>2, <2>3, SessionAssumption DEF Init, Accounted
  <2> QED
    BY <2>1, <2>4
<1>2. BInv /\ [Next]_vars => BInv'
  BY BudgetStep, AccountedStep DEF Accounted
<1>3. BInv => BudgetHolds
  <2> SUFFICES ASSUME BInv PROVE BudgetHolds
    OBVIOUS
  <2>1. Waiting \subseteq Sessions
    BY DEF Waiting
  <2>2. Cardinality(Waiting) \in Nat /\ Cardinality(Sessions) \in Nat
    BY <2>1, FS_Subset, FS_CardinalityType, SessionAssumption
  <2> QED
    BY <2>2, SessionAssumption DEF Accounted, BudgetHolds
<1> QED
  BY <1>1, <1>2, <1>3, PTL DEF Spec

-----------------------------------------------------------------------------
(* Breakers. Each is changed as CircuitBreaker's would be, whoever asks.   *)

Lines == 1..Len(Providers)
Breakers == [state : {"CLOSED", "OPEN", "HALF_OPEN"}, failures : 0..FailureThreshold, since : 0..RecoverySeconds]

\* Breakers are breakers, and only a session with a question open asks a provider.
Wired ==
    /\ Shaped
    /\ breaker \in [Lines -> Breakers]
    /\ \A t \in Sessions : /\ job[t].asks \in 0..Nobody
                           /\ job[t].at \notin Asking => job[t].asks = 0

\* A set of naturals has a least one.
LEMMA HasLeast ==
  ASSUME NEW S, S \subseteq Nat, S # {}
  PROVE  \E m \in S : \A y \in S : m <= y
<1>1. PICK m \in S : \A y \in S : ~(<<y, m>> \in OpToRel(<, Nat))
  BY NatLessThanWellFounded, WFMin
<1>2. \A y \in S : m <= y
  <2> SUFFICES ASSUME NEW y \in S, y < m PROVE FALSE
    OBVIOUS
  <2>1. <<y, m>> \in Nat \X Nat
    OBVIOUS
  <2>2. <<y, m>> \in OpToRel(<, Nat)
    BY <2>1 DEF OpToRel
  <2> QED
    BY <1>1, <2>2
<1> QED
  BY <1>2

LEMMA LeastExists ==
  ASSUME NEW S, S \subseteq Nat, S # {}
  PROVE  Min(S) \in S
BY HasLeast DEF Min

LEMMA LesserOfTwo ==
  ASSUME NEW a \in Nat, NEW b \in Nat
  PROVE  Min({a, b}) = IF a <= b THEN a ELSE b
BY DEF Min

\* What a session's question leaves at the other sessions.
LEMMA AsksOf ==
  ASSUME Shaped, NEW t \in Sessions, NEW k, job' = [job EXCEPT ![t].asks = k]
  PROVE  /\ Shaped'
         /\ job'[t].asks = k /\ job'[t].at = job[t].at
         /\ \A u \in Sessions \ {t} : job'[u] = job[u]
<1> DEFINE r == [job[t] EXCEPT !.asks = k]
<1>1. /\ r = [at |-> r.at, asks |-> r.asks, from |-> r.from, candidate |-> r.candidate]
      /\ r.asks = k /\ r.at = job[t].at
  BY DEF Shaped
<1>2. job' = [job EXCEPT ![t] = r]
  OBVIOUS
<1> HIDE DEF r
<1> QED
  BY <1>1, <1>2, Replaced

\* Reading a breaker's state keeps it a breaker.
LEMMA ReadState ==
  ASSUME NEW b \in Breakers
  PROVE  /\ [b EXCEPT !.state = Observed(b)] \in Breakers
         /\ [b EXCEPT !.state = Observed(b)].state = Observed(b)
         /\ [b EXCEPT !.state = Observed(b)].failures = b.failures
         /\ [b EXCEPT !.state = Observed(b)].since = b.since
BY DEF Breakers, Observed

\* A session turns to a provider that is let through, or to nobody.
Routes(t, k, breakers) ==
    /\ job' = [job EXCEPT ![t].asks = k]
    /\ k = Nobody => breaker' = breakers
    /\ k # Nobody => /\ k \in Lines /\ Observed(breakers[k]) # "OPEN"
                     /\ breaker' = [breakers EXCEPT ![k].state = Observed(breakers[k])]

LEMMA TurnsTo ==
  ASSUME Shaped, NEW t \in Sessions, NEW i \in 1..Nobody, NEW breakers \in [Lines -> Breakers], Turn(t, i, breakers)
  PROVE  \E k \in i..Nobody : Routes(t, k, breakers)
<1> DEFINE up == {k \in i..Len(Providers) : Observed(breakers[k]) # "OPEN"}
           k == IF up = {} THEN Nobody ELSE Min(up)
<1>0. Len(Providers) \in Nat /\ Nobody = Len(Providers) + 1
  BY SessionAssumption DEF Nobody
<1>1. /\ job' = [job EXCEPT ![t].asks = k]
      /\ breaker' = IF k = Nobody THEN breakers ELSE [breakers EXCEPT ![k].state = Observed(breakers[k])]
  BY DEF Turn
<1>2. up \subseteq Nat
  BY <1>0
<1>3. up # {} => Min(up) \in up
  BY <1>2, LeastExists
<1>4. k \in i..Nobody /\ (k # Nobody => k \in Lines /\ Observed(breakers[k]) # "OPEN")
  BY <1>0, <1>3 DEF Lines
<1> HIDE DEF k
<1>5. Routes(t, k, breakers)
  BY <1>1, <1>4 DEF Routes
<1> QED
  BY <1>4, <1>5

\* What a breaker of CircuitBreaker sees of a step of the router: nothing ...
LEMMA Unseen ==
  ASSUME NEW k \in Lines,
         breaker'[k].state = breaker[k].state, breaker'[k].failures = breaker[k].failures,
         breaker'[k].since = breaker[k].since,
         \A t \in Sessions : job'[t].asks = k <=> job[t].asks = k
  PROVE  [CB(k)!Next]_(CB(k)!vars)
BY DEF CB!vars

\* ... an attempt that is let through ...
LEMMA LetThrough ==
  ASSUME NEW k \in Lines, NEW t \in Sessions, job[t].asks # k, job'[t].asks = k,
         \A u \in Sessions \ {t} : job'[u].asks = job[u].asks,
         Observed(breaker[k]) # "OPEN", breaker \in [Lines -> Breakers],
         breaker'[k] = [breaker[k] EXCEPT !.state = Observed(breaker[k])]
  PROVE  [CB(k)!Next]_(CB(k)!vars)
<1>1. /\ breaker'[k].state = Observed(breaker[k])
      /\ breaker'[k].failures = breaker[k].failures /\ breaker'[k].since = breaker[k].since
      /\ Observed(breaker[k]) \in {"CLOSED", "HALF_OPEN"}
  BY ReadState DEF Breakers, Observed
<1>2. CB(k)!Admit(t)
  BY <1>1 DEF CB!Admit, CB!ObservedState, CB!RecoveryElapsed, Observed, Cooled
<1> QED
  BY <1>2 DEF CB!Next

\* ... one that succeeds ...
LEMMA SucceededThere ==
  ASSUME NEW k \in Lines, NEW t \in Sessions, job[t].asks = k, job'[t].asks # k,
         \A u \in Sessions \ {t} : job'[u].asks = job[u].asks,
         breaker \in [Lines -> Breakers], breaker'[k] = Succeeded(breaker[k])
  PROVE  [CB(k)!Next]_(CB(k)!vars)
<1>1. breaker'[k].state = "CLOSED" /\ breaker'[k].failures = 0 /\ breaker'[k].since = breaker[k].since
  BY DEF Succeeded, Breakers
<1>2. [u \in Sessions |-> IF job'[u].asks = k THEN "in_flight" ELSE "idle"]
        = [[u \in Sessions |-> IF job[u].asks = k THEN "in_flight" ELSE "idle"] EXCEPT ![t] = "idle"]
  OBVIOUS
<1>3. CB(k)!RecordSuccess(t)
  BY <1>1, <1>2 DEF CB!RecordSuccess
<1> QED
  BY <1>3 DEF CB!Next

\* A failure, field by field.
LEMMA FailedBreaker ==
  ASSUME NEW b \in Breakers
  PROVE  LET n == IF b.failures < FailureThreshold THEN b.failures + 1 ELSE b.failures
             trips == b.state = "HALF_OPEN" \/ n >= FailureThreshold
         IN /\ FailedOnce(b) \in Breakers
            /\ FailedOnce(b).failures = n
            /\ trips => FailedOnce(b).state = "OPEN" /\ FailedOnce(b).since = 0
            /\ ~trips => FailedOnce(b).state = b.state /\ FailedOnce(b).since = b.since
<1> DEFINE n == IF b.failures < FailureThreshold THEN b.failures + 1 ELSE b.failures
<1>0. FailureThreshold \in Nat \ {0} /\ RecoverySeconds \in Nat \ {0} /\ b.failures \in 0..FailureThreshold
  BY SessionAssumption DEF Breakers
<1>1. Min({b.failures + 1, FailureThreshold}) = n /\ n \in 0..FailureThreshold
  BY <1>0, LesserOfTwo
<1>2. FailedOnce(b) = IF b.state = "HALF_OPEN" \/ n = FailureThreshold
                      THEN [state |-> "OPEN", failures |-> n, since |-> 0]
                      ELSE [b EXCEPT !.failures = n]
  BY <1>1 DEF FailedOnce
<1>3. n >= FailureThreshold <=> n = FailureThreshold
  BY <1>0, <1>1
<1> HIDE DEF n
<1>4. /\ FailedOnce(b) \in Breakers
      /\ FailedOnce(b).failures = n
      /\ b.state = "HALF_OPEN" \/ n = FailureThreshold => FailedOnce(b).state = "OPEN" /\ FailedOnce(b).since = 0
      /\ ~(b.state = "HALF_OPEN" \/ n = FailureThreshold)
            => FailedOnce(b).state = b.state /\ FailedOnce(b).since = b.since
  BY <1>0, <1>1, <1>2 DEF Breakers
<1> QED
  BY <1>3, <1>4 DEF n

\* ... and one that fails.
LEMMA FailedThere ==
  ASSUME NEW k \in Lines, NEW t \in Sessions, job[t].asks = k, job'[t].asks # k,
         \A u \in Sessions \ {t} : job'[u].asks = job[u].asks,
         breaker \in [Lines -> Breakers], breaker'[k] = FailedOnce(breaker[k])
  PROVE  [CB(k)!Next]_(CB(k)!vars)
<1> DEFINE b == breaker[k]
           n == IF b.failures < FailureThreshold THEN b.failures + 1 ELSE b.failures
           trips == b.state = "HALF_OPEN" \/ n >= FailureThreshold
<1>1. /\ breaker'[k].failures = n
      /\ trips => breaker'[k].state = "OPEN" /\ breaker'[k].since = 0
      /\ ~trips => breaker'[k].state = b.state /\ breaker'[k].since = b.since
  BY FailedBreaker
<1>2. CB(k)!RecordFailure(t)
  BY <1>1 DEF CB!RecordFailure, CB!CountFailure, CB!Trips
<1> QED
  BY <1>2 DEF CB!Next

\* A tick of the clock.
LEMMA TickThere ==
  ASSUME NEW k \in Lines, Tick, breaker \in [Lines -> Breakers]
  PROVE  breaker' \in [Lines -> Breakers] /\ [CB(k)!Next]_(CB(k)!vars)
<1>0. RecoverySeconds \in Nat \ {0} /\ DOMAIN breaker = Lines
  BY SessionAssumption
<1> DEFINE later(b) == IF b.since < RecoverySeconds THEN b.since + 1 ELSE RecoverySeconds
<1>1. \A b \in Breakers : Min({b.since + 1, RecoverySeconds}) = later(b) /\ later(b) \in 0..RecoverySeconds
  BY <1>0, LesserOfTwo DEF Breakers
<1>2. breaker' = [j \in Lines |-> [breaker[j] EXCEPT !.since = Min({breaker[j].since + 1, RecoverySeconds})]] /\ job' = job
  BY <1>0 DEF Tick
<1>3. breaker' = [j \in Lines |-> [breaker[j] EXCEPT !.since = later(breaker[j])]]
  BY <1>1, <1>2
<1>4. \A j \in Lines : later(breaker[j]) \in 0..RecoverySeconds
  BY <1>1
<1>5. breaker[k].since \in 0..RecoverySeconds
  BY DEF Breakers
<1>6. later(breaker[k]) = IF breaker[k].since < RecoverySeconds THEN breaker[k].since + 1 ELSE breaker[k].since
  BY <1>0, <1>5
<1> HIDE DEF later
<1>7. breaker' \in [Lines -> Breakers]
  BY <1>3, <1>4 DEF Breakers
<1>8. /\ breaker'[k].state = breaker[k].state /\ breaker'[k].failures = breaker[k].failures
      /\ breaker'[k].since = later(breaker[k])
  BY <1>3 DEF Breakers
<1>9. CASE breaker[k].since < RecoverySeconds
  <2>1. CB(k)!Tick
    BY <1>2, <1>6, <1>8, <1>9 DEF CB!Tick
  <2> QED
    BY <1>7, <2>1 DEF CB!Next
<1>10. CASE ~(breaker[k].since < RecoverySeconds)
  BY <1>2, <1>6, <1>7, <1>8, <1>10, Unseen
<1> QED
  BY <1>9, <1>10

\* A session that moves on without a provider leaves every breaker alone.
LEMMA MovesOn ==
  ASSUME Wired, Shaped', NEW t \in Sessions, job[t].asks \notin Lines, job'[t].asks = 0,
         \A u \in Sessions \ {t} : job'[u] = job[u], breaker' = breaker
  PROVE  Wired' /\ \A k \in Lines : [CB(k)!Next]_(CB(k)!vars)
<1>0. Len(Providers) \in Nat /\ 0 \in 0..Nobody /\ 0 \notin Lines
  BY SessionAssumption DEF Nobody, Lines
<1>1. Wired'
  BY <1>0 DEF Wired
<1>2. ASSUME NEW k \in Lines PROVE [CB(k)!Next]_(CB(k)!vars)
  BY <1>0, <1>2, Unseen
<1> QED
  BY <1>1, <1>2

\* ... and so does one that is answered, except for the breaker of who answered.
LEMMA MovesOnAnswered ==
  ASSUME Wired, Shaped', NEW t \in Sessions, Answered(t), job'[t].asks = 0,
         \A u \in Sessions \ {t} : job'[u] = job[u]
  PROVE  Wired' /\ \A k \in Lines : [CB(k)!Next]_(CB(k)!vars)
<1>0. Len(Providers) \in Nat /\ 0 \in 0..Nobody /\ 0 \notin Lines
  BY SessionAssumption DEF Nobody, Lines
<1> DEFINE j == job[t].asks
<1>1. j \in Lines /\ breaker' = [breaker EXCEPT ![j] = Succeeded(breaker[j])]
  BY DEF Answered, Waits, Lines
<1>2. ASSUME NEW b \in Breakers PROVE Succeeded(b) \in Breakers
  <2> DEFINE c == [b EXCEPT !.state = "CLOSED"]
  <2>1. c \in Breakers
    BY DEF Breakers
  <2> HIDE DEF c
  <2>2. [c EXCEPT !.failures = 0] \in Breakers
    <3>1. 0 \in 0..FailureThreshold
      BY SessionAssumption
    <3> QED
      BY <2>1, <3>1 DEF Breakers
  <2>3. Succeeded(b) = [c EXCEPT !.failures = 0]
    BY DEF Succeeded, c
  <2> QED
    BY <2>2, <2>3
<1>3. Wired'
  BY <1>0, <1>1, <1>2 DEF Wired
<1>4. breaker \in [Lines -> Breakers]
  BY DEF Wired
<1>5. ASSUME NEW k \in Lines, k = j PROVE [CB(k)!Next]_(CB(k)!vars)
  BY <1>0, <1>1, <1>4, <1>5, SucceededThere
<1>6. ASSUME NEW k \in Lines, k # j PROVE [CB(k)!Next]_(CB(k)!vars)
  <2>1. breaker'[k] = breaker[k]
    BY <1>1, <1>4, <1>6
  <2> QED
    BY <1>0, <1>6, <2>1, Unseen
<1> QED
  BY <1>3, <1>5, <1>6

\* A session's question goes to a provider: its breaker admits it.
LEMMA RoutedQuestion ==
  ASSUME Wired, NEW t \in Sessions, Ask(t)
  PROVE  Wired' /\ \A k \in Lines : [CB(k)!Next]_(CB(k)!vars)
<1>0. Len(Providers) \in Nat /\ Nobody = Len(Providers) + 1 /\ Nobody \in 0..Nobody /\ Nobody \notin Lines /\ 0 \notin Lines
      /\ 1 \in 1..Nobody
  BY SessionAssumption DEF Nobody, Lines
<1>1. Shaped /\ breaker \in [Lines -> Breakers] /\ job[t].asks = 0 /\ job[t].at \in Asking
  BY DEF Wired, Ask
<1>2. \E k \in 1..Nobody : Routes(t, k, breaker)
  <2>1. CASE spent >= Budget
    <3>1. Nobody \in 1..Nobody /\ Routes(t, Nobody, breaker)
      BY <1>0, <2>1 DEF Ask, Routes
    <3> QED
      BY <3>1
  <2>2. CASE ~(spent >= Budget)
    <3>1. Turn(t, 1, breaker)
      BY <2>2 DEF Ask
    <3> QED
      BY <1>0, <1>1, <3>1, TurnsTo
  <2> QED
    BY <2>1, <2>2
<1>3. PICK j \in 1..Nobody : Routes(t, j, breaker)
  BY <1>2
<1>4. /\ Shaped' /\ job'[t].asks = j /\ job'[t].at = job[t].at
      /\ \A u \in Sessions \ {t} : job'[u] = job[u]
  BY <1>1, <1>3, AsksOf DEF Routes
<1>5. breaker' \in [Lines -> Breakers]
  BY <1>1, <1>3, ReadState DEF Routes
<1>6. Wired'
  BY <1>0, <1>1, <1>4, <1>5 DEF Wired
<1>7. ASSUME NEW k \in Lines, k = j PROVE [CB(k)!Next]_(CB(k)!vars)
  <2>1. breaker'[k] = [breaker[k] EXCEPT !.state = Observed(breaker[k])] /\ Observed(breaker[k]) # "OPEN"
    BY <1>0, <1>1, <1>3, <1>7 DEF Routes
  <2> QED
    BY <1>0, <1>1, <1>4, <1>7, <2>1, LetThrough
<1>8. ASSUME NEW k \in Lines, k # j PROVE [CB(k)!Next]_(CB(k)!vars)
  <2>1. breaker'[k] = breaker[k]
    BY <1>1, <1>3, <1>8 DEF Routes
  <2> QED
    BY <1>0, <1>1, <1>4, <1>8, <2>1, Unseen
<1> QED
  BY <1>6, <1>7, <1>8 DEF Routes

\* A failure is recorded with the provider that was asked, and the next one's breaker admits
\* the question: two breakers move, each by a step of its own.
LEMMA RoutedFailure ==
  ASSUME Wired, NEW t \in Sessions, Fails(t)
  PROVE  Wired' /\ \A k \in Lines : [CB(k)!Next]_(CB(k)!vars)
<1> DEFINE i == job[t].asks
           after == [breaker EXCEPT ![i] = FailedOnce(breaker[i])]
<1>0. Len(Providers) \in Nat /\ Nobody = Len(Providers) + 1 /\ Nobody \notin Lines
  BY SessionAssumption DEF Nobody, Lines
<1>1. Shaped /\ breaker \in [Lines -> Breakers] /\ i \in Lines /\ i + 1 \in 1..Nobody
  BY <1>0 DEF Wired, Fails, Waits, Lines
<1>2. job[t].at \in Asking
  BY <1>0, <1>1 DEF Wired, Lines
<1>3. FailedOnce(breaker[i]) \in Breakers
  BY <1>1, FailedBreaker
<1>4. after \in [Lines -> Breakers]
  BY <1>1, <1>3 DEF Routes
<1>5. Turn(t, i + 1, after)
  BY DEF Fails
<1> HIDE DEF i, after
<1>6. PICK j \in (i + 1)..Nobody : Routes(t, j, after)
  BY <1>1, <1>4, <1>5, TurnsTo
<1>7. /\ Shaped' /\ job'[t].asks = j /\ job'[t].at = job[t].at
      /\ \A u \in Sessions \ {t} : job'[u] = job[u]
  BY <1>1, <1>6, AsksOf DEF Routes
<1>8. breaker' \in [Lines -> Breakers]
  BY <1>4, <1>6, ReadState DEF Routes
<1>9. i # j /\ j \in 0..Nobody
  BY <1>0, <1>1, <1>6 DEF Lines, Routes
<1>10. Wired'
  BY <1>2, <1>7, <1>8, <1>9 DEF Wired
<1>11. ASSUME NEW k \in Lines, k = i PROVE [CB(k)!Next]_(CB(k)!vars)
  <2>1. breaker'[k] = FailedOnce(breaker[k])
    BY <1>1, <1>4, <1>6, <1>9, <1>11 DEF after, Routes
  <2>2. job[t].asks = k /\ job'[t].asks # k
    BY <1>7, <1>9, <1>11 DEF i
  <2> QED
    BY <1>1, <1>7, <2>1, <2>2, FailedThere
<1>12. ASSUME NEW k \in Lines, k = j PROVE [CB(k)!Next]_(CB(k)!vars)
  <2>1. after[k] = breaker[k]
    BY <1>1, <1>9, <1>12 DEF after
  <2>2. breaker'[k] = [breaker[k] EXCEPT !.state = Observed(breaker[k])] /\ Observed(breaker[k]) # "OPEN"
    BY <1>0, <1>4, <1>6, <1>12, <2>1 DEF Routes
  <2>3. job[t].asks # k /\ job'[t].asks = k
    BY <1>7, <1>9, <1>12 DEF i
  <2> QED
    BY <1>1, <1>7, <2>2, <2>3, LetThrough
<1>13. ASSUME NEW k \in Lines, k # i, k # j PROVE [CB(k)!Next]_(CB(k)!vars)
  <2>1. breaker'[k] = breaker[k]
    BY <1>1, <1>4, <1>6, <1>13 DEF after, Routes
  <2>2. job[t].asks # k /\ job'[t].asks # k
    BY <1>7, <1>13 DEF i
  <2> QED
    BY <1>7, <2>1, <2>2, Unseen
<1> QED
  BY <1>10, <1>11, <1>12, <1>13

\* The question is over.
LEMMA RoutedAnswer ==
  ASSUME Wired, NEW t \in Sessions, Answered(t) \/ Unanswered(t), Shaped', job'[t].asks = 0,
         \A u \in Sessions \ {t} : job'[u] = job[u]
  PROVE  Wired' /\ \A k \in Lines : [CB(k)!Next]_(CB(k)!vars)
<1>1. CASE Answered(t)
  BY <1>1, MovesOnAnswered
<1>2. CASE Unanswered(t)
  <2>1. job[t].asks \notin Lines /\ breaker' = breaker
    BY <1>2, SessionAssumption DEF Unanswered, Nobody, Lines
  <2> QED
    BY <2>1, MovesOn
<1> QED
  BY <1>1, <1>2

\* The steps of a session.
LEMMA RouterStep ==
  ASSUME Wired, [Next]_vars
  PROVE  Wired' /\ \A k \in Lines : [CB(k)!Next]_(CB(k)!vars)
<1>0. Shaped
  BY DEF Wired
<1>1. ASSUME NEW t \in Sessions, Ask(t) \/ Fails(t)
      PROVE  Wired' /\ \A k \in Lines : [CB(k)!Next]_(CB(k)!vars)
  BY <1>1, RoutedQuestion, RoutedFailure
<1>2. ASSUME NEW t \in Sessions, Diagnosed(t) \/ Selected(t) \/ Judged(t)
      PROVE  Wired' /\ \A k \in Lines : [CB(k)!Next]_(CB(k)!vars)
  BY <1>0, <1>2, Questioned, RoutedAnswer DEF Rests
<1>3. ASSUME NEW t \in Sessions, Begin(t) \/ Evaluate(t) \/ Reported(t) \/ Optimize(t) \/ Guard(t) \/ Apply(t) \/ Saved(t)
      PROVE  Wired' /\ \A k \in Lines : [CB(k)!Next]_(CB(k)!vars)
  <2>1. job[t].at \notin Asking /\ breaker' = breaker
    BY <1>3 DEF Begin, Evaluate, Reported, Optimize, Guard, Apply, Saved, Asking
  <2>2. job[t].asks = 0 /\ 0 \notin Lines
    BY <2>1, SessionAssumption DEF Wired, Lines
  <2>3. Shaped' /\ job'[t].asks = 0 /\ \A u \in Sessions \ {t} : job'[u] = job[u]
    BY <1>0, <1>3, <2>2, Worked
  <2> QED
    BY <2>1, <2>2, <2>3, MovesOn
<1>4. CASE Tick
  <2>1. breaker \in [Lines -> Breakers] /\ job' = job
    BY <1>4 DEF Wired, Tick
  <2>2. Lines # {} => breaker' \in [Lines -> Breakers]
    BY <1>4, <2>1, TickThere
  <2>3. Lines # {}
    BY <1>4, <2>1 DEF Tick
  <2>4. Wired'
    BY <1>0, <2>1, <2>2, <2>3 DEF Wired, Shaped
  <2> QED
    BY <1>4, <2>1, <2>4, TickThere
<1>5. CASE Month \/ ApplyPreset \/ UNCHANGED vars
  <2>1. breaker' = breaker /\ job' = job
    BY <1>5 DEF Month, ApplyPreset, vars
  <2>2. Wired'
    BY <2>1 DEF Wired, Shaped
  <2> QED
    BY <2>1, <2>2, Unseen
<1> QED
  BY <1>1, <1>2, <1>3, <1>4, <1>5 DEF Next, Goes

\* For any providers and any number of sessions: each provider's breaker goes through the
\* steps of CircuitBreaker, whose theorems hold of it therefore, though one failure of a
\* session moves two breakers at once (ProviderRouter.complete, CircuitBreaker).
THEOREM RouterAlwaysKeepsBreakers == Spec => RouterKeepsBreakers
<1>0. DOMAIN Providers = Lines /\ Len(Providers) \in Nat
  BY SessionAssumption DEF Lines
<1>1. Init => Wired
  <2> SUFFICES ASSUME Init PROVE Wired
    OBVIOUS
  <2>1. Shaped
    BY DEF Init, Shaped, Idle
  <2>2. \A t \in Sessions : job[t].asks = 0
    BY DEF Init, Idle
  <2>3. breaker \in [Lines -> Breakers]
    BY <1>0, SessionAssumption DEF Init, Breakers
  <2> QED
    BY <1>0, <2>1, <2>2, <2>3 DEF Wired, Nobody
<1>2. Init => \A k \in DOMAIN Providers : CB(k)!Init
  <2> SUFFICES ASSUME Init, NEW k \in Lines PROVE CB(k)!Init
    BY <1>0
  <2>1. \A t \in Sessions : job[t].asks # k
    BY SessionAssumption DEF Init, Idle, Lines
  <2>2. breaker[k] = [state |-> "CLOSED", failures |-> 0, since |-> RecoverySeconds]
    BY <1>0 DEF Init
  <2> QED
    BY <2>1, <2>2 DEF CB!Init
<1>3. Wired /\ [Next]_vars => Wired' /\ [\A k \in DOMAIN Providers : [CB(k)!Next]_(CB(k)!vars)]_vars
  BY <1>0, RouterStep
<1> QED
  BY <1>1, <1>2, <1>3, PTL DEF Spec, RouterKeepsBreakers

-----------------------------------------------------------------------------
(* Sums over finite sets. MapThenSumSet takes away one element after the    *)
(* other; Total is the same sum, of a function, without an operator as its *)
(* argument: so what holds of it can be shown by induction over the sets.  *)

AnyOf(s) == CHOOSE x \in s : TRUE
Sums(f, S, it) == it = [s \in SUBSET S |-> IF s = {} THEN 0 ELSE f[AnyOf(s)] + it[s \ {AnyOf(s)}]]
Total(f, S) == (CHOOSE it : Sums(f, S, it))[S]

\* The sum of the model is this one.
LEMMA SumIsTotal ==
  ASSUME NEW f, NEW S
  PROVE  MapThenSumSet(LAMBDA q : f[q], S) = Total(f, S)
BY DEF MapThenSumSet, MapThenFoldSet, Total, Sums, AnyOf

LEMMA OneOf ==
  ASSUME NEW s, s # {}
  PROVE  AnyOf(s) \in s
BY DEF AnyOf

\* The sum over w exists, and it is the same in the sums over all larger sets.
Summed(f, w) ==
  /\ \E it : Sums(f, w, it)
  /\ \A S, it : w \subseteq S /\ Sums(f, S, it) => it[w] = Total(f, w)

LEMMA SumsAt ==
  ASSUME NEW f, NEW S, NEW it, Sums(f, S, it), NEW w \in SUBSET S
  PROVE  it[w] = IF w = {} THEN 0 ELSE f[AnyOf(w)] + it[w \ {AnyOf(w)}]
BY DEF Sums

\* Sums exist over a set if they do over the smaller ones, and are made of one of those.
LEMMA SummedNext ==
  ASSUME NEW f, NEW w, \A u \in SUBSET w : u # w => Summed(f, u)
  PROVE  /\ Summed(f, w)
         /\ Total(f, w) = IF w = {} THEN 0 ELSE f[AnyOf(w)] + Total(f, w \ {AnyOf(w)})
<1>1. ASSUME NEW u \in SUBSET w, u # w
      PROVE  Total(f, u) = IF u = {} THEN 0 ELSE f[AnyOf(u)] + Total(f, u \ {AnyOf(u)})
  <2>1. PICK it : it = CHOOSE i : Sums(f, u, i)
    OBVIOUS
  <2>2. Sums(f, u, it)
    BY <1>1, <2>1 DEF Summed
  <2>3. Total(f, u) = it[u]
    BY <2>1 DEF Total
  <2>4. it[u] = IF u = {} THEN 0 ELSE f[AnyOf(u)] + it[u \ {AnyOf(u)}]
    BY <2>2, SumsAt
  <2>5. ASSUME u # {} PROVE it[u \ {AnyOf(u)}] = Total(f, u \ {AnyOf(u)})
    <3>1. u \ {AnyOf(u)} \in SUBSET w /\ u \ {AnyOf(u)} # w /\ u \ {AnyOf(u)} \subseteq u
      BY <1>1, <2>5, OneOf
    <3> QED
      BY <2>2, <3>1 DEF Summed
  <2> QED
    BY <2>3, <2>4, <2>5
<1>2. PICK new : new = [u \in SUBSET w |-> IF u = {} THEN 0 ELSE f[AnyOf(u)] + Total(f, u \ {AnyOf(u)})]
  OBVIOUS
<1>3. ASSUME NEW u \in SUBSET w, u # {}
      PROVE  Total(f, u \ {AnyOf(u)}) = new[u \ {AnyOf(u)}]
  <2>1. u \ {AnyOf(u)} \in SUBSET w /\ u \ {AnyOf(u)} # w
    BY <1>3, OneOf
  <2> QED
    BY <1>1, <1>2, <2>1
<1>4. Sums(f, w, new)
  BY <1>2, <1>3 DEF Sums
<1>5. PICK it : it = CHOOSE i : Sums(f, w, i)
  OBVIOUS
<1>6. Sums(f, w, it) /\ Total(f, w) = it[w]
  BY <1>4, <1>5 DEF Total
<1>7. ASSUME NEW S, NEW any, w \subseteq S, Sums(f, S, any)
      PROVE  any[w] = IF w = {} THEN 0 ELSE f[AnyOf(w)] + Total(f, w \ {AnyOf(w)})
  <2>1. any[w] = IF w = {} THEN 0 ELSE f[AnyOf(w)] + any[w \ {AnyOf(w)}]
    BY <1>7, SumsAt
  <2>2. ASSUME w # {} PROVE any[w \ {AnyOf(w)}] = Total(f, w \ {AnyOf(w)})
    <3>1. w \ {AnyOf(w)} \in SUBSET w /\ w \ {AnyOf(w)} # w /\ w \ {AnyOf(w)} \subseteq S
      BY <1>7, <2>2, OneOf
    <3> QED
      BY <1>7, <3>1 DEF Summed
  <2> QED
    BY <2>1, <2>2
<1> QED
  BY <1>4, <1>6, <1>7 DEF Summed

\* Induction: of bad subsets of a finite set one has no smaller ones.
LEMMA LeastBad ==
  ASSUME NEW S, IsFiniteSet(S), NEW bad, bad \subseteq SUBSET S, bad # {}
  PROVE  \E w \in bad : \A u \in SUBSET w : u # w => u \notin bad
<1>1. bad \subseteq FiniteSubsetsOf(S)
  BY FS_FiniteSubsetsOfFinite
<1>2. PICK w \in bad : \A u \in bad : <<u, w>> \notin StrictSubsetOrdering(S)
  BY <1>1, FS_StrictSubsetOrderingWellFounded, WFMin
<1>3. ASSUME NEW u \in SUBSET w, u # w, u \in bad PROVE FALSE
  BY <1>2, <1>3 DEF StrictSubsetOrdering
<1> QED
  BY <1>2, <1>3

\* Sums over finite sets exist, by induction.
LEMMA AllSummed ==
  ASSUME NEW f, NEW S, IsFiniteSet(S)
  PROVE  \A w \in SUBSET S : Summed(f, w)
<1> SUFFICES ASSUME NEW bad, bad = {w \in SUBSET S : ~Summed(f, w)}, bad # {} PROVE FALSE
  OBVIOUS
<1>1. PICK w \in bad : \A u \in SUBSET w : u # w => u \notin bad
  BY LeastBad
<1>2. \A u \in SUBSET w : u # w => Summed(f, u)
  BY <1>1
<1> QED
  BY <1>1, <1>2, SummedNext

\* How a sum is made of a smaller one.
LEMMA TotalOf ==
  ASSUME NEW f, NEW S, IsFiniteSet(S)
  PROVE  \A w \in SUBSET S : Total(f, w) = IF w = {} THEN 0 ELSE f[AnyOf(w)] + Total(f, w \ {AnyOf(w)})
<1> SUFFICES ASSUME NEW w \in SUBSET S
             PROVE  Total(f, w) = IF w = {} THEN 0 ELSE f[AnyOf(w)] + Total(f, w \ {AnyOf(w)})
  OBVIOUS
<1>1. \A u \in SUBSET w : Summed(f, u)
  BY AllSummed
<1> QED
  BY <1>1, SummedNext

\* Sums of the same values are the same.
LEMMA TotalSame ==
  ASSUME NEW f, NEW g, NEW S, IsFiniteSet(S), \A q \in S : f[q] = g[q]
  PROVE  Total(f, S) = Total(g, S)
<1>1. \A w \in SUBSET S : Total(f, w) = Total(g, w)
  <2> SUFFICES ASSUME NEW bad, bad = {w \in SUBSET S : Total(f, w) # Total(g, w)}, bad # {} PROVE FALSE
    OBVIOUS
  <2>1. PICK w \in bad : \A u \in SUBSET w : u # w => u \notin bad
    BY LeastBad
  <2>2. /\ w \in SUBSET S
        /\ Total(f, w) = IF w = {} THEN 0 ELSE f[AnyOf(w)] + Total(f, w \ {AnyOf(w)})
        /\ Total(g, w) = IF w = {} THEN 0 ELSE g[AnyOf(w)] + Total(g, w \ {AnyOf(w)})
    BY TotalOf
  <2>3. ASSUME w # {} PROVE f[AnyOf(w)] = g[AnyOf(w)] /\ Total(f, w \ {AnyOf(w)}) = Total(g, w \ {AnyOf(w)})
    <3>1. AnyOf(w) \in S /\ w \ {AnyOf(w)} \in SUBSET w /\ w \ {AnyOf(w)} # w /\ w \ {AnyOf(w)} \in SUBSET S
      BY <2>2, <2>3, OneOf
    <3> QED
      BY <2>1, <3>1
  <2> QED
    BY <2>1, <2>2, <2>3
<1> QED
  BY <1>1

\* Arithmetic with products, which the provers do in small pieces only.
LEMMA Division ==
  ASSUME NEW a \in Int, NEW b \in Nat \ {0}
  PROVE  a \div b \in Int /\ b * (a \div b) <= a /\ a < b * (a \div b) + b
OBVIOUS

LEMMA Distributes ==
  ASSUME NEW a \in Int, NEW b \in Int, NEW c \in Int
  PROVE  a * (b + c) = a * b + a * c /\ a * b \in Int /\ a * c \in Int
OBVIOUS

LEMMA LessByFactor ==
  ASSUME NEW a \in Nat \ {0}, NEW b \in Int, NEW c \in Int, a * b <= a * c
  PROVE  b <= c
<1> SUFFICES ASSUME b >= c + 1 PROVE FALSE
  OBVIOUS
<1>1. PICK d \in Nat : b = c + 1 + d
  <2>1. b - c - 1 \in Nat /\ b = c + 1 + (b - c - 1)
    OBVIOUS
  <2> QED
    BY <2>1
<1>2. a * b = a * c + a * (1 + d)
  BY <1>1
<1>3. a * (1 + d) = a + a * d /\ a * d >= 0
  BY <1>1
<1> QED
  BY <1>2, <1>3

\* A property of a sum that holds of each subset once it holds of those with one less.
LEMMA NaturalTotal ==
  ASSUME NEW f, NEW S, IsFiniteSet(S), \A q \in S : f[q] \in Nat
  PROVE  Total(f, S) \in Nat /\ \A q \in S : f[q] <= Total(f, S)
<1>1. \A w \in SUBSET S : Total(f, w) \in Nat /\ \A q \in w : f[q] <= Total(f, w)
  <2> SUFFICES ASSUME NEW bad, bad = {w \in SUBSET S : ~(Total(f, w) \in Nat /\ \A q \in w : f[q] <= Total(f, w))},
                      bad # {}
               PROVE  FALSE
    OBVIOUS
  <2>2. PICK w \in bad : \A u \in SUBSET w : u # w => u \notin bad
    BY LeastBad
  <2>3. w \in SUBSET S /\ Total(f, w) = IF w = {} THEN 0 ELSE f[AnyOf(w)] + Total(f, w \ {AnyOf(w)})
    BY TotalOf
  <2>4. CASE w = {}
    BY <2>3, <2>4
  <2>5. CASE w # {}
    <3>1. PICK x \in w, u \in SUBSET w : x = AnyOf(w) /\ u = w \ {x}
      BY <2>5, OneOf
    <3>2. Total(f, u) \in Nat /\ \A q \in u : f[q] <= Total(f, u)
      <4>1. u \in SUBSET S /\ u # w
        BY <2>3, <3>1
      <4> QED
        BY <2>2, <4>1
    <3>3. Total(f, w) = f[x] + Total(f, u) /\ f[x] \in Nat
      BY <2>3, <2>5, <3>1
    <3>4. Total(f, w) \in Nat /\ f[x] <= Total(f, w) /\ Total(f, u) <= Total(f, w)
      BY <3>2, <3>3
    <3>5. ASSUME NEW q \in u PROVE f[q] <= Total(f, w)
      <4>1. f[q] \in Nat
        BY <2>3, <3>1
      <4> QED
        BY <3>2, <3>4, <4>1
    <3> QED
      BY <2>2, <3>1, <3>4, <3>5
  <2> QED
    BY <2>4, <2>5
<1> QED
  BY <1>1

\* How far p times the sum of g is from r times that of v.
Within(g, v, p, r, sum, w) ==
  /\ Total(g, w) \in Int /\ Total(v, w) \in Nat
  /\ p * Total(g, w) - r * Total(v, w) \in -(sum * Cardinality(w)) .. sum * Cardinality(w)

\* What a sum of rounded shares misses: half a unit for each.
LEMMA SharesSum ==
  ASSUME NEW v, NEW g, NEW T, IsFiniteSet(T), NEW sum, sum = Total(v, T), sum # 0, NEW whole \in Nat,
         \A q \in T : v[q] \in Nat,
         \A q \in T : g[q] = (2 * whole * v[q] + sum) \div (2 * sum)
  PROVE  /\ Total(g, T) \in Int
         /\ 2 * (Total(g, T) - whole) \in -Cardinality(T) .. Cardinality(T)
<1>1. sum \in Nat \ {0}
  BY NaturalTotal
<1>2. PICK p \in Nat \ {0}, r \in Nat : p = 2 * sum /\ r = 2 * whole
  BY <1>1
<1>3. ASSUME NEW q \in T
      PROVE  g[q] \in Int /\ v[q] \in Nat /\ p * g[q] - r * v[q] \in -sum .. sum
  <2>1. PICK n \in Nat, a \in Nat : n = v[q] /\ a = r * n
    BY <1>2
  <2>2. g[q] = (a + sum) \div p
    BY <1>2, <2>1
  <2>5. PICK c \in Int : c = a + sum
    BY <1>1
  <2>3. g[q] \in Int /\ p * g[q] <= a + sum /\ a + sum < p * g[q] + p
    BY <2>2, <2>5, Division
  <2>4. PICK b \in Int : b = p * g[q]
    BY <2>3
  <2> QED
    BY <1>1, <1>2, <2>1, <2>3, <2>4
<1>4. \A w \in SUBSET T : Within(g, v, p, r, sum, w)
  <2> SUFFICES ASSUME NEW bad, bad = {w \in SUBSET T : ~Within(g, v, p, r, sum, w)}, bad # {} PROVE FALSE
    OBVIOUS
  <2>2. PICK w \in bad : \A u \in SUBSET w : u # w => u \notin bad
    BY LeastBad
  <2>3. /\ w \in SUBSET T
        /\ Total(g, w) = IF w = {} THEN 0 ELSE g[AnyOf(w)] + Total(g, w \ {AnyOf(w)})
        /\ Total(v, w) = IF w = {} THEN 0 ELSE v[AnyOf(w)] + Total(v, w \ {AnyOf(w)})
    BY TotalOf
  <2>4. CASE w = {}
    <3>1. Total(g, w) = 0 /\ Total(v, w) = 0 /\ Cardinality(w) = 0
      BY <2>3, <2>4, FS_EmptySet
    <3>2. p * 0 = 0 /\ r * 0 = 0 /\ sum * 0 = 0
      BY <1>1
    <3>3. Within(g, v, p, r, sum, w)
      BY <3>1, <3>2 DEF Within
    <3> QED
      BY <2>2, <3>3
  <2>5. CASE w # {}
    <3>1. PICK x \in w, u \in SUBSET w : x = AnyOf(w) /\ u = w \ {x}
      BY <2>5, OneOf
    <3>2. u \in SUBSET T /\ Within(g, v, p, r, sum, u)
      <4>1. u \in SUBSET T /\ u # w
        BY <2>3, <3>1
      <4> QED
        BY <2>2, <4>1
    <3>3. Total(g, w) = g[x] + Total(g, u) /\ Total(v, w) = v[x] + Total(v, u)
      BY <2>3, <2>5, <3>1
    <3>4. Cardinality(w) = Cardinality(u) + 1 /\ Cardinality(u) \in Nat
      <4>1. IsFiniteSet(w) /\ IsFiniteSet(u)
        BY <2>3, <3>2, FS_Subset
      <4>2. Cardinality(w) \in Nat /\ Cardinality(u) \in Nat
        BY <4>1, FS_CardinalityType
      <4>3. Cardinality(u) = Cardinality(w) - 1
        BY <3>1, <4>1, FS_RemoveElement
      <4> QED
        BY <4>2, <4>3
    <3>5. PICK n \in Nat, gx \in Int, vx \in Nat, gu \in Int, vu \in Nat :
             /\ n = Cardinality(u) /\ gx = g[x] /\ vx = v[x] /\ gu = Total(g, u) /\ vu = Total(v, u)
      BY <1>3, <2>3, <3>1, <3>2, <3>4 DEF Within
    <3>6. p * gx - r * vx \in -sum .. sum /\ p * gu - r * vu \in -(sum * n) .. sum * n
      BY <1>3, <2>3, <3>2, <3>5 DEF Within
    <3>7. /\ p * (gx + gu) = p * gx + p * gu /\ p * gx \in Int /\ p * gu \in Int
          /\ r * (vx + vu) = r * vx + r * vu /\ r * vx \in Int /\ r * vu \in Int
          /\ sum * (n + 1) = sum * n + sum /\ sum * n \in Int
      BY <1>1, Distributes
    <3>8. p * (gx + gu) - r * (vx + vu) \in -(sum * (n + 1)) .. sum * (n + 1)
      BY <1>1, <3>6, <3>7
    <3>9. Within(g, v, p, r, sum, w)
      BY <3>3, <3>4, <3>5, <3>8 DEF Within
    <3> QED
      BY <2>2, <3>9
  <2> QED
    BY <2>4, <2>5
<1>5. PICK n \in Nat, total \in Int : n = Cardinality(T) /\ total = Total(g, T)
  BY <1>4, FS_CardinalityType DEF Within
<1>6. p * total - r * sum \in -(sum * n) .. sum * n
  BY <1>4, <1>5 DEF Within
<1>7. sum * (2 * (total - whole)) = p * total - r * sum
  BY <1>1, <1>2
<1>8. sum * (-n) = -(sum * n)
  BY <1>1
<1>9. PICK d \in Int : d = 2 * (total - whole)
  OBVIOUS
<1>10. sum * (-n) <= sum * d /\ sum * d <= sum * n
  BY <1>1, <1>6, <1>7, <1>8, <1>9
<1>11. -n <= d /\ d <= n
  BY <1>1, <1>10, LessByFactor
<1> QED
  BY <1>5, <1>9, <1>11

-----------------------------------------------------------------------------
(* Guardrails: what a session applies, when others and regime switches change what is live. *)

\* What parameters can be set to.
Values == [ParamSet -> Int]

\* What is applied: thresholds near those that are live, timeframe weights that sum to one.
Fitting(new) ==
    /\ new \in Values
    /\ \A p \in Thresholds : /\ new[p] \in Bounds[p][1]..Bounds[p][2]
                             /\ new[p] \in (live[p] - MaxChange(p, live[p]))..(live[p] + MaxChange(p, live[p]))
    /\ 2 * (Total(new, TfWeights) - One) \in -Cardinality(TfWeights)..Cardinality(TfWeights)

\* The groups of weights are finite, and each weight has its own.
LEMMA Groups ==
  /\ IsFiniteSet(ParamSet) /\ IsFiniteSet(TfWeights) /\ IsFiniteSet(ScoreWeights)
  /\ \A p \in TfWeights : GroupOf(p) = TfWeights
  /\ \A p \in ScoreWeights : GroupOf(p) = ScoreWeights
<1>1. IsFiniteSet(DOMAIN Order)
  <2>1. DOMAIN Order = 1..Len(Order) /\ Len(Order) \in Nat
    BY SessionAssumption
  <2> QED
    BY <2>1, FS_Interval
<1>2. Order \in Surjection(DOMAIN Order, ParamSet)
  BY SessionAssumption DEF ParamSet, Range, Surjection
<1>3. IsFiniteSet(ParamSet)
  BY <1>1, <1>2, FS_Surjection
<1>4. TfWeights \subseteq ParamSet /\ ScoreWeights \subseteq ParamSet \ TfWeights
  BY SessionAssumption
<1>5. IsFiniteSet(TfWeights) /\ IsFiniteSet(ScoreWeights)
  BY <1>3, <1>4, FS_Subset
<1>6. ASSUME NEW p \in TfWeights PROVE GroupOf(p) = TfWeights
  BY <1>4, <1>6 DEF GroupOf
<1>7. ASSUME NEW p \in ScoreWeights PROVE GroupOf(p) = ScoreWeights
  BY <1>4, <1>7 DEF GroupOf
<1> QED
  BY <1>3, <1>5, <1>6, <1>7

LEMMA ChangeBounded ==
  ASSUME NEW p \in ParamSet, NEW v \in Int
  PROVE  MaxChange(p, v) \in Nat
<1>1. Bounds[p][1] \in Int /\ Bounds[p][2] \in Int /\ Bounds[p][1] < Bounds[p][2]
  BY SessionAssumption
<1>2. ASSUME NEW a \in Nat PROVE a \div 5 \in Nat
  OBVIOUS
<1> QED
  BY <1>1, <1>2 DEF MaxChange

\* A clamped value has the bounds of its parameter, and if the old value had them, it is near it.
LEMMA ClampedWithin ==
  ASSUME NEW p \in ParamSet, NEW old \in Int, NEW new \in Int
  PROVE  /\ Clamped(p, old, new) \in Bounds[p][1]..Bounds[p][2]
         /\ old \in Bounds[p][1]..Bounds[p][2]
              => Clamped(p, old, new) \in (old - MaxChange(p, old))..(old + MaxChange(p, old))
<1>1. Bounds[p][1] \in Int /\ Bounds[p][2] \in Int /\ Bounds[p][1] < Bounds[p][2]
  BY SessionAssumption
<1>2. PICK m \in Nat : m = MaxChange(p, old)
  BY ChangeBounded
<1> QED
  BY <1>1, <1>2 DEF Clamped, Between

\* Trials are drawn from integers.
LEMMA ParamsValues ==
  ASSUME NEW from \in Values, NEW c \in Candidates
  PROVE  Params(c, from) \in Values
<1>1. ASSUME NEW p \in ParamSet PROVE Narrowed(p, from[p])[c.push[p]] \in Int
  <2>1. PICK lo \in Int, hi \in Int, v \in Int, m \in Nat :
           lo = Bounds[p][1] /\ hi = Bounds[p][2] /\ Bounds[p] = <<lo, hi>> /\ v = from[p] /\ m = MaxChange(p, from[p])
    <3>1. Bounds[p] \in Int \X Int /\ from[p] \in Int
      BY SessionAssumption DEF Values
    <3>2. MaxChange(p, from[p]) \in Nat
      BY <3>1, ChangeBounded
    <3> QED
      BY <3>1, <3>2
  <2>2. PICK low \in Int, high \in Int : low = Max({lo, v - m}) /\ high = Min({hi, v + m})
    <3>1. ASSUME NEW a \in Int, NEW b \in Int PROVE Max({a, b}) \in Int /\ Min({a, b}) \in Int
      <4>1. Max({a, b}) = IF a >= b THEN a ELSE b
        BY DEF Max
      <4>2. Min({a, b}) = IF a <= b THEN a ELSE b
        BY DEF Min
      <4> QED
        BY <4>1, <4>2
    <3>2. PICK a \in Int, b \in Int : a = v - m /\ b = v + m
      BY <2>1
    <3>3. Max({lo, v - m}) \in Int /\ Min({hi, v + m}) \in Int
      BY <2>1, <3>1, <3>2
    <3> QED
      BY <3>3
  <2>3. Narrowed(p, from[p]) = <<lo, hi>> \/ Narrowed(p, from[p]) = <<low, high>>
    BY <2>1, <2>2 DEF Narrowed
  <2>4. c.push[p] \in {1, 2}
    BY SessionAssumption DEF Candidates
  <2> QED
    BY <2>3, <2>4
<1> QED
  BY <1>1 DEF Params, Values

\* What the guardrails let through.
LEMMA GuardedFits ==
  ASSUME live \in Values, \A p \in Thresholds : live[p] \in Bounds[p][1]..Bounds[p][2], NEW params \in Values
  PROVE  Fitting(Guarded(params))
<1>1. PICK old : old = live
  OBVIOUS
<1>2. PICK v : v = [p \in ParamSet |-> Clamped(p, old[p], params[p])]
  OBVIOUS
<1>3. ASSUME NEW p \in ParamSet
      PROVE  /\ v[p] \in Bounds[p][1]..Bounds[p][2]
             /\ p \in Thresholds => v[p] \in (old[p] - MaxChange(p, old[p]))..(old[p] + MaxChange(p, old[p]))
  <2>1. old[p] \in Int /\ params[p] \in Int
    BY <1>1 DEF Values
  <2> QED
    BY <1>1, <1>2, <2>1, ClampedWithin
<1>4. /\ TfWeights \subseteq ParamSet /\ ScoreWeights \subseteq ParamSet \ TfWeights
      /\ \A p \in TfWeights \cup ScoreWeights : Bounds[p][1] >= 0
      /\ \A p \in ParamSet : Bounds[p][1] \in Int /\ Bounds[p][2] \in Int
      /\ \E p \in TfWeights : Bounds[p][1] > 0
      /\ One \in Nat
  BY SessionAssumption
<1>5. \A p \in TfWeights \cup ScoreWeights : v[p] \in Nat
  BY <1>3, <1>4
<1>6. PICK tf, score : tf = Total(v, TfWeights) /\ score = Total(v, ScoreWeights)
  OBVIOUS
<1>7. tf \in Nat /\ tf # 0 /\ score \in Nat
  <2>1. tf \in Nat /\ \A q \in TfWeights : v[q] <= tf
    BY <1>5, <1>6, Groups, NaturalTotal
  <2>2. PICK p \in TfWeights : Bounds[p][1] > 0
    BY <1>4
  <2>3. v[p] > 0
    BY <1>3, <1>4, <2>2
  <2>4. v[p] <= tf /\ v[p] \in Nat
    BY <1>5, <2>1
  <2>5. score \in Nat
    BY <1>5, <1>6, Groups, NaturalTotal
  <2> QED
    BY <2>1, <2>3, <2>4, <2>5
<1>8. PICK g : g = Normalised(v)
  OBVIOUS
<1>9. \A p \in TfWeights : MapThenSumSet(LAMBDA q : v[q], GroupOf(p)) = tf
  BY <1>6, Groups, SumIsTotal
<1>10. \A p \in ScoreWeights : MapThenSumSet(LAMBDA q : v[q], GroupOf(p)) = score
  BY <1>6, Groups, SumIsTotal
<1>11. ASSUME NEW p \in TfWeights PROVE g[p] = (2 * One * v[p] + tf) \div (2 * tf)
  <2>1. p \in ParamSet /\ p \notin Thresholds
    BY <1>4 DEF Thresholds
  <2> QED
    BY <1>7, <1>8, <1>9, <2>1 DEF Normalised
<1>12. ASSUME NEW p \in Thresholds PROVE g[p] = v[p] /\ p \in ParamSet
  BY <1>8 DEF Normalised, Thresholds
<1>13. ASSUME NEW p \in ParamSet PROVE g[p] \in Int
  <2>1. v[p] \in Int
    BY <1>3, <1>4
  <2>2. CASE p \in Thresholds
    BY <1>12, <2>1, <2>2
  <2>3. CASE p \in TfWeights
    BY <1>4, <1>7, <1>11, <2>1, <2>3
  <2>4. CASE p \in ScoreWeights
    <3>1. g[p] = v[p] \/ (score # 0 /\ g[p] = (2 * One * v[p] + score) \div (2 * score))
      BY <1>4, <1>8, <1>10, <2>4 DEF Normalised
    <3> QED
      BY <1>4, <1>7, <2>1, <3>1
  <2> QED
    BY <2>2, <2>3, <2>4 DEF Thresholds
<1>14. g \in Values
  BY <1>8, <1>13 DEF Normalised, Values
<1>15. 2 * (Total(g, TfWeights) - One) \in -Cardinality(TfWeights)..Cardinality(TfWeights)
  BY <1>4, <1>5, <1>6, <1>7, <1>11, Groups, SharesSum
<1>16. \A p \in Thresholds : /\ g[p] \in Bounds[p][1]..Bounds[p][2]
                             /\ g[p] \in (live[p] - MaxChange(p, live[p]))..(live[p] + MaxChange(p, live[p]))
  BY <1>1, <1>3, <1>12
<1>17. Guarded(params) = g
  BY <1>1, <1>2, <1>8 DEF Guarded, AllClamped
<1> QED
  BY <1>14, <1>15, <1>16, <1>17 DEF Fitting

\* Timeframe weights are set before the scores, whose setting may raise.
LEMMA WeightsSet ==
  ASSUME NEW new
  PROVE  /\ \A p \in TfWeights : Place(p) <= Set(new)
         /\ Set(new) \in 0..Len(Order)
<1> DEFINE N == {n \in 0..Len(Order) : \A p \in ScoreWeights : Place(p) <= n => Accepted(new, Place(p))}
<1>0. Len(Order) \in Nat /\ DOMAIN Order = 1..Len(Order)
  BY SessionAssumption
<1>1. ASSUME NEW p \in ParamSet PROVE Place(p) \in 1..Len(Order) /\ Order[Place(p)] = p
  BY <1>0, <1>1 DEF Place, ParamSet, Range
<1>2. TfWeights \subseteq ParamSet /\ ScoreWeights \subseteq ParamSet
  BY SessionAssumption
<1>3. ASSUME NEW p \in TfWeights, NEW q \in ScoreWeights PROVE Place(p) < Place(q)
  BY <1>0, <1>1, <1>2, SessionAssumption
<1>4. ASSUME NEW p \in TfWeights PROVE Place(p) \in N
  <2>1. Place(p) \in 1..Len(Order) /\ \A q \in ScoreWeights : Place(q) \in Int /\ Place(p) < Place(q)
    BY <1>1, <1>2, <1>3
  <2> QED
    BY <1>0, <2>1
<1>5. \E n \in N : \A m \in N : n >= m
  <2> DEFINE M == {Len(Order) - n : n \in N}
  <2>1. M \subseteq Nat /\ N \subseteq 0..Len(Order)
    BY <1>0
  <2>2. M # {}
    BY <1>4, SessionAssumption
  <2> HIDE DEF N
  <2>3. \E x \in M : \A y \in M : x <= y
    <3> HIDE DEF M
    <3> QED
      BY <2>1, <2>2, HasLeast
  <2>4. PICK m \in M : \A k \in M : m <= k
    BY <2>3
  <2>5. PICK n \in N : m = Len(Order) - n
    OBVIOUS
  <2>6. ASSUME NEW k \in N PROVE n >= k
    <3>1. Len(Order) - k \in M
      OBVIOUS
    <3>2. m <= Len(Order) - k
      BY <2>4, <3>1
    <3> QED
      BY <1>0, <2>1, <2>5, <3>2
  <2> QED
    BY <2>6
<1>6. Set(new) = Max(N)
  BY DEF Set
<1>7. Set(new) \in N /\ \A m \in N : Set(new) >= m
  <2> HIDE DEF N
  <2> QED
    BY <1>5, <1>6 DEF Max
<1>8. Set(new) \in 0..Len(Order)
  BY <1>7
<1>9. \A p \in TfWeights : Set(new) >= Place(p) /\ Place(p) \in Int
  BY <1>1, <1>2, <1>4, <1>7
<1> QED
  BY <1>0, <1>8, <1>9

\* One session runs at a time. What a session has read or proposes are values; what it is
\* about to apply fits the values that are live.
Guarding ==
    /\ Shaped
    /\ live \in Values /\ \A p \in Thresholds : live[p] \in Bounds[p][1]..Bounds[p][2]
    /\ \A t, u \in Sessions : Running(t) /\ Running(u) => t = u
    /\ \A t \in Sessions : /\ job[t].from \subseteq Values /\ job[t].candidate \subseteq Candidates
                           /\ job[t].at = "applying" => \A new \in job[t].from : Fitting(new)

\* What a step does to the parameters.
Sets(old) ==
    /\ live' \in Values /\ \A p \in Thresholds : live'[p] \in Bounds[p][1]..Bounds[p][2]
    /\ \A p \in Thresholds : live'[p] \in (old[p] - MaxChange(p, old[p]))..(old[p] + MaxChange(p, old[p]))
    /\ 2 * (Total(live', TfWeights) - One) \in -Cardinality(TfWeights)..Cardinality(TfWeights)

\* A session's own step: it has the loop, leaves the others alone, and what it holds
\* afterwards are values again.
Proceeds(t) ==
    /\ Shaped' /\ HasLoop(t)
    /\ \A u \in Sessions \ {t} : job'[u] = job[u]
    /\ job'[t].from \subseteq Values /\ job'[t].candidate \subseteq Candidates
    /\ \/ live' = live /\ job'[t].at # "applying"
       \/ live' = live /\ \A new \in job'[t].from : Fitting(new)
       \/ Sets(live) /\ job'[t].at # "applying"

\* What a session that goes to its next step holds.
LEMMA WentTo ==
  ASSUME Shaped, NEW t \in Sessions, NEW at, Goto(t, at)
  PROVE  job' = [job EXCEPT ![t] = Record(at, job[t].from, job[t].candidate)]
<1> DEFINE r == Record(at, job[t].from, job[t].candidate)
           j == [at |-> job[t].at, asks |-> job[t].asks, from |-> job[t].from, candidate |-> job[t].candidate]
           k == [at |-> at, asks |-> job[t].asks, from |-> job[t].from, candidate |-> job[t].candidate]
<1>1. job[t] = j
  BY DEF Shaped
<1>2. [j EXCEPT !.at = at] = k /\ [k EXCEPT !.asks = 0] = r
  BY DEF Record
<1> HIDE DEF j, k, r
<1>3. [j EXCEPT !.at = at, !.asks = 0] = [[j EXCEPT !.at = at] EXCEPT !.asks = 0]
  OBVIOUS
<1>4. [job[t] EXCEPT !.at = at, !.asks = 0] = r
  BY <1>1, <1>2, <1>3
<1>5. job' = [job EXCEPT ![t] = [job[t] EXCEPT !.at = at, !.asks = 0]]
  BY DEF Goto
<1>6. job' = [job EXCEPT ![t] = r]
  BY <1>4, <1>5
<1> QED
  BY <1>6 DEF r

\* A session is given a record, and the parameters are left alone.
LEMMA ProceedsTo ==
  ASSUME Shaped, NEW t \in Sessions, HasLoop(t), live' = live,
         NEW at, NEW from \in SUBSET Values, NEW candidate \in SUBSET Candidates,
         job' = [job EXCEPT ![t] = Record(at, from, candidate)],
         at = "applying" => \A new \in from : Fitting(new)
  PROVE  Proceeds(t)
<1>1. Shaped' /\ \A u \in Sessions \ {t} : job'[u] = job[u]
  BY Given DEF Rests
<1>2. job'[t] = Record(at, from, candidate)
  BY DEF Shaped
<1>3. job'[t].from = from /\ job'[t].candidate = candidate /\ job'[t].at = at
  BY <1>2 DEF Record
<1> QED
  BY <1>1, <1>3 DEF Proceeds

\* A session goes on with what it holds, or ends.
LEMMA ProceedsOn ==
  ASSUME Guarding, NEW t \in Sessions, HasLoop(t), live' = live,
         End(t) \/ \E at \in {"diagnosing", "reporting", "fetching", "guarding"} : Goto(t, at)
  PROVE  Proceeds(t)
<1>0. Shaped /\ job[t].from \in SUBSET Values /\ job[t].candidate \in SUBSET Candidates
  BY DEF Guarding
<1>1. CASE End(t)
  <2>1. Idle = Record("idle", {}, {})
    BY DEF Idle, Record
  <2>2. job' = [job EXCEPT ![t] = Record("idle", {}, {})]
    BY <1>1, <2>1 DEF End
  <2>3. {} \in SUBSET Values /\ {} \in SUBSET Candidates /\ "idle" # "applying"
    OBVIOUS
  <2> QED
    BY <1>0, <2>2, <2>3, ProceedsTo
<1>2. ASSUME NEW at \in {"diagnosing", "reporting", "fetching", "guarding"}, Goto(t, at) PROVE Proceeds(t)
  <2>1. job' = [job EXCEPT ![t] = Record(at, job[t].from, job[t].candidate)]
    BY <1>0, <1>2, WentTo
  <2>2. at # "applying"
    OBVIOUS
  <2>3. PICK from \in SUBSET Values, candidate \in SUBSET Candidates : from = job[t].from /\ candidate = job[t].candidate
    BY <1>0
  <2> QED
    BY <1>0, <2>1, <2>2, <2>3, ProceedsTo
<1> QED
  BY <1>1, <1>2

\* Only one parameter of a question changes.
LEMMA ProceedsAsking ==
  ASSUME Guarding, NEW t \in Sessions, Ask(t) \/ Fails(t)
  PROVE  Proceeds(t)
<1>0. Shaped /\ job[t].from \in SUBSET Values /\ job[t].candidate \in SUBSET Candidates
  BY DEF Guarding
<1>1. HasLoop(t) /\ live' = live
  BY DEF Ask, Fails, LoopIsFree, HasLoop
<1>2. PICK k : job' = [job EXCEPT ![t].asks = k]
  BY DEF Ask, Fails, Turn
<1>3. Shaped' /\ job'[t].at = job[t].at /\ \A u \in Sessions \ {t} : job'[u] = job[u]
  BY <1>0, <1>2, AsksOf
<1>4. job'[t].from = job[t].from /\ job'[t].candidate = job[t].candidate
  <2> DEFINE j == [at |-> job[t].at, asks |-> job[t].asks, from |-> job[t].from, candidate |-> job[t].candidate]
  <2>1. job[t] = j
    BY <1>0 DEF Shaped
  <2>2. job'[t] = [j EXCEPT !.asks = k]
    BY <1>0, <1>2, <2>1 DEF Shaped
  <2> QED
    BY <2>2
<1>5. job'[t].at = "applying" => \A new \in job'[t].from : Fitting(new)
  BY <1>3, <1>4 DEF Guarding
<1> QED
  BY <1>0, <1>1, <1>3, <1>4, <1>5 DEF Proceeds

LEMMA EndsQuestion ==
  ASSUME NEW t \in Sessions, Answered(t) \/ Unanswered(t)
  PROVE  HasLoop(t)
BY DEF Answered, Unanswered, LoopIsFree, HasLoop

\* What is set, where it stops when a score raises: thresholds and timeframes are new.
LEMMA ProceedsApplying ==
  ASSUME Guarding, NEW t \in Sessions, Apply(t)
  PROVE  Proceeds(t) /\ Sets(live)
<1>0. Shaped /\ live \in Values /\ \A p \in Thresholds : live[p] \in Bounds[p][1]..Bounds[p][2]
  BY DEF Guarding
<1>1. HasLoop(t)
  BY DEF Guarding, Apply, Running, HasLoop
<1>2. PICK new \in job[t].from : /\ live' = Partly(new, Set(new))
                                 /\ job' = [job EXCEPT ![t] = [Idle EXCEPT !.at = "saving"]] \/ End(t)
  BY DEF Apply
<1>3. Fitting(new)
  BY DEF Guarding, Apply
<1>4. PICK old, l, n : old = live /\ l = Partly(new, Set(new)) /\ n = Set(new)
  OBVIOUS
<1>5. l = [p \in ParamSet |-> IF Place(p) <= n THEN new[p] ELSE old[p]]
  BY <1>4 DEF Partly
<1>6. l \in Values
  BY <1>0, <1>3, <1>4, <1>5 DEF Values, Fitting
<1>7. ASSUME NEW p \in Thresholds
      PROVE  /\ l[p] \in Bounds[p][1]..Bounds[p][2]
             /\ l[p] \in (old[p] - MaxChange(p, old[p]))..(old[p] + MaxChange(p, old[p]))
  <2>1. p \in ParamSet
    BY DEF Thresholds
  <2>2. old[p] \in (old[p] - MaxChange(p, old[p]))..(old[p] + MaxChange(p, old[p]))
    <3>1. old[p] \in Int
      BY <1>0, <1>4, <2>1 DEF Values
    <3> QED
      BY <2>1, <3>1, ChangeBounded
  <2> QED
    BY <1>0, <1>3, <1>4, <1>5, <2>1, <2>2 DEF Fitting
<1>8. Total(l, TfWeights) = Total(new, TfWeights)
  <2>1. \A p \in TfWeights : p \in ParamSet /\ Place(p) <= n
    BY <1>4, WeightsSet, SessionAssumption
  <2>2. \A p \in TfWeights : l[p] = new[p]
    BY <1>5, <2>1
  <2> QED
    BY <2>2, Groups, TotalSame
<1>9. Sets(live)
  BY <1>2, <1>3, <1>4, <1>6, <1>7, <1>8 DEF Sets, Fitting
<1>10. /\ Shaped' /\ \A u \in Sessions \ {t} : job'[u] = job[u]
       /\ job'[t].from = {} /\ job'[t].candidate = {} /\ job'[t].at # "applying"
  <2>1. PICK at \in {"saving", "idle"} : job' = [job EXCEPT ![t] = Record(at, {}, {})]
    <3>1. Idle = Record("idle", {}, {}) /\ [Idle EXCEPT !.at = "saving"] = Record("saving", {}, {})
      BY DEF Idle, Record
    <3> QED
      BY <1>2, <3>1 DEF End
  <2>2. Shaped' /\ \A u \in Sessions \ {t} : job'[u] = job[u]
    BY <1>0, <2>1, Given DEF Rests
  <2>3. job'[t] = Record(at, {}, {})
    BY <1>0, <2>1 DEF Shaped
  <2> QED
    BY <2>2, <2>3 DEF Record
<1> QED
  BY <1>1, <1>9, <1>10 DEF Proceeds

\* The steps that hand on what was read, drawn or proposed.
LEMMA ProceedsWorking ==
  ASSUME Guarding, NEW t \in Sessions,
         Begin(t) \/ Evaluate(t) \/ Diagnosed(t) \/ Reported(t) \/ Optimize(t) \/ Selected(t) \/ Judged(t)
           \/ Guard(t) \/ Saved(t)
  PROVE  Proceeds(t)
<1>0. /\ Shaped /\ live \in Values /\ \A p \in Thresholds : live[p] \in Bounds[p][1]..Bounds[p][2]
      /\ job[t].from \in SUBSET Values /\ job[t].candidate \in SUBSET Candidates
  BY DEF Guarding
<1>1. live' = live
  BY DEF Begin, Evaluate, Diagnosed, Reported, Optimize, Selected, Judged, Guard, Saved
<1>2. CASE Begin(t)
  <2>1. [Idle EXCEPT !.at = "evaluating", !.from = {live}] = Record("evaluating", {live}, {})
    BY FromIdle
  <2>2. job' = [job EXCEPT ![t] = Record("evaluating", {live}, {})] /\ HasLoop(t)
    BY <1>2, <2>1, Zenon DEF Begin, LoopIsFree, HasLoop
  <2>3. PICK from \in SUBSET Values, candidate \in SUBSET Candidates : from = {live} /\ candidate = {}
    BY <1>0
  <2>4. "evaluating" # "applying"
    OBVIOUS
  <2> QED
    BY <1>0, <1>1, <2>2, <2>3, <2>4, ProceedsTo
<1>3. CASE Evaluate(t) \/ Reported(t) \/ Saved(t)
  <2>1. HasLoop(t)
    BY <1>3 DEF Evaluate, Reported, Saved, LoopIsFree, HasLoop
  <2>2. End(t) \/ Goto(t, "diagnosing") \/ Goto(t, "fetching")
    BY <1>3 DEF Evaluate, Reported, Saved
  <2> QED
    BY <1>1, <2>1, <2>2, ProceedsOn
<1>4. CASE Diagnosed(t) \/ Judged(t)
  <2>1. HasLoop(t)
    BY <1>4, EndsQuestion DEF Diagnosed, Judged
  <2>2. End(t) \/ Goto(t, "reporting") \/ Goto(t, "guarding")
    BY <1>4 DEF Diagnosed, Judged
  <2> QED
    BY <1>1, <2>1, <2>2, ProceedsOn
<1>5. CASE Optimize(t)
  <2>1. HasLoop(t)
    BY <1>5 DEF Optimize, LoopIsFree, HasLoop
  <2>2. CASE End(t)
    BY <1>1, <2>1, <2>2, ProceedsOn
  <2>3. ASSUME NEW c \in Candidates, job' = [job EXCEPT ![t].at = "selecting", ![t].candidate = {c}]
        PROVE  Proceeds(t)
    <3> DEFINE k == [at |-> "selecting", asks |-> job[t].asks, from |-> job[t].from, candidate |-> job[t].candidate]
               r == [at |-> "selecting", asks |-> job[t].asks, from |-> job[t].from, candidate |-> {c}]
    <3>1. [job[t] EXCEPT !.at = "selecting"] = k
      BY <1>0 DEF Shaped
    <3>2. [k EXCEPT !.candidate = {c}] = r
      OBVIOUS
    <3>3. /\ r = [at |-> r.at, asks |-> r.asks, from |-> r.from, candidate |-> r.candidate]
          /\ r.at # "applying" /\ r.from = job[t].from /\ r.candidate = {c} /\ r.asks = job[t].asks
      OBVIOUS
    <3> HIDE DEF k, r
    <3>4. job' = [job EXCEPT ![t] = [[job[t] EXCEPT !.at = "selecting"] EXCEPT !.candidate = {c}]]
      BY <1>0, <2>3 DEF Shaped
    <3>5. job' = [job EXCEPT ![t] = r]
      BY <3>1, <3>2, <3>4
    <3>6. Shaped' /\ job'[t] = r /\ \A u \in Sessions \ {t} : job'[u] = job[u]
      BY <1>0, <3>3, <3>5, Replaced
    <3> QED
      BY <1>0, <1>1, <2>1, <3>3, <3>6 DEF Proceeds
  <2> QED
    BY <1>5, <2>2, <2>3 DEF Optimize
<1>6. CASE Selected(t)
  <2>1. PICK best \in job[t].candidate, was \in job[t].from, c \in Candidates :
          /\ Answered(t) \/ Unanswered(t)
          /\ job' = [job EXCEPT ![t] = [Idle EXCEPT !.at = "approving", !.from = {Params(c, was)}, !.candidate = {c}]]
    BY <1>6 DEF Selected
  <2>2. Params(c, was) \in Values
    BY <1>0, ParamsValues
  <2>3. PICK from \in SUBSET Values, candidate \in SUBSET Candidates : from = {Params(c, was)} /\ candidate = {c}
    BY <2>2
  <2>4. job' = [job EXCEPT ![t] = Record("approving", from, candidate)]
    <3>1. [Idle EXCEPT !.at = "approving", !.from = from, !.candidate = candidate] = Record("approving", from, candidate)
      <4>1. [Idle EXCEPT !.at = "approving"] = Record("approving", {}, {})
        BY DEF Idle, Record
      <4>2. [Record("approving", {}, {}) EXCEPT !.from = from] = Record("approving", from, {})
        BY DEF Record
      <4>3. [Record("approving", from, {}) EXCEPT !.candidate = candidate] = Record("approving", from, candidate)
        BY DEF Record
      <4>4. [Idle EXCEPT !.at = "approving", !.from = from, !.candidate = candidate]
              = [[[Idle EXCEPT !.at = "approving"] EXCEPT !.from = from] EXCEPT !.candidate = candidate]
        OBVIOUS
      <4> QED
        BY <4>1, <4>2, <4>3, <4>4
    <3>2. job' = [job EXCEPT ![t] = [Idle EXCEPT !.at = "approving", !.from = from, !.candidate = candidate]]
      BY <2>1, <2>3
    <3> QED
      BY <3>1, <3>2, Zenon
  <2>5. HasLoop(t) /\ "approving" # "applying"
    BY <2>1, EndsQuestion
  <2> QED
    BY <1>0, <1>1, <2>4, <2>5, ProceedsTo
<1>7. CASE Guard(t)
  <2>1. HasLoop(t)
    BY <1>7 DEF Guarding, Guard, Running, HasLoop
  <2>2. PICK params \in job[t].from : job' = [job EXCEPT ![t] = [Idle EXCEPT !.at = "applying", !.from = {Guarded(params)}]]
    BY <1>7 DEF Guard
  <2>3. Fitting(Guarded(params))
    BY <1>0, GuardedFits
  <2>4. PICK from \in SUBSET Values, candidate \in SUBSET Candidates : from = {Guarded(params)} /\ candidate = {}
    BY <2>3 DEF Fitting
  <2>5. job' = [job EXCEPT ![t] = Record("applying", from, candidate)]
    BY <2>2, <2>4, FromIdle
  <2>6. \A new \in from : Fitting(new)
    BY <2>3, <2>4
  <2> QED
    BY <1>0, <1>1, <2>1, <2>5, <2>6, ProceedsTo
<1> QED
  BY <1>2, <1>3, <1>4, <1>5, <1>6, <1>7

\* A session that proceeds keeps the invariant.
LEMMA ProceedsGuarding ==
  ASSUME Guarding, NEW t \in Sessions, Proceeds(t)
  PROVE  Guarding'
<1>1. Shaped' /\ HasLoop(t) /\ \A u \in Sessions \ {t} : job'[u] = job[u]
  BY DEF Proceeds
<1>2. \A u \in Sessions \ {t} : ~Running(u) /\ ~Running(u)' /\ job[u].at # "applying"
  BY <1>1 DEF HasLoop, Running
<1>3. live' \in Values /\ \A p \in Thresholds : live'[p] \in Bounds[p][1]..Bounds[p][2]
  BY DEF Guarding, Proceeds, Sets
<1>4. \A a, u \in Sessions : Running(a)' /\ Running(u)' => a = u
  BY <1>2
<1>5. ASSUME NEW u \in Sessions
      PROVE  job'[u].from \subseteq Values /\ job'[u].candidate \subseteq Candidates
  BY <1>1 DEF Guarding, Proceeds
<1>6. ASSUME NEW u \in Sessions, job'[u].at = "applying" PROVE \A new \in job'[u].from : Fitting(new)'
  <2>1. u = t
    BY <1>1, <1>2, <1>6
  <2>2. live' = live /\ \A new \in job'[t].from : Fitting(new)
    BY <1>6, <2>1 DEF Proceeds
  <2> QED
    BY <2>1, <2>2 DEF Fitting
<1> QED
  BY <1>1, <1>3, <1>4, <1>5, <1>6 DEF Guarding

\* Every step keeps the invariant.
LEMMA GuardingStep ==
  ASSUME Guarding, [Next]_vars
  PROVE  Guarding'
<1>1. ASSUME NEW t \in Sessions, Begin(t) \/ Goes(t) PROVE Guarding'
  BY <1>1, ProceedsAsking, ProceedsApplying, ProceedsWorking, ProceedsGuarding DEF Goes
<1>2. CASE Tick \/ Month \/ UNCHANGED vars
  BY <1>2 DEF Tick, Month, vars, Guarding, Shaped, Running, Fitting
<1>3. CASE ApplyPreset
  <2>1. job' = job /\ live' = Preset
    BY <1>3 DEF ApplyPreset
  <2>2. live' \in Values /\ \A p \in Thresholds : live'[p] \in Bounds[p][1]..Bounds[p][2]
    BY <2>1, SessionAssumption DEF Values
  <2>3. \A t \in Sessions : job[t].at # "applying"
    BY <1>3 DEF ApplyPreset, LoopIsFree, Running
  <2> QED
    BY <2>1, <2>2, <2>3 DEF Guarding, Shaped, Running
<1> QED
  BY <1>1, <1>2, <1>3 DEF Next

\* Only a session's Apply changes what is live while a session is about to apply.
LEMMA AppliesAlone ==
  ASSUME Guarding, [Next]_vars, NEW t \in Sessions, job[t].at = "applying", live' # live
  PROVE  Sets(live)
<1>1. ~ApplyPreset
  BY DEF ApplyPreset, LoopIsFree, Running
<1>2. PICK u \in Sessions : Apply(u)
  BY <1>1 DEF Next, Goes, Begin, Evaluate, Diagnosed, Reported, Optimize, Selected, Judged, Guard, Saved, Ask, Fails,
              Tick, Month, vars
<1> QED
  BY <1>2, ProceedsApplying

\* For any parameters, sessions and presets: whatever other sessions and regime switches have
\* set since a candidate was drawn, a threshold changes by 20 % of the value it replaces, and
\* the timeframe weights that are left sum to one, but for half a unit of rounding each
\* (Guardrails.validate_changes, ParameterApplier.apply).
THEOREM GuardrailsAlwaysHold == Spec => GuardrailsHold
<1> DEFINE Good == \A t \in Sessions : job[t].at = "applying" /\ live' # live =>
         /\ \A p \in Thresholds : live'[p] \in (live[p] - MaxChange(p, live[p]))..(live[p] + MaxChange(p, live[p]))
         /\ 2 * (MapThenSumSet(LAMBDA p : live'[p], TfWeights) - One) \in -Cardinality(TfWeights)..Cardinality(TfWeights)
<1>1. Init => Guarding
  <2> SUFFICES ASSUME Init PROVE Guarding
    OBVIOUS
  <2>1. Shaped /\ \A t \in Sessions : job[t] = Idle
    BY DEF Init, Shaped, Idle
  <2>2. live \in Values /\ \A p \in Thresholds : live[p] \in Bounds[p][1]..Bounds[p][2]
    BY SessionAssumption DEF Init, Values
  <2>3. \A t \in Sessions : job[t].at = "idle" /\ job[t].from = {} /\ job[t].candidate = {}
    BY <2>1 DEF Idle
  <2> QED
    BY <2>1, <2>2, <2>3 DEF Guarding, Running, Asking
<1>2. Guarding /\ [Next]_vars => Guarding'
  BY GuardingStep
<1>3. Guarding /\ [Next]_vars => Good
  <2> SUFFICES ASSUME Guarding, [Next]_vars, NEW t \in Sessions, job[t].at = "applying", live' # live
               PROVE  /\ \A p \in Thresholds : live'[p] \in (live[p] - MaxChange(p, live[p]))..(live[p] + MaxChange(p, live[p]))
                      /\ 2 * (MapThenSumSet(LAMBDA p : live'[p], TfWeights) - One)
                           \in -Cardinality(TfWeights)..Cardinality(TfWeights)
    OBVIOUS
  <2>1. Sets(live)
    BY AppliesAlone
  <2>2. MapThenSumSet(LAMBDA p : live'[p], TfWeights) = Total(live', TfWeights)
    BY DEF MapThenSumSet, MapThenFoldSet, Total, Sums, AnyOf
  <2> QED
    BY <2>1, <2>2 DEF Sets
<1>4. Guarding /\ [Next]_vars => [Good]_vars
  BY <1>3
<1> QED
  BY <1>1, <1>2, <1>4, PTL DEF Spec, GuardrailsHold
=============================================================================
