-------------------------- MODULE Persistence_proofs --------------------------
(***************************************************************************)
(* What holds of what is kept. Of backtest jobs, for any requests, periods *)
(* and threads, and any history: the job under way can be found, an        *)
(* outcome is settled once, and a job whose requests were answered         *)
(* computes on its period. Of saved records, for any coroutines and either *)
(* database: the store is what RecordStore promises.                       *)
(***************************************************************************)
EXTENDS BacktestJobs, Store, SequenceTheorems, WellFoundedInduction, TLAPS

Bars == UNION {[S -> {"forming", "final"}] : S \in SUBSET Nat}
Job == [mode : Modes, first : Nat \ {0}, last : Nat \ {0},
        pc : {"new", "fetch", "compute", "closing", "over"},
        status : {"pending", "fetching", "running"} \cup Final,
        left : Int, bars : Bars, gaps : SUBSET [since : Nat, until : Nat], lone : SUBSET Nat,
        asked : Nat, answered : BOOLEAN, why : {"none"} \cup Final,
        thread : {"none", "queued", "running"}, result : BOOLEAN]

Types ==
  /\ jobs \in Seq(Job) /\ history \in Seq(Nat) /\ current \in Nat
  /\ cache \in Bars /\ day \in 1 .. MaxDay

(* The outcome of one job: set with the end of its task, with its result.  *)
Settled(job) ==
  /\ job.result <=> job.status = "done"
  /\ job.pc = "over" <=> job.status \in Final
  /\ job.pc = "closing" => job.why \in Final

(* The bars that the gaps a job has not read yet will ask for, ...         *)
Requested(gaps) == {b \in Nat : \E g \in gaps : g.since < g.until /\ g.since <= 2 * b /\ 2 * b <= g.until}

(* ... with those it has, are all the period had when it asked.            *)
Provided(job, today) ==
  job.pc \in {"fetch", "compute"} =>
    /\ job.asked <= today
    /\ job.pc = "compute" => job.gaps = {}
    /\ job.answered => {b \in job.first .. job.last : b <= job.asked}
                          \subseteq DOMAIN job.bars \cup job.lone \cup Requested(job.gaps)

(* The current job is the last one, and the history ends with it.          *)
Known ==
  /\ current = Len(jobs)
  /\ \A i \in Ids : ~Ended(i) => i = current
  /\ jobs # <<>> => history # <<>> /\ history[Len(history)] = current

JInv == Types /\ Known /\ \A i \in Ids : Settled(jobs[i]) /\ Provided(jobs[i], day)

-----------------------------------------------------------------------------
(* The gaps of a cache *)

LEMMA LeastExists ==
  ASSUME NEW S, S \subseteq Nat, S # {}
  PROVE  Min(S) \in S /\ \A x \in S : Min(S) <= x
<1>1. PICK m \in S : \A y \in S : ~(<<y, m>> \in OpToRel(<, Nat))
  BY NatLessThanWellFounded, WFMin
<1>2. \A y \in S : m <= y
  <2> SUFFICES ASSUME NEW y \in S, y < m PROVE FALSE
    OBVIOUS
  <2>1. <<y, m>> \in Nat \X Nat
    OBVIOUS
  <2>2. <<y, m>> \in OpToRel(<, Nat)
    BY <2>1 DEF OpToRel
  <2> QED
    BY <1>1, <2>2
<1> QED
  BY <1>2 DEF Min

(* Every bar of a set lies in one of its longest stretches.                *)
LEMMA StretchExists ==
  ASSUME NEW lo \in Nat, NEW hi \in Nat, NEW M, M \subseteq lo .. hi, NEW b \in M
  PROVE  \E s \in Stretches(M) : s[1] <= b /\ b <= s[2]
<1> DEFINE L == {x \in Nat : x <= b /\ x .. b \subseteq M}
           U == {d \in Nat : b .. (b + d) \subseteq M}
           D == {d \in Nat : b + d \notin M}
<1>0. b \in Nat /\ lo <= b /\ b <= hi
  OBVIOUS
<1>1. Min(L) \in L /\ \A x \in L : Min(L) <= x
  <2>1. b \in L
    BY <1>0
  <2> QED
    BY <2>1, LeastExists
<1>2. Min(D) \in D /\ \A d \in D : Min(D) <= d
  <2>1. hi + 1 - b \in D
    BY <1>0
  <2> QED
    BY <2>1, LeastExists
<1> DEFINE l == Min(L)
           u == b + Min(D) - 1
<1>3. l \in Nat /\ l <= b /\ l .. b \subseteq M /\ \A x \in L : l <= x
  BY <1>1
<1>4. Min(D) \in Nat /\ b + Min(D) \notin M /\ \A d \in D : Min(D) <= d
  BY <1>2
<1> HIDE DEF l, u
<1>5. Min(D) # 0
  BY <1>0, <1>4
<1>6. u \in Nat /\ b <= u /\ u + 1 \notin M
  BY <1>0, <1>4, <1>5 DEF u
<1>7. \A x \in b .. u : x \in M
  <2> SUFFICES ASSUME NEW x \in b .. u, x \notin M PROVE FALSE
    OBVIOUS
  <2>1. x - b \in D
    BY <1>0, <1>6
  <2> QED
    BY <1>0, <1>4, <2>1 DEF u
<1>8. l - 1 \notin M
  <2> SUFFICES ASSUME l - 1 \in M PROVE FALSE
    OBVIOUS
  <2>1. l - 1 \in Nat /\ l - 1 <= b
    BY <1>3, <1>0
  <2>2. (l - 1) .. b \subseteq M
    BY <1>3, <2>1, <1>0
  <2>3. l - 1 \in L
    BY <2>1, <2>2
  <2> QED
    BY <1>3, <2>3
<1>9. l .. u \subseteq M
  BY <1>0, <1>3, <1>6, <1>7
<1>10. l \in M /\ u \in M
  BY <1>0, <1>3, <1>6, <1>9
<1>11. <<l, u>> \in Stretches(M)
  BY <1>6, <1>8, <1>9, <1>10 DEF Stretches
<1> QED
  BY <1>3, <1>6, <1>11

(* What get_candles() has or asks for: all but single missing bars.        *)
LEMMA GapsCover ==
  ASSUME NEW cached \in Bars, NEW first \in Nat \ {0}, NEW last \in Nat \ {0}
  PROVE  /\ first .. last \subseteq
              DOMAIN cached \cup Lone(cached, first, last) \cup Requested(Gaps(cached, first, last))
         /\ Gaps(cached, first, last) \subseteq [since : Nat, until : Nat]
         /\ Lone(cached, first, last) \subseteq Nat
<1> DEFINE M == Missing(cached, first, last)
<1>1. M \subseteq first .. last /\ M \subseteq Nat
  BY DEF Missing
<1>2. Stretches(M) \subseteq M \X M
  BY DEF Stretches
<1>3. Gaps(cached, first, last) \subseteq [since : Nat, until : Nat]
  <2>1. \A s \in Stretches(M) : s[1] \in Nat /\ s[2] \in Nat
    BY <1>1, <1>2
  <2> QED
    BY <2>1 DEF Gaps
<1>4. Lone(cached, first, last) \subseteq Nat
  BY <1>1 DEF Lone
<1>5. ASSUME NEW b \in first .. last, b \notin DOMAIN cached, b \notin Lone(cached, first, last)
      PROVE  b \in Requested(Gaps(cached, first, last))
  <2>1. CASE cached = Empty
    BY <2>1 DEF Gaps, Requested
  <2>2. CASE cached # Empty
    <3>1. b \in M /\ {b - 1, b + 1} \cap M # {}
      BY <2>2, <1>5 DEF Lone, Missing
    <3>2. PICK s \in Stretches(M) : s[1] <= b /\ b <= s[2]
      BY <1>1, <3>1, StretchExists
    <3>3. s[1] \in Nat /\ s[2] \in Nat /\ s[1] - 1 \notin M /\ s[2] + 1 \notin M
      BY <1>1, <3>2 DEF Stretches
    <3>4. s[1] < s[2]
      BY <3>1, <3>2, <3>3
    <3> DEFINE g == [since |-> 2 * s[1], until |-> 2 * s[2]]
    <3>5. g \in Gaps(cached, first, last)
      BY <2>2, <3>2 DEF Gaps
    <3>6. g.since < g.until /\ g.since <= 2 * b /\ 2 * b <= g.until /\ b \in Nat
      BY <3>2, <3>3, <3>4
    <3> QED
      BY <3>5, <3>6 DEF Requested
  <2> QED
    BY <2>1, <2>2
<1> QED
  BY <1>3, <1>4, <1>5
-----------------------------------------------------------------------------
(* One job *)

(* A step of job i: what it leaves in its place, and in the cache.         *)
Steps(i, job) ==
  /\ job \in Job /\ Settled(job) /\ Provided(job, day)
  /\ Ended(i) => job.pc = "over" /\ job.status = jobs[i].status /\ job.result = jobs[i].result
  /\ jobs' = [jobs EXCEPT ![i] = job]
  /\ cache' \in Bars
  /\ UNCHANGED <<history, current, day>>

LEMMA KeptBars ==
  ASSUME NEW a \in Bars, NEW b \in Bars
  PROVE  Kept(a, b) \in Bars /\ DOMAIN Kept(a, b) = DOMAIN a \cup DOMAIN b
<1>1. PICK S \in SUBSET Nat : a \in [S -> {"forming", "final"}]
  BY DEF Bars
<1>2. PICK T \in SUBSET Nat : b \in [T -> {"forming", "final"}]
  BY DEF Bars
<1>3. Kept(a, b) \in [S \cup T -> {"forming", "final"}]
  BY <1>1, <1>2 DEF Kept
<1>4. S \cup T \in SUBSET Nat
  OBVIOUS
<1> QED
  BY <1>3, <1>4 DEF Bars, Kept

LEMMA NoBars == Empty \in Bars
<1>1. Empty \in [{} -> {"forming", "final"}]
  BY DEF Empty
<1> QED
  BY <1>1 DEF Bars

LEMMA LoadedBars ==
  ASSUME NEW c \in Bars, NEW first \in Nat, NEW last \in Nat
  PROVE  Loaded(c, first, last) \in Bars
<1>1. PICK S \in SUBSET Nat : c \in [S -> {"forming", "final"}]
  BY DEF Bars
<1>2. Loaded(c, first, last) \in [S \cap (first .. last) -> {"forming", "final"}]
  BY <1>1 DEF Loaded
<1> QED
  BY <1>2 DEF Bars

USE DEF Ids

LEMMA OneJob ==
  ASSUME JInv, NEW i \in Ids
  PROVE  jobs[i] \in Job /\ Settled(jobs[i]) /\ Provided(jobs[i], day)
<1>1. jobs \in Seq(Job)
  BY DEF JInv, Types
<1>2. jobs[i] \in Job
  BY <1>1
<1> QED
  BY <1>2 DEF JInv

LEMMA StartSteps ==
  ASSUME JInv, NEW i \in Ids, Start(i)
  PROVE  \E job : Steps(i, job)
<1> DEFINE old == jobs[i]
           cached == Loaded(cache, old.first, old.last)
           gaps == Gaps(cached, old.first, old.last)
           lone == Lone(cached, old.first, old.last)
           new == [old EXCEPT !.pc = "fetch", !.status = "fetching", !.asked = day,
                              !.bars = cached, !.gaps = gaps, !.lone = lone]
<1>1. old \in Job /\ old.first \in Nat \ {0} /\ old.last \in Nat \ {0} /\ old.pc = "new" /\ Settled(old)
  BY OneJob DEF Job, Start
<1>2. cached \in Bars
  BY <1>1, LoadedBars DEF JInv, Types
<1>3. /\ old.first .. old.last \subseteq DOMAIN cached \cup lone \cup Requested(gaps)
      /\ gaps \subseteq [since : Nat, until : Nat] /\ lone \subseteq Nat
  BY <1>1, <1>2, GapsCover
<1> HIDE DEF cached, gaps, lone
<1>4. day \in Nat
  BY DEF JInv, Types
<1>5. new \in Job
  BY <1>1, <1>2, <1>3, <1>4 DEF Job
<1>6. /\ new.pc = "fetch" /\ new.status = "fetching" /\ new.result = old.result /\ new.asked = day
      /\ new.first = old.first /\ new.last = old.last
      /\ new.bars = cached /\ new.gaps = gaps /\ new.lone = lone
  BY <1>1 DEF Job
<1>7. Settled(new)
  BY <1>1, <1>6 DEF Settled, Final
<1>8. Provided(new, day)
  BY <1>3, <1>4, <1>6 DEF Provided
<1>9. jobs' = [jobs EXCEPT ![i] = new] /\ UNCHANGED <<history, current, cache, day>>
  BY DEF Start, Update, cached, gaps, lone
<1> QED
  BY <1>1, <1>5, <1>7, <1>8, <1>9 DEF Steps, Ended, JInv, Types

LEMMA FetchGapSteps ==
  ASSUME JInv, NEW i \in Ids, FetchGap(i)
  PROVE  \E job : Steps(i, job)
<1> DEFINE old == jobs[i]
           gap == CHOOSE g \in old.gaps : \A other \in old.gaps : g.since <= other.since
<1>1. PICK stops \in 1 .. MaxDay + 1 :
        LET fresh == [b \in Answered(gap, 1 .. day, stops) |-> IF b = day THEN "forming" ELSE "final"]
        IN /\ cache' = Kept(cache, fresh)
           /\ Update(i, [old EXCEPT !.gaps = @ \ {gap}, !.bars = Kept(@, fresh),
                                    !.answered = @ /\ stops > MaxDay])
  BY DEF FetchGap
<1> DEFINE fresh == [b \in Answered(gap, 1 .. day, stops) |-> IF b = day THEN "forming" ELSE "final"]
           bars == Kept(old.bars, fresh)
           new == [old EXCEPT !.gaps = @ \ {gap}, !.bars = bars, !.answered = @ /\ stops > MaxDay]
<1>2. /\ old \in Job /\ old.pc = "fetch" /\ Settled(old) /\ Provided(old, day)
      /\ old.gaps # {} /\ old.gaps \subseteq [since : Nat, until : Nat]
  BY OneJob DEF Job, FetchGap
<1>3. gap \in old.gaps
  <2> DEFINE S == {g.since : g \in old.gaps}
  <2>1. S \subseteq Nat /\ S # {}
    BY <1>2
  <2>2. PICK g \in old.gaps : \A other \in old.gaps : g.since <= other.since
    <3>1. Min(S) \in S /\ \A x \in S : Min(S) <= x
      BY <2>1, LeastExists
    <3>2. PICK g \in old.gaps : g.since = Min(S)
      BY <3>1
    <3> QED
      BY <3>1, <3>2
  <2> QED
    BY <2>2
<1> HIDE DEF gap
<1>4. gap.since \in Nat /\ gap.until \in Nat
  BY <1>2, <1>3
<1>5. day \in Nat /\ day \in 1 .. MaxDay /\ MaxDay \in Nat /\ stops \in Nat
  BY BacktestJobsAssumption DEF JInv, Types
<1>6. Answered(gap, 1 .. day, stops) \subseteq Nat
  BY <1>5 DEF Answered
<1>7. fresh \in Bars /\ DOMAIN fresh = Answered(gap, 1 .. day, stops)
  <2>1. fresh \in [Answered(gap, 1 .. day, stops) -> {"forming", "final"}]
    OBVIOUS
  <2> QED
    BY <1>6, <2>1 DEF Bars
<1> HIDE DEF fresh
<1>8. old.bars \in Bars /\ cache \in Bars
  BY <1>2 DEF Job, JInv, Types
<1>9. bars \in Bars /\ DOMAIN bars = DOMAIN old.bars \cup DOMAIN fresh /\ Kept(cache, fresh) \in Bars
  BY <1>7, <1>8, KeptBars
<1> HIDE DEF bars
<1>10. new \in Job
  BY <1>2, <1>9 DEF Job
<1>11. /\ new.pc = old.pc /\ new.status = old.status /\ new.result = old.result /\ new.why = old.why
       /\ new.first = old.first /\ new.last = old.last /\ new.asked = old.asked /\ new.lone = old.lone
       /\ new.bars = bars /\ new.gaps = old.gaps \ {gap} /\ new.answered = (old.answered /\ stops > MaxDay)
  BY <1>2 DEF Job
<1> HIDE DEF new
<1>12. Settled(new)
  BY <1>2, <1>11 DEF Settled
<1>13. Provided(new, day)
  <2> SUFFICES ASSUME old.answered, stops > MaxDay,
                      NEW b \in old.first .. old.last, b <= old.asked,
                      b \notin DOMAIN bars, b \notin old.lone
               PROVE  b \in Requested(old.gaps \ {gap})
    BY <1>2, <1>11 DEF Provided
  <2>1. b \in Requested(old.gaps) /\ old.asked <= day
    BY <1>2, <1>9 DEF Provided
  <2>2. PICK g \in old.gaps : g.since < g.until /\ g.since <= 2 * b /\ 2 * b <= g.until
    BY <2>1 DEF Requested
  <2>3. b \in Nat /\ b # 0 /\ b <= day /\ b < stops
    BY <1>2, <1>5, <2>1 DEF Job
  <2>4. g # gap
    BY <1>5, <1>7, <1>9, <2>2, <2>3 DEF Answered
  <2> QED
    BY <2>2, <2>3, <2>4 DEF Requested
<1>14. jobs' = [jobs EXCEPT ![i] = new] /\ cache' = Kept(cache, fresh) /\ UNCHANGED <<history, current, day>>
  BY <1>1 DEF FetchGap, Update, new, fresh, bars, gap
<1> QED
  BY <1>2, <1>9, <1>10, <1>12, <1>13, <1>14 DEF Steps, Ended
LEMMA FetchRaisesSteps ==
  ASSUME JInv, NEW i \in Ids, FetchRaises(i)
  PROVE  \E job : Steps(i, job)
<1> DEFINE new == Leave(jobs[i], "failed")
<1>1. jobs[i] \in Job /\ Settled(jobs[i]) /\ jobs[i].pc = "fetch"
  BY OneJob DEF FetchRaises
<1>2. new \in Job
  BY <1>1 DEF Leave, Job, Final
<1>3. Settled(new) /\ Provided(new, day)
  BY <1>1 DEF Leave, Settled, Provided, Job, Final
<1>4. jobs' = [jobs EXCEPT ![i] = new] /\ cache' \in Bars /\ UNCHANGED <<history, current, day>>
  BY DEF FetchRaises, Update, JInv, Types
<1> QED
  BY <1>1, <1>2, <1>3, <1>4 DEF Steps, Ended

LEMMA FetchDoneSteps ==
  ASSUME JInv, NEW i \in Ids, FetchDone(i)
  PROVE  \E job : Steps(i, job)
<1> DEFINE old == jobs[i]
           new == [old EXCEPT !.pc = "compute", !.thread = "queued",
                              !.status = IF Validates(old) THEN @ ELSE "running"]
<1>1. old \in Job /\ Settled(old) /\ Provided(old, day) /\ old.pc = "fetch" /\ old.gaps = {}
  BY OneJob DEF FetchDone
<1>2. new \in Job
  BY <1>1 DEF Job
<1>3. /\ new.pc = "compute" /\ new.status \in {old.status, "running"} /\ new.result = old.result
      /\ new.first = old.first /\ new.last = old.last /\ new.asked = old.asked /\ new.lone = old.lone
      /\ new.bars = old.bars /\ new.gaps = old.gaps /\ new.answered = old.answered
  BY <1>1 DEF Job
<1>4. Settled(new) /\ Provided(new, day)
  BY <1>1, <1>3 DEF Settled, Provided, Final
<1>5. jobs' = [jobs EXCEPT ![i] = new] /\ cache' \in Bars /\ UNCHANGED <<history, current, day>>
  BY DEF FetchDone, Update, JInv, Types
<1> QED
  BY <1>1, <1>2, <1>4, <1>5 DEF Steps, Ended

LEMMA StartThreadSteps ==
  ASSUME JInv, NEW i \in Ids, StartThread(i)
  PROVE  \E job : Steps(i, job)
<1> DEFINE old == jobs[i]
           new == [old EXCEPT !.thread = "running"]
<1>1. old \in Job /\ Settled(old) /\ Provided(old, day)
  BY OneJob
<1>2. new \in Job
  BY <1>1 DEF Job
<1>3. /\ new.pc = old.pc /\ new.status = old.status /\ new.result = old.result /\ new.why = old.why
      /\ new.first = old.first /\ new.last = old.last /\ new.asked = old.asked /\ new.lone = old.lone
      /\ new.bars = old.bars /\ new.gaps = old.gaps /\ new.answered = old.answered
  BY <1>1 DEF Job
<1>4. Settled(new) /\ Provided(new, day)
  BY <1>1, <1>3 DEF Settled, Provided
<1>5. jobs' = [jobs EXCEPT ![i] = new] /\ cache' \in Bars /\ UNCHANGED <<history, current, day>>
  BY DEF StartThread, Update, JInv, Types
<1> QED
  BY <1>1, <1>2, <1>3, <1>4, <1>5 DEF Steps, Ended

(* What a task leaves when it ends, or begins to.                          *)
LEMMA Ends ==
  ASSUME NEW job \in Job, NEW outcome \in Final
  PROVE  /\ Over(job, outcome) \in Job /\ Settled(Over(job, outcome)) /\ Provided(Over(job, outcome), day)
         /\ job.pc \notin {"over"} /\ Settled(job) =>
              /\ Finish(job, outcome) \in Job /\ Settled(Finish(job, outcome)) /\ Provided(Finish(job, outcome), day)
              /\ Leave(job, outcome) \in Job /\ Settled(Leave(job, outcome)) /\ Provided(Leave(job, outcome), day)
<1>1. Over(job, outcome) \in Job
  <2> DEFINE a == [job EXCEPT !.pc = "over", !.status = outcome]
             b == [a EXCEPT !.result = (outcome = "done"), !.why = "none"]
             c == [b EXCEPT !.bars = Empty, !.gaps = {}]
             d == [c EXCEPT !.lone = {}]
             l == [d EXCEPT !.left = 0]
             e == [l EXCEPT !.answered = TRUE, !.asked = 0]
  <2>0. Over(job, outcome) = e
    BY DEF Over
  <2>1. a \in Job
    BY DEF Job, Final
  <2> HIDE DEF a
  <2>2. b \in Job
    BY <2>1 DEF Job
  <2> HIDE DEF b
  <2>3. c \in Job
    BY <2>2, NoBars DEF Job
  <2> HIDE DEF c
  <2>4. d \in Job
    BY <2>3 DEF Job
  <2> HIDE DEF d
  <2>5. l \in Job
    BY <2>4 DEF Job
  <2> HIDE DEF l
  <2>6. e \in Job
    BY <2>5 DEF Job
  <2> QED
    BY <2>0, <2>6
<1>2. /\ Over(job, outcome).pc = "over" /\ Over(job, outcome).status = outcome
      /\ Over(job, outcome).result = (outcome = "done")
  BY DEF Over, Job
<1>3. Settled(Over(job, outcome)) /\ Provided(Over(job, outcome), day)
  BY <1>2 DEF Settled, Provided
<1>4. Leave(job, outcome) \in Job
  BY DEF Leave, Job, Final
<1>5. /\ Leave(job, outcome).pc = "closing" /\ Leave(job, outcome).why = outcome
      /\ Leave(job, outcome).status = job.status /\ Leave(job, outcome).result = job.result
  BY DEF Leave, Job
<1>6. job.pc # "over" /\ Settled(job) => Settled(Leave(job, outcome)) /\ Provided(Leave(job, outcome), day)
  BY <1>5 DEF Settled, Provided
<1> QED
  BY <1>1, <1>3, <1>4, <1>6 DEF Finish

LEMMA ThreadEndsSteps ==
  ASSUME JInv, NEW i \in Ids, NEW ok \in BOOLEAN, ThreadEnds(i, ok)
  PROVE  \E job : Steps(i, job)
<1> DEFINE old == jobs[i]
           given == [old EXCEPT !.thread = "none"]
           again == [given EXCEPT !.left = @ - 1, !.thread = "queued"]
           new == CASE given.pc # "compute" -> given
                    [] given.pc = "compute" /\ ~ok /\ Fatal(given) -> Finish(given, "failed")
                    [] given.pc = "compute" /\ (ok \/ ~Fatal(given)) ->
                          IF given.left = 1 THEN Finish(given, "done") ELSE again
<1>1. old \in Job /\ Settled(old) /\ Provided(old, day)
  BY OneJob
<1>2. given \in Job /\ again \in Job
  <2>1. given \in Job
    BY <1>1 DEF Job
  <2> HIDE DEF given
  <2> DEFINE fewer == [given EXCEPT !.left = @ - 1]
  <2>2. fewer \in Job
    BY <2>1 DEF Job
  <2>3. again = [fewer EXCEPT !.thread = "queued"]
    OBVIOUS
  <2> HIDE DEF fewer
  <2>4. [fewer EXCEPT !.thread = "queued"] \in Job
    BY <2>2 DEF Job
  <2> QED
    BY <2>1, <2>3, <2>4
<1>3. ASSUME NEW job \in {given, again}
      PROVE  /\ job.pc = old.pc /\ job.status = old.status /\ job.result = old.result /\ job.why = old.why
             /\ job.first = old.first /\ job.last = old.last /\ job.asked = old.asked /\ job.lone = old.lone
             /\ job.bars = old.bars /\ job.gaps = old.gaps /\ job.answered = old.answered
  <2>1. CASE job = given
    BY <1>1, <2>1 DEF Job
  <2>2. CASE job = again
    BY <1>1, <2>2 DEF Job
  <2> QED
    BY <2>1, <2>2
<1> HIDE DEF given, again
<1>4. \A job \in {given, again} : Settled(job) /\ Provided(job, day)
  BY <1>1, <1>3 DEF Settled, Provided
<1>5. given.pc = "compute" => \A o \in Final : Finish(given, o) \in Job /\ Settled(Finish(given, o)) /\ Provided(Finish(given, o), day)
  BY <1>2, <1>4, Ends
<1>6. CASE given.pc # "compute"
  <2>1. jobs' = [jobs EXCEPT ![i] = given] /\ cache' \in Bars /\ UNCHANGED <<history, current, day>>
    BY <1>6 DEF ThreadEnds, Update, JInv, Types, given
  <2> QED
    BY <1>2, <1>3, <1>4, <2>1 DEF Steps, Ended
<1>7. CASE given.pc = "compute"
  <2>1. PICK job \in {Finish(given, "failed"), Finish(given, "done"), again} :
             jobs' = [jobs EXCEPT ![i] = job]
    BY <1>7 DEF ThreadEnds, Update, given, again
  <2>2. cache' \in Bars /\ UNCHANGED <<history, current, day>>
    BY DEF ThreadEnds, JInv, Types
  <2>3. ~Ended(i)
    BY <1>3, <1>7 DEF Ended
  <2> QED
    BY <1>2, <1>4, <1>5, <1>7, <2>1, <2>2, <2>3 DEF Steps, Final
<1> QED
  BY <1>6, <1>7

LEMMA ClosedSteps ==
  ASSUME JInv, NEW i \in Ids, Closed(i)
  PROVE  \E job : Steps(i, job)
<1>1. jobs[i] \in Job /\ jobs[i].why \in Final /\ ~Ended(i)
  BY OneJob DEF Closed, Settled, Ended
<1>2. jobs' = [jobs EXCEPT ![i] = Over(jobs[i], jobs[i].why)] /\ cache' \in Bars /\ UNCHANGED <<history, current, day>>
  BY DEF Closed, Update, JInv, Types
<1> QED
  BY <1>1, <1>2, Ends DEF Steps

LEMMA InterruptSteps ==
  ASSUME JInv, NEW i \in Ids, NEW outcome \in Final, Awaits(i), Interrupt(i, outcome)
  PROVE  \E job : Steps(i, job)
<1> DEFINE old == jobs[i]
           given == GiveUp(old)
<1>1. old \in Job /\ Settled(old) /\ Provided(old, day) /\ ~Ended(i)
  BY OneJob DEF Awaits, Ended
<1>2. given \in Job /\ given.pc = old.pc /\ given.status = old.status /\ given.result = old.result /\ given.why = old.why
  BY <1>1 DEF GiveUp, Job
<1> HIDE DEF given
<1>3. Settled(given) /\ given.pc # "over"
  BY <1>1, <1>2 DEF Settled, Ended
<1>4. PICK job \in {Finish(given, outcome), old, Leave(old, outcome)} : jobs' = [jobs EXCEPT ![i] = job]
  BY DEF Interrupt, Update, given
<1>5. job \in Job /\ Settled(job) /\ Provided(job, day)
  BY <1>1, <1>2, <1>3, <1>4, Ends DEF Ended
<1>6. cache' \in Bars /\ UNCHANGED <<history, current, day>>
  BY DEF Interrupt, JInv, Types
<1> QED
  BY <1>1, <1>4, <1>5, <1>6 DEF Steps

LEMMA TaskSteps ==
  ASSUME JInv, NEW i \in Ids,
         \/ Start(i) \/ FetchGap(i) \/ FetchRaises(i) \/ FetchDone(i) \/ StartThread(i)
         \/ (\E ok \in BOOLEAN : ThreadEnds(i, ok))
         \/ Closed(i) \/ Cancel(i) \/ Timeout(i)
  PROVE  \E job : Steps(i, job)
<1>1. CASE Cancel(i) \/ Timeout(i)
  BY <1>1, InterruptSteps DEF Cancel, Timeout, Final
<1> QED
  BY <1>1, StartSteps, FetchGapSteps, FetchRaisesSteps, FetchDoneSteps, StartThreadSteps, ThreadEndsSteps, ClosedSteps

-----------------------------------------------------------------------------
(* All of them *)

LEMMA FreshJob ==
  ASSUME NEW mode \in Modes, NEW period \in Periods
  PROVE  Fresh(mode, period) \in Job /\ Settled(Fresh(mode, period)) /\ Provided(Fresh(mode, period), day)
<1>1. period[1] \in Nat \ {0} /\ period[2] \in Nat \ {0}
  BY BacktestJobsAssumption
<1>2. Parts(mode) \in Int
  BY DEF Parts
<1>3. Fresh(mode, period) \in Job
  BY <1>1, <1>2, NoBars DEF Fresh, Job
<1> QED
  BY <1>3 DEF Fresh, Settled, Provided, Final

(* Trimming keeps the newest job of a history.                             *)
LEMMA TrimmedKeepsLast ==
  ASSUME NEW known \in Seq(Nat), known # <<>>, NEW js
  PROVE  /\ Trimmed(known, js) \in Seq(Nat) /\ Trimmed(known, js) # <<>>
         /\ Trimmed(known, js)[Len(Trimmed(known, js))] = known[Len(known)]
<1> DEFINE stays == {n \in DOMAIN known : \/ n > Len(known) - MaxHistory
                                        \/ \E m \in 1 .. n : js[known[m]].pc # "over"}
           k == Min(stays)
           t == Trimmed(known, js)
<1>1. Len(known) \in Nat \ {0} /\ DOMAIN known = 1 .. Len(known) /\ \A n \in 1 .. Len(known) : known[n] \in Nat
  OBVIOUS
<1>2. Len(known) \in stays
  BY <1>1, BacktestJobsAssumption
<1>3. k \in stays
  <2>1. stays \subseteq Nat
    BY <1>1
  <2> QED
    BY <1>2, <2>1, LeastExists
<1>4. k \in 1 .. Len(known)
  BY <1>1, <1>3
<1>5. t = SubSeq(known, k, Len(known))
  BY DEF Trimmed
<1> HIDE DEF t, k, stays
<1>6. t \in Seq(Nat) /\ Len(t) = Len(known) - k + 1 /\ t[Len(known) - k + 1] = known[Len(known)]
  BY <1>1, <1>4, <1>5
<1>7. t # <<>>
  BY <1>1, <1>4, <1>6
<1>8. t \in Seq(Nat) /\ t # <<>> /\ t[Len(t)] = known[Len(known)]
  BY <1>6, <1>7
<1> QED
  BY <1>8 DEF t

LEMMA SubmitStep ==
  ASSUME JInv, NEW mode \in Modes, NEW period \in Periods, Submit(mode, period)
  PROVE  JInv'
<1> DEFINE new == Fresh(mode, period)
           known == Append(history, Len(jobs'))
<1>1. /\ jobs' = Append(jobs, new) /\ current' = Len(jobs') /\ history' = Trimmed(known, jobs')
      /\ UNCHANGED <<cache, day>>
  BY DEF Submit
<1>2. new \in Job /\ Settled(new) /\ Provided(new, day)
  BY FreshJob
<1> HIDE DEF new
<1>3. jobs \in Seq(Job) /\ history \in Seq(Nat)
  BY DEF JInv, Types
<1>4. /\ jobs' \in Seq(Job) /\ Len(jobs') = Len(jobs) + 1 /\ Len(jobs) \in Nat
      /\ \A i \in 1 .. Len(jobs) : jobs'[i] = jobs[i]
      /\ jobs'[Len(jobs) + 1] = new
  BY <1>1, <1>2, <1>3
<1>5. known \in Seq(Nat) /\ known # <<>> /\ known[Len(known)] = Len(jobs')
  <2>1. Len(jobs') \in Nat
    BY <1>4
  <2> HIDE DEF new
  <2>2. \A n \in Nat : /\ Append(history, n) \in Seq(Nat) /\ Append(history, n) # <<>>
                       /\ Append(history, n)[Len(Append(history, n))] = n
    BY <1>3
  <2> QED
    BY <2>1, <2>2
<1> HIDE DEF known
<1>6. history' \in Seq(Nat) /\ history' # <<>> /\ history'[Len(history')] = Len(jobs')
  BY <1>1, <1>5, TrimmedKeepsLast
<1>7. Types'
  BY <1>1, <1>4, <1>6 DEF JInv, Types
<1>8. \A i \in 1 .. Len(jobs) : jobs[i].pc = "over"
  <2> SUFFICES ASSUME NEW i \in 1 .. Len(jobs), jobs[i].pc # "over" PROVE FALSE
    OBVIOUS
  <2>1. i = current /\ current # 0
    BY <1>3 DEF JInv, Known, Ended
  <2>2. jobs[i].status \in Final
    BY <2>1 DEF Submit
  <2> QED
    BY <1>3, <2>2 DEF JInv, Settled
<1>9. Known'
  <2>1. DOMAIN jobs' = 1 .. Len(jobs) + 1
    BY <1>4
  <2> QED
    BY <1>1, <1>4, <1>6, <1>8, <2>1 DEF Known, Ended
<1>10. ASSUME NEW i \in DOMAIN jobs'
       PROVE  Settled(jobs'[i]) /\ Provided(jobs'[i], day')
  <2>1. CASE i = Len(jobs) + 1
    BY <1>1, <1>2, <1>4, <2>1 DEF Provided
  <2>2. CASE i \in 1 .. Len(jobs)
    BY <1>1, <1>3, <1>4, <2>2 DEF JInv, Provided
  <2> QED
    BY <1>4, <2>1, <2>2
<1> QED
  BY <1>7, <1>9, <1>10 DEF JInv, Settled

LEMMA StepKeeps ==
  ASSUME JInv, NEW i \in Ids, NEW job, Steps(i, job)
  PROVE  JInv'
<1>1. /\ job \in Job /\ jobs \in Seq(Job) /\ jobs' = [jobs EXCEPT ![i] = job] /\ i \in 1 .. Len(jobs)
      /\ cache' \in Bars /\ UNCHANGED <<history, current, day>>
  BY DEF Steps, JInv, Types
<1>2. /\ jobs' \in Seq(Job) /\ Len(jobs') = Len(jobs) /\ DOMAIN jobs' = DOMAIN jobs
      /\ \A n \in DOMAIN jobs : jobs'[n] = IF n = i THEN job ELSE jobs[n]
  BY <1>1
<1>3. Types'
  BY <1>1, <1>2 DEF JInv, Types
<1>4. Known'
  <2>1. jobs' # <<>> /\ jobs # <<>>
    BY <1>1, <1>2
  <2> QED
    BY <1>1, <1>2, <2>1 DEF JInv, Known, Ended, Steps
<1>5. ASSUME NEW n \in DOMAIN jobs'
      PROVE  Settled(jobs'[n]) /\ Provided(jobs'[n], day')
  BY <1>1, <1>2 DEF JInv, Steps, Provided
<1> QED
  BY <1>3, <1>4, <1>5 DEF JInv, Settled

LEMMA JobsStep ==
  ASSUME JInv, [Next]_vars
  PROVE  JInv'
<1>1. CASE Crash
  <2>1. jobs' = <<>> /\ history' = <<>> /\ current' = 0 /\ UNCHANGED <<cache, day>>
    BY <1>1 DEF Crash
  <2>2. jobs' \in Seq(Job) /\ history' \in Seq(Nat) /\ Len(jobs') = 0 /\ DOMAIN jobs' = {}
    BY <2>1
  <2> QED
    BY <2>1, <2>2 DEF JInv, Types, Known
<1>2. CASE NextDay
  <2>1. day' = day + 1 /\ day' \in 1 .. MaxDay /\ UNCHANGED <<jobs, history, current, cache>>
    BY <1>2, BacktestJobsAssumption DEF NextDay, JInv, Types
  <2>2. \A i \in Ids : jobs[i].pc \in {"fetch", "compute"} => jobs[i].asked \in Nat /\ jobs[i].asked <= day'
    <3> SUFFICES ASSUME NEW i \in Ids, jobs[i].pc \in {"fetch", "compute"}
                 PROVE  jobs[i].asked \in Nat /\ jobs[i].asked <= day'
      OBVIOUS
    <3>1. jobs[i].asked \in Nat /\ jobs[i].asked <= day
      BY OneJob DEF Job, Provided
    <3> QED
      BY <2>1, <3>1 DEF JInv, Types
  <2> QED
    BY <2>1, <2>2 DEF JInv, Types, Known, Ended, Settled, Provided
<1>3. CASE UNCHANGED vars
  BY <1>3 DEF vars, JInv, Types, Known, Ended, Settled, Provided
<1> QED
  BY <1>1, <1>2, <1>3, SubmitStep, TaskSteps, StepKeeps DEF Next

LEMMA InitJobs ==
  ASSUME Init
  PROVE  JInv
<1>1. jobs = <<>> /\ history = <<>> /\ current = 0 /\ cache \in Bars /\ day = 1
  BY NoBars DEF Init
<1>2. jobs \in Seq(Job) /\ history \in Seq(Nat) /\ Len(jobs) = 0 /\ DOMAIN jobs = {}
  BY <1>1
<1>3. day \in 1 .. MaxDay
  BY <1>1, BacktestJobsAssumption
<1> QED
  BY <1>1, <1>2, <1>3 DEF JInv, Types, Known

LEMMA JobsHold == Spec => []JInv
<1> QED
  BY InitJobs, JobsStep, PTL DEF Spec

(* A job that has not ended is the current one and the newest of the       *)
(* history, which trimming never takes: it can be looked up and cancelled  *)
(* (submit of job_manager.py), whatever the length of the history.         *)
THEOREM JobUnderWayIsKnown == Spec => []UnderWayIsKnown
<1>1. JInv => UnderWayIsKnown
  <2> SUFFICES ASSUME JInv, NEW i \in Ids, ~Ended(i)
               PROVE  i = current /\ \E n \in DOMAIN history : history[n] = i
    BY DEF UnderWayIsKnown
  <2>1. jobs \in Seq(Job) /\ history \in Seq(Nat) /\ i = current /\ jobs # <<>>
    BY DEF JInv, Types, Known
  <2>2. history # <<>> /\ history[Len(history)] = current
    BY <2>1 DEF JInv, Known
  <2> QED
    BY <2>1, <2>2
<1> QED
  BY <1>1, JobsHold, PTL

(* A job whose requests were all answered computes on every bar its period *)
(* had when it asked, but for single bars missing between cached ones:     *)
(* every other missing bar lies in a stretch that is asked for             *)
(* (_find_gaps and get_candles of candle_cache.py).                        *)
THEOREM OnlyLoneBarsAreMissing == Spec => []OnlyLoneBarsMissing
<1>1. JInv => OnlyLoneBarsMissing
  <2> SUFFICES ASSUME JInv, NEW i \in Ids, jobs[i].pc = "compute", jobs[i].answered
               PROVE  {b \in jobs[i].first .. jobs[i].last : b <= jobs[i].asked}
                        \subseteq DOMAIN jobs[i].bars \cup jobs[i].lone
    BY DEF OnlyLoneBarsMissing
  <2>1. Requested(jobs[i].gaps) = {}
    BY OneJob DEF Provided, Requested
  <2> QED
    BY <2>1, OneJob DEF Provided
<1> QED
  BY <1>1, JobsHold, PTL

(* The outcome of a job is settled once, with its result: no thread that   *)
(* ends later, no late timeout and no second cancellation changes it (_run *)
(* of job_manager.py).                                                     *)
THEOREM OutcomeIsFinal == Spec => FinalIsFinal
<1>1. JInv /\ JInv' /\ [Next]_vars =>
        \/ UNCHANGED jobs
        \/ /\ \A i \in Ids : Ended(i) /\ i \in DOMAIN jobs' =>
                 jobs'[i].status = jobs[i].status /\ jobs'[i].result = jobs[i].result
           /\ \A i \in DOMAIN jobs' : jobs'[i].result <=> jobs'[i].status = "done"
  <2> SUFFICES ASSUME JInv, JInv', [Next]_vars, NEW i \in Ids, Ended(i), i \in DOMAIN jobs'
               PROVE  jobs'[i].status = jobs[i].status /\ jobs'[i].result = jobs[i].result
    BY DEF JInv, Settled
  <2>1. ASSUME NEW n \in Ids, NEW job, Steps(n, job)
        PROVE  jobs'[i].status = jobs[i].status /\ jobs'[i].result = jobs[i].result
    BY <2>1 DEF Steps, JInv, Types
  <2>2. ASSUME NEW mode \in Modes, NEW period \in Periods, Submit(mode, period)
        PROVE  jobs'[i] = jobs[i]
    <3>1. jobs' = Append(jobs, Fresh(mode, period)) /\ jobs \in Seq(Job)
      BY <2>2 DEF Submit, JInv, Types
    <3> QED
      BY <3>1
  <2>3. CASE Crash
    <3>1. jobs' = <<>>
      BY <2>3 DEF Crash
    <3> QED
      BY <3>1
  <2>4. CASE NextDay \/ UNCHANGED vars
    BY <2>4 DEF NextDay, vars
  <2> QED
    BY <2>1, <2>2, <2>3, <2>4, TaskSteps DEF Next
<1> QED
  BY <1>1, InitJobs, JobsStep, PTL DEF Spec, FinalIsFinal

-----------------------------------------------------------------------------
(* Saved records. What the tables say of each other. *)

Loss(t) == IF t = "orders" THEN {"price"} ELSE {}

\* PostgresDataStore sets what may have changed, but for the price of an order, and it
\* blanks no column that SqliteDataStore does not.
LEMMA TablesAgree ==
  \A t \in Tables : /\ Again[t] \subseteq Pg[t].sets \cup Loss(t)
                    /\ Pg[t].written \subseteq Table[t].blank /\ Pg[t].read \subseteq Table[t].blank
                    /\ t = "candles" => Table[t].columns \subseteq Pg[t].sets
<1> SUFFICES ASSUME NEW t \in Tables
             PROVE  /\ Again[t] \subseteq Pg[t].sets \cup Loss(t)
                    /\ Pg[t].written \subseteq Table[t].blank /\ Pg[t].read \subseteq Table[t].blank
                    /\ t = "candles" => Table[t].columns \subseteq Pg[t].sets
  OBVIOUS
<1>1. t \in {"candles", "signals", "orders", "positions", "risk_state", "bot_state", "paper_balances",
             "daily_pnl", "macro_snapshots", "bot_commands", "backtest_results"}
  BY DEF Tables, Table
<1>2. CASE t = "candles"
  <2>1. Again[t] = Candles.columns /\ Table[t] = Candles /\ Pg[t] = CandlesPg
    BY <1>2 DEF Again, Table, Pg
  <2> QED
    BY <2>1 DEF Candles, CandlesPg
<1>3. CASE t = "signals"
  <2>1. Again[t] = {} /\ Table[t] = Signals /\ Pg[t] = SignalsPg
    BY <1>3 DEF Again, Table, Pg
  <2> QED
    BY <1>3, <2>1 DEF Signals, SignalsPg
<1>4. CASE t = "orders"
  <2>1. Again[t] = OrdersAgain /\ Table[t] = Orders /\ Pg[t] = OrdersPg
    BY <1>4 DEF Again, Table, Pg
  <2> QED
    BY <1>4, <2>1 DEF Orders, OrdersPg, OrdersAgain, Loss
<1>5. CASE t = "positions"
  <2>1. Again[t] = PositionsAgain /\ Table[t] = Positions /\ Pg[t] = PositionsPg
    BY <1>5 DEF Again, Table, Pg
  <2> QED
    BY <1>5, <2>1 DEF Positions, PositionsPg, PositionsAgain
<1>6. CASE t = "risk_state"
  <2>1. Again[t] = RiskRows.columns /\ Table[t] = RiskRows /\ Pg[t] = RiskRowsPg
    BY <1>6 DEF Again, Table, Pg
  <2> QED
    BY <1>6, <2>1 DEF RiskRows, RiskRowsPg
<1>7. CASE t = "bot_state"
  <2>1. Again[t] = BotRows.columns /\ Table[t] = BotRows /\ Pg[t] = BotRowsPg
    BY <1>7 DEF Again, Table, Pg
  <2> QED
    BY <1>7, <2>1 DEF BotRows, BotRowsPg
<1>8. CASE t = "paper_balances"
  <2>1. Again[t] = BalancesAgain /\ Table[t] = Balances /\ Pg[t] = BalancesPg
    BY <1>8 DEF Again, Table, Pg
  <2> QED
    BY <1>8, <2>1 DEF Balances, BalancesPg, BalancesAgain
<1>9. CASE t = "daily_pnl"
  <2>1. Again[t] = DailyRows.columns /\ Table[t] = DailyRows /\ Pg[t] = DailyRowsPg
    BY <1>9 DEF Again, Table, Pg
  <2> QED
    BY <1>9, <2>1 DEF DailyRows, DailyRowsPg
<1>10. CASE t = "macro_snapshots"
  <2>1. Again[t] = {} /\ Table[t] = Macros /\ Pg[t] = MacrosPg
    BY <1>10 DEF Again, Table, Pg
  <2> QED
    BY <1>10, <2>1 DEF Macros, MacrosPg
<1>11. CASE t = "bot_commands"
  <2>1. Again[t] = MarkedColumns /\ Table[t] = Commands /\ Pg[t] = CommandsPg
    BY <1>11 DEF Again, Table, Pg
  <2> QED
    BY <1>11, <2>1 DEF Commands, CommandsPg, MarkedColumns
<1>12. CASE t = "backtest_results"
  <2>1. Again[t] = {} /\ Table[t] = Results /\ Pg[t] = ResultsPg
    BY <1>12 DEF Again, Table, Pg
  <2> QED
    BY <1>12, <2>1 DEF Results, ResultsPg
<1> QED
  BY <1>1, <1>2, <1>3, <1>4, <1>5, <1>6, <1>7, <1>8, <1>9, <1>10, <1>11, <1>12

-----------------------------------------------------------------------------
(* Rows. What is lost on the way to the database and back is nothing that a row says. *)

Columns(r) == Table[r[1]].columns
RowsOf(r) == [Columns(r) -> Nat \cup {None, Zero}]

\* What a column of a row says.
Shown(r, x, v) == IF x \in Table[r[1]].blank /\ v = Zero THEN None ELSE v

LEMMA Says ==
  ASSUME NEW r \in Records, NEW row \in RowsOf(r)
  PROVE  /\ row # None
         /\ Seen(r, row) = [x \in Columns(r) \ Lost(r) |-> Shown(r, x, row[x])]
<1>1. row # None
  BY StoreAssumption, StoreTablesAssumption DEF RowsOf, Columns
<1>2. Blanked(row, Table[r[1]].blank) = [x \in Columns(r) |-> Shown(r, x, row[x])]
  BY DEF Blanked, RowsOf, Shown
<1>3. Seen(r, row) = Without([x \in Columns(r) |-> Shown(r, x, row[x])], Lost(r))
  BY <1>1, <1>2 DEF Seen
<1> QED
  BY <1>1, <1>3 DEF Without

LEMMA WrittenSays ==
  ASSUME NEW r \in Records, NEW row \in RowsOf(r)
  PROVE  /\ Written(r, row) \in RowsOf(r)
         /\ \A x \in Columns(r) : Shown(r, x, Written(r, row)[x]) = Shown(r, x, row[x])
<1>1. PICK B : Written(r, row) = Blanked(row, B) /\ B \subseteq Table[r[1]].blank
  BY StoreAssumption, TablesAgree DEF Written
<1>2. Written(r, row) = [x \in Columns(r) |-> IF x \in B /\ row[x] = Zero THEN None ELSE row[x]]
  BY <1>1 DEF Blanked, RowsOf
<1>3. Written(r, row) \in RowsOf(r)
  BY <1>2 DEF RowsOf
<1> QED
  BY <1>1, <1>2, <1>3, StoreTablesAssumption DEF Shown

LEMMA ReadSays ==
  ASSUME NEW r \in Records, NEW row \in RowsOf(r)
  PROVE  /\ Read(r, row) \in RowsOf(r)
         /\ \A x \in Columns(r) : Shown(r, x, Read(r, row)[x]) = Shown(r, x, row[x])
         /\ Seen(r, Read(r, row)) = Seen(r, row)
<1>1. PICK B : Read(r, row) = Blanked(row, B) /\ B \subseteq Table[r[1]].blank
  <2>1. row # None
    BY Says
  <2>2. CASE backend = "sqlite"
    <3>1. Read(r, row) = row
      BY <2>2 DEF Read
    <3>2. Blanked(row, {}) = row
      BY DEF Blanked, RowsOf
    <3> QED
      BY <3>1, <3>2
  <2>3. CASE backend # "sqlite"
    BY <2>1, <2>3, StoreAssumption, TablesAgree DEF Read
  <2> QED
    BY <2>2, <2>3
<1>2. Read(r, row) = [x \in Columns(r) |-> IF x \in B /\ row[x] = Zero THEN None ELSE row[x]]
  BY <1>1 DEF Blanked, RowsOf
<1>3. Read(r, row) \in RowsOf(r)
  BY <1>2 DEF RowsOf
<1>4. \A x \in Columns(r) : Shown(r, x, Read(r, row)[x]) = Shown(r, x, row[x])
  BY <1>1, <1>2, <1>3, StoreTablesAssumption DEF Shown
<1>5. PICK a : a = Read(r, row)
  OBVIOUS
<1>6. Seen(r, a) = [x \in Columns(r) \ Lost(r) |-> Shown(r, x, a[x])]
  BY <1>3, <1>5, Says
<1>7. Seen(r, row) = [x \in Columns(r) \ Lost(r) |-> Shown(r, x, row[x])]
  BY Says
<1> QED
  BY <1>3, <1>4, <1>5, <1>6, <1>7

\* The columns that a row of PostgresDataStore keeps when another is written over it.
Fixed(r) == Columns(r) \ (Pg[r[1]].sets \cup Lost(r))
Agrees(r, row, old) == \A x \in Fixed(r) : Shown(r, x, row[x]) = Shown(r, x, old[x])

LEMMA MergedSays ==
  ASSUME NEW r \in Records, NEW row \in RowsOf(r), NEW old, old \in RowsOf(r) \/ old = None,
         backend = "postgres", old # None => Agrees(r, row, old),
         NEW new, new = Merged(r, old, Written(r, row))
  PROVE  /\ new \in RowsOf(r) /\ Seen(r, new) = Seen(r, row)
         /\ old # None => \A x \in Fixed(r) : new[x] = old[x]
<1>1. PICK w : w = Written(r, row)
  OBVIOUS
<1>2. w \in RowsOf(r) /\ \A x \in Columns(r) : Shown(r, x, w[x]) = Shown(r, x, row[x])
  BY <1>1, WrittenSays
<1>3. CASE old = None
  <2>1. new = w
    BY <1>1, <1>3 DEF Merged
  <2>2. Seen(r, new) = [x \in Columns(r) \ Lost(r) |-> Shown(r, x, w[x])]
    BY <1>2, <2>1, Says
  <2>3. Seen(r, row) = [x \in Columns(r) \ Lost(r) |-> Shown(r, x, row[x])]
    BY Says
  <2> QED
    BY <1>2, <1>3, <2>1, <2>2, <2>3
<1>4. CASE old # None
  <2>1. new = [x \in DOMAIN w |-> IF x \in Pg[r[1]].sets THEN w[x] ELSE old[x]]
    BY <1>1, <1>4 DEF Merged
  <2>2. DOMAIN w = Columns(r)
    BY <1>2 DEF RowsOf
  <2>3. new = [x \in Columns(r) |-> IF x \in Pg[r[1]].sets THEN w[x] ELSE old[x]]
    BY <2>1, <2>2
  <2>4. new \in RowsOf(r)
    BY <1>2, <1>4, <2>3 DEF RowsOf
  <2>5. \A x \in Columns(r) \ Lost(r) : Shown(r, x, new[x]) = Shown(r, x, row[x])
    BY <1>2, <1>4, <2>3 DEF Agrees, Fixed
  <2>6. Seen(r, new) = [x \in Columns(r) \ Lost(r) |-> Shown(r, x, new[x])]
    BY <2>4, Says
  <2>7. Seen(r, row) = [x \in Columns(r) \ Lost(r) |-> Shown(r, x, row[x])]
    BY Says
  <2> QED
    BY <2>3, <2>4, <2>5, <2>6, <2>7 DEF Fixed
<1> QED
  BY <1>3, <1>4

-----------------------------------------------------------------------------
(* What holds of the store. *)

Maybe(r) == RowsOf(r) \cup {None}
Todos == UNION {[S -> UNION {RowsOf(r) : r \in Records}] : S \in SUBSET Records}
StoreCall == [todo : Todos, done : SUBSET Records, raised : BOOLEAN]

StoreTyped ==
  /\ scope \subseteq Records /\ backend \in {"sqlite", "postgres"} /\ count \in Nat
  /\ disk = [r \in Records |-> disk[r]] /\ \A r \in Records : disk[r] \in Maybe(r)
  /\ open = [r \in Records |-> open[r]] /\ \A r \in Records : open[r] \in Seq(RowsOf(r))
  /\ calls \in [Callers -> StoreCall]
  /\ \A c \in Callers : \A r \in DOMAIN calls[c].todo : calls[c].todo[r] \in RowsOf(r)

\* PostgresDataStore has no open transaction; a save that is on its way leaves alone
\* what is not set when it arrives; and a row that does not exist has one creator.
Partial ==
  backend = "postgres" =>
    /\ \A r \in Records : open[r] = <<>>
    /\ \A c \in Callers : \A r \in DOMAIN calls[c].todo :
          disk[r] # None => Agrees(r, calls[c].todo[r], disk[r])
    /\ \A c, d \in Callers : \A r \in DOMAIN calls[c].todo \cap DOMAIN calls[d].todo :
          disk[r] = None /\ r[1] # "candles" => c = d

LEMMA NoneIsNoRow ==
  ASSUME NEW r \in Records
  PROVE  None \notin RowsOf(r)
BY StoreAssumption, StoreTablesAssumption DEF RowsOf, Columns

LEMMA CandlesAreReplaced ==
  ASSUME NEW r \in Records, r[1] = "candles"
  PROVE  Fixed(r) = {}
BY StoreAssumption, TablesAgree DEF Fixed, Columns

LEMMA NewRows ==
  ASSUME NEW r \in Records, NEW n \in Nat, NEW v \in {n, None, Zero}
  PROVE  NewRow(r[1], n, v) \in RowsOf(r)
BY DEF NewRow, RowsOf, Columns

LEMMA ChangedRows ==
  ASSUME NEW r \in Records, NEW n \in Nat, NEW v \in {n, None, Zero}, NEW old \in RowsOf(r)
  PROVE  /\ Changed(r[1], old, n, v) \in RowsOf(r)
         /\ \A x \in Columns(r) \ Again[r[1]] : Changed(r[1], old, n, v)[x] = old[x]
<1>1. PICK new : new = NewRow(r[1], n, v)
  OBVIOUS
<1>2. new \in RowsOf(r)
  BY <1>1, NewRows
<1>3. Changed(r[1], old, n, v) = [x \in Columns(r) |-> IF x \in Again[r[1]] THEN new[x] ELSE old[x]]
  BY <1>1 DEF Changed, RowsOf
<1> QED
  BY <1>2, <1>3 DEF RowsOf

-----------------------------------------------------------------------------
(* The versions of a record. *)

LEMMA StoredTyped ==
  ASSUME StoreTyped, NEW r \in Records
  PROVE  /\ Stored(r) \in Seq(Maybe(r)) /\ Len(Stored(r)) = Len(open[r]) + 1 /\ Len(open[r]) \in Nat
         /\ Latest(Stored(r)) \in Maybe(r) /\ Stored(r)[1] = disk[r]
         /\ open[r] = <<>> => Latest(Stored(r)) = disk[r] /\ Stored(r) = <<disk[r]>>
<1>1. open[r] \in Seq(Maybe(r)) /\ disk[r] \in Maybe(r)
  BY DEF StoreTyped, Maybe
<1>2. PICK s, d : s = open[r] /\ d = disk[r]
  OBVIOUS
<1>3. s \in Seq(Maybe(r)) /\ d \in Maybe(r)
  BY <1>1, <1>2
<1>4. <<d>> \o s \in Seq(Maybe(r)) /\ Len(<<d>> \o s) = Len(s) + 1 /\ Len(s) \in Nat
  <2>1. <<d>> \in Seq(Maybe(r)) /\ Len(<<d>>) = 1
    BY <1>3
  <2> QED
    BY <1>3, <2>1, ConcatProperties
<1>7. (<<d>> \o s)[1] = d /\ (s = <<>> => <<d>> \o s = <<d>>)
  <2>1. PICK e : e = <<d>>
    OBVIOUS
  <2>2. e \in Seq(Maybe(r)) /\ Len(e) = 1 /\ e[1] = d
    BY <1>3, <2>1
  <2>3. (e \o s)[1] = d
    BY <1>3, <2>2, ConcatProperties
  <2>4. e \o <<>> = e
    BY <2>2, ConcatEmptySeq
  <2> QED
    BY <2>1, <2>3, <2>4
<1>5. (<<d>> \o s)[Len(<<d>> \o s)] \in Maybe(r)
  BY <1>4
<1>6. Stored(r) = <<d>> \o s
  BY <1>2 DEF Stored
<1> QED
  BY <1>2, <1>4, <1>5, <1>6, <1>7 DEF Latest


-----------------------------------------------------------------------------
(* The saves. Each keeps the types, and the rows of PostgresDataStore whole. *)

LEMMA CallTyped ==
  ASSUME StoreTyped, NEW c \in Callers, NEW todo, Call(c, todo),
         NEW S \in SUBSET Records, todo = [r \in S |-> todo[r]], \A r \in S : todo[r] \in RowsOf(r)
  PROVE  /\ StoreTyped' /\ DOMAIN todo = S
         /\ calls' = [calls EXCEPT ![c] = [todo |-> todo, done |-> {}, raised |-> FALSE]]
<1>1. calls' = [calls EXCEPT ![c] = [todo |-> todo, done |-> {}, raised |-> FALSE]]
  <2>4. Idle \in [todo : {Nothing, todo}, done : {{}}, raised : {FALSE}]
    BY DEF Idle
  <2>1. PICK e \in [todo : {Nothing, todo}, done : {{}}, raised : {FALSE}] : e = Idle
    BY <2>4
  <2>2. [e EXCEPT !.todo = todo] = [todo |-> todo, done |-> e.done, raised |-> e.raised]
    OBVIOUS
  <2>3. [Idle EXCEPT !.todo = todo] = [todo |-> todo, done |-> {}, raised |-> FALSE]
    BY <2>1, <2>2
  <2> QED
    BY <2>3 DEF Call
<1>2. DOMAIN todo = S
  OBVIOUS
<1>3. todo \in Todos
  BY DEF Todos
<1>4. [todo |-> todo, done |-> {}, raised |-> FALSE] \in StoreCall
  BY <1>3 DEF StoreCall
<1>5. calls' \in [Callers -> StoreCall]
  BY <1>1, <1>4 DEF StoreTyped
<1>6. \A d \in Callers : \A r \in DOMAIN calls'[d].todo : calls'[d].todo[r] \in RowsOf(r)
  BY <1>1, <1>2 DEF StoreTyped
<1>7. scope' = scope /\ backend' = backend /\ disk' = disk /\ open' = open /\ count' = count + 1
  BY DEF Call
<1>8. \A r : RowsOf(r)' = RowsOf(r) /\ Maybe(r)' = Maybe(r) /\ StoreCall' = StoreCall
  BY DEF RowsOf, Columns, Maybe, StoreCall, Todos
<1>9. count' \in Nat
  BY <1>7 DEF StoreTyped
<1> QED
  BY <1>1, <1>2, <1>5, <1>6, <1>7, <1>8, <1>9 DEF StoreTyped

\* A call of rows that leave alone what is not set, and that are nobody else's to create.
LEMMA CallPartial ==
  ASSUME StoreTyped, Partial, NEW c \in Callers, NEW todo, Call(c, todo),
         NEW S \in SUBSET Records, DOMAIN todo = S,
         calls' = [calls EXCEPT ![c] = [todo |-> todo, done |-> {}, raised |-> FALSE]],
         backend = "postgres" =>
           \A r \in S : /\ disk[r] # None => Agrees(r, todo[r], disk[r])
                        /\ disk[r] = None /\ r[1] # "candles" => \A d \in Callers : r \notin DOMAIN calls[d].todo
  PROVE  Partial'
<1> SUFFICES ASSUME backend = "postgres" PROVE Partial'
  BY DEF Call, Partial
<1>1. disk' = disk /\ open' = open /\ backend' = backend
  BY DEF Call
<1>2. \A d \in Callers : calls'[d].todo = IF d = c THEN todo ELSE calls[d].todo
  BY DEF StoreTyped
<1>3. \A d \in Callers : \A r \in DOMAIN calls'[d].todo :
          disk[r] # None => Agrees(r, calls'[d].todo[r], disk[r])
  BY <1>2 DEF Partial
<1>4. \A d, e \in Callers : \A r \in DOMAIN calls'[d].todo \cap DOMAIN calls'[e].todo :
          disk[r] = None /\ r[1] # "candles" => d = e
  BY <1>2 DEF Partial
<1>5. \A r \in Records : open'[r] = <<>>
  BY <1>1 DEF Partial
<1>6. \A d \in Callers : \A r \in DOMAIN calls'[d].todo :
          disk'[r] # None => Agrees(r, calls[d].todo[r], disk[r])'
  <2> SUFFICES ASSUME NEW d \in Callers, NEW r \in DOMAIN calls'[d].todo, disk'[r] # None
               PROVE  Agrees(r, calls[d].todo[r], disk[r])'
    OBVIOUS
  <2>1. PICK row : row = calls'[d].todo[r]
    OBVIOUS
  <2>2. Agrees(r, row, disk[r])
    BY <1>1, <1>3, <2>1
  <2> QED
    BY <1>1, <2>1, <2>2 DEF Agrees, Fixed, Lost, Shown, Columns
<1> QED
  BY <1>1, <1>4, <1>5, <1>6 DEF Partial

LEMMA SaveNewKeeps ==
  ASSUME StoreTyped, Partial, NEW c \in Callers, NEW r \in scope, SaveNew(c, r)
  PROVE  \E todo : /\ StoreTyped' /\ Partial' /\ Call(c, todo) /\ DOMAIN todo # {}
                   /\ calls' = [calls EXCEPT ![c] = [todo |-> todo, done |-> {}, raised |-> FALSE]]
<1>1. PICK v \in {count + 1, None, Zero} : Call(c, [x \in {r} |-> NewRow(r[1], count + 1, v)])
  BY DEF SaveNew
<1>2. PICK todo : todo = [x \in {r} |-> NewRow(r[1], count + 1, v)]
  OBVIOUS
<1>3. r \in Records /\ count + 1 \in Nat
  BY DEF StoreTyped
<1>4. todo = [x \in {r} |-> todo[x]] /\ \A x \in {r} : todo[x] \in RowsOf(x)
  BY <1>2, <1>3, NewRows
<1>5. /\ StoreTyped' /\ DOMAIN todo = {r}
      /\ calls' = [calls EXCEPT ![c] = [todo |-> todo, done |-> {}, raised |-> FALSE]]
  BY <1>1, <1>2, <1>3, <1>4, CallTyped
<1>6. backend = "postgres" => disk[r] = None /\ \A d \in Callers : r \notin DOMAIN calls[d].todo
  BY <1>3, StoredTyped DEF SaveNew, BeingMade, Partial
<1>7. Partial'
  <2>1. Call(c, todo) /\ {r} \in SUBSET Records
    BY <1>1, <1>2, <1>3
  <2>2. backend = "postgres" =>
           \A x \in {r} : /\ disk[x] # None => Agrees(x, todo[x], disk[x])
                          /\ disk[x] = None /\ x[1] # "candles" => \A d \in Callers : x \notin DOMAIN calls[d].todo
    BY <1>6
  <2> QED
    BY <1>5, <2>1, <2>2, CallPartial
<1> QED
  BY <1>1, <1>2, <1>5, <1>7

LEMMA SaveAgainKeeps ==
  ASSUME StoreTyped, Partial, NEW c \in Callers, NEW r \in scope, SaveAgain(c, r)
  PROVE  \E todo : /\ StoreTyped' /\ Partial' /\ Call(c, todo) /\ DOMAIN todo # {}
                   /\ calls' = [calls EXCEPT ![c] = [todo |-> todo, done |-> {}, raised |-> FALSE]]
<1>1. PICK v \in {count + 1, None, Zero} :
         Call(c, [x \in {r} |-> Changed(r[1], Read(r, Latest(Stored(r))), count + 1, v)])
  BY DEF SaveAgain
<1>2. PICK old : old = Latest(Stored(r))
  OBVIOUS
<1>3. PICK read : read = Read(r, old)
  OBVIOUS
<1>4. PICK row : row = Changed(r[1], read, count + 1, v)
  OBVIOUS
<1>5. PICK todo : todo = [x \in {r} |-> row]
  OBVIOUS
<1>6. r \in Records /\ count + 1 \in Nat /\ old \in RowsOf(r)
  <2>1. r \in Records /\ count + 1 \in Nat
    BY DEF StoreTyped
  <2> QED
    BY <1>2, <2>1, StoredTyped DEF SaveAgain, Maybe
<1>7. read \in RowsOf(r) /\ \A x \in Columns(r) : Shown(r, x, read[x]) = Shown(r, x, old[x])
  BY <1>3, <1>6, ReadSays
<1>8. row \in RowsOf(r) /\ \A x \in Columns(r) \ Again[r[1]] : row[x] = read[x]
  BY <1>4, <1>6, <1>7, ChangedRows
<1>9. Call(c, todo)
  BY <1>1, <1>2, <1>3, <1>4, <1>5
<1>10. todo = [x \in {r} |-> todo[x]] /\ (\A x \in {r} : todo[x] \in RowsOf(x)) /\ todo[r] = row
  BY <1>5, <1>8
<1>11. /\ StoreTyped' /\ DOMAIN todo = {r}
       /\ calls' = [calls EXCEPT ![c] = [todo |-> todo, done |-> {}, raised |-> FALSE]]
  BY <1>6, <1>9, <1>10, CallTyped
<1>12. backend = "postgres" => disk[r] = old /\ disk[r] # None
  BY <1>2, <1>6, StoredTyped, NoneIsNoRow DEF Partial
<1>13. backend = "postgres" => Again[r[1]] \subseteq Pg[r[1]].sets \cup Lost(r)
  BY <1>6, StoreAssumption, TablesAgree DEF Lost, Loss
<1>14. backend = "postgres" => Agrees(r, todo[r], disk[r])
  BY <1>7, <1>8, <1>10, <1>12, <1>13 DEF Agrees, Fixed
<1>15. Partial'
  BY <1>6, <1>9, <1>11, <1>12, <1>14, CallPartial
<1> QED
  BY <1>9, <1>11, <1>15

LEMMA UpsertKeeps ==
  ASSUME StoreTyped, Partial, NEW c \in Callers, UpsertCandles(c)
  PROVE  \E todo : /\ StoreTyped' /\ Partial' /\ Call(c, todo) /\ DOMAIN todo # {}
                   /\ calls' = [calls EXCEPT ![c] = [todo |-> todo, done |-> {}, raised |-> FALSE]]
<1>1. PICK S \in SUBSET {r \in scope : r[1] = "candles"} :
         S # {} /\ Call(c, [r \in S |-> NewRow("candles", count + 1, count + 1)])
  BY DEF UpsertCandles
<1>2. PICK todo : todo = [r \in S |-> NewRow("candles", count + 1, count + 1)]
  OBVIOUS
<1>3. S \in SUBSET Records /\ (\A r \in S : r[1] = "candles") /\ count + 1 \in Nat
  BY <1>1 DEF StoreTyped
<1>4. \A r \in S : NewRow(r[1], count + 1, count + 1) \in RowsOf(r)
  BY <1>3, NewRows
<1>5. todo = [r \in S |-> todo[r]] /\ \A r \in S : todo[r] \in RowsOf(r)
  BY <1>2, <1>3, <1>4
<1>6. /\ StoreTyped' /\ DOMAIN todo = S
      /\ calls' = [calls EXCEPT ![c] = [todo |-> todo, done |-> {}, raised |-> FALSE]]
  BY <1>1, <1>2, <1>3, <1>5, CallTyped
<1>7. \A r \in S : Agrees(r, todo[r], disk[r])
  BY <1>3, CandlesAreReplaced DEF Agrees
<1>8. Partial'
  BY <1>1, <1>2, <1>3, <1>6, <1>7, CallPartial
<1> QED
  BY <1>1, <1>2, <1>6, <1>8

-----------------------------------------------------------------------------
(* What is done with the rows of a save keeps them as well. *)

\* Sets do not change with a step.
LEMMA Constant ==
  /\ \A r : RowsOf(r)' = RowsOf(r) /\ Maybe(r)' = Maybe(r)
  /\ StoreCall' = StoreCall
BY DEF RowsOf, Columns, Maybe, StoreCall, Todos

LEMMA WithoutTyped ==
  ASSUME NEW f \in Todos, NEW S
  PROVE  Without(f, S) \in Todos
<1>1. PICK U : U = UNION {RowsOf(r) : r \in Records}
  OBVIOUS
<1>2. PICK T \in SUBSET Records : f \in [T -> U]
  BY <1>1 DEF Todos
<1>3. Without(f, S) \in [T \ S -> U] /\ T \ S \in SUBSET Records
  BY <1>2 DEF Without
<1> QED
  BY <1>1, <1>3 DEF Todos

\* A save whose rows become fewer.
LEMMA FewerRows ==
  ASSUME StoreTyped, NEW c \in Callers, NEW S \in SUBSET Records, NEW done \in SUBSET Records,
         NEW raised \in BOOLEAN, NEW k,
         k = [todo |-> Without(calls[c].todo, S), done |-> done, raised |-> raised],
         calls' = [calls EXCEPT ![c] = k]
  PROVE  /\ calls' \in [Callers -> StoreCall]
         /\ \A d \in Callers : /\ DOMAIN calls'[d].todo \subseteq DOMAIN calls[d].todo
                               /\ \A r \in DOMAIN calls'[d].todo : /\ calls'[d].todo[r] = calls[d].todo[r]
                                                                   /\ calls'[d].todo[r] \in RowsOf(r)
<1>1. PICK f : f = calls[c].todo
  OBVIOUS
<1>2. f \in Todos /\ DOMAIN f \in SUBSET Records /\ \A r \in DOMAIN f : f[r] \in RowsOf(r)
  BY <1>1 DEF StoreTyped, StoreCall, Todos
<1>3. PICK g : g = Without(f, S)
  OBVIOUS
<1>4. g = [r \in DOMAIN f \ S |-> f[r]]
  BY <1>3 DEF Without
<1>5. g \in Todos
  BY <1>2, <1>3, WithoutTyped
<1>6. k \in StoreCall /\ k.todo = g
  BY <1>1, <1>3, <1>5 DEF StoreCall
<1>7. \A d \in Callers : calls'[d] = IF d = c THEN k ELSE calls[d]
  BY DEF StoreTyped
<1>8. calls' \in [Callers -> StoreCall]
  BY <1>6 DEF StoreTyped
<1>9. ASSUME NEW d \in Callers
      PROVE  /\ DOMAIN calls'[d].todo \subseteq DOMAIN calls[d].todo
             /\ \A r \in DOMAIN calls'[d].todo : /\ calls'[d].todo[r] = calls[d].todo[r]
                                                 /\ calls'[d].todo[r] \in RowsOf(r)
  <2>1. CASE d = c
    BY <1>1, <1>2, <1>4, <1>6, <1>7, <2>1
  <2>2. CASE d # c
    BY <1>7, <2>2 DEF StoreTyped
  <2> QED
    BY <2>1, <2>2
<1> QED
  BY <1>8, <1>9

\* Fewer rows over the same disk.
LEMMA FewerRowsKeep ==
  ASSUME StoreTyped, Partial, UNCHANGED <<backend, disk>>,
         backend = "postgres" => \A r \in Records : open'[r] = <<>>,
         \A d \in Callers : /\ DOMAIN calls'[d].todo \subseteq DOMAIN calls[d].todo
                            /\ \A r \in DOMAIN calls'[d].todo : calls'[d].todo[r] = calls[d].todo[r]
  PROVE  Partial'
<1> SUFFICES ASSUME backend = "postgres" PROVE Partial'
  BY DEF Partial
<1>1. ASSUME NEW d \in Callers, NEW r \in DOMAIN calls'[d].todo, disk'[r] # None
      PROVE  Agrees(r, calls[d].todo[r], disk[r])'
  <2>1. PICK row : row = calls'[d].todo[r]
    OBVIOUS
  <2>2. Agrees(r, row, disk[r])
    BY <1>1, <2>1 DEF Partial
  <2> QED
    BY <2>1, <2>2 DEF Agrees, Fixed, Lost, Shown, Columns
<1>2. \A d, e \in Callers : \A r \in DOMAIN calls'[d].todo \cap DOMAIN calls'[e].todo :
          disk'[r] = None /\ r[1] # "candles" => d = e
  BY DEF Partial
<1> QED
  BY <1>1, <1>2 DEF Partial

LEMMA CallSet ==
  ASSUME NEW e \in StoreCall, NEW g \in Todos, NEW d \in SUBSET Records
  PROVE  [e EXCEPT !.todo = g, !.done = d] = [todo |-> g, done |-> d, raised |-> e.raised]
<1>1. PICK f : f = [e EXCEPT !.todo = g]
  OBVIOUS
<1>2. f = [todo |-> g, done |-> e.done, raised |-> e.raised]
  BY <1>1 DEF StoreCall
<1>3. f \in StoreCall
  BY <1>2 DEF StoreCall
<1>4. [f EXCEPT !.done = d] = [todo |-> f.todo, done |-> d, raised |-> f.raised]
  BY <1>3 DEF StoreCall
<1> QED
  BY <1>1, <1>2, <1>4

LEMMA AgreesNext ==
  ASSUME NEW d, NEW r, backend' = backend, Agrees(r, calls'[d].todo[r], disk'[r])
  PROVE  Agrees(r, calls[d].todo[r], disk[r])'
<1>1. PICK row, new : row = calls'[d].todo[r] /\ new = disk'[r]
  OBVIOUS
<1>2. Agrees(r, row, new)
  BY <1>1
<1> QED
  BY <1>1, <1>2 DEF Agrees, Fixed, Lost, Shown, Columns

LEMMA ExecuteSqliteKeeps ==
  ASSUME StoreTyped, Partial, NEW c \in Callers, ExecuteSqlite(c)
  PROVE  StoreTyped' /\ Partial'
<1>1. PICK r \in DOMAIN calls[c].todo :
         /\ open' = [open EXCEPT ![r] = Append(@, Written(r, calls[c].todo[r]))]
         /\ calls' = [calls EXCEPT ![c].todo = Without(@, {r}), ![c].done = @ \cup {r}]
  BY DEF ExecuteSqlite
<1>2. r \in Records /\ calls[c].todo[r] \in RowsOf(r) /\ calls[c] \in StoreCall
  BY DEF StoreTyped, StoreCall, Todos
<1>3. PICK w : w = Written(r, calls[c].todo[r])
  OBVIOUS
<1>4. w \in RowsOf(r)
  BY <1>2, <1>3, WrittenSays
<1>5. open' = [x \in Records |-> open'[x]] /\ \A x \in Records : open'[x] \in Seq(RowsOf(x))
  <2>1. PICK s : s = Append(open[r], w)
    OBVIOUS
  <2>2. s \in Seq(RowsOf(r))
    BY <1>2, <1>4, <2>1 DEF StoreTyped
  <2>3. open = [x \in Records |-> open[x]] /\ \A x \in Records : open[x] \in Seq(RowsOf(x))
    BY DEF StoreTyped
  <2>4. open' = [open EXCEPT ![r] = s]
    BY <1>1, <1>3, <2>1
  <2>5. open' = [x \in Records |-> IF x = r THEN s ELSE open[x]]
    BY <2>3, <2>4
  <2> QED
    BY <2>2, <2>3, <2>5
<1>6. PICK k : k = [todo |-> Without(calls[c].todo, {r}), done |-> calls[c].done \cup {r}, raised |-> calls[c].raised]
  OBVIOUS
<1>7. calls[c].done \cup {r} \in SUBSET Records /\ calls[c].raised \in BOOLEAN
  BY <1>2 DEF StoreCall
<1>8. calls' = [calls EXCEPT ![c] = k]
  <2>1. PICK e \in StoreCall : e = calls[c]
    BY <1>2
  <2>3. PICK g \in Todos, d \in SUBSET Records : g = Without(e.todo, {r}) /\ d = e.done \cup {r}
    BY <1>2, WithoutTyped DEF StoreCall
  <2>4. [e EXCEPT !.todo = g, !.done = d] = [todo |-> g, done |-> d, raised |-> e.raised]
    BY CallSet
  <2>2. [e EXCEPT !.todo = Without(@, {r}), !.done = @ \cup {r}] = k
    BY <1>6, <2>1, <2>3, <2>4
  <2> QED
    BY <1>1, <2>1, <2>2 DEF StoreTyped
<1>9. /\ calls' \in [Callers -> StoreCall]
      /\ \A d \in Callers : /\ DOMAIN calls'[d].todo \subseteq DOMAIN calls[d].todo
                            /\ \A x \in DOMAIN calls'[d].todo : /\ calls'[d].todo[x] = calls[d].todo[x]
                                                                /\ calls'[d].todo[x] \in RowsOf(x)
  BY <1>2, <1>6, <1>7, <1>8, FewerRows
<1>10. backend = "sqlite" /\ UNCHANGED <<scope, backend, disk, count>>
  BY DEF ExecuteSqlite
<1>11. StoreTyped'
  BY <1>5, <1>9, <1>10, Constant DEF StoreTyped
<1>12. Partial'
  BY <1>10 DEF Partial
<1> QED
  BY <1>11, <1>12

\* A caller whose save is over, or given up.
LEMMA CallOver ==
  ASSUME StoreTyped, NEW c \in Callers, NEW raised \in BOOLEAN, NEW k,
         k = [todo |-> Nothing, done |-> {}, raised |-> raised], calls' = [calls EXCEPT ![c] = k]
  PROVE  /\ calls' \in [Callers -> StoreCall]
         /\ \A d \in Callers : /\ DOMAIN calls'[d].todo \subseteq DOMAIN calls[d].todo
                               /\ \A r \in DOMAIN calls'[d].todo : /\ calls'[d].todo[r] = calls[d].todo[r]
                                                                   /\ calls'[d].todo[r] \in RowsOf(r)
<1>1. Without(calls[c].todo, Records) = Nothing
  <2>1. DOMAIN calls[c].todo \ Records = {}
    BY DEF StoreTyped, StoreCall, Todos
  <2> QED
    BY <2>1 DEF Without, Nothing
<1> QED
  BY <1>1, FewerRows

LEMMA CommitKeeps ==
  ASSUME StoreTyped, Partial, NEW c \in Callers, Commit(c)
  PROVE  StoreTyped' /\ Partial'
<1>1. /\ backend = "sqlite" /\ UNCHANGED <<scope, backend, count>>
      /\ disk' = [r \in Records |-> Latest(Stored(r))] /\ open' = [r \in Records |-> <<>>]
      /\ calls' = [calls EXCEPT ![c] = Idle]
  BY DEF Commit
<1>2. \A r \in Records : Latest(Stored(r)) \in Maybe(r)
  BY StoredTyped
<1>3. \A r \in Records : disk'[r] \in Maybe(r) /\ open'[r] \in Seq(RowsOf(r))
  BY <1>1, <1>2
<1>4. /\ calls' \in [Callers -> StoreCall]
      /\ \A d \in Callers : \A r \in DOMAIN calls'[d].todo : calls'[d].todo[r] \in RowsOf(r)
  BY <1>1, CallOver DEF Idle
<1>5. StoreTyped'
  BY <1>1, <1>3, <1>4, Constant DEF StoreTyped
<1> QED
  BY <1>1, <1>5 DEF Partial

\* ReturnPostgres, Fail
LEMMA OverKeeps ==
  ASSUME StoreTyped, Partial, NEW c \in Callers, NEW k \in {Idle, Failed},
         calls' = [calls EXCEPT ![c] = k], UNCHANGED <<scope, backend, disk, open, count>>
  PROVE  StoreTyped' /\ Partial'
<1>1. PICK raised \in BOOLEAN : k = [todo |-> Nothing, done |-> {}, raised |-> raised]
  <2>1. CASE k = Idle
    BY <2>1 DEF Idle
  <2>2. CASE k = Failed
    BY <2>2 DEF Failed, Idle
  <2> QED
    BY <2>1, <2>2
<1>2. /\ calls' \in [Callers -> StoreCall]
      /\ \A d \in Callers : /\ DOMAIN calls'[d].todo \subseteq DOMAIN calls[d].todo
                            /\ \A r \in DOMAIN calls'[d].todo : /\ calls'[d].todo[r] = calls[d].todo[r]
                                                                /\ calls'[d].todo[r] \in RowsOf(r)
  BY <1>1, CallOver
<1>3. StoreTyped'
  BY <1>2, Constant DEF StoreTyped
<1>4. Partial'
  BY <1>2, FewerRowsKeep DEF Partial
<1> QED
  BY <1>3, <1>4

LEMMA NothingTyped ==
  Nothing \in Todos /\ DOMAIN Nothing = {}
<1>1. PICK U : U = UNION {RowsOf(r) : r \in Records}
  OBVIOUS
<1>2. Nothing \in [{} -> U] /\ DOMAIN Nothing = {}
  BY DEF Nothing
<1> QED
  BY <1>1, <1>2 DEF Todos

LEMMA StopKeeps ==
  ASSUME StoreTyped, Partial, Stop
  PROVE  StoreTyped' /\ Partial'
<1>1. Idle \in StoreCall /\ DOMAIN Idle.todo = {}
  BY NothingTyped DEF Idle, StoreCall
<1>2. calls' \in [Callers -> StoreCall] /\ \A d \in Callers : DOMAIN calls'[d].todo = {}
  BY <1>1 DEF Stop
<1>3. StoreTyped'
  BY <1>2, Constant DEF StoreTyped, Stop
<1>4. Partial'
  BY <1>2 DEF Partial, Stop
<1> QED
  BY <1>3, <1>4

LEMMA ExecutePostgresKeeps ==
  ASSUME StoreTyped, Partial, NEW c \in Callers, ExecutePostgres(c)
  PROVE  /\ StoreTyped' /\ Partial'
         /\ \A r \in DOMAIN calls[c].todo : Seen(r, disk'[r]) = Seen(r, calls[c].todo[r])
<1>1. PICK todo : todo = calls[c].todo
  OBVIOUS
<1>2. DOMAIN todo \in SUBSET Records /\ (\A r \in DOMAIN todo : todo[r] \in RowsOf(r)) /\ calls[c] \in StoreCall
  BY <1>1 DEF StoreTyped, StoreCall, Todos
<1>3. /\ backend = "postgres" /\ UNCHANGED <<scope, backend, open, count>>
      /\ disk' = [r \in Records |-> IF r \in DOMAIN todo THEN Merged(r, disk[r], Written(r, todo[r])) ELSE disk[r]]
      /\ calls' = [calls EXCEPT ![c].todo = Nothing, ![c].done = DOMAIN todo]
  BY <1>1 DEF ExecutePostgres
<1>4. ASSUME NEW r \in DOMAIN todo
      PROVE  /\ disk'[r] \in RowsOf(r) /\ Seen(r, disk'[r]) = Seen(r, todo[r])
             /\ disk[r] # None => \A x \in Fixed(r) : disk'[r][x] = disk[r][x]
  <2>1. PICK old, row, new : old = disk[r] /\ row = todo[r] /\ new = Merged(r, old, Written(r, row))
    OBVIOUS
  <2>2. r \in Records /\ row \in RowsOf(r) /\ (old \in RowsOf(r) \/ old = None)
    BY <1>2, <2>1 DEF StoreTyped, Maybe
  <2>3. old # None => Agrees(r, row, old)
    BY <1>1, <1>3, <2>1 DEF Partial
  <2>4. /\ new \in RowsOf(r) /\ Seen(r, new) = Seen(r, row)
        /\ old # None => \A x \in Fixed(r) : new[x] = old[x]
    BY <1>3, <2>1, <2>2, <2>3, MergedSays
  <2>5. disk'[r] = new
    BY <1>2, <1>3, <2>1
  <2> QED
    BY <2>1, <2>4, <2>5
<1>5. \A r \in Records : disk'[r] \in Maybe(r)
  BY <1>3, <1>4 DEF StoreTyped, Maybe
<1>6. calls' = [calls EXCEPT ![c] = [todo |-> Nothing, done |-> DOMAIN todo, raised |-> calls[c].raised]]
  <2>1. PICK e \in StoreCall : e = calls[c]
    BY <1>2
  <2>2. PICK D \in SUBSET Records : D = DOMAIN todo
    BY <1>2
  <2>3. [e EXCEPT !.todo = Nothing, !.done = D] = [todo |-> Nothing, done |-> D, raised |-> e.raised]
    BY NothingTyped, CallSet
  <2> QED
    BY <1>3, <2>1, <2>2, <2>3 DEF StoreTyped
<1>7. Without(todo, DOMAIN todo) = Nothing
  BY DEF Without, Nothing
<1>8. /\ calls' \in [Callers -> StoreCall]
      /\ \A d \in Callers : /\ DOMAIN calls'[d].todo \subseteq DOMAIN calls[d].todo
                            /\ \A r \in DOMAIN calls'[d].todo : /\ calls'[d].todo[r] = calls[d].todo[r]
                                                                /\ calls'[d].todo[r] \in RowsOf(r)
  <2>1. calls[c].raised \in BOOLEAN
    BY <1>2 DEF StoreCall
  <2> QED
    BY <1>1, <1>2, <1>6, <1>7, <2>1, FewerRows
<1>9. StoreTyped'
  BY <1>3, <1>5, <1>8, Constant DEF StoreTyped
<1>10. calls'[c].todo = Nothing
  BY <1>6 DEF StoreTyped
<1>11. ASSUME NEW d \in Callers, NEW r \in DOMAIN calls'[d].todo, disk'[r] # None
       PROVE  Agrees(r, calls[d].todo[r], disk[r])'
  <2>1. PICK row, new : row = calls'[d].todo[r] /\ new = disk'[r]
    OBVIOUS
  <2>2. r \in Records /\ r \in DOMAIN calls[d].todo /\ row = calls[d].todo[r] /\ d # c
    BY <1>8, <1>10, <2>1, NothingTyped DEF StoreTyped, StoreCall, Todos
  <2>3. CASE r \notin DOMAIN todo
    <3>1. new = disk[r]
      BY <1>3, <2>1, <2>2, <2>3
    <3>2. Agrees(r, row, new)
      BY <1>3, <1>11, <2>1, <2>2, <3>1 DEF Partial
    <3> QED
      BY <1>3, <2>1, <3>2, AgreesNext
  <2>4. CASE r \in DOMAIN todo /\ r[1] = "candles"
    <3>1. Agrees(r, row, new)
      BY <2>2, <2>4, CandlesAreReplaced DEF Agrees
    <3> QED
      BY <1>3, <2>1, <3>1, AgreesNext
  <2>5. CASE r \in DOMAIN todo /\ r[1] # "candles"
    <3>1. disk[r] # None
      BY <1>1, <1>3, <2>2, <2>5 DEF Partial
    <3>2. Agrees(r, row, disk[r])
      BY <1>3, <2>2, <3>1 DEF Partial
    <3>3. Agrees(r, row, new)
      BY <1>4, <2>1, <2>5, <3>1, <3>2 DEF Agrees
    <3> QED
      BY <1>3, <2>1, <3>3, AgreesNext
  <2> QED
    BY <2>3, <2>4, <2>5
<1>12. ASSUME NEW d \in Callers, NEW e \in Callers, NEW r \in DOMAIN calls'[d].todo \cap DOMAIN calls'[e].todo,
              disk'[r] = None, r[1] # "candles"
       PROVE  d = e
  <2>1. r \in Records /\ r \in DOMAIN calls[d].todo /\ r \in DOMAIN calls[e].todo
    BY <1>8, <1>12 DEF StoreTyped, StoreCall, Todos
  <2>2. r \notin DOMAIN todo
    BY <1>4, <1>12, <2>1, NoneIsNoRow
  <2> QED
    BY <1>3, <1>12, <2>1, <2>2 DEF Partial
<1>13. Partial'
  BY <1>3, <1>11, <1>12 DEF Partial
<1> QED
  BY <1>1, <1>4, <1>9, <1>13

LEMMA StoreInvariant ==
  StoreSpec => [](StoreTyped /\ Partial)
<1>1. StoreInit => StoreTyped /\ Partial
  <2> SUFFICES ASSUME StoreInit PROVE StoreTyped /\ Partial
    OBVIOUS
  <2>1. Idle \in StoreCall /\ DOMAIN Idle.todo = {}
    BY NothingTyped DEF Idle, StoreCall
  <2>2. calls \in [Callers -> StoreCall] /\ \A c \in Callers : DOMAIN calls[c].todo = {}
    BY <2>1 DEF StoreInit
  <2>3. StoreTyped
    BY <2>2, StoreAssumption DEF StoreTyped, StoreInit, Maybe
  <2>4. Partial
    BY <2>2 DEF Partial, StoreInit
  <2> QED
    BY <2>3, <2>4
<1>2. StoreTyped /\ Partial /\ [StoreNext]_storeVars => StoreTyped' /\ Partial'
  <2> SUFFICES ASSUME StoreTyped, Partial, [StoreNext]_storeVars PROVE StoreTyped' /\ Partial'
    OBVIOUS
  <2>1. CASE UNCHANGED storeVars
    <3>1. StoreTyped'
      BY <2>1, Constant DEF storeVars, StoreTyped
    <3>2. Partial'
      BY <2>1, FewerRowsKeep DEF storeVars, Partial
    <3> QED
      BY <3>1, <3>2
  <2>2. CASE Stop
    BY <2>2, StopKeeps
  <2>3. ASSUME NEW c \in Callers, NEW r \in scope, SaveNew(c, r) \/ SaveAgain(c, r)
        PROVE  StoreTyped' /\ Partial'
    BY <2>3, SaveNewKeeps, SaveAgainKeeps
  <2>4. ASSUME NEW c \in Callers, UpsertCandles(c) \/ Continue(c)
        PROVE  StoreTyped' /\ Partial'
    <3>1. CASE ReturnPostgres(c)
      BY <3>1, OverKeeps DEF ReturnPostgres
    <3> QED
      BY <2>4, <3>1, UpsertKeeps, ExecuteSqliteKeeps, CommitKeeps, ExecutePostgresKeeps DEF Continue
  <2>5. ASSUME NEW c \in Callers, Fail(c)
        PROVE  StoreTyped' /\ Partial'
    BY <2>5, OverKeeps DEF Fail
  <2> QED
    BY <2>1, <2>2, <2>3, <2>4, <2>5 DEF StoreNext
<1> QED
  BY <1>1, <1>2, PTL DEF StoreSpec

-----------------------------------------------------------------------------
(* What a reader sees. *)

Look(r, s) == [i \in 1 .. Len(s) |-> Seen(r, s[i])]
Sees(call) == [todo |-> [r \in DOMAIN call.todo |-> Seen(r, call.todo[r])],
               done |-> call.done, raised |-> call.raised]
Sights(r) == {Seen(r, row) : row \in Maybe(r)}

LEMMA LookTyped ==
  ASSUME NEW r, NEW s \in Seq(Maybe(r))
  PROVE  /\ Look(r, s) \in Seq(Sights(r)) /\ Len(Look(r, s)) = Len(s)
         /\ \A i \in 1 .. Len(s) : Look(r, s)[i] = Seen(r, s[i])
         /\ s # <<>> => Latest(Look(r, s)) = Seen(r, Latest(s))
<1>1. PICK v : v = Look(r, s)
  OBVIOUS
<1>2. Len(s) \in Nat /\ \A i \in 1 .. Len(s) : s[i] \in Maybe(r)
  OBVIOUS
<1>3. v = [i \in 1 .. Len(s) |-> Seen(r, s[i])]
  BY <1>1 DEF Look
<1>4. v \in [1 .. Len(s) -> Sights(r)]
  BY <1>2, <1>3 DEF Sights
<1>5. v \in Seq(Sights(r)) /\ Len(v) = Len(s)
  BY <1>2, <1>4
<1>6. \A i \in 1 .. Len(s) : v[i] = Seen(r, s[i])
  BY <1>3
<1>7. s # <<>> => Len(s) \in 1 .. Len(s)
  BY <1>2
<1>8. s # <<>> => Latest(v) = Seen(r, Latest(s))
  BY <1>5, <1>6, <1>7 DEF Latest
<1> QED
  BY <1>1, <1>5, <1>6, <1>8

LEMMA LookAppend ==
  ASSUME NEW r, NEW s \in Seq(Maybe(r)), NEW row \in Maybe(r)
  PROVE  Look(r, Append(s, row)) = Append(Look(r, s), Seen(r, row))
<1>1. PICK t, v, w, x : /\ t = Append(s, row) /\ x = Seen(r, row)
                        /\ v = Look(r, s) /\ w = Look(r, t)
  OBVIOUS
<1>2. t \in Seq(Maybe(r)) /\ x \in Sights(r)
  BY <1>1 DEF Sights
<1>3. /\ v \in Seq(Sights(r)) /\ Len(v) = Len(s) /\ \A i \in 1 .. Len(s) : v[i] = Seen(r, s[i])
      /\ w \in Seq(Sights(r)) /\ Len(w) = Len(t) /\ \A i \in 1 .. Len(t) : w[i] = Seen(r, t[i])
  BY <1>1, <1>2, LookTyped
<1>4. Len(t) = Len(s) + 1 /\ Len(s) \in Nat /\ t[Len(s) + 1] = row /\ \A i \in 1 .. Len(s) : t[i] = s[i]
  BY <1>1
<1>5. PICK u : u = Append(v, x)
  OBVIOUS
<1>6. u \in Seq(Sights(r)) /\ Len(u) = Len(s) + 1 /\ u[Len(s) + 1] = x /\ \A i \in 1 .. Len(s) : u[i] = v[i]
  BY <1>2, <1>3, <1>4, <1>5
<1>7. \A i \in 1 .. Len(s) + 1 : u[i] = w[i]
  BY <1>1, <1>3, <1>4, <1>6
<1>8. u = w
  BY <1>3, <1>4, <1>6, <1>7, SeqEqual
<1> QED
  BY <1>1, <1>5, <1>8

LEMMA LookOne ==
  ASSUME NEW r, NEW row
  PROVE  Look(r, <<row>>) = <<Seen(r, row)>>
BY DEF Look

LEMMA SeenNothing ==
  ASSUME NEW r \in Records, NEW row \in Maybe(r)
  PROVE  Seen(r, Read(r, row)) = Seen(r, row)
<1>1. CASE row = None
  BY <1>1 DEF Read
<1>2. CASE row # None
  BY <1>2, ReadSays DEF Maybe
<1> QED
  BY <1>1, <1>2

LEMMA SeenStored ==
  StoreTyped => SeenVersions = [r \in Records |-> Look(r, Stored(r))]
<1> SUFFICES ASSUME StoreTyped PROVE SeenVersions = [r \in Records |-> Look(r, Stored(r))]
  OBVIOUS
<1>1. ASSUME NEW r \in Records
      PROVE  [i \in 1 .. Len(Stored(r)) |-> Seen(r, Read(r, Stored(r)[i]))] = Look(r, Stored(r))
  <2>1. PICK s : s = Stored(r)
    OBVIOUS
  <2>2. s \in Seq(Maybe(r))
    BY <2>1, StoredTyped
  <2>3. \A i \in 1 .. Len(s) : Seen(r, Read(r, s[i])) = Seen(r, s[i])
    BY <2>2, SeenNothing
  <2> QED
    BY <2>1, <2>3 DEF Look
<1> QED
  BY <1>1 DEF SeenVersions

\* What is seen next, in the same database.
LEMMA SeenNext ==
  ASSUME StoreTyped', backend' = backend
  PROVE  /\ SeenVersions' = [r \in Records |-> Look(r, <<disk'[r]>> \o open'[r])]
         /\ SeenCalls' = [c \in Callers |-> Sees(calls'[c])]
<1>1. (StoreTyped => SeenVersions = [r \in Records |-> Look(r, Stored(r))])'
  BY SeenStored, PTL
<1>2. \A r, row : Seen(r, row)' = Seen(r, row)
  BY DEF Seen, Lost
<1>3. SeenVersions' = [r \in Records |-> Look(r, Stored(r))']
  BY <1>1
<1>4. ASSUME NEW r \in Records
      PROVE  Look(r, Stored(r))' = Look(r, <<disk'[r]>> \o open'[r])
  BY DEF Look, Stored, Seen, Lost
<1>5. SeenCalls' = [c \in Callers |-> Sees(calls'[c])]
  BY DEF SeenCalls, Sees, Seen, Lost
<1> QED
  BY <1>3, <1>4, <1>5

LEMMA IdleAndFailed ==
  /\ Idle = [todo |-> Nothing, done |-> {}, raised |-> FALSE]
  /\ Failed = [todo |-> Nothing, done |-> {}, raised |-> TRUE]
<1>1. Idle = [todo |-> Nothing, done |-> {}, raised |-> FALSE]
  BY DEF Idle
<1>2. PICK n, e : n = Nothing /\ e = [todo |-> n, done |-> {}, raised |-> FALSE]
  OBVIOUS
<1>3. e \in [todo : {n}, done : {{}}, raised : BOOLEAN]
  BY <1>2
<1>4. PICK yes \in BOOLEAN : yes = TRUE
  OBVIOUS
<1>5. [e EXCEPT !.raised = yes] = [todo |-> e.todo, done |-> e.done, raised |-> yes]
  BY <1>3
<1>6. e.todo = n /\ e.done = {}
  BY <1>2
<1>7. Failed = [e EXCEPT !.raised = yes]
  BY <1>1, <1>2, <1>4 DEF Failed
<1> QED
  BY <1>1, <1>2, <1>4, <1>5, <1>6, <1>7

LEMMA SeesOver ==
  /\ Sees(Idle) = Promise!Idle /\ Sees(Failed) = Promise!Failed
  /\ \A call \in StoreCall : Sees(call).todo = Promise!Nothing <=> call.todo = Nothing
<1>1. \A f \in Todos : [r \in DOMAIN f |-> Seen(r, f[r])] = Promise!Nothing <=> f = Nothing
  BY DEF Todos, Nothing, Promise!Nothing
<1>2. Promise!Nothing = Nothing /\ Promise!Idle = Idle /\ Promise!Failed = Failed
  BY DEF Nothing, Idle, Failed, Promise!Nothing, Promise!Idle, Promise!Failed
<1>3. ASSUME NEW raised \in BOOLEAN, NEW k, k = [todo |-> Nothing, done |-> {}, raised |-> raised]
      PROVE  Sees(k) = k
  <2>1. [r \in DOMAIN Nothing |-> Seen(r, Nothing[r])] = Nothing
    BY <1>1, <1>2, NothingTyped
  <2>2. k.todo = Nothing /\ k.done = {} /\ k.raised = raised
    BY <1>3
  <2> QED
    BY <1>3, <2>1, <2>2 DEF Sees
<1>4. Idle = [todo |-> Nothing, done |-> {}, raised |-> FALSE] /\ Failed = [todo |-> Nothing, done |-> {}, raised |-> TRUE]
  BY IdleAndFailed
<1>6. Sees(Idle) = Promise!Idle /\ Sees(Failed) = Promise!Failed
  BY <1>2, <1>3, <1>4
<1> QED
  BY <1>1, <1>6 DEF Sees, StoreCall

\* With PostgresDataStore a save is one statement.
OneStatement == backend = "postgres" => \A c \in Callers : calls[c].todo = Nothing \/ calls[c].done = {}

LEMMA StatementInvariant ==
  StoreSpec => []OneStatement
<1>1. StoreInit => OneStatement
  BY DEF StoreInit, OneStatement, Idle
<1>2. StoreTyped /\ OneStatement /\ [StoreNext]_storeVars => OneStatement'
  <2> SUFFICES ASSUME StoreTyped, OneStatement, [StoreNext]_storeVars PROVE OneStatement'
    OBVIOUS
  <2>1. ASSUME NEW c \in Callers, NEW k, k.todo = Nothing \/ k.done = {}, calls' = [calls EXCEPT ![c] = k],
               backend' = backend
        PROVE  OneStatement'
    BY <2>1 DEF OneStatement, StoreTyped
  <2>2. CASE UNCHANGED storeVars
    BY <2>2 DEF storeVars, OneStatement
  <2>3. CASE Stop
    BY <2>3 DEF Stop, OneStatement, Idle
  <2>4. ASSUME NEW c \in Callers, NEW todo, Call(c, todo)
        PROVE  OneStatement'
    <3>1. [Idle EXCEPT !.todo = todo].done = {}
      BY DEF Idle
    <3> QED
      BY <2>1, <2>4, <3>1 DEF Call
  <2>5. ASSUME NEW c \in Callers, Commit(c) \/ ReturnPostgres(c) \/ Fail(c)
        PROVE  OneStatement'
    <3>1. Idle.todo = Nothing /\ Failed.todo = Nothing
      BY DEF Idle, Failed
    <3> QED
      BY <2>1, <2>5, <3>1 DEF Commit, ReturnPostgres, Fail
  <2>6. ASSUME NEW c \in Callers, ExecuteSqlite(c)
        PROVE  OneStatement'
    BY <2>6 DEF ExecuteSqlite, OneStatement
  <2>7. ASSUME NEW c \in Callers, ExecutePostgres(c)
        PROVE  OneStatement'
    BY <2>7 DEF ExecutePostgres, OneStatement, StoreTyped, StoreCall
  <2> QED
    BY <2>2, <2>3, <2>4, <2>5, <2>6, <2>7 DEF StoreNext, Continue, SaveNew, SaveAgain, UpsertCandles
<1> QED
  BY <1>1, <1>2, StoreInvariant, PTL DEF StoreSpec

-----------------------------------------------------------------------------
(* Each step of the store is one that RecordStore allows. *)

LEMMA SeenCallsOf ==
  ASSUME NEW c \in Callers
  PROVE  SeenCalls = [d \in Callers |-> Sees(calls[d])] /\ SeenCalls[c] = Sees(calls[c])
BY DEF SeenCalls, Sees

LEMMA PromiseBegin ==
  ASSUME StoreTyped, StoreTyped', NEW c \in Callers, NEW todo, Call(c, todo), DOMAIN todo # {},
         calls' = [calls EXCEPT ![c] = [todo |-> todo, done |-> {}, raised |-> FALSE]]
  PROVE  Promise!Begin(c)
<1>1. UNCHANGED <<backend, disk, open>> /\ calls[c] \in {Idle, Failed}
  BY DEF Call, Idling
<1>2. /\ SeenVersions' = [r \in Records |-> Look(r, <<disk'[r]>> \o open'[r])]
      /\ SeenCalls' = [d \in Callers |-> Sees(calls'[d])]
  BY <1>1, SeenNext
<1>3. UNCHANGED SeenVersions
  BY <1>1, <1>2, SeenStored DEF Stored
<1>4. SeenCalls[c] \in {Promise!Idle, Promise!Failed}
  BY <1>1, SeesOver, SeenCallsOf
<1>5. PICK t : t = [r \in DOMAIN todo |-> Seen(r, todo[r])]
  OBVIOUS
<1>6. SeenCalls'[c] = [todo |-> t, done |-> {}, raised |-> FALSE]
  BY <1>2, <1>5 DEF Sees, StoreTyped
<1>7. SeenCalls'[c].todo = t /\ t # Promise!Nothing
  BY <1>5, <1>6 DEF Promise!Nothing
<1>8. [Promise!Idle EXCEPT !.todo = t] = [todo |-> t, done |-> {}, raised |-> FALSE]
  <2>1. PICK n : n = Promise!Nothing
    OBVIOUS
  <2>2. Promise!Idle \in [todo : {n, t}, done : {{}}, raised : {FALSE}]
    BY <2>1 DEF Promise!Idle
  <2>3. PICK e \in [todo : {n, t}, done : {{}}, raised : {FALSE}] : e = Promise!Idle
    BY <2>2
  <2>4. [e EXCEPT !.todo = t] = [todo |-> t, done |-> e.done, raised |-> e.raised]
    OBVIOUS
  <2>5. e.done = {} /\ e.raised = FALSE
    OBVIOUS
  <2> QED
    BY <2>3, <2>4, <2>5
<1>9. SeenCalls' = [SeenCalls EXCEPT ![c] = SeenCalls'[c]]
  BY <1>2, SeenCallsOf DEF StoreTyped
<1> QED
  BY <1>3, <1>4, <1>6, <1>7, <1>8, <1>9 DEF Promise!Begin, Promise!Idling

SetCall(k, todo, done) == [k EXCEPT !.todo = todo, !.done = done]

LEMMA SeenSet ==
  ASSUME NEW t, NEW g, NEW D, NEW d, NEW b, NEW k, k = [todo |-> t, done |-> D, raised |-> b]
  PROVE  SetCall(k, g, d) = [todo |-> g, done |-> d, raised |-> b]
<1>1. k \in [todo : {t, g}, done : {D, d}, raised : {b}]
  OBVIOUS
<1>2. PICK f : f = [k EXCEPT !.todo = g]
  OBVIOUS
<1>3. f = [todo |-> g, done |-> k.done, raised |-> k.raised]
  BY <1>1, <1>2
<1>4. f \in [todo : {t, g}, done : {D, d}, raised : {b}]
  BY <1>1, <1>3
<1>5. [f EXCEPT !.done = d] = [todo |-> f.todo, done |-> d, raised |-> f.raised]
  BY <1>4
<1>6. k.raised = b
  OBVIOUS
<1> QED
  BY <1>2, <1>3, <1>5, <1>6 DEF SetCall

LEMMA PromisePut ==
  ASSUME StoreTyped, StoreTyped', NEW c \in Callers, NEW S \in SUBSET DOMAIN calls[c].todo, S # {},
         backend' = backend,
         calls' = [calls EXCEPT ![c] = [todo |-> Without(calls[c].todo, S), done |-> calls[c].done \cup S,
                                        raised |-> calls[c].raised]],
         \A r \in S : Look(r, <<disk'[r]>> \o open'[r])
                         \in Promise!Since(Append(Look(r, Stored(r)), Seen(r, calls[c].todo[r]))),
         \A r \in Records \ S : disk'[r] = disk[r] /\ open'[r] = open[r]
  PROVE  Promise!Put(c)
<1>1. /\ SeenVersions' = [r \in Records |-> Look(r, <<disk'[r]>> \o open'[r])]
      /\ SeenCalls' = [d \in Callers |-> Sees(calls'[d])]
  BY SeenNext
<1>2. SeenVersions = [r \in Records |-> Look(r, Stored(r))]
  BY SeenStored
<1>3. PICK todo, done, raised : calls[c] = [todo |-> todo, done |-> done, raised |-> raised]
  BY DEF StoreTyped, StoreCall
<1>4. calls[c].todo = todo /\ calls[c].done = done /\ calls[c].raised = raised
  BY <1>3
<1>5. done \in SUBSET Records /\ raised \in BOOLEAN /\ done \cup S \in SUBSET Records /\ DOMAIN todo \in SUBSET Records
  BY <1>4 DEF StoreTyped, StoreCall, Todos
<1>6. PICK t : t = [r \in DOMAIN todo |-> Seen(r, todo[r])]
  OBVIOUS
<1>7. PICK g : g = [r \in DOMAIN todo \ S |-> Seen(r, todo[r])]
  OBVIOUS
<1>8. SeenCalls[c] = [todo |-> t, done |-> done, raised |-> raised]
  BY <1>4, <1>6, SeenCallsOf DEF Sees
<1>9. Promise!Without(t, S) = g
  BY <1>6, <1>7 DEF Promise!Without
<1>10. PICK f : f = Without(todo, S)
  OBVIOUS
<1>11. [r \in DOMAIN f |-> Seen(r, f[r])] = g
  BY <1>7, <1>10 DEF Without
<1>12. calls'[c] = [todo |-> f, done |-> done \cup S, raised |-> raised]
  BY <1>4, <1>10 DEF StoreTyped
<1>13. SeenCalls'[c] = [todo |-> g, done |-> done \cup S, raised |-> raised]
  <2>1. PICK call : call = calls'[c]
    OBVIOUS
  <2>2. call.todo = f /\ call.done = done \cup S /\ call.raised = raised
    BY <1>12, <2>1
  <2>3. Sees(call) = [todo |-> g, done |-> done \cup S, raised |-> raised]
    BY <1>11, <2>2 DEF Sees
  <2> QED
    BY <1>1, <2>1, <2>3
<1>14. SeenCalls' = [SeenCalls EXCEPT ![c] = SeenCalls'[c]]
  BY <1>1, SeenCallsOf DEF StoreTyped
<1>15. SeenCalls' = [SeenCalls EXCEPT ![c].todo = Promise!Without(@, S), ![c].done = @ \cup S]
  <2>1. PICK k : k = SeenCalls[c]
    OBVIOUS
  <2>2. PICK d \in SUBSET Records : d = done \cup S
    BY <1>5
  <2>7. k = [todo |-> t, done |-> done, raised |-> raised]
    BY <1>8, <2>1
  <2>3. SetCall(k, g, d) = [todo |-> g, done |-> d, raised |-> raised]
    BY <2>7, SeenSet
  <2>4. k.todo = t /\ k.done = done
    BY <1>8, <2>1
  <2>5. [k EXCEPT !.todo = Promise!Without(@, S), !.done = @ \cup S] = SeenCalls'[c]
    BY <1>9, <1>13, <2>2, <2>3, <2>4 DEF SetCall
  <2>6. SeenCalls = [e \in Callers |-> SeenCalls[e]]
    BY SeenCallsOf
  <2> QED
    BY <1>14, <2>1, <2>5, <2>6
<1>16. S \in SUBSET DOMAIN SeenCalls[c].todo /\ \A r \in S : SeenCalls[c].todo[r] = Seen(r, calls[c].todo[r])
  BY <1>4, <1>6, <1>8
<1>17. \A r \in Records :
          SeenVersions'[r] \in IF r \in S THEN Promise!Since(Append(SeenVersions[r], SeenCalls[c].todo[r]))
                               ELSE {SeenVersions[r]}
  BY <1>1, <1>2, <1>16 DEF Stored
<1>18. SeenVersions' = [r \in Records |-> SeenVersions'[r]]
  BY <1>1
<1> QED
  BY <1>15, <1>16, <1>17, <1>18 DEF Promise!Put

LEMMA AfterAppend ==
  ASSUME NEW T, NEW d \in T, NEW s \in Seq(T), NEW w \in T
  PROVE  <<d>> \o Append(s, w) = Append(<<d>> \o s, w)
<1>1. PICK e, f : e = <<d>> /\ f = <<w>>
  OBVIOUS
<1>2. e \in Seq(T) /\ f \in Seq(T)
  BY <1>1
<1>3. Append(s, w) = s \o f
  BY <1>1, AppendIsConcat
<1>4. Append(e \o s, w) = (e \o s) \o f
  BY <1>1, <1>2, ConcatProperties, AppendIsConcat
<1>5. (e \o s) \o f = e \o (s \o f)
  BY <1>2, ConcatAssociative
<1> QED
  BY <1>1, <1>3, <1>4, <1>5

LEMMA SinceAll ==
  ASSUME NEW T, NEW s \in Seq(T), s # <<>>
  PROVE  s \in Promise!Since(s)
<1>1. 1 \in 1 .. Len(s)
  OBVIOUS
<1>2. SubSeq(s, 1, Len(s)) = s
  BY SubSeqFull
<1> QED
  BY <1>1, <1>2 DEF Promise!Since

LEMMA SinceLast ==
  ASSUME NEW T, NEW s \in Seq(T), s # <<>>
  PROVE  <<Latest(s)>> \in Promise!Since(s)
<1>1. Len(s) \in 1 .. Len(s)
  OBVIOUS
<1>2. SubSeq(s, Len(s), Len(s)) = <<s[Len(s)]>>
  <2>1. PICK n : n = Len(s)
    OBVIOUS
  <2>2. n \in 1 .. Len(s)
    BY <1>1, <2>1
  <2>3. SubSeq(s, n, n) = <<s[n]>> \o SubSeq(s, n + 1, n)
    BY <2>1, <2>2, SubSeqRecursiveFirst
  <2>4. SubSeq(s, n + 1, n) = <<>>
    BY <2>2, SubSeqEmpty
  <2>5. <<s[n]>> \in Seq(T)
    BY <2>2
  <2>6. <<s[n]>> \o <<>> = <<s[n]>>
    BY <2>5, ConcatEmptySeq
  <2> QED
    BY <2>1, <2>3, <2>4, <2>6
<1> QED
  BY <1>1, <1>2 DEF Promise!Since, Latest

LEMMA PromiseExecuteSqlite ==
  ASSUME StoreTyped, StoreTyped', NEW c \in Callers, ExecuteSqlite(c)
  PROVE  Promise!Put(c)
<1>1. PICK r \in DOMAIN calls[c].todo :
         /\ open' = [open EXCEPT ![r] = Append(@, Written(r, calls[c].todo[r]))]
         /\ calls' = [calls EXCEPT ![c].todo = Without(@, {r}), ![c].done = @ \cup {r}]
  BY DEF ExecuteSqlite
<1>2. r \in Records /\ calls[c].todo[r] \in RowsOf(r) /\ calls[c] \in StoreCall
  BY DEF StoreTyped, StoreCall, Todos
<1>3. backend' = backend /\ disk' = disk
  BY DEF ExecuteSqlite
<1>4. calls' = [calls EXCEPT ![c] = [todo |-> Without(calls[c].todo, {r}), done |-> calls[c].done \cup {r},
                                     raised |-> calls[c].raised]]
  <2>1. PICK e, todo, done, raised : e = calls[c] /\ e = [todo |-> todo, done |-> done, raised |-> raised]
    BY <1>2 DEF StoreCall
  <2>2. e.todo = todo /\ e.done = done /\ e.raised = raised
    BY <2>1
  <2>3. PICK g, d : g = Without(e.todo, {r}) /\ d = e.done \cup {r}
    OBVIOUS
  <2>4. SetCall(e, g, d) = [todo |-> g, done |-> d, raised |-> raised]
    BY <2>1, SeenSet
  <2>5. [e EXCEPT !.todo = Without(@, {r}), !.done = @ \cup {r}] = [todo |-> g, done |-> d, raised |-> e.raised]
    BY <2>2, <2>3, <2>4 DEF SetCall
  <2> QED
    BY <1>1, <2>1, <2>3, <2>5 DEF StoreTyped
<1>5. PICK s, d, w, row : s = open[r] /\ d = disk[r] /\ row = calls[c].todo[r] /\ w = Written(r, row)
  OBVIOUS
<1>6. w \in RowsOf(r) /\ \A x \in Columns(r) : Shown(r, x, w[x]) = Shown(r, x, row[x])
  BY <1>2, <1>5, WrittenSays
<1>7. Seen(r, w) = Seen(r, row)
  <2>1. Seen(r, w) = [x \in Columns(r) \ Lost(r) |-> Shown(r, x, w[x])]
    BY <1>2, <1>6, Says
  <2>2. Seen(r, row) = [x \in Columns(r) \ Lost(r) |-> Shown(r, x, row[x])]
    BY <1>2, <1>5, Says
  <2> QED
    BY <1>6, <2>1, <2>2
<1>8. PICK stored : stored = <<d>> \o s
  OBVIOUS
<1>9. stored = Stored(r) /\ stored \in Seq(Maybe(r)) /\ d \in Maybe(r) /\ s \in Seq(Maybe(r)) /\ w \in Maybe(r)
  BY <1>2, <1>5, <1>6, <1>8, StoredTyped DEF Stored, StoreTyped, Maybe
<1>10. open'[r] = Append(s, w) /\ \A x \in Records \ {r} : open'[x] = open[x]
  BY <1>1, <1>2, <1>5 DEF StoreTyped
<1>11. <<disk'[r]>> \o open'[r] = Append(stored, w)
  BY <1>3, <1>5, <1>8, <1>9, <1>10, AfterAppend
<1>12. PICK v, x : v = Look(r, stored) /\ x = Seen(r, row)
  OBVIOUS
<1>13. v \in Seq(Sights(r)) /\ x \in Sights(r)
  BY <1>2, <1>5, <1>9, <1>12, LookTyped DEF Sights, Maybe
<1>14. Look(r, <<disk'[r]>> \o open'[r]) = Append(v, x)
  BY <1>7, <1>9, <1>11, <1>12, LookAppend
<1>15. Append(v, x) \in Promise!Since(Append(v, x))
  BY <1>13, AppendProperties, SinceAll
<1>16. Look(r, <<disk'[r]>> \o open'[r])
          \in Promise!Since(Append(Look(r, Stored(r)), Seen(r, calls[c].todo[r])))
  BY <1>5, <1>9, <1>12, <1>14, <1>15
<1>17. PICK S \in SUBSET DOMAIN calls[c].todo : S = {r}
  OBVIOUS
<1>18. /\ \A y \in S : Look(y, <<disk'[y]>> \o open'[y])
                         \in Promise!Since(Append(Look(y, Stored(y)), Seen(y, calls[c].todo[y])))
       /\ \A y \in Records \ S : disk'[y] = disk[y] /\ open'[y] = open[y]
       /\ S # {}
  BY <1>3, <1>10, <1>16, <1>17
<1>19. calls' = [calls EXCEPT ![c] = [todo |-> Without(calls[c].todo, S), done |-> calls[c].done \cup S,
                                      raised |-> calls[c].raised]]
  BY <1>4, <1>17
<1> QED
  BY <1>3, <1>18, <1>19, PromisePut

LEMMA PromiseExecutePostgres ==
  ASSUME StoreTyped, Partial, OneStatement, StoreTyped', NEW c \in Callers, ExecutePostgres(c)
  PROVE  Promise!Put(c)
<1>1. PICK todo : todo = calls[c].todo
  OBVIOUS
<1>2. /\ backend = "postgres" /\ UNCHANGED <<backend, open>> /\ todo # Nothing
      /\ disk' = [r \in Records |-> IF r \in DOMAIN todo THEN Merged(r, disk[r], Written(r, todo[r])) ELSE disk[r]]
      /\ calls' = [calls EXCEPT ![c].todo = Nothing, ![c].done = DOMAIN todo]
  BY <1>1 DEF ExecutePostgres
<1>3. /\ calls[c] \in StoreCall /\ DOMAIN todo \in SUBSET Records /\ calls[c].done = {}
      /\ todo = [r \in DOMAIN todo |-> todo[r]]
  BY <1>1, <1>2 DEF StoreTyped, StoreCall, Todos, OneStatement
<1>4. PICK S \in SUBSET DOMAIN todo : S = DOMAIN todo
  OBVIOUS
<1>5. S # {}
  BY <1>2, <1>3, <1>4 DEF Nothing
<1>6. Without(todo, S) = Nothing
  BY <1>4 DEF Without, Nothing
<1>7. calls' = [calls EXCEPT ![c] = [todo |-> Without(calls[c].todo, S), done |-> calls[c].done \cup S,
                                     raised |-> calls[c].raised]]
  <2>1. PICK e, f, done, raised : e = calls[c] /\ e = [todo |-> f, done |-> done, raised |-> raised]
    BY <1>3 DEF StoreCall
  <2>2. e.done = done /\ e.raised = raised
    BY <2>1
  <2>3. SetCall(e, Nothing, S) = [todo |-> Nothing, done |-> S, raised |-> raised]
    BY <2>1, SeenSet
  <2>4. [e EXCEPT !.todo = Nothing, !.done = DOMAIN todo] = [todo |-> Nothing, done |-> S, raised |-> e.raised]
    BY <1>4, <2>2, <2>3 DEF SetCall
  <2>5. calls[c].done \cup S = S
    BY <1>3
  <2> QED
    BY <1>1, <1>2, <1>6, <2>1, <2>4, <2>5 DEF StoreTyped
<1>8. ASSUME NEW r \in S
      PROVE  Look(r, <<disk'[r]>> \o open'[r])
                \in Promise!Since(Append(Look(r, Stored(r)), Seen(r, calls[c].todo[r])))
  <2>1. r \in Records /\ open[r] = <<>> /\ open'[r] = <<>> /\ disk[r] \in Maybe(r) /\ disk'[r] \in Maybe(r)
    BY <1>2, <1>3, <1>4, Constant DEF Partial, StoreTyped
  <2>2. PICK a, b, d : a = Seen(r, disk[r]) /\ b = Seen(r, todo[r]) /\ d = disk'[r]
    OBVIOUS
  <2>3. Seen(r, d) = b
    BY <1>1, <1>4, <2>2, ExecutePostgresKeeps
  <2>4. <<d>> \o <<>> = <<d>>
    <3>1. <<d>> \in Seq(Maybe(r))
      BY <2>1, <2>2
    <3> QED
      BY <3>1, ConcatEmptySeq
  <2>5. Look(r, <<disk'[r]>> \o open'[r]) = <<b>>
    BY <2>1, <2>2, <2>3, <2>4, LookOne
  <2>6. Look(r, Stored(r)) = <<a>>
    BY <2>1, <2>2, StoredTyped, LookOne
  <2>7. PICK s : s = Append(<<a>>, b)
    OBVIOUS
  <2>8. s \in Seq({a, b}) /\ s # <<>> /\ Latest(s) = b
    BY <2>7 DEF Latest
  <2>9. <<b>> \in Promise!Since(s)
    BY <2>8, SinceLast
  <2> QED
    BY <1>1, <2>2, <2>5, <2>6, <2>7, <2>9
<1>9. \A r \in Records \ S : disk'[r] = disk[r] /\ open'[r] = open[r]
  BY <1>2, <1>4
<1> QED
  BY <1>1, <1>2, <1>5, <1>7, <1>8, <1>9, PromisePut

\* A caller that has nothing left to write goes on.
LEMMA PromiseReturn ==
  ASSUME StoreTyped, StoreTyped', NEW c \in Callers, calls[c].todo = Nothing, calls[c].done # {},
         calls' = [calls EXCEPT ![c] = Idle], backend' = backend,
         \A r \in Records : Look(r, <<disk'[r]>> \o open'[r]) = <<Latest(Look(r, Stored(r)))>>
  PROVE  Promise!Return(c)
<1>1. /\ SeenVersions' = [r \in Records |-> Look(r, <<disk'[r]>> \o open'[r])]
      /\ SeenCalls' = [d \in Callers |-> Sees(calls'[d])]
      /\ SeenVersions = [r \in Records |-> Look(r, Stored(r))]
  BY SeenNext, SeenStored
<1>2. SeenCalls[c].todo = Promise!Nothing /\ SeenCalls[c].done # {}
  <2>1. calls[c] \in StoreCall
    BY DEF StoreTyped
  <2>2. PICK call : call = calls[c]
    OBVIOUS
  <2>3. Sees(call).done = call.done
    BY DEF Sees
  <2> QED
    BY <2>1, <2>2, <2>3, SeesOver, SeenCallsOf
<1>3. ASSUME NEW r \in Records
      PROVE  SeenVersions'[r] \in IF r \in SeenCalls[c].done THEN {<<Latest(SeenVersions[r])>>}
                                  ELSE Promise!Since(SeenVersions[r])
  <2>1. PICK v : v = Look(r, Stored(r))
    OBVIOUS
  <2>2. v \in Seq(Sights(r)) /\ v # <<>>
    BY <2>1, StoredTyped, LookTyped
  <2>3. <<Latest(v)>> \in Promise!Since(v)
    BY <2>2, SinceLast
  <2> QED
    BY <1>1, <2>1, <2>3
<1>4. SeenVersions' = [r \in Records |-> SeenVersions'[r]]
  BY <1>1
<1>5. SeenCalls' = [SeenCalls EXCEPT ![c] = Promise!Idle]
  BY <1>1, SeesOver, SeenCallsOf DEF StoreTyped
<1> QED
  BY <1>2, <1>3, <1>4, <1>5 DEF Promise!Return, Promise!Latest, Latest

LEMMA PromiseCommit ==
  ASSUME StoreTyped, StoreTyped', NEW c \in Callers, Commit(c)
  PROVE  Promise!Return(c)
<1>1. /\ calls[c].todo = Nothing /\ calls[c].done # {} /\ calls' = [calls EXCEPT ![c] = Idle] /\ backend' = backend
      /\ disk' = [r \in Records |-> Latest(Stored(r))] /\ open' = [r \in Records |-> <<>>]
  BY DEF Commit
<1>2. ASSUME NEW r \in Records
      PROVE  Look(r, <<disk'[r]>> \o open'[r]) = <<Latest(Look(r, Stored(r)))>>
  <2>1. PICK s, d : s = Stored(r) /\ d = Latest(s)
    OBVIOUS
  <2>2. s \in Seq(Maybe(r)) /\ s # <<>> /\ d \in Maybe(r)
    BY <2>1, StoredTyped
  <2>3. Latest(Look(r, s)) = Seen(r, d)
    BY <2>1, <2>2, LookTyped
  <2>4. <<d>> \o <<>> = <<d>>
    <3>1. <<d>> \in Seq(Maybe(r))
      BY <2>2
    <3> QED
      BY <3>1, ConcatEmptySeq
  <2>5. <<disk'[r]>> \o open'[r] = <<d>>
    BY <1>1, <2>1, <2>4
  <2> QED
    BY <2>1, <2>3, <2>5, LookOne
<1> QED
  BY <1>1, <1>2, PromiseReturn

LEMMA PromiseReturnPostgres ==
  ASSUME StoreTyped, Partial, StoreTyped', NEW c \in Callers, ReturnPostgres(c)
  PROVE  Promise!Return(c)
<1>1. /\ calls[c].todo = Nothing /\ calls[c].done # {} /\ calls' = [calls EXCEPT ![c] = Idle]
      /\ backend = "postgres" /\ UNCHANGED <<backend, disk, open>>
  BY DEF ReturnPostgres
<1>2. ASSUME NEW r \in Records
      PROVE  Look(r, <<disk'[r]>> \o open'[r]) = <<Latest(Look(r, Stored(r)))>>
  <2>1. open[r] = <<>>
    BY <1>1 DEF Partial
  <2>2. Stored(r) = <<disk[r]>> /\ Stored(r) = <<disk'[r]>> \o open'[r]
    BY <1>1, <2>1, StoredTyped DEF Stored
  <2>3. Look(r, Stored(r)) = <<Seen(r, disk[r])>>
    BY <2>2, LookOne
  <2>4. PICK v, a : a = Seen(r, disk[r]) /\ v = <<a>>
    OBVIOUS
  <2>5. Latest(v) = a
    BY <2>4 DEF Latest
  <2> QED
    BY <2>2, <2>3, <2>4, <2>5
<1> QED
  BY <1>1, <1>2, PromiseReturn

LEMMA PromiseFail ==
  ASSUME StoreTyped, StoreTyped', NEW c \in Callers, Fail(c)
  PROVE  Promise!Fail(c)
<1>1. UNCHANGED <<backend, disk, open>> /\ calls' = [calls EXCEPT ![c] = Failed] /\ calls[c] \notin {Idle, Failed}
  BY DEF Fail, Idling
<1>2. UNCHANGED SeenVersions
  BY <1>1, SeenNext, SeenStored DEF Stored
<1>3. SeenCalls' = [SeenCalls EXCEPT ![c] = Promise!Failed]
  BY <1>1, SeenNext, SeesOver, SeenCallsOf DEF StoreTyped
<1>4. SeenCalls[c] \notin {Promise!Idle, Promise!Failed}
  <2> SUFFICES ASSUME SeenCalls[c] \in {Promise!Idle, Promise!Failed} PROVE FALSE
    OBVIOUS
  <2>1. PICK call \in StoreCall : call = calls[c]
    BY DEF StoreTyped
  <2>2. PICK k : k = Sees(call)
    OBVIOUS
  <2>3. k \in {Promise!Idle, Promise!Failed}
    BY <2>1, <2>2, SeenCallsOf
  <2>4. k.todo = Promise!Nothing /\ k.done = {}
    BY <2>3 DEF Promise!Idle, Promise!Failed
  <2>5. call.todo = Nothing /\ k.done = call.done
    BY <2>2, <2>4, SeesOver DEF Sees
  <2>6. call = [todo |-> Nothing, done |-> {}, raised |-> call.raised] /\ call.raised \in BOOLEAN
    BY <2>4, <2>5 DEF StoreCall
  <2>7. call \in {Idle, Failed}
    BY <2>6, IdleAndFailed
  <2> QED
    BY <1>1, <2>1, <2>7
<1> QED
  BY <1>2, <1>3, <1>4 DEF Promise!Fail, Promise!Idling

LEMMA PromiseCrash ==
  ASSUME StoreTyped, StoreTyped', Stop
  PROVE  Promise!Crash
<1>1. /\ SeenVersions' = [r \in Records |-> Look(r, <<disk'[r]>> \o open'[r])]
      /\ SeenCalls' = [d \in Callers |-> Sees(calls'[d])]
      /\ SeenVersions = [r \in Records |-> Look(r, Stored(r))]
  BY SeenNext, SeenStored DEF Stop
<1>2. disk' = disk /\ open' = [r \in Records |-> <<>>] /\ calls' = [d \in Callers |-> Idle]
  BY DEF Stop
<1>3. ASSUME NEW r \in Records
      PROVE  \E i \in 1 .. Len(SeenVersions[r]) : SeenVersions'[r] = <<SeenVersions[r][i]>>
  <2>1. PICK s, v, d : s = Stored(r) /\ v = Look(r, s) /\ d = disk[r]
    OBVIOUS
  <2>2. s \in Seq(Maybe(r)) /\ 1 \in 1 .. Len(s) /\ s[1] = d /\ d \in Maybe(r)
    BY <2>1, StoredTyped DEF StoreTyped
  <2>3. Len(v) = Len(s) /\ v[1] = Seen(r, d)
    BY <2>1, <2>2, LookTyped
  <2>4. <<d>> \o <<>> = <<d>>
    <3>1. <<d>> \in Seq(Maybe(r))
      BY <2>2
    <3> QED
      BY <3>1, ConcatEmptySeq
  <2>5. SeenVersions'[r] = <<Seen(r, d)>>
    BY <1>1, <1>2, <2>1, <2>4, LookOne
  <2> QED
    BY <1>1, <2>1, <2>2, <2>3, <2>5
<1>4. SeenVersions' = [r \in Records |-> SeenVersions'[r]]
  BY <1>1
<1>5. SeenCalls' = [c \in Callers |-> Promise!Idle]
  BY <1>1, <1>2, SeesOver
<1> QED
  BY <1>3, <1>4, <1>5 DEF Promise!Crash

LEMMA PromiseStep ==
  ASSUME StoreTyped, Partial, OneStatement, StoreTyped', [StoreNext]_storeVars
  PROVE  [Promise!Next]_Promise!vars
<1>1. CASE UNCHANGED storeVars
  <2>1. UNCHANGED SeenVersions /\ UNCHANGED SeenCalls
    <3>1. UNCHANGED <<backend, disk, open, calls>>
      BY <1>1 DEF storeVars
    <3> QED
      BY <3>1, SeenNext, SeenStored DEF Stored, SeenCalls, Seen, Lost
  <2> QED
    BY <2>1 DEF Promise!vars
<1>2. CASE Stop
  BY <1>2, PromiseCrash DEF Promise!Next
<1>3. ASSUME NEW c \in Callers, NEW r \in scope, SaveNew(c, r) \/ SaveAgain(c, r)
      PROVE  Promise!Next
  BY <1>3, SaveNewKeeps, SaveAgainKeeps, PromiseBegin DEF Promise!Next
<1>4. ASSUME NEW c \in Callers, UpsertCandles(c)
      PROVE  Promise!Next
  BY <1>4, UpsertKeeps, PromiseBegin DEF Promise!Next
<1>5. ASSUME NEW c \in Callers, Continue(c) \/ Fail(c)
      PROVE  Promise!Next
  BY <1>5, PromiseExecuteSqlite, PromiseExecutePostgres, PromiseCommit, PromiseReturnPostgres, PromiseFail
     DEF Continue, Promise!Next
<1> QED
  BY <1>1, <1>2, <1>3, <1>4, <1>5 DEF StoreNext

\* The store promises what RecordStore does, for any coroutines, records and saves:
\* the actions of SqliteDataStore, whose one transaction everybody writes to, commits
\* and rolls back, and those of PostgresDataStore, that sets some columns of a row it
\* has, are the puts, returns, failures and crashes of a store with one current value
\* for each record, that keeps the rows of each save it has returned from.
THEOREM StoreKeepsItsPromise ==
  StoreSpec => Keeps
<1>1. StoreInit => Promise!Init
  <2> SUFFICES ASSUME StoreInit PROVE Promise!Init
    OBVIOUS
  <2>1. backend \in {"sqlite", "postgres"} /\ disk = [r \in Records |-> None]
        /\ open = [r \in Records |-> <<>>] /\ calls = [c \in Callers |-> Idle]
    BY DEF StoreInit
  <2>2. ASSUME NEW r \in Records
        PROVE  [i \in 1 .. Len(Stored(r)) |-> Seen(r, Read(r, Stored(r)[i]))] = <<None>>
    <3>1. <<None>> \in Seq({None})
      OBVIOUS
    <3>2. <<None>> \o <<>> = <<None>>
      BY <3>1, ConcatEmptySeq
    <3>3. Stored(r) = <<None>>
      BY <2>1, <3>2 DEF Stored
    <3>4. Seen(r, Read(r, None)) = None
      BY DEF Seen, Read
    <3> QED
      BY <3>3, <3>4
  <2>3. SeenVersions = [r \in Records |-> <<None>>]
    BY <2>2 DEF SeenVersions
  <2>4. SeenCalls = [c \in Callers |-> Promise!Idle]
    BY <2>1, SeesOver DEF SeenCalls, Sees
  <2> QED
    BY <2>3, <2>4 DEF Promise!Init
<1>2. StoreTyped /\ Partial /\ OneStatement /\ StoreTyped' /\ [StoreNext]_storeVars => [Promise!Next]_Promise!vars
  BY PromiseStep
<1> QED
  BY <1>1, <1>2, StoreInvariant, StatementInvariant, PTL DEF StoreSpec, Keeps, Promise!Spec
=============================================================================
