---------------------------- MODULE BacktestJobs ----------------------------
(***************************************************************************)
(* The backtest jobs of the API process: BacktestJobManager, the runners   *)
(* its routes start, the candle cache they fill and the worker threads     *)
(* that compute.                                                           *)
(*                                                                         *)
(* A job is a task that first collects the candles of its period, gap by   *)
(* gap, then hands one computation after another to a thread of the        *)
(* default executor, and at last leaves the blocks that close the exchange *)
(* and the cache's connection.  A client may cancel it and a timeout may   *)
(* end it at each of its awaits.  Neither stops a thread that has started: *)
(* the task gives up the thread and the thread runs on.                    *)
(*                                                                         *)
(* jobs holds the jobs submitted since the process started, current is the *)
(* last of them (0: none) and history the ones that can still be looked    *)
(* up.  cache is the table of candles, on disk; day is the last day the    *)
(* exchange has a bar of, and that bar is still forming.  A job keeps the  *)
(* day it asked on and whether the exchange answered every request; both   *)
(* are read by the properties only.                                        *)
(***************************************************************************)
EXTENDS Sequences, FiniteSetsExt, CandleCache

CONSTANTS Modes,        \* what a job computes: see Parts
          Periods,      \* the pairs <<first, last>> of days clients ask for
          Workers,      \* threads of the default executor
          MaxHistory,   \* MAX_HISTORY
          MaxJobs,      \* bound: jobs submitted to one process
          MaxDay        \* bound: the last day

ASSUME BacktestJobsAssumption ==
    /\ Modes \subseteq {"single", "compare", "optimize", "ai_regime", "validate"}
    /\ Periods \subseteq (Nat \ {0}) \X (Nat \ {0})
    /\ MaxHistory \in Nat \ {0} /\ Workers \in Nat /\ MaxJobs \in Nat /\ MaxDay \in Nat \ {0}

VARIABLES jobs, history, current, cache, day
vars == <<jobs, history, current, cache, day>>

Ids == DOMAIN jobs
Final == {"done", "failed", "cancelled"}
Ended(i) == jobs[i].pc = "over"

\* the computations of a runner, each of them in a thread: a single one, one per
\* preset, or the weeks and then the presets
OneThread(mode) == mode \in {"single", "optimize", "validate"}
Parts(mode) == IF OneThread(mode) THEN 1 ELSE 2

\* whose failure ends the job: a comparison records it and goes on; the first
\* week of an AI backtest leaves `result` unbound
Fatal(job) == OneThread(job.mode) \/ (job.mode = "ai_regime" /\ job.left = Parts(job.mode))

\* a validation closes its connection before it computes, and keeps its status
Validates(job) == job.mode = "validate"

----------------------------------------------------------------------------
Update(i, job) == jobs' = [jobs EXCEPT ![i] = job]

\* a submitted job, and what is left of an ended one
Fresh(mode, period) ==
    [mode |-> mode, first |-> period[1], last |-> period[2], pc |-> "new", status |-> "pending",
     left |-> Parts(mode), bars |-> Empty, gaps |-> {}, lone |-> {}, asked |-> 0,
     answered |-> TRUE, why |-> "none", thread |-> "none", result |-> FALSE]
Over(job, outcome) ==
    [job EXCEPT !.pc = "over", !.status = outcome, !.result = (outcome = "done"), !.why = "none",
                !.bars = Empty, !.gaps = {}, !.lone = {}, !.left = 0, !.answered = TRUE, !.asked = 0]
Leave(job, outcome) == [job EXCEPT !.pc = "closing", !.why = outcome]

\* what the task does when its computation ends for good or for bad
Finish(job, outcome) == IF Validates(job) THEN Over(job, outcome) ELSE Leave(job, outcome)

\* cancelling the await of a thread removes it from the executor's queue only
GiveUp(job) == [job EXCEPT !.thread = IF @ = "queued" THEN "none" ELSE @]

----------------------------------------------------------------------------
(* Submitting *)

\* the oldest jobs go while there are too many, up to the first that has not ended
Trimmed(known, js) ==
    LET stays == {n \in DOMAIN known : \/ n > Len(known) - MaxHistory
                                      \/ \E m \in 1 .. n : js[known[m]].pc # "over"}
    IN SubSeq(known, Min(stays), Len(known))

\* POST /backtest/run refuses a period that ends in the future; the wizard's
\* requests, to optimize and to validate, do not
Allowed(mode, period) == mode \in {"optimize", "validate"} \/ period[2] <= day

\* mutant: a job that collects candles is not yet running
Submit_WhileFetching(mode, period) ==
    /\ Len(jobs) < MaxJobs
    /\ Allowed(mode, period)
    /\ current # 0 => jobs[current].status # "running"
    /\ jobs' = Append(jobs, Fresh(mode, period))
    /\ current' = Len(jobs')
    /\ history' = Trimmed(Append(history, Len(jobs')), jobs')
    /\ UNCHANGED <<cache, day>>

Submit(mode, period) ==
    /\ Len(jobs) < MaxJobs
    /\ Allowed(mode, period)
    /\ current # 0 => jobs[current].status \in Final
    /\ jobs' = Append(jobs, Fresh(mode, period))
    /\ current' = Len(jobs')
    /\ history' = Trimmed(Append(history, Len(jobs')), jobs')
    /\ UNCHANGED <<cache, day>>

----------------------------------------------------------------------------
(* Collecting the candles *)
Start(i) ==
    LET job == jobs[i]
        cached == Loaded(cache, job.first, job.last)
    IN /\ job.pc = "new"
       /\ Update(i, [job EXCEPT !.pc = "fetch", !.status = "fetching", !.asked = day,
                                !.bars = cached, !.gaps = Gaps(cached, job.first, job.last),
                                !.lone = Lone(cached, job.first, job.last)])
       /\ UNCHANGED <<history, current, cache, day>>

\* The earliest gap is read, up to an error, and what was read is saved and
\* added to what the job has.
FetchGap(i) ==
    LET job == jobs[i]
        gap == CHOOSE g \in job.gaps : \A other \in job.gaps : g.since <= other.since
    IN /\ job.pc = "fetch" /\ job.gaps # {}
       /\ \E stops \in 1 .. MaxDay + 1 :
              LET fresh == [b \in Answered(gap, 1 .. day, stops) |->
                                IF b = day THEN "forming" ELSE "final"]
              IN /\ cache' = Kept(cache, fresh)
                 /\ Update(i, [job EXCEPT !.gaps = @ \ {gap}, !.bars = Kept(@, fresh),
                                          !.answered = @ /\ stops > MaxDay])
       /\ UNCHANGED <<history, current, day>>

\* the table is locked, or the markets cannot be loaded
FetchRaises(i) ==
    /\ jobs[i].pc = "fetch"
    /\ Update(i, Leave(jobs[i], "failed"))
    /\ UNCHANGED <<history, current, cache, day>>

FetchDone(i) ==
    LET job == jobs[i] IN
    /\ job.pc = "fetch" /\ job.gaps = {}
    /\ Update(i, [job EXCEPT !.pc = "compute", !.thread = "queued",
                             !.status = IF Validates(job) THEN @ ELSE "running"])
    /\ UNCHANGED <<history, current, cache, day>>

----------------------------------------------------------------------------
(* Computing *)
Running == {i \in Ids : jobs[i].thread = "running"}

StartThread(i) ==
    /\ jobs[i].thread = "queued" /\ Cardinality(Running) < Workers
    /\ Update(i, [jobs[i] EXCEPT !.thread = "running"])
    /\ UNCHANGED <<history, current, cache, day>>

\* mutant: the thread reports to the job, whoever awaits it
ThreadEnds_Reports(i, ok) ==
    LET job == [jobs[i] EXCEPT !.thread = "none"] IN
    /\ jobs[i].thread = "running"
    /\ Update(i, IF job.left > 1 THEN [job EXCEPT !.left = @ - 1, !.thread = "queued"]
                 ELSE Finish(job, IF ok THEN "done" ELSE "failed"))
    /\ UNCHANGED <<history, current, cache, day>>

\* a thread ends: the task that awaits it goes on, if one does
ThreadEnds(i, ok) ==
    LET job == [jobs[i] EXCEPT !.thread = "none"] IN
    /\ jobs[i].thread = "running"
    /\ Update(i, CASE job.pc # "compute" -> job
                   [] job.pc = "compute" /\ ~ok /\ Fatal(job) -> Finish(job, "failed")
                   [] job.pc = "compute" /\ (ok \/ ~Fatal(job)) ->
                          IF job.left = 1 THEN Finish(job, "done")
                          ELSE [job EXCEPT !.left = @ - 1, !.thread = "queued"])
    /\ UNCHANGED <<history, current, cache, day>>

----------------------------------------------------------------------------
(* Ending *)
Closed(i) ==
    /\ jobs[i].pc = "closing"
    /\ Update(i, Over(jobs[i], jobs[i].why))
    /\ UNCHANGED <<history, current, cache, day>>

\* mutant: the await of a thread is shielded
Interrupt_Shielded(i, outcome) ==
    LET job == jobs[i] IN
    /\ Update(i, IF job.pc = "compute" \/ job.why = "cancelled" THEN job ELSE Leave(job, outcome))
    /\ UNCHANGED <<history, current, cache, day>>

\* The exception reaches the await the task is at.  Inside the closing blocks
\* it takes the place of what they were closing for, except that the context of
\* the timeout leaves alone a cancellation that came before it.
Interrupt(i, outcome) ==
    LET job == jobs[i] IN
    /\ Update(i, IF job.pc = "compute" THEN Finish(GiveUp(job), outcome)
                 ELSE IF job.why = "cancelled" THEN job ELSE Leave(job, outcome))
    /\ UNCHANGED <<history, current, cache, day>>

Awaits(i) == jobs[i].pc \in {"fetch", "compute", "closing"}
Cancel(i) == i \in {history[n] : n \in DOMAIN history} /\ Awaits(i) /\ Interrupt(i, "cancelled")
Timeout(i) == Awaits(i) /\ Interrupt(i, "failed")

----------------------------------------------------------------------------
(* The days, and the process *)
NextDay == day < MaxDay /\ day' = day + 1 /\ UNCHANGED <<jobs, history, current, cache>>

Crash == /\ jobs' = <<>> /\ history' = <<>> /\ current' = 0
         /\ UNCHANGED <<cache, day>>

Init == jobs = <<>> /\ history = <<>> /\ current = 0 /\ cache = Empty /\ day = 1

Progress(i) == Start(i) \/ FetchGap(i) \/ FetchDone(i) \/ Timeout(i) \/ Closed(i)

Next == \/ \E mode \in Modes, period \in Periods : Submit(mode, period)
        \/ \E i \in Ids : \/ Start(i) \/ FetchGap(i) \/ FetchRaises(i) \/ FetchDone(i)
                          \/ StartThread(i)
                          \/ \E ok \in BOOLEAN : ThreadEnds(i, ok)
                          \/ Closed(i) \/ Cancel(i) \/ Timeout(i)
        \/ NextDay
        \/ Crash

\* The event loop runs a task that can go on, and its timers; nothing is asked
\* of the threads.
Fairness == \A i \in 1 .. MaxJobs : WF_vars(i \in Ids /\ Progress(i))
Spec == Init /\ [][Next]_vars /\ Fairness

----------------------------------------------------------------------------
(* Properties *)
\* A job that has not ended is the only one, it is the current one, and clients
\* can look it up and cancel it: submitting and trimming the history never lose
\* it (job_manager.py, submit).
UnderWayIsKnown ==
    \A i \in Ids : ~Ended(i) => i = current /\ \E n \in DOMAIN history : history[n] = i

\* The outcome of a job is settled once: a thread that was given up and ends
\* later, a late timeout or another cancellation never gives an ended job
\* another status, and a result is there exactly when the job is done
\* (job_manager.py, _run).
FinalIsFinal ==
    [][/\ \A i \in Ids : Ended(i) /\ i \in DOMAIN jobs' =>
              jobs'[i].status = jobs[i].status /\ jobs'[i].result = jobs[i].result
       /\ \A i \in DOMAIN jobs' : jobs'[i].result <=> jobs'[i].status = "done"]_jobs

\* Whatever earlier jobs left in the cache, a job whose requests were all
\* answered computes on every bar that existed when it asked, but for single
\* bars missing between cached ones (candle_cache.py, get_candles).
OnlyLoneBarsMissing ==
    \A i \in Ids : LET job == jobs[i] IN
        job.pc = "compute" /\ job.answered =>
            {b \in job.first .. job.last : b <= job.asked} \subseteq DOMAIN job.bars \cup job.lone

\* Every job ends, even one whose computation does not: nobody is locked out of
\* submitting by it for good (job_manager.py, _run).
JobEnds == \A i \in 1 .. MaxJobs : (i \in Ids /\ ~Ended(i)) ~> ~(i \in Ids /\ ~Ended(i))
=============================================================================
