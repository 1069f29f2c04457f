------------------------------- MODULE Tuner -------------------------------
(***************************************************************************)
(* The AI tuner: sessions that change a strategy's live parameters, their  *)
(* rows in tuning_history, and the hourly check that confirms a tuning     *)
(* after its monitoring window or rolls it back.                           *)
(*                                                                         *)
(* The value of a parameter is where it comes from: 0 is the preset the    *)
(* strategy starts with, -1 that of another regime, k is tuning k.  The    *)
(* score weights are one parameter: they are assigned weight by weight and *)
(* each assignment builds a ScoreWeights, which refuses weights that do    *)
(* not add up to one, so that only weights close to those that are live    *)
(* can be assigned at all.  bootstrap() registers strategies without risk   *)
(* engine and regime switch manager, and no component has the Tier 3       *)
(* parameters, so that a session of Tier 2 or 3 finds no current value,    *)
(* changes nothing and saves no row: the sessions here are those of Tier 1,*)
(* no tuning is ever pending and approving one finds none.                 *)
(*                                                                         *)
(* deployment "engine" is bootstrap_and_run(): the scheduler runs tuning   *)
(* and monitoring.  "paper" is run_paper.py: the API's requests start      *)
(* sessions and roll tunings back, and nobody monitors.                    *)
(***************************************************************************)
EXTENDS Integers, Sequences, SequencesExt, FiniteSetsExt

CONSTANTS Strategies,
          Params,        \* the Tier 1 parameters, in the order they are assigned and saved;
                         \* the last one is the score weights
          Http,          \* requests of the API
          MaxRollbacks,  \* max_consecutive_rollbacks
          MaxEvents,     \* bound, by deployment: sessions that apply something, restarts
                         \* and regime switches
          Faults         \* may statements fail?

ASSUME TunerAssumption ==
    /\ Strategies # {} /\ "cron" \notin Http
    /\ Params \in Seq(Range(Params)) /\ IsInjective(Params) /\ Params # <<>>
    /\ MaxRollbacks \in Nat \ {0} /\ MaxEvents \in [{"engine", "paper"} -> Nat]
    /\ Faults \in BOOLEAN

VARIABLES
    deployment,
    upsets,    \* restarts of the process and switches of the regime, so far
    state,     \* _state of the pipeline
    live,      \* live[s]: the parameters in the SignalGenerator of s
    rows,      \* tuning_history
    made,      \* the tunings that were applied are 1..made
    ground,    \* ground[k]: the preset whose score weights those of tuning k are close to
    aged,      \* those whose monitoring window is over
    job,       \* job[t]: where a session or a manual rollback is suspended
    check,     \* where check_monitoring() is
    count,     \* _consecutive_rollback_count
    lost,      \* history: tunings not applied or not saved in full
    decided    \* history: the tunings this process confirmed or rolled back

env == <<deployment, upsets, aged>>
history == <<lost, decided>>
vars == <<env, state, live, rows, made, ground, job, check, count, history>>

ParamSet == Range(Params)
Jobs == {"cron"} \cup Http
Status(k) == {r.status : r \in {q \in rows : q.id = k}}
Watched == {r.id : r \in {q \in rows : q.status = "monitoring"}}

Idle == [at |-> "idle", strategy |-> CHOOSE s \in Strategies : TRUE, id |-> 0, saved |-> 0, snap |-> {}]
NoCheck == [at |-> "idle", todo |-> {}, snap |-> {}, undone |-> {}]
Score == Last(Params)
Presets == {0, -1}
Preset(v) == [p \in ParamSet |-> v]

\* The weights v and w are close enough to be assigned one over the other.
Ground(v) == IF v \in Presets THEN v ELSE ground[v]
Close(v, w) == Ground(v) = Ground(w)

MayHappen == made + upsets < MaxEvents[deployment]

MayRun(t) == IF deployment = "engine" THEN t = "cron" ELSE t \in Http

-----------------------------------------------------------------------------
(* run_tuning_session() *)

\* The scheduled job or a request starts a session; a suspended tuner skips it.
SessionBegin(t, s) ==
    /\ MayRun(t) /\ job[t].at = "idle"
    /\ state # "suspended" /\ MayHappen
    /\ state' = "evaluating"
    /\ job' = [job EXCEPT ![t] = [Idle EXCEPT !.at = "evaluating", !.strategy = s]]
    /\ UNCHANGED <<env, live, rows, made, ground, check, count, history>>

\* An evaluation or optimisation that fails, or that sees nothing to improve.
SessionEnds(t) ==
    /\ job[t].at \in {"evaluating", "optimizing"}
    /\ state' = "idle"
    /\ job' = [job EXCEPT ![t] = Idle]
    /\ UNCHANGED <<env, live, rows, made, ground, check, count, history>>

Evaluated(t) ==
    /\ job[t].at = "evaluating"
    /\ state' = "optimizing"
    /\ job' = [job EXCEPT ![t].at = "optimizing"]
    /\ UNCHANGED <<env, live, rows, made, ground, check, count, history>>

\* save_tuning_history() writes a row per parameter. The row is written and the next
\* one follows, or this was the last one.
SaveRow(t, j, old) ==
    /\ rows' = rows \cup {[id |-> j.id, strategy |-> j.strategy, param |-> Params[j.saved + 1],
                           old |-> old, status |-> "monitoring"]}
    /\ job' = [job EXCEPT ![t] = [j EXCEPT !.at = "saving", !.saved = @ + 1]]

\* Mutant: the last parameter is left out.
Remaining_ButOne(j) == j.saved < Len(Params) - 1

Remaining(j) == j.saved < Len(Params)

\* A statement or an assignment raises: the session ends, but what is live stays.
Dropped(t, k) ==
    /\ lost' = lost \cup {k}
    /\ state' = "idle"
    /\ job' = [job EXCEPT ![t] = Idle]
    /\ UNCHANGED rows

\* The optimisation is approved and its changes are built. All are assigned when the
\* score weights hardly change, and the first row is sent to the store without an await
\* in between; or the score weights are refused: what precedes them is live, nothing is
\* saved, and the session ends.
Apply(t) ==
    LET s == job[t].strategy
        k == made + 1
        before == live[s]
    IN /\ job[t].at = "optimizing" /\ MayHappen
       /\ made' = k
       /\ ground' = Append(ground, Ground(before[Score]))
       /\ \/ /\ live' = [live EXCEPT ![s] = Preset(k)]
             /\ SaveRow(t, [job[t] EXCEPT !.id = k, !.snap = {before}], before[Params[1]])
             /\ state' = "applying"
             /\ UNCHANGED lost
          \/ /\ live' = [live EXCEPT ![s] = Preset(k)]
             /\ Faults /\ Dropped(t, k)
          \/ /\ live' = [live EXCEPT ![s] = [Preset(k) EXCEPT ![Score] = before[Score]]]
             /\ Dropped(t, k)
       /\ UNCHANGED <<env, check, count, decided>>

\* The next row. Its old value was read before the change was applied.
SaveNext(t) ==
    /\ job[t].at = "saving" /\ Remaining(job[t])
    /\ \/ /\ \E before \in job[t].snap : SaveRow(t, job[t], before[Params[job[t].saved + 1]])
          /\ UNCHANGED <<state, lost>>
       \/ Faults /\ Dropped(t, job[t].id)
    /\ UNCHANGED <<env, live, made, ground, check, count, decided>>

SaveDone(t) ==
    /\ job[t].at = "saving" /\ ~Remaining(job[t])
    /\ state' = "monitoring"
    /\ job' = [job EXCEPT ![t] = Idle]
    /\ UNCHANGED <<env, live, rows, made, ground, check, count, history>>

Session(t) == (\E s \in Strategies : SessionBegin(t, s)) \/ SessionEnds(t) \/ Evaluated(t)
                \/ Apply(t) \/ SaveNext(t) \/ SaveDone(t)

-----------------------------------------------------------------------------
(* rollback() *)

\* The old score weights cannot be assigned: those of another regime are live.
Refused(snap) == \E r \in snap : r.param = Score /\ ~Close(live[r.strategy][Score], r.old)

\* The parameters of the rows in snap get their old values back, whatever they are now,
\* up to the one that is refused.
Restored(snap) ==
    [s \in Strategies |-> [p \in ParamSet |->
        LET mine == {r \in snap : r.strategy = s /\ r.param = p /\ (p = Score => ~Refused(snap))}
        IN IF mine = {} THEN live[s][p] ELSE (CHOOSE r \in mine : TRUE).old]]

\* update_tuning_status(): every row of the tuning.
Marked(k, status) == {IF r.id = k THEN [r EXCEPT !.status = status] ELSE r : r \in rows}

\* manual_rollback() reads the tuning, of any status, ...
RollbackBegin(t, k) ==
    /\ t \in Http /\ MayRun(t) /\ job[t].at = "idle" /\ Status(k) # {}
    /\ job' = [job EXCEPT ![t] = [Idle EXCEPT !.at = "undoing", !.id = k,
                                              !.snap = {r \in rows : r.id = k}]]
    /\ UNCHANGED <<env, state, live, rows, made, ground, check, count, history>>

\* ... restores it and marks it; the restoring or the UPDATE may fail.
RollbackEnd(t) ==
    /\ job[t].at = "undoing"
    /\ live' = Restored(job[t].snap)
    /\ \/ ~Refused(job[t].snap) /\ rows' = Marked(job[t].id, "rolled_back")
       \/ (Faults \/ Refused(job[t].snap)) /\ UNCHANGED rows
    /\ job' = [job EXCEPT ![t] = Idle]
    /\ UNCHANGED <<env, state, made, ground, check, count, history>>

\* POST /approve with approved = false: the tuning need not be pending.
Reject(k) ==
    /\ deployment = "paper" /\ Status(k) \notin {{}, {"rejected"}}
    /\ rows' = Marked(k, "rejected")
    /\ UNCHANGED <<env, state, live, made, ground, job, check, count, history>>

-----------------------------------------------------------------------------
(* check_monitoring(), hourly *)

\* Mutant: the oldest tuning first.
Newest_Oldest(ids) == Min(ids)

\* get_monitoring_sessions(): ORDER BY created_at DESC
Newest(ids) == Max(ids)

\* Mutant: a suspended tuner does not monitor either.
CheckBegin_NotSuspended ==
    /\ state # "suspended"
    /\ deployment = "engine" /\ check.at = "idle" /\ Watched # {}
    /\ check' = [NoCheck EXCEPT !.at = "next", !.todo = Watched]
    /\ UNCHANGED <<env, state, live, rows, made, ground, job, count, history>>

CheckBegin ==
    /\ deployment = "engine" /\ check.at = "idle" /\ Watched # {}
    /\ check' = [NoCheck EXCEPT !.at = "next", !.todo = Watched]
    /\ UNCHANGED <<env, state, live, rows, made, ground, job, count, history>>

Current == Newest(check.todo)
Saving == {job[t].id : t \in {u \in Jobs : job[u].at = "saving"}}

\* The tuning is done with: on to the next one.
CheckNext == check' = IF check.todo = {Current} THEN NoCheck
                      ELSE [check EXCEPT !.at = "next", !.todo = @ \ {Current}, !.snap = {}]

\* Enough trades were lost since the tuning was applied: read its rows. (Trades take
\* longer than the INSERTs of a tuning.)
Degraded ==
    /\ check.at = "next" /\ Current \notin Saving
    /\ check' = [check EXCEPT !.at = "undoing", !.snap = {r \in rows : r.id = Current}]
    /\ UNCHANGED <<env, state, live, rows, made, ground, job, count, history>>

Continues ==
    /\ check.at = "next" /\ Current \notin aged
    /\ CheckNext
    /\ UNCHANGED <<env, state, live, rows, made, ground, job, count, history>>

Passed ==
    /\ check.at = "next" /\ Current \in aged
    /\ rows' = Marked(Current, "confirmed")
    /\ decided' = Append(decided, Current)
    /\ check' = [check EXCEPT !.at = "confirmed"]
    /\ UNCHANGED <<env, state, live, made, ground, job, count, lost>>

\* Mutant: the count is not reset.
Confirmed_KeepsCount ==
    /\ check.at = "confirmed"
    /\ CheckNext
    /\ UNCHANGED <<env, state, live, rows, made, ground, job, count, history>>

Confirmed ==
    /\ check.at = "confirmed"
    /\ count' = 0
    /\ CheckNext
    /\ UNCHANGED <<env, state, live, rows, made, ground, job, history>>

Undo ==
    /\ check.at = "undoing" /\ ~Refused(check.snap)
    /\ live' = Restored(check.snap)
    /\ rows' = Marked(Current, "rolled_back")
    /\ decided' = Append(decided, Current)
    /\ check' = [check EXCEPT !.at = "undone", !.undone = @ \cup {Current}]
    /\ UNCHANGED <<env, state, made, ground, job, count, lost>>

Undone ==
    /\ check.at = "undone"
    /\ count' = count + 1
    /\ state' = IF count' >= MaxRollbacks THEN "suspended" ELSE state
    /\ CheckNext
    /\ UNCHANGED <<env, live, rows, made, ground, job, history>>

\* A statement raises or the score weights are refused, which ends the check: a rollback
\* has restored what it could, and the tunings that follow are not looked at.
CheckFails ==
    /\ \/ Faults /\ check.at \in {"next", "undoing"}
       \/ check.at = "undoing" /\ Refused(check.snap)
    /\ live' = IF check.at = "undoing" THEN Restored(check.snap) ELSE live
    /\ check' = NoCheck
    /\ UNCHANGED <<env, state, rows, made, ground, job, count, history>>

Check == CheckBegin \/ Degraded \/ Continues \/ Passed \/ Confirmed \/ Undo \/ Undone \/ CheckFails

-----------------------------------------------------------------------------
(* Environment *)

\* The trading loop switches the regime: apply_preset() on the same SignalGenerator.
ApplyPreset(s) ==
    /\ MayHappen /\ upsets' = upsets + 1
    /\ \E v \in Presets : live[s] # Preset(v) /\ live' = [live EXCEPT ![s] = Preset(v)]
    /\ UNCHANGED <<deployment, aged, state, rows, made, ground, job, check, count, history>>

\* monitoring_hours are over, of the oldest tuning first. (Only the monitor looks.)
WindowEnds ==
    /\ deployment = "engine"
    /\ \E k \in 1..made : /\ k \notin aged \cup Saving
                          /\ \A i \in 1..(k - 1) : i \in aged
                          /\ aged' = aged \cup {k}
    /\ UNCHANGED <<deployment, upsets, state, live, rows, made, ground, job, check, count, history>>

\* The process dies and starts again; it does not apply what is in the history.
Restart ==
    /\ MayHappen /\ upsets' = upsets + 1
    /\ state' = "idle" /\ count' = 0 /\ decided' = <<>> /\ lost' = lost \cup Saving
    /\ live' = [s \in Strategies |-> Preset(0)]
    /\ job' = [t \in Jobs |-> Idle] /\ check' = NoCheck
    /\ UNCHANGED <<deployment, aged, rows, made, ground>>

Init ==
    /\ deployment \in {"engine", "paper"} /\ upsets = 0
    /\ state = "idle" /\ count = 0 /\ decided = <<>> /\ lost = {}
    /\ live = [s \in Strategies |-> Preset(0)]
    /\ rows = {} /\ made = 0 /\ ground = <<>> /\ aged = {}
    /\ job = [t \in Jobs |-> Idle] /\ check = NoCheck

Next ==
    \/ \E t \in Jobs : Session(t) \/ RollbackEnd(t) \/ \E k \in 1..made : RollbackBegin(t, k)
    \/ \E k \in 1..made : Reject(k)
    \/ Check
    \/ \E s \in Strategies : ApplyPreset(s)
    \/ WindowEnds \/ Restart

Spec == Init /\ [][Next]_vars

\* Time passes, suspended sessions and checks go on, the scheduler starts the check
\* every hour, and a statement that is repeated every hour does not fail for ever.
FairSpec ==
    /\ Spec
    /\ WF_vars(WindowEnds) /\ WF_vars(CheckBegin)
    /\ WF_vars(Continues \/ Confirmed \/ Undone)
    /\ SF_vars(Passed \/ Degraded) /\ SF_vars(Undo)
    /\ \A t \in Jobs : WF_vars(SaveNext(t)) /\ WF_vars(SaveDone(t))

-----------------------------------------------------------------------------
(* Properties *)

\* A parameter that runs with a tuned value has a row that a rollback finds, as soon as
\* its session is over, unless the score weights were refused, an INSERT failed or the
\* process died while saving: then the value can even come back as the old value of the
\* next tuning.
AppliedIsRecorded ==
    \A s \in Strategies, p \in ParamSet :
        live[s][p] \notin Presets \cup lost \cup Saving
            => \E r \in rows : r.id = live[s][p] /\ r.strategy = s /\ r.param = p

\* The tuner is suspended for MaxRollbacks tunings in a row that this process rolled
\* back, with none confirmed in between.
SuspendsForRollbacks ==
    [][state' = "suspended" /\ state # "suspended" =>
         /\ Len(decided) >= MaxRollbacks
         /\ \A i \in (Len(decided) - MaxRollbacks + 1)..Len(decided) : Status(decided[i]) = {"rolled_back"}]_vars

\* A check that rolls back several tunings of a strategy leaves no value of any of
\* them: the newest goes first, so that its old values do not come back.
RolledBackTogether ==
    check.at = "undone" =>
        \A k \in check.undone \ lost : \A s \in Strategies, p \in ParamSet : live[s][p] # k

\* Every tuning is confirmed or rolled back in the end, whatever failed or died meanwhile:
\* when the sessions have made what they may make, nothing is left to be watched, or a
\* tuning is left whose score weights a rollback could not restore.
MonitoringEnds ==
    deployment = "engine" => []<>(Watched = {} \/ \E k \in Watched : Refused({r \in rows : r.id = k}))
=============================================================================
