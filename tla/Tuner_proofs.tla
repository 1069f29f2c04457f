---------------------------- MODULE Tuner_proofs ----------------------------
(***************************************************************************)
(* What holds of the tuner for any strategies, parameters and requests: a  *)
(* value that is live has its row, a check that rolls back leaves no value *)
(* of what it rolled back, and the tuner is suspended for rollbacks only.  *)
(***************************************************************************)
EXTENDS Tuner, WellFoundedInduction, TLAPS

Statuses == {"monitoring", "confirmed", "rolled_back", "rejected"}
Row == [id : Nat, strategy : Strategies, param : ParamSet, old : Int, status : Statuses]
Setting == [ParamSet -> Int]
JobRecord == [at : {"idle", "evaluating", "optimizing", "saving", "undoing"}, strategy : Strategies,
              id : Nat, saved : Nat, snap : SUBSET (Row \cup Setting)]
CheckRecord == [at : {"idle", "next", "confirmed", "undoing", "undone"}, todo : SUBSET Nat,
                snap : SUBSET Row, undone : SUBSET Nat]

Types ==
  /\ deployment \in {"engine", "paper"}
  /\ live \in [Strategies -> Setting] /\ rows \subseteq Row
  /\ made \in Nat /\ count \in Nat
  /\ lost \subseteq Nat /\ decided \in Seq(Nat)
  /\ job \in [Jobs -> JobRecord] /\ check \in CheckRecord

(* Rows and settings never run ahead of the tunings that were made.        *)
Dated ==
  /\ \A r \in rows : r.id \in 1 .. made /\ r.old < r.id
  /\ \A s \in Strategies, p \in ParamSet : live[s][p] <= made
  /\ \A t \in Jobs : job[t].at = "saving" =>
       /\ job[t].id \in 1 .. made /\ job[t].saved \in 1 .. Len(Params)
       /\ job[t].snap \subseteq Setting
       /\ \A before \in job[t].snap, p \in ParamSet : before[p] < job[t].id
  /\ \A t \in Jobs : job[t].at \in {"evaluating", "optimizing"} => job[t].saved = 0
  /\ \A t \in Jobs : job[t].at = "undoing" =>
       job[t].snap \subseteq Row /\ \A r \in job[t].snap : r.old < r.id /\ r.id <= made
  /\ aged \subseteq (1 .. made) \ Saving
  /\ check.todo \cup check.undone \subseteq 1 .. made
  /\ check.at # "idle" => check.todo # {}
  /\ \A r \in check.snap : r.old < r.id /\ r.id <= made

(* Where the value v of parameter p of strategy s comes from: R are the    *)
(* rows, J the tasks and L the tunings that were lost.                     *)
HasRow(R, s, p, v) == \E r \in R : r.id = v /\ r.strategy = s /\ r.param = p
InSaving(J, s, v) == \E t \in Jobs : J[t].at = "saving" /\ J[t].id = v /\ J[t].strategy = s
Traced(R, J, L, s, p, v) == v \in Presets \cup L \/ InSaving(J, s, v) \/ HasRow(R, s, p, v)
TracedNow(s, p, v) == Traced(rows, job, lost, s, p, v)

(* Every value that is live, or that may come back, has its row, or its    *)
(* session is still saving; and a session has saved what it says.          *)
Recorded ==
  /\ \A s \in Strategies, p \in ParamSet : TracedNow(s, p, live[s][p])
  /\ \A r \in rows \cup check.snap : TracedNow(r.strategy, r.param, r.old)
  /\ \A t \in Jobs : job[t].at = "undoing" =>
       \A r \in job[t].snap : TracedNow(r.strategy, r.param, r.old)
  /\ \A t \in Jobs : job[t].at = "saving" =>
       /\ \A before \in job[t].snap, p \in ParamSet : TracedNow(job[t].strategy, p, before[p])
       /\ \A n \in 1 .. job[t].saved : HasRow(rows, job[t].strategy, Params[n], job[t].id)

Only(R, k, status) == (\E r \in R : r.id = k) /\ \A r \in R : r.id = k => r.status = status
Settled(R, k) == Only(R, k, "confirmed") \/ Only(R, k, "rolled_back")

(* What this process decided, and what its check is at.                    *)
Deciding ==
  /\ deployment = "paper" => check = NoCheck /\ decided = <<>> /\ count = 0 /\ state # "suspended"
  /\ deployment = "engine" => \A t \in Jobs : job[t].at # "undoing"
  /\ \A k \in check.todo : \E r \in rows : r.id = k
  /\ check.at \in {"confirmed", "undoing", "undone"} => Current \notin Saving
  /\ check.at = "undoing" => check.snap = {r \in rows : r.id = Current}
  /\ \A i \in DOMAIN decided :
       /\ decided[i] \in (1 .. made) \ Saving /\ Settled(rows, decided[i])
       /\ decided[i] \in check.todo => check.at \in {"confirmed", "undone"} /\ decided[i] = Current

RolledBack == IF check.at = "undone" THEN count + 1 ELSE count
Counting ==
  check.at # "confirmed" =>
    /\ RolledBack <= Len(decided)
    /\ \A i \in Len(decided) - RolledBack + 1 .. Len(decided) : Only(rows, decided[i], "rolled_back")

(* The tunings a check has undone are newer than those it still looks at,  *)
(* and none of their values is left.                                       *)
Erased ==
  \A k \in check.undone :
    /\ k \notin Saving
    /\ \A c \in check.todo : c < k \/ (check.at = "undone" /\ c = Current)
    /\ k \notin lost => \A s \in Strategies, p \in ParamSet : live[s][p] # k

-----------------------------------------------------------------------------
(* The newest of some tunings *)

LEMMA LeastExists ==
  ASSUME NEW S, S \subseteq Nat, S # {}
  PROVE  \E m \in S : \A x \in S : m <= x
<1>1. PICK m \in S : \A y \in S : ~(<<y, m>> \in OpToRel(<, Nat))
  BY NatLessThanWellFounded, WFMin
<1>2. \A y \in S : m <= y
  <2> SUFFICES ASSUME NEW y \in S, y < m PROVE FALSE
    OBVIOUS
  <2>1. <<y, m>> \in Nat \X Nat
    OBVIOUS
  <2>2. <<y, m>> \in OpToRel(<, Nat)
    BY <2>1 DEF OpToRel
  <2> QED
    BY <1>1, <2>2
<1> QED
  BY <1>2

LEMMA GreatestExists ==
  ASSUME NEW n \in Nat, NEW S, S \subseteq 1 .. n, S # {}
  PROVE  Max(S) \in S /\ \A x \in S : x <= Max(S)
<1> DEFINE R == {n - x : x \in S}
<1>1. R \subseteq Nat /\ R # {}
  <2>1. \A x \in S : n - x \in Nat
    OBVIOUS
  <2> QED
    BY <2>1
<1>2. PICK m \in R : \A x \in R : m <= x
  BY <1>1, LeastExists
<1>3. PICK y \in S : m = n - y
  BY <1>2
<1>4. \A x \in S : y >= x
  BY <1>2, <1>3
<1> QED
  BY <1>4 DEF Max

LEMMA CurrentIsNewest ==
  ASSUME Types, Dated, check.todo # {}
  PROVE  /\ Current \in check.todo /\ Current \in 1 .. made
         /\ \A c \in check.todo : c <= Current
  BY GreatestExists DEF Types, Dated, Current, Newest

LEMMA CurrentStays ==
  ASSUME check'.todo = check.todo
  PROVE  Current' = Current
  BY DEF Current, Newest

-----------------------------------------------------------------------------
(* Rows *)

(* A row that is the same but for its status.                              *)
Same(r, q) == r.id = q.id /\ r.strategy = q.strategy /\ r.param = q.param /\ r.old = q.old

LEMMA MarkedRows ==
  ASSUME Types, NEW k, NEW status \in Statuses
  PROVE  /\ Marked(k, status) \subseteq Row
         /\ \A r \in rows : \E q \in Marked(k, status) :
              Same(r, q) /\ q.status = IF r.id = k THEN status ELSE r.status
         /\ \A q \in Marked(k, status) : \E r \in rows :
              Same(r, q) /\ q.status = IF r.id = k THEN status ELSE r.status
<1> DEFINE new(r) == IF r.id = k THEN [r EXCEPT !.status = status] ELSE r
<1>1. \A r \in rows : /\ new(r) \in Row /\ Same(r, new(r))
                      /\ new(r).status = IF r.id = k THEN status ELSE r.status
  BY DEF Types, Row, Same
<1>2. Marked(k, status) = {new(r) : r \in rows}
  BY DEF Marked
<1> HIDE DEF new
<1> QED
  BY <1>1, <1>2

LEMMA Ground0 == Strategies # {} /\ "cron" \notin Http /\ Len(Params) \in Nat \ {0} /\ Score \in ParamSet
                 /\ \A n \in 1 .. Len(Params) : Params[n] \in ParamSet
<1>1. Params \in Seq(Range(Params)) /\ Params # <<>>
  BY TunerAssumption
<1>2. Len(Params) \in Nat \ {0} /\ \A n \in 1 .. Len(Params) : Params[n] \in Range(Params)
  BY <1>1
<1> QED
  BY <1>1, <1>2, TunerAssumption DEF Score, ParamSet, Last

LEMMA IdleJob == Idle \in JobRecord /\ Idle.at = "idle"
  BY Ground0 DEF Idle, JobRecord

LEMMA NoCheckRecord == NoCheck \in CheckRecord /\ NoCheck.at = "idle" /\ NoCheck.todo = {} /\ NoCheck.undone = {} /\ NoCheck.snap = {}
  BY DEF NoCheck, CheckRecord

(* What a restored strategy has: old values of the rows, or what it had.   *)
LEMMA RestoredValues ==
  ASSUME Types, NEW snap \in SUBSET Row
  PROVE  /\ Restored(snap) \in [Strategies -> Setting]
         /\ \A s \in Strategies, p \in ParamSet :
              \/ Restored(snap)[s][p] = live[s][p] /\ ~(\E r \in snap : r.strategy = s /\ r.param = p /\ (p = Score => ~Refused(snap)))
              \/ \E r \in snap : r.strategy = s /\ r.param = p /\ Restored(snap)[s][p] = r.old
<1> DEFINE mine(s, p) == {r \in snap : r.strategy = s /\ r.param = p /\ (p = Score => ~Refused(snap))}
           value(s, p) == IF mine(s, p) = {} THEN live[s][p] ELSE (CHOOSE r \in mine(s, p) : TRUE).old
<1>1. ASSUME NEW s \in Strategies, NEW p \in ParamSet
      PROVE  /\ value(s, p) \in Int
             /\ \/ value(s, p) = live[s][p] /\ mine(s, p) = {}
                \/ \E r \in snap : r.strategy = s /\ r.param = p /\ value(s, p) = r.old
  <2>1. CASE mine(s, p) = {}
    BY <2>1 DEF Types, Setting
  <2>2. CASE mine(s, p) # {}
    <3> DEFINE c == CHOOSE r \in mine(s, p) : TRUE
    <3>1. c \in mine(s, p)
      BY <2>2
    <3>2. value(s, p) = c.old
      BY <2>2
    <3> HIDE DEF c
    <3>3. c \in snap /\ c.strategy = s /\ c.param = p /\ c.old \in Int
      BY <3>1 DEF Row
    <3> QED
      BY <3>2, <3>3
  <2> QED
    BY <2>1, <2>2
<1>2. Restored(snap) = [s \in Strategies |-> [p \in ParamSet |-> value(s, p)]]
  BY DEF Restored
<1> HIDE DEF value
<1>3. Restored(snap) \in [Strategies -> Setting] /\ \A s \in Strategies, p \in ParamSet : Restored(snap)[s][p] = value(s, p)
  BY <1>1, <1>2 DEF Setting
<1> QED
  BY <1>1, <1>3

-----------------------------------------------------------------------------
(* Types, and no row from the future *)

NewRow(j, old) == [id |-> j.id, strategy |-> j.strategy, param |-> Params[j.saved + 1],
                   old |-> old, status |-> "monitoring"]

(* A row is written: the session j goes on with the next one.              *)
Saves(t, j, old, new) ==
  /\ new \in JobRecord /\ new.at = "saving" /\ new.saved = j.saved + 1
  /\ new.id = j.id /\ new.strategy = j.strategy /\ new.snap = j.snap
  /\ job' = [job EXCEPT ![t] = new]
  /\ NewRow(j, old) \in Row /\ rows' = rows \cup {NewRow(j, old)}

LEMMA SaveRowSaves ==
  ASSUME NEW t \in Jobs, NEW j \in JobRecord, j.saved < Len(Params), NEW old \in Int, SaveRow(t, j, old)
  PROVE  \E new : Saves(t, j, old, new)
<1> DEFINE n == j.saved + 1
           new == [j EXCEPT !.at = "saving", !.saved = n]
<1>1. n \in Nat /\ n \in 1 .. Len(Params)
  BY Ground0 DEF JobRecord
<1>2. job' = [job EXCEPT ![t] = new] /\ rows' = rows \cup {NewRow(j, old)}
  BY DEF SaveRow, NewRow
<1>3. NewRow(j, old) \in Row
  <2>1. Params[n] \in ParamSet
    BY <1>1, Ground0
  <2> QED
    BY <2>1 DEF NewRow, Row, Statuses, JobRecord
<1> HIDE DEF n
<1>4. new \in JobRecord /\ new.at = "saving" /\ new.saved = n /\ new.id = j.id /\ new.strategy = j.strategy /\ new.snap = j.snap
  BY <1>1 DEF JobRecord
<1> HIDE DEF new
<1> QED
  BY <1>2, <1>3, <1>4 DEF Saves, n

LEMMA UndoingJob ==
  ASSUME NEW k \in Nat, NEW snap \in SUBSET Row
  PROVE  LET j == [Idle EXCEPT !.at = "undoing", !.id = k, !.snap = snap]
         IN j \in JobRecord /\ j.at = "undoing" /\ j.id = k /\ j.snap = snap
  BY IdleJob DEF JobRecord

(* Where a task is when it begins a session, goes on, or ends.             *)
LEMMA JobSteps ==
  ASSUME Types, NEW t \in Jobs
  PROVE  /\ \A s \in Strategies : [Idle EXCEPT !.at = "evaluating", !.strategy = s] \in JobRecord
         /\ [job[t] EXCEPT !.at = "optimizing"] \in JobRecord
         /\ \A s \in Strategies : LET j == [Idle EXCEPT !.at = "evaluating", !.strategy = s]
                                 IN j.at = "evaluating" /\ j.saved = 0
         /\ [job[t] EXCEPT !.at = "optimizing"].at = "optimizing"
         /\ [job[t] EXCEPT !.at = "optimizing"].saved = job[t].saved
         /\ [job EXCEPT ![t].at = "optimizing"] = [job EXCEPT ![t] = [job[t] EXCEPT !.at = "optimizing"]]
<1>1. job[t] \in JobRecord
  BY DEF Types
<1>2. /\ [job[t] EXCEPT !.at = "optimizing"] \in JobRecord
      /\ [job[t] EXCEPT !.at = "optimizing"].at = "optimizing"
      /\ [job[t] EXCEPT !.at = "optimizing"].saved = job[t].saved
  BY <1>1 DEF JobRecord
<1>3. ASSUME NEW s \in Strategies
      PROVE  [Idle EXCEPT !.at = "evaluating", !.strategy = s] \in JobRecord
             /\ [Idle EXCEPT !.at = "evaluating", !.strategy = s].at = "evaluating"
             /\ [Idle EXCEPT !.at = "evaluating", !.strategy = s].saved = 0
  BY IdleJob DEF JobRecord, Idle
<1>4. [job EXCEPT ![t].at = "optimizing"] = [job EXCEPT ![t] = [job[t] EXCEPT !.at = "optimizing"]]
  OBVIOUS
<1> QED
  BY <1>2, <1>3, <1>4

(* Two ways an optimisation that is approved goes on: its first row is     *)
(* saved, or the session is dropped with part of it live.                  *)
Applied(t) ==
  LET k == made + 1
      now == job[t].strategy
      before == live[now]
      j == [job[t] EXCEPT !.id = k, !.snap = {before}]
  IN /\ made' = k /\ live' \in [Strategies -> Setting]
     /\ \A s \in Strategies, p \in ParamSet :
          live'[s][p] = live[s][p] \/ (s = now /\ live'[s][p] = k)
     /\ \/ /\ lost' = lost /\ \E new : Saves(t, j, before[Params[1]], new)
        \/ lost' = lost \cup {k} /\ job' = [job EXCEPT ![t] = Idle] /\ UNCHANGED rows
     /\ j \in JobRecord /\ j.id = k /\ j.snap = {before} /\ j.strategy = now
     /\ UNCHANGED <<deployment, aged, check, count, decided>>

LEMMA ApplyApplies ==
  ASSUME Types, NEW t \in Jobs, Apply(t), job[t].saved = 0
  PROVE  Applied(t)
<1> DEFINE k == made + 1
           now == job[t].strategy
           before == live[now]
           j == [job[t] EXCEPT !.id = k, !.snap = {before}]
<1>1. job[t] \in JobRecord /\ now \in Strategies /\ before \in Setting /\ k \in Nat /\ job[t].saved = 0
  BY DEF Types, JobRecord, Apply
<1>2. j \in JobRecord /\ j.id = k /\ j.snap = {before} /\ j.strategy = now /\ j.saved = 0
  BY <1>1 DEF JobRecord
<1>3. Params[1] \in ParamSet /\ Score \in ParamSet /\ 0 < Len(Params)
  BY Ground0
<1>4. before[Params[1]] \in Int
  BY <1>1, <1>3 DEF Setting
<1> HIDE DEF j
<1>5. Preset(k) \in Setting /\ [Preset(k) EXCEPT ![Score] = before[Score]] \in Setting
  BY <1>1, <1>3 DEF Preset, Setting
<1>6. \A x \in Setting : [live EXCEPT ![now] = x] \in [Strategies -> Setting]
  BY <1>1 DEF Types
<1>7. /\ live' \in {[live EXCEPT ![now] = Preset(k)], [live EXCEPT ![now] = [Preset(k) EXCEPT ![Score] = before[Score]]]}
      /\ made' = k
      /\ \/ SaveRow(t, j, before[Params[1]]) /\ lost' = lost
         \/ Dropped(t, k)
      /\ UNCHANGED <<deployment, aged, check, count, decided>>
  BY DEF Apply, env, j
<1>8. \A s \in Strategies, p \in ParamSet : live'[s][p] = live[s][p] \/ (s = now /\ live'[s][p] = k)
  <2>1. CASE live' = [live EXCEPT ![now] = Preset(k)]
    BY <2>1, <1>1 DEF Types, Preset
  <2>2. CASE live' = [live EXCEPT ![now] = [Preset(k) EXCEPT ![Score] = before[Score]]]
    BY <2>2, <1>1 DEF Types, Preset
  <2> QED
    BY <1>7, <2>1, <2>2
<1>9. SaveRow(t, j, before[Params[1]]) => \E new : Saves(t, j, before[Params[1]], new)
  BY <1>2, <1>3, <1>4, SaveRowSaves
<1> QED
  BY <1>1, <1>2, <1>5, <1>6, <1>7, <1>8, <1>9 DEF Applied, Dropped, j

(* One task moves; the others stay where they are.                         *)
LEMMA OneMoves ==
  ASSUME Types, NEW t \in Jobs, NEW new \in JobRecord, job' = [job EXCEPT ![t] = new]
  PROVE  job' \in [Jobs -> JobRecord] /\ \A u \in Jobs : job'[u] = IF u = t THEN new ELSE job[u]
  BY DEF Types

Looks(c, at, todo, snap, undone) ==
  c \in CheckRecord /\ c.at = at /\ c.todo = todo /\ c.snap = snap /\ c.undone = undone

LEMMA CheckSteps ==
  ASSUME Types
  PROVE  /\ \A snap \in SUBSET Row :
              Looks([check EXCEPT !.at = "undoing", !.snap = snap], "undoing", check.todo, snap, check.undone)
         /\ Looks([check EXCEPT !.at = "confirmed"], "confirmed", check.todo, check.snap, check.undone)
         /\ \A k \in Nat : Looks([check EXCEPT !.at = "undone", !.undone = @ \cup {k}],
                                 "undone", check.todo, check.snap, check.undone \cup {k})
         /\ \A k : Looks([check EXCEPT !.at = "next", !.todo = @ \ {k}, !.snap = {}],
                         "next", check.todo \ {k}, {}, check.undone)
         /\ Looks([NoCheck EXCEPT !.at = "next", !.todo = Watched], "next", Watched, {}, {})
<1>1. check \in CheckRecord
  BY DEF Types
<1>2. ASSUME NEW snap \in SUBSET Row
      PROVE  Looks([check EXCEPT !.at = "undoing", !.snap = snap], "undoing", check.todo, snap, check.undone)
  BY <1>1 DEF CheckRecord, Looks
<1>3. Looks([check EXCEPT !.at = "confirmed"], "confirmed", check.todo, check.snap, check.undone)
  BY <1>1 DEF CheckRecord, Looks
<1>4. ASSUME NEW k \in Nat
      PROVE  Looks([check EXCEPT !.at = "undone", !.undone = @ \cup {k}], "undone", check.todo, check.snap,
                   check.undone \cup {k})
  BY <1>1 DEF CheckRecord, Looks
<1>5. ASSUME NEW k
      PROVE  Looks([check EXCEPT !.at = "next", !.todo = @ \ {k}, !.snap = {}],
                   "next", check.todo \ {k}, {}, check.undone)
  <2> DEFINE a == [check EXCEPT !.at = "next"]
             b == [a EXCEPT !.todo = check.todo \ {k}]
             c == [b EXCEPT !.snap = {}]
  <2>1. Looks(a, "next", check.todo, check.snap, check.undone)
    BY <1>1 DEF CheckRecord, Looks
  <2>2. check.todo \in SUBSET Nat
    BY <1>1 DEF CheckRecord
  <2> HIDE DEF a
  <2>3. Looks(b, "next", check.todo \ {k}, check.snap, check.undone)
    BY <2>1, <2>2 DEF CheckRecord, Looks
  <2> HIDE DEF b
  <2>4. Looks(c, "next", check.todo \ {k}, {}, check.undone)
    BY <2>3 DEF CheckRecord, Looks
  <2>5. [check EXCEPT !.at = "next", !.todo = @ \ {k}, !.snap = {}] = c
    BY DEF a, b
  <2> QED
    BY <2>4, <2>5
<1>6. Watched \subseteq Nat
  BY DEF Watched, Types, Row
<1>7. Looks([NoCheck EXCEPT !.at = "next", !.todo = Watched], "next", Watched, {}, {})
  BY <1>6, NoCheckRecord DEF CheckRecord, Looks
<1> QED
  BY <1>2, <1>3, <1>4, <1>5, <1>7

LEMMA NextStepped ==
  ASSUME Types, CheckNext
  PROVE  \/ check' = NoCheck
         \/ check.todo # {Current} /\ Looks(check', "next", check.todo \ {Current}, {}, check.undone)
<1>1. CASE check.todo = {Current}
  BY <1>1 DEF CheckNext
<1>2. CASE check.todo # {Current}
  BY <1>2, CheckSteps DEF CheckNext
<1> QED
  BY <1>1, <1>2

Sound == Types /\ Dated

LEMMA ApplyJob0 ==
  ASSUME Types, NEW t \in Jobs, NEW k \in Nat, NEW before \in Setting
  PROVE  LET j == [job[t] EXCEPT !.id = k, !.snap = {before}]
         IN j.id = k /\ j.snap = {before} /\ j.saved = job[t].saved /\ j.strategy = job[t].strategy
  BY DEF Types, JobRecord

(* A check reads and marks rows, and restores what was there before.       *)
LEMMA SoundCheck ==
  ASSUME Sound, Check
  PROVE  Sound'
<1>0. Types /\ Dated /\ check \in CheckRecord
  BY DEF Sound, Types
<1>1. /\ UNCHANGED <<deployment, aged, made, job, lost>>
      /\ rows' = rows \/ (\E status \in Statuses : rows' = Marked(Current, status))
      /\ live' = live \/ (check.at = "undoing" /\ live' = Restored(check.snap))
  BY DEF Check, CheckBegin, Degraded, Continues, Passed, Confirmed, Undo, Undone, CheckFails, env, history, Statuses
<1>2. rows' \subseteq Row /\ \A q \in rows' : \E r \in rows : Same(r, q)
  <2>1. CASE rows' = rows
    BY <1>0, <2>1 DEF Same, Types
  <2>2. ASSUME NEW status \in Statuses, rows' = Marked(Current, status)
        PROVE  rows' \subseteq Row /\ \A q \in rows' : \E r \in rows : Same(r, q)
    BY <1>0, <2>2, MarkedRows
  <2> QED
    BY <1>1, <2>1, <2>2
<1>3. check.snap \in SUBSET Row /\ \A r \in check.snap : r.old <= made
  BY <1>0 DEF CheckRecord, Dated, Row, Types
<1>4. live' \in [Strategies -> Setting] /\ \A s \in Strategies, p \in ParamSet : live'[s][p] <= made
  BY <1>0, <1>1, <1>3, RestoredValues DEF Dated, Types
<1>5. check.at # "idle" => Current \in check.todo /\ Current \in 1 .. made /\ Current \in Nat
  BY <1>0, CurrentIsNewest DEF Dated
<1>6. count' \in Nat /\ decided' \in Seq(Nat)
  <2>1. count' \in {count, 0, count + 1} /\ count \in Nat /\ decided \in Seq(Nat)
    BY <1>0 DEF Check, CheckBegin, Degraded, Continues, Passed, Confirmed, Undo, Undone, CheckFails, history, Types
  <2>2. decided' = decided \/ (check.at # "idle" /\ decided' = Append(decided, Current))
    BY DEF Check, CheckBegin, Degraded, Continues, Passed, Confirmed, Undo, Undone, CheckFails, history
  <2>3. count' \in Nat
    BY <2>1
  <2>4. decided' \in Seq(Nat)
    BY <1>5, <2>1, <2>2
  <2> QED
    BY <2>3, <2>4
<1> DEFINE Good == /\ check' \in CheckRecord
                   /\ check'.todo \cup check'.undone \subseteq 1 .. made
                   /\ check'.at # "idle" => check'.todo # {}
                   /\ \A r \in check'.snap : r.old < r.id /\ r.id <= made
<1>7. Good
  <2>0. check.todo \cup check.undone \subseteq 1 .. made /\ (check.at # "idle" => check.todo # {})
    BY <1>0 DEF Dated
  <2>1. CASE CheckBegin
    <3>1. Looks(check', "next", Watched, {}, {}) /\ Watched # {}
      BY <1>0, <2>1, CheckSteps DEF CheckBegin
    <3>2. Watched \subseteq 1 .. made
      BY <1>0 DEF Watched, Dated
    <3> QED
      BY <3>1, <3>2 DEF Looks
  <2>2. CASE Degraded
    <3> DEFINE snap == {r \in rows : r.id = Current}
    <3>1. snap \in SUBSET Row /\ \A r \in snap : r.old < r.id /\ r.id <= made
      BY <1>0 DEF Types, Dated
    <3>2. check' = [check EXCEPT !.at = "undoing", !.snap = snap] /\ check.at = "next"
      BY <2>2 DEF Degraded
    <3> HIDE DEF snap
    <3>3. Looks(check', "undoing", check.todo, snap, check.undone)
      BY <1>0, <3>1, <3>2, CheckSteps
    <3> QED
      BY <2>0, <3>1, <3>2, <3>3 DEF Looks
  <2>3. CASE CheckNext /\ check.at # "idle"
    <3>1. CASE check' = NoCheck
      BY <3>1, NoCheckRecord
    <3>2. CASE check.todo # {Current} /\ Looks(check', "next", check.todo \ {Current}, {}, check.undone)
      <4>1. Current \in check.todo /\ check.todo \ {Current} # {}
        BY <1>5, <2>3, <3>2
      <4> QED
        BY <2>0, <3>2, <4>1 DEF Looks
    <3> QED
      BY <1>0, <2>3, <3>1, <3>2, NextStepped
  <2>4. CASE Passed
    <3>1. Looks(check', "confirmed", check.todo, check.snap, check.undone) /\ check.at = "next"
      BY <1>0, <2>4, CheckSteps DEF Passed
    <3> QED
      BY <1>0, <2>0, <3>1 DEF Looks, Dated
  <2>5. CASE Undo
    <3>1. check' = [check EXCEPT !.at = "undone", !.undone = @ \cup {Current}] /\ check.at = "undoing"
      BY <2>5 DEF Undo
    <3>2. Looks(check', "undone", check.todo, check.snap, check.undone \cup {Current})
      BY <1>0, <1>5, <3>1, CheckSteps
    <3> QED
      BY <1>0, <1>5, <2>0, <3>1, <3>2 DEF Looks, Dated
  <2>6. CASE CheckFails
    BY <2>6, NoCheckRecord DEF CheckFails
  <2> QED
    BY <2>1, <2>2, <2>3, <2>4, <2>5, <2>6 DEF Check, Continues, Confirmed, Undone
<1>8. Types'
  BY <1>0, <1>1, <1>2, <1>4, <1>6, <1>7 DEF Types
<1>9. Dated'
  BY <1>0, <1>1, <1>2, <1>4, <1>7 DEF Dated, Same, Saving
<1> QED
  BY <1>8, <1>9 DEF Sound

(* What a step of a task must keep, for Dated to hold again.               *)
LEMMA DatedAgain ==
  ASSUME Sound, NEW t \in Jobs, NEW new \in JobRecord, made' \in Nat, made <= made',
         \A u \in Jobs : job'[u] = IF u = t THEN new ELSE job[u],
         new.at \in {"idle", "saving"},
         new.at = "saving" => /\ new.id \in 1 .. made' /\ new.saved \in 1 .. Len(Params)
                              /\ new.id = made' \/ (job[t].at = "saving" /\ new.id = job[t].id)
                              /\ new.id > made \/ (job[t].at = "saving" /\ new.id = job[t].id)
                              /\ new.snap \subseteq Setting
                              /\ \A before \in new.snap, p \in ParamSet : before[p] < new.id,
         \A r \in rows' : r.id \in 1 .. made' /\ r.old < r.id,
         \A s \in Strategies, p \in ParamSet : live'[s][p] <= made',
         UNCHANGED <<aged, check>>
  PROVE  Dated'
<1>0. Dated /\ made \in Nat /\ check \in CheckRecord
  BY DEF Sound, Types
<1>1. Saving' \subseteq Saving \cup (IF new.at = "saving" THEN {new.id} ELSE {})
  BY DEF Saving
<1>2. aged' \subseteq (1 .. made') \ Saving'
  <2>1. aged \subseteq (1 .. made) \ Saving
    BY <1>0 DEF Dated
  <2>2. new.at = "saving" => new.id \notin aged
    <3> SUFFICES ASSUME new.at = "saving" PROVE new.id \notin aged
      OBVIOUS
    <3>1. CASE new.id > made
      BY <1>0, <2>1, <3>1
    <3>2. CASE job[t].at = "saving" /\ new.id = job[t].id
      BY <2>1, <3>2 DEF Saving
    <3> QED
      BY <3>1, <3>2
  <2> QED
    BY <1>0, <1>1, <2>1, <2>2
<1>3. \A u \in Jobs : job'[u].at = "saving" =>
        /\ job'[u].id \in 1 .. made' /\ job'[u].saved \in 1 .. Len(Params)
        /\ job'[u].snap \subseteq Setting
        /\ \A before \in job'[u].snap, p \in ParamSet : before[p] < job'[u].id
  BY <1>0 DEF Dated
<1>4. \A u \in Jobs : job'[u].at \in {"evaluating", "optimizing"} => job'[u].saved = 0
  BY <1>0 DEF Dated
<1>5. \A u \in Jobs : job'[u].at = "undoing" =>
        job'[u].snap \subseteq Row /\ \A r \in job'[u].snap : r.old < r.id /\ r.id <= made'
  <2> SUFFICES ASSUME NEW u \in Jobs, job'[u].at = "undoing"
               PROVE  job'[u].snap \subseteq Row /\ \A r \in job'[u].snap : r.old < r.id /\ r.id <= made'
    OBVIOUS
  <2>1. job'[u] = job[u]
    OBVIOUS
  <2>2. job[u].snap \subseteq Row /\ \A r \in job[u].snap : r.old < r.id /\ r.id <= made /\ r.id \in Nat
    BY <1>0, <2>1 DEF Dated, Row
  <2> QED
    BY <1>0, <2>1, <2>2
<1>6. check.todo \cup check.undone \subseteq 1 .. made' /\ \A r \in check.snap : r.old < r.id /\ r.id <= made'
  <2>1. \A r \in check.snap : r.id \in Nat
    BY <1>0 DEF CheckRecord, Row
  <2> QED
    BY <1>0, <2>1 DEF Dated
<1> QED
  BY <1>0, <1>2, <1>3, <1>4, <1>5, <1>6 DEF Dated

LEMMA SoundStep ==
  ASSUME Sound, [Next]_vars
  PROVE  Sound'
<1>0. Types /\ Dated /\ made \in Nat /\ \A u \in Jobs : job[u] \in JobRecord
  BY DEF Sound, Types
<1>1. ASSUME NEW t \in Jobs, NEW s \in Strategies, SessionBegin(t, s)
      PROVE  Sound'
  <2> DEFINE new == [Idle EXCEPT !.at = "evaluating", !.strategy = s]
  <2>1. new \in JobRecord /\ new.at = "evaluating" /\ new.saved = 0
    BY <1>0, JobSteps
  <2>2. job' = [job EXCEPT ![t] = new] /\ UNCHANGED <<deployment, aged, live, rows, made, check, count, lost, decided>>
    BY <1>1 DEF SessionBegin, env, history
  <2> HIDE DEF new
  <2>3. job' \in [Jobs -> JobRecord] /\ \A u \in Jobs : job'[u] = IF u = t THEN new ELSE job[u]
    BY <1>0, <2>1, <2>2, OneMoves
  <2>4. Saving' \subseteq Saving
    BY <2>1, <2>3 DEF Saving
  <2> QED
    BY <1>0, <2>1, <2>2, <2>3, <2>4 DEF Sound, Types, Dated
<1>2. ASSUME NEW t \in Jobs, SessionEnds(t) \/ SaveDone(t)
      PROVE  Sound'
  <2>1. job' = [job EXCEPT ![t] = Idle] /\ UNCHANGED <<deployment, aged, live, rows, made, check, count, lost, decided>>
    BY <1>2 DEF SessionEnds, SaveDone, env, history
  <2>2. job' \in [Jobs -> JobRecord] /\ \A u \in Jobs : job'[u] = IF u = t THEN Idle ELSE job[u]
    BY <1>0, <2>1, OneMoves, IdleJob
  <2>3. Saving' \subseteq Saving
    BY <2>2, IdleJob DEF Saving
  <2> QED
    BY <1>0, <2>1, <2>2, <2>3, IdleJob DEF Sound, Types, Dated
<1>3. ASSUME NEW t \in Jobs, Evaluated(t)
      PROVE  Sound'
  <2> DEFINE new == [job[t] EXCEPT !.at = "optimizing"]
  <2>1. new \in JobRecord /\ new.at = "optimizing" /\ new.saved = job[t].saved /\ job[t].at = "evaluating"
    BY <1>0, <1>3, JobSteps DEF Evaluated
  <2>2. job' = [job EXCEPT ![t] = new] /\ UNCHANGED <<deployment, aged, live, rows, made, check, count, lost, decided>>
    BY <1>0, <1>3, JobSteps DEF Evaluated, env, history
  <2> HIDE DEF new
  <2>3. job' \in [Jobs -> JobRecord] /\ \A u \in Jobs : job'[u] = IF u = t THEN new ELSE job[u]
    BY <1>0, <2>1, <2>2, OneMoves
  <2>4. Saving' \subseteq Saving
    BY <2>1, <2>3 DEF Saving
  <2> QED
    BY <1>0, <2>1, <2>2, <2>3, <2>4 DEF Sound, Types, Dated
<1>4. ASSUME NEW t \in Jobs, Apply(t)
      PROVE  Sound'
  <2> DEFINE k == made + 1
             before == live[job[t].strategy]
             j == [job[t] EXCEPT !.id = k, !.snap = {before}]
  <2>1. Applied(t) /\ job[t].saved = 0
    BY <1>0, <1>4, ApplyApplies DEF Dated, Apply
  <2>2. /\ made' = k /\ k \in Nat /\ live' \in [Strategies -> Setting]
        /\ \A s \in Strategies, p \in ParamSet : live'[s][p] \in Int /\ live'[s][p] <= k
        /\ before \in Setting /\ \A p \in ParamSet : before[p] \in Int /\ before[p] < k
        /\ UNCHANGED <<deployment, aged, check, count, decided>>
    <3>1. made' = k /\ live' \in [Strategies -> Setting] /\ UNCHANGED <<deployment, aged, check, count, decided>>
      BY <2>1 DEF Applied
    <3>2. job[t].strategy \in Strategies /\ live \in [Strategies -> Setting]
      BY <1>0 DEF Types, JobRecord
    <3>3. before \in Setting /\ \A p \in ParamSet : before[p] \in Int /\ before[p] <= made
      BY <1>0, <3>2 DEF Dated, Setting
    <3>4. ASSUME NEW s \in Strategies, NEW p \in ParamSet
          PROVE  live'[s][p] \in Int /\ live'[s][p] <= k
      <4>1. live'[s][p] \in Int /\ live[s][p] \in Int /\ live[s][p] <= made
        BY <1>0, <3>1, <3>2 DEF Dated, Setting
      <4>2. live'[s][p] = live[s][p] \/ live'[s][p] = k
        BY <2>1 DEF Applied
      <4> QED
        BY <1>0, <4>1, <4>2
    <3> QED
      BY <1>0, <3>1, <3>3, <3>4
  <2>3. CASE lost' = lost /\ \E new : Saves(t, j, before[Params[1]], new)
    <3>1. PICK new : Saves(t, j, before[Params[1]], new)
      BY <2>3
    <3>2. j.id = k /\ j.snap = {before} /\ j.saved = 0
      BY <1>0, <2>1, <2>2, ApplyJob0
    <3> HIDE DEF j, before
    <3>3. /\ new \in JobRecord /\ new.at = "saving" /\ new.id = k /\ new.snap = {before} /\ new.saved = 1
          /\ job' = [job EXCEPT ![t] = new]
      BY <3>1, <3>2 DEF Saves
    <3>4. job' \in [Jobs -> JobRecord] /\ \A u \in Jobs : job'[u] = IF u = t THEN new ELSE job[u]
      BY <1>0, <3>3, OneMoves
    <3>5. Saving' \subseteq Saving \cup {k}
      BY <3>3, <3>4 DEF Saving
    <3>6. /\ rows' \subseteq Row /\ \A r \in rows' : r \in rows \/ (r.id = k /\ r.old = before[Params[1]])
      BY <1>0, <3>1, <3>2 DEF Saves, NewRow, Types
    <3>7. 1 \in 1 .. Len(Params) /\ Params[1] \in ParamSet
      BY Ground0
    <3>8. before[Params[1]] < k
      BY <2>2, <3>7
    <3>9. Types'
      BY <1>0, <2>2, <2>3, <3>4, <3>6 DEF Types
    <3>10. \A r \in rows' : r.id \in 1 .. k /\ r.old < r.id
      BY <1>0, <2>2, <3>6, <3>8 DEF Dated, Types, Row
    <3>11. \A b \in new.snap, p \in ParamSet : b[p] < new.id
      BY <2>2, <3>3
    <3>12. Dated'
      BY <1>0, <2>2, <3>3, <3>4, <3>7, <3>10, <3>11, DatedAgain DEF Sound
    <3> QED
      BY <3>9, <3>12 DEF Sound
  <2>4. CASE lost' = lost \cup {k} /\ job' = [job EXCEPT ![t] = Idle] /\ UNCHANGED rows
    <3>1. job' \in [Jobs -> JobRecord] /\ \A u \in Jobs : job'[u] = IF u = t THEN Idle ELSE job[u]
      BY <1>0, <2>4, OneMoves, IdleJob
    <3>2. Saving' \subseteq Saving
      BY <3>1, IdleJob DEF Saving
    <3>3. Types'
      BY <1>0, <2>2, <2>4, <3>1 DEF Types
    <3>4. \A r \in rows' : r.id \in 1 .. k /\ r.old < r.id
      BY <1>0, <2>2, <2>4 DEF Dated, Types, Row
    <3>5. Dated'
      BY <1>0, <2>2, <3>1, <3>4, IdleJob, DatedAgain DEF Sound
    <3> QED
      BY <3>3, <3>5 DEF Sound
  <2> QED
    BY <2>1, <2>3, <2>4 DEF Applied
<1>5. ASSUME NEW t \in Jobs, SaveNext(t)
      PROVE  Sound'
  <2>1. /\ job[t].at = "saving" /\ job[t].saved < Len(Params) /\ job[t].saved \in Nat /\ job[t].id \in 1 .. made
        /\ UNCHANGED <<deployment, aged, live, made, check, count, decided>>
    BY <1>0, <1>5 DEF SaveNext, Remaining, JobRecord, Dated, env
  <2>2. CASE \E before \in job[t].snap : SaveRow(t, job[t], before[Params[job[t].saved + 1]]) /\ lost' = lost
    <3> DEFINE p == Params[job[t].saved + 1]
    <3>1. PICK before \in job[t].snap : SaveRow(t, job[t], before[p]) /\ lost' = lost
      BY <2>2
    <3>2. job[t].saved + 1 \in 1 .. Len(Params) /\ p \in ParamSet
      BY <2>1, Ground0
    <3>3. before[p] \in Int /\ before[p] < job[t].id
      BY <1>0, <2>1, <3>1, <3>2 DEF Dated, Setting
    <3>4. PICK new : Saves(t, job[t], before[p], new)
      BY <1>0, <2>1, <3>1, <3>3, SaveRowSaves
    <3>5. job' \in [Jobs -> JobRecord] /\ \A u \in Jobs : job'[u] = IF u = t THEN new ELSE job[u]
      BY <1>0, <3>4, OneMoves DEF Saves
    <3>6. Saving' \subseteq Saving
      BY <2>1, <3>4, <3>5 DEF Saving, Saves
    <3>7. rows' \subseteq Row /\ \A r \in rows' : r \in rows \/ (r.id = job[t].id /\ r.old = before[p])
      BY <1>0, <3>4 DEF Saves, NewRow, Types
    <3>8. Types'
      BY <1>0, <2>1, <3>1, <3>5, <3>7 DEF Types
    <3>9. Dated'
      BY <1>0, <2>1, <3>2, <3>3, <3>4, <3>5, <3>6, <3>7 DEF Dated, Saves
    <3> QED
      BY <3>8, <3>9 DEF Sound
  <2>3. CASE Dropped(t, job[t].id)
    <3>1. job' = [job EXCEPT ![t] = Idle] /\ lost' = lost \cup {job[t].id} /\ UNCHANGED rows
      BY <2>3 DEF Dropped
    <3>2. job' \in [Jobs -> JobRecord] /\ \A u \in Jobs : job'[u] = IF u = t THEN Idle ELSE job[u]
      BY <1>0, <3>1, OneMoves, IdleJob
    <3>3. Saving' \subseteq Saving
      BY <3>2, IdleJob DEF Saving
    <3>4. Types'
      <4>1. job[t].id \in Nat
        BY <2>1, <1>0
      <4> QED
        BY <1>0, <2>1, <3>1, <3>2, <4>1 DEF Types
    <3>5. Dated'
      BY <1>0, <2>1, <3>1, <3>2, <3>3, IdleJob DEF Dated
    <3> QED
      BY <3>4, <3>5 DEF Sound
  <2> QED
    BY <1>5, <2>2, <2>3 DEF SaveNext
<1>6. ASSUME NEW t \in Jobs, NEW k \in 1 .. made, RollbackBegin(t, k)
      PROVE  Sound'
  <2> DEFINE snap == {r \in rows : r.id = k}
             new == [Idle EXCEPT !.at = "undoing", !.id = k, !.snap = snap]
  <2>1. snap \in SUBSET Row /\ \A r \in snap : r \in rows
    BY <1>0 DEF Types
  <2>2. job' = [job EXCEPT ![t] = new] /\ UNCHANGED <<deployment, aged, live, rows, made, check, count, lost, decided>>
    BY <1>6 DEF RollbackBegin, env, history
  <2> HIDE DEF snap
  <2>3. new \in JobRecord /\ new.at = "undoing" /\ new.id = k /\ new.snap = snap
    <3>1. k \in Nat /\ snap \in SUBSET Row
      BY <1>0, <2>1
    <3> QED
      BY <3>1, UndoingJob
  <2> HIDE DEF new
  <2>4. job' \in [Jobs -> JobRecord] /\ \A u \in Jobs : job'[u] = IF u = t THEN new ELSE job[u]
    BY <1>0, <2>2, <2>3, OneMoves
  <2>5. Saving' \subseteq Saving
    BY <2>3, <2>4 DEF Saving
  <2> QED
    BY <1>0, <2>1, <2>2, <2>3, <2>4, <2>5 DEF Sound, Types, Dated
<1>7. ASSUME NEW t \in Jobs, RollbackEnd(t)
      PROVE  Sound'
  <2>1. /\ job[t].at = "undoing" /\ live' = Restored(job[t].snap) /\ job' = [job EXCEPT ![t] = Idle]
        /\ rows' = Marked(job[t].id, "rolled_back") \/ rows' = rows
        /\ UNCHANGED <<deployment, aged, made, check, count, lost, decided>>
    BY <1>7 DEF RollbackEnd, env, history
  <2>2. job' \in [Jobs -> JobRecord] /\ \A u \in Jobs : job'[u] = IF u = t THEN Idle ELSE job[u]
    BY <1>0, <2>1, OneMoves, IdleJob
  <2>3. Saving' \subseteq Saving
    BY <2>2, IdleJob DEF Saving
  <2>4. job[t].snap \in SUBSET Row /\ \A r \in job[t].snap : r.old <= made
    BY <1>0, <2>1 DEF Dated, Row
  <2>5. live' \in [Strategies -> Setting] /\ \A s \in Strategies, p \in ParamSet : live'[s][p] <= made
    BY <1>0, <2>1, <2>4, RestoredValues DEF Dated
  <2>6. rows' \subseteq Row /\ \A q \in rows' : \E r \in rows : Same(r, q)
    <3>1. CASE rows' = rows
      BY <1>0, <3>1 DEF Same, Types
    <3>2. CASE rows' = Marked(job[t].id, "rolled_back")
      <4>1. "rolled_back" \in Statuses
        BY DEF Statuses
      <4> QED
        BY <1>0, <3>2, <4>1, MarkedRows
    <3> QED
      BY <2>1, <3>1, <3>2
  <2>7. Types'
    BY <1>0, <2>1, <2>2, <2>5, <2>6 DEF Types
  <2>8. Dated'
    BY <1>0, <2>1, <2>2, <2>3, <2>5, <2>6, IdleJob DEF Dated, Same
  <2> QED
    BY <2>7, <2>8 DEF Sound
<1>8. ASSUME NEW k \in 1 .. made, Reject(k)
      PROVE  Sound'
  <2>1. rows' = Marked(k, "rejected") /\ UNCHANGED <<deployment, aged, live, made, job, check, count, lost, decided>>
    BY <1>8 DEF Reject, env, history
  <2>2. rows' \subseteq Row /\ \A q \in rows' : \E r \in rows : Same(r, q)
    BY <1>0, <2>1, MarkedRows DEF Statuses
  <2> QED
    BY <1>0, <2>1, <2>2 DEF Sound, Types, Dated, Same, Saving
<1>9. ASSUME NEW s \in Strategies, ApplyPreset(s)
      PROVE  Sound'
  <2>1. PICK v \in Presets : live' = [live EXCEPT ![s] = Preset(v)]
    BY <1>9 DEF ApplyPreset
  <2>2. Preset(v) \in Setting /\ \A p \in ParamSet : Preset(v)[p] <= made
    BY <1>0 DEF Preset, Presets, Setting
  <2>3. live' \in [Strategies -> Setting] /\ \A u \in Strategies, p \in ParamSet : live'[u][p] <= made
    BY <1>0, <2>1, <2>2 DEF Types, Dated
  <2> QED
    BY <1>0, <1>9, <2>3 DEF ApplyPreset, history, Sound, Types, Dated, Saving
<1>10. CASE WindowEnds
  BY <1>0, <1>10 DEF WindowEnds, history, Sound, Types, Dated, Saving
<1>11. CASE Restart
  <2>1. /\ live' = [s \in Strategies |-> Preset(0)] /\ job' = [t \in Jobs |-> Idle] /\ check' = NoCheck
        /\ count' = 0 /\ decided' = <<>> /\ lost' = lost \cup Saving
        /\ UNCHANGED <<deployment, aged, rows, made>>
    BY <1>11 DEF Restart
  <2>2. Preset(0) \in Setting /\ \A p \in ParamSet : Preset(0)[p] <= made
    BY <1>0 DEF Preset, Setting
  <2>3. job' \in [Jobs -> JobRecord] /\ \A u \in Jobs : job'[u].at = "idle"
    BY <2>1, IdleJob
  <2>4. Saving' = {}
    BY <2>3 DEF Saving
  <2>5. Saving \subseteq Nat
    BY <1>0 DEF Saving, JobRecord
  <2>6. <<>> \in Seq(Nat)
    OBVIOUS
  <2>7. Types'
    BY <1>0, <2>1, <2>2, <2>3, <2>5, <2>6, NoCheckRecord DEF Types
  <2>8. Dated'
    BY <1>0, <2>1, <2>2, <2>3, <2>4, NoCheckRecord DEF Dated
  <2> QED
    BY <2>7, <2>8 DEF Sound
<1>12. CASE Check
  BY <1>0, <1>12, SoundCheck DEF Sound
<1>13. CASE UNCHANGED vars
  BY <1>13 DEF vars, env, history, Sound, Types, Dated, Saving
<1> QED
  BY <1>1, <1>2, <1>3, <1>4, <1>5, <1>6, <1>7, <1>8, <1>9, <1>10, <1>11, <1>12, <1>13 DEF Next, Session

-----------------------------------------------------------------------------
(* Every value has its row *)

LEMMA ParamsInOrder == \A p \in ParamSet : \E n \in 1 .. Len(Params) : Params[n] = p
<1>1. Params \in Seq(Range(Params))
  BY TunerAssumption
<1>2. DOMAIN Params = 1 .. Len(Params)
  BY <1>1
<1> QED
  BY <1>2 DEF ParamSet, Range

(* No row goes away, and a session ends when its rows are saved or when    *)
(* its tuning is lost.                                                     *)
Keeps ==
  /\ \A r \in rows : \E q \in rows' : Same(r, q)
  /\ lost \subseteq lost'
  /\ \A u \in Jobs : job[u].at = "saving" =>
       \/ job'[u].at = "saving" /\ job'[u].id = job[u].id /\ job'[u].strategy = job[u].strategy
       \/ job[u].id \in lost'
       \/ ~Remaining(job[u])

LEMMA TracedKept ==
  ASSUME Sound, Recorded, Keeps, NEW s \in Strategies, NEW p \in ParamSet, NEW v, TracedNow(s, p, v)
  PROVE  Traced(rows', job', lost', s, p, v)
<1>1. CASE v \in Presets \cup lost
  BY <1>1 DEF Traced, Keeps
<1>2. CASE HasRow(rows, s, p, v)
  <2>1. PICK r \in rows : r.id = v /\ r.strategy = s /\ r.param = p
    BY <1>2 DEF HasRow
  <2>2. PICK q \in rows' : Same(r, q)
    BY <2>1 DEF Keeps
  <2> QED
    BY <2>1, <2>2 DEF Same, HasRow, Traced
<1>3. CASE InSaving(job, s, v)
  <2>1. PICK u \in Jobs : job[u].at = "saving" /\ job[u].id = v /\ job[u].strategy = s
    BY <1>3 DEF InSaving
  <2>2. CASE job'[u].at = "saving" /\ job'[u].id = job[u].id /\ job'[u].strategy = job[u].strategy
    BY <2>1, <2>2 DEF InSaving, Traced
  <2>3. CASE job[u].id \in lost'
    BY <2>1, <2>3 DEF Traced
  <2>4. CASE ~Remaining(job[u])
    <3>1. job[u].saved = Len(Params)
      BY <2>1, <2>4, Ground0 DEF Sound, Dated, Remaining
    <3>2. PICK n \in 1 .. Len(Params) : Params[n] = p
      BY ParamsInOrder
    <3>3. HasRow(rows, s, p, v)
      BY <2>1, <3>1, <3>2 DEF Recorded
    <3>4. PICK r \in rows : r.id = v /\ r.strategy = s /\ r.param = p
      BY <3>3 DEF HasRow
    <3>5. PICK q \in rows' : Same(r, q)
      BY <3>4 DEF Keeps
    <3> QED
      BY <3>4, <3>5 DEF Same, HasRow, Traced
  <2> QED
    BY <2>1, <2>2, <2>3, <2>4 DEF Keeps
<1> QED
  BY <1>1, <1>2, <1>3 DEF TracedNow, Traced

(* What a step may put in each place a value can be in.                    *)
LEMMA RecordedAgain ==
  ASSUME Sound, Sound', Recorded, Keeps,
         \A s \in Strategies, p \in ParamSet :
            TracedNow(s, p, live'[s][p]) \/ Traced(rows', job', lost', s, p, live'[s][p]),
         \A q \in rows' : (\E r \in rows : Same(r, q)) \/ TracedNow(q.strategy, q.param, q.old),
         check'.snap \subseteq check.snap \cup rows,
         \A u \in Jobs : job'[u].at = "undoing" => job'[u] = job[u] \/ job'[u].snap \subseteq rows,
         \A u \in Jobs : job'[u].at = "saving" =>
            \/ job'[u] = job[u]
            \/ /\ \A before \in job'[u].snap, p \in ParamSet : TracedNow(job'[u].strategy, p, before[p])
               /\ \A n \in 1 .. job'[u].saved : HasRow(rows', job'[u].strategy, Params[n], job'[u].id)
  PROVE  Recorded'
<1>0. Types /\ Types' /\ Dated /\ \A n \in 1 .. Len(Params) : Params[n] \in ParamSet
  BY Ground0 DEF Sound
<1>1. \A s \in Strategies, p \in ParamSet : Traced(rows', job', lost', s, p, live'[s][p])
  BY TracedKept
<1>2. ASSUME NEW r \in Row, TracedNow(r.strategy, r.param, r.old)
      PROVE  Traced(rows', job', lost', r.strategy, r.param, r.old)
  <2>1. r.strategy \in Strategies /\ r.param \in ParamSet
    BY DEF Row
  <2> QED
    BY <1>2, <2>1, TracedKept
<1>3. ASSUME NEW q \in rows'
      PROVE  Traced(rows', job', lost', q.strategy, q.param, q.old)
  <2>0. q \in Row
    BY <1>0 DEF Types
  <2>1. CASE TracedNow(q.strategy, q.param, q.old)
    BY <1>2, <2>0, <2>1
  <2>2. ASSUME NEW r \in rows, Same(r, q)
        PROVE  Traced(rows', job', lost', q.strategy, q.param, q.old)
    <3>1. TracedNow(r.strategy, r.param, r.old) /\ r \in Row
      BY <1>0 DEF Recorded, Types
    <3> QED
      BY <1>2, <2>2, <3>1 DEF Same
  <2> QED
    BY <2>1, <2>2
<1>4. ASSUME NEW r \in check'.snap
      PROVE  Traced(rows', job', lost', r.strategy, r.param, r.old)
  <2>1. r \in Row
    BY <1>0 DEF Types, CheckRecord
  <2>2. TracedNow(r.strategy, r.param, r.old)
    BY DEF Recorded
  <2> QED
    BY <1>2, <2>1, <2>2
<1>5. ASSUME NEW u \in Jobs, job'[u].at = "undoing", NEW r \in job'[u].snap
      PROVE  Traced(rows', job', lost', r.strategy, r.param, r.old)
  <2>1. CASE job'[u] = job[u]
    <3>1. r \in Row
      BY <1>0, <1>5, <2>1 DEF Dated
    <3>2. TracedNow(r.strategy, r.param, r.old)
      BY <1>5, <2>1 DEF Recorded
    <3> QED
      BY <1>2, <3>1, <3>2
  <2>2. CASE job'[u].snap \subseteq rows
    <3>1. r \in Row /\ TracedNow(r.strategy, r.param, r.old)
      BY <1>0, <1>5, <2>2 DEF Recorded, Types
    <3> QED
      BY <1>2, <3>1
  <2> QED
    BY <1>5, <2>1, <2>2
<1>6. ASSUME NEW u \in Jobs, job'[u].at = "saving"
      PROVE  /\ \A before \in job'[u].snap, p \in ParamSet :
                  Traced(rows', job', lost', job'[u].strategy, p, before[p])
             /\ \A n \in 1 .. job'[u].saved : HasRow(rows', job'[u].strategy, Params[n], job'[u].id)
  <2>0. job'[u].strategy \in Strategies
    BY <1>0 DEF Types, JobRecord
  <2>1. \A before \in job'[u].snap, p \in ParamSet : TracedNow(job'[u].strategy, p, before[p])
    BY <1>6 DEF Recorded
  <2>2. ASSUME job'[u] = job[u], NEW n \in 1 .. job'[u].saved
        PROVE  HasRow(rows', job'[u].strategy, Params[n], job'[u].id)
    <3>1. PICK r \in rows : r.id = job[u].id /\ r.strategy = job[u].strategy /\ r.param = Params[n]
      BY <1>6, <2>2 DEF Recorded, HasRow
    <3>2. PICK q \in rows' : Same(r, q)
      BY <3>1 DEF Keeps
    <3> QED
      BY <2>2, <3>1, <3>2 DEF Same, HasRow
  <2> QED
    BY <1>6, <2>0, <2>1, <2>2, TracedKept
<1> QED
  BY <1>1, <1>3, <1>4, <1>5, <1>6 DEF Recorded, TracedNow

LEMMA SameRows == ASSUME rows' = rows PROVE \A r \in rows : \E q \in rows' : Same(r, q)
  BY DEF Same

LEMMA RowsMarked ==
  ASSUME Types, NEW k, NEW status \in Statuses, rows' \in {rows, Marked(k, status)}
  PROVE  /\ \A r \in rows : \E q \in rows' : Same(r, q)
         /\ \A q \in rows' : \E r \in rows : Same(r, q)
<1>1. CASE rows' = rows
  BY <1>1 DEF Same
<1>2. CASE rows' = Marked(k, status)
  BY <1>2, MarkedRows
<1> QED
  BY <1>1, <1>2

(* What comes back is an old value of a row.                               *)
LEMMA RestoredTraced ==
  ASSUME Types, Recorded, NEW snap \in SUBSET Row,
         \A r \in snap : TracedNow(r.strategy, r.param, r.old),
         NEW s \in Strategies, NEW p \in ParamSet
  PROVE  TracedNow(s, p, Restored(snap)[s][p])
<1>1. CASE Restored(snap)[s][p] = live[s][p]
  BY <1>1 DEF Recorded
<1>2. CASE \E r \in snap : r.strategy = s /\ r.param = p /\ Restored(snap)[s][p] = r.old
  BY <1>2
<1> QED
  BY <1>1, <1>2, RestoredValues

LEMMA RecordedStep ==
  ASSUME Sound, Sound', Recorded, [Next]_vars
  PROVE  Recorded'
<1>0. Types /\ Dated /\ made \in Nat /\ \A u \in Jobs : job[u] \in JobRecord
  BY DEF Sound, Types
<1> DEFINE Again == /\ Keeps
                    /\ \A s \in Strategies, p \in ParamSet :
                         TracedNow(s, p, live'[s][p]) \/ Traced(rows', job', lost', s, p, live'[s][p])
                    /\ \A q \in rows' : (\E r \in rows : Same(r, q)) \/ TracedNow(q.strategy, q.param, q.old)
                    /\ check'.snap \subseteq check.snap \cup rows
                    /\ \A u \in Jobs : job'[u].at = "undoing" => job'[u] = job[u] \/ job'[u].snap \subseteq rows
                    /\ \A u \in Jobs : job'[u].at = "saving" =>
                         \/ job'[u] = job[u]
                         \/ /\ \A before \in job'[u].snap, p \in ParamSet : TracedNow(job'[u].strategy, p, before[p])
                            /\ \A n \in 1 .. job'[u].saved : HasRow(rows', job'[u].strategy, Params[n], job'[u].id)
<1>a. \A s \in Strategies, p \in ParamSet : TracedNow(s, p, live[s][p])
  BY DEF Recorded
<1>b. \A r \in rows : Same(r, r)
  BY DEF Same
<1>1. ASSUME NEW t \in Jobs, NEW new \in JobRecord, job' = [job EXCEPT ![t] = new],
             job[t].at = "saving" => ~Remaining(job[t]) \/ job[t].id \in lost',
             new.at # "saving", new.at = "undoing" => new.snap \subseteq rows,
             lost \subseteq lost', UNCHANGED <<live, rows, check>>
      PROVE  Again
  <2>1. \A u \in Jobs : job'[u] = IF u = t THEN new ELSE job[u]
    BY <1>0, <1>1, OneMoves
  <2>2. Keeps
    BY <1>1, <1>b, <2>1 DEF Keeps
  <2> QED
    BY <1>1, <1>a, <1>b, <2>1, <2>2
<1>2. ASSUME NEW t \in Jobs, NEW s \in Strategies, SessionBegin(t, s)
      PROVE  Again
  <2> DEFINE new == [Idle EXCEPT !.at = "evaluating", !.strategy = s]
  <2>1. new \in JobRecord /\ new.at = "evaluating"
    BY <1>0, JobSteps
  <2>2. job' = [job EXCEPT ![t] = new] /\ job[t].at = "idle" /\ UNCHANGED <<live, rows, check, lost>>
    BY <1>2 DEF SessionBegin, history
  <2> HIDE DEF new, Again
  <2> QED
    BY <1>1, <2>1, <2>2
<1>3. ASSUME NEW t \in Jobs, SessionEnds(t) \/ SaveDone(t)
      PROVE  Again
  <2>1. job' = [job EXCEPT ![t] = Idle] /\ UNCHANGED <<live, rows, check, lost>>
        /\ (job[t].at = "saving" => ~Remaining(job[t]))
    BY <1>3 DEF SessionEnds, SaveDone, history
  <2> HIDE DEF Again
  <2> QED
    BY <1>1, <2>1, IdleJob
<1>4. ASSUME NEW t \in Jobs, Evaluated(t)
      PROVE  Again
  <2> DEFINE new == [job[t] EXCEPT !.at = "optimizing"]
  <2>1. new \in JobRecord /\ new.at = "optimizing"
    BY <1>0, JobSteps
  <2>2. job' = [job EXCEPT ![t] = new] /\ job[t].at = "evaluating" /\ UNCHANGED <<live, rows, check, lost>>
    BY <1>0, <1>4, JobSteps DEF Evaluated, history
  <2> HIDE DEF new, Again
  <2> QED
    BY <1>1, <2>1, <2>2
<1>5. ASSUME NEW t \in Jobs, Apply(t)
      PROVE  Again
  <2> DEFINE k == made + 1
             now == job[t].strategy
             before == live[now]
             j == [job[t] EXCEPT !.id = k, !.snap = {before}]
  <2>1. Applied(t) /\ job[t].saved = 0 /\ job[t].at = "optimizing" /\ now \in Strategies
    BY <1>0, <1>5, ApplyApplies DEF Dated, Apply, JobRecord
  <2>2. /\ UNCHANGED check
        /\ \A s \in Strategies, p \in ParamSet : live'[s][p] = live[s][p] \/ (s = now /\ live'[s][p] = k)
    BY <2>1 DEF Applied
  <2>3. \A p \in ParamSet : TracedNow(now, p, before[p])
    BY <1>a, <2>1
  <2>4. CASE lost' = lost /\ \E new : Saves(t, j, before[Params[1]], new)
    <3>1. PICK new : Saves(t, j, before[Params[1]], new)
      BY <2>4
    <3>2. before \in Setting /\ k \in Nat
      BY <1>0, <2>1 DEF Types
    <3>3. j.id = k /\ j.snap = {before} /\ j.saved = 0 /\ j.strategy = now
      BY <1>0, <2>1, <3>2, ApplyJob0
    <3>4. Params[1] \in ParamSet
      BY Ground0
    <3> DEFINE row == NewRow(j, before[Params[1]])
    <3>5. row.id = k /\ row.strategy = now /\ row.param = Params[1] /\ row.old = before[Params[1]]
      BY <3>3 DEF NewRow
    <3> HIDE DEF j, before, row, now, k
    <3>6. /\ new \in JobRecord /\ new.at = "saving" /\ new.id = k /\ new.snap = {before} /\ new.saved = 1
          /\ new.strategy = now /\ job' = [job EXCEPT ![t] = new] /\ rows' = rows \cup {row}
      BY <3>1, <3>3 DEF Saves, row
    <3>7. \A u \in Jobs : job'[u] = IF u = t THEN new ELSE job[u]
      BY <1>0, <3>6, OneMoves
    <3>8. Keeps
      BY <1>b, <2>1, <2>4, <3>6, <3>7 DEF Keeps
    <3>9. \A n \in 1 .. new.saved : HasRow(rows', now, Params[n], k)
      <4>1. \A n \in 1 .. new.saved : n = 1
        BY <3>6
      <4> QED
        BY <3>5, <3>6, <4>1 DEF HasRow
    <3>10. InSaving(job', now, k)
      BY <3>6, <3>7 DEF InSaving
    <3>11. \A s \in Strategies, p \in ParamSet :
             TracedNow(s, p, live'[s][p]) \/ Traced(rows', job', lost', s, p, live'[s][p])
      BY <1>a, <2>2, <3>10 DEF Traced
    <3>12. \A b \in new.snap, p \in ParamSet : TracedNow(now, p, b[p])
      BY <2>3, <3>6
    <3>13. TracedNow(row.strategy, row.param, row.old)
      BY <2>3, <3>4, <3>5
    <3> QED
      BY <1>b, <2>2, <3>6, <3>7, <3>8, <3>9, <3>11, <3>12, <3>13
  <2>5. CASE lost' = lost \cup {k} /\ job' = [job EXCEPT ![t] = Idle] /\ UNCHANGED rows
    <3>1. \A u \in Jobs : job'[u] = IF u = t THEN Idle ELSE job[u]
      BY <1>0, <2>5, OneMoves, IdleJob
    <3>2. Keeps
      BY <1>b, <2>1, <2>5, <3>1 DEF Keeps
    <3>3. \A s \in Strategies, p \in ParamSet :
             TracedNow(s, p, live'[s][p]) \/ Traced(rows', job', lost', s, p, live'[s][p])
      BY <1>a, <2>2, <2>5 DEF Traced
    <3> QED
      BY <1>b, <2>2, <2>5, <3>1, <3>2, <3>3, IdleJob
  <2> QED
    BY <2>1, <2>4, <2>5 DEF Applied
<1>6. ASSUME NEW t \in Jobs, SaveNext(t)
      PROVE  Again
  <2> DEFINE id == job[t].id
             now == job[t].strategy
             next == job[t].saved + 1
             p == Params[next]
  <2>1. /\ job[t].at = "saving" /\ job[t].saved < Len(Params) /\ job[t].saved \in Nat
        /\ UNCHANGED <<live, check>>
    BY <1>0, <1>6 DEF SaveNext, Remaining, JobRecord
  <2>2. CASE \E before \in job[t].snap : SaveRow(t, job[t], before[p]) /\ lost' = lost
    <3>1. PICK before \in job[t].snap : SaveRow(t, job[t], before[p]) /\ lost' = lost
      BY <2>2
    <3>2. next \in 1 .. Len(Params) /\ p \in ParamSet
      BY <2>1, Ground0
    <3>3. before[p] \in Int
      BY <1>0, <2>1, <3>1, <3>2 DEF Dated, Setting
    <3>4. PICK new : Saves(t, job[t], before[p], new)
      BY <1>0, <2>1, <3>1, <3>3, SaveRowSaves
    <3> DEFINE row == NewRow(job[t], before[p])
    <3>5. row.id = id /\ row.strategy = now /\ row.param = p /\ row.old = before[p]
      BY DEF NewRow
    <3> HIDE DEF row
    <3>6. /\ new \in JobRecord /\ new.at = "saving" /\ new.id = id /\ new.snap = job[t].snap /\ new.saved = next
          /\ new.strategy = now /\ job' = [job EXCEPT ![t] = new] /\ rows' = rows \cup {row}
      BY <3>4 DEF Saves, row
    <3>7. \A u \in Jobs : job'[u] = IF u = t THEN new ELSE job[u]
      BY <1>0, <3>6, OneMoves
    <3>8. Keeps
      BY <1>b, <2>1, <3>1, <3>6, <3>7 DEF Keeps
    <3>9. \A b \in job[t].snap, q \in ParamSet : TracedNow(now, q, b[q])
      BY <2>1 DEF Recorded
    <3>10. \A n \in 1 .. new.saved : HasRow(rows', now, Params[n], id)
      <4>1. ASSUME NEW n \in 1 .. next
            PROVE  n = next \/ n \in 1 .. job[t].saved
        BY <2>1
      <4>2. ASSUME NEW n \in 1 .. job[t].saved
            PROVE  HasRow(rows', now, Params[n], id)
        <5>1. HasRow(rows, now, Params[n], id)
          BY <2>1 DEF Recorded
        <5> QED
          BY <3>6, <5>1 DEF HasRow
      <4>3. HasRow(rows', now, p, id)
        BY <3>5, <3>6 DEF HasRow
      <4> QED
        BY <3>6, <4>1, <4>2, <4>3
    <3>11. TracedNow(row.strategy, row.param, row.old)
      BY <3>1, <3>2, <3>5, <3>9
    <3> HIDE DEF id, now, next, p
    <3> QED
      BY <1>a, <1>b, <2>1, <3>6, <3>7, <3>8, <3>9, <3>10, <3>11
  <2>3. CASE Dropped(t, id)
    <3>1. job' = [job EXCEPT ![t] = Idle] /\ lost' = lost \cup {id} /\ UNCHANGED rows
      BY <2>3 DEF Dropped
    <3> HIDE DEF Again
    <3> QED
      BY <1>1, <2>1, <3>1, IdleJob
  <2> QED
    BY <1>6, <2>2, <2>3 DEF SaveNext
<1>7. ASSUME NEW t \in Jobs, NEW k \in 1 .. made, RollbackBegin(t, k)
      PROVE  Again
  <2> DEFINE snap == {r \in rows : r.id = k}
             new == [Idle EXCEPT !.at = "undoing", !.id = k, !.snap = snap]
  <2>1. snap \in SUBSET Row /\ snap \subseteq rows /\ k \in Nat
    BY <1>0 DEF Types
  <2>2. job' = [job EXCEPT ![t] = new] /\ job[t].at = "idle" /\ UNCHANGED <<live, rows, check, lost>>
    BY <1>7 DEF RollbackBegin, history
  <2> HIDE DEF snap
  <2>3. new \in JobRecord /\ new.at = "undoing" /\ new.snap = snap
    BY <2>1, UndoingJob
  <2> HIDE DEF new, Again
  <2> QED
    BY <1>1, <2>1, <2>2, <2>3
<1>8. ASSUME NEW t \in Jobs, RollbackEnd(t)
      PROVE  Again
  <2>1. /\ job[t].at = "undoing" /\ live' = Restored(job[t].snap) /\ job' = [job EXCEPT ![t] = Idle]
        /\ rows' \in {rows, Marked(job[t].id, "rolled_back")}
        /\ UNCHANGED <<check, lost>>
    BY <1>8 DEF RollbackEnd, history
  <2>2. \A u \in Jobs : job'[u] = IF u = t THEN Idle ELSE job[u]
    BY <1>0, <2>1, OneMoves, IdleJob
  <2>3. job[t].snap \in SUBSET Row /\ \A r \in job[t].snap : TracedNow(r.strategy, r.param, r.old)
    BY <1>0, <2>1 DEF Dated, Recorded
  <2>4. \A s \in Strategies, p \in ParamSet : TracedNow(s, p, live'[s][p])
    BY <1>0, <2>1, <2>3, RestoredTraced
  <2>5. "rolled_back" \in Statuses
    BY DEF Statuses
  <2>6. (\A r \in rows : \E q \in rows' : Same(r, q)) /\ \A q \in rows' : \E r \in rows : Same(r, q)
    BY <1>0, <2>1, <2>5, RowsMarked
  <2>7. Keeps
    BY <2>1, <2>2, <2>6 DEF Keeps
  <2> QED
    BY <2>1, <2>2, <2>4, <2>6, <2>7, IdleJob
<1>9. ASSUME NEW k, NEW status \in Statuses, rows' \in {rows, Marked(k, status)},
             \A s \in Strategies, p \in ParamSet : TracedNow(s, p, live'[s][p]),
             check'.snap \subseteq check.snap \cup rows, UNCHANGED <<job, lost>>
      PROVE  Again
  <2>1. (\A r \in rows : \E q \in rows' : Same(r, q)) /\ \A q \in rows' : \E r \in rows : Same(r, q)
    BY <1>0, <1>9, RowsMarked
  <2> QED
    BY <1>9, <2>1 DEF Keeps
<1> HIDE DEF Again
<1>10. ASSUME NEW k \in 1 .. made, Reject(k)
      PROVE  Again
  <2>1. "rejected" \in Statuses
    BY DEF Statuses
  <2>2. rows' = Marked(k, "rejected") /\ UNCHANGED <<live, check, job, lost>>
    BY <1>10 DEF Reject, history
  <2> QED
    BY <1>9, <1>a, <2>1, <2>2
<1>11. ASSUME NEW s \in Strategies, ApplyPreset(s)
      PROVE  Again
  <2>1. PICK v \in Presets : live' = [live EXCEPT ![s] = Preset(v)]
    BY <1>11 DEF ApplyPreset
  <2>2. \A u \in Strategies, p \in ParamSet : live'[u][p] \in {v, live[u][p]}
    BY <1>0, <2>1 DEF Types, Preset
  <2>3. \A u \in Strategies, p \in ParamSet : TracedNow(u, p, live'[u][p])
    BY <1>a, <2>2 DEF TracedNow, Traced
  <2>4. "rejected" \in Statuses /\ UNCHANGED <<rows, check, job, lost>>
    BY <1>11 DEF ApplyPreset, history, Statuses
  <2> QED
    BY <1>9, <2>3, <2>4
<1>12. ASSUME WindowEnds \/ UNCHANGED vars
       PROVE  Again
  <2>1. "rejected" \in Statuses /\ UNCHANGED <<rows, live, check, job, lost>>
    BY <1>12 DEF WindowEnds, vars, env, history, Statuses
  <2> QED
    BY <1>9, <1>a, <2>1
<1>13. ASSUME Restart
       PROVE  Again
  <2>1. /\ live' = [s \in Strategies |-> Preset(0)] /\ job' = [t \in Jobs |-> Idle] /\ check' = NoCheck
        /\ lost' = lost \cup Saving /\ UNCHANGED rows
    BY <1>13 DEF Restart
  <2>2. Keeps
    BY <1>b, <2>1 DEF Keeps, Saving
  <2>3. \A s \in Strategies, p \in ParamSet : live'[s][p] \in Presets
    BY <2>1 DEF Preset, Presets
  <2>4. \A s \in Strategies, p \in ParamSet : TracedNow(s, p, live'[s][p])
    BY <2>3 DEF TracedNow, Traced
  <2> QED
    BY <1>b, <2>1, <2>2, <2>4, IdleJob, NoCheckRecord DEF Again
<1>14. ASSUME Check
       PROVE  Again
  <2>1. /\ UNCHANGED <<job, lost>>
        /\ rows' = rows \/ (\E status \in Statuses : rows' = Marked(Current, status))
        /\ live' = live \/ (check.at = "undoing" /\ live' = Restored(check.snap))
    BY <1>14 DEF Check, CheckBegin, Degraded, Continues, Passed, Confirmed, Undo, Undone, CheckFails, history, Statuses
  <2>2. PICK status \in Statuses : rows' \in {rows, Marked(Current, status)}
    <3>1. "rejected" \in Statuses
      BY DEF Statuses
    <3> QED
      BY <2>1, <3>1
  <2>3. check.snap \in SUBSET Row /\ \A r \in check.snap : TracedNow(r.strategy, r.param, r.old)
    BY <1>0 DEF Types, CheckRecord, Recorded
  <2>4. \A s \in Strategies, p \in ParamSet : TracedNow(s, p, live'[s][p])
    BY <1>0, <1>a, <2>1, <2>3, RestoredTraced
  <2>5. check'.snap \subseteq check.snap \cup rows
    <3>1. CASE CheckBegin
      BY <1>0, <3>1, CheckSteps DEF CheckBegin, Looks
    <3>2. CASE Degraded
      <4> DEFINE snap == {r \in rows : r.id = Current}
      <4>1. snap \in SUBSET Row /\ snap \subseteq rows
        BY <1>0 DEF Types
      <4>2. check' = [check EXCEPT !.at = "undoing", !.snap = snap]
        BY <3>2 DEF Degraded
      <4> HIDE DEF snap
      <4> QED
        BY <1>0, <4>1, <4>2, CheckSteps DEF Looks
    <3>3. CASE CheckNext
      BY <1>0, <3>3, NextStepped, NoCheckRecord DEF Looks
    <3>4. CASE Passed
      BY <1>0, <3>4, CheckSteps DEF Passed, Looks
    <3>5. CASE Undo
      <4>1. Current \in Nat
        BY <1>0, <3>5, CurrentIsNewest DEF Undo, Dated
      <4> QED
        BY <1>0, <3>5, <4>1, CheckSteps DEF Undo, Looks
    <3>6. CASE CheckFails
      BY <3>6, NoCheckRecord DEF CheckFails
    <3> QED
      BY <1>14, <3>1, <3>2, <3>3, <3>4, <3>5, <3>6 DEF Check, Continues, Confirmed, Undone
  <2> QED
    BY <1>9, <2>1, <2>2, <2>4, <2>5
<1>15. Again
  BY <1>2, <1>3, <1>4, <1>5, <1>6, <1>7, <1>8, <1>10, <1>11, <1>12, <1>13, <1>14 DEF Next, Session
<1> QED
  BY <1>15, RecordedAgain DEF Again

-----------------------------------------------------------------------------
LEMMA InitSound == Init => Sound /\ Recorded
<1> SUFFICES ASSUME Init PROVE Sound /\ Recorded
  OBVIOUS
<1>1. job = [t \in Jobs |-> Idle] /\ check = NoCheck /\ rows = {} /\ live = [s \in Strategies |-> Preset(0)]
      /\ made = 0 /\ count = 0 /\ decided = <<>> /\ lost = {} /\ aged = {} /\ deployment \in {"engine", "paper"}
  BY DEF Init
<1>2. job \in [Jobs -> JobRecord] /\ \A t \in Jobs : job[t].at = "idle"
  BY <1>1, IdleJob
<1>3. live \in [Strategies -> Setting] /\ \A s \in Strategies, p \in ParamSet : live[s][p] = 0
  BY <1>1 DEF Preset, Setting
<1>4. <<>> \in Seq(Nat)
  OBVIOUS
<1>5. Types
  BY <1>1, <1>2, <1>3, <1>4, NoCheckRecord DEF Types
<1>6. Dated
  BY <1>1, <1>2, <1>3, NoCheckRecord DEF Dated, Saving
<1>7. Recorded
  BY <1>1, <1>2, <1>3, NoCheckRecord DEF Recorded, TracedNow, Traced, Presets
<1> QED
  BY <1>5, <1>6, <1>7 DEF Sound

(* What steps that are neither the check's nor a restart do to it.         *)
Besides ==
  /\ UNCHANGED <<deployment, check, count, decided>>
  /\ made' \in {made, made + 1} /\ Saving' \subseteq Saving \cup {made + 1} /\ lost \subseteq lost'
  /\ state' = state \/ state' # "suspended"
  /\ deployment = "engine" =>
       /\ rows \subseteq rows' /\ \A q \in rows' : q \in rows \/ q.id \in Saving \/ q.id = made + 1
       /\ \A s \in Strategies, p \in ParamSet : live'[s][p] \in {live[s][p], made + 1} \cup Presets
       /\ \A u \in Jobs : job'[u].at # "undoing"

LEMMA BesidesSteps ==
  ASSUME Sound, Deciding, [Next]_vars
  PROVE  Besides \/ Restart \/ Check
<1>0. Types /\ Dated /\ made \in Nat /\ (\A u \in Jobs : job[u] \in JobRecord) /\ deployment \in {"engine", "paper"}
  BY DEF Sound, Types
<1>a. deployment = "engine" => \A t \in Jobs : job[t].at # "undoing"
  BY DEF Deciding
<1>1. ASSUME NEW t \in Jobs, NEW new \in JobRecord, job' = [job EXCEPT ![t] = new],
             new.at # "saving", deployment = "engine" => new.at # "undoing",
             state' = state \/ state' # "suspended",
             made' \in {made, made + 1}, lost \subseteq lost', rows' = rows,
             \A s \in Strategies, p \in ParamSet : live'[s][p] \in {live[s][p], made + 1} \cup Presets,
             UNCHANGED <<deployment, check, count, decided>>
      PROVE  Besides
  <2>1. \A u \in Jobs : job'[u] = IF u = t THEN new ELSE job[u]
    BY <1>0, <1>1, OneMoves
  <2>2. Saving' \subseteq Saving
    BY <1>1, <2>1 DEF Saving
  <2> QED
    BY <1>1, <1>a, <2>1, <2>2 DEF Besides
<1>2. ASSUME NEW t \in Jobs, NEW s \in Strategies, SessionBegin(t, s)
      PROVE  Besides
  <2> DEFINE new == [Idle EXCEPT !.at = "evaluating", !.strategy = s]
  <2>1. new \in JobRecord /\ new.at = "evaluating"
    BY <1>0, JobSteps
  <2>2. job' = [job EXCEPT ![t] = new] /\ state' = "evaluating"
        /\ UNCHANGED <<deployment, made, live, rows, check, count, lost, decided>>
    BY <1>2 DEF SessionBegin, env, history
  <2> HIDE DEF new
  <2> QED
    BY <1>1, <2>1, <2>2
<1>3. ASSUME NEW t \in Jobs, SessionEnds(t) \/ SaveDone(t)
      PROVE  Besides
  <2>1. job' = [job EXCEPT ![t] = Idle] /\ state' \in {"idle", "monitoring"}
        /\ UNCHANGED <<deployment, made, live, rows, check, count, lost, decided>>
    BY <1>3 DEF SessionEnds, SaveDone, env, history
  <2> QED
    BY <1>1, <2>1, IdleJob
<1>4. ASSUME NEW t \in Jobs, Evaluated(t)
      PROVE  Besides
  <2> DEFINE new == [job[t] EXCEPT !.at = "optimizing"]
  <2>1. new \in JobRecord /\ new.at = "optimizing"
    BY <1>0, JobSteps
  <2>2. job' = [job EXCEPT ![t] = new] /\ state' = "optimizing"
        /\ UNCHANGED <<deployment, made, live, rows, check, count, lost, decided>>
    BY <1>0, <1>4, JobSteps DEF Evaluated, env, history
  <2> HIDE DEF new
  <2> QED
    BY <1>1, <2>1, <2>2
<1>5. ASSUME NEW t \in Jobs, NEW j \in JobRecord, NEW old, NEW new, Saves(t, j, old, new),
             j.id \in Saving \/ j.id = made + 1, made' \in {made, made + 1},
             state' # "suspended" \/ state' = state,
             \A s \in Strategies, p \in ParamSet : live'[s][p] \in {live[s][p], made + 1} \cup Presets,
             UNCHANGED <<deployment, check, count, decided, lost>>
      PROVE  Besides
  <2>1. /\ new.at = "saving" /\ new.id = j.id
        /\ \A u \in Jobs : job'[u] = IF u = t THEN new ELSE job[u]
    BY <1>0, <1>5, OneMoves DEF Saves
  <2>2. Saving' \subseteq Saving \cup {made + 1}
    BY <1>5, <2>1 DEF Saving
  <2>3. rows' = rows \cup {NewRow(j, old)} /\ NewRow(j, old).id = j.id
    BY <1>5 DEF Saves, NewRow
  <2> QED
    BY <1>5, <1>a, <2>1, <2>2, <2>3 DEF Besides
<1>6. ASSUME NEW t \in Jobs, Apply(t)
      PROVE  Besides
  <2> DEFINE k == made + 1
             before == live[job[t].strategy]
             j == [job[t] EXCEPT !.id = k, !.snap = {before}]
  <2>1. Applied(t) /\ state' # "suspended"
    BY <1>0, <1>6, ApplyApplies DEF Dated, Apply, Dropped
  <2>2. /\ made' = k /\ j \in JobRecord /\ j.id = k /\ UNCHANGED <<deployment, check, count, decided>>
        /\ \A s \in Strategies, p \in ParamSet : live'[s][p] \in {live[s][p], k}
    BY <2>1 DEF Applied
  <2>3. CASE lost' = lost /\ \E new : Saves(t, j, before[Params[1]], new)
    <3>1. PICK new : Saves(t, j, before[Params[1]], new)
      BY <2>3
    <3> HIDE DEF j
    <3> QED
      BY <1>5, <2>1, <2>2, <2>3, <3>1
  <2>4. CASE lost' = lost \cup {k} /\ job' = [job EXCEPT ![t] = Idle] /\ UNCHANGED rows
    BY <1>1, <2>1, <2>2, <2>4, IdleJob
  <2> QED
    BY <2>1, <2>3, <2>4 DEF Applied
<1>7. ASSUME NEW t \in Jobs, SaveNext(t)
      PROVE  Besides
  <2> DEFINE p == Params[job[t].saved + 1]
  <2>1. /\ job[t].at = "saving" /\ job[t].saved < Len(Params) /\ job[t].saved \in Nat /\ job[t].id \in Saving
        /\ UNCHANGED <<deployment, live, made, check, count, decided>>
    BY <1>0, <1>7 DEF SaveNext, Remaining, JobRecord, env, Saving
  <2>2. CASE \E before \in job[t].snap : SaveRow(t, job[t], before[p]) /\ UNCHANGED <<state, lost>>
    <3>1. PICK before \in job[t].snap : SaveRow(t, job[t], before[p]) /\ UNCHANGED <<state, lost>>
      BY <2>2
    <3>2. job[t].saved + 1 \in 1 .. Len(Params) /\ p \in ParamSet
      BY <2>1, Ground0
    <3>3. before[p] \in Int
      BY <1>0, <2>1, <3>1, <3>2 DEF Dated, Setting
    <3>4. PICK new : Saves(t, job[t], before[p], new)
      BY <1>0, <2>1, <3>1, <3>3, SaveRowSaves
    <3> QED
      BY <1>0, <1>5, <2>1, <3>1, <3>4
  <2>3. CASE Dropped(t, job[t].id)
    BY <1>1, <2>1, <2>3, IdleJob DEF Dropped
  <2> QED
    BY <1>7, <2>2, <2>3 DEF SaveNext
<1>8. ASSUME NEW t \in Jobs, NEW k \in 1 .. made, RollbackBegin(t, k)
      PROVE  Besides
  <2> DEFINE snap == {r \in rows : r.id = k}
             new == [Idle EXCEPT !.at = "undoing", !.id = k, !.snap = snap]
  <2>1. snap \in SUBSET Row /\ k \in Nat
    BY <1>0 DEF Types
  <2>2. job' = [job EXCEPT ![t] = new] /\ deployment # "engine"
        /\ UNCHANGED <<deployment, state, made, live, rows, check, count, lost, decided>>
    BY <1>8, Ground0 DEF RollbackBegin, MayRun, env, history
  <2> HIDE DEF snap
  <2>3. new \in JobRecord /\ new.at = "undoing"
    BY <2>1, UndoingJob
  <2> HIDE DEF new
  <2> QED
    BY <1>1, <2>2, <2>3
<1>9. ASSUME NEW t \in Jobs, RollbackEnd(t)
      PROVE  Besides
  <2>1. job[t].at = "undoing" /\ job' = [job EXCEPT ![t] = Idle]
        /\ UNCHANGED <<deployment, state, made, check, count, lost, decided>>
    BY <1>9 DEF RollbackEnd, env, history
  <2>2. deployment # "engine"
    BY <1>a, <2>1
  <2>3. \A u \in Jobs : job'[u] = IF u = t THEN Idle ELSE job[u]
    BY <1>0, <2>1, OneMoves, IdleJob
  <2>4. Saving' \subseteq Saving
    BY <2>3, IdleJob DEF Saving
  <2> QED
    BY <2>1, <2>2, <2>4 DEF Besides
<1>10. ASSUME NEW k \in 1 .. made, Reject(k)
       PROVE  Besides
  BY <1>10 DEF Reject, env, history, Besides, Saving
<1>11. ASSUME NEW s \in Strategies, ApplyPreset(s)
       PROVE  Besides
  <2>1. PICK v \in Presets : live' = [live EXCEPT ![s] = Preset(v)]
    BY <1>11 DEF ApplyPreset
  <2>2. \A u \in Strategies, p \in ParamSet : live'[u][p] \in {v, live[u][p]}
    BY <1>0, <2>1 DEF Types, Preset
  <2>3. UNCHANGED <<deployment, state, rows, made, job, check, count, lost, decided>> /\ Saving' = Saving
    BY <1>11 DEF ApplyPreset, history, Saving
  <2> QED
    BY <1>a, <2>2, <2>3 DEF Besides
<1>12. ASSUME WindowEnds \/ UNCHANGED vars
       PROVE  Besides
  BY <1>12, <1>a DEF WindowEnds, vars, env, history, Saving, Besides
<1> QED
  BY <1>2, <1>3, <1>4, <1>6, <1>7, <1>8, <1>9, <1>10, <1>11, <1>12 DEF Next, Session

-----------------------------------------------------------------------------
(* What the check decided stays so *)

Checked == Deciding /\ Counting /\ Erased

(* Rows of tunings that are decided do not change any more.                *)
LEMMA OnlyStays ==
  ASSUME NEW R, NEW Q, NEW k, NEW status, R \subseteq Q, \A q \in Q : q.id = k => q \in R, Only(R, k, status)
  PROVE  Only(Q, k, status)
  BY DEF Only

LEMMA CheckedBesides ==
  ASSUME Sound, Checked, Besides
  PROVE  Checked'
<1>0. Types /\ Dated /\ made \in Nat /\ deployment \in {"engine", "paper"} /\ Deciding /\ Counting /\ Erased
  BY DEF Sound, Types, Checked
<1>1. CASE deployment = "paper"
  <2>1. /\ deployment' = "paper" /\ check' = NoCheck /\ decided' = <<>> /\ count' = 0 /\ state' # "suspended"
    BY <1>0, <1>1 DEF Besides, Deciding
  <2>2. Deciding'
    BY <2>1, NoCheckRecord DEF Deciding
  <2>3. Counting'
    BY <2>1, NoCheckRecord DEF Counting, RolledBack
  <2>4. Erased'
    BY <2>1, NoCheckRecord DEF Erased
  <2> QED
    BY <2>2, <2>3, <2>4 DEF Checked
<1>2. CASE deployment = "engine"
  <2>0. /\ UNCHANGED <<deployment, check, count, decided, Current>>
        /\ made' \in {made, made + 1} /\ Saving' \subseteq Saving \cup {made + 1} /\ lost \subseteq lost'
        /\ rows \subseteq rows' /\ \A q \in rows' : q \in rows \/ q.id \in Saving \/ q.id = made + 1
        /\ \A s \in Strategies, p \in ParamSet : live'[s][p] \in {live[s][p], made + 1} \cup Presets
        /\ \A u \in Jobs : job'[u].at # "undoing"
    BY <1>2, CurrentStays DEF Besides
  <2>1. check.at # "idle" => Current \in 1 .. made
    BY <1>0, CurrentIsNewest DEF Dated
  <2>2. ASSUME NEW k \in (1 .. made) \ Saving
        PROVE  k \notin Saving' /\ \A q \in rows' : q.id = k => q \in rows
    BY <1>0, <2>0
  <2>3. ASSUME NEW i \in DOMAIN decided
        PROVE  /\ decided[i] \in (1 .. made) \ Saving
               /\ \A status : Only(rows, decided[i], status) => Only(rows', decided[i], status)
    <3>1. decided[i] \in (1 .. made) \ Saving
      BY <1>0 DEF Deciding
    <3> QED
      BY <2>0, <2>2, <3>1, OnlyStays
  <2>4. Deciding'
    <3>1. \A k \in check.todo : \E r \in rows' : r.id = k
      BY <1>0, <2>0 DEF Deciding
    <3>2. check.at \in {"confirmed", "undoing", "undone"} => Current \notin Saving'
      BY <1>0, <2>1, <2>2 DEF Deciding
    <3>3. check.at = "undoing" => check.snap = {r \in rows' : r.id = Current}
      <4> SUFFICES ASSUME check.at = "undoing"
                   PROVE  check.snap = {r \in rows' : r.id = Current}
        OBVIOUS
      <4>1. check.snap = {r \in rows : r.id = Current} /\ Current \in (1 .. made) \ Saving
        BY <1>0, <2>1 DEF Deciding
      <4> QED
        BY <2>0, <2>2, <4>1
    <3>4. \A i \in DOMAIN decided :
            /\ decided[i] \in (1 .. made') \ Saving' /\ Settled(rows', decided[i])
            /\ decided[i] \in check.todo => check.at \in {"confirmed", "undone"} /\ decided[i] = Current
      BY <1>0, <2>0, <2>2, <2>3 DEF Deciding, Settled
    <3> QED
      BY <1>2, <2>0, <3>1, <3>2, <3>3, <3>4 DEF Deciding
  <2>5. Counting'
    <3> SUFFICES ASSUME check.at # "confirmed"
                 PROVE  /\ RolledBack <= Len(decided)
                        /\ \A i \in Len(decided) - RolledBack + 1 .. Len(decided) :
                             Only(rows', decided[i], "rolled_back")
      BY <2>0 DEF Counting, RolledBack
    <3>1. RolledBack \in Nat /\ Len(decided) \in Nat /\ DOMAIN decided = 1 .. Len(decided)
      BY <1>0 DEF Types, RolledBack
    <3>2. RolledBack <= Len(decided)
      BY <1>0 DEF Counting
    <3>3. ASSUME NEW i \in Len(decided) - RolledBack + 1 .. Len(decided)
          PROVE  Only(rows', decided[i], "rolled_back")
      <4>1. i \in DOMAIN decided
        BY <3>1, <3>2
      <4>2. Only(rows, decided[i], "rolled_back")
        BY <1>0 DEF Counting
      <4> QED
        BY <2>3, <4>1, <4>2
    <3> QED
      BY <3>2, <3>3
  <2>6. Erased'
    <3> SUFFICES ASSUME NEW k \in check.undone
                 PROVE  /\ k \notin Saving'
                        /\ \A c \in check.todo : c < k \/ (check.at = "undone" /\ c = Current)
                        /\ k \notin lost' => \A s \in Strategies, p \in ParamSet : live'[s][p] # k
      BY <2>0 DEF Erased
    <3>1. k \in (1 .. made) \ Saving
      BY <1>0 DEF Erased, Dated
    <3>2. k \notin {made + 1} \cup Presets
      BY <1>0, <3>1 DEF Presets
    <3> QED
      BY <1>0, <2>0, <2>2, <3>1, <3>2 DEF Erased
  <2> QED
    BY <2>4, <2>5, <2>6 DEF Checked
<1> QED
  BY <1>0, <1>1, <1>2

LEMMA CheckedRestart ==
  ASSUME Restart
  PROVE  Checked'
<1>1. /\ state' = "idle" /\ count' = 0 /\ decided' = <<>> /\ check' = NoCheck
      /\ job' = [t \in Jobs |-> Idle]
  BY DEF Restart
<1>2. Deciding'
  BY <1>1, NoCheckRecord, IdleJob DEF Deciding
<1>3. Counting'
  BY <1>1, NoCheckRecord DEF Counting, RolledBack
<1>4. Erased'
  BY <1>1, NoCheckRecord DEF Erased
<1> QED
  BY <1>2, <1>3, <1>4 DEF Checked

LEMMA MarkedOnly ==
  ASSUME Types, NEW k, NEW status \in Statuses
  PROVE  /\ (\E r \in rows : r.id = k) => Only(Marked(k, status), k, status)
         /\ \A j, other : j # k /\ Only(rows, j, other) => Only(Marked(k, status), j, other)
         /\ \A j : (\E r \in rows : r.id = j) => \E q \in Marked(k, status) : q.id = j
<1>1. /\ \A r \in rows : \E q \in Marked(k, status) :
              Same(r, q) /\ q.status = IF r.id = k THEN status ELSE r.status
      /\ \A q \in Marked(k, status) : \E r \in rows :
              Same(r, q) /\ q.status = IF r.id = k THEN status ELSE r.status
  BY MarkedRows
<1>2. (\E r \in rows : r.id = k) => Only(Marked(k, status), k, status)
  BY <1>1 DEF Only, Same
<1>3. ASSUME NEW j, NEW other, j # k, Only(rows, j, other)
      PROVE  Only(Marked(k, status), j, other)
  BY <1>1, <1>3 DEF Only, Same
<1>4. \A j : (\E r \in rows : r.id = j) => \E q \in Marked(k, status) : q.id = j
  BY <1>1 DEF Same
<1> QED
  BY <1>2, <1>3, <1>4

LEMMA CheckedCheck ==
  ASSUME Sound, Recorded, Checked, Check
  PROVE  Checked'
<1>0. Types /\ Dated /\ made \in Nat /\ Deciding /\ Counting /\ Erased /\ check \in CheckRecord
      /\ count \in Nat /\ decided \in Seq(Nat) /\ deployment \in {"engine", "paper"}
  BY DEF Sound, Types, Checked
<1>1. UNCHANGED <<deployment, job, made, lost>> /\ Saving' = Saving
  BY DEF Check, CheckBegin, Degraded, Continues, Passed, Confirmed, Undo, Undone, CheckFails, env, history, Saving
<1>2. deployment = "engine" /\ \A u \in Jobs : job[u].at # "undoing"
  <2>1. check.at # "idle" \/ deployment = "engine"
    BY DEF Check, CheckBegin, Degraded, Continues, Passed, Confirmed, Undo, Undone, CheckFails
  <2> QED
    BY <1>0, <2>1, NoCheckRecord DEF Deciding
<1>3. check.at # "idle" => /\ Current \in check.todo /\ Current \in 1 .. made
                           /\ \A c \in check.todo : c <= Current /\ c \in Nat
  BY <1>0, CurrentIsNewest DEF Dated, CheckRecord
<1>4. DOMAIN decided = 1 .. Len(decided) /\ Len(decided) \in Nat
  BY <1>0
<1> DEFINE Engine == /\ \A k \in check'.todo : \E r \in rows' : r.id = k
                     /\ check'.at \in {"confirmed", "undoing", "undone"} => Current' \notin Saving
                     /\ check'.at = "undoing" => check'.snap = {r \in rows' : r.id = Current'}
                     /\ \A i \in DOMAIN decided' :
                          /\ decided'[i] \in (1 .. made) \ Saving /\ Settled(rows', decided'[i])
                          /\ decided'[i] \in check'.todo =>
                               check'.at \in {"confirmed", "undone"} /\ decided'[i] = Current'
<1>5. Engine => Deciding'
  BY <1>1, <1>2 DEF Deciding
<1> DEFINE Erases == \A k \in check'.undone :
                       /\ \A c \in check'.todo : c < k \/ (check'.at = "undone" /\ c = Current')
                       /\ k \notin Saving
                       /\ k \notin lost => \A s \in Strategies, p \in ParamSet : live'[s][p] # k
<1>6. Erases => Erased'
  BY <1>1 DEF Erased
<1>7. CASE CheckBegin
  <2>1. /\ Looks(check', "next", Watched, {}, {}) /\ check.at = "idle"
        /\ UNCHANGED <<rows, live, count, decided>>
    BY <1>0, <1>7, CheckSteps DEF CheckBegin, history
  <2>2. Engine
    <3>1. \A k \in Watched : \E r \in rows : r.id = k /\ r.status = "monitoring"
      BY DEF Watched
    <3>2. \A i \in DOMAIN decided : decided[i] \notin Watched
      BY <1>0, <3>1 DEF Deciding, Settled, Only
    <3> QED
      BY <1>0, <2>1, <3>1, <3>2 DEF Deciding, Looks
  <2>3. Counting'
    BY <1>0, <2>1 DEF Counting, RolledBack, Looks
  <2>4. Erases
    BY <2>1 DEF Looks
  <2> QED
    BY <1>5, <1>6, <2>2, <2>3, <2>4 DEF Checked
<1>8. CASE Degraded
  <2> DEFINE snap == {r \in rows : r.id = Current}
  <2>1. /\ check.at = "next" /\ Current \notin Saving /\ check' = [check EXCEPT !.at = "undoing", !.snap = snap]
        /\ UNCHANGED <<rows, live, count, decided>>
    BY <1>8 DEF Degraded, history
  <2>2. snap \in SUBSET Row
    BY <1>0 DEF Types
  <2> HIDE DEF snap
  <2>3. Looks(check', "undoing", check.todo, snap, check.undone)
    BY <1>0, <2>1, <2>2, CheckSteps
  <2>4. Current' = Current
    BY <2>3, CurrentStays DEF Looks
  <2>5. Engine
    BY <1>0, <2>1, <2>3, <2>4 DEF Deciding, Looks, snap
  <2>6. Counting'
    BY <1>0, <2>1, <2>3 DEF Counting, RolledBack, Looks
  <2>7. Erases
    BY <1>0, <2>1, <2>3 DEF Looks, Erased
  <2> QED
    BY <1>5, <1>6, <2>5, <2>6, <2>7 DEF Checked
<1>9. CASE Continues \/ Confirmed \/ Undone
  <2>1. /\ CheckNext /\ check.at \in {"next", "confirmed", "undone"} /\ UNCHANGED <<rows, live, decided>>
        /\ count' = CASE check.at = "next" -> count [] check.at = "confirmed" -> 0 [] check.at = "undone" -> count + 1
    BY <1>9 DEF Continues, Confirmed, Undone, history
  <2>2. /\ check'.at \in {"idle", "next"} /\ check'.todo \subseteq check.todo \ {Current}
        /\ check'.undone \subseteq check.undone
    BY <1>0, <2>1, NextStepped, NoCheckRecord DEF Looks
  <2>3. Engine
    BY <1>0, <2>1, <2>2 DEF Deciding
  <2>4. Counting'
    <3>1. RolledBack' = count'
      BY <2>2 DEF RolledBack
    <3>2. CASE check.at = "confirmed"
      <4>1. count' = 0
        BY <2>1, <3>2
      <4> QED
        BY <1>4, <2>1, <3>1, <4>1 DEF Counting
    <3>3. CASE check.at # "confirmed"
      <4>1. count' = RolledBack
        BY <1>0, <2>1, <3>3 DEF RolledBack
      <4> QED
        BY <1>0, <2>1, <3>1, <3>3, <4>1 DEF Counting
    <3> QED
      BY <3>2, <3>3
  <2>5. Erases
    BY <1>0, <2>1, <2>2 DEF Erased
  <2> QED
    BY <1>5, <1>6, <2>3, <2>4, <2>5 DEF Checked
<1>10. ASSUME NEW status \in {"confirmed", "rolled_back"}, check.at \in {"next", "undoing"}, Current \notin Saving,
              rows' = Marked(Current, status), decided' = Append(decided, Current),
              check'.at \in {"confirmed", "undone"}, check'.todo = check.todo
       PROVE  /\ Engine /\ Only(rows', Current, status)
              /\ \A i \in DOMAIN decided : \A other :
                   Only(rows, decided[i], other) => Only(rows', decided'[i], other)
  <2>0. Current' = Current /\ status \in Statuses
    BY <1>10, CurrentStays DEF Statuses
  <2>1. \E r \in rows : r.id = Current
    BY <1>0, <1>3, <1>10 DEF Deciding
  <2>2. Only(rows', Current, status) /\ \A j : (\E r \in rows : r.id = j) => \E q \in rows' : q.id = j
    <3>1. Only(Marked(Current, status), Current, status)
      BY <1>0, <2>0, <2>1, MarkedOnly
    <3>2. \A j : (\E r \in rows : r.id = j) => \E q \in Marked(Current, status) : q.id = j
      BY <1>0, <2>0, MarkedOnly
    <3> QED
      BY <1>10, <3>1, <3>2
  <2>3. ASSUME NEW i \in DOMAIN decided
        PROVE  decided[i] \notin check.todo
    BY <1>0, <1>10 DEF Deciding
  <2>4. ASSUME NEW i \in DOMAIN decided, NEW other, Only(rows, decided[i], other)
        PROVE  Only(rows', decided[i], other)
    BY <1>0, <1>3, <1>10, <2>0, <2>3, <2>4, MarkedOnly
  <2>5. ASSUME NEW i \in DOMAIN decided'
        PROVE  IF i \in DOMAIN decided THEN decided'[i] = decided[i] ELSE decided'[i] = Current
    BY <1>0, <1>3, <1>4, <1>10
  <2>6. ASSUME NEW i \in DOMAIN decided
        PROVE  decided'[i] = decided[i]
    BY <1>0, <1>3, <1>4, <1>10
  <2>7. ASSUME NEW i \in DOMAIN decided'
        PROVE  /\ decided'[i] \in (1 .. made) \ Saving /\ Settled(rows', decided'[i])
               /\ decided'[i] \in check'.todo => decided'[i] = Current
    <3>1. CASE i \in DOMAIN decided
      BY <1>0, <1>10, <2>3, <2>4, <2>5, <3>1 DEF Deciding, Settled
    <3>2. CASE i \notin DOMAIN decided
      BY <1>3, <1>10, <2>2, <2>5, <3>2 DEF Settled
    <3> QED
      BY <3>1, <3>2
  <2>8. Engine
    BY <1>0, <1>10, <2>0, <2>2, <2>7 DEF Deciding
  <2> QED
    BY <2>2, <2>4, <2>6, <2>8
<1>11. CASE Passed
  <2>1. /\ check.at = "next" /\ Current \in aged /\ rows' = Marked(Current, "confirmed")
        /\ decided' = Append(decided, Current) /\ UNCHANGED live
        /\ Looks(check', "confirmed", check.todo, check.snap, check.undone)
    BY <1>0, <1>11, CheckSteps DEF Passed
  <2>2. Current \notin Saving
    BY <1>0, <2>1 DEF Dated
  <2>3. Engine
    BY <1>10, <2>1, <2>2 DEF Looks
  <2>4. Counting'
    BY <2>1 DEF Counting, Looks
  <2>5. Erases
    BY <1>0, <2>1 DEF Looks, Erased
  <2> QED
    BY <1>5, <1>6, <2>3, <2>4, <2>5 DEF Checked
<1>12. CASE Undo
  <2>1. /\ check.at = "undoing" /\ rows' = Marked(Current, "rolled_back") /\ decided' = Append(decided, Current)
        /\ live' = Restored(check.snap) /\ ~Refused(check.snap) /\ count' = count
        /\ Looks(check', "undone", check.todo, check.snap, check.undone \cup {Current})
    <3>1. check.at = "undoing" /\ check' = [check EXCEPT !.at = "undone", !.undone = @ \cup {Current}]
      BY <1>12 DEF Undo
    <3>2. Current \in Nat
      BY <1>3, <3>1
    <3>3. Looks(check', "undone", check.todo, check.snap, check.undone \cup {Current})
      BY <1>0, <3>1, <3>2, CheckSteps
    <3> QED
      BY <1>12, <3>3 DEF Undo
  <2>2. Current' = Current /\ Current \notin Saving /\ check.snap = {r \in rows : r.id = Current}
    BY <1>0, <2>1, CurrentStays DEF Deciding, Looks
  <2>3. /\ Engine /\ Only(rows', Current, "rolled_back")
        /\ \A i \in DOMAIN decided : \A other : Only(rows, decided[i], other) => Only(rows', decided'[i], other)
    BY <1>10, <2>1, <2>2 DEF Looks
  <2>4. Counting'
    <3>1. RolledBack = count /\ RolledBack' = count + 1 /\ count <= Len(decided)
      BY <1>0, <2>1 DEF RolledBack, Looks, Counting
    <3>2. Len(decided') = Len(decided) + 1 /\ decided'[Len(decided) + 1] = Current
      BY <1>0, <1>3, <1>4, <2>1
    <3>3. ASSUME NEW i \in Len(decided') - RolledBack' + 1 .. Len(decided')
          PROVE  Only(rows', decided'[i], "rolled_back")
      <4>1. CASE i = Len(decided) + 1
        BY <2>3, <3>2, <4>1
      <4>2. CASE i # Len(decided) + 1
        <5>1. i \in Len(decided) - count + 1 .. Len(decided) /\ i \in DOMAIN decided
          BY <1>0, <1>4, <3>1, <3>2, <4>2
        <5>2. Only(rows, decided[i], "rolled_back")
          BY <1>0, <2>1, <3>1, <5>1 DEF Counting
        <5> QED
          BY <2>3, <5>1, <5>2
      <4> QED
        BY <4>1, <4>2
    <3>4. RolledBack' <= Len(decided')
      BY <1>0, <1>4, <3>1, <3>2
    <3> QED
      BY <3>3, <3>4 DEF Counting
  <2>5. ASSUME NEW s \in Strategies, NEW p \in ParamSet, NEW k \in check.undone \cup {Current}, k \notin lost
        PROVE  live'[s][p] # k
    <3>1. check.snap \in SUBSET Row
      BY <1>0 DEF CheckRecord
    <3>2. CASE live'[s][p] = live[s][p] /\ ~(\E r \in check.snap : r.strategy = s /\ r.param = p)
      <4>1. k # Current => live[s][p] # k
        BY <1>0, <2>5 DEF Erased
      <4>2. ASSUME k = Current, live[s][p] = k
            PROVE  FALSE
        <5>1. Traced(rows, job, lost, s, p, k)
          BY <4>2 DEF Recorded, TracedNow
        <5>2. k \notin Presets /\ ~InSaving(job, s, k)
          BY <1>3, <2>1, <2>2, <4>2 DEF Presets, InSaving, Saving
        <5>3. HasRow(rows, s, p, k)
          BY <2>5, <5>1, <5>2 DEF Traced
        <5> QED
          BY <2>2, <3>2, <4>2, <5>3 DEF HasRow
      <4> QED
        BY <3>2, <4>1, <4>2
    <3>3. CASE \E r \in check.snap : r.strategy = s /\ r.param = p /\ live'[s][p] = r.old
      <4>1. PICK r \in check.snap : live'[s][p] = r.old
        BY <3>3
      <4>2. r.id = Current /\ r.old < r.id /\ r.old \in Int /\ Current \in Nat
        BY <1>0, <1>3, <2>1, <2>2, <3>1 DEF Dated, Row
      <4>3. k \in Nat /\ Current <= k
        BY <1>0, <1>3, <2>1 DEF Erased, CheckRecord
      <4> QED
        BY <4>1, <4>2, <4>3
    <3> QED
      BY <1>0, <2>1, <3>1, <3>2, <3>3, RestoredValues
  <2>6. Erases
    <3> SUFFICES ASSUME NEW k \in check.undone \cup {Current}
                 PROVE  k \notin Saving /\ \A c \in check.todo : c < k \/ c = Current
      BY <2>1, <2>2, <2>5 DEF Looks
    <3>1. CASE k = Current
      BY <1>3, <2>1, <2>2, <3>1
    <3>2. CASE k \in check.undone
      BY <1>0, <2>1, <3>2 DEF Erased
    <3> QED
      BY <3>1, <3>2
  <2> QED
    BY <1>5, <1>6, <2>3, <2>4, <2>6 DEF Checked
<1>13. CASE CheckFails
  <2>1. check.at \in {"next", "undoing"} /\ check' = NoCheck /\ UNCHANGED <<rows, count, decided>>
    BY <1>13 DEF CheckFails, history
  <2>2. Engine
    BY <1>0, <2>1, NoCheckRecord DEF Deciding
  <2>3. Counting'
    BY <1>0, <2>1, NoCheckRecord DEF Counting, RolledBack
  <2>4. Erases
    BY <2>1, NoCheckRecord
  <2> QED
    BY <1>5, <1>6, <2>2, <2>3, <2>4 DEF Checked
<1> QED
  BY <1>7, <1>8, <1>9, <1>11, <1>12, <1>13 DEF Check

(* All of it together is inductive.                                        *)
TInv == Sound /\ Recorded /\ Checked

LEMMA TInvStep == TInv /\ [Next]_vars => TInv'
<1> SUFFICES ASSUME TInv, [Next]_vars PROVE TInv'
  OBVIOUS
<1>1. Sound' /\ Recorded'
  BY SoundStep, RecordedStep DEF TInv
<1>2. Besides \/ Restart \/ Check
  BY BesidesSteps DEF TInv, Checked
<1>3. Checked'
  BY <1>2, CheckedBesides, CheckedRestart, CheckedCheck DEF TInv
<1> QED
  BY <1>1, <1>3 DEF TInv

LEMMA TInvAlways == Spec => []TInv
<1>1. Init => TInv
  <2> SUFFICES ASSUME Init PROVE Checked
    BY InitSound DEF TInv
  <2>1. state = "idle" /\ count = 0 /\ decided = <<>> /\ check = NoCheck /\ job = [t \in Jobs |-> Idle]
    BY DEF Init
  <2> QED
    BY <2>1, NoCheckRecord, IdleJob DEF Checked, Deciding, Counting, RolledBack, Erased
<1> QED
  BY <1>1, TInvStep, PTL DEF Spec

(* A value that is live has a row that a rollback finds, or comes from a   *)
(* tuning that is still being saved or was lost: for any strategies and    *)
(* parameters, and sessions, checks and manual rollbacks in any order.     *)
THEOREM AppliedStaysRecorded == Spec => []AppliedIsRecorded
<1>1. TInv => AppliedIsRecorded
  BY DEF TInv, AppliedIsRecorded, Recorded, TracedNow, Traced, HasRow, InSaving, Saving
<1> QED
  BY <1>1, TInvAlways, PTL

(* A check leaves no value of the tunings it rolled back, although it may  *)
(* roll back several and the old values of the newer ones are values of    *)
(* the older ones.                                                         *)
THEOREM RolledBackLeavesNothing == Spec => []RolledBackTogether
<1>1. TInv => RolledBackTogether
  BY DEF TInv, Checked, Erased, RolledBackTogether
<1> QED
  BY <1>1, TInvAlways, PTL

(* The tuner is suspended for MaxRollbacks tunings in a row that were      *)
(* rolled back since the process started, with none confirmed in between.  *)
THEOREM SuspendedForRollbacks == Spec => SuspendsForRollbacks
<1>1. ASSUME TInv, [Next]_vars
      PROVE  [state' = "suspended" /\ state # "suspended" =>
                /\ Len(decided) >= MaxRollbacks
                /\ \A i \in (Len(decided) - MaxRollbacks + 1) .. Len(decided) :
                     Status(decided[i]) = {"rolled_back"}]_vars
  <2> SUFFICES ASSUME state' = "suspended", state # "suspended"
               PROVE  /\ Len(decided) >= MaxRollbacks
                      /\ \A i \in (Len(decided) - MaxRollbacks + 1) .. Len(decided) :
                           Status(decided[i]) = {"rolled_back"}
    OBVIOUS
  <2>1. Types /\ Counting /\ count \in Nat /\ Len(decided) \in Nat /\ MaxRollbacks \in Nat
    BY <1>1, TunerAssumption DEF TInv, Sound, Types, Checked
  <2>2. Undone
    <3>1. ~Besides /\ ~Restart
      BY DEF Besides, Restart
    <3>2. Check
      BY <1>1, <3>1, BesidesSteps DEF TInv, Checked
    <3> QED
      BY <3>2 DEF Check, CheckBegin, Degraded, Continues, Passed, Confirmed, Undo, CheckFails
  <2>3. check.at = "undone" /\ count + 1 >= MaxRollbacks /\ RolledBack = count + 1
    BY <2>2 DEF Undone, RolledBack
  <2>4. RolledBack <= Len(decided)
        /\ \A i \in Len(decided) - RolledBack + 1 .. Len(decided) : Only(rows, decided[i], "rolled_back")
    BY <2>1, <2>3 DEF Counting
  <2>5. ASSUME NEW i \in (Len(decided) - MaxRollbacks + 1) .. Len(decided)
        PROVE  Status(decided[i]) = {"rolled_back"}
    <3>1. Only(rows, decided[i], "rolled_back")
      BY <2>1, <2>3, <2>4
    <3> QED
      BY <3>1 DEF Only, Status
  <2>6. Len(decided) >= MaxRollbacks
    BY <2>1, <2>3, <2>4
  <2> QED
    BY <2>5, <2>6
<1> QED
  BY <1>1, TInvAlways, PTL DEF Spec, SuspendsForRollbacks
=============================================================================
