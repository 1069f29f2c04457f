----------------------------- MODULE RiskState -----------------------------
(***************************************************************************)
(* What a strategy has lost: RiskEngine (strategy/risk.py), RiskManager    *)
(* (execution/risk_manager.py) and the risk_state table.                   *)
(*                                                                         *)
(* bootstrap() gives every strategy a RiskManager and a PositionManager of *)
(* its own and subscribes all of them to the one bus. So a position that   *)
(* closes is published once by each PositionManager, and each of these     *)
(* events is handled by each RiskManager, which keeps an engine for every  *)
(* strategy it hears of and saves it to that strategy's row. Only its own  *)
(* strategy's row is loaded by a manager.                                  *)
(*                                                                         *)
(* Time is counted in hours; cooldown_until is the hours that are left.    *)
(* daily_date is `today`: is it today's date?  Results are -1 or 1; the    *)
(* balance that daily_max_loss_pct refers to is constant: DailyLimit.      *)
(***************************************************************************)
EXTENDS Integers, Sequences, SequencesExt

CONSTANTS Order,          \* the strategies, in the order bootstrap() wires them
          MaxConsecutiveLosses,  \* max_consecutive_losses
          CooldownHours, DayHours, DailyLimit,
          Overlap,        \* may start() of a running process overlap the bus?
          MaxQueue,       \* bound: events that wait
          PnlBound        \* bound: positions close while |today's result| is at most this

ASSUME RiskStateAssumption ==
    /\ IsInjective(Order)
    /\ MaxConsecutiveLosses \in Nat \ {0} /\ CooldownHours \in Nat \ {0}
    /\ DayHours \in Nat \ {0} /\ DailyLimit \in Nat \ {0}
    /\ Overlap \in BOOLEAN
    /\ MaxQueue \in Nat /\ PnlBound \in Nat

VARIABLES
    up, hour,
    engine,   \* engine[m][s]: what the RiskManager of m knows of strategy s
    row,      \* the risk_state table
    loading,  \* loading[s]: the row, if any, that start() has read and not yet taken over
    open,     \* open[s]: does s hold a position?
    queue,    \* the PositionClosedEvents on the bus
    left,     \* the managers that have still to handle the first of them
    (* history *)
    streak,   \* streak[s]: losing trades in a row among those that were handled
    ban,      \* ban[s]: hours since the latest of MaxConsecutiveLosses or more
    lost,     \* lost[s]: the result of today's handled trades
    loaded    \* loaded[s]: has the row of s been loaded today?

history == <<streak, ban, lost, loaded>>
riskVars == <<up, hour, engine, row, loading, open, queue, left, history>>

Strategies == Range(Order)
NoRow == [losses |-> 0, pnl |-> 0, cooldown |-> 0]
Fresh == [losses |-> 0, pnl |-> 0, cooldown |-> 0, today |-> FALSE]
Down(n) == IF n = 0 THEN 0 ELSE n - 1

-----------------------------------------------------------------------------
(* RiskEngine *)

\* _ensure_daily_reset()
DailyReset(e) == IF e.today THEN e ELSE [e EXCEPT !.pnl = 0, !.today = TRUE]

\* Mutant: a new day is noticed only when a trade is recorded.
MayBuy_NoReset(e) == e.cooldown = 0 /\ -e.pnl < DailyLimit

\* Mutant: the limit itself is still allowed.
MayBuy_AtLimit(e) == LET d == DailyReset(e) IN d.cooldown = 0 /\ -d.pnl <= DailyLimit

\* evaluate_buy(), as far as it depends on what was lost.
MayBuy(e) == LET d == DailyReset(e) IN d.cooldown = 0 /\ -d.pnl < DailyLimit

\* record_trade_result(). Losses are counted up to MaxConsecutiveLosses: above it
\* nothing depends on the number.
RecordTrade(e, pnl) ==
    LET d == DailyReset(e)
        n == IF d.losses < MaxConsecutiveLosses THEN d.losses + 1 ELSE d.losses
    IN IF pnl >= 0
       THEN [d EXCEPT !.pnl = @ + pnl, !.losses = 0]
       ELSE [d EXCEPT !.pnl = @ + pnl, !.losses = n,
                      !.cooldown = IF n >= MaxConsecutiveLosses THEN CooldownHours ELSE @]

-----------------------------------------------------------------------------
(* RiskManager *)

\* Mutant: save_state() forgets the cooldown.
Saved_NoCooldown(e) == [losses |-> e.losses, pnl |-> e.pnl, cooldown |-> 0]

\* save_state()
Saved(e) == [losses |-> e.losses, pnl |-> e.pnl, cooldown |-> e.cooldown]

\* load_state(): daily_date is not part of the row and stays what it was.
Loaded(e, r) == [e EXCEPT !.losses = r.losses, !.pnl = r.pnl, !.cooldown = r.cooldown]

\* pre_validate() of a BUY lets it through, and the order succeeds.
BuyPasses(s) ==
    /\ up /\ ~open[s]
    /\ MayBuy(engine[s][s])
    /\ engine' = [engine EXCEPT ![s][s] = DailyReset(@)]
    /\ open' = [open EXCEPT ![s] = TRUE]
    /\ UNCHANGED <<up, hour, row, loading, queue, left, history>>

\* It does not let it through, or the order fails.
BuyFails(s) ==
    /\ up /\ ~open[s]
    /\ engine' = [engine EXCEPT ![s][s] = DailyReset(@)]
    /\ UNCHANGED <<up, hour, row, loading, open, queue, left, history>>

\* The position of s closes: every PositionManager had it and publishes the event.
Close(s, pnl) ==
    /\ up /\ open[s]
    /\ Len(queue) <= MaxQueue
    /\ {lost[s]} \cup {engine[m][s].pnl : m \in Strategies} \cup {r.pnl : r \in loading[s]}
         \subseteq -PnlBound..PnlBound
    /\ open' = [open EXCEPT ![s] = FALSE]
    /\ queue' = queue \o [i \in 1..Len(Order) |-> [strategy |-> s, pnl |-> pnl, first |-> i = 1]]
    /\ UNCHANGED <<up, hour, engine, row, loading, left, history>>

\* The trade counts when the manager of its own strategy handles its first event.
Count(s, pnl) ==
    LET n == IF pnl >= 0 THEN 0
             ELSE IF streak[s] < MaxConsecutiveLosses THEN streak[s] + 1 ELSE streak[s]
    IN /\ streak' = [streak EXCEPT ![s] = n]
       /\ ban' = [ban EXCEPT ![s] = IF pnl < 0 /\ n >= MaxConsecutiveLosses
                                    THEN CooldownHours ELSE @]
       /\ lost' = [lost EXCEPT ![s] = @ + pnl]
       /\ UNCHANGED loaded

\* on_position_closed() of the next manager in line: record, then save.
Handle ==
    /\ up /\ queue # <<>>
    /\ Overlap \/ \A s \in Strategies : loading[s] = {}
    /\ LET e == Head(queue)
           m == Head(left)
           known == RecordTrade(engine[m][e.strategy], e.pnl)
       IN /\ engine' = [engine EXCEPT ![m][e.strategy] = known]
          /\ row' = [row EXCEPT ![e.strategy] = Saved(known)]
          /\ IF m = e.strategy /\ e.first THEN Count(m, e.pnl) ELSE UNCHANGED history
    /\ IF Len(left) > 1 THEN left' = Tail(left) /\ UNCHANGED queue
                        ELSE left' = Order /\ queue' = Tail(queue)
    /\ UNCHANGED <<up, hour, loading, open>>

-----------------------------------------------------------------------------
(* Time, start and crash *)

Hour ==
    /\ hour' = (hour + 1) % DayHours
    /\ engine' = [m \in Strategies |-> [s \in Strategies |->
                    [engine[m][s] EXCEPT !.cooldown = Down(@),
                                         !.today = @ /\ hour' # 0]]]
    /\ row' = [s \in Strategies |-> [row[s] EXCEPT !.cooldown = Down(@)]]
    /\ loading' = [s \in Strategies |->
                     {[r EXCEPT !.cooldown = Down(@)] : r \in loading[s]}]
    /\ ban' = [s \in Strategies |-> Down(ban[s])]
    /\ lost' = [s \in Strategies |-> IF hour' = 0 THEN 0 ELSE lost[s]]
    /\ loaded' = [s \in Strategies |-> loaded[s] /\ hour' # 0]
    /\ UNCHANGED <<up, open, queue, left, streak>>

\* start() in a running process reads the row of its strategy, ...
LoadRead(s) ==
    /\ up /\ loading[s] = {}
    /\ Overlap \/ queue = <<>>
    /\ loading' = [loading EXCEPT ![s] = {row[s]}]
    /\ UNCHANGED <<up, hour, engine, row, open, queue, left, history>>

\* ... and then takes it over.
LoadTake(s) ==
    /\ up
    /\ \E r \in loading[s] : engine' = [engine EXCEPT ![s][s] = Loaded(@, r)]
    /\ loading' = [loading EXCEPT ![s] = {}]
    /\ loaded' = [loaded EXCEPT ![s] = TRUE]
    /\ UNCHANGED <<up, hour, row, open, queue, left, streak, ban, lost>>

\* A process starts: each loop's start() loads its strategy's row before the ticks.
Boot ==
    /\ ~up
    /\ up' = TRUE
    /\ loaded' = [s \in Strategies |-> TRUE]
    /\ engine' = [m \in Strategies |-> [s \in Strategies |->
                    IF m = s THEN Loaded(Fresh, row[s]) ELSE Fresh]]
    /\ UNCHANGED <<hour, row, loading, open, queue, left, streak, ban, lost>>

\* The process dies, and with it the events that wait.
Crash ==
    /\ up
    /\ up' = FALSE
    /\ engine' = [m \in Strategies |-> [s \in Strategies |-> Fresh]]
    /\ loading' = [s \in Strategies |-> {}]
    /\ queue' = <<>> /\ left' = Order
    /\ UNCHANGED <<hour, row, open, history>>

RiskInit ==
    /\ up = FALSE /\ hour = 0
    /\ engine = [m \in Strategies |-> [s \in Strategies |-> Fresh]]
    /\ row = [s \in Strategies |-> NoRow]
    /\ loading = [s \in Strategies |-> {}]
    /\ open = [s \in Strategies |-> FALSE]
    /\ queue = <<>> /\ left = Order
    /\ streak = [s \in Strategies |-> 0] /\ ban = [s \in Strategies |-> 0]
    /\ lost = [s \in Strategies |-> 0] /\ loaded = [s \in Strategies |-> FALSE]

RiskNext ==
    \/ \E s \in Strategies : BuyPasses(s) \/ BuyFails(s) \/ LoadRead(s) \/ LoadTake(s)
    \/ \E s \in Strategies, pnl \in {-1, 1} : Close(s, pnl)
    \/ Handle \/ Hour \/ Boot \/ Crash

RiskSpec == RiskInit /\ [][RiskNext]_riskVars

\* Time passes, the bus goes on, a start that has read its row takes it over.
RiskFairSpec ==
    /\ RiskSpec
    /\ WF_riskVars(Hour) /\ WF_riskVars(Handle)
    /\ WF_riskVars(\E s \in Strategies : LoadTake(s))

-----------------------------------------------------------------------------
(* Properties *)

\* ENGINE_GUIDE.md: three losses in a row, then 24 hours of cooldown: no BUY is let
\* through within CooldownHours of a loss that was the MaxConsecutiveLosses-th in a row
\* or a later one, whatever restarts there are. With several strategies the managers of
\* the others overwrite the row with what they know.
BanObeyed == [][\A s \in Strategies : ~open[s] /\ open'[s] => ban[s] = 0]_riskVars

\* No BUY is let through once today's trades have lost DailyLimit, unless the row
\* was loaded today: it does not say of which day its daily_pnl is. A new process
\* takes today's result for yesterday's and clears it; a running one that has begun
\* the day takes yesterday's for today's.
LimitObeyed ==
    [][\A s \in Strategies : ~open[s] /\ open'[s] /\ ~loaded[s] => -lost[s] < DailyLimit]_riskVars

\* No strategy is shut out for good by what it has lost: time alone lets it buy
\* again. It is evaluate_buy() that must notice the new day: no trade does.
TradesAgain == \A s \in Strategies : []<>(open[s] \/ MayBuy(engine[s][s]))
=============================================================================
