# Verification of traderj

TLA+ models of traderj, an asyncio trading bot for KRW-BTC on Upbit, with the TLC
runs that check them and the theorems TLAPS proves. `PROJECT.json` lists the
components, the runs, the code lines each definition models (`map`), the mutants each
property rejects, and the hazards. Section 5 lists where the code and what is written
about it disagree.
Paths below are relative to the repository (`src/` in `PROJECT.json`).

    tlc -workers 2 -config TradeOverlap.cfg MCTradeCycle    # a run
    tlapm TradeCycle_proofs.tla                              # the proofs of a module

## 1. The system

One process holds one *loop per strategy*. `bootstrap()` (engine/bootstrap.py) builds the
store, the event bus and, for each strategy, an OrderManager, a PositionManager, a
RiskManager, a CircuitBreaker, a StateMachine and a TradingLoop, and subscribes each of
these managers to the *one* bus. `run_paper.py` also starts the HTTP API in the same
event loop.

| component | state | operations | talks to |
|---|---|---|---|
| TradingLoop (engine/loop/trading_loop.py) | `_running`, regime, AI counters | `start`, `stop`, `tick`, `_execute_signal/_execute_buy/_execute_sell`, handlers of StopLossTriggered and TakeProfitTriggered, `_emergency_exit`, `_handle_command` | all below by calls; bus by events |
| OrderManager (engine/execution/order_manager.py) | `paper_balances`, `orders` | `handle_order_request` → `_execute_paper` / `_execute_live` | breaker, store, exchange; publishes OrderFilled |
| CircuitBreaker (engine/execution/circuit_breaker.py) | state, failure count, `_opened_at` | `allow_request`, `record_success`, `record_failure`, `state` | called by OrderManager |
| PositionManager (engine/execution/position_manager.py) | `_positions`, trailing state; `positions` table | `on_order_filled`, `on_market_tick`, `set_stop_loss`, `set_take_profit`, `configure_trailing_stop` | bus in and out, store |
| RiskManager / RiskEngine (engine/execution/risk_manager.py, engine/strategy/risk.py) | losses, daily PnL, cooldown; `risk_state` table | `pre_validate`, `on_position_closed`, `load_state`, `save_state` | bus in, store |
| StateMachine (engine/loop/state.py) | state; `bot_state` table | `transition`, `force_state`, `load_state` | called by TradingLoop |
| EventBus (engine/loop/event_bus.py) | queue, handlers | `publish`, `_process_loop`, `start`, `stop` | everybody |
| IPCServer, `bot_commands` (engine/loop/ipc_server.py, api/ipc_client.py) | pending rows | save, dispatch at once, poll in each tick, mark | TradingLoop `_handle_command` |
| Scheduler (engine/loop/scheduler.py) | jobs | one tick per strategy at a time (`max_instances=1`) | TradingLoop |
| Regime switch (engine/strategy/regime_switch.py) | current regime, debounce counters, the deferred preset | `evaluate`, applied by a tick or deferred; POST /strategy/switch beside it | position's stop, DCA and grid engines |
| UpbitExchangeClient, RateLimiter, Upbit WebSocket (engine/exchange/) | token windows, connection | order, cancel, balance, ticker | exchange (external) |
| AI tuner (engine/tuner/) | sessions, monitoring windows, parameter history, provider breakers and budget | evaluate → optimise → guard → apply → monitor → roll back | store, LLM providers (external) |
| Backtest jobs (engine/backtest/) | jobs, history, candle cache, worker threads | submit, cancel, progress, trim | API, exchange |
| Backtest computation (engine/strategy/backtest/, engine/backtest/runners.py, validators.py) | account, position, exit levels, equity of a run | cut candles into runs, walk over the bars | jobs, scripts |
| DataStore (engine/data/) | tables; SQLite's one connection and transaction, Postgres' pool | `save_*`, `get_*` | everybody |
| Order-splitting strategies (engine/strategy/grid.py, dca.py, tiered_exit.py) | levels, tranches | evaluate a price, mark as filled | no caller but the backtest and tests |
| WebSocket fan-out (api/ws/) | connections, subscriptions, pong times | connect, subscribe, broadcast, heartbeat | dashboard |
| API, dashboard, notifications, scripts | — | reads, formatting | — |

### What is hard about it

* **Everything interleaves at `await`.** A tick, the bus task and HTTP/IPC requests share the
  position, the account and the state machine; the code reads before an await and
  writes after it.
* **Orders and positions are connected only by events.** An order is filled (balance and
  `orders` row written) by the caller; its position is opened or closed later, when the bus
  delivers OrderFilled.
* **Persistence is piecewise.** Balance, order, position, risk and bot state are separate
  statements; a crash or a failing write falls between them.
* **One bus, several strategies.** Handlers filter by strategy id, or do not.
* **Commands are delivered twice by design** (dispatched at once, and polled).
* **Threads cannot be stopped.** A backtest job that times out or is cancelled leaves its thread
  computing.
* **One transaction for everybody.** With SQLite the coroutines share a connection: whoever
  commits commits the others' rows too.
* **Time**: the breaker's recovery, cooldowns, midnight, a month's budget.

What makes each component correct, in one line: the *trading cycle* never creates or loses
money, and its position follows its trades; the *breaker* blocks exactly while it cools
down and never for good; the *lifecycle* ends trading when it says so and never sticks
in the middle of a tick; *risk* limits survive restarts and expire; *exits* sell the
position that triggered them; a *regime switch* is debounced, and its preset is either live or waits for a
close; the *tuner* leaves the parameters either approved or rolled back, within its guardrails and
budget; the *store* returns what was saved last, also after a crash; *jobs and caches* finish, and compute on
the bars they were asked for; a *backtest* trades each bar once and its account adds up.

## 2. Modules

| module | models |
|---|---|
| `CircuitBreaker` | one breaker and the attempts (tick, bus, control) that pass between `allow_request` and their report |
| `TradeCycle` | one strategy's order → balance → event → position cycle, with stop, regime switch, control requests, emergency exit, crash and failing writes |
| `Holding` | what a trading cycle promises: flat or holding one position, each trade followed by the position |
| `BotLifecycle` | StateMachine, TradingLoop start/stop/pause/emergency exit, ticks' transitions, HTTP engine requests, IPC commands |
| `PositionExits` | the levels that end a position (stop, trailing stop, target), the market ticks that compare them with the price and the sales they lead to |
| `RiskState` | every strategy's risk manager, the risk_state rows, days and cooldowns |
| `RegimeSwitch` | the regime switch manager and the loop that carries a switch out around an open position |
| `Tuner` | tuning sessions as a whole, their history rows, the hourly check with confirmation, rollback and suspension, the API's requests |
| `TuneSession` | one tuning session from the inside, and the providers that sessions share |
| `RecordStore` | what the program may rely on when it saves records |
| `StoreTables`, `Store` | the tables with what each backend does to a row; the saves of several coroutines with SQLite and with Postgres |
| `CandleCache`, `BacktestJobs` | the candle cache's gaps and fetches; the jobs, threads and history of the backtest API |
| `Backtest` | how callers cut candles into runs, and the engine's walk over the bars |
| `*_proofs` | the theorems |
| `MC*` | small sets of model values for TLC |

`TradeCycle` and `TuneSession` use `CircuitBreaker`: that each breaker takes steps of that module is a
property of their runs (`BreakerProtocol`, `RouterKeepsBreakers`). `Holding` and `RecordStore` are abstract
specifications; `TradeCycle` and `Store` are shown to implement them (`RefinesHolding`, `Keeps`).

**Steps.** asyncio code is atomic between two awaits, so an action is the code from one await
to the next, and a variable (`job` in TradeCycle, `pc` in BotLifecycle) says where each task is
suspended and with what it has read. `SqliteDataStore` sends all statements to one
connection thread: they take effect in the order they are issued. Hence a statement takes
effect in the action that issues it, and the code after its await is the next action. `Store` is
about that connection itself and splits a save at each of its awaits.

**CircuitBreaker.** `state`, `failures`, `since` are `_state`, `_consecutive_failures` and the
clock minus `_opened_at` (capped at `RecoverySeconds`: nothing tells larger values apart). `inflight`
holds the attempts that were admitted and have not reported. Reading `state` re-arms an OPEN
breaker, as the property does in the code. `FailureCap` bounds the counter; the theorems hold for each value of it.

**TradeCycle.** Money is counted in lots at a fixed price (a fill moves one lot between KRW and
BTC), so conservation is about lost updates and not about rounding. `bal`, `ledger`, `rows` are the
account, the order rows (BUYs minus SELLs) and the open rows of the positions table; `pos` and `own` are the PositionManager's
position and its id; `queue` the bus; `job[t]` the stages of `tick`, `_execute_signal`, `handle_order_request`,
`on_market_tick`, `_emergency_exit`, `start`. `Overlap = FALSE` is the sequential schedule the
code seems to be written for (a task that has looked at the position is followed up by the
bus before another one looks); `Overlap = TRUE` is asyncio's. `Faults` switches crashes and
failing writes, of orders (`save_order`) and of positions: PositionManager changes its memory first, so that a
`save_position` that raises (`Save`) leaves an open position without its row, a closed one with it, or a stop only in memory.
`Load` is `load_open_positions()`. Two variables are history: `astray` holds the positions whose
last write failed, or that a start left behind or brought back; `calm` says that so far tasks have taken turns and
nothing has failed, which makes `AgreesAtRest` a statement about asyncio's schedules too: up to the first disturbance. The awaits in which the state machine persists are collapsed here;
BotLifecycle splits them.

**BotLifecycle.** Tasks are the tick, the IPC server's connection and the HTTP requests in
`Http`; `deployment` is "embedded" (run_paper.py: API, no IPCServer) or "ipc" (`bootstrap()`:
IPCServer, no API). Transitions persist after they changed the state, and each such await is
a place where others run. `resume()` is reached by no endpoint, and
`StateMachine.load_state` has no caller, so neither is an action.

**PositionExits.** `pos[m][s]` and `trailing[m][s]` are `_positions[s]` and `_trailing_state[s]` of the
manager of strategy `m`; `rows` the open rows; `queue` the bus and `left` the managers that have still to
handle its first event. `scan` and `saving` are the loop of `on_market_tick()`, which lists the
positions, saves a copy of each and looks at the levels after the save; `tick[s]` is a BUY that is between
its decision, its fill and the three calls that set its levels. Prices and levels are small numbers one apart: percentages and the
break-even arithmetic are abstracted to "one below" and "one above". A trailing stop
exists only when a BUY overlaps the delivery of an earlier fill, because the levels are set before
the BUY's own position exists (section 5); the model has that overlap. All managers list the positions of all strategies, also one that a
strategy which is no longer wired (`Others`) has left open: beside it a market tick awaits one save between listing a position and writing its
copy back, and levels that are set meanwhile are overwritten. `StartReads`, `StartLoads` are `start()` in a running process (/engine/start, /engine/restart):
it awaits the open rows and puts them over what is in memory by then. Every start, also the one after a crash, forgets the targets, and a crash the trailing state:
`take_profit` is no column and `_trailing_state` is not saved. `asked` records the levels last set, to state `LevelsStick`; a level that is set while a copy
of the position is out is recorded as `Unsure`. `mixed` holds the strategies that have bought on top of a position or whose position a start replaced by
another one, the exception of `SellsWhatTriggered`. Saves do not fail here (TradeCycle has those that do).

**RiskState.** Time is in hours; midnight is a change of day that nobody is told of:
`_ensure_daily_reset` sees it when it is called. Every manager handles every event (bootstrap
subscribes them all), and every PositionManager publishes its own PositionClosed. `streak`, `ban`,
`lost` and `loaded` record what has happened, to state the properties against.

**RegimeSwitch.** `regime`, `preset`, `pending`, `count` are the manager's fields of these names and `since` its
clock minus `_last_switch_time`, capped. `tick` is where a tick is suspended during a switch: in the sale of the position
("closing") or in `set_stop_loss()` ("tightening"); `handler` is the bus task, which `_on_position_closed()` suspends
between the preset and the engines. `held` is the account, `pos` the manager's position, and the bus (`queue`) carries
fills, prices and closes between them, so that a position may be closed while a tick is deferring a switch for it.
A percentage of the entry price is a distance. Time stands still while a sale or a switch is under way: a cooldown is an hour.
`ApiSwitch` is POST /strategy/switch, which sets the live preset and the manager's and touches neither the engines nor a switch that is being carried out or deferred.
`OnSoldRaises` and `OnTickRaises` are saves that raise in the bus's handlers. History: `run` (detections in a row); `astray`, `apart` and `late` mark when the manager's
belief, the engines or a deferral have come loose from what runs, and by what (a statement that failed, the API, a deferral in the midst of a close): they name the
exceptions of the properties, and the next switch that is carried out ends them.

**Tuner.** The value of a parameter is where it comes from, a preset or a tuning, so that `live`
against `rows` says whether what runs is what the history knows. The three score weights are one parameter
that is assigned last: they are set one at a time on an object that refuses any whose sum is not one,
so nearly every session that changes them raises there, with the parameters before them live. `ground[k]` is the preset whose
weights those of tuning `k` are close to: only close weights can be assigned over each other. A session is split at its awaits
(evaluation, optimisation, one INSERT per parameter); `check` is `check_monitoring()`, whose second
look at a record is folded into the decision because nothing else changes statuses where it runs.
`deployment` is "engine" (`bootstrap_and_run()`: the scheduler's jobs, no API) or "paper" (run_paper.py: the API's
requests, no jobs). Which tunings lose money is a free choice, when monitoring windows end too. As
`bootstrap()` registers neither risk engine nor regime switch manager, and no component has the Tier 3
parameters under `config`, sessions of Tier 2 and 3 have no effect and nothing is ever PENDING. The report
rows, notifications and the optimiser's numbers are left out. `lost` and `decided` record what has happened.

**TuneSession.** What `Tuner` takes as one step: the parameters are read, the evaluation is awaited, the provider router is asked three
times (diagnosis, selection, approval) and a rule stands in for each answer it does not get, candidates are sampled, and the
guardrails clamp and normalise what is applied. A session between two awaits is `Running` and holds the event loop.
`Ask`, `Fails`, `Answered`, `Unanswered` are the router's loop over the providers, each behind its breaker; `spent` is `CostTracker`, charged after an answer.
A trial takes each parameter from an end of its narrowed range. Scores are two-valued, an answer costs one, prompts are left out.
Values are numbers of a smallest unit; a change is 20 % of the magnitude of the value that is replaced, which may be negative (`sell_threshold`).

**RecordStore, StoreTables, Store.** A record is a table and a key; a column holds the number of the save that set it, None, or Zero
(which some columns cannot tell from nothing). SQLite's connection has one open transaction for every coroutine: their rows become
visible at once, whoever commits first commits them all, also those of a save that was cancelled, and a crash rolls back what is uncommitted. Postgres runs a
save as one statement, and its ON CONFLICT sets a list of columns. `Keeps` maps both to RecordStore, whose `versions` of a record are what a crash may bring back. One column is
excluded by name (`Lost`): with Postgres an order saved twice keeps its first price.

**CandleCache, BacktestJobs.** Daily bars are numbered, times count in half bars so that "from the opening of the first day to the end of
the last" keeps its edges. A job is a task that collects candles gap by gap, hands computations to worker threads one after another
(`Parts` of its mode), and closes its connections; cancellation and the timeout strike at each await and do not stop a thread.
`asked`, `answered` and `lone` (single bars between cached ones, which the gap search does not see) are history. A cancellation finds its task begun: the task is scheduled when the
job is submitted, before a client can know the job's id.

**Backtest.** A plan says what a caller wants and `RunAt` which candles, window and dates each of its runs gets: the API's period and its weeks, the
scripts' weeks, recent days, train/test split, and the walk-forward windows of a validation, with their sizes cut down to the data. A run walks bar
by bar: price exits in their order, signal, equity point, and a forced close at the end. An order is for one unit, the levels are distances, bars and signals are free. A
run may raise at any of its bars (`RunRaises`): a week or a window is then left out and a week's balance kept, but for the first week of the API's job, whose
`result` is unbound, and for callers without a loop (`GoesOn`). `ran` says that a week has returned its result, and `peak`, the highest price since the entry, is read by
`ExitsHonoured` only. A midnight of the real clock may pass, because the risk engine reads it.

## 3. Runs

| run | question | answer |
|---|---|---|
| `breaker` | three attempts in flight, any order of reports and of time | counter and state agree; nobody is admitted in the cool-down of the last trip; a caller that goes on asking is admitted again and again |
| `trade_serial` | does the sequential schedule implement `Holding` and use the breaker as it is meant? | yes, with stop and start of the running process |
| `trade_overlap` | what is left when tasks overlap, the process dies and writes fail? | money adds up and nothing is overdrawn; memory and rows agree but for the positions whose write failed; until the first disturbance account, orders and position agree at rest |
| `life` | lifecycle under overlapping requests, or commands dispatched and polled, with a crash | never stuck in a mid-tick state; trading ends after a stop; a saved command is handled even if its dispatcher died |
| `exits` | one strategy's levels over a moving price, overlapping BUYs, requests, failing orders and crashes; beside a position another strategy left, also starts in the running process | a trigger sells the position it is about; levels stick, but for targets at a start and levels set while a copy was out; no reached level is forgotten |
| `risk` | one strategy's limits over trades, midnights, crashes | cooldown obeyed across restarts; daily limit within a process; nothing shuts a strategy out for good |
| `switch` | regimes that flicker around an open position, sales by others, switches through the API, failing statements | a switch is debounced; its preset is live or waits for a close, and DCA and grid follow it, unless the API or a failure came between; a deferral ends |
| `tuner` | sessions, checks, requests and regime switches that overlap, failing statements, refused score weights, a restart | what runs is recorded; a check that rolls back several tunings brings none back; a suspension has its reason; every tuning is decided |
| `session` | two sessions that share the providers, a budget that runs out, a month that ends, presets switched under them | the budget is overdrawn by what is in flight only; each provider's breaker behaves as `CircuitBreaker`; changes are bounded from the values they replace; every session ends |
| `store` | two coroutines that save, fail, are cancelled and crash, with both backends | the store implements `RecordStore`; every save ends |
| `jobs` | jobs that are submitted, cancelled, time out and fail at each await, with threads that run on | one job is under way and can be found; an outcome is settled once; the cache leaves out lone bars only; every job ends |
| `walk` | plans of every caller over free bars and signals, with runs that raise | the weeks cut their period into pieces; no reached level is passed over; the account adds up; every walk ends |

**Bounds.** Three attempts are the three kinds of task that place orders (tick, bus, one control
request). In TradeCycle a capital of two lots lets a second BUY fill while the first is not
yet a position, and one control request next to tick and bus is enough for each lost update, which takes
two orders; `LedgerBound` and `MaxQueue` only bound *when orders are placed*, so what is
under way always ends. Three ids of positions are one in memory, one whose write failed (`MaxAstray`) and a new one; in `trade_overlap` an order is placed or a tick published when the bus is empty,
and `RestartInPlace` (stop and start of the running process) is in `trade_serial` only: with overlap too there are more states than a run can visit (the proofs bound none of these, and have both). BotLifecycle has two requests (a start and a stop, two starts) or
two commands; one crash, because a second one meets the same persisted states. In RiskState the limit
of consecutive losses is the code's default (3), a day and a cooldown are two hours, so a cooldown can
span midnight and end in the middle of a day. In PositionExits three prices, one level to ask for on each side and two lots allow a BUY over an open
position, a trailing stop that is activated, raised and reached, and a trigger that is
overtaken by a sale and a new BUY (three ids); one event waits on the bus while another is started (with two the runs take too long; the proofs of section 4 bound neither). Beside another strategy's position there are two prices and one lot, and starts in the running process
(`InPlace`, `MaxRows`): a copy that is out takes a second position, not a second BUY. Again the proofs have neither bound. RegimeSwitch has a trending and a ranging regime (one without a grid, one with), a debounce of two and
two prices, one of them a large loss. In Tuner two parameters, one of them the score weights, are enough for a tuning that is applied or saved in part;
`MaxEvents` (tunings, regime switches and restarts together: three in the engine, two in the paper deployment) allows a rollback, a confirmation and another rollback, in every
order. TuneSession has two sessions, two providers whose breakers trip at the first failure, and a budget of one answer, so that each is exhausted while the other session asks.
Store has two coroutines and three saves about two candles, or a candle and a record of another table: a save, one that overtakes it, and one that commits for both.
BacktestJobs has two jobs, one thread, a history of one and three days, which is a lone bar between two. Backtest's plans have an empty validation, ones that are cut down and one that is not,
two lengths of validation on either side of the least one that ends (three bars), weeks that end before seven days (here two bars), and shapes of bars that reach the stop, the target, the trailing stop (in one bar and over two) or no level. `Room`-like guards never disable a step that
finishes something.

**Fairness.** Weak fairness of the steps the event loop schedules: time, the bus task, a
suspended task's continuation (`WF`, the store answers, clients have timeouts), the scheduler's tick while the bot runs. Nothing is asked of worker threads. A statement that is repeated every hour does not fail for ever (`SF` of the tuner's
`Passed \/ Degraded` and `Undo`). In RegimeSwitch a tick has a ticker to publish again and again, and of the saves of market ticks one succeeds again and again (`SF` of `PublishTick` and `OnTick`). No fairness of
requests, market moves, faults or crashes. `AdmitsAgainAndAgain` has its callers ask again and
again, which the scheduler's periodic tick does. `BreachEnds` and `DeferralEnds` assume that of the sales their triggers ask for again and
again one succeeds (`SF` of `ExitFills` and `StopSells`): the breaker admits one again and again, which is `AdmitsAgainAndAgain`, and an
exchange that rejects every sale is outside the claim. A new process is started (`Boot`) where a property
says that something survives a crash.

**Deadlock** is checked except in `life`, `tuner` and `session`, which bound the commands, tunings and sessions, and `walk`, whose plans finish: with nothing left
to be asked for, the system is meant to do nothing.

## 4. Proofs

For every value of the constants that meets the assumption named in its module:

* `Guards_proofs`, the breaker: types; `CountAlwaysMatchesState`; `HalfOpenAlwaysAfterRecovery`; and, from the
  same invariant, the action property `CoolingBlocks`. The inductive invariant adds to the
  two state properties that an OPEN breaker has at least the threshold of failures: without it a
  step of time says nothing about what re-arming may do. (The specification of PositionExits is called `ExitsSpec`, so that one module can extend both.)
* `Guards_proofs`, the exits: `LevelsAlwaysStick` and `SellsOnlyWhatTriggered`, for one strategy (`OneStrategy`, as in the run: with two each manager opens a position for one BUY), any prices and
  a bus of any length, beside any positions that others left. `Standing` says that position, row and the levels last set are one and the same, for each copy that is out up to
  the levels that were set since (`Unsure`); `Ordered` that of the trigger of a position that is gone, the sale that ended it and the
  fill of a later BUY none overtakes another on the bus (`Chain`). The proof attempt showed that `SellsWhatTriggered` needs its exception `mixed`: two BUYs decided before the first
  one's fill is delivered, a sale and a trigger in between, and the trigger sells the second position. That takes two waiting events; the run has one.
* `TradeCycle_proofs`: types (no negative balance) and `BalanceAlwaysConserved`, for any number of
  overlapping tasks, crashes and failing writes. `BalanceConserved` alone is not inductive,
  because an order writes back a balance it read earlier: the invariant `MInv` adds that
  each snapshot a task holds adds up to the capital (`SnapshotsConserved`). There is a step for each action, and
  under it one for each conjunct the action can disturb. `PositionAlwaysPersisted` (`PInv`) says where position and rows may differ: for the ids in `astray`, and by
  what a suspended start has read. `DrivesBreaker` maps every step of the order pipeline to a step of `CircuitBreaker` or none; it assumes a
  process that does not crash, since a new one has a new breaker. `AgreesUntilDisturbed` and `TradesLikeHolding` assume nothing of the schedule or the faults: they speak of
  a behaviour as long as `calm` holds. `SInv` says that until then one task at a time is between its look at the
  position and the event that follows its order up (`InTurn`), that an event on the bus has an order behind it (`Caused`), and what
  account, orders, position and bus then say of each other (`Told`). `TradesLikeHolding` is the refinement of `Holding`, step by step, without its fairness.
* `BotLifecycle_proofs`: `NeverLeftMidTick`, from `Carried`: a state of the middle of a tick is one that a suspended tick, start or stop is
  there to leave. `StoppedTradesNoMore` needs `Halts`: where a command's stop is, and that each tick still under way finds the state moved on.
* `RegimeSwitch_proofs`: all three safety properties of the run `switch`, and the types, for every set of regimes and prices and every bound on the bus, with failing statements and switches through the API.
  `SwitchesAreDebounced` rests on `Counting`: what the manager counts are the latest detections, and it counts only when the cooldown is
  over. `NoSwitchIsLost` needs `Flow`, which ties account, position and bus together (a purchase on the bus while the lot is held and nothing is open, a sale
  while a position is open whose lot is gone, never a close behind a purchase): it gives that a close finds no position, and that a deferral for a position has a close to come.
  `Settled` adds what the suspended handler may find. Where `astray`, `apart` or `late` hold the invariants say less, and a switch that is carried out must bring them back. `EnginesAlwaysFollow` adds `Matched`: presets are those of their regimes, and the preset a suspended handler has set is the one it will configure.
* `TuneSession_proofs`: `BudgetAlwaysHolds`, for any number of sessions (finite, not none), any list of providers and every budget. The overdraft is what is in flight:
  the invariant `Accounted` says that what is spent and the sessions that wait for an answer are together below the budget plus the number of sessions. A step
  ends a wait (`Leaves`), starts one while the budget lasts (`Asks`), or turns one into a charge (`Pays`); `Shaped` keeps the sessions' records in form.
  `RouterAlwaysKeepsBreakers` maps each step of the router to a step of `CircuitBreaker` for every provider: `Wired` keeps the breakers in form and says that only a session with a question open asks a provider.
  `GuardrailsAlwaysHold`, for any parameters, presets and candidates: `Guarding` says that one session runs at a time and that what it is about to apply fits what is live (`Fitting`). For the weights, `SharesSum`
  shows that shares of a sum that are rounded one by one miss the whole by half a unit each; it is an induction over finite sets, of a sum (`Total`) that takes a function and not an operator.
  The proof attempt showed what the guardrails rely on, now in `SessionAssumption`: the thresholds of every preset keep their bounds (as all of engine/strategy/presets.py do), else the clamp to
  the bounds exceeds the 20 %; a strategy has a timeframe of positive weight; timeframe weights are set before scores (the order of `TIER_1_BOUNDS`), else a score that raises leaves them half set.
* `Tuner_proofs`: three properties of the run `tuner`, for any strategies, parameters, requests and bounds, from one invariant in layers. `Dated`: no row, value or
  old value is younger than it can be. `Recorded`: not only what is live but whatever may come back (old values in rows, in snapshots of sessions, of checks and of manual rollbacks)
  has a row, a session that is still saving, or is lost; so `AppliedStaysRecorded`. `Deciding` and `Counting`: a decided tuning keeps its status and the count is that of the
  last decisions; so `SuspendedForRollbacks`. `Erased`: what a check has undone is newer than what it still looks at, which is why no value of it comes back (`RolledBackLeavesNothing`).
* `Persistence_proofs`, jobs: `JobUnderWayIsKnown`, `OutcomeIsFinal`, and `OnlyLoneBarsAreMissing` for every content of the cache: `GapsCover` shows that each missing
  bar lies in a stretch that is fetched or is alone between two cached ones, and `JInv` says what a job has collected after each of its gaps.
* `Persistence_proofs`, store: `StoreKeepsItsPromise`, the refinement of `RecordStore` by `Store`, for any coroutines, tables, columns and saves and either backend. A statement with SQLite is the put of a row, a commit the
  return of the saves behind it; a statement with Postgres puts all rows of its save and returns later; a stop is the crash. Besides the types (`StoreTyped`) it needs that a save under way with Postgres leaves the
  columns alone that it does not set (`Partial`) and that a row that is missing has one creator (`OneStatement`). `StoreTablesAssumption` tells None from rows and from zero. (`Store`'s specification is `StoreSpec`, as above.)
* `Results_proofs`, backtests: `BooksAlwaysBalance` (`Booked`: balance, open position, results and fees against the money of the start, also within a bar), `ExitsAlwaysHonoured` (`Watched`: what the
  bars since the entry have shown) and `WeeksCoverThePeriod` (`InWeeks`: where a week begins and ends, also one whose run raised), over the types `Walking`.
* `Results_proofs`, losses: `BanAlwaysObeyed` and `LimitAlwaysObeyed`, for one strategy whose start does not overlap the bus (`TakesTurns`, as in the run), every limit, cooldown and length of a day.
  `Remembers` says that the row, and the manager while the process is up, count what was handled, across crashes; it needs `Alone`: a row that a start has read is still what the table says. `SumsUp` ties
  today's result to what the manager counts, or to zero before it has noticed the day. (RiskState's specification is `RiskSpec`, for the same reason.)

The assumptions are those of the modules: sets are what they are for (no request is called "cron", a period begins before it ends), limits are natural numbers, parameters are a
sequence without repetition. None bounds the number of tasks, requests, strategies, jobs or bars.
`todo` of BotLifecycle (the commands a tick has read) and of Tuner (the tunings a check has still to look at) are sets, in which the earliest command and the newest tuning are taken
next: that is the order of the query that read them, and a set is easier to reason about than the list.

Left to TLC: liveness and everything that needs ENABLED, which the prover does not handle (`SavedCommandHandled`, `MonitoringEnds`, `JobEnds`, `WalkEnds`, `SessionsEnd`, `SavesEnd`, `TradesAgain`, `AdmitsAgainAndAgain`, `DeferralEnds`, `BreachEnds`, the fairness of
`RefinesHolding`). What a recursive definition computes for every input is not proved either; inductions over finite sets are (`SharesSum`, by well-foundedness, without an operator as a parameter). Every safety property that a
run checks has a theorem, under the hypotheses named above.

## 5. Known divergences

Seen while modelling; the models do what the code does, and no run states the opposite.

**Orders, positions, lifecycle, risk**

* "HALF_OPEN: 1 attempt allowed" (engine/execution/circuit_breaker.py:6): every caller is let
  through while a trial is in flight.
* The resume endpoint sends "start" (api/routes/bots.py:60), which `_handle_command` does not know:
  a paused bot stays paused.
* A success reported after the trip by an attempt admitted earlier closes an OPEN breaker
  without the cool-down (`record_success` does not look at the state).
* The order, its balance and its position are written separately; a crash in between leaves an
  order that no position follows (docs/design/round3-tech-decisions.md:322 promises the
  position is restored).
* A trigger names a position and no handler looks at the name (engine/loop/trading_loop.py:586): after a BUY on top of a position it can sell another one than the one whose level was reached.
* `start()` in a running process reads the open rows and the risk row and then overwrites
  memory that may be newer (engine/loop/trading_loop.py:122): targets are lost, since `take_profit` is no column, and of two open rows of a strategy the older one
  takes over. The run `risk` excludes this overlap (`Overlap = FALSE`).
* PositionManager changes its memory and then saves (engine/execution/position_manager.py:114, 280, 331, 416). When `save_position` raises, the bus or the tick logs it and goes on: the
  row of a new position is missing, that of a sold position stays open, is watched again after a restart, and its PositionClosed is never published.
* A market tick lists its positions, awaits a save for each and writes back what it listed (engine/execution/position_manager.py:83): with a second position, a stop or target set meanwhile is overwritten.
* `start()` and `stop()` of two requests can interleave to a bot that runs in IDLE; a stop during a start
  lets an old tick trade (docs/archive/dashboard-storyboard.md:363).
* A pause that arrives in mid-tick is marked as processed and forgotten
  (docs/design/round4-dashboard-design.md:590). A paused bot restarts SCANNING
  (docs/manual/ENGINE_GUIDE.md:923).
* The emergency stop of all bots sends the strategy id `__all__`, which no loop knows
  (docs/design/round4-architecture-design.md:1063). A command may run twice (:536).
* The daily PnL is restored without its date: a restart clears today's loss, a start in a
  running process brings back yesterday's.
* `python -m engine` starts the loops before the store is connected (engine/bootstrap.py:296),
  and stops at the assertion in engine/data/sqlite_store.py:245.
* "Paper mode: instant fill against internal balance" (engine/execution/order_manager.py:137): `_execute_paper` reads the balance
  before it awaits the price and writes back from that copy, so that of two orders in flight both fill and one is lost from the
  account (`AgreesAtRest` speaks up to the first task that looks at the position out of turn).
* "Set SL/TP/Trailing Stop from risk decision" (engine/loop/trading_loop.py:524): `_execute_buy` calls `set_stop_loss` right after the order,
  while the bus opens the position later; no position is found, False is returned, and nobody looks. Without an overlap no BUY ends with its stop set.
* "stop() should transition from active to IDLE." (engine/tests/unit/test_trading_loop.py:166): the error recovery of a tick that finds IDLE after
  its await forces SCANNING (engine/loop/trading_loop.py:244) in a stopped bot.
* With two strategies each manager opens a position of its own for one BUY (engine/bootstrap.py:202 subscribes all of them).
* In live mode `_confirmation_loop()` asks the exchange client for `fetch_order()` (engine/execution/order_manager.py:248), which `UpbitExchangeClient` does not have:
  each poll raises, the order is reported as not filled and counts as a failure of the breaker, whatever the exchange did with it, and the next signal orders again.
* "Emergency exit: close all positions and stop" (engine/loop/trading_loop.py:691): a rejected sell
  ends the exit all the same, and the position stays with nothing watching its stop.
* With several strategies every RiskManager counts every strategy's losses from 0 and saves its count over the
  owner's row: a restart loses losses and cooldown (docs/manual/ENGINE_GUIDE.md:799). The module can
  be run so (`Order` with two strategies): `BanObeyed` is then violated.

**Regime switch**

* A switch is deferred after an await in which its position may have been closed: it then waits for
  the close of some later position.
* `apply_switch()` changes the manager before statements that may raise; a failed immediate close applies the new preset with the position still open.
* With the default thresholds the "tightened" stop lies at or above the current price.
* A restart forgets regime and deferral; `apply-regime-map` of the wizard does not reach the running engine.

* POST /strategy/switch (api/routes/control.py:112) sets the live preset and the manager's, and leaves DCA and grid as they are, and a switch that is under way or deferred: the sale's end
  or the next close brings that one's preset back, while the manager believes in the one set by hand.
* While `_on_position_closed()` is suspended between preset and engines, a tick may defer another switch: the handler then configures the engines for that one's regime and clears it, so its preset never goes live.

**Tuner**

* Tunings of overlapping windows that are rolled back oldest first, in different checks or by requests, bring the
  older one's values back; a rollback after a regime switch brings the old preset's values back; a restart forgets
  live tunings whose rows stay (docs/manual/ai-strategy-tuning-guide.md:65 promises the original settings).
* POST /tuning/approve with approved = false marks any tuning REJECTED, live or not
  (docs/manual/ai-strategy-tuning-guide.md:178).
* `_apply_tier1` (engine/tuner/applier.py:315) sets the three score weights one at a time, and `ScoreWeights.__post_init__`
  (engine/strategy/scoring.py:23) raises unless they add up to one within 0.001: nearly every Tier 1 tuning raises with thresholds, timeframe and macro weights
  live and no row, and a rollback to a preset with other weights raises after a partial restore, which ends the hourly check before later tunings
  (docs/design/features/ai-tuner.design.md:1042; the test, engine/tests/unit/test_tuner/test_applier.py:149, sets the value that is there).
* `run_tuning_session()` looks at SUSPENDED only when it begins (engine/tuner/pipeline.py:79) and assigns its own state after its awaits: a session in flight
  ends a suspension that is to last until a human acts (docs/manual/ai-strategy-tuning-guide.md:135).
* `add_cron_job()` hands `day_of_week` to `add_job()` and not to its CronTrigger, so "every Monday" is every
  day (engine/loop/scheduler.py:44); the evaluation's drawdown is always 0.0, so the rule "twice the drawdown" never
  applies (engine/tuner/evaluator.py:194).
* Normalising after clamping takes weights beyond the 20 % and their bounds, and timeframe weights of a preset that sum to 0.8 all grow by 25 %
  (engine/tuner/guardrails.py:34); the limit used is `bounds.max_change_pct`, not the configuration's.
* The baseline's drawdown is always 0.0, so the approval that stands in for the LLM's accepts only candidates without drawdown, and a
  rollback for drawdown never triggers; the safety backtest never gates; a truthy non-boolean "approved" passes.
* `study.optimize` blocks the event loop for all its walk-forwards, in which no stop is looked at.
* The budget is in memory, compares the month without the year, and does not count failed or timed-out calls; Tier 2 and 3 sessions change nothing and end in MONITORING.

**Store**

* SQLite shows and commits batches row by row and commits rows of saves that were cancelled; Postgres loses the price of an order that is saved pending and
  then filled ("same interface", engine/data/postgres_store.py:4); an empty equity curve reads as [] in one and as None in the other; `take_profit` has no column.
* `get_orders` has a limit of 50, which caps the trades of a day (engine/loop/trading_loop.py:791); `update_tuning` limits rows, not tunings; `TunerStore` hands
  ISO strings to TIMESTAMPTZ columns, which asyncpg refuses; an unconfirmed live order stays "pending".

**Backtests**

* "Manages at most one running backtest job" (engine/backtest/job_manager.py:82): a thread that was given up computes on next to the next job's, and given up threads can
  exhaust the executor. The documented timeout of 120 s is 600 or 1800.
* A lone missing bar is never fetched (engine/backtest/candle_cache.py:53); a bar that was forming stays as it was; a fetch error leaves partial data without a word; with
  PostgreSQL each job has an empty cache of its own.
* "Train on IS window, run backtest on OOS window" (engine/strategy/backtest/walk_forward.py:4): `_slice_data()` hands over all candles up to the window's end
  without dates, so the run trades on every bar after the warm-up; the scripts' weekly runs do the same.
* A validation of fewer than three bars never ends (engine/backtest/validators.py:129).
* The forced close comes after the last equity point, so the final equity and the next week's balance leave out its cost; an exit fills at its level though the bar opened
  beyond it; cooldown and daily loss read the real clock and never expire inside a backtest; a trade's result leaves out its entry fee.
* `run_ai_regime` reads an unbound `result` when the first week fails (engine/backtest/runners.py:397) and repeats the previous week's count after later failures. The wizard's apply reads
  neither `validation_job_id` nor `skip_validation` (engine/backtest/validators.py:1), and nothing reads the overrides it saves.

## 6. Not modelled

Indicator and signal arithmetic, position sizing, statistics of backtests and the optimiser's
search (floating-point functions of price series, without state: their outcome is a free choice of the
step that uses it); filters and limits of queries; HTTP, Telegram and LLM traffic; the dashboard; offline
scripts but for the way they cut their candles. The live order path ends as "not filled" in every case (section 5), so that nothing about it could be stated that is true. The rate limiter, the WebSocket fan-out, the event bus's own start and stop and the
order-splitting strategies have state worth modelling and are left to the plan. Each is listed in `PROJECT.json` with its reason.

## 7. Plan

Done so far, in this order: breaker, trading cycle, lifecycle, risk, exits, tuner; then regime switch, store, tuning session, backtest jobs, backtest. Left:

1. `LiveOrder` (submission, polling, cancellation, retries) with `RateLimiter`, once a client can be asked for an order's state: at most one fill for each request.
2. `EventBus` and `AppOrchestrator`: dispatch to several handlers, stop with its drain, start order;
   `StrategyWiring`: positions and loops of two strategies on the bus.
3. `WsManager`: connections, subscriptions, heartbeats.
4. `Grid`, `Dca`, `TieredExit` as functions of a price walk.

Abstract specifications worth stating: for exits, one that holds at most one position and sells it
once; for the tuner, a parameter set that is confirmed or restored.
