----------------------------- MODULE TradeCycle -----------------------------
(***************************************************************************)
(* One strategy's paper-trading cycle: TradingLoop, OrderManager,          *)
(* PositionManager and EventBus, as the tasks of one asyncio program.      *)
(*                                                                         *)
(* Tasks.  "tick" runs TradingLoop.tick(), one tick at a time.  "bus" runs *)
(* EventBus._process_loop: it takes one event at a time and awaits its     *)
(* handlers.  A member of Ctl is an HTTP or IPC request.  Python code runs *)
(* atomically between two awaits; an action below is the code from one     *)
(* await to the next.                                                      *)
(*                                                                         *)
(* Store.  SqliteDataStore queues every statement to one connection        *)
(* thread, so statements take effect in the order they are issued: an      *)
(* action that awaits a read or a write takes its effect at once, and the  *)
(* code after the await is the next action.                                *)
(*                                                                         *)
(* Data.  Money is counted in lots: the price is fixed, a BUY spends one   *)
(* lot of KRW for one lot of BTC, a SELL sells the one lot of the          *)
(* position.  A position is "none", "bare" (no exit level) or "guarded"    *)
(* (a stop loss is set).  PositionManager changes its memory first and     *)
(* then writes the row; a write that raises leaves the two different.      *)
(*                                                                         *)
(* The awaits in which StateMachine saves a transition are not split here: *)
(* BotLifecycle splits them.                                               *)
(***************************************************************************)
EXTENDS Integers, Sequences, FiniteSets

CONSTANTS Ctl,               \* the control requests served concurrently
          Capital,           \* initial_krw, in lots
          FailureThreshold, RecoverySeconds, FailureCap,  \* of CircuitBreaker
          Ids,               \* ids of positions; bound: as many are known at once
          MaxAstray,         \* bound: writes of positions fail while fewer are astray
          LedgerBound,       \* bound: orders are placed while |ledger| is at most this
          MaxQueue,          \* bound: and while the queue is no longer than this
          Overlap,           \* may tasks overlap, as asyncio lets them?
          RestartInPlace,    \* are /engine/stop and /engine/start used?
          Faults             \* subset of {"crash", "store"}

ASSUME TradeCycleAssumption ==
    /\ "tick" \notin Ctl /\ "bus" \notin Ctl
    /\ Capital \in Nat
    /\ FailureThreshold \in Nat \ {0}
    /\ RecoverySeconds \in Nat \ {0}
    /\ FailureCap \in Nat /\ FailureCap >= FailureThreshold
    /\ LedgerBound \in Nat
    /\ MaxQueue \in Nat /\ MaxAstray \in Nat
    /\ "none" \notin Ids
    /\ {Overlap, RestartInPlace} \subseteq BOOLEAN
    /\ Faults \subseteq {"crash", "store"}

VARIABLES
    bal,      \* paper_balances row: [krw, btc]
    ledger,   \* orders table: FILLED BUY rows minus FILLED SELL rows
    rows,     \* positions table: the open rows
    pos,      \* PositionManager._positions[strategy_id] ...
    own,      \* ... and its id
    queue,    \* EventBus._queue
    job,      \* job[t]: what task t is suspended in
    loop,     \* TradingLoop._running ("on", "off"), or the process has not begun
    bot,      \* StateMachine._state, as far as a tick tells states apart
    cbState, cbFailures, cbSince, \* the strategy's CircuitBreaker
    (* history *)
    astray,   \* the positions whose last write failed, or that a start left behind or brought back
    calm      \* have the tasks taken turns, and has nothing failed?

breaker == <<cbState, cbFailures, cbSince>>
control == <<loop, bot>>
position == <<rows, pos, own, astray>>
vars == <<bal, ledger, position, queue, job, control, breaker, calm>>

Tasks   == {"tick", "bus"} \cup Ctl
Side    == {"BUY", "SELL"}
Level   == {"none", "bare", "guarded"}
Event   == {"BuyFilled", "SellFilled", "MarketTick", "StopHit"}
Loop    == {"down", "on", "off"}
Bot     == {"idle", "ready", "validating", "executing"}  \* ready: SCANNING, MONITORING
Balance == [krw : 0..Capital, btc : 0..Capital]

\* Where a task is suspended, and on whose behalf an order is placed.
Stage == {"idle",
          "fetched", "ticker", "deciding",            \* tick()
          "executing", "sizing",                      \* _execute_signal()
          "quoted", "booked", "recorded",             \* handle_order_request()
          "hit",                                      \* on_market_tick()
          "exiting", "starting", "loading"}           \* emergency exit, start()
Cause == {"none", "signal", "regime", "stop", "close", "emergency"}

Row == [id : Ids, level : Level \ {"none"}]
Job == [stage : Stage, cause : Cause, side : Side, snap : Balance, read : SUBSET Row]

Empty == [krw |-> 0, btc |-> 0]
At(stage) == [stage |-> stage, cause |-> "none", side |-> "BUY",
              snap |-> Empty, read |-> {}]
Executing(side) == [At("executing") EXCEPT !.side = side]
Idle == At("idle")

Fill(side) == IF side = "BUY" THEN "BuyFilled" ELSE "SellFilled"
\* Where the model stops placing orders (bounds; the code has none).
Room == ledger \in -LedgerBound..LedgerBound /\ Len(queue) <= MaxQueue

Worth(side) == IF side = "BUY" THEN 1 ELSE -1

\* The breaker sees a task between allow_request() and its record_*().
InPipeline(j) == j.stage \in {"quoted", "booked"}
CB == INSTANCE CircuitBreaker
        WITH Attempts <- Tasks, state <- cbState, failures <- cbFailures,
             sinceOpen <- cbSince,
             pc <- [t \in Tasks |-> IF InPipeline(job[t]) THEN "in_flight" ELSE "idle"]

Drained == queue = <<>> /\ job["bus"].stage = "idle"
AtRest  == Drained /\ \A t \in Tasks : job[t].stage = "idle"

\* Nobody but t is about to change the position.  With Overlap = FALSE a task looks at
\* it only then; with Overlap = TRUE the history keeps whether one has looked otherwise.
InTurn(t) == Drained /\ \A u \in Tasks \ {t} : job[u].stage = "idle"
MayLook(t) == Overlap \/ InTurn(t)
CalmIf(undisturbed) == calm' = (calm /\ undisturbed)

-----------------------------------------------------------------------------
(* PositionManager and the positions table *)

\* What start() finds when the process dies now, or what is in memory.
Shown == IF loop = "down" THEN rows # {} ELSE pos # "none"

OfRows == {r.id : r \in rows}

\* save_position() of position i, which is written over the row with its id ("none": as
\* closed), or raises.
Save(i, level, raises) ==
    IF raises
    THEN /\ "store" \in Faults /\ Cardinality(astray) < MaxAstray
         /\ astray' = IF level # "none" \/ i \in OfRows THEN astray \cup {i} ELSE astray \ {i}
         /\ UNCHANGED rows
    ELSE /\ rows' = {r \in rows : r.id # i} \cup {r \in Row : r.id = i /\ r.level = level}
         /\ astray' = astray \ {i}

\* set_stop_loss() of an open position: in memory, and then in the table.
SetStop(raises) ==
    /\ pos' = "guarded" /\ UNCHANGED own
    /\ Save(own, "guarded", raises)

\* load_open_positions() puts the rows it has read into memory one after the other, so of
\* several the oldest stays; the ages are left open here (PositionExits has them).
Load(read) ==
    IF read = {} THEN UNCHANGED <<pos, own, astray>>
    ELSE \E r \in read :
            /\ pos' = r.level /\ own' = r.id
            /\ astray' = (OfRows \ {r.id}) \cup (IF r \in rows THEN {} ELSE {r.id})

-----------------------------------------------------------------------------
(* OrderManager.handle_order_request, paper mode *)

\* Mutant: the sufficiency check is gone.
CanPay_Unchecked(b, side) == TRUE

CanPay(b, side) == IF side = "BUY" THEN b.krw >= 1 ELSE b.btc >= 1

\* Mutant: the proceeds of a sale are not credited.
Settle_NoCredit(b, side) ==
    IF side = "BUY" THEN [krw |-> b.krw - 1, btc |-> b.btc + 1]
                    ELSE [krw |-> b.krw, btc |-> b.btc - 1]

Settle(b, side) ==
    IF side = "BUY" THEN [krw |-> b.krw - 1, btc |-> b.btc + 1]
                    ELSE [krw |-> b.krw + 1, btc |-> b.btc - 1]

\* What the caller of handle_order_request does next.  A signal's order ends its
\* tick: EXECUTING -> LOGGING -> MONITORING, unless the state was forced meanwhile.
Continue(t, cause) ==
    /\ job' = [job EXCEPT ![t] = CASE cause = "regime"    -> At("ticker")
                                   [] cause = "emergency" -> At("exiting")
                                   [] OTHER               -> Idle]
    /\ bot' = IF cause = "signal" /\ bot = "executing" THEN "ready" ELSE bot
    /\ UNCHANGED loop

\* Mutant: the order does not ask the breaker.
PlaceOrder_NoBreaker(t, side, cause) ==
    /\ Room
    /\ job' = [job EXCEPT ![t] = [stage |-> "quoted", cause |-> cause,
                                  side |-> side, snap |-> bal, read |-> {}]]
    /\ UNCHANGED <<bal, ledger, position, control, breaker>>

\* The breaker lets the order in, and the balance is read; or it rejects it.
PlaceOrder(t, side, cause) ==
    /\ Room
    /\ \/ /\ job' = [job EXCEPT ![t] = [stage |-> "quoted", cause |-> cause,
                                        side |-> side, snap |-> bal, read |-> {}]]
          /\ CB!Admit(t)
          /\ UNCHANGED control
       \/ /\ Continue(t, cause)
          /\ CB!Reject(t)
    /\ UNCHANGED <<bal, ledger, position>>

\* The price has arrived: the balance READ BEFORE the await is checked, changed
\* and written back.
Book(t) ==
    /\ job[t].stage = "quoted"
    /\ CanPay(job[t].snap, job[t].side)
    /\ bal' = Settle(job[t].snap, job[t].side)
    /\ job' = [job EXCEPT ![t].stage = "booked"]
    /\ UNCHANGED <<ledger, position, queue, control, breaker, calm>>

\* The price is unavailable, or the balance that was read is insufficient.
FailOrder(t) ==
    /\ job[t].stage = "quoted"
    /\ Continue(t, job[t].cause)
    /\ CB!RecordFailure(t)
    /\ UNCHANGED <<bal, ledger, position, queue, calm>>

\* record_success(), then the FILLED order is saved.
Record(t) ==
    /\ job[t].stage = "booked"
    /\ ledger' = ledger + Worth(job[t].side)
    /\ job' = [job EXCEPT ![t].stage = "recorded"]
    /\ CB!RecordSuccess(t)
    /\ UNCHANGED <<bal, position, queue, control, calm>>

\* save_order raises: the exception ends the caller.  A tick recovers to SCANNING;
\* an event handler's or a request's exception is swallowed.
RecordRaises(t) ==
    /\ "store" \in Faults
    /\ job[t].stage = "booked"
    /\ job' = [job EXCEPT ![t] = Idle]
    /\ CB!RecordSuccess(t)
    /\ bot' = IF t = "tick" THEN "ready" ELSE bot
    /\ CalmIf(FALSE)
    /\ UNCHANGED <<bal, ledger, position, queue, loop>>

\* Mutant: the event is published only for buys.
PublishFill_BuysOnly(t) ==
    /\ job[t].stage = "recorded"
    /\ queue' = IF job[t].side = "BUY" THEN Append(queue, "BuyFilled") ELSE queue
    /\ Continue(t, job[t].cause)
    /\ UNCHANGED <<bal, ledger, position, breaker, calm>>

\* OrderFilledEvent is queued, which does not yield, and the caller goes on.
PublishFill(t) ==
    /\ job[t].stage = "recorded"
    /\ job[t].side = "SELL" \/ pos = "none"
    /\ queue' = Append(queue, Fill(job[t].side))
    /\ Continue(t, job[t].cause)
    /\ UNCHANGED <<bal, ledger, position, breaker, calm>>

\* After a BUY TradingLoop._execute_buy sets the stop of the position that it finds, if
\* any; if that raises, the tick recovers to SCANNING.
PublishBuy(t) ==
    /\ job[t].stage = "recorded" /\ job[t].side = "BUY"
    /\ pos # "none"
    /\ queue' = Append(queue, Fill("BUY"))
    /\ \E raises \in BOOLEAN :
         /\ SetStop(raises)
         /\ CalmIf(~raises)
         /\ job' = [job EXCEPT ![t] = Idle]
         /\ bot' = IF raises \/ bot = "executing" THEN "ready" ELSE bot
    /\ UNCHANGED <<bal, ledger, loop, breaker>>

-----------------------------------------------------------------------------
(* TradingLoop.tick *)

Step(t, from, to) ==
    /\ job[t].stage = from
    /\ job' = [job EXCEPT ![t] = At(to)]

\* The checks of running and state; then the commands and the candles are awaited.
TickBegin ==
    /\ loop = "on"
    /\ bot = "ready"
    /\ MayLook("tick") /\ CalmIf(InTurn("tick"))
    /\ Step("tick", "idle", "fetched")
    /\ UNCHANGED <<bal, ledger, position, queue, control, breaker>>

\* No candles, or no regime switch.
TickNoSwitch ==
    /\ Step("tick", "fetched", "ticker") \/ Step("tick", "fetched", "idle")
    /\ UNCHANGED <<bal, ledger, position, queue, control, breaker, calm>>

\* A regime switch closes a position that is in profit or at a small loss...
TickRegimeClose ==
    /\ job["tick"].stage = "fetched"
    /\ MayLook("tick") /\ CalmIf(InTurn("tick"))
    /\ pos # "none"
    /\ PlaceOrder("tick", "SELL", "regime")
    /\ UNCHANGED queue

\* ...and tightens the stop of one at a large loss.
TickRegimeTighten ==
    /\ job["tick"].stage = "fetched"
    /\ MayLook("tick")
    /\ pos # "none"
    /\ \E raises \in BOOLEAN :
         /\ SetStop(raises)
         /\ CalmIf(InTurn("tick") /\ ~raises)
         /\ job' = [job EXCEPT !["tick"] = IF raises THEN Idle ELSE At("ticker")]
         /\ bot' = IF raises THEN "ready" ELSE bot
    /\ UNCHANGED <<bal, ledger, queue, loop, breaker>>

\* A transition of the state machine inside tick(): from a state that another
\* task has changed it raises, and the tick's handler forces SCANNING.
TickTransition(from, to, next) ==
    \/ /\ bot = from
       /\ bot' = to
       /\ job' = [job EXCEPT !["tick"] = next]
    \/ /\ bot # from
       /\ bot' = "ready"
       /\ job' = [job EXCEPT !["tick"] = Idle]

\* _publish_market_tick (a ticker error is logged and the tick goes on), then
\* SCANNING -> VALIDATING.
TickPublish ==
    /\ job["tick"].stage = "ticker"
    /\ \/ Len(queue) <= MaxQueue /\ queue' = Append(queue, "MarketTick")
       \/ UNCHANGED queue
    /\ TickTransition("ready", "validating", At("deciding"))
    /\ UNCHANGED <<bal, ledger, position, loop, breaker, calm>>

\* HOLD: back to SCANNING.
TickHold ==
    /\ Step("tick", "deciding", "idle")
    /\ bot' = IF bot = "validating" THEN "ready" ELSE bot
    /\ UNCHANGED <<bal, ledger, position, queue, loop, breaker, calm>>

\* BUY or SELL: VALIDATING -> EXECUTING.
TickSignal(side) ==
    /\ job["tick"].stage = "deciding"
    /\ MayLook("tick") /\ CalmIf(InTurn("tick"))
    /\ TickTransition("validating", "executing", Executing(side))
    /\ UNCHANGED <<bal, ledger, position, queue, loop, breaker>>

\* Mutant: _execute_signal does not look for an open position.
TickSizeBuy_Blind ==
    /\ job["tick"] = Executing("BUY")
    /\ job' = [job EXCEPT !["tick"] = At("sizing")]
    /\ UNCHANGED <<bal, ledger, position, queue, control, breaker, calm>>

\* _execute_signal, BUY with no open position: _execute_buy awaits the ticker and
\* the balance it sizes the order with.
TickSizeBuy ==
    /\ job["tick"] = Executing("BUY")
    /\ pos = "none"
    /\ job' = [job EXCEPT !["tick"] = At("sizing")]
    /\ UNCHANGED <<bal, ledger, position, queue, control, breaker, calm>>

\* The sized order is submitted...
TickBuy ==
    /\ job["tick"].stage = "sizing"
    /\ bal.krw >= 1
    /\ PlaceOrder("tick", "BUY", "signal")
    /\ UNCHANGED <<queue, calm>>

\* _execute_signal, SELL of the open position.
TickSell ==
    /\ job["tick"] = Executing("SELL")
    /\ pos # "none"
    /\ PlaceOrder("tick", "SELL", "signal")
    /\ UNCHANGED <<queue, calm>>

\* No order: the signal does not fit the position, pre_validate blocks the BUY, or
\* there is nothing to spend.
TickNoOrder ==
    /\ \/ job["tick"] = Executing("BUY") /\ pos # "none"
       \/ job["tick"] = Executing("SELL") /\ pos = "none"
       \/ job["tick"].stage = "sizing"
    /\ Continue("tick", "signal")
    /\ UNCHANGED <<bal, ledger, position, queue, breaker, calm>>

-----------------------------------------------------------------------------
(* EventBus._process_loop and the handlers, whose exceptions it swallows.  After *)
(* the row is saved the fill handlers only publish PositionOpened /              *)
(* PositionClosed, which change nothing here.                                    *)

Take(e) ==
    /\ job["bus"].stage = "idle"
    /\ queue # <<>>
    /\ Head(queue) = e
    /\ queue' = Tail(queue)

\* An id that nobody knows, no matter which.
FreeIds == Ids \ (OfRows \cup astray \cup {own} \cup {r.id : r \in UNION {job[t].read : t \in Tasks}})

\* PositionManager._open_position: a second position is refused.
BusOpen ==
    /\ Take("BuyFilled")
    /\ pos = "none" => FreeIds # {}
    /\ IF pos # "none" THEN UNCHANGED <<position, calm>>
       ELSE /\ pos' = "bare" /\ own' = CHOOSE i \in FreeIds : TRUE
            /\ \E raises \in BOOLEAN : Save(own', "bare", raises) /\ CalmIf(~raises)
    /\ UNCHANGED <<bal, ledger, job, control, breaker>>

\* Mutant: the closed row is not saved.
BusClose_MemoryOnly ==
    /\ Take("SellFilled")
    /\ pos' = "none" /\ own' = "none"
    /\ UNCHANGED <<rows, astray, calm, bal, ledger, job, control, breaker>>

\* PositionManager._close_position.
BusClose ==
    /\ Take("SellFilled")
    /\ IF pos = "none" THEN UNCHANGED <<position, calm>>
       ELSE /\ pos' = "none" /\ own' = "none"
            /\ \E raises \in BOOLEAN : Save(own, "none", raises) /\ CalmIf(~raises)
    /\ UNCHANGED <<bal, ledger, job, control, breaker>>

\* PositionManager.on_market_tick: the position is saved as open, and after that
\* await the stop of the position as it was before it is compared with the price,
\* unless the save raised.
BusMarketTick ==
    /\ Take("MarketTick")
    /\ IF pos = "none" THEN UNCHANGED <<position, calm, job>>
       ELSE \E raises \in BOOLEAN :
              /\ Save(own, pos, raises) /\ CalmIf(~raises) /\ UNCHANGED <<pos, own>>
              /\ \/ UNCHANGED job
                 \/ pos = "guarded" /\ ~raises /\ job' = [job EXCEPT !["bus"] = At("hit")]
    /\ UNCHANGED <<bal, ledger, control, breaker>>

BusStopHit ==
    /\ Step("bus", "hit", "idle")
    /\ queue' = Append(queue, "StopHit")
    /\ UNCHANGED <<bal, ledger, position, control, breaker, calm>>

\* TradingLoop._on_stop_loss_triggered: the bus task itself sells.
BusStopSell ==
    /\ Take("StopHit")
    /\ IF pos # "none" THEN PlaceOrder("bus", "SELL", "stop")
       ELSE UNCHANGED <<bal, ledger, position, job, control, breaker>>
    /\ UNCHANGED calm

-----------------------------------------------------------------------------
(* Control requests *)

\* A control request arrives when the process serves requests.
Arrives(c) == loop # "down" /\ job[c].stage = "idle" /\ MayLook(c)

\* POST /position/close
CtlClose(c) ==
    /\ Arrives(c) /\ CalmIf(InTurn(c))
    /\ pos # "none"
    /\ PlaceOrder(c, "SELL", "close")
    /\ UNCHANGED queue

\* POST /position/sl; an exception is the answer 500.
CtlSetStop(c) ==
    /\ Arrives(c)
    /\ pos # "none"
    /\ \E raises \in BOOLEAN : SetStop(raises) /\ CalmIf(InTurn(c) /\ ~raises)
    /\ UNCHANGED <<bal, ledger, queue, job, control, breaker>>

\* TradingLoop._emergency_exit: sell what is held, ...
CtlEmergency(c) ==
    /\ Arrives(c) /\ CalmIf(InTurn(c))
    /\ \/ pos # "none" /\ PlaceOrder(c, "SELL", "emergency") /\ UNCHANGED queue
       \/ /\ pos = "none"
          /\ job' = [job EXCEPT ![c] = At("exiting")]
          /\ UNCHANGED <<bal, ledger, position, queue, control, breaker>>

\* ... force IDLE, and stop, whatever became of the order.
CtlExit(c) ==
    /\ Step(c, "exiting", "idle")
    /\ loop' = "off"
    /\ bot' = "idle"
    /\ UNCHANGED <<bal, ledger, position, queue, breaker, calm>>

\* TradingLoop.stop: an active bot goes to SHUTTING_DOWN and IDLE.
CtlStop(c) ==
    /\ RestartInPlace
    /\ Arrives(c) /\ CalmIf(InTurn(c))
    /\ loop = "on"
    /\ loop' = "off"
    /\ bot' = "idle"
    /\ UNCHANGED <<bal, ledger, position, queue, job, breaker>>

\* TradingLoop.start in a running process: running and the state come first, ...
CtlStart(c) ==
    /\ RestartInPlace
    /\ Arrives(c) /\ CalmIf(InTurn(c))
    /\ loop = "off"
    /\ Step(c, "idle", "starting")
    /\ loop' = "on"
    /\ bot' = IF bot = "idle" THEN "ready" ELSE bot
    /\ UNCHANGED <<bal, ledger, position, queue, breaker>>

\* ... then load_open_positions reads the open rows, ...
CtlReadRows(c) ==
    /\ job[c].stage = "starting"
    /\ job' = [job EXCEPT ![c] = [At("loading") EXCEPT !.read = rows]]
    /\ UNCHANGED <<bal, ledger, position, queue, control, breaker, calm>>

\* ... and puts what it read into memory.
CtlLoad(c) ==
    /\ job[c].stage = "loading"
    /\ job' = [job EXCEPT ![c] = Idle]
    /\ Load(job[c].read)
    /\ UNCHANGED <<bal, ledger, rows, queue, control, breaker, calm>>

-----------------------------------------------------------------------------
(* The environment *)

Time ==
    /\ UNCHANGED <<bal, ledger, position, queue, job, control, calm>>
    /\ CB!Tick

\* The process starts: run_paper awaits start() of its loop before the first tick
\* and before the API serves requests, so the open rows are loaded undisturbed.
Boot ==
    /\ loop = "down"
    /\ loop' = "on" /\ bot' = "ready"
    /\ Load(rows)
    /\ UNCHANGED <<bal, ledger, rows, queue, job, breaker, calm>>

\* The process dies: the tables stay, everything else is lost.
Crash ==
    /\ "crash" \in Faults
    /\ pos' = "none" /\ own' = "none"
    /\ queue' = <<>>
    /\ job' = [t \in Tasks |-> Idle]
    /\ loop' = "down" /\ bot' = "idle"
    /\ cbState' = "CLOSED" /\ cbFailures' = 0 /\ cbSince' = RecoverySeconds
    /\ CalmIf(AtRest)
    /\ UNCHANGED <<bal, ledger, rows, astray>>

Init ==
    /\ bal = [krw |-> Capital, btc |-> 0]
    /\ ledger = 0
    /\ rows = {} /\ astray = {}
    /\ pos = "none" /\ own = "none"
    /\ queue = <<>>
    /\ job = [t \in Tasks |-> Idle]
    /\ loop = "down" /\ bot = "idle"
    /\ cbState = "CLOSED" /\ cbFailures = 0 /\ cbSince = RecoverySeconds
    /\ calm = TRUE

Pipeline(t) == \/ Book(t) \/ FailOrder(t) \/ Record(t) \/ RecordRaises(t)
               \/ PublishFill(t) \/ PublishBuy(t)

TickTask == \/ TickBegin \/ TickNoSwitch \/ TickRegimeClose \/ TickRegimeTighten
            \/ TickPublish \/ TickHold \/ (\E s \in Side : TickSignal(s))
            \/ TickSizeBuy \/ TickBuy \/ TickSell \/ TickNoOrder

BusTask == BusOpen \/ BusClose \/ BusMarketTick \/ BusStopHit \/ BusStopSell

CtlTask(c) == \/ CtlClose(c) \/ CtlSetStop(c) \/ CtlEmergency(c) \/ CtlExit(c)
              \/ CtlStop(c) \/ CtlStart(c) \/ CtlReadRows(c) \/ CtlLoad(c)

Next == \/ \E t \in Tasks : Pipeline(t)
        \/ TickTask
        \/ BusTask
        \/ \E c \in Ctl : CtlTask(c)
        \/ Time
        \/ Boot
        \/ Crash

Spec == Init /\ [][Next]_vars

\* asyncio resumes a task whose await is over, and an await on the store or the
\* exchange ends; a tick and the bus never stop in between.  Nothing makes an
\* operator send a request or a strategy give a signal.
Fairness ==
    /\ \A t \in Tasks : WF_vars(Pipeline(t))
    /\ WF_vars(BusTask)

FairSpec == Spec /\ Fairness

-----------------------------------------------------------------------------
(* Properties *)

PositionOK ==
    /\ rows \subseteq Row /\ astray \subseteq Ids
    /\ pos \in Level /\ own \in Ids \cup {"none"}
    /\ own = "none" <=> pos = "none"

\* Every variable stays in its range.
TypeOK ==
    /\ bal \in Balance
    /\ ledger \in Int
    /\ PositionOK
    /\ queue \in Seq(Event)
    /\ job \in [Tasks -> Job]
    /\ loop \in Loop /\ bot \in Bot
    /\ cbState \in CB!CBState
    /\ cbFailures \in 0..FailureCap
    /\ cbSince \in 0..RecoverySeconds
    /\ calm \in BOOLEAN

\* Orders of several tasks that overwrite each other's balance never create or
\* destroy money: what is written back is always an exchange at the price, of a
\* balance that once was.  Also across crashes and failed writes.
BalanceConserved == bal.krw + bal.btc = Capital

\* The open position is in the table as it is in memory, and no other open row is, whatever
\* overlaps and whenever the process dies: but for the positions whose last write failed
\* (the next one mends it), and those that a start() left behind, or brought back while
\* their rows changed.
PositionPersisted ==
    loop # "down" =>
        /\ pos = "none" \/ own \in astray \/ [id |-> own, level |-> pos] \in rows
        /\ OfRows \subseteq astray \cup {own}

\* Why the balance is conserved: also the copies that orders in flight still hold
\* are balances of the account.
SnapshotsConserved ==
    \A t \in Tasks : job[t].stage = "quoted"
                       => job[t].snap.krw + job[t].snap.btc = Capital

\* A process that has not begun runs no task and has no events and no position.
Dormant ==
    loop = "down" => queue = <<>> /\ pos = "none" /\ \A t \in Tasks : job[t].stage = "idle"

\* The pipeline drives its breaker exactly as CircuitBreaker allows: one verdict
\* per admission, none without.
BreakerProtocol == CB!Spec

\* At rest the balance, the position and the orders table tell the same story, also after
\* crashes, restarts and rejected orders, until a task has looked at the position while
\* another was about to change it, a write has failed or a crash has cut a trade short.
AgreesAtRest ==
    calm /\ AtRest =>
        /\ Shown <=> bal.btc # 0
        /\ bal.btc = ledger

\* The cycle is an account that is flat or holds one lot, and every trade is followed by
\* the position's opening or closing ...
H == INSTANCE Holding WITH held <- bal.btc, shown <- Shown

\* ... for good while tasks take turns, ...
RefinesHolding == H!Spec

\* ... and until then however they overlap.
TradesInOrder == [][calm' => H!Next]_<<bal.btc, Shown>>
=============================================================================
