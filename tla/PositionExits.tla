--------------------------- MODULE PositionExits ---------------------------
(***************************************************************************)
(* What ends a position: PositionManager's fixed stop, trailing stop and   *)
(* take profit, the market ticks that compare them with the price, and the *)
(* handlers of TradingLoop that sell.                                      *)
(*                                                                         *)
(* A level that is reached does not sell anything: on_market_tick()        *)
(* publishes an event, and the bus delivers it later, after every event    *)
(* that was published before.  Meanwhile ticks and requests trade and move *)
(* the levels.  bootstrap() gives each strategy a PositionManager of its   *)
(* own, but all of them follow the positions of all strategies, also those *)
(* that an earlier configuration left open. on_market_tick() saves them    *)
(* one after the other, awaits each save, and writes back what it listed   *)
(* at first; start() in a running process reads the rows, awaits them, and *)
(* writes them over what is in memory. Saves do not fail here (TradeCycle  *)
(* has those that do).                                                     *)
(*                                                                         *)
(* An order is one step here (TradeCycle splits it) and fills at `price`   *)
(* or fails.  Prices and levels are small numbers; a stop is one below the *)
(* price of its BUY, a target and the activation of the trailing stop one  *)
(* above, and the trailing stop follows the highest price by one.          *)
(***************************************************************************)
EXTENDS Integers, Sequences, FiniteSets, SequencesExt

CONSTANTS Order,          \* the strategies, in the order bootstrap() wires them
          Others,         \* strategies no longer wired, of which one may have left a position open
          Ids,            \* ids of positions; bound: as many are known at once
          Prices,         \* Prices[c]: the prices the market takes, above 1; c: is there such a position?
          Stops, Targets, \* the levels that requests set
          MaxQueue,       \* bound: nothing is started while more events wait
          MaxLots,        \* bound: MaxLots[c] is the BTC that a strategy buys
          InPlace,        \* bound: for these c, start() is also called in a running process, which
                          \* dies only while no strategy is mixed
          MaxRows         \* bound: and only while the strategy has so many rows and is not mixed

ASSUME PositionExitsAssumption ==
    /\ IsInjective(Order) /\ Others \cap (Range(Order) \cup Ids) = {} /\ 0 \notin Ids
    /\ Prices \in [BOOLEAN -> SUBSET (Nat \ {0, 1})] /\ Stops \subseteq Nat \ {0} /\ Targets \subseteq Nat \ {0}
    /\ MaxQueue \in Nat /\ MaxLots \in [BOOLEAN -> Nat \ {0}] /\ InPlace \subseteq BOOLEAN /\ MaxRows \in Nat

VARIABLES
    up, price,
    lots,     \* lots[s]: BTC in the account of s
    pos,      \* pos[m][s]: _positions[s] of the PositionManager of m, a set of at most one
    trailing, \* trailing[m][s]: its _trailing_state[s], likewise
    rows,     \* the open rows of the positions table, oldest first
    queue,    \* the events on the bus
    left,     \* the managers that have still to handle the first of them
    scan,     \* the positions the handling manager has listed and not yet looked at
    saving,   \* the position it is saving, as it was before and is now: at most one
    reading,  \* reading[s]: the rows a start() of s has read and not yet put into memory, at most one
    tick,     \* tick[s]: what the tick of s is suspended in
    (* history *)
    asked,    \* asked[s]: the position of s that was opened or given a level last and is not closed
    mixed     \* the strategies that, since the process began, have bought on top of a position
              \* or whose start() has put another position in the place of theirs

bus == <<queue, left, scan, saving>>
exitVars == <<up, price, lots, pos, trailing, rows, bus, reading, tick, asked, mixed>>

Managers == Range(Order)
Strategies == Managers \cup Others
Empty == [m \in Managers |-> [s \in Strategies |-> {}]]

\* What was asked of a level that was set while a copy of the position was out, or of none.
Unsure == -1

Nothing == [id |-> 0, stop |-> Unsure, target |-> Unsure]
Forgotten(a, target) == [id |-> a.id, stop |-> a.stop, target |-> target]

\* A position without levels; one that others have left open has the strategy for its id.
Bare(id, s, at) == [id |-> id, strategy |-> s, entry |-> at, stop |-> 0, trail |-> 0, target |-> 0]
Left(s) == Bare(s, s, CHOOSE at \in Prices[TRUE] : TRUE)
Crowded == \E i \in DOMAIN rows : rows[i].strategy \in Others

\* The id of a new position is a UUID: one that nobody knows, no matter which.
FreeIds ==
    LET tables == {rows} \cup (UNION {reading[s] : s \in Managers})
        known == (UNION {pos[m][s] : m \in Managers, s \in Strategies})
                   \cup (UNION {Range(r) : r \in tables})
    IN Ids \ ({p.id : p \in known} \cup {e.id : e \in {x \in Range(queue) : x.type = "exit"}})

\* _open_position()
Opened(s, at) == Bare(CHOOSE i \in FreeIds : TRUE, s, at)

Room == Len(queue) <= MaxQueue

\* save_position() of an open position: take_profit is no column of the table.
Saved(p) == [p EXCEPT !.target = 0]
Save(p) == IF \E i \in DOMAIN rows : rows[i].id = p.id
           THEN [i \in DOMAIN rows |-> IF rows[i].id = p.id THEN Saved(p) ELSE rows[i]]
           ELSE Append(rows, Saved(p))

-----------------------------------------------------------------------------
(* PositionManager: levels that are set from outside *)

\* A copy of the position of s is out: its manager has listed it for a market tick and is
\* still saving another one, or a start() of s has read its row.
Listed(s) == Head(left) = s /\ \E p \in scan : p.strategy = s
CopyOut(s) == Listed(s) \/ reading[s] # {}

Asked(s, l) == IF CopyOut(s) THEN Unsure ELSE l
AskedBefore(s, p, l) == IF asked[s].id = p.id THEN l ELSE Unsure

\* The strategy's own manager changes its position.
Put(s, p) ==
    /\ pos' = [pos EXCEPT ![s][s] = {p}]
    /\ rows' = Save(p)

\* set_stop_loss()
PutStop(s, p, l) ==
    /\ Put(s, [p EXCEPT !.stop = l])
    /\ asked' = [asked EXCEPT ![s] = [id |-> p.id, stop |-> Asked(s, l),
                                     target |-> AskedBefore(s, p, asked[s].target)]]

\* set_take_profit()
PutTarget(s, p, l) ==
    /\ Put(s, [p EXCEPT !.target = l])
    /\ asked' = [asked EXCEPT ![s] = [id |-> p.id, stop |-> AskedBefore(s, p, asked[s].stop),
                                     target |-> Asked(s, l)]]

\* POST /position/sl
SetStop(s, l) ==
    /\ up
    /\ \E p \in pos[s][s] : p.stop # l /\ PutStop(s, p, l)
    /\ UNCHANGED <<up, price, lots, trailing, bus, reading, tick, mixed>>

\* POST /position/tp
SetTarget(s, l) ==
    /\ up
    /\ \E p \in pos[s][s] : p.target # l /\ PutTarget(s, p, l)
    /\ UNCHANGED <<up, price, lots, trailing, bus, reading, tick, mixed>>

\* A tick that sees a new regime and a large loss tightens the stop to the higher of
\* one below the entry and one below the price.
Tighten(s) ==
    /\ up /\ tick[s] = "idle"
    /\ \E p \in pos[s][s] :
         /\ price < p.entry - 1
         /\ PutStop(s, p, Max({p.entry - 1, price - 1}))
    /\ UNCHANGED <<up, price, lots, trailing, bus, reading, tick, mixed>>

-----------------------------------------------------------------------------
(* Orders *)

Publish(e) == queue' = Append(queue, e)
Filled(side, s) == [type |-> side, strategy |-> s, at |-> price]

\* A SELL signal, a regime switch or POST /position/close sells the position.
Sell(s) ==
    /\ up /\ Room
    /\ pos[s][s] # {} /\ lots[s] > 0
    /\ lots' = [lots EXCEPT ![s] = @ - 1]
    /\ Publish(Filled("sell", s))
    /\ UNCHANGED <<up, price, pos, trailing, rows, left, scan, saving, reading, tick, asked, mixed>>

\* _execute_signal() finds no position.
BuyDecided(s) ==
    /\ up /\ tick[s] = "idle" /\ pos[s][s] = {} /\ lots[s] < MaxLots[Crowded]
    /\ tick' = [tick EXCEPT ![s] = "buying"]
    /\ UNCHANGED <<up, price, lots, pos, trailing, rows, bus, reading, asked, mixed>>

BuyFails(s) ==
    /\ up /\ tick[s] = "buying"
    /\ tick' = [tick EXCEPT ![s] = "idle"]
    /\ UNCHANGED <<up, price, lots, pos, trailing, rows, bus, reading, asked, mixed>>

\* Mutant: the order opens the position itself.
Buy_OpensPosition(s) ==
    /\ up /\ tick[s] = "buying" /\ Room
    /\ tick' = [tick EXCEPT ![s] = "idle"]
    /\ IF pos[s][s] = {}
       THEN Put(s, Opened(s, price)) /\ UNCHANGED asked /\ lots' = [lots EXCEPT ![s] = @ + 1]
       ELSE UNCHANGED <<pos, rows, asked, lots>>
    /\ UNCHANGED <<up, price, trailing, bus, reading, mixed>>

\* The BUY fills. Its position is opened when the bus delivers the fill; the levels of
\* its risk decision go to the position that is known now, if any: one of an earlier
\* BUY whose fill was delivered since BuyDecided. set_stop_loss() awaits the store.
Buy(s) ==
    /\ up /\ tick[s] = "buying" /\ Room
    /\ lots' = [lots EXCEPT ![s] = @ + 1]
    /\ Publish(Filled("buy", s))
    /\ IF pos[s][s] = {}
       THEN tick' = [tick EXCEPT ![s] = "idle"] /\ UNCHANGED <<pos, rows, asked>>
       ELSE /\ \E p \in pos[s][s] : PutStop(s, p, price - 1)
            /\ tick' = [tick EXCEPT ![s] = "target"]
    /\ mixed' = IF pos[s][s] = {} THEN mixed ELSE mixed \cup {s}
    /\ UNCHANGED <<up, price, trailing, left, scan, saving, reading>>

\* set_take_profit(), for whichever position there is now.
BuyTarget(s) ==
    /\ up /\ tick[s] = "target"
    /\ IF pos[s][s] = {}
       THEN UNCHANGED <<pos, rows, asked>>
       ELSE \E p \in pos[s][s] : PutTarget(s, p, price + 1)
    /\ tick' = [tick EXCEPT ![s] = "trail"]
    /\ UNCHANGED <<up, price, lots, trailing, bus, reading, mixed>>

\* configure_trailing_stop(), likewise.
BuyTrail(s) ==
    /\ up /\ tick[s] = "trail"
    /\ trailing' = [trailing EXCEPT ![s][s] =
                      IF pos[s][s] = {} THEN @
                      ELSE {[from |-> price + 1, high |-> p.entry, on |-> FALSE] : p \in pos[s][s]}]
    /\ tick' = [tick EXCEPT ![s] = "idle"]
    /\ UNCHANGED <<up, price, lots, pos, rows, bus, reading, asked, mixed>>

-----------------------------------------------------------------------------
(* The bus *)

\* The manager in line is done with the first event.
Handled(q) == IF Len(left) > 1 THEN left' = Tail(left) /\ queue' = q
                               ELSE left' = Order /\ queue' = Tail(q)

\* _open_position(): a strategy that has a position keeps it.
OnBuyFilled(m, e) ==
    IF pos[m][e.strategy] # {}
    THEN UNCHANGED <<pos, rows, asked>>
    ELSE LET p == Opened(e.strategy, e.at) IN
         /\ FreeIds # {}
         /\ pos' = [pos EXCEPT ![m][e.strategy] = {p}]
         /\ rows' = Save(p)
         /\ asked' = IF m = e.strategy THEN [asked EXCEPT ![m] = [id |-> p.id, stop |-> 0, target |-> 0]]
                    ELSE asked

\* _close_position()
OnSellFilled(m, e) ==
    /\ pos' = [pos EXCEPT ![m][e.strategy] = {}]
    /\ trailing' = [trailing EXCEPT ![m][e.strategy] = IF pos[m][e.strategy] = {} THEN @ ELSE {}]
    /\ LET closed == {i \in DOMAIN rows : \E p \in pos[m][e.strategy] : p.id = rows[i].id}
       IN rows' = IF closed = {} THEN rows ELSE RemoveAt(rows, Min(closed))
    /\ asked' = IF m = e.strategy THEN [asked EXCEPT ![m] = Nothing] ELSE asked

\* on_order_filled() of the next manager in line.
HandleFill ==
    /\ up /\ queue # <<>> /\ Head(queue).type \in {"buy", "sell"}
    /\ LET m == Head(left) IN
         /\ IF Head(queue).type = "buy"
            THEN OnBuyFilled(m, Head(queue)) /\ UNCHANGED trailing
            ELSE OnSellFilled(m, Head(queue))
         /\ Handled(queue)
    /\ UNCHANGED <<up, price, lots, scan, saving, reading, tick, mixed>>

\* _update_trailing_stop(): `high` is read before an activation raises it.
Activates(t, now) == ~t.on /\ now >= t.from
Trailed(t, now) ==
    IF ~t.on /\ now < t.from THEN t
    ELSE [t EXCEPT !.on = TRUE,
                   !.high = IF now > t.high \/ Activates(t, now) THEN now ELSE @]

Trail(p, ts, now) ==
    IF \E t \in ts : (t.on \/ Activates(t, now)) /\ now > t.high
    THEN Max({p.trail, now - 1})
    ELSE p.trail

\* Mutant: the copy leaves out take_profit, which has a default.
Copied_NoTarget(p, ts, now) == [p EXCEPT !.trail = Trail(p, ts, now), !.target = 0]

\* The copy of p that on_market_tick() makes.
Copied(p, ts, now) == [p EXCEPT !.trail = Trail(p, ts, now)]

\* The loop of on_market_tick() takes p, as it was when the loop began: trailing stop
\* and price are updated, in memory and then in the table.
Update(m, p, now) ==
    LET new == Copied(p, trailing[m][p.strategy], now) IN
    /\ trailing' = [trailing EXCEPT ![m][p.strategy] = {Trailed(t, now) : t \in @}]
    /\ pos' = [pos EXCEPT ![m][p.strategy] = {new}]
    /\ rows' = Save(new)
    /\ saving' = {[old |-> p, new |-> new]}

\* on_market_tick() of the next manager in line lists its positions and takes one.
HandleTick ==
    /\ up /\ queue # <<>> /\ Head(queue).type = "price"
    /\ scan = {} /\ saving = {}
    /\ LET m == Head(left)
           listed == UNION {pos[m][s] : s \in Strategies}
       IN IF listed = {}
          THEN Handled(queue) /\ UNCHANGED <<pos, trailing, rows, scan, saving>>
          ELSE /\ \E p \in listed : Update(m, p, Head(queue).at) /\ scan' = listed \ {p}
               /\ UNCHANGED <<queue, left>>
    /\ UNCHANGED <<up, price, lots, reading, tick, asked, mixed>>

\* Mutant: the trailing stop is compared only when there is no fixed one.
Reached_FixedFirst(p, new, now) ==
    IF p.stop # 0 THEN now <= p.stop ELSE new.trail # 0 /\ now <= new.trail

\* Take profit, trailing stop, fixed stop, in this order: an event for the first that
\* is reached. The target and the fixed stop are those from before the save.
Reached(p, new, now) ==
    \/ p.target # 0 /\ now >= p.target
    \/ new.trail # 0 /\ now <= new.trail
    \/ p.stop # 0 /\ now <= p.stop

\* The save is done: an event for a level that is reached, and the next position.
HandleSaved ==
    /\ up /\ saving # {}
    /\ \E c \in saving :
         LET now == Head(queue).at
             exit == [type |-> "exit", strategy |-> c.new.strategy, id |-> c.new.id]
             q == IF Reached(c.old, c.new, now) THEN Append(queue, exit) ELSE queue
         IN IF scan = {}
            THEN /\ Handled(q)
                 /\ saving' = {}
                 /\ UNCHANGED <<pos, trailing, rows, scan>>
            ELSE /\ \E p \in scan : Update(Head(left), p, now) /\ scan' = scan \ {p}
                 /\ queue' = q
                 /\ UNCHANGED left
    /\ UNCHANGED <<up, price, lots, reading, tick, asked, mixed>>

AtExit == up /\ queue # <<>> /\ Head(queue).type = "exit"

\* The handlers of both trigger events sell the position there is, if any, ...
ExitFills(s) ==
    /\ AtExit /\ Head(queue).strategy = s
    /\ pos[s][s] # {} /\ lots[s] > 0
    /\ lots' = [lots EXCEPT ![s] = @ - 1]
    /\ queue' = Append(Tail(queue), Filled("sell", s))
    /\ UNCHANGED <<up, price, pos, trailing, rows, left, scan, saving, reading, tick, asked, mixed>>

\* ... or find none, or the order fails.
ExitEnds ==
    /\ AtExit
    /\ queue' = Tail(queue)
    /\ UNCHANGED <<up, price, lots, pos, trailing, rows, left, scan, saving, reading, tick, asked, mixed>>

Bus == HandleFill \/ HandleTick \/ HandleSaved \/ ExitEnds \/ \E s \in Managers : ExitFills(s)

-----------------------------------------------------------------------------
(* Market, start and crash *)

\* A tick publishes the price.
PublishPrice ==
    /\ up /\ Room
    /\ Publish([type |-> "price", at |-> price])
    /\ UNCHANGED <<up, price, lots, pos, trailing, rows, left, scan, saving, reading, tick, asked, mixed>>

Market ==
    /\ price' \in Prices[Crowded] \ {price}
    /\ UNCHANGED <<up, lots, pos, trailing, rows, bus, reading, tick, asked, mixed>>

Crash ==
    /\ up /\ (Crowded \in InPlace => mixed = {})
    /\ up' = FALSE
    /\ pos' = Empty /\ trailing' = Empty
    /\ queue' = <<>> /\ left' = Order /\ scan' = {} /\ saving' = {}
    /\ reading' = [s \in Managers |-> {}]
    /\ tick' = [s \in Managers |-> "idle"]
    /\ mixed' = {}
    /\ UNCHANGED <<price, lots, rows, asked>>

\* load_open_positions() takes the rows newest first, so of several rows of a strategy
\* the oldest stays.
Oldest(read, s) ==
    LET own == {i \in DOMAIN read : read[i].strategy = s}
    IN IF own = {} THEN {} ELSE {read[Min(own)]}

\* The process begins: start() of every loop, undisturbed.
Boot ==
    /\ ~up
    /\ up' = TRUE
    /\ pos' = [m \in Managers |-> [s \in Strategies |-> Oldest(rows, s)]]
    /\ asked' = [s \in Managers |-> Forgotten(asked[s], 0)]
    /\ UNCHANGED <<price, lots, trailing, rows, bus, reading, tick, mixed>>

\* POST /engine/start after a stop, or /engine/restart: start() of a loop in a running
\* process reads the open rows (a stop before it only means that no tick begins)...
StartReads(m) ==
    /\ up /\ Crowded \in InPlace /\ reading[m] = {} /\ m \notin mixed
    /\ Cardinality({i \in DOMAIN rows : rows[i].strategy = m}) <= MaxRows
    /\ reading' = [reading EXCEPT ![m] = {rows}]
    /\ UNCHANGED <<up, price, lots, pos, trailing, rows, bus, tick, asked, mixed>>

\* ... and puts them over what is in memory by then, without the targets, which the table
\* does not have. Positions without a row stay, and so do all trailing states.
StartLoads(m) ==
    \E read \in reading[m] :
      LET old == pos[m][m]
          new == Oldest(read, m)
      IN /\ pos' = [pos EXCEPT ![m] = [s \in Strategies |->
                       IF Oldest(read, s) = {} THEN @[s] ELSE Oldest(read, s)]]
         /\ asked' = IF new = {} THEN asked
                     ELSE [asked EXCEPT ![m] = Forgotten(@, IF Listed(m) THEN Unsure ELSE 0)]
         /\ mixed' = IF new = {} \/ {p.id : p \in new} = {p.id : p \in old} THEN mixed
                     ELSE mixed \cup {m}
         /\ reading' = [reading EXCEPT ![m] = {}]
         /\ UNCHANGED <<up, price, lots, trailing, rows, bus, tick>>

ExitsInit ==
    /\ rows \in {<<>>} \cup {<<Left(s)>> : s \in Others}
    /\ up = FALSE /\ price \in Prices[Crowded]
    /\ lots = [s \in Managers |-> 0]
    /\ pos = Empty /\ trailing = Empty
    /\ queue = <<>> /\ left = Order /\ scan = {} /\ saving = {}
    /\ reading = [s \in Managers |-> {}]
    /\ tick = [s \in Managers |-> "idle"]
    /\ asked = [s \in Managers |-> Nothing] /\ mixed = {}

ExitsNext ==
    \/ \E s \in Managers :
         \/ \E l \in Stops : SetStop(s, l)
         \/ \E l \in Targets : SetTarget(s, l)
         \/ Tighten(s) \/ Sell(s)
         \/ BuyDecided(s) \/ BuyFails(s) \/ Buy(s) \/ BuyTarget(s) \/ BuyTrail(s)
         \/ StartReads(s) \/ StartLoads(s)
    \/ Bus \/ PublishPrice \/ Market \/ Crash \/ Boot

ExitsSpec == ExitsInit /\ [][ExitsNext]_exitVars

\* The bus goes on, the scheduler's ticks publish prices, and of the sales that
\* triggers ask for again and again one succeeds: the breaker admits one again and
\* again (CircuitBreaker's AdmitsAgainAndAgain).
ExitsFairSpec ==
    /\ ExitsSpec
    /\ WF_exitVars(Bus) /\ WF_exitVars(PublishPrice)
    /\ \A s \in Managers : SF_exitVars(ExitFills(s))

-----------------------------------------------------------------------------
(* Properties *)

\* A stop or target sells the position whose level was reached and never a later one,
\* although no handler compares the ids and BUYs, sales and triggers wait on the bus in
\* any number: unless a BUY has filled on top of a position, or a start() has put another
\* one in its place, no fill that opens another one is delivered between a trigger and its
\* handling.
SellsWhatTriggered ==
    [][\A s \in Managers \ mixed : ExitFills(s) => \A p \in pos[s][s] : p.id = Head(queue).id]_exitVars

\* A level of the open position is the one that was set last, whatever trades, market ticks,
\* crashes and starts came between. Exceptions: every start() forgets the target, and a
\* level that was set while a copy of the position was out may have been overwritten
\* by it: by a market tick that had listed the position and was still saving another one,
\* or by a start() in a running process.
LevelsStick ==
    up => \A s \in Managers : \A p \in pos[s][s] :
            p.id = asked[s].id => /\ asked[s].stop   \in {p.stop, Unsure}
                                  /\ asked[s].target \in {p.target, Unsure}

Breached(s) ==
    /\ lots[s] > 0
    /\ \E p \in pos[s][s] : \/ price <= p.stop \/ price <= p.trail
                            \/ p.target # 0 /\ price >= p.target

\* The stop or the target moves, or another position takes the place of this one.
Moves(s) == \E p \in pos[s][s] : \E q \in pos'[s][s] : <<q.id, q.stop, q.target>> # <<p.id, p.stop, p.target>>

\* A position does not stay at a level that it has reached: it is sold or the price
\* leaves the level, unless somebody goes on moving the levels. (Nor when the BTC is
\* gone: a crash between a sale and the delivery of its fill leaves a position that can
\* no longer be sold.)
BreachEnds ==
    \A s \in Managers : []<>~Breached(s) \/ []<><<Moves(s)>>_exitVars
=============================================================================
