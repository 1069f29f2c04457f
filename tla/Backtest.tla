------------------------------ MODULE Backtest ------------------------------
(***************************************************************************)
(* How a backtest walks over its candles: BacktestEngine, bar by bar, and  *)
(* the callers that cut the candles into runs of the engine.               *)
(*                                                                         *)
(* A plan is what a caller asks for.  Each of its runs gets the candles of *)
(* some bars (its data), is about some of them (its window) and trades on  *)
(* those that the engine picks: by date, or by position, from the bar that *)
(* follows the warm-up.  Bars are numbered from 0.  A bar's prices and the *)
(* signal on it are free choices; so is what the regime switch inside the  *)
(* engine changes, which is the signals.                                   *)
(*                                                                         *)
(* An order is for one unit: it costs its price, the slippage and a fee.   *)
(* The distances of the exit levels are absolute.                          *)
(***************************************************************************)
EXTENDS Integers, FiniteSetsExt

CONSTANTS None,
          Plans,        \* [kind, total, first, last, cut]: see RunAt
          WarmUp,       \* min_bars: what the engine leaves out without dates
          Week,         \* bars of a week
          LeastOos,     \* the least out-of-sample window of a validation
          Shapes,       \* [low, high, close]: the bars that occur
          Initial,      \* initial_balance
          Fee, Slip,
          Stop, Profit, Activation, Trail,      \* distances of the exit levels
          MaxLosses, DailyLoss                  \* limits of the risk engine

\* BacktestState.position
Position == [entry : Int, since : Nat, stop : Int, profit : Int, activation : Int, high : Int]

ASSUME BacktestAssumption ==
    /\ \A p \in Plans :
          /\ p.kind \in {"dates", "weeks", "script weeks", "recent", "split", "forward"}
          /\ {p.total, p.first, p.cut} \subseteq Nat /\ p.last \in Int
          /\ p.kind = "weeks" => p.first <= p.last /\ p.last < p.total
    /\ {Week, MaxLosses} \subseteq Nat \ {0}
    /\ None \notin Int /\ None \notin Shapes /\ None \notin Position
    /\ \A b \in Shapes : {b.low, b.high, b.close} \subseteq Int
    /\ {WarmUp, LeastOos, Initial, Fee, Slip, Stop, Profit, Activation, Trail, DailyLoss} \subseteq Nat

VARIABLES plan,         \* what is asked for
          at,           \* where the current run's window starts
          pc,           \* "begin", "exit", "signal", "record", "close", "next", "done", "failed"
          todo,         \* the bars the run has yet to trade on, the current one first
          now,          \* the current bar's prices
          cash, held,   \* BacktestState: the balance and the position
          risk,         \* RiskEngine: losses in a row, the day's result, the cooldown
          books,        \* the run's start balance, results and entries
          equity,       \* the last point of the equity curve, or None
          ran,          \* whether a run has returned its result
          last,         \* the bar traded on before, or the end of a week left out
          peak          \* the highest price since the entry, read by a property only
vars == <<plan, at, pc, todo, now, cash, held, risk, books, equity, ran, last, peak>>

Least(a, b) == IF a < b THEN a ELSE b
Most(a, b) == IF a > b THEN a ELSE b

----------------------------------------------------------------------------
(* The runs of a plan *)
\* mutant: no least window
Oos_NoLeast(total) == total \div 5

\* run_gate1_validation(): the sizes of the windows, cut down to the data
Oos(total) == Most(total \div 5, LeastOos)
InSample(total) == Most(total \div 3, 2 * Oos(total))
Sizes(total) == IF total < InSample(total) + Oos(total)
                THEN [is |-> (2 * total) \div 3, oos |-> total \div 3]
                ELSE [is |-> InSample(total), oos |-> Oos(total)]

\* What each caller asks for, run by run: the bars it hands over, the bars it
\* means, whether it passes their dates, how many bars it allows, and where the
\* run after it starts.
Upto(p, b) == {c \in 0 .. p.total - 1 : c <= b}
Run(data, window, dated, limit, next) ==
    [data |-> data, window |-> window, dated |-> dated, limit |-> limit, next |-> next]

\* the period a client names
DatesRun(p) == LET window == p.first .. p.last IN
    Run(Upto(p, p.total), window, TRUE, Cardinality(window), p.total)

\* mutant: a week ends when the next one starts
WeekOf_Overlaps(p, start) == start .. Least(start + Week, p.last)

\* the weeks of a period, each on the candles up to its end: with their dates,
\* as the API's job does it, and without them, as the script does it
WeekEnd(p, start) == Least(start + Week - 1, p.last)
WeekOf(p, start) == start .. WeekEnd(p, start)
WeekRun(p, start) == LET window == WeekOf(p, start) IN
    Run(Upto(p, Max(window)), window, TRUE, Cardinality(window), start + Week)
ScriptWeekRun(p, start) == LET window == WeekOf(p, start) IN
    Run(Upto(p, Max(window)), window, FALSE, Cardinality(window), start + Week)

\* the latest days, on candles that begin before them
RecentRun(p) == LET window == p.first .. p.last IN
    Run(Upto(p, p.total), window, FALSE, Cardinality(window), p.total)

\* the training days before a date, and then the test days after it
SplitRun(p, start) ==
    IF start = 0 THEN Run(Upto(p, p.cut - 1), p.first .. p.cut - 1, FALSE, p.cut - p.first, p.cut)
    ELSE Run(p.cut .. p.last, p.cut .. p.last, FALSE, p.last - p.cut + 1, p.total)

\* the windows of a validation, each on the candles up to its end
ForwardRun(p, start) ==
    LET s == Sizes(p.total)
        end == start + s.is + s.oos
    IN Run(Upto(p, end - 1), start + s.is .. end - 1, FALSE, p.total, start + s.oos)

RunAt(p, start) ==
    CASE p.kind = "dates" -> DatesRun(p)
      [] p.kind = "weeks" -> WeekRun(p, start)
      [] p.kind = "script weeks" -> ScriptWeekRun(p, start)
      [] p.kind = "recent" -> RecentRun(p)
      [] p.kind = "split" -> SplitRun(p, start)
      [] p.kind = "forward" -> ForwardRun(p, start)

Weekly(p) == p.kind \in {"weeks", "script weeks"}
First(p) == IF Weekly(p) THEN p.first ELSE 0
Another(p, start) ==
    IF Weekly(p) THEN start <= p.last
    ELSE IF p.kind = "forward" THEN start + Sizes(p.total).is + Sizes(p.total).oos <= p.total
    ELSE start < p.total

\* BacktestEngine.run(): the bars it trades on
Leading(bars, n) == {b \in bars : Cardinality({c \in bars : c < b}) < n}
Picked(run) == Leading(IF run.dated THEN run.data \cap run.window ELSE run.data \ Leading(run.data, WarmUp),
                    run.limit)

----------------------------------------------------------------------------
(* A run *)
NoRisk == [losses |-> 0, daily |-> 0, cooled |-> FALSE]

\* A run starts with an engine of its own; without candles it fails.
Begin ==
    /\ pc = "begin" /\ Another(plan, at)
    /\ IF RunAt(plan, at).data = {}
       THEN at' = RunAt(plan, at).next /\ UNCHANGED <<pc, todo>>
       ELSE /\ todo' = Picked(RunAt(plan, at))
            /\ pc' = IF todo' = {} THEN "close" ELSE "exit"
            /\ at' = at
    /\ risk' = NoRisk /\ equity' = None
    /\ books' = [start |-> cash, results |-> 0, entries |-> 0]
    /\ UNCHANGED <<plan, now, cash, held, ran, last, peak>>

----------------------------------------------------------------------------
(* A bar *)
Bar == Min(todo)

\* mutant: the level of the bars before
HitsTrail_Before(position, b) == position.high >= position.activation /\ b.low <= position.high - Trail

\* _check_price_exit(), the levels in their order; the high is kept
Raised(position, b) == [position EXCEPT !.high = Most(@, b.high)]
HitsStop(position, b) == b.low <= position.stop
HitsProfit(position, b) == b.high >= position.profit
HitsTrail(position, b) ==
    LET p == Raised(position, b) IN p.high >= p.activation /\ b.low <= p.high - Trail

\* mutant: the result leaves out the fee of the sale
Result_NoFee(position, price) == price - Slip - position.entry

\* _close_position() at a price
Result(position, price) == price - Slip - Fee - position.entry
Settle(price) ==
    LET won == Result(held, price) IN
    /\ cash' = cash + price - Slip - Fee
    /\ held' = None
    /\ books' = [books EXCEPT !.results = @ + won]
    /\ risk' = IF won >= 0 THEN [risk EXCEPT !.losses = 0, !.daily = @ + won]
               ELSE [losses |-> Least(risk.losses + 1, MaxLosses), daily |-> risk.daily + won,
                     cooled |-> risk.cooled \/ risk.losses + 1 >= MaxLosses]

PriceExit ==
    /\ pc = "exit" /\ pc' = "signal"
    /\ \E b \in Shapes :
          /\ now' = b
          /\ IF held = None THEN UNCHANGED <<cash, held, books, risk>>
             ELSE IF HitsStop(held, b) THEN Settle(held.stop)
             ELSE IF HitsProfit(held, b) THEN Settle(held.profit)
             ELSE IF HitsTrail(held, b) THEN Settle(Raised(held, b).high - Trail)
             ELSE held' = Raised(held, b) /\ UNCHANGED <<cash, books, risk>>
          /\ peak' = IF held' = None THEN 0 ELSE Most(peak, b.high)
    /\ UNCHANGED <<plan, at, todo, equity, ran, last>>

\* evaluate_buy(), but for the volatility cap and the least order
Permitted == ~risk.cooled /\ -risk.daily < DailyLoss

Opened(price) ==
    [entry |-> price + Slip, since |-> Bar, stop |-> price - Stop, profit |-> price + Profit,
     activation |-> price + Activation, high |-> price + Slip]

\* _process_signal()
Buy == /\ pc = "signal" /\ held = None /\ Permitted
       /\ cash >= now.close + Slip + Fee
       /\ cash' = cash - (now.close + Slip + Fee)
       /\ held' = Opened(now.close) /\ peak' = now.close + Slip
       /\ books' = [books EXCEPT !.entries = @ + 1]
       /\ pc' = "record"
       /\ UNCHANGED <<plan, at, todo, now, risk, equity, ran, last>>
Sell == /\ pc = "signal" /\ held # None
        /\ Settle(now.close) /\ peak' = 0
        /\ pc' = "record"
        /\ UNCHANGED <<plan, at, todo, now, equity, ran, last>>
Hold == /\ pc = "signal" /\ pc' = "record"
        /\ UNCHANGED <<plan, at, todo, now, cash, held, risk, books, equity, ran, last, peak>>

\* the point of the equity curve, and the next bar
Worth == cash + (IF held = None THEN 0 ELSE now.close)
Record ==
    /\ pc = "record"
    /\ equity' = Worth
    /\ last' = Bar
    /\ todo' = todo \ {Bar}
    /\ pc' = IF todo' = {} THEN "close" ELSE "exit"
    /\ UNCHANGED <<plan, at, now, cash, held, risk, books, ran, peak>>

\* "backtest_end", and what the caller carries over to its next run
CloseAtEnd ==
    /\ pc = "close" /\ pc' = "next"
    /\ IF held = None THEN UNCHANGED <<cash, held, risk, books>> ELSE Settle(now.close)
    /\ peak' = 0
    /\ UNCHANGED <<plan, at, todo, now, equity, ran, last>>

NextRun ==
    /\ pc = "next" /\ pc' = "begin"
    /\ at' = RunAt(plan, at).next
    /\ cash' = IF ~Weekly(plan) THEN Initial
               ELSE IF equity = None THEN books.start ELSE equity
    /\ ran' = TRUE
    /\ UNCHANGED <<plan, todo, now, held, risk, books, equity, last, peak>>

\* whether a caller goes on after a run that raised: a period's weeks do, but
\* for the API's job when no week has left a `result` yet, which raises again
GoesOn == plan.kind \in {"script weeks", "forward"} \/ (plan.kind = "weeks" /\ ran)

\* The run raises, at any of its bars, and what it has done is gone: a week
\* that is left out keeps the balance it began with.
RunRaises ==
    /\ pc \in {"exit", "signal", "record", "close"}
    /\ todo' = {} /\ held' = None /\ equity' = None /\ peak' = 0
    /\ IF GoesOn
       THEN /\ pc' = "begin" /\ at' = RunAt(plan, at).next
            /\ cash' = IF Weekly(plan) THEN books.start ELSE Initial
            /\ last' = IF Weekly(plan) THEN WeekEnd(plan, at) ELSE last
       ELSE pc' = "failed" /\ UNCHANGED <<at, cash, last>>
    /\ UNCHANGED <<plan, now, risk, books, ran>>

Finish ==
    /\ pc = "begin" /\ ~Another(plan, at) /\ pc' = "done"
    /\ UNCHANGED <<plan, at, todo, now, cash, held, risk, books, equity, ran, last, peak>>

\* the risk engine reads the clock: a real midnight may pass during a backtest,
\* a cooldown of a day does not
Midnight ==
    /\ pc \notin {"done", "failed"} /\ risk.daily # 0
    /\ risk' = [risk EXCEPT !.daily = 0]
    /\ UNCHANGED <<plan, at, pc, todo, now, cash, held, books, equity, ran, last, peak>>

Init ==
    /\ plan \in Plans
    /\ at = First(plan) /\ pc = "begin"
    /\ todo = {} /\ now = None /\ ran = FALSE /\ last = First(plan) - 1 /\ peak = 0
    /\ cash = Initial /\ held = None /\ equity = None
    /\ risk = NoRisk /\ books = [start |-> Initial, results |-> 0, entries |-> 0]

Walk == Begin \/ PriceExit \/ Buy \/ Sell \/ Hold \/ Record \/ CloseAtEnd \/ NextRun \/ Finish
Next == Walk \/ RunRaises \/ Midnight
Spec == Init /\ [][Next]_vars /\ WF_vars(Walk)

----------------------------------------------------------------------------
(* Properties *)
\* The weeks of an AI backtest cut its period into pieces, also when the run of
\* a week raises: every bar of the period is traded on once, in order, up to
\* the last one, but for the rest of a week that is left out (runners.py,
\* run_ai_regime).
EachBarOnce ==
    plan.kind = "weeks" => /\ pc = "exit" => Bar = last + 1
                           /\ pc = "done" => last = plan.last

\* A position that is still held when a bar is recorded has survived every bar
\* since it was opened: none of its levels was reached on the current bar, where
\* the trailing stop is the one that the highest price since the entry sets
\* (engine.py, _check_price_exit).
ExitsHonoured ==
    pc = "record" /\ held # None =>
        /\ held.high = peak
        /\ IF held.since = Bar THEN peak = now.close + Slip
           ELSE /\ now.low > held.stop /\ now.high < held.profit
                /\ peak >= held.activation => now.low > peak - Trail

\* The account adds up across entries, exits and forced closes: the balance is
\* the one the run started with, plus the results of its trades, less the fees
\* of the entries, which no trade's result contains.  And what the run reports
\* at its end is what the account then holds, but for the cost of the forced
\* close (engine.py, run).
BooksBalance ==
    /\ pc \in {"exit", "signal", "record", "close", "next"} =>
          cash + (IF held = None THEN 0 ELSE held.entry)
              = books.start + books.results - Fee * books.entries
    /\ pc = "next" /\ equity # None => equity - cash \in {0, Slip + Fee}

\* Every backtest walks to its end, whichever of its runs raise.  A validation of fewer than three bars is
\* left out: its windows are empty, the step between them is none, and the loop
\* of WalkForwardEngine.run never ends.
WalkEnds == (plan.kind # "forward" \/ plan.total >= 3) => <>(pc \in {"done", "failed"})
=============================================================================
