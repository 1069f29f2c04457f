--------------------------- MODULE Results_proofs ---------------------------
(***************************************************************************)
(* What holds of what trades bring in: of every backtest, for all plans,   *)
(* bars, fees, distances and limits that meet BacktestAssumption, and of   *)
(* what a strategy has lost.                                               *)
(***************************************************************************)
EXTENDS Backtest, RiskState, FiniteSetTheorems, SequenceTheorems, WellFoundedInduction, TLAPS

Trading == {"exit", "signal", "record"}

(* The ranges of the variables, and when the walk holds what.              *)
Account == /\ cash \in Int
           /\ held # None => held \in Position
           /\ risk \in [losses : 0 .. MaxLosses, daily : Int, cooled : BOOLEAN]
           /\ books \in [start : Int, results : Int, entries : Nat]
Walking ==
  /\ Account
  /\ plan \in Plans /\ at \in Nat
  /\ pc \in Trading \cup {"begin", "close", "next", "done", "failed"}
  /\ todo \subseteq Nat /\ (pc \in Trading => todo # {})
  /\ pc \in {"signal", "record"} => now \in Shapes
  /\ pc = "close" /\ held # None => now \in Shapes
  /\ pc \in {"begin", "next", "done", "failed"} => held = None
  /\ equity # None => equity \in Int
  /\ last \in Int

(* The account adds up, and so does what the curve ends on.                *)
Balanced == cash + (IF held = None THEN 0 ELSE held.entry)
              = books.start + books.results - Fee * books.entries
Booked ==
  /\ pc \in Trading \cup {"close", "next"} => Balanced
  /\ pc = "close" /\ equity # None => equity = Worth
  /\ pc = "next" /\ equity # None => equity - cash \in {0, Slip + Fee}

-----------------------------------------------------------------------------
(* What the assumption says of the numbers, one by one.                    *)
LEMMA Numbers ==
  /\ Week \in Nat \ {0} /\ MaxLosses \in Nat \ {0} /\ 0 \in 0 .. MaxLosses
  /\ Initial \in Nat /\ Fee \in Nat /\ Slip \in Nat /\ Stop \in Nat /\ Profit \in Nat
  /\ Activation \in Nat /\ Trail \in Nat
<1>1. {Week, MaxLosses} \subseteq Nat \ {0}
  BY BacktestAssumption
<1>2. {Initial, Fee, Slip, Stop, Profit, Activation, Trail} \subseteq Nat
  BY BacktestAssumption
<1> QED
  BY <1>1, <1>2

(* A fee for each of n entries, and for one more.                          *)
LEMMA OneMoreFee ==
  ASSUME NEW n \in Nat
  PROVE  Fee * (n + 1) = Fee * n + Fee /\ Fee * n \in Int
<1>1. \A f \in Int : f * (n + 1) = f * n + f /\ f * n \in Int
  OBVIOUS
<1> QED
  BY <1>1, Numbers

-----------------------------------------------------------------------------
(* A bar is one of those that are left. *)

LEMMA LeastExists ==
  ASSUME NEW S, S \subseteq Nat, S # {}
  PROVE  Min(S) \in S /\ \A x \in S : Min(S) <= x
<1>1. PICK m \in S : \A y \in S : ~(<<y, m>> \in OpToRel(<, Nat))
  BY NatLessThanWellFounded, WFMin
<1>2. \A y \in S : m <= y
  <2> SUFFICES ASSUME NEW y \in S, y < m PROVE FALSE
    OBVIOUS
  <2>1. <<y, m>> \in Nat \X Nat
    OBVIOUS
  <2>2. <<y, m>> \in OpToRel(<, Nat)
    BY <2>1 DEF OpToRel
  <2> QED
    BY <1>1, <2>2
<1> QED
  BY <1>2 DEF Min

LEMMA BarIsLeft ==
  ASSUME Walking, pc \in Trading
  PROVE  Bar \in todo /\ Bar \in Nat /\ \A b \in todo : Bar <= b
BY LeastExists DEF Walking, Bar

LEMMA PickedBars ==
  ASSUME NEW p \in Plans, NEW start
  PROVE  Picked(RunAt(p, start)) \subseteq Nat
<1>1. {p.total, p.first, p.cut} \subseteq Nat /\ p.last \in Int
  BY BacktestAssumption
<1>2. \A b : Upto(p, b) \subseteq Nat
  BY <1>1 DEF Upto
<1>3. RunAt(p, start).data \subseteq Nat
  <2>1. CASE p.kind = "dates" \/ p.kind = "recent"
    BY <1>2, <2>1 DEF RunAt, DatesRun, RecentRun, Run
  <2>2. CASE p.kind = "weeks" \/ p.kind = "script weeks"
    BY <1>2, <2>2 DEF RunAt, WeekRun, ScriptWeekRun, Run
  <2>3. CASE p.kind = "split"
    BY <1>1, <1>2, <2>3 DEF RunAt, SplitRun, Run
  <2>4. CASE p.kind = "forward"
    BY <1>2, <2>4 DEF RunAt, ForwardRun, Run
  <2> QED
    BY <2>1, <2>2, <2>3, <2>4, BacktestAssumption
<1> QED
  BY <1>3 DEF Picked, Leading

(* A run after a run starts at a bar.                                      *)
LEMMA NextStart ==
  ASSUME NEW p \in Plans, NEW start \in Nat
  PROVE  RunAt(p, start).next \in Nat
<1>1. p.total \in Nat /\ p.cut \in Nat /\ Week \in Nat /\ LeastOos \in Nat
  <2>1. {p.total, p.cut} \subseteq Nat /\ {Week, LeastOos} \subseteq Nat
    BY BacktestAssumption
  <2> QED
    BY <2>1
<1>2. CASE p.kind = "dates" \/ p.kind = "recent"
  BY <1>1, <1>2 DEF RunAt, DatesRun, RecentRun, Run
<1>3. CASE p.kind = "weeks" \/ p.kind = "script weeks"
  <2>1. WeekRun(p, start).next = start + Week /\ ScriptWeekRun(p, start).next = start + Week
    BY DEF WeekRun, ScriptWeekRun, Run
  <2>2. RunAt(p, start) = WeekRun(p, start) \/ RunAt(p, start) = ScriptWeekRun(p, start)
    BY <1>3, Zenon DEF RunAt
  <2> QED
    BY <1>1, <2>1, <2>2
<1>4. CASE p.kind = "split"
  BY <1>1, <1>4 DEF RunAt, SplitRun, Run
<1>5. CASE p.kind = "forward"
  <2>1. p.total \div 5 \in Nat /\ p.total \div 3 \in Nat
    BY <1>1
  <2>2. Oos(p.total) \in Nat
    BY <1>1, <2>1 DEF Oos, Most
  <2>3. Sizes(p.total).oos \in Nat
    BY <2>1, <2>2 DEF Sizes
  <2> QED
    BY <1>5, <2>3 DEF RunAt, ForwardRun, Run
<1> QED
  BY <1>2, <1>3, <1>4, <1>5, BacktestAssumption

-----------------------------------------------------------------------------
(* The account *)

(* A position is closed at a price: the balance takes the price less its   *)
(* costs, and the books take the same as the result of a trade             *)
(* (_close_position).                                                      *)
LEMMA Settled ==
  ASSUME Account, held # None, NEW price \in Int, Settle(price)
  PROVE  /\ Account' /\ held' = None /\ cash' = cash + price - Slip - Fee
         /\ Balanced => Balanced'
<1> DEFINE won == Result(held, price)
<1>0. {Fee, Slip} \subseteq Nat /\ MaxLosses \in Nat \ {0}
  BY BacktestAssumption
<1>1. won \in Int /\ won = price - Slip - Fee - held.entry
  BY <1>0 DEF Result, Account, Position
<1> HIDE DEF won
<1>2. /\ cash' = cash + price - Slip - Fee /\ held' = None
      /\ books' = [books EXCEPT !.results = @ + won]
  BY DEF Settle, won
<1>3. risk' \in [losses : 0 .. MaxLosses, daily : Int, cooled : BOOLEAN]
  <2>1. risk.losses \in 0 .. MaxLosses /\ risk.daily \in Int /\ risk.cooled \in BOOLEAN
    BY DEF Account
  <2>2. Least(risk.losses + 1, MaxLosses) \in 0 .. MaxLosses /\ risk.daily + won \in Int
    BY <1>0, <1>1, <2>1 DEF Least
  <2>3. (risk.cooled \/ risk.losses + 1 >= MaxLosses) \in BOOLEAN
    OBVIOUS
  <2>4. CASE won >= 0
    <3>1. risk' = [risk EXCEPT !.losses = 0, !.daily = @ + won]
      BY <2>4 DEF Settle, won
    <3>2. risk' = [losses |-> 0, daily |-> risk.daily + won, cooled |-> risk.cooled]
      BY <3>1 DEF Account
    <3> QED
      BY <1>0, <2>1, <2>2, <3>2
  <2>5. CASE ~(won >= 0)
    <3>1. risk' = [losses |-> Least(risk.losses + 1, MaxLosses), daily |-> risk.daily + won,
                   cooled |-> risk.cooled \/ risk.losses + 1 >= MaxLosses]
      BY <2>5 DEF Settle, won
    <3> QED
      BY <2>2, <2>3, <3>1
  <2> QED
    BY <2>4, <2>5
<1>4. /\ books' \in [start : Int, results : Int, entries : Nat]
      /\ books'.start = books.start /\ books'.results = books.results + won /\ books'.entries = books.entries
  BY <1>1, <1>2 DEF Account
<1>5. Account'
  BY <1>0, <1>2, <1>3, <1>4 DEF Account
<1>6. ASSUME Balanced PROVE Balanced'
  <2>1. held.entry \in Int /\ cash \in Int /\ books.start \in Int /\ books.results \in Int
    BY DEF Account, Position
  <2>2. cash + held.entry = books.start + books.results - Fee * books.entries
    BY <1>6 DEF Balanced
  <2>3. Fee * books.entries \in Int
    BY <1>0 DEF Account
  <2>4. cash' = books'.start + books'.results - Fee * books'.entries
    BY <1>0, <1>1, <1>2, <1>4, <2>1, <2>2, <2>3
  <2> QED
    BY <1>0, <1>2, <2>1, <2>4 DEF Balanced
<1> QED
  BY <1>2, <1>5, <1>6

LEMMA BeginKeeps ==
  ASSUME Walking, Booked, Begin
  PROVE  Walking' /\ Booked'
<1>1. /\ held = None /\ held' = None /\ cash' = cash /\ cash \in Int /\ equity' = None
      /\ books' = [start |-> cash, results |-> 0, entries |-> 0]
      /\ UNCHANGED <<plan, now, last>> /\ plan \in Plans /\ todo \subseteq Nat /\ last \in Int
  BY DEF Begin, Walking, Account
<1>2. Account'
  <2> QED
    BY <1>1, Numbers DEF Begin, Account, NoRisk
<1>3. todo' \subseteq Nat /\ pc' \in {"begin", "close", "exit"} /\ (pc' = "exit" => todo' # {})
  BY <1>1, PickedBars DEF Begin
<1>4. at' \in Nat
  BY NextStart DEF Begin, Walking
<1>5. Walking'
  BY <1>1, <1>2, <1>3, <1>4 DEF Walking, Trading
<1>6. Balanced'
  <2> QED
    BY <1>1, Numbers DEF Balanced
<1> QED
  BY <1>1, <1>3, <1>5, <1>6 DEF Booked, Trading

LEMMA PriceExitKeeps ==
  ASSUME Walking, Booked, PriceExit
  PROVE  Walking' /\ Booked'
<1>0. {Fee, Slip, Trail} \subseteq Nat /\ pc = "exit" /\ pc' = "signal" /\ Balanced /\ Account
  BY BacktestAssumption DEF PriceExit, Walking, Booked, Trading
<1>1. PICK b \in Shapes :
         /\ now' = b
         /\ IF held = None THEN UNCHANGED <<cash, held, books, risk>>
            ELSE IF HitsStop(held, b) THEN Settle(held.stop)
            ELSE IF HitsProfit(held, b) THEN Settle(held.profit)
            ELSE IF HitsTrail(held, b) THEN Settle(Raised(held, b).high - Trail)
            ELSE held' = Raised(held, b) /\ UNCHANGED <<cash, books, risk>>
  BY DEF PriceExit
<1>2. {b.low, b.high, b.close} \subseteq Int
  BY BacktestAssumption
<1>3. ASSUME held # None
      PROVE  /\ held.stop \in Int /\ held.profit \in Int
             /\ Raised(held, b) \in Position /\ Raised(held, b).high \in Int
             /\ Raised(held, b).entry = held.entry
  BY <1>0, <1>2, <1>3 DEF Account, Position, Raised, Most
<1>4. Account' /\ Balanced'
  <2>1. CASE held = None
    BY <1>0, <1>1, <2>1 DEF Account, Balanced
  <2>2. CASE held # None /\ \E price \in Int : Settle(price)
    BY <1>0, <2>2, Settled
  <2>3. CASE held # None /\ held' = Raised(held, b) /\ UNCHANGED <<cash, books, risk>>
    <3>1. held' # None
      BY <1>3, <2>3, BacktestAssumption
    <3> QED
      BY <1>0, <1>3, <2>3, <3>1 DEF Account, Balanced
  <2> QED
    BY <1>0, <1>1, <1>3, <2>1, <2>2, <2>3
<1>5. Walking'
  BY <1>0, <1>1, <1>4 DEF PriceExit, Walking, Trading
<1> QED
  BY <1>0, <1>4, <1>5 DEF Booked

LEMMA BuyKeeps ==
  ASSUME Walking, Booked, Buy
  PROVE  Walking' /\ Booked' /\ held' = Opened(now.close)
<1>0. /\ {Fee, Slip, Stop, Profit, Activation} \subseteq Nat
      /\ pc = "signal" /\ pc' = "record" /\ Balanced /\ Account /\ now.close \in Int
  BY BacktestAssumption DEF Buy, Walking, Booked, Trading
<1>1. /\ cash' = cash - (now.close + Slip + Fee) /\ held = None /\ held' = Opened(now.close)
      /\ books' = [books EXCEPT !.entries = @ + 1] /\ risk' = risk
  BY DEF Buy
<1>2. Bar \in Nat
  BY <1>0, BarIsLeft DEF Trading
<1>3. Opened(now.close) \in Position /\ Opened(now.close).entry = now.close + Slip
  BY <1>0, <1>2 DEF Opened, Position
<1>4. held' # None
  BY <1>1, <1>3, BacktestAssumption
<1>5. Account'
  BY <1>0, <1>1, <1>3 DEF Account
<1>6. Balanced'
  <2>1. /\ cash \in Int /\ books.start \in Int /\ books.results \in Int /\ books.entries \in Nat
        /\ books'.start = books.start /\ books'.results = books.results /\ books'.entries = books.entries + 1
    BY <1>0, <1>1 DEF Account
  <2>2. Fee * (books.entries + 1) = Fee * books.entries + Fee /\ Fee * books.entries \in Int
    BY <2>1, OneMoreFee
  <2>3. cash = books.start + books.results - Fee * books.entries
    BY <1>0, <1>1, <2>1 DEF Balanced
  <2>4. cash' + held'.entry = books'.start + books'.results - Fee * books'.entries
    <3>1. cash' + held'.entry = cash - Fee
      BY <1>0, <1>1, <1>3, <2>1, Numbers
    <3>2. Fee * books'.entries = Fee * books.entries + Fee
      BY <2>1, <2>2
    <3> QED
      BY <2>1, <2>2, <2>3, <3>1, <3>2, Numbers
  <2> QED
    BY <1>4, <2>4 DEF Balanced
<1>7. Walking'
  BY <1>0, <1>5 DEF Buy, Walking, Trading
<1> QED
  BY <1>0, <1>1, <1>6, <1>7 DEF Booked

LEMMA SellKeeps ==
  ASSUME Walking, Booked, Sell
  PROVE  Walking' /\ Booked'
<1>1. pc = "signal" /\ pc' = "record" /\ Balanced /\ Account /\ held # None /\ now.close \in Int
  BY BacktestAssumption DEF Sell, Walking, Booked, Trading
<1>2. Account' /\ Balanced'
  BY <1>1, Settled DEF Sell
<1>3. Walking'
  BY <1>1, <1>2 DEF Sell, Walking, Trading
<1> QED
  BY <1>1, <1>2, <1>3 DEF Booked

LEMMA RecordKeeps ==
  ASSUME Walking, Booked, Record
  PROVE  Walking' /\ Booked'
<1>1. /\ pc = "record" /\ UNCHANGED <<plan, at, now, cash, held, risk, books>>
      /\ Balanced /\ Account /\ now.close \in Int /\ now \in Shapes
  BY BacktestAssumption DEF Record, Walking, Booked, Trading
<1>2. Account' /\ Balanced'
  BY <1>1 DEF Account, Balanced
<1>3. Bar \in Nat /\ Worth \in Int
  BY <1>1, BarIsLeft DEF Trading, Worth, Account
<1>4. /\ equity' = Worth /\ Worth' = Worth /\ last' = Bar /\ todo' = todo \ {Bar}
      /\ pc' = IF todo' = {} THEN "close" ELSE "exit"
  BY <1>1 DEF Record, Worth
<1>5. Walking'
  BY <1>1, <1>2, <1>3, <1>4 DEF Walking, Trading
<1> QED
  BY <1>2, <1>4, <1>5 DEF Booked

LEMMA CloseKeeps ==
  ASSUME Walking, Booked, CloseAtEnd
  PROVE  Walking' /\ Booked'
<1>0. /\ pc = "close" /\ pc' = "next" /\ Balanced /\ Account
      /\ UNCHANGED <<plan, at, todo, now, equity, ran, last>> /\ {Fee, Slip} \subseteq Nat
  BY BacktestAssumption DEF CloseAtEnd, Booked, Walking
<1>1. CASE held = None
  <2>1. UNCHANGED <<cash, held, risk, books>>
    BY <1>1 DEF CloseAtEnd
  <2>2. Account' /\ Balanced'
    BY <1>0, <2>1 DEF Account, Balanced
  <2>3. equity # None => equity - cash = 0
    BY <1>0, <1>1 DEF Booked, Worth, Account
  <2> QED
    BY <1>0, <1>1, <2>1, <2>2, <2>3 DEF Walking, Booked, Trading
<1>2. CASE held # None
  <2>1. Settle(now.close) /\ now \in Shapes /\ now.close \in Int
    BY <1>0, <1>2, BacktestAssumption DEF CloseAtEnd, Walking
  <2>2. Account' /\ Balanced' /\ held' = None /\ cash' = cash + now.close - Slip - Fee
    BY <1>0, <1>2, <2>1, Settled
  <2>3. equity # None => equity - cash' = Slip + Fee
    BY <1>0, <1>2, <2>1, <2>2 DEF Booked, Worth, Account
  <2> QED
    BY <1>0, <2>2, <2>3 DEF Walking, Booked, Trading
<1> QED
  BY <1>1, <1>2

LEMMA OthersKeep ==
  ASSUME Walking, Booked, Hold \/ NextRun \/ RunRaises \/ Finish \/ Midnight \/ UNCHANGED vars
  PROVE  Walking' /\ Booked'
<1>1. CASE Hold \/ UNCHANGED vars
  BY <1>1 DEF Hold, vars, Walking, Account, Booked, Balanced, Worth, Trading, Bar
<1>2. CASE NextRun
  <2>1. cash' \in Int
    BY <1>2, Numbers DEF NextRun, Walking, Account
  <2>2. at' \in Nat
    BY <1>2, NextStart DEF NextRun, Walking
  <2> QED
    BY <1>2, <2>1, <2>2 DEF NextRun, Walking, Account, Booked, Trading
<1>3. CASE Finish
  BY <1>3 DEF Finish, Walking, Account, Booked, Trading
<1>5. CASE RunRaises
  <2>1. /\ todo' = {} /\ held' = None /\ equity' = None /\ pc' \in {"begin", "failed"}
        /\ UNCHANGED <<plan, now, risk, books>>
    BY <1>5 DEF RunRaises
  <2>2. cash' \in Int
    BY <1>5, Numbers DEF RunRaises, Walking, Account
  <2>3. last' \in Int
    <3>1. plan.last \in Int /\ at \in Nat /\ last \in Int
      BY BacktestAssumption DEF Walking
    <3>2. WeekEnd(plan, at) \in Int
      BY <3>1, Numbers DEF WeekEnd, Least
    <3> QED
      BY <1>5, <3>1, <3>2 DEF RunRaises
  <2>4. at' \in Nat
    BY <1>5, NextStart DEF RunRaises, Walking
  <2> QED
    BY <2>1, <2>2, <2>3, <2>4 DEF Walking, Account, Booked, Trading
<1>4. CASE Midnight
  <2>1. risk' \in [losses : 0 .. MaxLosses, daily : Int, cooled : BOOLEAN]
    BY <1>4 DEF Midnight, Walking, Account
  <2>2. UNCHANGED <<plan, at, pc, todo, now, cash, held, books, equity, last>>
    BY <1>4 DEF Midnight
  <2> QED
    BY <2>1, <2>2 DEF Walking, Account, Booked, Balanced, Worth, Trading
<1> QED
  BY <1>1, <1>2, <1>3, <1>4, <1>5

LEMMA StepKeeps ==
  ASSUME Walking, Booked, [Next]_vars
  PROVE  Walking' /\ Booked'
BY BeginKeeps, PriceExitKeeps, BuyKeeps, SellKeeps, RecordKeeps, CloseKeeps, OthersKeep DEF Next, Walk

LEMMA InitKeeps ==
  ASSUME Init
  PROVE  Walking /\ Booked
<1>1. First(plan) \in Nat
  <2>1. plan \in Plans
    BY DEF Init
  <2>2. {plan.total, plan.first, plan.cut} \subseteq Nat
    BY <2>1, BacktestAssumption
  <2> QED
    BY <2>2 DEF First
<1> QED
  BY <1>1, Numbers DEF Init, NoRisk, Walking, Account, Booked, Trading

(* In every backtest the variables keep their ranges; the walk is flat     *)
(* whenever a run begins or has ended.                                     *)
THEOREM WalkTyped == Spec => []Walking
BY InitKeeps, StepKeeps, PTL DEF Spec

(* For all plans, bars, fees, slippage and exit distances: the account     *)
(* adds up at every step of every run, and what a run reports is what the  *)
(* account then holds, but for the cost of the forced close (engine.py,    *)
(* run).                                                                   *)
THEOREM BooksAlwaysBalance == Spec => []BooksBalance
<1>1. Walking /\ Booked => BooksBalance
  BY DEF Booked, BooksBalance, Balanced, Trading
<1> QED
  BY <1>1, InitKeeps, StepKeeps, PTL DEF Spec

-----------------------------------------------------------------------------
(* The levels of a position *)

(* None of the levels was reached on this bar, the trailing one by the     *)
(* highest price since the entry.                                          *)
Survives(position) ==
  /\ now.low > position.stop /\ now.high < position.profit
  /\ position.high >= position.activation => now.low > position.high - Trail

(* A position is as old as its entry: it was opened on this bar, after the *)
(* levels were looked at, or before it.  Its high is the highest price     *)
(* since then.                                                             *)
Watched ==
  held # None =>
    /\ pc \in Trading => held.high = peak
    /\ pc = "exit" => held.since \notin todo
    /\ pc = "signal" => held.since \notin todo /\ Survives(held)
    /\ pc = "record" => \/ held.since = Bar /\ held.high = now.close + Slip
                        \/ held.since \notin todo /\ Survives(held)

LEMMA WatchedStep ==
  ASSUME Walking, Booked, Watched, [Next]_vars
  PROVE  Watched'
<1>1. CASE Begin \/ NextRun \/ RunRaises \/ Finish
  BY <1>1 DEF Begin, NextRun, RunRaises, Finish, Walking, Watched, Trading
<1>2. CASE PriceExit
  <2>0. pc = "exit" /\ pc' = "signal" /\ todo' = todo /\ Trail \in Nat
    BY <1>2, Numbers DEF PriceExit
  <2>1. PICK b \in Shapes :
           /\ now' = b
           /\ peak' = IF held' = None THEN 0 ELSE Most(peak, b.high)
           /\ IF held = None THEN UNCHANGED held
              ELSE \/ held' = None
                   \/ /\ ~HitsStop(held, b) /\ ~HitsProfit(held, b) /\ ~HitsTrail(held, b)
                      /\ held' = Raised(held, b)
    BY <1>2 DEF PriceExit, Settle
  <2>2. CASE held # None /\ held' # None
    <3>1. {b.low, b.high} \subseteq Int
      BY BacktestAssumption
    <3>2. /\ held \in Position
          /\ held' = [held EXCEPT !.high = Most(held.high, b.high)]
          /\ ~HitsStop(held, b) /\ ~HitsProfit(held, b) /\ ~HitsTrail(held, b)
      BY <2>1, <2>2 DEF Walking, Account, Raised
    <3>3. /\ held'.since = held.since /\ held'.stop = held.stop /\ held'.profit = held.profit
          /\ held'.activation = held.activation /\ held'.high = Most(held.high, b.high)
          /\ held'.high \in Int /\ {held.stop, held.profit, held.activation, held.high} \subseteq Int
      BY <3>1, <3>2 DEF Position, Most
    <3>4. now'.low > held'.stop /\ now'.high < held'.profit
      BY <2>1, <3>1, <3>2, <3>3 DEF HitsStop, HitsProfit, Most
    <3>5. held'.high >= held'.activation => now'.low > held'.high - Trail
      BY <2>0, <2>1, <3>1, <3>2, <3>3 DEF HitsTrail, Raised
    <3>6. held'.high = peak'
      BY <2>0, <2>1, <2>2, <3>3 DEF Watched, Trading
    <3> QED
      BY <2>0, <2>2, <3>3, <3>4, <3>5, <3>6 DEF Watched, Survives
  <2> QED
    BY <2>0, <2>1, <2>2 DEF Watched
<1>3. CASE Buy
  <2>1. held' = Opened(now.close) /\ Bar' = Bar /\ now' = now /\ pc' = "record"
    BY <1>3 DEF Buy, Bar
  <2>2. held'.since = Bar /\ held'.high = now.close + Slip /\ peak' = held'.high
    BY <1>3, <2>1 DEF Buy, Opened
  <2> QED
    BY <2>1, <2>2 DEF Watched
<1>4. CASE Sell \/ CloseAtEnd
  BY <1>4 DEF Sell, CloseAtEnd, Settle, Watched
<1>5. CASE Hold
  BY <1>5 DEF Hold, Watched, Survives, Trading
<1>6. CASE Record
  <2>1. /\ todo' = todo \ {Bar} /\ held' = held /\ peak' = peak
        /\ pc = "record" /\ pc' \in {"close", "exit"}
    BY <1>6 DEF Record
  <2> QED
    BY <2>1 DEF Watched, Trading
<1>7. CASE Midnight \/ UNCHANGED vars
  BY <1>7 DEF Midnight, vars, Watched, Survives, Bar, Trading
<1> QED
  BY <1>1, <1>2, <1>3, <1>4, <1>5, <1>6, <1>7 DEF Next, Walk

(* For all distances of the levels, bars and plans: a position that is     *)
(* still held when a bar is recorded has reached none of its levels on     *)
(* any bar since it was opened (engine.py, _check_price_exit).             *)
THEOREM ExitsAlwaysHonoured == Spec => []ExitsHonoured
<1>1. Walking /\ Watched => ExitsHonoured
  <2> SUFFICES ASSUME Walking, Watched, pc = "record", held # None
               PROVE  ExitsHonoured
    BY DEF ExitsHonoured
  <2>1. Bar \in todo
    BY BarIsLeft DEF Trading
  <2> QED
    BY <2>1 DEF ExitsHonoured, Watched, Survives, Trading
<1>2. Init => Watched
  BY DEF Init, Watched
<1>3. Walking /\ Booked /\ Watched /\ [Next]_vars => Watched'
  BY WatchedStep
<1> QED
  BY <1>1, <1>2, <1>3, InitKeeps, StepKeeps, PTL DEF Spec

-----------------------------------------------------------------------------
(* The weeks of a period *)

(* Where the week that starts at a bar ends.                               *)
End(start) == WeekEnd(plan, start)

(* How far the weeks have come.                                            *)
InWeeks ==
  plan.kind = "weeks" =>
    /\ at \in Nat
    /\ pc = "begin" => last = End(at - Week)
    /\ pc \in Trading => at <= plan.last /\ last < End(at) /\ todo = last + 1 .. End(at)
    /\ pc \in {"close", "next"} => at <= plan.last /\ last = End(at)
    /\ pc = "done" => last = plan.last

(* The first bars of a week, as many as it has, are the whole week.        *)
LEMMA WholeWeek ==
  ASSUME NEW a \in Nat, NEW z \in Int
  PROVE  Leading(a .. z, Cardinality(a .. z)) = a .. z
<1> SUFFICES ASSUME NEW b \in a .. z
             PROVE  Cardinality({c \in a .. z : c < b}) < Cardinality(a .. z)
  BY DEF Leading
<1> DEFINE S == a .. z
           T == {c \in a .. z : c < b}
<1>1. IsFiniteSet(S)
  BY FS_Interval
<1>2. T \in SUBSET S /\ b \in S /\ b \notin T
  OBVIOUS
<1> HIDE DEF S, T
<1>3. IsFiniteSet(T) /\ Cardinality(T) <= Cardinality(S) /\ Cardinality(S) # Cardinality(T)
  BY <1>1, <1>2, FS_Subset
<1>4. Cardinality(S) \in Nat /\ Cardinality(T) \in Nat
  BY <1>1, <1>3, FS_CardinalityType
<1>5. Cardinality(T) < Cardinality(S)
  BY <1>3, <1>4
<1> QED
  BY <1>5 DEF S, T

(* A week is traded on from its first bar to its last.                     *)
LEMMA WeekPicked ==
  ASSUME NEW p \in Plans, p.kind = "weeks", NEW start \in Nat, start <= p.last, NEW end,
         end = Least(start + Week - 1, p.last)
  PROVE  /\ end \in Nat /\ start <= end
         /\ RunAt(p, start).data # {} /\ Picked(RunAt(p, start)) = start .. end
<1>1. p.total \in Nat /\ p.last \in Int /\ p.last < p.total
  <2>1. {p.total} \subseteq Nat /\ p.last \in Int /\ p.last < p.total
    BY BacktestAssumption
  <2> QED
    BY <2>1
<1>2. end \in Nat /\ start <= end /\ end <= p.last
  BY <1>1, Numbers DEF Least
<1>3. WeekOf(p, start) = start .. end
  BY DEF WeekOf, WeekEnd
<1>4. Max(start .. end) = end
  BY <1>2 DEF Max
<1>5. Upto(p, end) = 0 .. end
  BY <1>1, <1>2 DEF Upto
<1>6. /\ RunAt(p, start).data = 0 .. end /\ RunAt(p, start).window = start .. end
      /\ RunAt(p, start).dated = TRUE /\ RunAt(p, start).limit = Cardinality(start .. end)
  BY <1>3, <1>4, <1>5 DEF RunAt, WeekRun, Run
<1>7. (0 .. end) \cap (start .. end) = start .. end
  BY <1>2
<1>8. Leading(start .. end, Cardinality(start .. end)) = start .. end
  BY <1>2, WholeWeek
<1>9. Picked(RunAt(p, start)) = start .. end
  BY <1>6, <1>7, <1>8 DEF Picked
<1>10. 0 \in 0 .. end
  BY <1>2
<1> QED
  BY <1>2, <1>6, <1>9, <1>10

LEMMA WeeksStep ==
  ASSUME Walking, InWeeks, [Next]_vars
  PROVE  InWeeks'
<1> SUFFICES ASSUME plan.kind = "weeks", plan' = plan
             PROVE  InWeeks'
  BY DEF InWeeks, Next, Walk, Begin, PriceExit, Buy, Sell, Hold, Record, CloseAtEnd, NextRun,
         RunRaises, Finish, Midnight, vars
<1>0. /\ plan \in Plans /\ Weekly(plan) /\ at \in Nat /\ plan.last \in Int
      /\ last \in Int /\ Week \in Nat \ {0} /\ todo \subseteq Nat
  BY Numbers, BacktestAssumption DEF InWeeks, Walking, Weekly
<1>1. \A start \in Int : End(start) \in Int /\ End(start)' = End(start)
  BY <1>0 DEF End, WeekEnd, Least
<1>2. CASE Begin
  <2>1. pc = "begin" /\ at <= plan.last /\ last = End(at - Week) /\ last' = last
    BY <1>0, <1>2 DEF Begin, Another, InWeeks
  <2>2. End(at) \in Nat /\ at <= End(at) /\ last = at - 1
    BY <1>0, <2>1 DEF End, WeekEnd, Least
  <2>3. todo' = at .. End(at) /\ at' = at /\ RunAt(plan, at).data # {}
    BY <1>0, <1>2, <2>1, WeekPicked DEF Begin, End, WeekEnd
  <2>4. at \in todo'
    BY <1>0, <2>2, <2>3
  <2>5. pc' = "exit"
    BY <1>2, <2>3, <2>4 DEF Begin
  <2>6. todo' = last' + 1 .. End(at) /\ last' < End(at)
    BY <1>0, <2>1, <2>2, <2>3
  <2> QED
    BY <1>0, <1>1, <2>1, <2>3, <2>5, <2>6 DEF InWeeks, Trading
<1>3. CASE PriceExit \/ Buy \/ Sell \/ Hold \/ Midnight \/ UNCHANGED vars
  <2>1. /\ UNCHANGED <<at, todo, last>>
        /\ pc' = pc \/ (pc \in Trading /\ pc' \in Trading)
    BY <1>3 DEF PriceExit, Buy, Sell, Hold, Midnight, vars, Trading
  <2> QED
    BY <1>0, <1>1, <2>1 DEF InWeeks, Trading
<1>4. CASE Record
  <2>1. /\ pc = "record" /\ at' = at /\ at <= plan.last /\ last < End(at) /\ todo = last + 1 .. End(at)
        /\ last' = Bar /\ todo' = todo \ {Bar} /\ pc' = IF todo' = {} THEN "close" ELSE "exit"
    BY <1>4 DEF Record, InWeeks, Trading
  <2>2. Bar \in todo /\ Bar \in Nat /\ \A b \in todo : Bar <= b
    BY <2>1, BarIsLeft DEF Trading
  <2>3. last + 1 \in todo
    BY <1>0, <1>1, <2>1
  <2>4. Bar = last + 1
    BY <1>0, <1>1, <2>1, <2>2, <2>3
  <2>5. todo' = last' + 1 .. End(at) /\ last' <= End(at)
    <3>1. End(at) \in Int /\ (last + 1 .. End(at)) \ {last + 1} = (last + 1) + 1 .. End(at)
      BY <1>0, <1>1
    <3>2. last + 1 <= End(at)
      BY <1>0, <2>1, <3>1
    <3> QED
      BY <2>1, <2>4, <3>1, <3>2
  <2>6. todo' = {} => last' = End(at)
    <3>1. last' < End(at) => last' + 1 \in todo'
      BY <1>0, <1>1, <2>1, <2>4, <2>5
    <3> QED
      BY <1>0, <1>1, <2>1, <2>4, <2>5, <3>1
  <2>7. todo' # {} => last' < End(at)
    BY <1>0, <1>1, <2>1, <2>4, <2>5
  <2>8. CASE todo' = {}
    BY <1>0, <1>1, <2>1, <2>6, <2>8 DEF InWeeks, Trading
  <2>9. CASE todo' # {}
    <3>1. End(at)' = End(at)
      BY <1>0, <1>1, <2>1
    <3>2. pc' = "exit"
      BY <2>1, <2>9
    <3> QED
      BY <1>0, <2>1, <2>5, <2>7, <2>9, <3>1, <3>2 DEF InWeeks, Trading
  <2> QED
    BY <2>8, <2>9
<1>5. CASE CloseAtEnd
  BY <1>0, <1>1, <1>5 DEF CloseAtEnd, InWeeks, Trading
<1>6. CASE NextRun
  <2>1. at' = at + Week /\ last = End(at) /\ last' = last /\ pc' = "begin"
    BY <1>0, <1>6 DEF NextRun, RunAt, WeekRun, Run, InWeeks
  <2>2. at' \in Nat /\ at' - Week = at
    BY <1>0, <2>1
  <2> QED
    BY <1>0, <1>1, <2>1, <2>2 DEF InWeeks, Trading
<1>7. CASE Finish
  <2>1. ~(at <= plan.last) /\ last = End(at - Week) /\ last' = last /\ pc' = "done" /\ at' = at
    BY <1>0, <1>7 DEF Finish, Another, InWeeks
  <2>2. last = plan.last
    BY <1>0, <2>1 DEF End, WeekEnd, Least
  <2> QED
    BY <1>0, <2>1, <2>2 DEF InWeeks, Trading
<1>8. CASE RunRaises
  <2>1. /\ at <= plan.last /\ pc' \in {"begin", "failed"}
        /\ pc' = "begin" => at' = RunAt(plan, at).next /\ last' = End(at)
        /\ pc' = "failed" => at' = at
    BY <1>0, <1>8 DEF RunRaises, InWeeks, Trading, End
  <2>2. CASE pc' = "begin"
    <3>1. at' = at + Week /\ at' \in Nat /\ at' - Week = at
      BY <1>0, <2>1, <2>2 DEF RunAt, WeekRun, Run
    <3> QED
      BY <1>0, <1>1, <2>1, <2>2, <3>1 DEF InWeeks, Trading
  <2>3. CASE pc' = "failed"
    BY <1>0, <2>1, <2>3 DEF InWeeks, Trading
  <2> QED
    BY <2>1, <2>2, <2>3
<1> QED
  BY <1>2, <1>3, <1>4, <1>5, <1>6, <1>7, <1>8 DEF Next, Walk

(* For every period and length of a week: the weeks of an AI backtest      *)
(* trade on every bar of the period once, in order, up to the last one     *)
(* (runners.py, run_ai_regime).                                            *)
THEOREM WeeksCoverThePeriod == Spec => []EachBarOnce
<1>1. Walking /\ InWeeks => EachBarOnce
  <2> SUFFICES ASSUME Walking, InWeeks, plan.kind = "weeks", pc = "exit"
               PROVE  Bar = last + 1
    BY DEF EachBarOnce, InWeeks
  <2>1. last < End(at) /\ todo = last + 1 .. End(at) /\ last \in Int
    BY DEF InWeeks, Walking, Trading
  <2>2. End(at) \in Int
    <3>1. plan.last \in Int /\ at \in Nat
      BY BacktestAssumption DEF Walking, InWeeks
    <3> QED
      BY <3>1, Numbers DEF End, WeekEnd, Least
  <2>3. Bar \in todo /\ \A b \in todo : Bar <= b
    BY BarIsLeft DEF Trading
  <2>4. last + 1 \in todo
    BY <2>1, <2>2
  <2> QED
    BY <2>1, <2>2, <2>3, <2>4
<1>2. Init => InWeeks
  <2> SUFFICES ASSUME Init, plan.kind = "weeks" PROVE InWeeks
    BY DEF InWeeks
  <2>1. at = plan.first /\ pc = "begin" /\ last = at - 1
    BY DEF Init, First, Weekly
  <2>2. {plan.first} \subseteq Nat /\ plan.last \in Int /\ plan.first <= plan.last
    BY BacktestAssumption DEF Init
  <2>3. End(at - Week) = at - 1
    BY <2>1, <2>2, Numbers DEF End, WeekEnd, Least
  <2> QED
    BY <2>1, <2>2, <2>3 DEF InWeeks, Trading
<1>3. Walking /\ InWeeks /\ [Next]_vars => InWeeks'
  BY WeeksStep
<1> QED
  BY <1>1, <1>2, <1>3, InitKeeps, StepKeeps, PTL DEF Spec

-----------------------------------------------------------------------------
(* What a strategy has lost. One strategy, whose start() does not overlap the bus. *)

Sole == Order[1]
TakesTurns == Order = <<Sole>> /\ ~Overlap
Closed == [strategy : {Sole}, pnl : Int, first : {TRUE}]
Entry == [losses : Int, pnl : Int, cooldown : Int]

Memory == [losses : Int, pnl : Int, cooldown : Int, today : BOOLEAN]

\* What the strategy's own manager knows of it, and what its row says.
Known == engine[Sole][Sole]
Row == row[Sole]

\* Everything is about the one strategy, and a start has read what the row still says.
Alone ==
  /\ up \in BOOLEAN
  /\ engine = [m \in {Sole} |-> [s \in {Sole} |-> Known]]
  /\ Known \in Memory
  /\ row = [s \in {Sole} |-> Row]
  /\ Row \in Entry
  /\ loading = [s \in {Sole} |-> loading[Sole]] /\ loading[Sole] \subseteq {Row}
  /\ streak = [s \in {Sole} |-> streak[Sole]] /\ ban = [s \in {Sole} |-> ban[Sole]]
  /\ lost = [s \in {Sole} |-> lost[Sole]]
  /\ loaded = [s \in {Sole} |-> loaded[Sole]] /\ loaded[Sole] \in BOOLEAN
  /\ open = [s \in {Sole} |-> open[Sole]]
  /\ left = Order /\ queue \in Seq(Closed)
  /\ ~up => loading[Sole] = {} /\ queue = <<>>

\* Row and manager count the losses and the hours that were handled.
Remembers == /\ Row.losses = streak[Sole] /\ Row.cooldown = ban[Sole]
             /\ up => Known.losses = streak[Sole] /\ Known.cooldown = ban[Sole]

\* Unless the row was loaded today, today's result is what the manager counts, or nothing yet.
SumsUp == up /\ ~loaded[Sole] => IF Known.today THEN Known.pnl = lost[Sole] ELSE lost[Sole] = 0

Counted == Alone /\ Remembers /\ SumsUp

LEMMA Lone == ASSUME TakesTurns PROVE Strategies = {Sole} /\ Len(Order) = 1 /\ Head(Order) = Sole
BY DEF TakesTurns, Strategies, Range

(* What the one manager knows of the one strategy is replaced.             *)
LEMMA Replaced ==
  ASSUME NEW f, NEW x, NEW a, f = [m \in {x} |-> [s \in {x} |-> a]], NEW k,
         NEW g, g = [f EXCEPT ![x][x] = k]
  PROVE  g = [m \in {x} |-> [s \in {x} |-> k]] /\ g[x][x] = k
<1>1. f[x] = [s \in {x} |-> a]
  OBVIOUS
<1>2. [f[x] EXCEPT ![x] = k] = [s \in {x} |-> k]
  BY <1>1
<1>3. g = [m \in {x} |-> [s \in {x} |-> k]]
  BY <1>2
<1> QED
  BY <1>3

(* A new day begins when it is noticed.                                    *)
LEMMA Noticed ==
  ASSUME NEW e \in Memory, NEW d, d = DailyReset(e)
  PROVE  /\ d \in Memory /\ d.losses = e.losses /\ d.cooldown = e.cooldown /\ d.today = TRUE
         /\ d.pnl = IF e.today THEN e.pnl ELSE 0
<1> DEFINE f == [e EXCEPT !.pnl = 0]
<1>1. f \in Memory /\ f.losses = e.losses /\ f.pnl = 0 /\ f.cooldown = e.cooldown
  BY DEF Memory
<1>2. d = IF e.today THEN e ELSE [f EXCEPT !.today = TRUE]
  BY DEF DailyReset
<1>3. e.today \in BOOLEAN
  BY DEF Memory
<1> HIDE DEF f
<1>4. CASE e.today
  BY <1>2, <1>3, <1>4
<1>5. CASE ~e.today
  BY <1>1, <1>2, <1>5 DEF Memory
<1> QED
  BY <1>4, <1>5

(* What one result makes of what a manager knows.                          *)
Learns(e, p, k) ==
  /\ k \in Memory /\ k.today = TRUE
  /\ k.losses = IF p >= 0 THEN 0
                ELSE IF e.losses < MaxConsecutiveLosses THEN e.losses + 1 ELSE e.losses
  /\ k.pnl = (IF e.today THEN e.pnl ELSE 0) + p
  /\ k.cooldown = IF p < 0 /\ k.losses >= MaxConsecutiveLosses THEN CooldownHours ELSE e.cooldown

LEMMA Recorded ==
  ASSUME NEW e \in Memory, NEW p \in Int
  PROVE  Learns(e, p, RecordTrade(e, p))
<1>0. PICK k : k = RecordTrade(e, p)
  OBVIOUS
<1> DEFINE d == DailyReset(e)
           m == IF d.losses < MaxConsecutiveLosses THEN d.losses + 1 ELSE d.losses
           f == [d EXCEPT !.pnl = @ + p]
           g == [f EXCEPT !.losses = m]
<1>1. k = IF p >= 0 THEN [f EXCEPT !.losses = 0]
          ELSE [g EXCEPT !.cooldown = IF m >= MaxConsecutiveLosses THEN CooldownHours ELSE @]
  BY <1>0 DEF RecordTrade
<1>2. /\ d \in Memory /\ d.losses = e.losses /\ d.cooldown = e.cooldown /\ d.today = TRUE
      /\ d.pnl = IF e.today THEN e.pnl ELSE 0
  BY Noticed
<1>3. MaxConsecutiveLosses \in Int /\ CooldownHours \in Int /\ e.losses \in Int
  BY RiskStateAssumption DEF Memory
<1> HIDE DEF d
<1>4. m \in Int /\ m = IF e.losses < MaxConsecutiveLosses THEN e.losses + 1 ELSE e.losses
  BY <1>2, <1>3
<1>5. f \in Memory /\ f.losses = d.losses /\ f.cooldown = d.cooldown /\ f.today = TRUE /\ f.pnl = d.pnl + p
  BY <1>2 DEF Memory
<1> HIDE DEF f, m
<1>6. g \in Memory /\ g.losses = m /\ g.cooldown = f.cooldown /\ g.today = TRUE /\ g.pnl = f.pnl
  BY <1>4, <1>5 DEF Memory
<1> HIDE DEF g
<1>7. ASSUME p >= 0 PROVE Learns(e, p, k)
  <2>1. k = [f EXCEPT !.losses = 0] /\ ~(p < 0)
    BY <1>1, <1>7
  <2> QED
    BY <1>2, <1>5, <1>7, <2>1 DEF Memory, Learns
<1>8. ASSUME p < 0 PROVE Learns(e, p, k)
  <2>1. k = [g EXCEPT !.cooldown = IF m >= MaxConsecutiveLosses THEN CooldownHours ELSE @]
    BY <1>1, <1>8
  <2>2. PICK c \in Int : c = IF m >= MaxConsecutiveLosses THEN CooldownHours ELSE g.cooldown
    BY <1>3, <1>6 DEF Memory
  <2>3. k = [g EXCEPT !.cooldown = c]
    BY <2>1, <2>2
  <2>4. /\ k \in Memory /\ k.losses = m /\ k.today = TRUE
        /\ k.pnl = g.pnl /\ k.cooldown = c
    BY <1>6, <2>3 DEF Memory
  <2> QED
    BY <1>2, <1>4, <1>5, <1>6, <1>8, <2>2, <2>4 DEF Learns
<1>9. p >= 0 \/ p < 0
  OBVIOUS
<1> QED
  BY <1>0, <1>7, <1>8, <1>9

(* A decision on a BUY notices the day and changes nothing else.           *)
LEMMA Decides ==
  ASSUME TakesTurns, Counted, up, engine' = [engine EXCEPT ![Sole][Sole] = DailyReset(@)],
         UNCHANGED <<up, hour, row, loading, queue, left, history>>,
         open' = [s \in {Sole} |-> open'[Sole]]
  PROVE  Counted'
<1>1. PICK k : k = DailyReset(Known)
  OBVIOUS
<1>2. /\ k \in Memory /\ k.losses = Known.losses /\ k.cooldown = Known.cooldown /\ k.today = TRUE
      /\ k.pnl = IF Known.today THEN Known.pnl ELSE 0
  <2>1. Known \in Memory
    BY DEF Counted, Alone
  <2> QED
    BY <1>1, <2>1, Noticed
<1>3. engine' = [m \in {Sole} |-> [s \in {Sole} |-> k]] /\ Known' = k
  <2>1. engine' = [engine EXCEPT ![Sole][Sole] = k]
    BY <1>1 DEF Known
  <2>2. PICK a : engine = [m \in {Sole} |-> [s \in {Sole} |-> a]]
    BY DEF Counted, Alone
  <2>3. PICK f, g : f = engine /\ g = engine'
    OBVIOUS
  <2>4. f = [m \in {Sole} |-> [s \in {Sole} |-> a]] /\ g = [f EXCEPT ![Sole][Sole] = k]
    BY <2>1, <2>2, <2>3
  <2>5. g = [m \in {Sole} |-> [s \in {Sole} |-> k]] /\ g[Sole][Sole] = k
    BY <2>4, Replaced
  <2> QED
    BY <2>3, <2>5 DEF Known, Sole
<1>4. UNCHANGED <<up, row, loading, queue, left, streak, ban, lost, loaded>> /\ Row' = Row
  BY DEF history, Row
<1>a. Known' \in Memory /\ engine' = [m \in {Sole} |-> [s \in {Sole} |-> Known']]
  BY <1>2, <1>3
<1>5. Alone'
  <2>1. Alone /\ up' = TRUE
    BY DEF Counted, Alone
  <2>2. /\ row' = [s \in {Sole} |-> Row'] /\ Row' \in Entry
        /\ loading' = [s \in {Sole} |-> loading'[Sole]] /\ loading'[Sole] \subseteq {Row'}
        /\ streak' = [s \in {Sole} |-> streak'[Sole]] /\ ban' = [s \in {Sole} |-> ban'[Sole]]
        /\ lost' = [s \in {Sole} |-> lost'[Sole]]
        /\ loaded' = [s \in {Sole} |-> loaded'[Sole]] /\ loaded'[Sole] \in BOOLEAN
        /\ left' = Order /\ queue' \in Seq(Closed)
    BY <1>4, <2>1 DEF Alone
  <2> QED
    BY <1>a, <2>1, <2>2 DEF Alone
<1>6. Remembers' /\ SumsUp'
  BY <1>2, <1>3, <1>4 DEF Counted, Remembers, SumsUp
<1> QED
  BY <1>5, <1>6 DEF Counted

LEMMA ClosesKeep ==
  ASSUME TakesTurns, Counted, NEW s \in Strategies, NEW p \in {-1, 1}, Close(s, p)
  PROVE  Counted'
<1>1. s = Sole /\ Len(Order) = 1
  BY Lone
<1> DEFINE es == [i \in 1..Len(Order) |-> [strategy |-> s, pnl |-> p, first |-> i = 1]]
<1>2. es \in Seq(Closed)
  <2>1. es = [i \in 1..1 |-> [strategy |-> Sole, pnl |-> p, first |-> i = 1]]
    BY <1>1
  <2>2. \A i \in 1..1 : [strategy |-> Sole, pnl |-> p, first |-> i = 1] \in Closed
    <3> SUFFICES ASSUME NEW i \in 1..1 PROVE [strategy |-> Sole, pnl |-> p, first |-> i = 1] \in Closed
      OBVIOUS
    <3>1. (i = 1) = TRUE
      OBVIOUS
    <3>2. p \in Int
      OBVIOUS
    <3> QED
      BY <3>1, <3>2 DEF Closed
  <2> QED
    BY <2>1, <2>2
<1>3. queue' = queue \o es /\ open' = [open EXCEPT ![s] = FALSE] /\ up
      /\ UNCHANGED <<up, engine, row, loading, left, streak, ban, lost, loaded>>
  BY DEF Close, history
<1> HIDE DEF es
<1>4. queue' \in Seq(Closed)
  BY <1>2, <1>3, ConcatProperties DEF Counted, Alone
<1>5. Known' = Known /\ Row' = Row /\ open' = [t \in {Sole} |-> open'[Sole]]
  BY <1>1, <1>3 DEF Known, Row, Counted, Alone
<1>6. Alone'
  BY <1>3, <1>4, <1>5 DEF Counted, Alone
<1>7. Remembers' /\ SumsUp'
  BY <1>3, <1>5 DEF Counted, Remembers, SumsUp
<1> QED
  BY <1>6, <1>7 DEF Counted

LEMMA HandleKeeps ==
  ASSUME TakesTurns, Counted, Handle
  PROVE  Counted'
<1>1. PICK e : e = Head(queue) /\ e \in Closed /\ Tail(queue) \in Seq(Closed)
  BY HeadTailProperties DEF Handle, Counted, Alone
<1>2. e.strategy = Sole /\ e.first = TRUE /\ e.pnl \in Int
  BY <1>1 DEF Closed
<1>3. Head(left) = Sole /\ left = Order /\ Len(left) = 1
  BY Lone DEF Counted, Alone
<1>4. loading[Sole] = {}
  BY Lone DEF Handle, TakesTurns
<1>5. PICK k : k = RecordTrade(Known, e.pnl)
  OBVIOUS
<1>6. PICK n : n = IF e.pnl >= 0 THEN 0
                   ELSE IF streak[Sole] < MaxConsecutiveLosses THEN streak[Sole] + 1 ELSE streak[Sole]
  OBVIOUS
<1>7. up /\ Known.losses = streak[Sole] /\ Known.cooldown = ban[Sole]
  BY DEF Handle, Counted, Remembers
<1>8. /\ k \in Memory /\ k.today = TRUE
      /\ k.losses = n /\ k.pnl = (IF Known.today THEN Known.pnl ELSE 0) + e.pnl
      /\ k.cooldown = IF e.pnl < 0 /\ n >= MaxConsecutiveLosses THEN CooldownHours ELSE ban[Sole]
  <2>1. Known \in Memory
    BY DEF Counted, Alone
  <2>2. Learns(Known, e.pnl, k)
    BY <1>2, <1>5, <2>1, Recorded
  <2>3. k.losses = n
    BY <1>6, <1>7, <2>2 DEF Learns
  <2> QED
    BY <1>7, <2>2, <2>3 DEF Learns
<1>9. engine' = [engine EXCEPT ![Sole][Sole] = k] /\ row' = [row EXCEPT ![Sole] = Saved(k)]
      /\ Count(Sole, e.pnl) /\ left' = Order /\ queue' = Tail(queue) /\ UNCHANGED <<up, loading, open>>
  <2>1. engine' = [engine EXCEPT ![Sole][Sole] = k]
    BY <1>1, <1>2, <1>3, <1>5 DEF Handle, Known
  <2>2. row' = [row EXCEPT ![Sole] = Saved(k)] /\ Count(Sole, e.pnl)
    BY <1>1, <1>2, <1>3, <1>5 DEF Handle, Known
  <2>3. left' = Order /\ queue' = Tail(queue) /\ UNCHANGED <<up, loading, open>>
    BY <1>3 DEF Handle
  <2> QED
    BY <2>1, <2>2, <2>3
<1>10. engine' = [m \in {Sole} |-> [s \in {Sole} |-> k]] /\ Known' = k
  <2>1. PICK a : engine = [m \in {Sole} |-> [s \in {Sole} |-> a]]
    BY DEF Counted, Alone
  <2>2. engine' = [m \in {Sole} |-> [s \in {Sole} |-> k]] /\ engine'[Sole][Sole] = k
    BY <1>9, <2>1, Replaced
  <2> QED
    BY <2>2 DEF Known, Sole
<1>11. row' = [s \in {Sole} |-> Saved(k)] /\ Row' = Saved(k)
  BY <1>9 DEF Counted, Alone, Row
<1>12. Saved(k) = [losses |-> k.losses, pnl |-> k.pnl, cooldown |-> k.cooldown]
  BY DEF Saved
<1>13. /\ streak' = [streak EXCEPT ![Sole] = n]
       /\ ban' = [ban EXCEPT ![Sole] = IF e.pnl < 0 /\ n >= MaxConsecutiveLosses THEN CooldownHours ELSE @]
       /\ lost' = [lost EXCEPT ![Sole] = @ + e.pnl] /\ loaded' = loaded
  BY <1>6, <1>9 DEF Count
<1>14. /\ streak' = [s \in {Sole} |-> streak'[Sole]] /\ streak'[Sole] = n
       /\ ban' = [s \in {Sole} |-> ban'[Sole]] /\ ban'[Sole] = k.cooldown
       /\ lost' = [s \in {Sole} |-> lost'[Sole]] /\ lost'[Sole] = lost[Sole] + e.pnl
  BY <1>8, <1>13 DEF Counted, Alone
<1>a. Known' \in Memory /\ engine' = [m \in {Sole} |-> [s \in {Sole} |-> Known']]
  BY <1>8, <1>10
<1>b. row' = [s \in {Sole} |-> Row'] /\ Row' \in Entry
  BY <1>8, <1>11, <1>12 DEF Memory, Entry
<1>c. loading' = [s \in {Sole} |-> loading'[Sole]] /\ loading'[Sole] = {} /\ up' = TRUE
      /\ loaded' = [s \in {Sole} |-> loaded'[Sole]] /\ loaded'[Sole] \in BOOLEAN
      /\ open' = [s \in {Sole} |-> open'[Sole]] /\ left' = Order /\ queue' \in Seq(Closed)
  BY <1>1, <1>4, <1>7, <1>9, <1>13 DEF Counted, Alone
<1>15. Alone'
  BY <1>14, <1>a, <1>b, <1>c DEF Alone
<1>16. Remembers'
  BY <1>8, <1>10, <1>11, <1>12, <1>14 DEF Remembers
<1>17. SumsUp'
  BY <1>7, <1>8, <1>9, <1>10, <1>13, <1>14 DEF Counted, SumsUp
<1> QED
  BY <1>15, <1>16, <1>17 DEF Counted

LEMMA HoursKeep ==
  ASSUME TakesTurns, Counted, Hour
  PROVE  Counted'
<1>1. /\ UNCHANGED <<up, open, queue, left, streak>>
      /\ engine' = [m \in {Sole} |-> [s \in {Sole} |->
                      [engine[m][s] EXCEPT !.cooldown = Down(@), !.today = @ /\ hour' # 0]]]
      /\ row' = [s \in {Sole} |-> [row[s] EXCEPT !.cooldown = Down(@)]]
      /\ loading' = [s \in {Sole} |-> {[r EXCEPT !.cooldown = Down(@)] : r \in loading[s]}]
      /\ ban' = [s \in {Sole} |-> Down(ban[s])]
      /\ lost' = [s \in {Sole} |-> IF hour' = 0 THEN 0 ELSE lost[s]]
      /\ loaded' = [s \in {Sole} |-> loaded[s] /\ hour' # 0]
  BY Lone DEF Hour
<1>2. Known \in Memory /\ Row \in Entry /\ loading[Sole] \subseteq {Row} /\ Alone
  BY DEF Counted, Alone
<1>3. \A n \in Int : Down(n) \in Int
  BY DEF Down
<1>4. PICK k : k = [Known EXCEPT !.cooldown = Down(@), !.today = @ /\ hour' # 0]
  OBVIOUS
<1>5. /\ k \in Memory /\ k.losses = Known.losses /\ k.cooldown = Down(Known.cooldown)
      /\ k.pnl = Known.pnl /\ k.today = (Known.today /\ hour' # 0)
  <2> DEFINE f == [Known EXCEPT !.cooldown = Down(@)]
  <2>1. /\ f \in Memory /\ f.losses = Known.losses /\ f.pnl = Known.pnl
        /\ f.cooldown = Down(Known.cooldown) /\ f.today = Known.today
    BY <1>2, <1>3 DEF Memory
  <2>2. k = [f EXCEPT !.today = @ /\ hour' # 0]
    BY <1>4
  <2> HIDE DEF f
  <2> QED
    BY <2>1, <2>2 DEF Memory
<1>6. PICK r : r = [Row EXCEPT !.cooldown = Down(@)]
  OBVIOUS
<1>7. r \in Entry /\ r.losses = Row.losses /\ r.cooldown = Down(Row.cooldown)
  BY <1>2, <1>3, <1>6 DEF Entry
<1>8. engine' = [m \in {Sole} |-> [s \in {Sole} |-> k]]
  BY <1>1, <1>4 DEF Known
<1>9. Known' = k /\ engine' = [m \in {Sole} |-> [s \in {Sole} |-> Known']]
  BY <1>8 DEF Known, Sole
<1>10. row' = [s \in {Sole} |-> r]
  BY <1>1, <1>6 DEF Row
<1>11. Row' = r /\ row' = [s \in {Sole} |-> Row']
  BY <1>10 DEF Row, Sole
<1>12. /\ loading' = [s \in {Sole} |-> loading'[Sole]] /\ loading'[Sole] \subseteq {r}
       /\ loading[Sole] = {} => loading'[Sole] = {}
  BY <1>1, <1>2, <1>6
<1>13. /\ ban' = [s \in {Sole} |-> ban'[Sole]] /\ ban'[Sole] = Down(ban[Sole])
       /\ lost' = [s \in {Sole} |-> lost'[Sole]] /\ lost'[Sole] = (IF hour' = 0 THEN 0 ELSE lost[Sole])
       /\ loaded' = [s \in {Sole} |-> loaded'[Sole]] /\ loaded'[Sole] = (loaded[Sole] /\ hour' # 0)
  BY <1>1
<1>14. loaded'[Sole] \in BOOLEAN
  BY <1>13
<1>15. /\ streak' = [s \in {Sole} |-> streak'[Sole]] /\ open' = [s \in {Sole} |-> open'[Sole]]
       /\ up' \in BOOLEAN /\ left' = Order /\ queue' \in Seq(Closed)
       /\ ~up' => loading'[Sole] = {} /\ queue' = <<>>
  BY <1>1, <1>2, <1>12 DEF Alone
<1>16. Alone'
  BY <1>5, <1>7, <1>9, <1>11, <1>12, <1>13, <1>14, <1>15 DEF Alone
<1>17. Remembers'
  BY <1>1, <1>5, <1>7, <1>9, <1>11, <1>13 DEF Counted, Remembers
<1>18. SumsUp'
  BY <1>1, <1>5, <1>9, <1>13 DEF Counted, SumsUp
<1> QED
  BY <1>16, <1>17, <1>18 DEF Counted

(* A row is taken over: the manager then knows what the row says.           *)
LEMMA TakenOver ==
  ASSUME NEW e \in Memory, NEW r \in Entry, NEW k, k = Loaded(e, r)
  PROVE  /\ k \in Memory /\ k.losses = r.losses /\ k.pnl = r.pnl /\ k.cooldown = r.cooldown
         /\ k.today = e.today
<1> DEFINE f == [e EXCEPT !.losses = r.losses]
           g == [f EXCEPT !.pnl = r.pnl]
<1>1. r.losses \in Int /\ r.pnl \in Int /\ r.cooldown \in Int
  BY DEF Entry
<1>2. f \in Memory /\ f.losses = r.losses /\ f.today = e.today
  BY <1>1 DEF Memory
<1>3. k = [g EXCEPT !.cooldown = r.cooldown]
  BY DEF Loaded
<1> HIDE DEF f
<1>4. g \in Memory /\ g.losses = r.losses /\ g.pnl = r.pnl /\ g.today = e.today
  BY <1>1, <1>2 DEF Memory
<1> HIDE DEF g
<1> QED
  BY <1>1, <1>3, <1>4 DEF Memory

LEMMA StartsKeep ==
  ASSUME TakesTurns, Counted, NEW s \in Strategies, LoadRead(s) \/ LoadTake(s)
  PROVE  Counted'
<1>1. s = Sole /\ Alone
  BY Lone DEF Counted
<1>2. CASE LoadRead(s)
  <2>1. /\ up /\ loading' = [loading EXCEPT ![Sole] = {Row}]
        /\ UNCHANGED <<up, engine, row, open, queue, left, streak, ban, lost, loaded>>
    BY <1>1, <1>2 DEF LoadRead, history, Row
  <2>2. Known' = Known /\ Row' = Row
    BY <2>1 DEF Known, Row
  <2>3. loading' = [t \in {Sole} |-> loading'[Sole]] /\ loading'[Sole] = {Row}
    BY <1>1, <2>1 DEF Alone
  <2>4. Alone'
    BY <1>1, <2>1, <2>2, <2>3 DEF Alone
  <2> QED
    BY <2>1, <2>2, <2>4 DEF Counted, Remembers, SumsUp
<1>3. CASE LoadTake(s)
  <2>1. PICK r \in loading[Sole] : engine' = [engine EXCEPT ![Sole][Sole] = Loaded(@, r)]
    BY <1>1, <1>3 DEF LoadTake
  <2>2. /\ up /\ loading' = [loading EXCEPT ![Sole] = {}] /\ loaded' = [loaded EXCEPT ![Sole] = TRUE]
        /\ UNCHANGED <<up, row, open, queue, left, streak, ban, lost>>
    BY <1>1, <1>3 DEF LoadTake
  <2>3. r = Row /\ Known \in Memory /\ Row \in Entry
    BY <1>1 DEF Alone
  <2>4. PICK k : k = Loaded(Known, r)
    OBVIOUS
  <2>5. k \in Memory /\ k.losses = Row.losses /\ k.cooldown = Row.cooldown
    BY <2>3, <2>4, TakenOver
  <2>6. PICK f, g, a : f = engine /\ g = engine' /\ a = Known
    OBVIOUS
  <2>7. f = [m \in {Sole} |-> [t \in {Sole} |-> a]] /\ g = [f EXCEPT ![Sole][Sole] = k]
    BY <1>1, <2>1, <2>4, <2>6 DEF Alone, Known
  <2>8. g = [m \in {Sole} |-> [t \in {Sole} |-> k]] /\ g[Sole][Sole] = k
    BY <2>7, Replaced
  <2>9. Known' = k /\ engine' = [m \in {Sole} |-> [t \in {Sole} |-> Known']]
    BY <2>6, <2>8 DEF Known, Sole
  <2>10. Row' = Row
    BY <2>2 DEF Row
  <2>11. /\ loading' = [t \in {Sole} |-> loading'[Sole]] /\ loading'[Sole] = {}
         /\ loaded' = [t \in {Sole} |-> loaded'[Sole]] /\ loaded'[Sole] = TRUE
    BY <1>1, <2>2 DEF Alone
  <2>12. Alone'
    BY <1>1, <2>2, <2>5, <2>9, <2>10, <2>11 DEF Alone
  <2> QED
    BY <2>2, <2>5, <2>9, <2>10, <2>11, <2>12 DEF Counted, Remembers, SumsUp
<1> QED
  BY <1>2, <1>3

LEMMA ProcessesKeep ==
  ASSUME TakesTurns, Counted, Boot \/ Crash
  PROVE  Counted'
<1>1. Alone
  BY DEF Counted
<1>2. Fresh \in Memory
  BY DEF Fresh, Memory
<1>3. CASE Boot
  <2>1. /\ ~up /\ up' = TRUE
        /\ loaded' = [s \in {Sole} |-> TRUE]
        /\ engine' = [m \in {Sole} |-> [s \in {Sole} |-> IF m = s THEN Loaded(Fresh, row[s]) ELSE Fresh]]
        /\ UNCHANGED <<row, loading, open, queue, left, streak, ban, lost>>
    BY <1>3, Lone DEF Boot
  <2>2. PICK k : k = Loaded(Fresh, Row)
    OBVIOUS
  <2>3. k \in Memory /\ k.losses = Row.losses /\ k.cooldown = Row.cooldown
    BY <1>1, <1>2, <2>2, TakenOver DEF Alone
  <2>4. engine' = [m \in {Sole} |-> [s \in {Sole} |-> k]]
    BY <2>1, <2>2 DEF Row
  <2>5. Known' = k /\ engine' = [m \in {Sole} |-> [s \in {Sole} |-> Known']]
    BY <2>4 DEF Known, Sole
  <2>6. Row' = Row /\ loaded' = [s \in {Sole} |-> loaded'[Sole]] /\ loaded'[Sole] = TRUE
    BY <2>1 DEF Row
  <2>7. Alone'
    BY <1>1, <2>1, <2>3, <2>5, <2>6 DEF Alone
  <2> QED
    BY <2>1, <2>3, <2>5, <2>6, <2>7 DEF Counted, Remembers, SumsUp
<1>4. CASE Crash
  <2>1. /\ up' = FALSE
        /\ engine' = [m \in {Sole} |-> [s \in {Sole} |-> Fresh]]
        /\ loading' = [s \in {Sole} |-> {}] /\ queue' = <<>> /\ left' = Order
        /\ UNCHANGED <<row, open, streak, ban, lost, loaded>>
    BY <1>4, Lone DEF Crash, history
  <2>2. Known' = Fresh /\ engine' = [m \in {Sole} |-> [s \in {Sole} |-> Known']]
    BY <2>1 DEF Known, Sole
  <2>3. Row' = Row /\ loading' = [s \in {Sole} |-> loading'[Sole]] /\ loading'[Sole] = {}
    BY <2>1 DEF Row
  <2>4. queue' \in Seq(Closed)
    BY <2>1, EmptySeq
  <2>5. Alone'
    BY <1>1, <1>2, <2>1, <2>2, <2>3, <2>4 DEF Alone
  <2> QED
    BY <2>1, <2>3, <2>5 DEF Counted, Remembers, SumsUp
<1> QED
  BY <1>3, <1>4

LEMMA CountedStarts == ASSUME TakesTurns PROVE RiskInit => Counted
<1> SUFFICES ASSUME RiskInit PROVE Counted
  OBVIOUS
<1>1. /\ up = FALSE /\ engine = [m \in {Sole} |-> [s \in {Sole} |-> Fresh]]
      /\ row = [s \in {Sole} |-> NoRow] /\ loading = [s \in {Sole} |-> {}]
      /\ open = [s \in {Sole} |-> FALSE] /\ queue = <<>> /\ left = Order
      /\ streak = [s \in {Sole} |-> 0] /\ ban = [s \in {Sole} |-> 0]
      /\ lost = [s \in {Sole} |-> 0] /\ loaded = [s \in {Sole} |-> FALSE]
  BY Lone DEF RiskInit
<1>2. Known = Fresh /\ Fresh \in Memory /\ Row = NoRow /\ NoRow \in Entry
      /\ NoRow.losses = 0 /\ NoRow.cooldown = 0
  BY <1>1 DEF Known, Row, Fresh, NoRow, Memory, Entry
<1>3. queue \in Seq(Closed)
  BY <1>1, EmptySeq
<1>4. Alone
  BY <1>1, <1>2, <1>3 DEF Alone
<1> QED
  BY <1>1, <1>2, <1>4 DEF Counted, Remembers, SumsUp

LEMMA CountedStep ==
  ASSUME TakesTurns, Counted, [RiskNext]_riskVars
  PROVE  Counted'
<1>1. ASSUME NEW s \in Strategies, BuyPasses(s) \/ BuyFails(s) PROVE Counted'
  <2>1. s = Sole /\ open = [t \in {Sole} |-> open[Sole]]
    BY Lone DEF Counted, Alone
  <2>2. /\ up /\ engine' = [engine EXCEPT ![Sole][Sole] = DailyReset(@)]
        /\ UNCHANGED <<up, hour, row, loading, queue, left, history>>
        /\ open' = [open EXCEPT ![Sole] = TRUE] \/ open' = open
    BY <1>1, <2>1 DEF BuyPasses, BuyFails
  <2>3. open' = [t \in {Sole} |-> open'[Sole]]
    BY <2>1, <2>2
  <2> QED
    BY <2>2, <2>3, Decides
<1>2. ASSUME UNCHANGED riskVars PROVE Counted'
  <2>1. UNCHANGED <<up, engine, row, loading, open, queue, left, streak, ban, lost, loaded>>
    BY <1>2 DEF riskVars, history
  <2>2. Known' = Known /\ Row' = Row
    BY <2>1 DEF Known, Row
  <2> QED
    BY <2>1, <2>2 DEF Counted, Alone, Remembers, SumsUp
<1> QED
  BY <1>1, <1>2, ClosesKeep, HandleKeeps, HoursKeep, StartsKeep, ProcessesKeep DEF RiskNext

LEMMA AlwaysCounted == ASSUME TakesTurns PROVE RiskSpec => []Counted
BY CountedStarts, CountedStep, PTL DEF RiskSpec

(* A BUY that is let through: what its manager knew.                        *)
LEMMA LetThrough ==
  ASSUME TakesTurns, Counted, [RiskNext]_riskVars, NEW s \in Strategies, ~open[s] /\ open'[s]
  PROVE  s = Sole /\ up /\ Known \in Memory /\ MayBuy(Known)
<1>1. s = Sole /\ open = [t \in {Sole} |-> open[Sole]] /\ Known \in Memory
  BY Lone DEF Counted, Alone
<1>2. ~UNCHANGED open
  OBVIOUS
<1>3. ~Handle /\ ~Hour /\ ~Boot /\ ~Crash /\ ~UNCHANGED riskVars
  BY <1>2 DEF Handle, Hour, Boot, Crash, riskVars
<1>4. ASSUME NEW t \in Strategies, BuyFails(t) \/ LoadRead(t) \/ LoadTake(t) PROVE FALSE
  BY <1>2, <1>4 DEF BuyFails, LoadRead, LoadTake
<1>5. ASSUME NEW t \in Strategies, NEW p \in {-1, 1}, Close(t, p) PROVE FALSE
  <2>1. t = Sole /\ open' = [open EXCEPT ![Sole] = FALSE]
    BY <1>5, Lone DEF Close
  <2> QED
    BY <1>1, <2>1
<1>6. PICK t \in Strategies : BuyPasses(t)
  BY <1>3, <1>4, <1>5 DEF RiskNext
<1> QED
  BY <1>1, <1>6, Lone DEF BuyPasses, Known

(* For one strategy whose start() does not overlap the bus, every limit of *)
(* losses, every cooldown and any crashes and restarts: no BUY is let      *)
(* through within the cooldown of a loss that was the limit's or a later   *)
(* one (RiskEngine.evaluate_buy, RiskManager.load_state, save_state).      *)
THEOREM BanAlwaysObeyed == ASSUME TakesTurns PROVE RiskSpec => BanObeyed
<1>1. Counted /\ [RiskNext]_riskVars => [\A s \in Strategies : ~open[s] /\ open'[s] => ban[s] = 0]_riskVars
  <2> SUFFICES ASSUME Counted, [RiskNext]_riskVars, NEW s \in Strategies, ~open[s] /\ open'[s]
               PROVE  ban[s] = 0
    OBVIOUS
  <2>1. s = Sole /\ up /\ Known \in Memory /\ MayBuy(Known)
    BY LetThrough
  <2>2. DailyReset(Known).cooldown = Known.cooldown /\ DailyReset(Known).cooldown = 0
    BY <2>1, Noticed DEF MayBuy
  <2> QED
    BY <2>1, <2>2 DEF Counted, Remembers
<1> QED
  BY <1>1, AlwaysCounted, PTL DEF RiskSpec, BanObeyed

(* For the same strategy: no BUY is let through once the trades of a day   *)
(* on which the row was not loaded have lost the limit                     *)
(* (RiskEngine.evaluate_buy, _ensure_daily_reset, record_trade_result).    *)
THEOREM LimitAlwaysObeyed == ASSUME TakesTurns PROVE RiskSpec => LimitObeyed
<1>1. Counted /\ [RiskNext]_riskVars =>
        [\A s \in Strategies : ~open[s] /\ open'[s] /\ ~loaded[s] => -lost[s] < DailyLimit]_riskVars
  <2> SUFFICES ASSUME Counted, [RiskNext]_riskVars, NEW s \in Strategies, ~open[s] /\ open'[s], ~loaded[s]
               PROVE  -lost[s] < DailyLimit
    OBVIOUS
  <2>1. s = Sole /\ up /\ Known \in Memory /\ MayBuy(Known)
    BY LetThrough
  <2>2. /\ DailyReset(Known).pnl = IF Known.today THEN Known.pnl ELSE 0
        /\ -DailyReset(Known).pnl < DailyLimit
    BY <2>1, Noticed DEF MayBuy
  <2>3. IF Known.today THEN Known.pnl = lost[Sole] ELSE lost[Sole] = 0
    BY <2>1 DEF Counted, SumsUp
  <2>4. DailyReset(Known).pnl = lost[Sole]
    BY <2>2, <2>3
  <2> QED
    BY <2>1, <2>2, <2>4
<1> QED
  BY <1>1, AlwaysCounted, PTL DEF RiskSpec, LimitObeyed
=============================================================================
