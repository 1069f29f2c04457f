------------------------ MODULE RegimeSwitch_proofs ------------------------
(***************************************************************************)
(* What holds of regime switches for every set of regimes and prices and   *)
(* for every debounce and cooldown.                                        *)
(***************************************************************************)
EXTENDS RegimeSwitch, TLAPS

\* What the manager counts: its detections of the pending regime are the latest ones, and
\* it counts only when the cooldown of the last switch is over.
Counting ==
    /\ market \in Regimes
    /\ count \in 0 .. Debounce - 1 /\ pending \in Regimes \cup {None}
    /\ pending = None <=> count = 0
    /\ since \in 0 .. Cooldown
    /\ run.length \in 0 .. Debounce
    /\ count > 0 => since = Cooldown /\ run.of = pending /\ run.length >= count

\* A step that leaves alone what the manager counts, and the market.
Elsewhere == UNCHANGED <<market, regime, pending, count, since, run>>

LEMMA MinOfTwo == \A a, b \in Int : Min({a, b}) = IF a <= b THEN a ELSE b
<1> SUFFICES ASSUME NEW a \in Int, NEW b \in Int PROVE Min({a, b}) = IF a <= b THEN a ELSE b
  OBVIOUS
<1> DEFINE m == IF a <= b THEN a ELSE b
<1>1. m \in {a, b} /\ \A y \in {a, b} : m <= y
  OBVIOUS
<1>2. \A x \in {a, b} : (\A y \in {a, b} : x <= y) => x = m
  OBVIOUS
<1> QED
  BY <1>1, <1>2 DEF Min

\* What detection r does to the history of detections.
LEMMA DetectedRun ==
  ASSUME Counting, NEW r \in Regimes, Detected(r)
  PROVE  /\ run'.of = r /\ run'.length \in 0 .. Debounce
         /\ r = run.of /\ run.length + 1 < Debounce => run'.length = run.length + 1
         /\ r = run.of /\ run.length + 1 >= Debounce => run'.length = Debounce
         /\ run'.length >= 1
<1>1. Debounce \in Nat \ {0} /\ run.length \in 0 .. Debounce
  BY SwitchAssumption DEF Counting
<1>2. Min({run.length + 1, Debounce}) = IF run.length + 1 <= Debounce THEN run.length + 1 ELSE Debounce
  BY <1>1, MinOfTwo
<1>3. run'.of = r /\ run'.length = IF r = run.of THEN Min({run.length + 1, Debounce}) ELSE 1
  BY DEF Detected
<1> QED
  BY <1>1, <1>2, <1>3

\* A detection that approves no switch.
LEMMA CountingDetect ==
  ASSUME Counting, Detect
  PROVE  Counting' /\ regime' = regime
<1> USE SwitchAssumption
<1>0. market' = market /\ market \in Regimes /\ Detected(market)
  BY DEF Detect, Counting, world
<1>1. /\ run'.of = market /\ run'.length \in 0 .. Debounce /\ run'.length >= 1
      /\ market = run.of /\ run.length + 1 < Debounce => run'.length = run.length + 1
      /\ market = run.of /\ run.length + 1 >= Debounce => run'.length = Debounce
  BY <1>0, DetectedRun
<1>2. CASE Same(market)
  BY <1>0, <1>1, <1>2 DEF Same, Counting
<1>3. CASE CoolingDown(market)
  <2>1. count = 0
    BY <1>3 DEF CoolingDown, InCooldown, Counting
  <2> QED
    BY <1>0, <1>1, <1>3, <2>1 DEF CoolingDown, Counting
<1>4. CASE Debouncing(market)
  <2>1. since = Cooldown
    BY <1>4 DEF Debouncing, InCooldown, Counting
  <2>2. Counted(market) \in 1 .. Debounce - 1 /\ run'.length >= Counted(market)
    BY <1>1, <1>4 DEF Debouncing, Counted, Counting
  <2>3. market # None
    BY <1>0
  <2> QED
    BY <1>0, <1>1, <1>4, <2>1, <2>2, <2>3 DEF Debouncing, Counting
<1> QED
  BY <1>2, <1>3, <1>4 DEF Detect

\* A detection that approves a switch.
LEMMA CountingSwitched ==
  ASSUME Counting, Detected(market), Switched(market), UNCHANGED market
  PROVE  /\ Counting'
         /\ run' = [of |-> regime', length |-> Debounce]
         /\ since = Cooldown
<1> USE SwitchAssumption
<1>0. market \in Regimes
  BY DEF Counting
<1>1. /\ run'.of = market /\ run'.length \in 0 .. Debounce /\ run'.length >= 1
      /\ market = run.of /\ run.length + 1 < Debounce => run'.length = run.length + 1
      /\ market = run.of /\ run.length + 1 >= Debounce => run'.length = Debounce
  BY <1>0, DetectedRun
<1>2. since = Cooldown
  BY DEF Switched, InCooldown, Counting
<1>3. run'.length = Debounce
  <2>1. CASE market = pending /\ count > 0
    BY <1>0, <1>1, <2>1 DEF Switched, Counted, Counting
  <2>2. CASE ~(market = pending /\ count > 0)
    BY <1>0, <1>1, <2>2 DEF Switched, Counted, Counting
  <2> QED
    BY <2>1, <2>2
<1>4. run' = [of |-> market, length |-> run'.length]
  BY DEF Detected
<1> QED
  BY <1>0, <1>1, <1>2, <1>3, <1>4 DEF Switched, Counting

LEMMA CountingStep ==
  ASSUME Counting, [Next]_vars
  PROVE  /\ Counting'
         /\ regime' # regime => /\ run' = [of |-> regime', length |-> Debounce]
                                /\ since = Cooldown
<1>1. CASE Detect
  BY <1>1, CountingDetect
<1>2. CASE SwitchFlat \/ SwitchClose \/ SwitchDefer
  <2>1. Detected(market) /\ Switched(market) /\ UNCHANGED market
    BY <1>2 DEF SwitchFlat, SwitchClose, SwitchDefer, world
  <2> QED
    BY <2>1, CountingSwitched
<1>3. CASE Time
  BY <1>3, SwitchAssumption DEF Time, world, Counting
<1>4. CASE Market
  BY <1>4 DEF Market, manager, Counting
<1>5. CASE Elsewhere
  BY <1>5 DEF Elsewhere, manager, Counting
<1>6. [Next]_vars => Detect \/ (SwitchFlat \/ SwitchClose \/ SwitchDefer) \/ Time \/ Market \/ Elsewhere
  BY DEF Next, vars, Elsewhere, world, manager, DetectNothing, CloseEnds, CloseRaises, DeferEnds, DeferRaises, PublishTick, Buy,
         OnBought, OnSold, OnSoldRaises, OnTick, OnTickRaises, StopSells, StopFails, OnClosed, DeferredActive,
         ApiSwitch, Move, Sell
<1> QED
  BY <1>1, <1>2, <1>3, <1>4, <1>5, <1>6

\* For every debounce, cooldown and set of regimes: a switch is the answer to Debounce
\* detections in a row of the same regime, the last detections there were, and comes a
\* whole cooldown after the switch before it (RegimeSwitchManager.evaluate).
THEOREM SwitchesAreDebounced == Spec => SwitchIsDebounced
<1>1. Init => Counting
  BY SwitchAssumption DEF Init, Counting
<1>2. Counting /\ [Next]_vars => Counting'
  BY CountingStep
<1>3. Counting /\ [Next]_vars =>
        [regime' # regime =>
           /\ run' = [of |-> regime', length |-> Debounce]
           /\ since = Cooldown]_vars
  BY CountingStep
<1> QED
  BY <1>1, <1>2, <1>3, PTL DEF Spec, SwitchIsDebounced

-----------------------------------------------------------------------------

Msg == [kind : {"bought", "tick", "sold", "stop", "closed"}, at : Nat]

\* What travels on the bus: a purchase while the lot is held and nothing is open, a sale
\* while a position is open whose lot is gone, and the news of a close before any purchase.
Bus(q, p, h) ==
    /\ q \in Seq(Msg) /\ p \in Prices \cup {0} /\ h \in BOOLEAN
    /\ \A i \in DOMAIN q :
         /\ q[i].kind = "bought" => h = TRUE /\ p = 0 /\ q[i].at \in Prices
         /\ q[i].kind = "sold" => h = FALSE /\ p # 0
         /\ q[i].kind = "closed" => p = 0
         /\ \A j \in DOMAIN q : q[i].kind \in {"bought", "sold"} /\ q[j].kind = q[i].kind => j = i
         /\ \A j \in DOMAIN q : q[i].kind = "bought" /\ q[j].kind = "closed" => j < i

LEMMA Appended ==
  ASSUME NEW q \in Seq(Msg), NEW e \in Msg
  PROVE  /\ Append(q, e) \in Seq(Msg) /\ DOMAIN Append(q, e) = 1 .. Len(q) + 1
         /\ \A i \in DOMAIN q : Append(q, e)[i] = q[i]
         /\ Append(q, e)[Len(q) + 1] = e
         /\ DOMAIN q = 1 .. Len(q) /\ Len(q) \in Nat
  OBVIOUS

LEMMA Removed ==
  ASSUME NEW q \in Seq(Msg), q # <<>>
  PROVE  /\ Tail(q) \in Seq(Msg) /\ DOMAIN Tail(q) = 1 .. Len(q) - 1
         /\ \A i \in DOMAIN Tail(q) : Tail(q)[i] = q[i + 1] /\ i + 1 \in DOMAIN q
         /\ Head(q) = q[1] /\ 1 \in DOMAIN q
         /\ DOMAIN q = 1 .. Len(q) /\ Len(q) \in Nat
  OBVIOUS

\* The first event is handled, and leaves position and account alone.
Handled(q, p, h) ==
    /\ Bus(Tail(q), p, h) /\ Head(q) \in Msg
    /\ Head(q).kind \in {"bought", "sold"} =>
          \A i \in DOMAIN Tail(q) : Tail(q)[i].kind \notin {"bought", "sold", "closed"}
    /\ Head(q).kind = "bought" => h = TRUE /\ p = 0 /\ Head(q).at \in Prices
    /\ Head(q).kind = "sold" => h = FALSE /\ p # 0
    /\ Head(q).kind = "closed" => p = 0

LEMMA BusTail ==
  ASSUME NEW q, NEW p, NEW h, Bus(q, p, h), q # <<>>
  PROVE  Handled(q, p, h)
<1>1. q \in Seq(Msg)
  BY DEF Bus
<1>2. /\ Tail(q) \in Seq(Msg) /\ DOMAIN Tail(q) = 1 .. Len(q) - 1
      /\ \A i \in DOMAIN Tail(q) : Tail(q)[i] = q[i + 1] /\ i + 1 \in DOMAIN q
      /\ Head(q) = q[1] /\ 1 \in DOMAIN q
      /\ DOMAIN q = 1 .. Len(q) /\ Len(q) \in Nat
  BY <1>1, Removed
<1>3. Bus(Tail(q), p, h)
  BY <1>2 DEF Bus
<1> QED
  BY <1>1, <1>2, <1>3 DEF Handled, Bus

\* An event that is no fill and no close is published.
LEMMA BusOther ==
  ASSUME NEW q, NEW p, NEW h, Bus(q, p, h), NEW e \in Msg, e.kind \notin {"bought", "sold", "closed"}
  PROVE  Bus(Append(q, e), p, h)
<1>1. q \in Seq(Msg)
  BY DEF Bus
<1> QED
  BY <1>1, Appended DEF Bus

\* A position's lot is sold.
LEMMA BusSale ==
  ASSUME NEW q, NEW p, Bus(q, p, TRUE), p # 0
  PROVE  Bus(Append(q, Sold), p, FALSE)
<1>1. q \in Seq(Msg)
  BY DEF Bus
<1>2. Sold \in Msg /\ Sold.kind = "sold"
  BY DEF Sold, Msg
<1> QED
  BY <1>1, <1>2, Appended DEF Bus

\* The sale of a lot is the end of its position.
LEMMA BusClose ==
  ASSUME NEW q, NEW p, NEW h, Bus(q, p, h), q # <<>>, Head(q).kind = "sold"
  PROVE  /\ Bus(Append(Tail(q), [kind |-> "closed", at |-> 0]), 0, h)
         /\ \E i \in DOMAIN Append(Tail(q), [kind |-> "closed", at |-> 0]) :
               Append(Tail(q), [kind |-> "closed", at |-> 0])[i].kind = "closed"
<1> DEFINE e == [kind |-> "closed", at |-> 0]
<1>1. /\ Bus(Tail(q), p, h) /\ h = FALSE
      /\ \A i \in DOMAIN Tail(q) : Tail(q)[i].kind \notin {"bought", "sold", "closed"}
  <2>1. Handled(q, p, h)
    BY BusTail
  <2> QED
    BY <2>1 DEF Handled
<1>2. Tail(q) \in Seq(Msg)
  BY <1>1 DEF Bus
<1>3. e \in Msg /\ e.kind = "closed"
  BY DEF Msg
<1> HIDE DEF e
<1>4. /\ Append(Tail(q), e) \in Seq(Msg)
      /\ \A i \in DOMAIN Append(Tail(q), e) :
            Append(Tail(q), e)[i].kind \notin {"bought", "sold"}
      /\ \E i \in DOMAIN Append(Tail(q), e) : Append(Tail(q), e)[i].kind = "closed"
  BY <1>1, <1>2, <1>3, Appended
<1>5. Bus(Append(Tail(q), e), 0, h)
  BY <1>1, <1>4 DEF Bus
<1> QED
  BY <1>4, <1>5 DEF e

\* ... also when nobody is told.
LEMMA BusCloseLost ==
  ASSUME NEW q, NEW p, NEW h, Bus(q, p, h), q # <<>>, Head(q).kind = "sold"
  PROVE  Bus(Tail(q), 0, h)
<1>1. /\ Bus(Tail(q), p, h) /\ h = FALSE
      /\ \A i \in DOMAIN Tail(q) : Tail(q)[i].kind \notin {"bought", "sold", "closed"}
  <2>1. Handled(q, p, h)
    BY BusTail
  <2> QED
    BY <2>1 DEF Handled
<1> QED
  BY <1>1 DEF Bus

\* A lot is bought.
LEMMA BusPurchase ==
  ASSUME NEW q, Bus(q, 0, FALSE), NEW at \in Prices
  PROVE  Bus(Append(q, [kind |-> "bought", at |-> at]), 0, TRUE)
<1> DEFINE e == [kind |-> "bought", at |-> at]
<1>1. q \in Seq(Msg) /\ \A i \in DOMAIN q : q[i].kind \notin {"bought", "sold"}
  BY DEF Bus
<1>2. e \in Msg /\ e.kind = "bought" /\ e.at \in Prices
  BY SwitchAssumption DEF Msg
<1> HIDE DEF e
<1>3. Bus(Append(q, e), 0, TRUE)
  BY <1>1, <1>2, Appended DEF Bus
<1> QED
  BY <1>3 DEF e

\* The purchase is the beginning of a position.
LEMMA BusOpen ==
  ASSUME NEW q, NEW p, NEW h, Bus(q, p, h), q # <<>>, Head(q).kind = "bought"
  PROVE  Bus(Tail(q), Head(q).at, h) /\ Head(q).at # 0
<1>1. /\ Bus(Tail(q), p, h) /\ h = TRUE /\ Head(q).at \in Prices
      /\ \A i \in DOMAIN Tail(q) : Tail(q)[i].kind \notin {"bought", "sold", "closed"}
  <2>1. Handled(q, p, h)
    BY BusTail
  <2> QED
    BY <2>1 DEF Handled
<1>2. Head(q).at # 0
  BY <1>1, SwitchAssumption
<1> QED
  BY <1>1, <1>2 DEF Bus

\* What a sale that raised leaves behind.
LEMMA BusLost ==
  ASSUME NEW q, NEW p, Bus(q, p, TRUE), p # 0
  PROVE  Bus(q, p, FALSE)
  BY DEF Bus
-----------------------------------------------------------------------------

\* Account, position and bus agree; the lot that a switch is selling has its position.
Flow ==
    /\ Bus(queue, pos, held)
    /\ price \in Prices
    /\ tick = "closing" /\ held => pos # 0

\* A step of the tick or of the world that leaves account, position and bus alone.
Still == /\ UNCHANGED <<queue, pos, held>>
         /\ price' \in Prices
         /\ tick' = "closing" => tick = "closing" \/ pos # 0

\* A lot is sold, or its sale is lost with the tick.
LEMMA FlowSales ==
  ASSUME Flow, (\E sold \in BOOLEAN : CloseEnds(sold)) \/ CloseRaises \/ Sell \/ StopSells
  PROVE  Flow'
<1>1. ASSUME NEW sold \in BOOLEAN, CloseEnds(sold) PROVE Flow'
  <2>1. CASE sold
    <3>1. held = TRUE /\ pos # 0
      BY <1>1, <2>1 DEF CloseEnds, Flow, Bus
    <3>2. Bus(Append(queue, Sold), pos, FALSE)
      BY <3>1, BusSale DEF Flow
    <3>3. queue' = Append(queue, Sold) /\ pos' = pos /\ held' = FALSE /\ tick' = "publish" /\ price' = price
      BY <1>1, <2>1 DEF CloseEnds, position, world
    <3> QED
      BY <3>2, <3>3 DEF Flow
  <2>2. CASE ~sold
    <3>1. queue' = queue /\ pos' = pos /\ held' = held /\ tick' = "publish" /\ price' = price
      BY <1>1, <2>2 DEF CloseEnds, position, world, Flow, Bus
    <3> QED
      BY <3>1 DEF Flow
  <2> QED
    BY <2>1, <2>2
<1>2. CASE CloseRaises
  <2>1. held = TRUE /\ pos # 0
    BY <1>2 DEF CloseRaises, Flow, Bus
  <2>2. Bus(queue, pos, FALSE)
    BY <2>1, BusLost DEF Flow
  <2> QED
    BY <1>2, <2>2 DEF CloseRaises, position, world, Flow
<1>3. CASE Sell
  <2>1. held = TRUE /\ pos # 0
    BY <1>3 DEF Sell, Flow, Bus
  <2>2. Bus(Append(queue, Sold), pos, FALSE)
    BY <2>1, BusSale DEF Flow
  <2> QED
    BY <1>3, <2>2 DEF Sell, position, world, Flow
<1>4. CASE StopSells
  <2>1. held = TRUE /\ pos # 0 /\ queue # <<>>
    BY <1>4 DEF StopSells, Flow, Bus
  <2>2. Handled(queue, pos, held)
    BY <2>1, BusTail DEF Flow
  <2>3. Bus(Append(Tail(queue), Sold), pos, FALSE)
    BY <2>1, <2>2, BusSale DEF Handled
  <2> QED
    BY <1>4, <2>3 DEF StopSells, position, world, Flow
<1> QED
  BY <1>1, <1>2, <1>3, <1>4

\* The bus delivers an event.
LEMMA FlowHandlers ==
  ASSUME Flow, OnBought \/ OnSold \/ OnSoldRaises \/ OnTick \/ OnTickRaises \/ StopFails \/ OnClosed
  PROVE  Flow'
<1>1. queue # <<>> /\ Bus(queue, pos, held)
  BY DEF OnBought, OnSold, OnSoldRaises, OnTick, OnTickRaises, StopFails, OnClosed, Takes, Flow
<1>2. Handled(queue, pos, held)
  BY <1>1, BusTail
<1>3. CASE OnBought
  <2>1. Head(queue).kind = "bought"
    BY <1>3 DEF OnBought, Takes, Next1
  <2>2. Bus(Tail(queue), Head(queue).at, held) /\ Head(queue).at # 0
    BY <1>1, <2>1, BusOpen
  <2> QED
    BY <1>3, <2>2 DEF OnBought, Takes, Next1, world, Flow
<1>4. CASE OnSold
  <2>1. Head(queue).kind = "sold"
    BY <1>4 DEF OnSold, Next1
  <2>2. Bus(Append(Tail(queue), [kind |-> "closed", at |-> 0]), 0, held)
    BY <1>1, <2>1, BusClose
  <2>3. held = FALSE
    BY <1>2, <2>1 DEF Handled
  <2> QED
    BY <1>4, <2>2, <2>3 DEF OnSold, world, Flow
<1>5. CASE OnTick
  <2> DEFINE e == [kind |-> "stop", at |-> 0]
  <2>1. e \in Msg /\ e.kind \notin {"bought", "sold", "closed"}
    BY DEF Msg
  <2> HIDE DEF e
  <2>2. Bus(Append(Tail(queue), e), pos, held)
    BY <1>2, <2>1, BusOther DEF Handled
  <2>3. Bus(queue', pos, held)
    BY <1>2, <1>5, <2>2 DEF OnTick, Handled, e
  <2> QED
    BY <1>5, <2>3 DEF OnTick, position, world, Flow
<1>6. CASE StopFails \/ OnClosed \/ OnTickRaises
  <2>1. queue' = Tail(queue) /\ UNCHANGED <<pos, held, tick, price>>
    BY <1>6 DEF StopFails, OnClosed, OnTickRaises, Takes, position, world
  <2> QED
    BY <1>2, <2>1 DEF Handled, Flow
<1>7. CASE OnSoldRaises
  <2>1. Head(queue).kind = "sold"
    BY <1>7 DEF OnSoldRaises, Takes, Next1
  <2>2. Bus(Tail(queue), 0, held)
    BY <1>1, <2>1, BusCloseLost
  <2>3. held = FALSE
    BY <1>2, <2>1 DEF Handled
  <2> QED
    BY <1>7, <2>2, <2>3 DEF OnSoldRaises, Takes, world, Flow
<1> QED
  BY <1>3, <1>4, <1>5, <1>6, <1>7

LEMMA FlowStep ==
  ASSUME Flow, [Next]_vars
  PROVE  Flow'
<1>1. CASE Still
  BY <1>1 DEF Still, Flow
<1>2. CASE PublishTick
  <2> DEFINE e == [kind |-> "tick", at |-> price]
  <2>1. e \in Msg /\ e.kind \notin {"bought", "sold", "closed"}
    BY SwitchAssumption DEF Msg, Flow
  <2> HIDE DEF e
  <2>2. Bus(Append(queue, e), pos, held)
    BY <2>1, BusOther DEF Flow
  <2>3. Bus(queue', pos, held)
    BY <1>2, <2>2 DEF PublishTick, Flow, e
  <2> QED
    BY <1>2, <2>3 DEF PublishTick, position, world, Flow
<1>3. CASE Buy
  <2>1. pos = 0 /\ held = FALSE
    BY <1>3 DEF Buy, Flow, Bus
  <2>2. Bus(Append(queue, [kind |-> "bought", at |-> price]), 0, TRUE)
    BY <2>1, BusPurchase DEF Flow
  <2> QED
    BY <1>3, <2>1, <2>2 DEF Buy, position, world, Flow
<1>4. CASE (\E sold \in BOOLEAN : CloseEnds(sold)) \/ CloseRaises \/ Sell \/ StopSells
  BY <1>4, FlowSales
<1>5. CASE OnBought \/ OnSold \/ OnSoldRaises \/ OnTick \/ OnTickRaises \/ StopFails \/ OnClosed
  BY <1>5, FlowHandlers
<1>6. DetectNothing \/ Detect \/ SwitchFlat \/ SwitchClose \/ SwitchDefer => Still
  BY DEF DetectNothing, Detect, SwitchFlat, SwitchClose, SwitchDefer, position, world, Flow, Still
<1>7. DeferEnds \/ DeferRaises \/ DeferredActive \/ ApiSwitch \/ Market \/ Move \/ Time \/ UNCHANGED vars => Still
  BY DEF DeferEnds, DeferRaises, DeferredActive, ApiSwitch, Market, Move, Time, position, world, vars, Flow, Still
<1> QED
  BY <1>1, <1>2, <1>3, <1>4, <1>5, <1>6, <1>7 DEF Next

-----------------------------------------------------------------------------

HasClosed(q) == \E i \in DOMAIN q : q[i].kind = "closed"

\* The news of a close stays on the bus until it is handled.
LEMMA ClosedStays ==
  ASSUME NEW q \in Seq(Msg)
  PROVE  /\ \A e \in Msg : HasClosed(q) => HasClosed(Append(q, e))
         /\ \A e \in Msg : e.kind = "closed" => HasClosed(Append(q, e))
         /\ q # <<>> /\ Head(q).kind # "closed" /\ HasClosed(q) => HasClosed(Tail(q)) /\ Tail(q) \in Seq(Msg)
<1>1. \A e \in Msg : HasClosed(q) => HasClosed(Append(q, e))
  BY Appended DEF HasClosed
<1>2. \A e \in Msg : e.kind = "closed" => HasClosed(Append(q, e))
  BY Appended DEF HasClosed
<1>3. ASSUME q # <<>>, Head(q).kind # "closed", HasClosed(q)
      PROVE  HasClosed(Tail(q)) /\ Tail(q) \in Seq(Msg)
  <2>1. PICK i \in DOMAIN q : q[i].kind = "closed"
    BY <1>3 DEF HasClosed
  <2>2. i # 1 /\ i - 1 \in DOMAIN Tail(q) /\ Tail(q)[i - 1] = q[i]
    BY <1>3, <2>1
  <2> QED
    BY <1>3, <2>1, <2>2 DEF HasClosed
<1> QED
  BY <1>1, <1>2, <1>3

\* A switch that is applied late belongs to a position that is gone, and what the tick is
\* carrying out is what the manager believes in.
Settled ==
    /\ NoSwitchLost /\ preset # None
    /\ handler = "ticker" => pos = 0 /\ (Underway \/ astray \/ preset = live)
    /\ Underway /\ ~astray => preset = Decided

\* A step that changes neither presets nor position, and loses no news.
Quietly == /\ UNCHANGED <<regime, preset, live, deferPreset, pos, astray, late>>
           /\ Underway' <=> Underway
           /\ handler' = "ticker" => handler = "ticker"
           /\ HasClosed(queue) => HasClosed(queue')

LEMMA SettledQuietly ==
  ASSUME Settled, Quietly
  PROVE  Settled'
<1>1. Closes => Closes'
  BY DEF Closes, HasClosed, Quietly
<1>2. NoSwitchLost'
  BY <1>1 DEF Settled, NoSwitchLost, Quietly
<1> QED
  BY <1>2 DEF Settled, Quietly, Decided

\* The steps of a switch.
LEMMA SettledSwitch ==
  ASSUME Settled, Counting,
         SwitchFlat \/ SwitchClose \/ SwitchDefer \/ (\E sold \in BOOLEAN : CloseEnds(sold))
           \/ CloseRaises \/ DeferEnds \/ DeferRaises
  PROVE  Settled'
<1>1. CASE SwitchFlat \/ SwitchClose \/ SwitchDefer
  <2>1. preset' # None /\ preset' = PresetMap[regime']
    BY <1>1, SwitchAssumption DEF SwitchFlat, SwitchClose, SwitchDefer, Switched, Counting
  <2>2. CASE SwitchFlat
    BY <2>1, <2>2 DEF SwitchFlat, ApplyNewPreset, position, Settled, NoSwitchLost, Underway
  <2>3. CASE SwitchClose
    BY <2>1, <2>3 DEF SwitchClose, position, Settled, NoSwitchLost, Underway, Decided
  <2>4. CASE SwitchDefer
    BY <2>1, <2>4 DEF SwitchDefer, position, Settled, NoSwitchLost, Underway, Decided
  <2> QED
    BY <1>1, <2>2, <2>3, <2>4
<1>2. CASE \E sold \in BOOLEAN : CloseEnds(sold)
  BY <1>2 DEF CloseEnds, ApplyNewPreset, manager, position, Settled, NoSwitchLost, Underway
<1>3. CASE CloseRaises \/ DeferRaises
  BY <1>3 DEF CloseRaises, DeferRaises, manager, engines, position, Settled, NoSwitchLost, Underway
<1>4. CASE DeferEnds
  <2>1. /\ deferPreset' = Decided /\ UNCHANGED <<preset, live, pos, queue, handler>> /\ late' = ~Closes
        /\ astray' = (astray \/ Handling) /\ ~Underway' /\ Underway
    BY <1>4 DEF DeferEnds, manager, engines, position, Underway
  <2>2. Closes' <=> Closes
    BY <2>1 DEF Closes
  <2> QED
    BY <2>1, <2>2 DEF Settled, NoSwitchLost, Handling
<1> QED
  BY <1>1, <1>2, <1>3, <1>4

\* The API's switch.
LEMMA SettledApi ==
  ASSUME Settled, ApiSwitch
  PROVE  Settled'
<1>1. /\ preset' = live' /\ preset' \in Presets /\ UNCHANGED <<deferPreset, pos, handler, tick>>
      /\ astray' = (Underway \/ deferPreset # None)
  BY DEF ApiSwitch, deferred, position
<1>2. preset' # None
  BY <1>1, SwitchAssumption DEF Presets
<1>3. Underway' <=> Underway
  BY <1>1 DEF Underway
<1> QED
  BY <1>1, <1>2, <1>3 DEF Settled, NoSwitchLost

\* The end of a position, and what was deferred for it.
LEMMA SettledBus ==
  ASSUME Settled, Flow, OnBought \/ OnSold \/ OnSoldRaises \/ OnClosed \/ DeferredActive
  PROVE  Settled'
<1>1. CASE OnBought
  <2>1. queue # <<>> /\ Bus(queue, pos, held) /\ Head(queue).kind = "bought"
    BY <1>1 DEF OnBought, Takes, Next1, Flow
  <2>2. Head(queue).at # 0
    BY <2>1, BusOpen
  <2>3. pos' # 0 /\ handler' # "ticker" /\ UNCHANGED <<regime, preset, live, deferPreset, astray, tick>>
    BY <1>1, <2>2 DEF OnBought, Takes, Next1, manager, engines, deferred
  <2> QED
    BY <2>3 DEF Settled, NoSwitchLost, Closes, Underway, Decided
<1>2. CASE OnSold
  <2>1. queue # <<>> /\ Bus(queue, pos, held) /\ Head(queue).kind = "sold"
    BY <1>2 DEF OnSold, Next1, Flow
  <2>2. HasClosed(queue')
    BY <1>2, <2>1, BusClose DEF OnSold, HasClosed
  <2>3. handler' # "ticker" /\ UNCHANGED <<regime, preset, live, deferPreset, astray, tick>>
    BY <1>2 DEF OnSold, manager, engines, deferred, history
  <2>4. Closes'
    BY <2>2 DEF Closes, HasClosed
  <2> QED
    BY <2>3, <2>4 DEF Settled, NoSwitchLost, Underway, Decided
<1>3. CASE OnClosed
  <2>1. queue # <<>> /\ Bus(queue, pos, held) /\ Head(queue).kind = "closed"
    BY <1>3 DEF OnClosed, Takes, Next1, Flow
  <2>2. Handled(queue, pos, held)
    BY <2>1, BusTail
  <2>3. pos = 0
    BY <2>1, <2>2 DEF Handled
  <2>4. UNCHANGED <<regime, preset, deferPreset, astray, tick, pos>> /\ handler = "idle"
    BY <1>3 DEF OnClosed, Takes, manager, deferred, position
  <2>5. CASE deferPreset = None
    BY <1>3, <2>4, <2>5 DEF OnClosed, Settled, NoSwitchLost, Underway, Decided
  <2>6. CASE deferPreset # None
    BY <1>3, <2>3, <2>4, <2>6 DEF OnClosed, Settled, NoSwitchLost, Underway, Decided
  <2> QED
    BY <2>5, <2>6
<1>4. CASE DeferredActive
  BY <1>4 DEF DeferredActive, manager, position, history, Settled, NoSwitchLost, Underway, Decided
<1>5. CASE OnSoldRaises
  <2>1. late' = TRUE /\ handler' # "ticker" /\ UNCHANGED <<regime, preset, live, deferPreset, astray, tick>>
    BY <1>5 DEF OnSoldRaises, Takes, manager, engines, deferred
  <2> QED
    BY <2>1 DEF Settled, NoSwitchLost, Underway, Decided
<1> QED
  BY <1>1, <1>2, <1>3, <1>4, <1>5

LEMMA SettledStep ==
  ASSUME Settled, Flow, Counting, [Next]_vars
  PROVE  Settled'
<1>0. queue \in Seq(Msg) /\ price \in Nat
  BY SwitchAssumption DEF Flow, Bus
<1>1. CASE DetectNothing \/ Detect \/ Market \/ Move \/ Time \/ UNCHANGED vars
  <2>1. Quietly
    BY <1>1 DEF DetectNothing, Detect, Same, CoolingDown, Debouncing, Market, Move, Time, vars, world, manager,
                engines, deferred, position, history, Underway, Quietly
  <2> QED
    BY <2>1, SettledQuietly
<1>2. CASE PublishTick \/ Buy \/ Sell
  <2> DEFINE e == [kind |-> "tick", at |-> price]
             b == [kind |-> "bought", at |-> price]
  <2>1. e \in Msg /\ b \in Msg /\ Sold \in Msg
    BY <1>0 DEF Msg, Sold
  <2>2. HasClosed(queue) => HasClosed(Append(queue, e)) /\ HasClosed(Append(queue, b)) /\ HasClosed(Append(queue, Sold))
    BY <1>0, <2>1, ClosedStays
  <2>3. HasClosed(queue) => HasClosed(queue')
    BY <1>2, <2>2 DEF PublishTick, Buy, Sell
  <2>4. Quietly
    BY <1>2, <2>3 DEF PublishTick, Buy, Sell, manager, engines, deferred, position, history, Underway, Quietly
  <2> QED
    BY <2>4, SettledQuietly
<1>3. CASE OnTick \/ OnTickRaises \/ StopSells \/ StopFails
  <2> DEFINE e == [kind |-> "stop", at |-> 0]
  <2>1. e \in Msg /\ Sold \in Msg
    BY DEF Msg, Sold
  <2>2. queue # <<>> /\ Head(queue).kind # "closed"
    BY <1>3 DEF OnTick, OnTickRaises, StopSells, StopFails, Takes, Next1
  <2>3. HasClosed(queue) => HasClosed(Tail(queue)) /\ Tail(queue) \in Seq(Msg)
    BY <1>0, <2>2, ClosedStays
  <2>4. HasClosed(queue) => HasClosed(Append(Tail(queue), e)) /\ HasClosed(Append(Tail(queue), Sold))
    BY <2>1, <2>3, ClosedStays
  <2>5. HasClosed(queue) => HasClosed(queue')
    BY <1>3, <2>3, <2>4 DEF OnTick, OnTickRaises, StopSells, StopFails, Takes
  <2>6. Quietly
    BY <1>3, <2>5 DEF OnTick, OnTickRaises, StopSells, StopFails, Takes, manager, engines, deferred, position, history, Underway, Quietly
  <2> QED
    BY <2>6, SettledQuietly
<1>4. CASE SwitchFlat \/ SwitchClose \/ SwitchDefer \/ (\E sold \in BOOLEAN : CloseEnds(sold))
           \/ CloseRaises \/ DeferEnds \/ DeferRaises
  BY <1>4, SettledSwitch
<1>5. CASE OnBought \/ OnSold \/ OnSoldRaises \/ OnClosed \/ DeferredActive
  BY <1>5, SettledBus
<1>6. CASE ApiSwitch
  BY <1>6, SettledApi
<1> QED
  BY <1>1, <1>2, <1>3, <1>4, <1>5, <1>6 DEF Next

LEMMA SettledAtFirst ==
  ASSUME Init
  PROVE  Counting /\ Flow /\ Settled
<1>1. Counting
  BY SwitchAssumption DEF Init, Counting
<1>2. Bus(queue, pos, held)
  BY DEF Init, Bus
<1> QED
  BY <1>1, <1>2, SwitchAssumption DEF Init, Flow, Settled, NoSwitchLost, Underway, Presets

\* For every set of regimes and prices, however ticks, fills, closes and the API's switches
\* overlap: the preset the manager believes in is live, or waits for a position to close,
\* unless a statement of the switch failed, the API switched before it was carried out, or it
\* was deferred in the midst of a close (TradingLoop._check_regime_switch,
\* _on_position_closed, switch_strategy).
THEOREM NoSwitchIsLost == Spec => []NoSwitchLost
<1> DEFINE FInv == Counting /\ Flow /\ Settled
<1>1. Init => FInv
  BY SettledAtFirst
<1>2. FInv /\ [Next]_vars => FInv'
  BY CountingStep, FlowStep, SettledStep
<1>3. FInv => NoSwitchLost
  BY DEF Settled
<1> QED
  BY <1>1, <1>2, <1>3, PTL DEF Spec

-----------------------------------------------------------------------------

\* The engines are those of the regime whose preset is live.
Follow == dca # None => live = PresetMap[dca]

\* What is deferred is the preset of its regime; what the suspended handler still has to
\* configure is the preset it has already set.
Matched ==
    /\ deferPreset = None <=> deferRegime = None
    /\ deferRegime # None => deferPreset = PresetMap[deferRegime]
    /\ Underway => regime \in Regimes
    /\ handler \in {"idle", "ticker"}
    /\ grid \in {dca, None}
    /\ ~apart /\ handler = "idle" => Follow
    /\ ~apart /\ handler = "ticker" => IF deferRegime = None THEN Follow ELSE live = deferPreset

LEMMA MatchedSwitch ==
  ASSUME Matched, Counting,
         SwitchFlat \/ SwitchClose \/ SwitchDefer \/ (\E sold \in BOOLEAN : CloseEnds(sold))
           \/ CloseRaises \/ DeferEnds \/ DeferRaises
  PROVE  Matched'
<1>1. CASE SwitchFlat \/ SwitchClose \/ SwitchDefer
  <2>1. /\ preset' = PresetMap[regime'] /\ regime' \in Regimes /\ regime' # None
        /\ handler' = handler
    BY <1>1, SwitchAssumption DEF SwitchFlat, SwitchClose, SwitchDefer, Switched, Counting
  <2>2. CASE SwitchFlat
    <3>1. live' = preset' /\ dca' = regime' /\ grid' \in {regime', None} /\ deferPreset' = None /\ deferRegime' = None
          /\ tick' = "publish"
      BY <2>1, <2>2 DEF SwitchFlat, ApplyNewPreset, Reconfigured
    <3> QED
      BY <2>1, <3>1 DEF Matched, Follow, Underway
  <2>3. CASE SwitchClose \/ SwitchDefer
    BY <2>1, <2>3 DEF SwitchClose, SwitchDefer, engines, deferred, Matched, Follow
  <2> QED
    BY <1>1, <2>2, <2>3
<1>2. ASSUME NEW sold \in BOOLEAN, CloseEnds(sold) PROVE Matched'
  <2>1. regime \in Regimes /\ regime # None
    BY <1>2, SwitchAssumption DEF CloseEnds, Matched, Underway
  <2>2. /\ live' = PresetMap[regime] /\ dca' = regime /\ grid' \in {regime, None}
        /\ deferPreset' = None /\ deferRegime' = None
        /\ UNCHANGED <<regime, handler>> /\ tick' = "publish"
    BY <1>2, <2>1 DEF CloseEnds, ApplyNewPreset, Reconfigured, Decided, manager
  <2> QED
    BY <2>1, <2>2 DEF Matched, Follow, Underway
<1>3. CASE CloseRaises \/ DeferRaises
  BY <1>3 DEF CloseRaises, DeferRaises, manager, engines, deferred, Matched, Follow, Underway
<1>4. CASE DeferEnds
  <2>1. regime \in Regimes /\ regime # None /\ PresetMap[regime] # None
    BY <1>4, SwitchAssumption DEF DeferEnds, Matched, Underway
  <2>2. /\ deferPreset' = PresetMap[regime] /\ deferRegime' = regime /\ tick' = "publish"
        /\ UNCHANGED <<regime, handler, live, dca, grid>> /\ apart' = (apart \/ Handling)
    BY <1>4 DEF DeferEnds, Decided, manager, engines
  <2> QED
    BY <2>1, <2>2 DEF Matched, Follow, Underway, Handling
<1> QED
  BY <1>1, <1>2, <1>3, <1>4

LEMMA MatchedStep ==
  ASSUME Matched, Counting, [Next]_vars
  PROVE  Matched'
<1>1. CASE SwitchFlat \/ SwitchClose \/ SwitchDefer \/ (\E sold \in BOOLEAN : CloseEnds(sold))
           \/ CloseRaises \/ DeferEnds \/ DeferRaises
  BY <1>1, MatchedSwitch
<1>2. CASE OnClosed
  <2>1. handler = "idle" /\ UNCHANGED <<regime, deferPreset, deferRegime, tick, dca, grid>>
    BY <1>2 DEF OnClosed, Takes, manager, deferred
  <2>2. CASE deferPreset = None
    BY <1>2, <2>1, <2>2 DEF OnClosed, Matched, Follow, Underway
  <2>3. CASE deferPreset # None
    BY <1>2, <2>1, <2>3 DEF OnClosed, Matched, Follow, Underway
  <2> QED
    BY <2>2, <2>3
<1>3. CASE DeferredActive
  <2>1. PICK priced \in BOOLEAN : Reconfigured(deferRegime, priced)
    BY <1>3 DEF DeferredActive
  <2>2. /\ handler = "ticker" /\ handler' = "idle" /\ deferPreset' = None /\ deferRegime' = None
        /\ UNCHANGED <<regime, live, tick, apart>>
    BY <1>3 DEF DeferredActive, manager, history
  <2>3. CASE deferRegime = None
    BY <2>1, <2>2, <2>3 DEF Reconfigured, Matched, Follow, Underway
  <2>4. CASE deferRegime # None
    BY <2>1, <2>2, <2>4 DEF Reconfigured, Matched, Follow, Underway
  <2> QED
    BY <2>3, <2>4
<1>4. CASE ApiSwitch
  BY <1>4 DEF ApiSwitch, deferred, Matched, Follow, Underway
<1> DEFINE Apart ==
      /\ UNCHANGED <<regime, deferPreset, deferRegime, handler, apart, live, dca, grid>>
      /\ Underway' => Underway
<1>5. Apart => Matched'
  BY DEF Matched, Follow
<1>6. DetectNothing \/ Detect \/ PublishTick \/ Buy \/ Sell \/ Market \/ Move \/ Time \/ UNCHANGED vars => Apart
  BY DEF DetectNothing, Detect, Same, CoolingDown, Debouncing, PublishTick, Buy, Sell, Market, Move, Time, vars, world,
         manager, engines, deferred, history, Underway
<1>7. OnBought \/ OnSold \/ OnSoldRaises \/ OnTick \/ OnTickRaises \/ StopSells \/ StopFails => Apart
  BY DEF OnBought, OnSold, OnSoldRaises, OnTick, OnTickRaises, StopSells, StopFails, Takes, manager, engines, deferred,
         history, Underway
<1> QED
  BY <1>1, <1>2, <1>3, <1>4, <1>5, <1>6, <1>7 DEF Next

\* For every set of regimes and prices: DCA and grid are configured for one regime, and
\* whenever the bus task is at rest it is the regime whose preset generates the signals, until
\* the API sets another one or a switch is deferred in the midst of a close
\* (TradingLoop._reconfigure_dca_grid, _on_position_closed, switch_strategy).
THEOREM EnginesAlwaysFollow == Spec => []EnginesFollowPreset
<1> DEFINE FInv == Counting /\ Matched
<1>1. Init => FInv
  <2> SUFFICES ASSUME Init PROVE FInv
    OBVIOUS
  <2>1. Counting
    BY SettledAtFirst
  <2>2. Matched
    BY DEF Init, Matched, Follow, Underway
  <2> QED
    BY <2>1, <2>2
<1>2. FInv /\ [Next]_vars => FInv'
  BY CountingStep, MatchedStep
<1>3. FInv => EnginesFollowPreset
  BY DEF Matched, Follow, EnginesFollowPreset
<1> QED
  BY <1>1, <1>2, <1>3, PTL DEF Spec

-----------------------------------------------------------------------------

\* The types, in three parts: who decides, what happens to the position, who is suspended.
Chosen ==
    /\ regime \in Regimes \cup {None} /\ preset \in Presets /\ live \in Presets
    /\ deferPreset \in Presets \cup {None} /\ deferRegime \in Regimes \cup {None}
    /\ dca \in Regimes \cup {None} /\ grid \in Ranging \cup {None}

Traded ==
    /\ price \in Prices /\ held \in BOOLEAN /\ pos \in Prices \cup {0} /\ stop \in Int
    /\ queue \in Seq(Event)

Suspended ==
    /\ tick \in {"idle", "closing", "tightening", "publish"}
    /\ handler \in {"idle", "ticker"}
    /\ astray \in BOOLEAN /\ apart \in BOOLEAN /\ late \in BOOLEAN
    /\ run.of \in Regimes \cup {None}

\* The stop is a number, though the price may have fallen below its distance.
LEMMA StopIsANumber ==
  ASSUME Traded
  PROVE  TightenedStop \in Int
<1>1. \A a, b \in Int : Max({a, b}) \in Int
  <2> SUFFICES ASSUME NEW a \in Int, NEW b \in Int PROVE Max({a, b}) \in Int
    OBVIOUS
  <2> DEFINE m == IF a >= b THEN a ELSE b
  <2>1. m \in {a, b} /\ \A y \in {a, b} : m >= y
    OBVIOUS
  <2>2. \A x \in {a, b} : (\A y \in {a, b} : x >= y) => x = m
    OBVIOUS
  <2> QED
    BY <2>1, <2>2 DEF Max
<1>2. pos - Tighten \in Int /\ price - MinDistance \in Int
  BY SwitchAssumption DEF Traded
<1> QED
  BY <1>1, <1>2 DEF TightenedStop

LEMMA ChosenStep ==
  ASSUME Chosen, Suspended, Counting, Matched, [Next]_vars
  PROVE  Chosen'
<1> USE DEF Chosen
<1>1. CASE SwitchFlat \/ SwitchClose \/ SwitchDefer
  <2>1. regime' \in Regimes /\ preset' \in Presets
    BY <1>1 DEF SwitchFlat, SwitchClose, SwitchDefer, Switched, Counting, Presets
  <2>2. CASE SwitchFlat
    BY <2>1, <2>2 DEF SwitchFlat, ApplyNewPreset, Reconfigured
  <2> QED
    BY <1>1, <2>1, <2>2 DEF SwitchClose, SwitchDefer, engines, deferred
<1>2. CASE \E sold \in BOOLEAN : CloseEnds(sold)
  <2>1. Decided \in Presets
    BY <1>2 DEF CloseEnds, Matched, Underway, Decided, Presets
  <2> QED
    BY <1>2, <2>1 DEF CloseEnds, ApplyNewPreset, Reconfigured, manager
<1>3. CASE DeferredActive
  BY <1>3 DEF DeferredActive, Reconfigured, manager
<1>4. CASE OnClosed
  BY <1>4 DEF OnClosed, manager, deferred
<1>5. CASE DeferEnds
  <2>1. Decided \in Presets
    BY <1>5 DEF DeferEnds, Matched, Underway, Decided, Presets
  <2> QED
    BY <1>5, <2>1 DEF DeferEnds, manager, engines
<1>8. CASE ApiSwitch
  BY <1>8 DEF ApiSwitch, deferred
<1> DEFINE Apart == UNCHANGED <<regime, preset, deferPreset, deferRegime, live, dca, grid>>
<1>6. DetectNothing \/ Detect \/ CloseRaises \/ DeferRaises \/ PublishTick \/ Buy \/ Sell => Apart
  BY DEF DetectNothing, Detect, Same, CoolingDown, Debouncing, CloseRaises, DeferRaises, PublishTick, Buy, Sell, manager,
         engines, deferred
<1>7. OnBought \/ OnSold \/ OnSoldRaises \/ OnTick \/ OnTickRaises \/ StopSells \/ StopFails \/ Market \/ Move
        \/ Time \/ UNCHANGED vars => Apart
  BY DEF OnBought, OnSold, OnSoldRaises, OnTick, OnTickRaises, StopSells, StopFails, Takes, Market, Move, Time, vars, manager, engines, deferred
<1> QED
  BY <1>1, <1>2, <1>3, <1>4, <1>5, <1>6, <1>7, <1>8 DEF Next

LEMMA TradedStep ==
  ASSUME Traded, [Next]_vars
  PROVE  Traded'
<1>1. /\ Sold \in Event /\ [kind |-> "tick", at |-> price] \in Event /\ [kind |-> "bought", at |-> price] \in Event
      /\ [kind |-> "closed", at |-> 0] \in Event /\ [kind |-> "stop", at |-> 0] \in Event
  BY DEF Sold, Event, Traded
<1>2. \A q \in Seq(Event), e \in Event : Append(q, e) \in Seq(Event)
  OBVIOUS
<1>3. queue # <<>> => Tail(queue) \in Seq(Event) /\ Head(queue) \in Event
  BY DEF Traded
<1>4. CASE SwitchDefer
  BY <1>4, StopIsANumber DEF SwitchDefer, Traded, world
<1>5. CASE OnBought
  <2>1. Head(queue).kind = "bought" /\ Head(queue) \in Event
    BY <1>3, <1>5 DEF OnBought, Takes, Next1
  <2>2. Head(queue).at \in Prices
    BY <2>1 DEF Event
  <2> QED
    BY <1>3, <1>5, <2>2 DEF OnBought, Takes, Next1, Traded, world
<1>6. CASE OnSold \/ OnSoldRaises \/ OnTick \/ OnTickRaises \/ StopSells \/ StopFails \/ OnClosed
  <2>1. Tail(queue) \in Seq(Event)
    BY <1>3, <1>6 DEF OnSold, OnSoldRaises, OnTick, OnTickRaises, StopSells, StopFails, OnClosed, Takes
  <2>2. /\ Append(Tail(queue), [kind |-> "closed", at |-> 0]) \in Seq(Event)
        /\ Append(Tail(queue), [kind |-> "stop", at |-> 0]) \in Seq(Event)
        /\ Append(Tail(queue), Sold) \in Seq(Event)
    BY <1>1, <1>2, <2>1
  <2>3. queue' \in Seq(Event)
    BY <1>6, <2>1, <2>2 DEF OnSold, OnSoldRaises, OnTick, OnTickRaises, StopSells, StopFails, OnClosed, Takes
  <2>4. price' = price
    BY <1>6 DEF OnSold, OnSoldRaises, OnTick, OnTickRaises, StopSells, StopFails, OnClosed, world
  <2>5. held' \in {held, FALSE}
    BY <1>6 DEF OnSold, OnSoldRaises, OnTick, OnTickRaises, StopSells, StopFails, OnClosed
  <2>6. pos' \in {pos, 0} /\ stop' \in {stop, 0}
    BY <1>6 DEF OnSold, OnSoldRaises, OnTick, OnTickRaises, StopSells, StopFails, OnClosed, position
  <2>7. held' \in BOOLEAN
    BY <2>5, Zenon DEF Traded
  <2>8. pos' \in Prices \cup {0} /\ stop' \in Int
    BY <2>6 DEF Traded
  <2> QED
    BY <2>3, <2>4, <2>7, <2>8 DEF Traded
<1>7. CASE PublishTick \/ Buy \/ Sell \/ (\E sold \in BOOLEAN : CloseEnds(sold)) \/ CloseRaises
  <2>1. CASE PublishTick \/ Buy \/ Sell \/ CloseRaises
    BY <1>1, <1>2, <2>1 DEF PublishTick, Buy, Sell, CloseRaises, Traded, world, position
  <2>2. ASSUME NEW sold \in BOOLEAN, CloseEnds(sold) PROVE Traded'
    <3>1. held' \in BOOLEAN
      BY <2>2 DEF CloseEnds
    <3>2. queue' \in Seq(Event)
      BY <1>1, <1>2, <2>2 DEF CloseEnds, Traded
    <3> QED
      BY <2>2, <3>1, <3>2 DEF CloseEnds, Traded, world, position
  <2> QED
    BY <1>7, <2>1, <2>2
<1>8. CASE DetectNothing \/ Detect \/ SwitchFlat \/ SwitchClose \/ DeferEnds \/ DeferRaises \/ DeferredActive
  BY <1>8 DEF DetectNothing, Detect, SwitchFlat, SwitchClose, DeferEnds, DeferRaises, DeferredActive, Traded, world, position
<1>9. CASE ApiSwitch \/ Market \/ Move \/ Time \/ UNCHANGED vars
  BY <1>9 DEF ApiSwitch, Market, Move, Time, vars, Traded, world, position
<1> QED
  BY <1>4, <1>5, <1>6, <1>7, <1>8, <1>9 DEF Next

LEMMA SuspendedStep ==
  ASSUME Suspended, Counting, Traded, [Next]_vars
  PROVE  Suspended'
<1> USE DEF Suspended
<1>1. Detected(market) => run'.of \in Regimes
  BY DEF Detected, Counting
<1>2. CASE Detect \/ SwitchFlat \/ SwitchClose \/ SwitchDefer
  BY <1>1, <1>2 DEF Detect, SwitchFlat, SwitchClose, SwitchDefer, ApplyNewPreset, history
<1>3. CASE DetectNothing \/ CloseRaises \/ DeferEnds \/ DeferRaises \/ PublishTick
  BY <1>3 DEF DetectNothing, CloseRaises, DeferEnds, DeferRaises, PublishTick, manager, history
<1>4. CASE \E sold \in BOOLEAN : CloseEnds(sold)
  BY <1>4 DEF CloseEnds, ApplyNewPreset, manager, history
<1>5. CASE OnBought \/ OnSold \/ OnSoldRaises \/ OnTick \/ OnTickRaises \/ StopSells \/ StopFails \/ OnClosed \/ DeferredActive
  BY <1>5 DEF OnBought, OnSold, OnSoldRaises, OnTick, OnTickRaises, StopSells, StopFails, OnClosed, DeferredActive, Takes,
              manager, history
<1>6. CASE Buy \/ Sell \/ Market \/ Move \/ Time \/ UNCHANGED vars
  BY <1>6 DEF Buy, Sell, Market, Move, Time, vars, manager, history
<1>7. CASE ApiSwitch
  BY <1>7 DEF ApiSwitch
<1> QED
  BY <1>2, <1>3, <1>4, <1>5, <1>6, <1>7 DEF Next

\* For every value of the constants, the variables keep their types.
THEOREM TypesAreCorrect == Spec => []TypeOK
<1> DEFINE TInv == Chosen /\ Traded /\ Suspended /\ Counting /\ Flow /\ Settled /\ Matched
<1>1. Init => TInv
  <2> SUFFICES ASSUME Init PROVE TInv
    OBVIOUS
  <2>1. Counting /\ Flow /\ Settled
    BY SettledAtFirst
  <2>2. Matched
    BY DEF Init, Matched, Follow, Underway
  <2>3. Chosen
    BY DEF Init, Chosen, Presets
  <2>4. Traded
    BY DEF Init, Traded
  <2>5. Suspended
    BY DEF Init, Suspended
  <2> QED
    BY <2>1, <2>2, <2>3, <2>4, <2>5
<1>2. TInv /\ [Next]_vars => TInv'
  BY CountingStep, FlowStep, SettledStep, MatchedStep, ChosenStep, TradedStep, SuspendedStep
<1>3. TInv => TypeOK
  BY DEF Chosen, Traded, Suspended, Counting, TypeOK
<1> QED
  BY <1>1, <1>2, <1>3, PTL DEF Spec

=============================================================================
