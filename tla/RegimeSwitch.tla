---------------------------- MODULE RegimeSwitch ----------------------------
(***************************************************************************)
(* The automatic change of a strategy's preset: RegimeSwitchManager, which *)
(* decides by debounce and cooldown, and the TradingLoop, which carries a  *)
(* switch out around an open position (at once, after selling it, or       *)
(* deferred until its tightened stop sells it). POST /strategy/switch sets *)
(* a preset by hand, beside all this.                                      *)
(*                                                                         *)
(* The position is opened and closed by fills that the bus delivers; one   *)
(* lot is bought and sold.  Prices are small numbers, and percentages of   *)
(* the entry price are distances.  lock() and unlock() have no caller.     *)
(***************************************************************************)
EXTENDS Integers, Sequences, SequencesExt, FiniteSetsExt

CONSTANTS Regimes,           \* the regimes the market takes
          None,
          FirstPreset,       \* the preset the strategy starts with
          Debounce, Cooldown,
          Prices,
          Loss, Tighten, MinDistance,  \* loss_threshold, tightened_sl, its min_distance
          MaxQueue,          \* bound: orders are placed while the queue is shorter
          Faults             \* may a statement fail?

\* detect_regime(): trend, direction and volatility of the candles
RegimeOf(trending, bullish, volatile) ==
    IF trending
    THEN IF bullish THEN IF volatile THEN "bull_trend_high_vol" ELSE "bull_trend_low_vol"
                    ELSE IF volatile THEN "bear_trend_high_vol" ELSE "bear_trend_low_vol"
    ELSE IF volatile THEN "ranging_high_vol" ELSE "ranging_low_vol"
AllRegimes == {RegimeOf(t, b, v) : t, b, v \in BOOLEAN}

\* REGIME_PRESET_MAP, as the manager copied it when it was made
PresetMap ==
    [bull_trend_high_vol |-> "STR-002", bull_trend_low_vol |-> "STR-001",
     bear_trend_high_vol |-> "STR-007", bear_trend_low_vol |-> "STR-008",
     ranging_high_vol |-> "STR-003", ranging_low_vol |-> "STR-005"]

\* the regimes whose grid preset is enabled
GridEnabled == {"ranging_high_vol", "ranging_low_vol"}
Ranging == Regimes \cap GridEnabled

ASSUME SwitchAssumption ==
    /\ Regimes \subseteq AllRegimes /\ None \notin Regimes
    /\ None \notin {PresetMap[r] : r \in Regimes} \cup {FirstPreset}
    /\ {Debounce, Cooldown} \subseteq Nat \ {0} /\ Prices \subseteq Nat \ {0}
    /\ {Loss, Tighten, MinDistance, MaxQueue} \subseteq Nat
    /\ Faults \in BOOLEAN

VARIABLES
    market,    \* the regime the candles show
    price,
    regime, preset,        \* _current_regime, _current_preset of the manager
    pending, count,        \* _pending_regime, _pending_count
    since,                 \* time since _last_switch_time, at most Cooldown
    live,                  \* the preset of the SignalGenerator
    deferPreset, deferRegime,  \* _pending_switch_preset, _pending_switch_regime
    dca, grid,             \* the regime each engine is configured for
    held,                  \* does the account hold the lot?
    pos, stop,             \* the position's entry price and its stop, 0: none
    queue,                 \* the bus
    tick,                  \* where the tick is suspended
    handler,               \* where the bus task is suspended
    run,                   \* history: the latest detections, equal ones counted
    (* history *)
    astray,    \* since the last switch was decided: a statement of it failed, the API switched
               \* before it was carried out, or it was deferred while a close was being handled
    apart,     \* since the preset of a regime went live: the API switched, or a switch was
               \* deferred while a close was being handled
    late       \* since the last position: it was closed before the switch was deferred, or its
               \* close was not published

manager == <<regime, preset, pending, count, since, run>>
engines == <<live, dca, grid>>
deferred == <<deferPreset, deferRegime>>
position == <<pos, stop>>
world == <<market, price>>
history == <<astray, apart, late>>
vars == <<world, manager, engines, deferred, held, position, queue, tick, handler, history>>

Presets == {PresetMap[r] : r \in Regimes} \cup {FirstPreset}
Event == [kind : {"bought", "tick"}, at : Prices] \cup [kind : {"sold", "stop", "closed"}, at : {0}]
Sold == [kind |-> "sold", at |-> 0]

TypeOK ==
    /\ market \in Regimes /\ price \in Prices
    /\ regime \in Regimes \cup {None} /\ preset \in Presets
    /\ pending \in Regimes \cup {None} /\ count \in 0 .. Debounce - 1
    /\ pending = None <=> count = 0
    /\ since \in 0 .. Cooldown
    /\ live \in Presets
    /\ deferPreset \in Presets \cup {None} /\ deferRegime \in Regimes \cup {None}
    /\ dca \in Regimes \cup {None} /\ grid \in Ranging \cup {None}
    /\ held \in BOOLEAN /\ pos \in Prices \cup {0} /\ stop \in Int
    /\ queue \in Seq(Event)
    /\ tick \in {"idle", "closing", "tightening", "publish"}
    /\ handler \in {"idle", "ticker"}
    /\ run.of \in Regimes \cup {None} /\ run.length \in 0 .. Debounce
    /\ {astray, apart, late} \subseteq BOOLEAN

\* A new process knows nothing of the regime; the position is restored.
Init ==
    /\ market \in Regimes /\ price \in Prices
    /\ regime = None /\ preset = FirstPreset /\ pending = None /\ count = 0 /\ since = Cooldown
    /\ live = FirstPreset /\ dca = None /\ grid = None
    /\ deferPreset = None /\ deferRegime = None
    /\ pos \in Prices \cup {0} /\ held = (pos # 0) /\ stop = 0
    /\ queue = <<>> /\ tick = "idle" /\ handler = "idle"
    /\ run = [of |-> None, length |-> 0] /\ astray = FALSE /\ apart = FALSE /\ late = FALSE

-----------------------------------------------------------------------------
(* RegimeSwitchManager *)

\* mutant: any detection counts
Counted_AnyRegime(r) == count + 1

\* evaluate(): a detection of r, with its four outcomes
Counted(r) == IF r = pending THEN count + 1 ELSE 1
Detected(r) == run' = [of |-> r, length |-> IF r = run.of THEN Min({run.length + 1, Debounce}) ELSE 1]
InCooldown == since < Cooldown

Same(r) ==
    /\ r = regime
    /\ pending' = None /\ count' = 0
    /\ UNCHANGED <<regime, preset, since>>

CoolingDown(r) ==
    /\ r # regime /\ InCooldown
    /\ UNCHANGED <<regime, preset, pending, count, since>>

Debouncing(r) ==
    /\ r # regime /\ ~InCooldown /\ Counted(r) < Debounce
    /\ pending' = r /\ count' = Counted(r)
    /\ UNCHANGED <<regime, preset, since>>

\* the switch approved, and apply_switch()
Switched(r) ==
    /\ r # regime /\ ~InCooldown /\ Counted(r) >= Debounce
    /\ regime' = r /\ preset' = PresetMap[r] /\ since' = 0
    /\ pending' = None /\ count' = 0

-----------------------------------------------------------------------------
(* Carrying a switch out *)

\* mutant: a grid is only ever replaced
Reconfigured_KeepsGrid(r, priced) ==
    IF r = None THEN UNCHANGED <<dca, grid>>
    ELSE dca' = r /\ grid' = IF r \in Ranging /\ priced THEN r ELSE grid

\* _reconfigure_dca_grid(): no grid without a price
Reconfigured(r, priced) ==
    IF r = None THEN UNCHANGED <<dca, grid>>
    ELSE dca' = r /\ grid' = IF r \in Ranging /\ priced THEN r ELSE None

\* mutant: an older deferred switch is not forgotten
ApplyNewPreset_KeepsDeferred(p, r) ==
    /\ live' = p /\ Reconfigured(r, TRUE)
    /\ apart' = FALSE
    /\ UNCHANGED <<deferPreset, deferRegime, late>>

ApplyNewPreset(p, r) ==
    /\ live' = p /\ Reconfigured(r, TRUE)
    /\ deferPreset' = None /\ deferRegime' = None
    /\ apart' = FALSE
    /\ UNCHANGED late

SmallLoss == price - pos >= -Loss
\* mutant: the looser of the two stops
TightenedStop_Looser == Min({pos - Tighten, price - MinDistance})

TightenedStop == Max({pos - Tighten, price - MinDistance})

\* The tick has its candles, and looks at the regime (or cannot tell it).
DetectNothing ==
    /\ tick = "idle" /\ tick' = "publish"
    /\ UNCHANGED <<world, manager, engines, deferred, held, position, queue, handler, history>>

Detect ==
    /\ tick = "idle" /\ tick' = "publish"
    /\ Detected(market)
    /\ Same(market) \/ CoolingDown(market) \/ Debouncing(market)
    /\ UNCHANGED <<world, engines, deferred, held, position, queue, handler, history>>

SwitchFlat ==
    /\ tick = "idle" /\ tick' = "publish"
    /\ Detected(market) /\ Switched(market)
    /\ pos = 0
    /\ ApplyNewPreset(preset', regime') /\ astray' = FALSE
    /\ UNCHANGED <<world, held, position, queue, handler>>

SwitchClose ==
    /\ tick = "idle" /\ tick' = "closing"
    /\ Detected(market) /\ Switched(market)
    /\ pos # 0 /\ SmallLoss
    /\ astray' = FALSE
    /\ UNCHANGED <<world, engines, deferred, held, position, queue, handler, apart, late>>

\* What the suspended tick carries out is the switch it decided, whatever the manager believes
\* by now: only the tick changes `regime`.
Decided == PresetMap[regime]

\* the order fills, is rejected, or raises after it filled
CloseEnds(sold) ==
    /\ tick = "closing" /\ tick' = "publish"
    /\ sold => held
    /\ held' = (held /\ ~sold)
    /\ queue' = IF sold THEN Append(queue, Sold) ELSE queue
    /\ ApplyNewPreset(Decided, regime)
    /\ UNCHANGED <<world, manager, position, handler, astray>>

CloseRaises ==
    /\ Faults /\ tick = "closing" /\ tick' = "idle"
    /\ held /\ held' = FALSE
    /\ astray' = TRUE
    /\ UNCHANGED <<world, manager, engines, deferred, position, queue, handler, apart, late>>

\* set_stop_loss() changes the position and then awaits the store
SwitchDefer ==
    /\ tick = "idle" /\ tick' = "tightening"
    /\ Detected(market) /\ Switched(market)
    /\ pos # 0 /\ ~SmallLoss
    /\ stop' = TightenedStop
    /\ astray' = FALSE
    /\ UNCHANGED <<world, engines, deferred, held, pos, queue, handler, apart, late>>

\* A close will come to carry a deferred switch out.
Closes == pos # 0 \/ \E i \in DOMAIN queue : queue[i].kind = "closed"
Handling == handler = "ticker"

DeferEnds ==
    /\ tick = "tightening" /\ tick' = "publish"
    /\ deferPreset' = Decided /\ deferRegime' = regime
    /\ astray' = (astray \/ Handling) /\ apart' = (apart \/ Handling) /\ late' = ~Closes
    /\ UNCHANGED <<world, manager, engines, held, position, queue, handler>>

DeferRaises ==
    /\ Faults /\ tick = "tightening" /\ tick' = "idle"
    /\ astray' = TRUE
    /\ UNCHANGED <<world, manager, engines, deferred, held, position, queue, handler, apart, late>>

-----------------------------------------------------------------------------
(* The rest of the tick *)

Room == Len(queue) < MaxQueue

PublishTick ==
    /\ tick = "publish" /\ tick' = "idle"
    /\ \/ Room /\ queue' = Append(queue, [kind |-> "tick", at |-> price])
       \/ UNCHANGED queue  \* no ticker
    /\ UNCHANGED <<world, manager, engines, deferred, held, position, handler, history>>

\* The tick's last step, if it has a BUY signal
Buy ==
    /\ tick = "idle" /\ pos = 0 /\ ~held /\ Room
    /\ held' = TRUE /\ queue' = Append(queue, [kind |-> "bought", at |-> price])
    /\ UNCHANGED <<world, manager, engines, deferred, position, tick, handler, history>>

-----------------------------------------------------------------------------
(* The bus *)

Next1 == Head(queue)
Takes(kind) ==
    /\ handler = "idle" /\ queue # <<>> /\ Next1.kind = kind
    /\ queue' = Tail(queue)

OnBought ==
    /\ Takes("bought")
    /\ pos' = Next1.at /\ stop' = 0
    /\ late' = FALSE
    /\ UNCHANGED <<world, manager, engines, deferred, held, tick, handler, astray, apart>>

OnSold ==
    /\ handler = "idle" /\ queue # <<>> /\ Next1.kind = "sold"
    /\ queue' = Append(Tail(queue), [kind |-> "closed", at |-> 0])
    /\ pos' = 0 /\ stop' = 0
    /\ UNCHANGED <<world, manager, engines, deferred, held, tick, handler, history>>

\* save_position() raises: the position is gone, and nobody is told.
OnSoldRaises ==
    /\ Faults /\ Takes("sold")
    /\ pos' = 0 /\ stop' = 0
    /\ late' = TRUE
    /\ UNCHANGED <<world, manager, engines, deferred, held, tick, handler, astray, apart>>

\* save_position() raises: the stop is not looked at.
OnTickRaises ==
    /\ Faults /\ Takes("tick")
    /\ UNCHANGED <<world, manager, engines, deferred, held, position, tick, handler, history>>

OnTick ==
    /\ handler = "idle" /\ queue # <<>> /\ Next1.kind = "tick"
    /\ queue' = IF pos # 0 /\ stop # 0 /\ Next1.at <= stop
                THEN Append(Tail(queue), [kind |-> "stop", at |-> 0]) ELSE Tail(queue)
    /\ UNCHANGED <<world, manager, engines, deferred, held, position, tick, handler, history>>

\* _on_stop_loss_triggered(): the sale fills or fails
StopSells ==
    /\ handler = "idle" /\ queue # <<>> /\ Next1.kind = "stop"
    /\ pos # 0 /\ held
    /\ held' = FALSE /\ queue' = Append(Tail(queue), Sold)
    /\ UNCHANGED <<world, manager, engines, deferred, position, tick, handler, history>>

StopFails ==
    /\ Takes("stop")
    /\ UNCHANGED <<world, manager, engines, deferred, held, position, tick, handler, history>>

\* _on_position_closed(): the preset, the awaited ticker, and then the engines
OnClosed ==
    /\ Takes("closed")
    /\ IF deferPreset = None THEN UNCHANGED <<live, handler, apart>>
       ELSE live' = deferPreset /\ handler' = "ticker" /\ apart' = FALSE
    /\ UNCHANGED <<world, manager, dca, grid, deferred, held, position, tick, astray, late>>

DeferredActive ==
    /\ handler = "ticker" /\ handler' = "idle"
    /\ \E priced \in BOOLEAN : Reconfigured(deferRegime, priced)
    /\ deferPreset' = None /\ deferRegime' = None
    /\ UNCHANGED <<world, manager, live, held, position, queue, tick, history>>

-----------------------------------------------------------------------------
(* The API *)

Underway == tick \in {"closing", "tightening"}

\* POST /strategy/switch: the preset is live, and the manager believes in it. It does not
\* look at a switch that is being carried out or is deferred, nor at the engines.
ApiSwitch ==
    /\ \E p \in Presets : ~(live = p /\ preset = p) /\ live' = p /\ preset' = p
    /\ astray' = (Underway \/ deferPreset # None) /\ apart' = TRUE
    /\ UNCHANGED <<world, regime, pending, count, since, run, dca, grid, deferred, held, position, queue,
                  tick, handler, late>>

-----------------------------------------------------------------------------
(* The world *)

Market ==
    /\ \E t, b, v \in BOOLEAN : market' = RegimeOf(t, b, v)
    /\ market' \in Regimes \ {market}
    /\ UNCHANGED <<price, manager, engines, deferred, held, position, queue, tick, handler, history>>

Move ==
    /\ price' \in Prices \ {price}
    /\ UNCHANGED <<market, manager, engines, deferred, held, position, queue, tick, handler, history>>

\* A cooldown is an hour: the sale or the switch that is under way has ended long before.
Quiet ==
    /\ ~Underway /\ handler = "idle"
    /\ \A i \in DOMAIN queue : queue[i].kind \notin {"sold", "closed"}

Time ==
    /\ since < Cooldown /\ Quiet
    /\ since' = since + 1
    /\ UNCHANGED <<world, regime, preset, pending, count, run, engines, deferred, held, position, queue, tick, handler, history>>

\* A sale by a signal, a target or the control API
Sell ==
    /\ pos # 0 /\ held /\ Room
    /\ held' = FALSE /\ queue' = Append(queue, Sold)
    /\ UNCHANGED <<world, manager, engines, deferred, position, tick, handler, history>>

Next ==
    \/ DetectNothing \/ Detect \/ SwitchFlat \/ SwitchClose \/ SwitchDefer
    \/ \E sold \in BOOLEAN : CloseEnds(sold)
    \/ CloseRaises \/ DeferEnds \/ DeferRaises
    \/ PublishTick \/ Buy
    \/ OnBought \/ OnSold \/ OnSoldRaises \/ OnTick \/ OnTickRaises \/ StopSells \/ StopFails
    \/ OnClosed \/ DeferredActive \/ ApiSwitch
    \/ Market \/ Move \/ Time \/ Sell

Spec == Init /\ [][Next]_vars

\* The scheduler ticks and what is suspended goes on; again and again a tick has a price, a
\* position is saved, and of the sales that a stop asks for again and again one fills.
FairSpec ==
    /\ Spec
    /\ WF_vars(DetectNothing \/ Detect \/ SwitchFlat \/ SwitchClose \/ SwitchDefer)
    /\ WF_vars(\E sold \in BOOLEAN : CloseEnds(sold)) /\ WF_vars(DeferEnds)
    /\ WF_vars(PublishTick)
    /\ WF_vars(OnBought \/ OnSold \/ OnSoldRaises \/ OnTick \/ OnTickRaises \/ StopSells \/ StopFails
                  \/ OnClosed \/ DeferredActive)
    /\ SF_vars(PublishTick /\ Len(queue') > Len(queue)) /\ SF_vars(OnTick) /\ SF_vars(StopSells)

-----------------------------------------------------------------------------
(* Properties *)

\* A switch is what the last Debounce detections asked for, and comes a cooldown after the
\* last one ("requires N consecutive detections", "minimum time between switches").
SwitchIsDebounced ==
    [][regime' # regime =>
         /\ run' = [of |-> regime', length |-> Debounce]
         /\ since = Cooldown]_vars

\* The preset the manager believes in is the one that generates signals, or waits to be
\* applied: in the tick that switches, or deferred, and then for a position to close, or for
\* the next one if this one's close came too early. Three things do leave the manager with
\* a belief that nothing carries out: a statement of the switch fails, the API switches while
\* another switch is under way or deferred, or a switch is deferred in the midst of a close.
NoSwitchLost ==
    \/ Underway \/ astray
    \/ preset = live /\ deferPreset \in {None, live}
    \/ preset = deferPreset /\ (Closes \/ late)

\* DCA and grid are of one regime, and in a trend there is no grid. It is the regime whose
\* preset is live, however switches, closes and failures overlap, until the API sets another
\* preset, or a switch is deferred in the midst of a close.
EnginesFollowPreset ==
    /\ grid \in {dca, None}
    /\ handler = "idle" /\ dca # None /\ ~apart => live = PresetMap[dca]

\* A switch that was deferred with a loss ends the position: its stop is where the loss was
\* large, so that, as long as it is, the position is sold and the new preset goes live.
DeferralEnds ==
    (deferPreset # None /\ held /\ pos # 0 /\ stop # 0) ~> (deferPreset = None \/ ~held \/ SmallLoss)
=============================================================================
