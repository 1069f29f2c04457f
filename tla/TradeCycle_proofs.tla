-------------------------- MODULE TradeCycle_proofs --------------------------
(***************************************************************************)
(* Theorems about TradeCycle, for any capital, any set of control          *)
(* requests, any thresholds of the breaker and any faults.                 *)
(***************************************************************************)
EXTENDS TradeCycle, TLAPS

(* What the proofs of the money keep: the account and every copy of it that *)
(* an order in flight still holds are worth the capital.                    *)
MInv == TypeOK /\ BalanceConserved /\ SnapshotsConserved

-----------------------------------------------------------------------------
(* Lemmas about the parts of the actions *)

(* A task that is not in an order holds no copy of the balance that matters. *)
LEMMA AtIsJob ==
  ASSUME NEW s \in Stage
  PROVE  At(s) \in Job /\ At(s).stage = s
BY TradeCycleAssumption DEF At, Job, Empty, Balance, Cause, Side

(* The same for a tick that has decided to trade. *)
LEMMA ExecutingIsJob ==
  ASSUME NEW side \in Side
  PROVE  Executing(side) \in Job /\ Executing(side).stage = "executing"
BY TradeCycleAssumption DEF Executing, At, Job, Empty, Balance, Stage, Cause, Side

(* A task may take up any job whose copy of the balance is sound. *)
LEMMA JobMoves ==
  ASSUME MInv, NEW t \in Tasks, NEW j \in Job,
         j.stage = "quoted" => j.snap.krw + j.snap.btc = Capital,
         job' = [job EXCEPT ![t] = j]
  PROVE  job' \in [Tasks -> Job] /\ SnapshotsConserved'
<1>1. job \in [Tasks -> Job]
  BY DEF MInv, TypeOK
<1>2. job' \in [Tasks -> Job]
  BY <1>1
<1>3. ASSUME NEW u \in Tasks, job'[u].stage = "quoted"
      PROVE  job'[u].snap.krw + job'[u].snap.btc = Capital
  <2>1. CASE u = t
    BY <1>1, <1>3, <2>1
  <2>2. CASE u # t
    BY <1>1, <1>3, <2>2 DEF MInv, SnapshotsConserved
  <2> QED
    BY <2>1, <2>2
<1> QED
  BY <1>2, <1>3 DEF SnapshotsConserved

(* Whatever the caller does after an order, it holds no copy any more. *)
LEMMA ContinueSound ==
  ASSUME MInv, NEW t \in Tasks, NEW cause, Continue(t, cause)
  PROVE  /\ job' \in [Tasks -> Job] /\ SnapshotsConserved'
         /\ loop' \in Loop /\ bot' \in Bot
<1> DEFINE j == CASE cause = "regime"    -> At("ticker")
                  [] cause = "emergency" -> At("exiting")
                  [] OTHER               -> Idle
<1>1. j \in Job /\ j.stage # "quoted"
  <2>1. /\ At("ticker") \in Job /\ At("ticker").stage = "ticker"
        /\ At("exiting") \in Job /\ At("exiting").stage = "exiting"
        /\ Idle \in Job /\ Idle.stage = "idle"
    BY AtIsJob DEF Stage, Idle
  <2> QED
    BY <2>1
<1>2. job' = [job EXCEPT ![t] = j]
  BY DEF Continue
<1>3. job' \in [Tasks -> Job] /\ SnapshotsConserved'
  <2> HIDE DEF j
  <2> QED
    BY <1>1, <1>2, JobMoves
<1>4. loop' \in Loop /\ bot' \in Bot
  BY DEF Continue, MInv, TypeOK, Bot
<1> QED
  BY <1>3, <1>4

(* Every operation of the breaker keeps its variables in range. *)
LEMMA BreakerTyped ==
  ASSUME TypeOK, NEW t \in Tasks,
         \/ CB!Admit(t) \/ CB!Reject(t) \/ CB!Tick
         \/ CB!RecordSuccess(t) \/ CB!RecordFailure(t)
  PROVE  /\ cbState' \in CB!CBState
         /\ cbFailures' \in 0..FailureCap
         /\ cbSince' \in 0..RecoverySeconds
<1> USE TradeCycleAssumption DEF TypeOK, CB!CBState
<1>1. CASE CB!Admit(t)
  BY <1>1 DEF CB!Admit, CB!ObservedState
<1>2. CASE CB!Reject(t)
  BY <1>2 DEF CB!Reject, CB!ObservedState
<1>3. CASE CB!Tick
  BY <1>3 DEF CB!Tick
<1>4. CASE CB!RecordSuccess(t)
  BY <1>4 DEF CB!RecordSuccess
<1>5. CASE CB!RecordFailure(t)
  BY <1>5 DEF CB!RecordFailure, CB!CountFailure
<1> QED
  BY <1>1, <1>2, <1>3, <1>4, <1>5

(* What PositionManager does to memory and table keeps their types.        *)
LEMMA SaveTyped ==
  ASSUME TypeOK, NEW i \in Ids, NEW level \in Level, NEW raises \in BOOLEAN, Save(i, level, raises)
  PROVE  rows' \subseteq Row /\ astray' \subseteq Ids
BY DEF TypeOK, PositionOK, Save

LEMMA SetStopTyped ==
  ASSUME TypeOK, pos # "none", NEW raises \in BOOLEAN, SetStop(raises)
  PROVE  PositionOK'
<1>1. own \in Ids /\ "guarded" \in Level
  BY DEF TypeOK, PositionOK, Level
<1> QED
  BY <1>1, SaveTyped DEF SetStop, TypeOK, PositionOK

LEMMA LoadTyped ==
  ASSUME TypeOK, NEW read \in SUBSET Row, Load(read), UNCHANGED rows
  PROVE  PositionOK'
<1>1. CASE read = {}
  BY <1>1 DEF Load, TypeOK, PositionOK
<1>2. CASE read # {}
  <2>1. PICK r \in read : /\ pos' = r.level /\ own' = r.id
                          /\ astray' = (OfRows \ {r.id}) \cup (IF r \in rows THEN {} ELSE {r.id})
    BY <1>2 DEF Load
  <2>2. r.id \in Ids /\ r.level \in Level \ {"none"} /\ OfRows \subseteq Ids /\ "none" \notin Ids
    BY TradeCycleAssumption DEF Row, OfRows, TypeOK, PositionOK
  <2> QED
    BY <2>1, <2>2 DEF TypeOK, PositionOK
<1> QED
  BY <1>1, <1>2

(* An order that is placed copies the balance, or goes back to its caller. *)
LEMMA PlaceOrderSound ==
  ASSUME MInv, NEW t \in Tasks, NEW side \in Side, NEW cause \in Cause,
         PlaceOrder(t, side, cause), queue' \in Seq(Event), calm' \in BOOLEAN
  PROVE  MInv'
<1>1. UNCHANGED <<bal, ledger, rows, pos, own, astray>>
  BY DEF PlaceOrder, position
<1>2. CB!Admit(t) \/ CB!Reject(t)
  BY DEF PlaceOrder
<1>3. /\ job' \in [Tasks -> Job] /\ SnapshotsConserved'
      /\ loop' \in Loop /\ bot' \in Bot
  <2>1. CASE Continue(t, cause)
    BY <2>1, ContinueSound
  <2>2. CASE /\ job' = [job EXCEPT ![t] = [stage |-> "quoted", cause |-> cause,
                                           side |-> side, snap |-> bal, read |-> {}]]
             /\ UNCHANGED control
    <3> DEFINE j == [stage |-> "quoted", cause |-> cause,
                     side |-> side, snap |-> bal, read |-> {}]
    <3>1. j \in Job /\ j.snap.krw + j.snap.btc = Capital
      BY DEF MInv, TypeOK, BalanceConserved, Job, Stage
    <3>2. job' \in [Tasks -> Job] /\ SnapshotsConserved'
      <4>1. job' = [job EXCEPT ![t] = j]
        BY <2>2
      <4> HIDE DEF j
      <4> QED
        BY <3>1, <4>1, JobMoves
    <3> QED
      BY <2>2, <3>2 DEF MInv, TypeOK, control
  <2> QED
    BY <2>1, <2>2 DEF PlaceOrder
<1> QED
  BY <1>1, <1>2, <1>3, BreakerTyped DEF MInv, TypeOK, PositionOK, BalanceConserved

(* A task moves on to a stage of its own without an order. *)
LEMMA StepSound ==
  ASSUME MInv, NEW t \in Tasks, NEW from, NEW to \in Stage \ {"quoted"},
         Step(t, from, to)
  PROVE  job' \in [Tasks -> Job] /\ SnapshotsConserved'
BY AtIsJob, JobMoves DEF Step

-----------------------------------------------------------------------------
(* One lemma for each task: its steps keep the money. *)

(* The steps of an order already placed, of whichever task. *)
LEMMA PipelineSound ==
  ASSUME MInv, NEW t \in Tasks, Pipeline(t)
  PROVE  MInv'
<1>0. job \in [Tasks -> Job] /\ bal \in Balance /\ job[t] \in Job
  BY DEF MInv, TypeOK
<1>1. CASE Book(t)
  <2>1. bal' \in Balance /\ bal'.krw + bal'.btc = Capital
    <3>1. /\ job[t].snap \in Balance /\ job[t].side \in Side
          /\ job[t].snap.krw + job[t].snap.btc = Capital
          /\ CanPay(job[t].snap, job[t].side)
          /\ bal' = Settle(job[t].snap, job[t].side)
      BY <1>0, <1>1 DEF Book, Job, MInv, SnapshotsConserved
    <3>2. ASSUME NEW b \in Balance, NEW side \in Side,
                 b.krw + b.btc = Capital, CanPay(b, side)
          PROVE  Settle(b, side) \in Balance
                 /\ Settle(b, side).krw + Settle(b, side).btc = Capital
      BY <3>2, TradeCycleAssumption DEF Balance, Side, CanPay, Settle
    <3> QED
      BY <3>1, <3>2
  <2>2. job' \in [Tasks -> Job] /\ SnapshotsConserved'
    <3>1. [job[t] EXCEPT !.stage = "booked"] \in Job
      BY <1>0 DEF Job, Stage
    <3> QED
      BY <1>0, <1>1, <3>1, JobMoves DEF Book, Job
  <2> QED
    BY <1>1, <2>1, <2>2
    DEF Book, MInv, TypeOK, PositionOK, position, BalanceConserved, CalmIf, control, breaker
<1>2. CASE FailOrder(t)
  <2>1. /\ job' \in [Tasks -> Job] /\ SnapshotsConserved'
        /\ loop' \in Loop /\ bot' \in Bot
    BY <1>2, ContinueSound DEF FailOrder
  <2> QED
    BY <1>2, <2>1, BreakerTyped DEF FailOrder, MInv, TypeOK, PositionOK, position, BalanceConserved, CalmIf
<1>3. CASE Record(t)
  <2>1. job' \in [Tasks -> Job] /\ SnapshotsConserved'
    <3>1. [job[t] EXCEPT !.stage = "recorded"] \in Job
      BY <1>0 DEF Job, Stage
    <3> QED
      BY <1>0, <1>3, <3>1, JobMoves DEF Record, Job
  <2>2. ledger' \in Int
    BY <1>3 DEF Record, Worth, MInv, TypeOK
  <2> QED
    BY <1>3, <2>1, <2>2, BreakerTyped
    DEF Record, MInv, TypeOK, PositionOK, position, BalanceConserved, CalmIf, control
<1>4. CASE RecordRaises(t)
  <2>1. job' \in [Tasks -> Job] /\ SnapshotsConserved'
    BY <1>4, AtIsJob, JobMoves DEF RecordRaises, Idle, Stage
  <2> QED
    BY <1>4, <2>1, BreakerTyped DEF RecordRaises, MInv, TypeOK, PositionOK, position, BalanceConserved, CalmIf, Bot
<1>5. CASE PublishFill(t)
  <2>1. /\ job' \in [Tasks -> Job] /\ SnapshotsConserved'
        /\ loop' \in Loop /\ bot' \in Bot
    BY <1>5, ContinueSound DEF PublishFill
  <2>2. queue' \in Seq(Event)
    BY <1>5 DEF PublishFill, Fill, Event, MInv, TypeOK
  <2> QED
    BY <1>5, <2>1, <2>2 DEF PublishFill, MInv, TypeOK, PositionOK, position, BalanceConserved, breaker
<1>6. CASE PublishBuy(t)
  <2>1. PICK raises \in BOOLEAN :
           /\ SetStop(raises) /\ CalmIf(~raises)
           /\ job' = [job EXCEPT ![t] = Idle]
           /\ bot' = IF raises \/ bot = "executing" THEN "ready" ELSE bot
    BY <1>6 DEF PublishBuy
  <2>2. job' \in [Tasks -> Job] /\ SnapshotsConserved'
    BY <2>1, AtIsJob, JobMoves DEF Idle, Stage
  <2>3. queue' \in Seq(Event) /\ bot' \in Bot /\ PositionOK'
    <3>1. pos # "none" /\ TypeOK
      BY <1>6 DEF PublishBuy, MInv
    <3>2. PositionOK'
      BY <2>1, <3>1, SetStopTyped
    <3> QED
      BY <1>6, <2>1, <3>2 DEF PublishBuy, Fill, Event, MInv, TypeOK, Bot
  <2> QED
    BY <1>6, <2>1, <2>2, <2>3 DEF PublishBuy, MInv, TypeOK, BalanceConserved, breaker, CalmIf
<1> QED
  BY <1>1, <1>2, <1>3, <1>4, <1>5, <1>6 DEF Pipeline

(* The steps of tick(). *)
LEMMA TickSound ==
  ASSUME MInv, TickTask
  PROVE  MInv'
<1>0. "tick" \in Tasks
  BY DEF Tasks
<1> USE <1>0
<1>1. CASE TickBegin \/ TickNoSwitch \/ TickHold
  <2>1. \E from : \E to \in Stage \ {"quoted"} : Step("tick", from, to)
    BY <1>1 DEF TickBegin, TickNoSwitch, TickHold, Stage
  <2>2. job' \in [Tasks -> Job] /\ SnapshotsConserved'
    BY <2>1, StepSound
  <2> QED
    BY <1>1, <2>2
    DEF TickBegin, TickNoSwitch, TickHold, MInv, TypeOK, PositionOK, position,
        BalanceConserved, control, breaker, Bot, CalmIf
<1>2. CASE TickPublish
  <2>1. job' \in [Tasks -> Job] /\ SnapshotsConserved' /\ bot' \in Bot
    BY <1>2, AtIsJob, JobMoves
    DEF TickPublish, TickTransition, Idle, Stage, Bot
  <2>2. queue' \in Seq(Event)
    BY <1>2 DEF TickPublish, Event, MInv, TypeOK
  <2> QED
    BY <1>2, <2>1, <2>2 DEF TickPublish, MInv, TypeOK, PositionOK, position, CalmIf, BalanceConserved, breaker
<1>3. ASSUME NEW side \in Side, TickSignal(side)
      PROVE  MInv'
  <2>1. job' \in [Tasks -> Job] /\ SnapshotsConserved' /\ bot' \in Bot
    BY <1>3, AtIsJob, ExecutingIsJob, JobMoves
    DEF TickSignal, TickTransition, Idle, Stage, Bot
  <2> QED
    BY <1>3, <2>1 DEF TickSignal, MInv, TypeOK, PositionOK, position, CalmIf, BalanceConserved, breaker
<1>4. CASE TickSizeBuy
  <2>1. job' \in [Tasks -> Job] /\ SnapshotsConserved'
    BY <1>4, AtIsJob, JobMoves DEF TickSizeBuy, Stage
  <2> QED
    BY <1>4, <2>1
    DEF TickSizeBuy, MInv, TypeOK, PositionOK, position, CalmIf, BalanceConserved, control, breaker
<1>5. CASE TickRegimeClose \/ TickBuy \/ TickSell
  <2>1. queue' \in Seq(Event)
    BY <1>5 DEF TickRegimeClose, TickBuy, TickSell, MInv, TypeOK
  <2>2. \E side \in Side : \E cause \in Cause : PlaceOrder("tick", side, cause)
    BY <1>5 DEF TickRegimeClose, TickBuy, TickSell, Side, Cause
  <2>3. calm' \in BOOLEAN
    BY <1>5 DEF TickRegimeClose, TickBuy, TickSell, CalmIf, MInv, TypeOK
  <2> QED
    BY <2>1, <2>2, <2>3, PlaceOrderSound
<1>6. CASE TickNoOrder
  <2>1. Continue("tick", "signal")
    BY <1>6 DEF TickNoOrder
  <2>2. /\ job' \in [Tasks -> Job] /\ SnapshotsConserved'
        /\ loop' \in Loop /\ bot' \in Bot
    BY <2>1, ContinueSound
  <2> QED
    BY <1>6, <2>2 DEF TickNoOrder, MInv, TypeOK, PositionOK, position, CalmIf, BalanceConserved, breaker
<1>7. CASE TickRegimeTighten
  <2>1. PICK raises \in BOOLEAN :
           /\ SetStop(raises) /\ CalmIf(InTurn("tick") /\ ~raises)
           /\ job' = [job EXCEPT !["tick"] = IF raises THEN Idle ELSE At("ticker")]
           /\ bot' = IF raises THEN "ready" ELSE bot
    BY <1>7 DEF TickRegimeTighten
  <2>2. job' \in [Tasks -> Job] /\ SnapshotsConserved'
    BY <2>1, AtIsJob, JobMoves DEF Idle, Stage
  <2>3. PositionOK'
    BY <1>7, <2>1, SetStopTyped DEF TickRegimeTighten, MInv
  <2> QED
    BY <1>7, <2>1, <2>2, <2>3 DEF TickRegimeTighten, MInv, TypeOK, BalanceConserved, breaker, CalmIf, Bot
<1> QED
  BY <1>1, <1>2, <1>3, <1>4, <1>5, <1>6, <1>7 DEF TickTask

(* The event loop's steps. *)
LEMMA BusSound ==
  ASSUME MInv, BusTask
  PROVE  MInv'
<1>0. "bus" \in Tasks /\ queue \in Seq(Event)
  BY DEF Tasks, MInv, TypeOK
<1> USE <1>0
<1>1. ASSUME NEW e \in Event, Take(e)
      PROVE  queue' \in Seq(Event)
  BY <1>1 DEF Take
<1>2. CASE BusOpen
  <2>1. queue' \in Seq(Event)
    BY <1>1, <1>2 DEF BusOpen, Event
  <2>2. PositionOK' /\ calm' \in BOOLEAN
    <3>1. CASE pos # "none"
      BY <1>2, <3>1 DEF BusOpen, MInv, TypeOK, PositionOK, position
    <3>2. CASE pos = "none"
      <4>1. own' \in Ids /\ "bare" \in Level /\ "none" \notin Ids
        BY <1>2, <3>2, TradeCycleAssumption DEF BusOpen, FreeIds, Level
      <4>2. PICK raises \in BOOLEAN : Save(own', "bare", raises) /\ CalmIf(~raises)
        BY <1>2, <3>2 DEF BusOpen
      <4>3. rows' \subseteq Row /\ astray' \subseteq Ids
        BY <4>1, <4>2, SaveTyped DEF MInv
      <4> QED
        BY <1>2, <3>2, <4>1, <4>2, <4>3 DEF BusOpen, PositionOK, CalmIf, MInv, TypeOK
    <3> QED
      BY <3>1, <3>2
  <2> QED
    BY <1>2, <2>1, <2>2
    DEF BusOpen, MInv, TypeOK, BalanceConserved, SnapshotsConserved, control, breaker
<1>3. CASE BusClose \/ BusMarketTick
  <2>1. queue' \in Seq(Event)
    BY <1>1, <1>3 DEF BusClose, BusMarketTick, Event
  <2>2. job' \in [Tasks -> Job] /\ SnapshotsConserved'
    <3>1. CASE UNCHANGED job
      BY <3>1 DEF MInv, TypeOK, SnapshotsConserved
    <3>2. CASE job' = [job EXCEPT !["bus"] = At("hit")]
      BY <3>2, AtIsJob, JobMoves DEF Stage
    <3> QED
      BY <1>3, <3>1, <3>2 DEF BusClose, BusMarketTick
  <2>3. PositionOK' /\ calm' \in BOOLEAN
    <3>1. CASE pos = "none"
      BY <1>3, <3>1 DEF BusClose, BusMarketTick, MInv, TypeOK, PositionOK, position
    <3>2. CASE pos # "none"
      <4>1. own \in Ids /\ pos \in Level /\ "none" \in Level
        BY <3>2 DEF MInv, TypeOK, PositionOK, Level
      <4>2. PICK level \in Level : \E raises \in BOOLEAN : Save(own, level, raises) /\ CalmIf(~raises)
        BY <1>3, <3>2, <4>1 DEF BusClose, BusMarketTick
      <4>3. rows' \subseteq Row /\ astray' \subseteq Ids
        BY <4>1, <4>2, SaveTyped DEF MInv
      <4> QED
        BY <1>3, <3>2, <4>2, <4>3 DEF BusClose, BusMarketTick, PositionOK, CalmIf, MInv, TypeOK, Level
    <3> QED
      BY <3>1, <3>2
  <2> QED
    BY <1>3, <2>1, <2>2, <2>3
    DEF BusClose, BusMarketTick, MInv, TypeOK, BalanceConserved, control, breaker
<1>4. CASE BusStopHit
  <2>1. job' \in [Tasks -> Job] /\ SnapshotsConserved'
    BY <1>4, StepSound DEF BusStopHit, Stage
  <2>2. queue' \in Seq(Event)
    BY <1>4 DEF BusStopHit, Event
  <2> QED
    BY <1>4, <2>1, <2>2
    DEF BusStopHit, MInv, TypeOK, PositionOK, position, CalmIf, BalanceConserved, control, breaker
<1>5. CASE BusStopSell
  <2>1. queue' \in Seq(Event)
    BY <1>1, <1>5 DEF BusStopSell, Event
  <2>2. CASE pos # "none"
    <3>1. calm' \in BOOLEAN
      BY <1>5 DEF BusStopSell, MInv, TypeOK
    <3> QED
      BY <1>5, <2>1, <2>2, <3>1, PlaceOrderSound DEF BusStopSell, Side, Cause
  <2>3. CASE pos = "none"
    BY <1>5, <2>1, <2>3
    DEF BusStopSell, MInv, TypeOK, PositionOK, position, CalmIf, BalanceConserved, SnapshotsConserved,
        control, breaker
  <2> QED
    BY <2>2, <2>3
<1> QED
  BY <1>2, <1>3, <1>4, <1>5 DEF BusTask

(* The control requests' steps. *)
LEMMA CtlSound ==
  ASSUME MInv, NEW c \in Ctl, CtlTask(c)
  PROVE  MInv'
<1>0. c \in Tasks /\ queue \in Seq(Event)
  BY DEF Tasks, MInv, TypeOK
<1> USE <1>0
<1>1. CASE CtlClose(c)
  <2>1. calm' \in BOOLEAN
    BY <1>1 DEF CtlClose, CalmIf, MInv, TypeOK
  <2> QED
    BY <1>1, <2>1, PlaceOrderSound DEF CtlClose, Side, Cause
<1>2. CASE CtlSetStop(c)
  <2>1. PICK raises \in BOOLEAN : SetStop(raises) /\ CalmIf(InTurn(c) /\ ~raises)
    BY <1>2 DEF CtlSetStop
  <2>2. PositionOK'
    BY <1>2, <2>1, SetStopTyped DEF CtlSetStop, MInv
  <2> QED
    BY <1>2, <2>1, <2>2
    DEF CtlSetStop, MInv, TypeOK, PositionOK, position, CalmIf, BalanceConserved, SnapshotsConserved, control, breaker, CalmIf
<1>3. CASE CtlEmergency(c)
  <2>0. calm' \in BOOLEAN
    BY <1>3 DEF CtlEmergency, CalmIf, MInv, TypeOK
  <2>1. CASE PlaceOrder(c, "SELL", "emergency") /\ UNCHANGED queue
    BY <2>0, <2>1, PlaceOrderSound DEF Side, Cause
  <2>2. CASE /\ job' = [job EXCEPT ![c] = At("exiting")]
             /\ UNCHANGED <<bal, ledger, position, queue, control, breaker>>
    <3>1. job' \in [Tasks -> Job] /\ SnapshotsConserved'
      BY <2>2, AtIsJob, JobMoves DEF Stage
    <3> QED
      BY <2>0, <2>2, <3>1 DEF MInv, TypeOK, PositionOK, position, CalmIf, BalanceConserved, control, breaker
  <2> QED
    BY <1>3, <2>1, <2>2 DEF CtlEmergency
<1>4. CASE CtlExit(c) \/ CtlStart(c)
  <2>1. \E from : \E to \in Stage \ {"quoted"} : Step(c, from, to)
    BY <1>4 DEF CtlExit, CtlStart, Stage
  <2>2. job' \in [Tasks -> Job] /\ SnapshotsConserved'
    BY <2>1, StepSound
  <2> QED
    BY <1>4, <2>2
    DEF CtlExit, CtlStart, MInv, TypeOK, PositionOK, position, CalmIf, BalanceConserved, breaker, Loop, Bot
<1>5. CASE CtlStop(c)
  BY <1>5
  DEF CtlStop, MInv, TypeOK, PositionOK, position, CalmIf, BalanceConserved, SnapshotsConserved, breaker, Loop, Bot
<1>6. CASE CtlReadRows(c)
  <2> DEFINE j == [At("loading") EXCEPT !.read = rows]
  <2>1. j \in Job /\ j.stage = "loading"
    <3>1. At("loading") \in Job /\ At("loading").stage = "loading"
      BY AtIsJob DEF Stage
    <3> QED
      BY <3>1 DEF Job, MInv, TypeOK, PositionOK
  <2>2. job' = [job EXCEPT ![c] = j]
    BY <1>6 DEF CtlReadRows
  <2>3. job' \in [Tasks -> Job] /\ SnapshotsConserved'
    <3> HIDE DEF j
    <3> QED
      BY <2>1, <2>2, JobMoves
  <2> QED
    BY <1>6, <2>3
    DEF CtlReadRows, MInv, TypeOK, PositionOK, position, CalmIf, BalanceConserved, control, breaker
<1>7. CASE CtlLoad(c)
  <2>1. job' \in [Tasks -> Job] /\ SnapshotsConserved'
    BY <1>7, AtIsJob, JobMoves DEF CtlLoad, Idle, Stage
  <2>2. PositionOK'
    BY <1>7, LoadTyped DEF CtlLoad, MInv, TypeOK, Job
  <2> QED
    BY <1>7, <2>1, <2>2
    DEF CtlLoad, MInv, TypeOK, PositionOK, position, CalmIf, BalanceConserved, control, breaker
<1> QED
  BY <1>1, <1>2, <1>3, <1>4, <1>5, <1>6, <1>7 DEF CtlTask

(* Time, the start of the process and its death. *)
LEMMA EnvironmentSound ==
  ASSUME MInv, Time \/ Boot \/ Crash
  PROVE  MInv'
<1>1. CASE Time
  <2>1. "tick" \in Tasks /\ CB!Tick
    BY <1>1 DEF Tasks, Time
  <2> QED
    BY <1>1, <2>1, BreakerTyped
    DEF Time, MInv, TypeOK, PositionOK, position, BalanceConserved, SnapshotsConserved, control
<1>2. CASE Boot
  <2>1. PositionOK'
    BY <1>2, LoadTyped DEF Boot, MInv, TypeOK, PositionOK
  <2> QED
    BY <1>2, <2>1
    DEF Boot, MInv, TypeOK, BalanceConserved, SnapshotsConserved, breaker, Loop, Bot
<1>3. CASE Crash
  <2>1. Idle \in Job /\ Idle.stage # "quoted"
    BY AtIsJob DEF Idle, Stage
  <2>2. job' \in [Tasks -> Job] /\ SnapshotsConserved'
    BY <1>3, <2>1 DEF Crash, SnapshotsConserved
  <2>3. UNCHANGED <<bal, ledger>> /\ PositionOK' /\ queue' \in Seq(Event) /\ calm' \in BOOLEAN
    BY <1>3 DEF Crash, CalmIf, Level, MInv, TypeOK, PositionOK
  <2>4. loop' \in Loop /\ bot' \in Bot
    BY <1>3 DEF Crash, Loop, Bot
  <2>5. /\ cbState' \in CB!CBState
        /\ cbFailures' \in 0..FailureCap /\ cbSince' \in 0..RecoverySeconds
    BY <1>3, TradeCycleAssumption DEF Crash, CB!CBState
  <2> QED
    BY <2>2, <2>3, <2>4, <2>5 DEF MInv, TypeOK, BalanceConserved
<1> QED
  BY <1>1, <1>2, <1>3

-----------------------------------------------------------------------------
(* Theorems *)

LEMMA MInvInit ==
  ASSUME Init
  PROVE  MInv
<1>1. Idle \in Job /\ Idle.stage # "quoted"
  BY AtIsJob DEF Idle, Stage
<1>2. job \in [Tasks -> Job] /\ SnapshotsConserved
  BY <1>1 DEF Init, SnapshotsConserved
<1>3. bal \in Balance /\ BalanceConserved /\ ledger \in Int
  <2>1. bal = [krw |-> Capital, btc |-> 0] /\ ledger = 0
    BY DEF Init
  <2> QED
    BY <2>1, TradeCycleAssumption DEF Balance, BalanceConserved
<1>4. PositionOK /\ queue \in Seq(Event) /\ calm \in BOOLEAN
  BY DEF Init, Level, PositionOK
<1>5. loop \in Loop /\ bot \in Bot
  BY DEF Init, Loop, Bot
<1>6. /\ cbState \in CB!CBState
      /\ cbFailures \in 0..FailureCap /\ cbSince \in 0..RecoverySeconds
  BY TradeCycleAssumption DEF Init, CB!CBState
<1> QED
  BY <1>2, <1>3, <1>4, <1>5, <1>6 DEF MInv, TypeOK

LEMMA MInvStep ==
  ASSUME MInv, [Next]_vars
  PROVE  MInv'
<1>1. CASE UNCHANGED vars
  BY <1>1
  DEF vars, control, breaker, position, MInv, TypeOK, PositionOK, BalanceConserved, SnapshotsConserved
<1> QED
  BY <1>1, PipelineSound, TickSound, BusSound, CtlSound, EnvironmentSound DEF Next

(* Every variable of the trading cycle stays in its range; in particular   *)
(* neither the KRW nor the BTC of the paper account is ever negative or    *)
(* more than the capital, although orders of several tasks write it back   *)
(* from copies they read before an await.                                  *)
THEOREM TypeCorrect == Spec => []TypeOK
<1>1. MInv => TypeOK
  BY DEF MInv
<1> QED
  BY <1>1, MInvInit, MInvStep, PTL DEF Spec

(* The paper account is worth the initial capital for ever, whatever the   *)
(* tasks' interleaving, the crashes and the failed writes: an order may    *)
(* lose another one's trade but it never creates or destroys money.        *)
THEOREM BalanceAlwaysConserved == Spec => []BalanceConserved
<1>1. MInv => BalanceConserved
  BY DEF MInv
<1> QED
  BY <1>1, MInvInit, MInvStep, PTL DEF Spec

-----------------------------------------------------------------------------
(* The position that a crash brings back. *)

(* What the proof keeps beside the property: a process that has not begun  *)
(* does nothing and has no position.                                       *)
PInv == Dormant /\ PositionPersisted

(* A write of the open position, or of one that has just been opened:      *)
(* either the table follows memory, or the position is astray.             *)
LEMMA SavePersists ==
  ASSUME TypeOK, PositionPersisted, loop # "down", NEW raises \in BOOLEAN,
         own' \in Ids, pos' \in Level \ {"none"}, own' = own \/ pos = "none",
         Save(own', pos', raises)
  PROVE  PositionPersisted'
<1>1. /\ OfRows \subseteq astray \cup {own} /\ own' \in Ids
      /\ own # own' => own = "none" /\ own \notin OfRows
  BY TradeCycleAssumption DEF PositionPersisted, TypeOK, PositionOK, OfRows, Row
<1>2. CASE raises
  BY <1>1, <1>2 DEF Save, PositionPersisted, OfRows
<1>3. CASE ~raises
  <2>1. [id |-> own', level |-> pos'] \in Row
    BY DEF Row
  <2>2. /\ rows' = {r \in rows : r.id # own'} \cup {r \in Row : r.id = own' /\ r.level = pos'}
        /\ astray' = astray \ {own'}
    BY <1>3 DEF Save
  <2>3. [id |-> own', level |-> pos'] \in rows'
    BY <2>1, <2>2
  <2>4. ASSUME NEW i \in OfRows' PROVE i \in astray' \cup {own'}
    <3>1. i = own' \/ (i \in OfRows /\ i # own')
      BY <2>2, <2>4 DEF OfRows
    <3> QED
      BY <1>1, <2>2, <3>1
  <2> QED
    BY <2>3, <2>4 DEF PositionPersisted
<1> QED
  BY <1>2, <1>3

(* The closing of the position: its row is closed, or astray.              *)
LEMMA ClosePersists ==
  ASSUME TypeOK, PositionPersisted, loop # "down", NEW raises \in BOOLEAN,
         pos # "none", pos' = "none", own' = "none", Save(own, "none", raises)
  PROVE  PositionPersisted'
<1>1. OfRows \subseteq astray \cup {own}
  BY DEF PositionPersisted
<1>2. CASE raises
  BY <1>1, <1>2 DEF Save, PositionPersisted, OfRows
<1>3. CASE ~raises
  <2>1. /\ rows' = {r \in rows : r.id # own} \cup {r \in Row : r.id = own /\ r.level = "none"}
        /\ astray' = astray \ {own}
    BY <1>3 DEF Save
  <2>2. \A r \in rows' : r.id \in OfRows /\ r.id # own
    BY <2>1 DEF Row, OfRows
  <2> QED
    BY <1>1, <2>1, <2>2 DEF PositionPersisted, OfRows
<1> QED
  BY <1>2, <1>3

(* A stop that is set is in the table, or the position is astray.          *)
LEMMA SetStopPersists ==
  ASSUME TypeOK, PositionPersisted, loop # "down", NEW raises \in BOOLEAN, pos # "none", SetStop(raises)
  PROVE  PositionPersisted'
<1>1. own' \in Ids /\ own' = own /\ pos' \in Level \ {"none"} /\ Save(own', pos', raises)
  BY DEF SetStop, TypeOK, PositionOK, Level
<1> QED
  BY <1>1, SavePersists

(* What start() loads is in the table as it was read, or astray.           *)
LEMMA LoadPersists ==
  ASSUME TypeOK, NEW read \in SUBSET Row, Load(read), UNCHANGED rows,
         read = {} => PositionPersisted /\ (loop = "down" => rows = {} /\ pos = "none"),
         loop' # "down"
  PROVE  PositionPersisted'
<1>1. CASE read = {}
  BY <1>1 DEF Load, PositionPersisted, OfRows
<1>2. CASE read # {}
  <2>1. PICK r \in read : /\ pos' = r.level /\ own' = r.id
                          /\ astray' = (OfRows \ {r.id}) \cup (IF r \in rows THEN {} ELSE {r.id})
    BY <1>2 DEF Load
  <2>2. r = [id |-> own', level |-> pos']
    BY <2>1 DEF Row
  <2>3. OfRows' = OfRows
    BY DEF OfRows
  <2> QED
    BY <2>1, <2>2, <2>3 DEF PositionPersisted
<1> QED
  BY <1>1, <1>2

(* Nothing that leaves memory and table alone disturbs them.               *)
LEMMA StillPersists ==
  ASSUME PositionPersisted, UNCHANGED position, loop # "down"
  PROVE  PositionPersisted'
BY DEF PositionPersisted, position, OfRows

(* What a job becomes when it is replaced, and what the others stay.       *)
LEMMA Replaced ==
  ASSUME TypeOK, NEW t \in Tasks, NEW j, job' = [job EXCEPT ![t] = j]
  PROVE  job'[t] = j /\ \A u \in Tasks \ {t} : job'[u] = job[u]
BY DEF TypeOK

(* The stages at which a caller is after an order.                         *)
LEMMA Continued ==
  ASSUME TypeOK, NEW t \in Tasks, NEW cause, Continue(t, cause)
  PROVE  /\ job'[t].stage \in {"idle", "ticker", "exiting"}
         /\ \A u \in Tasks \ {t} : job'[u] = job[u]
         /\ loop' = loop
BY DEF TypeOK, Continue, At, Idle

(* An order is placed by a process that runs: it does not touch the rows.  *)
LEMMA Placed ==
  ASSUME TypeOK, NEW t \in Tasks, NEW side, NEW cause, PlaceOrder(t, side, cause)
  PROVE  /\ job'[t].stage \in {"idle", "ticker", "exiting", "quoted"}
         /\ \A u \in Tasks \ {t} : job'[u] = job[u]
         /\ UNCHANGED <<bal, ledger, position, loop>>
<1>1. CASE Continue(t, cause)
  BY <1>1, Continued DEF PlaceOrder
<1>2. CASE /\ job' = [job EXCEPT ![t] = [stage |-> "quoted", cause |-> cause,
                                         side |-> side, snap |-> bal, read |-> {}]]
           /\ UNCHANGED control
  <2> DEFINE j == [stage |-> "quoted", cause |-> cause, side |-> side, snap |-> bal, read |-> {}]
  <2>1. j.stage = "quoted" /\ job' = [job EXCEPT ![t] = j]
    BY <1>2
  <2> HIDE DEF j
  <2>2. job'[t] = j /\ \A u \in Tasks \ {t} : job'[u] = job[u]
    BY <2>1, Replaced
  <2> QED
    BY <1>2, <2>1, <2>2 DEF PlaceOrder, control
<1> QED
  BY <1>1, <1>2 DEF PlaceOrder

(* The stages to which a step of its own takes a task.                     *)
LEMMA Stepped ==
  ASSUME TypeOK, NEW t \in Tasks, NEW from, NEW to, Step(t, from, to)
  PROVE  /\ job[t].stage = from /\ job'[t].stage = to
         /\ \A u \in Tasks \ {t} : job'[u] = job[u]
BY DEF TypeOK, Step, At

(* Each step of an order, and where it leaves the task.                    *)
LEMMA PipelineMoves ==
  ASSUME TypeOK, NEW t \in Tasks, Pipeline(t)
  PROVE  /\ job[t].stage \in {"quoted", "booked", "recorded"}
         /\ job'[t].stage \in {"idle", "ticker", "exiting", "booked", "recorded"}
         /\ \A u \in Tasks \ {t} : job'[u] = job[u]
         /\ loop' = loop
<1>1. CASE Book(t) \/ Record(t)
  <2>1. PICK s \in {"booked", "recorded"} : job' = [job EXCEPT ![t].stage = s]
    BY <1>1 DEF Book, Record
  <2>2. job[t] \in Job
    BY DEF TypeOK
  <2>3. job'[t].stage = s /\ \A u \in Tasks \ {t} : job'[u] = job[u]
    BY <2>1, <2>2 DEF TypeOK, Job
  <2> QED
    BY <1>1, <2>3 DEF Book, Record, control
<1>2. CASE FailOrder(t) \/ PublishFill(t)
  BY <1>2, Continued DEF FailOrder, PublishFill
<1>3. CASE RecordRaises(t)
  BY <1>3 DEF TypeOK, RecordRaises, Idle, At
<1>4. CASE PublishBuy(t)
  BY <1>4 DEF TypeOK, PublishBuy, Idle, At
<1> QED
  BY <1>1, <1>2, <1>3, <1>4 DEF Pipeline

(* Only a process that runs takes steps, and it goes on running.           *)
LEMMA Runs ==
  ASSUME TypeOK, Dormant,
         \/ \E t \in Tasks : Pipeline(t)
         \/ TickTask \/ BusTask
         \/ \E c \in Ctl : CtlTask(c)
  PROVE  loop # "down" /\ loop' # "down"
<1>1. CASE \E t \in Tasks : Pipeline(t)
  BY <1>1, PipelineMoves DEF Dormant
<1>2. CASE TickTask
  <2>1. loop' = loop
    BY <1>2 DEF TickTask, TickBegin, TickNoSwitch, TickRegimeClose, TickRegimeTighten, TickPublish, TickHold,
                TickSignal, TickSizeBuy, TickBuy, TickSell, TickNoOrder, PlaceOrder, Continue, control
  <2>2. loop = "on" \/ job["tick"].stage # "idle"
    BY <1>2 DEF TickTask, TickBegin, TickNoSwitch, TickRegimeClose, TickRegimeTighten, TickPublish, TickHold,
                TickSignal, TickSizeBuy, TickBuy, TickSell, TickNoOrder, Step, Executing, At
  <2> QED
    BY <2>1, <2>2 DEF Dormant, Tasks
<1>3. CASE BusTask
  <2>1. loop # "down"
    BY <1>3 DEF BusTask, BusOpen, BusClose, BusMarketTick, BusStopHit, BusStopSell, Take, Step, Dormant, Tasks
  <2>2. loop' = loop
    BY <1>3 DEF BusTask, BusOpen, BusClose, BusMarketTick, BusStopHit, BusStopSell, PlaceOrder, Continue, control
  <2> QED
    BY <2>1, <2>2
<1>4. ASSUME NEW c \in Ctl, CtlTask(c)
      PROVE  loop # "down" /\ loop' # "down"
  <2>1. loop # "down"
    BY <1>4 DEF CtlTask, CtlClose, CtlSetStop, CtlEmergency, CtlExit, CtlStop, CtlStart, CtlReadRows, CtlLoad,
                Arrives, Step, Dormant, Tasks
  <2>2. loop' \in {loop, "on", "off"}
    BY <1>4 DEF CtlTask, CtlClose, CtlSetStop, CtlEmergency, CtlExit, CtlStop, CtlStart, CtlReadRows, CtlLoad,
                PlaceOrder, Continue, control
  <2> QED
    BY <2>1, <2>2
<1> QED
  BY <1>1, <1>2, <1>3, <1>4

LEMMA PositionPipeline ==
  ASSUME TypeOK, PInv, NEW t \in Tasks, Pipeline(t)
  PROVE  PInv'
<1>1. loop # "down" /\ loop' # "down"
  BY Runs DEF PInv
<1>2. CASE PublishBuy(t)
  <2>1. \E raises \in BOOLEAN : SetStop(raises)
    BY <1>2 DEF PublishBuy
  <2> QED
    BY <1>1, <1>2, <2>1, SetStopPersists DEF PublishBuy, PInv, Dormant
<1>3. CASE Book(t) \/ FailOrder(t) \/ Record(t) \/ RecordRaises(t) \/ PublishFill(t)
  <2>1. UNCHANGED position
    BY <1>3 DEF Book, FailOrder, Record, RecordRaises, PublishFill
  <2> QED
    BY <1>1, <2>1, StillPersists DEF PInv, Dormant
<1> QED
  BY <1>2, <1>3 DEF Pipeline

LEMMA PositionTick ==
  ASSUME TypeOK, PInv, TickTask
  PROVE  PInv'
<1>0. loop # "down" /\ loop' # "down"
  BY Runs DEF PInv
<1>1. CASE TickRegimeTighten
  <2>1. \E raises \in BOOLEAN : SetStop(raises)
    BY <1>1 DEF TickRegimeTighten
  <2> QED
    BY <1>0, <1>1, <2>1, SetStopPersists DEF TickRegimeTighten, PInv, Dormant
<1>2. CASE \/ TickBegin \/ TickNoSwitch \/ TickRegimeClose \/ TickPublish \/ TickHold
           \/ (\E s \in Side : TickSignal(s)) \/ TickSizeBuy \/ TickBuy \/ TickSell \/ TickNoOrder
  <2>1. UNCHANGED position
    BY <1>2 DEF TickBegin, TickNoSwitch, TickRegimeClose, TickPublish, TickHold, TickSignal, TickSizeBuy,
                TickBuy, TickSell, TickNoOrder, PlaceOrder
  <2> QED
    BY <1>0, <2>1, StillPersists DEF PInv, Dormant
<1> QED
  BY <1>1, <1>2 DEF TickTask

LEMMA PositionBus ==
  ASSUME TypeOK, PInv, BusTask
  PROVE  PInv'
<1>1. loop # "down"
  BY Runs DEF PInv
<1>2. loop' # "down"
  BY Runs DEF PInv
<1>3. CASE BusOpen /\ pos = "none"
  <2>1. own' \in Ids /\ pos' = "bare" /\ "bare" \in Level \ {"none"}
    BY <1>3 DEF BusOpen, FreeIds, Level
  <2>2. \E raises \in BOOLEAN : Save(own', pos', raises)
    BY <1>3, <2>1 DEF BusOpen
  <2> QED
    BY <1>1, <1>2, <1>3, <2>1, <2>2, SavePersists DEF PInv, Dormant
<1>4. CASE BusClose /\ pos # "none"
  <2>1. pos' = "none" /\ own' = "none" /\ \E raises \in BOOLEAN : Save(own, "none", raises)
    BY <1>4 DEF BusClose
  <2> QED
    BY <1>1, <1>2, <1>4, <2>1, ClosePersists DEF PInv, Dormant
<1>5. CASE BusMarketTick /\ pos # "none"
  <2>1. /\ UNCHANGED <<pos, own>> /\ own \in Ids /\ pos \in Level \ {"none"}
        /\ \E raises \in BOOLEAN : Save(own', pos', raises)
    BY <1>5 DEF BusMarketTick, TypeOK, PositionOK
  <2> QED
    BY <1>1, <1>2, <2>1, SavePersists DEF PInv, Dormant
<1>6. CASE \/ BusOpen /\ pos # "none"
           \/ (BusClose \/ BusMarketTick) /\ pos = "none"
           \/ BusStopHit \/ BusStopSell
  <2>1. UNCHANGED position
    BY <1>6 DEF BusOpen, BusClose, BusMarketTick, BusStopHit, BusStopSell, PlaceOrder, position
  <2> QED
    BY <1>1, <1>2, <2>1, StillPersists DEF PInv, Dormant
<1> QED
  BY <1>3, <1>4, <1>5, <1>6 DEF BusTask

LEMMA PositionCtl ==
  ASSUME TypeOK, PInv, NEW c \in Ctl, CtlTask(c)
  PROVE  PInv'
<1>1. loop # "down"
  BY Runs DEF PInv
<1>2. loop' # "down"
  BY Runs DEF PInv
<1>3. CASE CtlSetStop(c)
  <2>1. pos # "none" /\ \E raises \in BOOLEAN : SetStop(raises)
    BY <1>3 DEF CtlSetStop
  <2> QED
    BY <1>1, <1>2, <2>1, SetStopPersists DEF PInv, Dormant
<1>4. CASE CtlLoad(c)
  <2>1. job[c].read \in SUBSET Row /\ UNCHANGED rows /\ Load(job[c].read)
    BY <1>4 DEF CtlLoad, TypeOK, Job, Tasks
  <2> QED
    BY <1>1, <1>2, <2>1, LoadPersists DEF PInv, Dormant
<1>5. CASE CtlClose(c) \/ CtlEmergency(c) \/ CtlExit(c) \/ CtlStop(c) \/ CtlStart(c) \/ CtlReadRows(c)
  <2>1. UNCHANGED position
    BY <1>5 DEF CtlClose, CtlEmergency, CtlExit, CtlStop, CtlStart, CtlReadRows, PlaceOrder
  <2> QED
    BY <1>1, <1>2, <2>1, StillPersists DEF PInv, Dormant
<1> QED
  BY <1>3, <1>4, <1>5 DEF CtlTask

LEMMA PositionStep ==
  ASSUME TypeOK, PInv, [Next]_vars
  PROVE  PInv'
<1>1. CASE UNCHANGED vars \/ Time
  BY <1>1 DEF vars, Time, control, position, PInv, Dormant, PositionPersisted, OfRows
<1>2. CASE Boot
  <2>1. rows \in SUBSET Row /\ UNCHANGED rows /\ Load(rows) /\ loop' # "down" /\ pos = "none"
    BY <1>2 DEF Boot, TypeOK, PositionOK, PInv, Dormant
  <2> QED
    BY <2>1, LoadPersists DEF PInv, Dormant
<1>3. CASE Crash
  BY <1>3 DEF Crash, Idle, At, PInv, Dormant, PositionPersisted
<1> QED
  BY <1>1, <1>2, <1>3, PositionPipeline, PositionTick, PositionBus, PositionCtl DEF Next

LEMMA PInvAlways == Spec => []PInv
<1>1. Init => PInv
  BY DEF Init, Idle, At, PInv, Dormant, PositionPersisted
<1> QED
  BY <1>1, PositionStep, TypeCorrect, PTL DEF Spec

(* Whatever overlaps, fails or dies at whichever await: the open position  *)
(* is in the table as PositionManager has it in memory, and the table has  *)
(* no other open row, but for positions whose last write failed and those  *)
(* that a start() left behind or brought back while their rows changed.    *)
THEOREM PositionAlwaysPersisted == Spec => []PositionPersisted
<1>1. PInv => PositionPersisted
  BY DEF PInv
<1> QED
  BY <1>1, PInvAlways, PTL

-----------------------------------------------------------------------------
(* The breaker: TradeCycle implements CircuitBreaker. *)

(* A step that has nothing to do with an order in flight is none of the    *)
(* breaker's.                                                              *)
LEMMA NoAttempt ==
  ASSUME UNCHANGED breaker,
         \A t \in Tasks : job'[t] = job[t] \/ (~InPipeline(job[t]) /\ ~InPipeline(job'[t]))
  PROVE  UNCHANGED CB!vars
BY DEF CB!vars, breaker, InPipeline

LEMMA BreakerPipeline ==
  ASSUME TypeOK, NEW t \in Tasks, Pipeline(t)
  PROVE  [CB!Next]_(CB!vars)
<1>1. CASE Book(t)
  <2>1. \A u \in Tasks : InPipeline(job'[u]) <=> InPipeline(job[u])
    BY <1>1 DEF Book, TypeOK, Job, InPipeline
  <2> QED
    BY <1>1, <2>1 DEF Book, breaker, CB!vars
<1>2. CASE FailOrder(t)
  BY <1>2 DEF FailOrder, CB!Next
<1>3. CASE Record(t) \/ RecordRaises(t)
  BY <1>3 DEF Record, RecordRaises, CB!Next
<1>4. CASE PublishFill(t)
  <2>1. UNCHANGED breaker
    BY <1>4 DEF PublishFill
  <2> QED
    BY <1>4, <2>1, Continued, NoAttempt DEF PublishFill, InPipeline
<1>5. CASE PublishBuy(t)
  <2>1. UNCHANGED breaker /\ ~InPipeline(job[t]) /\ ~InPipeline(Idle) /\ job' = [job EXCEPT ![t] = Idle]
    BY <1>5 DEF PublishBuy, InPipeline, Idle, At
  <2> QED
    BY <2>1, Replaced, NoAttempt
<1> QED
  BY <1>1, <1>2, <1>3, <1>4, <1>5 DEF Pipeline

LEMMA BreakerPlaced ==
  ASSUME NEW t \in Tasks, NEW side, NEW cause, PlaceOrder(t, side, cause)
  PROVE  CB!Next
BY DEF PlaceOrder, CB!Next

LEMMA BreakerTick ==
  ASSUME TypeOK, TickTask
  PROVE  [CB!Next]_(CB!vars)
<1>0. "tick" \in Tasks
  BY DEF Tasks
<1>1. CASE TickRegimeClose \/ TickBuy \/ TickSell
  BY <1>0, <1>1, BreakerPlaced DEF TickRegimeClose, TickBuy, TickSell
<1>2. CASE TickNoOrder
  <2>1. UNCHANGED breaker /\ ~InPipeline(job["tick"]) /\ Continue("tick", "signal")
    BY <1>2 DEF TickNoOrder, Executing, At, InPipeline
  <2> QED
    BY <1>0, <2>1, Continued, NoAttempt DEF InPipeline
<1>3. CASE \/ TickBegin \/ TickNoSwitch \/ TickRegimeTighten \/ TickPublish \/ TickHold
           \/ (\E s \in Side : TickSignal(s)) \/ TickSizeBuy
  <2>1. /\ UNCHANGED breaker /\ ~InPipeline(job["tick"])
        /\ \E j : ~InPipeline(j) /\ job' = [job EXCEPT !["tick"] = j]
    BY <1>3 DEF TickBegin, TickNoSwitch, TickRegimeTighten, TickPublish, TickHold, TickSignal, TickSizeBuy,
                TickTransition, Step, Executing, At, Idle, InPipeline
  <2> QED
    BY <1>0, <2>1, Replaced, NoAttempt
<1> QED
  BY <1>1, <1>2, <1>3 DEF TickTask

LEMMA BreakerBus ==
  ASSUME TypeOK, BusTask
  PROVE  [CB!Next]_(CB!vars)
<1>0. "bus" \in Tasks
  BY DEF Tasks
<1>1. CASE BusStopSell /\ pos # "none"
  BY <1>0, <1>1, BreakerPlaced DEF BusStopSell
<1>2. CASE BusOpen \/ BusClose \/ BusMarketTick \/ BusStopHit \/ (BusStopSell /\ pos = "none")
  <2>1. /\ UNCHANGED breaker
        /\ \/ job' = job
           \/ ~InPipeline(job["bus"]) /\ \E j : ~InPipeline(j) /\ job' = [job EXCEPT !["bus"] = j]
    BY <1>2 DEF BusOpen, BusClose, BusMarketTick, BusStopHit, BusStopSell, Take, Step, At, InPipeline
  <2> QED
    BY <1>0, <2>1, Replaced, NoAttempt
<1> QED
  BY <1>1, <1>2 DEF BusTask

LEMMA BreakerCtl ==
  ASSUME TypeOK, NEW c \in Ctl, CtlTask(c)
  PROVE  [CB!Next]_(CB!vars)
<1>0. c \in Tasks
  BY DEF Tasks
<1>1. CASE CtlClose(c) \/ (CtlEmergency(c) /\ pos # "none")
  BY <1>0, <1>1, BreakerPlaced DEF CtlClose, CtlEmergency
<1>2. CASE \/ CtlSetStop(c) \/ (CtlEmergency(c) /\ pos = "none") \/ CtlExit(c) \/ CtlStop(c)
           \/ CtlStart(c) \/ CtlReadRows(c) \/ CtlLoad(c)
  <2>1. /\ UNCHANGED breaker
        /\ \/ job' = job
           \/ ~InPipeline(job[c]) /\ \E j : ~InPipeline(j) /\ job' = [job EXCEPT ![c] = j]
    BY <1>2 DEF CtlSetStop, CtlEmergency, CtlExit, CtlStop, CtlStart, CtlReadRows, CtlLoad, Arrives, Step,
                At, Idle, InPipeline
  <2> QED
    BY <1>0, <2>1, Replaced, NoAttempt
<1> QED
  BY <1>1, <1>2 DEF CtlTask

LEMMA BreakerStep ==
  ASSUME TypeOK, [Next]_vars, "crash" \notin Faults
  PROVE  [CB!Next]_(CB!vars)
<1>1. CASE UNCHANGED vars
  BY <1>1 DEF vars, breaker, CB!vars
<1>2. CASE Time
  BY <1>2 DEF Time, CB!Next
<1>3. CASE Boot
  BY <1>3 DEF Boot, breaker, CB!vars
<1>4. ~Crash
  BY DEF Crash
<1> QED
  BY <1>1, <1>2, <1>3, <1>4, BreakerPipeline, BreakerTick, BreakerBus, BreakerCtl DEF Next

(* The orders of a strategy, whichever tasks place them, use its breaker   *)
(* as CircuitBreaker says: one verdict for each admission and none without *)
(* (OrderManager.handle_order_request).  A process that dies takes its     *)
(* breaker with it, so the theorem is about one process.                   *)
THEOREM DrivesBreaker ==
  ASSUME "crash" \notin Faults
  PROVE  Spec => BreakerProtocol
<1>1. Init => CB!Init
  BY DEF Init, CB!Init, Idle, At, InPipeline
<1>2. TypeOK /\ [Next]_vars => [CB!Next]_(CB!vars)
  BY BreakerStep
<1> QED
  BY <1>1, <1>2, TypeCorrect, PTL DEF Spec, BreakerProtocol, CB!Spec

-----------------------------------------------------------------------------
(* Tasks that take turns: until one looks at the position while another is *)
(* about to change it, or something fails, the cycle is the account of     *)
(* Holding, and at rest its parts agree.                                   *)

Ordering == {"quoted", "booked", "recorded"}
Solo == Ordering \cup {"fetched", "executing", "sizing", "hit", "starting", "loading"}
Stages(t) ==
  IF t = "tick" THEN {"idle", "fetched", "ticker", "deciding", "executing", "sizing"} \cup Ordering
  ELSE IF t = "bus" THEN {"idle", "hit"} \cup Ordering
  ELSE {"idle", "exiting", "starting", "loading"} \cup Ordering
Queues == {<<>>, <<"BuyFilled">>, <<"SellFilled">>, <<"MarketTick">>, <<"StopHit">>,
           <<"SellFilled", "MarketTick">>}

(* Nobody but t is at work; while the bus sells, a tick may be waiting.    *)
Quiet(t) ==
  \A u \in Tasks \ {t} :
     job[u].stage = "idle" \/ (t = "bus" /\ u = "tick" /\ job[u].stage = "deciding")
Alone(t) == queue = <<>> /\ Quiet(t)

(* Nobody but t is at work, and the fill of its sale may still be queued.  *)
Follows(t) ==
  /\ queue \in {<<>>, <<"SellFilled">>}
  /\ \A u \in Tasks \ {t} : job[u].stage = "idle"

(* Who is at work, and what is on the bus meanwhile.                       *)
TakingTurns ==
  /\ queue \in Queues
  /\ \A t \in Tasks :
        /\ job[t].stage \in Stages(t)
        /\ job[t].stage \in Solo => Alone(t)
        /\ job[t].stage \in {"ticker", "exiting"} => Follows(t)
        /\ job[t].stage = "deciding" => \A c \in Ctl : job[c].stage = "idle"

(* Who orders what: only a signal buys.                                    *)
Caused ==
  \A t \in Tasks : job[t].stage \in Ordering =>
     /\ job[t].side = "BUY" => job[t].cause = "signal"
     /\ job[t].cause \in {"signal", "regime"} => t = "tick"
     /\ job[t].cause = "emergency" => t \in Ctl

(* The table tells what is in memory, or one position.                     *)
InMemory == IF pos = "none" THEN {} ELSE {[id |-> own, level |-> pos]}
Table == IF loop = "down" THEN \A r, s \in rows : r = s ELSE rows = InMemory

(* The position counted in lots, and the lots after an order.              *)
Lots == IF Shown THEN 1 ELSE 0
After(side) == IF side = "BUY" THEN 1 ELSE 0
FillQueued == queue # <<>> /\ Head(queue) \in {"BuyFilled", "SellFilled"}

(* How far balance, orders and position have followed the trade under way, *)
(* in the order in which the pipeline and the bus change them.             *)
Told ==
  /\ Table
  /\ \A t \in Tasks :
        /\ job[t].stage = "quoted" => /\ job[t].snap = bal /\ bal.btc = Lots /\ ledger = Lots
                                      /\ Lots = 1 - After(job[t].side)
        /\ job[t].stage = "booked" => /\ bal.btc = After(job[t].side) /\ ledger = Lots
                                      /\ Lots = 1 - After(job[t].side)
        /\ job[t].stage = "recorded" => /\ bal.btc = After(job[t].side) /\ ledger = bal.btc
                                        /\ Lots = 1 - After(job[t].side)
        /\ job[t].stage = "loading" => job[t].read = rows
        /\ job[t].stage = "sizing" => pos = "none"
  /\ FillQueued => /\ ledger = bal.btc
                   /\ Head(queue) = "BuyFilled" => bal.btc = 1 /\ Lots = 0
                   /\ Head(queue) = "SellFilled" => bal.btc = 0 /\ Lots = 1
  /\ \/ FillQueued
     \/ \E t \in Tasks : job[t].stage \in Ordering
     \/ bal.btc = Lots /\ ledger = Lots

SInv == TakingTurns /\ Caused /\ Told

(* A task that looks at the position in its turn is the only one at work.  *)
LEMMA LooksAlone ==
  ASSUME NEW t \in Tasks, InTurn(t)
  PROVE  Alone(t) /\ (t = "bus" \/ Follows(t))
BY DEF InTurn, Drained, Alone, Quiet, Follows

(* What is written while nothing fails is what is in memory.               *)
LEMMA SaveInMemory ==
  ASSUME TypeOK, Table, loop # "down", loop' # "down", own' \in Ids, pos' \in Level \ {"none"},
         own' = own \/ pos = "none", Save(own', pos', FALSE)
  PROVE  Table'
<1>1. rows' = {r \in rows : r.id # own'} \cup {r \in Row : r.id = own' /\ r.level = pos'}
  BY DEF Save
<1>2. {r \in rows : r.id # own'} = {}
  BY DEF Table, InMemory
<1>3. {r \in Row : r.id = own' /\ r.level = pos'} = {[id |-> own', level |-> pos']}
  BY DEF Row
<1> QED
  BY <1>1, <1>2, <1>3 DEF Table, InMemory

LEMMA CloseInMemory ==
  ASSUME TypeOK, Table, loop # "down", loop' # "down", pos # "none", pos' = "none", Save(own, "none", FALSE)
  PROVE  Table'
<1>1. rows' = {r \in rows : r.id # own} \cup {r \in Row : r.id = own /\ r.level = "none"}
  BY DEF Save
<1>2. {r \in rows : r.id # own} = {} /\ {r \in Row : r.id = own /\ r.level = "none"} = {}
  BY DEF Table, InMemory, Row
<1> QED
  BY <1>1, <1>2 DEF Table, InMemory

LEMMA SetStopInMemory ==
  ASSUME TypeOK, Table, loop # "down", loop' # "down", pos # "none", SetStop(FALSE)
  PROVE  Table' /\ pos' # "none"
<1>1. own' \in Ids /\ own' = own /\ pos' \in Level \ {"none"} /\ Save(own', pos', FALSE)
  BY DEF SetStop, TypeOK, PositionOK, Level
<1> QED
  BY <1>1, SaveInMemory

LEMMA LoadInMemory ==
  ASSUME TypeOK, Table, Load(rows), UNCHANGED rows, loop' # "down", loop = "down" => pos = "none"
  PROVE  Table' /\ Shown' = Shown
<1>1. CASE rows = {}
  BY <1>1 DEF Load, Table, InMemory, Shown
<1>2. CASE rows # {}
  <2>1. PICK r \in rows : pos' = r.level /\ own' = r.id
    BY <1>2 DEF Load
  <2>2. rows = {r} /\ r = [id |-> own', level |-> pos'] /\ pos' # "none"
    BY <2>1 DEF Table, InMemory, TypeOK, PositionOK, Row
  <2> QED
    BY <2>2 DEF Table, InMemory, Shown
<1> QED
  BY <1>1, <1>2

(* The only one at work may go anywhere.                                   *)
LEMMA AloneMoves ==
  ASSUME TakingTurns, NEW t \in Tasks, Quiet(t), queue' = <<>>,
         \A u \in Tasks \ {t} : job'[u] = job[u], job'[t].stage \in Stages(t)
  PROVE  TakingTurns'
<1>1. \A u \in Tasks \ {t} : job[u].stage = "idle" \/ (t = "bus" /\ u = "tick" /\ job[u].stage = "deciding")
  BY DEF Quiet
<1>2. Alone(t)'
  BY <1>1 DEF Alone, Quiet
<1>3. t = "bus" \/ Follows(t)'
  BY <1>1 DEF Follows
<1>4. t = "bus" => job'[t].stage \notin {"ticker", "exiting"}
  BY DEF Stages, Ordering
<1>5. \A c \in Ctl : c \in Tasks /\ c # "tick" /\ c # "bus"
  BY TradeCycleAssumption DEF Tasks
<1>6. job'[t].stage = "deciding" => t = "tick"
  BY DEF Stages, Ordering
<1>7. "deciding" \notin Solo /\ "idle" \notin Solo
  BY DEF Solo, Ordering
<1>8. queue' \in Queues
  BY DEF Queues
<1> QED
  BY <1>1, <1>2, <1>3, <1>4, <1>5, <1>6, <1>7, <1>8 DEF TakingTurns

(* A market tick or a trigger is taken from the bus when nobody but a      *)
(* waiting tick is there.                                                  *)
LEMMA TakenAlone ==
  ASSUME TakingTurns, NEW e \in {"MarketTick", "StopHit"}, Take(e)
  PROVE  /\ queue = <<e>> /\ queue' = <<>>
         /\ \A u \in Tasks : job[u].stage = "idle" \/ (u = "tick" /\ job[u].stage = "deciding")
<1>1. queue = <<e>> /\ queue' = <<>>
  BY DEF TakingTurns, Queues, Take
<1>2. \A u \in Tasks : job[u].stage \notin Solo \cup {"ticker", "exiting"}
  BY <1>1 DEF TakingTurns, Alone, Follows
<1> QED
  BY <1>1, <1>2 DEF TakingTurns, Stages, Solo, Ordering

(* What has been told stays so while no trade is made and the position     *)
(* only changes its level.                                                 *)
LEMMA ToldStays ==
  ASSUME Told, UNCHANGED <<bal, ledger>>, Table', Shown' = Shown,
         \A t \in Tasks : \/ /\ job'[t] = job[t]
                             /\ job[t].stage = "loading" => rows' = rows
                             /\ job[t].stage = "sizing" => pos' = pos
                          \/ /\ job[t].stage \notin Ordering
                             /\ job'[t].stage \notin Ordering
                             /\ job'[t].stage = "loading" => job'[t].read = rows'
                             /\ job'[t].stage = "sizing" => pos' = "none",
         FillQueued' <=> FillQueued, FillQueued => Head(queue') = Head(queue)
  PROVE  Told'
<1>1. ASSUME NEW t \in Tasks, job'[t].stage \in Ordering
      PROVE  job'[t] = job[t]
  BY <1>1
<1>2. Lots' = Lots
  BY DEF Lots
<1>3. \A t \in Tasks : job[t].stage \in Ordering => job'[t].stage \in Ordering
  OBVIOUS
<1>4. \A t \in Tasks : /\ job'[t].stage = "loading" => job'[t].read = rows'
                       /\ job'[t].stage = "sizing" => pos' = "none"
  BY DEF Told
<1> QED
  BY <1>1, <1>2, <1>3, <1>4 DEF Told, Ordering

(* The same for who orders what.                                           *)
LEMMA CausedStays ==
  ASSUME Caused, \A t \in Tasks : job'[t] = job[t] \/ job'[t].stage \notin Ordering
  PROVE  Caused'
BY DEF Caused

(* A task that is alone may place an order that fits the position.         *)
LEMMA PlacedInTurn ==
  ASSUME TypeOK, SInv, loop # "down", NEW t \in Tasks, NEW side \in Side, NEW cause \in Cause,
         Quiet(t), job[t].stage \notin Ordering, ~FillQueued, queue' = <<>>,
         side = "BUY" <=> pos = "none",
         side = "BUY" => cause = "signal",
         cause \in {"signal", "regime"} => t = "tick",
         cause = "emergency" => t \in Ctl,
         PlaceOrder(t, side, cause)
  PROVE  SInv'
<1>1. PICK j : /\ job' = [job EXCEPT ![t] = j]
               /\ \/ j.stage \in {"idle", "ticker", "exiting"} /\ j.stage \in Stages(t)
                  \/ j = [stage |-> "quoted", cause |-> cause, side |-> side,
                          snap |-> bal, read |-> {}]
  <2>1. t = "tick" => At("ticker").stage \in Stages(t)
    BY DEF Stages, At
  <2>2. t \in Ctl => At("exiting").stage \in Stages(t)
    BY TradeCycleAssumption DEF Stages, At
  <2>3. Idle.stage \in Stages(t)
    BY DEF Stages, Idle, At
  <2> QED
    BY <2>1, <2>2, <2>3 DEF PlaceOrder, Continue, At, Idle
<1>2. /\ \A u \in Tasks \ {t} : job'[u] = job[u]
      /\ job'[t] = j
  BY <1>1 DEF TypeOK
<1>3. TakingTurns'
  <2>1. j.stage \in Stages(t)
    BY <1>1 DEF Stages, Ordering
  <2> QED
    BY <1>2, <2>1, AloneMoves DEF SInv
<1>4. Caused'
  BY <1>1, <1>2 DEF SInv, Caused, Ordering
<1>5. Told'
  <2>1. \A u \in Tasks : job[u].stage \notin Ordering
    BY DEF Quiet, Ordering
  <2>2. /\ bal.btc = Lots /\ ledger = Lots
        /\ UNCHANGED <<bal, ledger, rows, pos>> /\ Lots' = Lots /\ Table'
    <3>1. loop' = loop
      BY DEF PlaceOrder, Continue, control
    <3> QED
      BY <2>1, <3>1 DEF SInv, Told, PlaceOrder, Lots, Shown, Table, InMemory, position
  <2>3. \A u \in Tasks \ {t} : job'[u].stage \notin Ordering \cup {"loading", "sizing"}
    BY <1>2 DEF Quiet, Ordering
  <2>4. ~FillQueued'
    BY DEF FillQueued
  <2>5. Lots = 1 - After(side)
    BY DEF Lots, Shown, After, Side
  <2> QED
    BY <1>1, <1>2, <2>2, <2>3, <2>4, <2>5 DEF Told, Ordering
<1> QED
  BY <1>3, <1>4, <1>5 DEF SInv

(* The pipeline's steps, one after the other.                              *)
LEMMA PipelineInTurn ==
  ASSUME TypeOK, SInv, calm', loop # "down", NEW t \in Tasks, Pipeline(t)
  PROVE  SInv'
<1>0. /\ job \in [Tasks -> Job]
      /\ job[t].stage \in {"quoted", "booked", "recorded"} /\ Alone(t) /\ Quiet(t) /\ queue = <<>>
      /\ job[t].side \in Side
  BY DEF Pipeline, Book, FailOrder, Record, RecordRaises, PublishFill, PublishBuy, SInv, TakingTurns, Solo, Ordering, Alone,
         TypeOK, Job
<1>1. \A u \in Tasks \ {t} : job[u].stage \notin Ordering \cup {"loading", "sizing"}
  BY <1>0 DEF Quiet, Ordering
<1>2. CASE Book(t)
  <2>1. /\ \A u \in Tasks \ {t} : job'[u] = job[u]
        /\ job'[t] = [job[t] EXCEPT !.stage = "booked"]
        /\ job'[t].stage = "booked" /\ job'[t].side = job[t].side /\ job'[t].cause = job[t].cause
    BY <1>0, <1>2 DEF Book, Job
  <2>2. TakingTurns'
    BY <1>0, <1>2, <2>1, AloneMoves DEF Book, SInv, Stages, Ordering
  <2>3. Caused'
    BY <1>1, <1>2, <2>1 DEF SInv, Caused, Ordering, Book
  <2>4. Lots' = Lots /\ bal'.btc = After(job[t].side) /\ Table' /\ UNCHANGED <<rows, pos>>
    BY <1>0, <1>2 DEF Book, SInv, Told, Settle, After, Side, Lots, Shown, Table, InMemory, position, control
  <2>5. Told'
    BY <1>0, <1>1, <1>2, <2>1, <2>4 DEF Book, SInv, Told, Ordering, FillQueued
  <2> QED
    BY <2>2, <2>3, <2>5 DEF SInv
<1>3. CASE Record(t)
  <2>1. /\ \A u \in Tasks \ {t} : job'[u] = job[u]
        /\ job'[t] = [job[t] EXCEPT !.stage = "recorded"]
        /\ job'[t].stage = "recorded" /\ job'[t].side = job[t].side /\ job'[t].cause = job[t].cause
    BY <1>0, <1>3 DEF Record, Job
  <2>2. TakingTurns'
    BY <1>0, <1>3, <2>1, AloneMoves DEF Record, SInv, Stages, Ordering
  <2>3. Caused'
    BY <1>1, <1>3, <2>1 DEF SInv, Caused, Ordering, Record
  <2>4. Lots' = Lots /\ ledger' = bal'.btc /\ bal' = bal /\ Table' /\ UNCHANGED <<rows, pos>>
    BY <1>0, <1>3 DEF Record, SInv, Told, Worth, After, Side, Lots, Shown, Table, InMemory, position, control
  <2>5. Told'
    BY <1>0, <1>1, <1>3, <2>1, <2>4 DEF Record, SInv, Told, Ordering, FillQueued
  <2> QED
    BY <2>2, <2>3, <2>5 DEF SInv
<1>4. ASSUME NEW cause, cause = job[t].cause, Continue(t, cause)
      PROVE  \E j : /\ job' = [job EXCEPT ![t] = j]
                    /\ j.stage \in {"idle", "ticker", "exiting"} /\ j.stage \in Stages(t)
                    /\ j.stage # "idle" => job[t].side = "SELL" /\ t # "bus"
  <2>1. cause = "regime" => t = "tick" /\ job[t].side = "SELL"
    BY <1>0, <1>4 DEF SInv, Caused, Ordering, Side
  <2>2. cause = "emergency" => t \in Ctl /\ job[t].side = "SELL"
    BY <1>0, <1>4 DEF SInv, Caused, Ordering, Side
  <2>3. t = "tick" => "ticker" \in Stages(t)
    BY DEF Stages
  <2>4. t \in Ctl => "exiting" \in Stages(t) /\ t # "bus"
    BY TradeCycleAssumption DEF Stages
  <2>5. "idle" \in Stages(t)
    BY DEF Stages
  <2>6. PICK s \in {"ticker", "exiting", "idle"} :
           /\ job' = [job EXCEPT ![t] = At(s)]
           /\ s = "ticker" => cause = "regime"
           /\ s = "exiting" => cause = "emergency"
    BY <1>4 DEF Continue, Idle
  <2>7. At(s).stage = s
    BY DEF At
  <2> QED
    BY <2>1, <2>2, <2>3, <2>4, <2>5, <2>6, <2>7
<1>5. CASE FailOrder(t)
  <2>1. PICK j : /\ job' = [job EXCEPT ![t] = j]
                 /\ j.stage \in {"idle", "ticker", "exiting"} /\ j.stage \in Stages(t)
    BY <1>4, <1>5 DEF FailOrder
  <2>2. \A u \in Tasks : IF u = t THEN job'[u] = j ELSE job'[u] = job[u]
    BY <1>0, <2>1
  <2>3. TakingTurns'
    BY <1>0, <1>5, <2>1, <2>2, AloneMoves DEF FailOrder, SInv
  <2>4. Caused'
    BY <1>1, <2>1, <2>2 DEF SInv, Caused, Ordering
  <2>5. Lots' = Lots /\ bal.btc = Lots /\ ledger = Lots /\ UNCHANGED <<bal, ledger, rows, pos>> /\ Table'
    BY <1>0, <1>5 DEF FailOrder, Continue, SInv, Told, Lots, Shown, Table, InMemory, position
  <2>6. Told'
    BY <1>0, <1>1, <1>5, <2>1, <2>2, <2>5 DEF FailOrder, SInv, Told, Ordering, FillQueued
  <2> QED
    BY <2>3, <2>4, <2>6 DEF SInv
<1>6. CASE PublishFill(t)
  <2>1. PICK j : /\ job' = [job EXCEPT ![t] = j]
                 /\ j.stage \in {"idle", "ticker", "exiting"} /\ j.stage \in Stages(t)
                 /\ j.stage # "idle" => job[t].side = "SELL" /\ t # "bus"
    BY <1>4, <1>6 DEF PublishFill
  <2>2. \A u \in Tasks : IF u = t THEN job'[u] = j ELSE job'[u] = job[u]
    BY <1>0, <2>1
  <2>3. /\ queue' = <<Fill(job[t].side)>>
        /\ bal.btc = After(job[t].side) /\ ledger = bal.btc /\ Lots = 1 - After(job[t].side)
        /\ UNCHANGED <<bal, ledger, rows, pos>> /\ Lots' = Lots /\ Table'
    BY <1>0, <1>6 DEF PublishFill, Continue, SInv, Told, After, Lots, Shown, Table, InMemory, position
  <2>4. TakingTurns'
    <3>1. queue' \in Queues /\ (job[t].side = "SELL" => queue' = <<"SellFilled">>)
      BY <1>0, <2>3 DEF Queues, Fill, Side
    <3>2. \A u \in Tasks \ {t} : job[u].stage = "idle" \/ (t = "bus" /\ u = "tick" /\ job[u].stage = "deciding")
      BY <1>0 DEF Quiet
    <3>3. t # "bus" => \A u \in Tasks \ {t} : job[u].stage = "idle"
      BY <3>2
    <3>4. \A u \in Tasks : job'[u].stage \notin Solo
      BY <2>1, <2>2, <3>2 DEF Solo, Ordering
    <3>5. j.stage # "idle" => Follows(t)'
      BY <2>1, <2>2, <3>1, <3>3 DEF Follows
    <3>6. \A u \in Tasks : job'[u].stage \in Stages(u)
      BY <2>1, <2>2 DEF SInv, TakingTurns
    <3>7. ASSUME NEW u \in Tasks, job'[u].stage = "deciding", NEW c \in Ctl
          PROVE  job'[c].stage = "idle"
      <4>1. u # t /\ t = "bus" /\ c \in Tasks \ {t} /\ c # "tick"
        BY <2>1, <2>2, <3>2, <3>7, TradeCycleAssumption DEF Tasks
      <4> QED
        BY <2>2, <3>2, <4>1
    <3> QED
      BY <2>1, <2>2, <3>1, <3>2, <3>4, <3>5, <3>6, <3>7 DEF TakingTurns
  <2>5. Caused'
    BY <1>1, <2>1, <2>2 DEF SInv, Caused, Ordering
  <2>6. Told'
    <3>1. /\ FillQueued'
          /\ Head(queue') = "BuyFilled" => bal.btc = 1 /\ Lots = 0
          /\ Head(queue') = "SellFilled" => bal.btc = 0 /\ Lots = 1
      BY <1>0, <2>3 DEF FillQueued, Fill, After, Side
    <3>2. \A u \in Tasks : job'[u].stage \notin Ordering \cup {"loading", "sizing"}
      BY <1>1, <2>1, <2>2 DEF Ordering
    <3> QED
      BY <2>3, <3>1, <3>2 DEF SInv, Told, Ordering
  <2> QED
    BY <2>4, <2>5, <2>6 DEF SInv
<1>7. ~RecordRaises(t)
  BY DEF RecordRaises, CalmIf
<1>8. ~PublishBuy(t)
  <2> SUFFICES ASSUME PublishBuy(t) PROVE FALSE
    OBVIOUS
  <2>1. job[t].stage = "recorded" /\ job[t].side = "BUY" /\ pos # "none"
    BY DEF PublishBuy
  <2>2. Lots = 0
    BY <2>1 DEF SInv, Told, After
  <2> QED
    BY <2>1, <2>2 DEF Lots, Shown
<1> QED
  BY <1>2, <1>3, <1>5, <1>6, <1>7, <1>8 DEF Pipeline

(* A step of a task that is alone, without an order or a trade.            *)
LEMMA AloneKeeps ==
  ASSUME TypeOK, SInv, NEW t \in Tasks, Quiet(t), job[t].stage \notin Ordering, ~FillQueued, queue' = <<>>,
         NEW j, job' = [job EXCEPT ![t] = j], j.stage \in Stages(t) \ Ordering,
         j.stage = "loading" => j.read = rows', j.stage = "sizing" => pos' = "none",
         UNCHANGED <<bal, ledger>>, Table', Shown' = Shown
  PROVE  SInv'
<1>1. /\ \A u \in Tasks \ {t} : job'[u] = job[u] /\ job[u].stage \notin {"loading", "sizing"}
      /\ job'[t].stage \in Stages(t) \ Ordering
      /\ job'[t].stage = "loading" => job'[t].read = rows'
      /\ job'[t].stage = "sizing" => pos' = "none"
  <2>1. /\ \A u \in Tasks \ {t} : job'[u] = job[u]
        /\ job'[t] = j
    BY DEF TypeOK
  <2> QED
    BY <2>1 DEF Quiet
<1>2. TakingTurns'
  BY <1>1, AloneMoves DEF SInv
<1>3. Caused'
  BY <1>1, CausedStays DEF SInv
<1>4. ~FillQueued'
  BY DEF FillQueued
<1>5. Told'
  <2>1. \A u \in Tasks : \/ /\ job'[u] = job[u]
                            /\ job[u].stage = "loading" => rows' = rows
                            /\ job[u].stage = "sizing" => pos' = pos
                         \/ /\ job[u].stage \notin Ordering
                            /\ job'[u].stage \notin Ordering
                            /\ job'[u].stage = "loading" => job'[u].read = rows'
                            /\ job'[u].stage = "sizing" => pos' = "none"
    BY <1>1
  <2> QED
    BY <1>4, <2>1, ToldStays DEF SInv
<1> QED
  BY <1>2, <1>3, <1>5 DEF SInv

LEMMA TickInTurn ==
  ASSUME TypeOK, SInv, calm', loop # "down", loop' # "down", TickTask
  PROVE  SInv'
<1>0. "tick" \in Tasks /\ job \in [Tasks -> Job] /\ Table
  BY DEF Tasks, TypeOK, SInv, Told
<1>1. ASSUME job["tick"].stage \in {"fetched", "executing", "sizing"} \/ InTurn("tick")
      PROVE  queue = <<>> /\ ~FillQueued /\ Quiet("tick")
  BY <1>0, <1>1, LooksAlone DEF SInv, TakingTurns, Solo, Alone, FillQueued
<1>2. CASE TickRegimeClose
  BY <1>0, <1>1, <1>2, PlacedInTurn DEF TickRegimeClose, CalmIf, Ordering, Side, Cause
<1>3. CASE TickBuy
  BY <1>0, <1>1, <1>3, PlacedInTurn DEF TickBuy, Ordering, Side, Cause, SInv, Told
<1>4. CASE TickSell
  BY <1>0, <1>1, <1>4, PlacedInTurn DEF TickSell, Ordering, Side, Cause, Executing, At
<1>5. CASE TickBegin \/ TickNoSwitch \/ TickRegimeTighten \/ (\E s \in Side : TickSignal(s)) \/ TickSizeBuy \/ TickNoOrder
  <2>1. /\ job["tick"].stage \in {"fetched", "executing", "sizing"} \/ InTurn("tick")
        /\ job["tick"].stage \notin Ordering
        /\ UNCHANGED <<bal, ledger, queue>>
    BY <1>0, <1>5 DEF TickBegin, TickNoSwitch, TickRegimeTighten, TickSignal, TickSizeBuy, TickNoOrder,
                      Step, Executing, At, Ordering, CalmIf
  <2>2. PICK j : /\ job' = [job EXCEPT !["tick"] = j]
                 /\ j.stage \in {"idle", "fetched", "ticker", "executing", "sizing"}
                 /\ j.stage = "sizing" => pos = "none" /\ UNCHANGED position
    <3>1. CASE TickBegin \/ TickNoSwitch \/ TickRegimeTighten
      <4>1. PICK j : /\ job' = [job EXCEPT !["tick"] = j]
                     /\ j \in {At("idle"), At("fetched"), At("ticker")}
        BY <3>1 DEF TickBegin, TickNoSwitch, TickRegimeTighten, Step, Idle
      <4>2. j.stage \in {"idle", "fetched", "ticker"}
        BY <4>1 DEF At
      <4> QED
        BY <4>1, <4>2
    <3>2. CASE \E s \in Side : TickSignal(s)
      <4>1. PICK j, s : /\ job' = [job EXCEPT !["tick"] = j]
                        /\ j \in {At("idle"), Executing(s)}
        BY <3>2 DEF TickSignal, TickTransition, Idle
      <4>2. j.stage \in {"idle", "executing"}
        BY <4>1 DEF At, Executing
      <4> QED
        BY <4>1, <4>2
    <3>3. CASE TickSizeBuy
      <4>1. PICK j : job' = [job EXCEPT !["tick"] = j] /\ j = At("sizing")
        BY <3>3 DEF TickSizeBuy
      <4>2. j.stage = "sizing"
        BY <4>1 DEF At
      <4> QED
        BY <3>3, <4>1, <4>2 DEF TickSizeBuy
    <3>4. CASE TickNoOrder
      <4>1. PICK j : job' = [job EXCEPT !["tick"] = j] /\ j = Idle
        BY <3>4 DEF TickNoOrder, Continue
      <4>2. j.stage = "idle"
        BY <4>1 DEF Idle, At
      <4> QED
        BY <4>1, <4>2
    <3> QED
      BY <1>5, <3>1, <3>2, <3>3, <3>4
  <2>3. j.stage \in Stages("tick") \ Ordering /\ j.stage # "loading"
    BY <2>2 DEF Stages, Ordering
  <2>4. Table' /\ Shown' = Shown
    <3>1. CASE TickRegimeTighten
      <4>1. pos # "none" /\ SetStop(FALSE)
        BY <3>1 DEF TickRegimeTighten, CalmIf
      <4> QED
        BY <1>0, <4>1, SetStopInMemory DEF Shown
    <3>2. CASE UNCHANGED position
      BY <1>0, <3>2 DEF position, Table, InMemory, Shown
    <3> QED
      BY <1>5, <3>1, <3>2 DEF TickBegin, TickNoSwitch, TickSignal, TickSizeBuy, TickNoOrder
  <2> QED
    BY <1>0, <1>1, <2>1, <2>2, <2>3, <2>4, AloneKeeps DEF position
<1>6. CASE TickPublish
  <2>1. PICK j : job' = [job EXCEPT !["tick"] = j] /\ j.stage \in {"deciding", "idle"}
    <3>1. At("deciding").stage = "deciding" /\ Idle.stage = "idle"
      BY DEF At, Idle
    <3> QED
      BY <1>6, <3>1 DEF TickPublish, TickTransition
  <2>2. \A u \in Tasks : job[u].stage = (IF u = "tick" THEN "ticker" ELSE "idle")
    BY <1>0, <1>6 DEF TickPublish, SInv, TakingTurns, Follows
  <2>3. \A u \in Tasks : job'[u].stage \in (IF u = "tick" THEN {"deciding", "idle"} ELSE {"idle"})
    BY <1>0, <2>1, <2>2
  <2>4. queue \in {<<>>, <<"SellFilled">>} /\ (queue' = queue \/ queue' = Append(queue, "MarketTick"))
    BY <1>0, <1>6 DEF TickPublish, SInv, TakingTurns, Follows
  <2>5. queue' \in Queues /\ (FillQueued' <=> FillQueued) /\ (FillQueued => Head(queue') = Head(queue))
    <3>1. CASE queue = <<>>
      BY <2>4, <3>1 DEF Queues, FillQueued
    <3>2. CASE queue = <<"SellFilled">>
      <4>1. queue' = queue \/ queue' = <<"SellFilled", "MarketTick">>
        BY <2>4, <3>2
      <4> QED
        BY <3>2, <4>1 DEF Queues, FillQueued
    <3> QED
      BY <2>4, <3>1, <3>2
  <2>6. TakingTurns'
    <3>1. \A u \in Tasks : job'[u].stage \in Stages(u)
      BY <2>3, TradeCycleAssumption DEF Stages, Tasks
    <3>2. \A u \in Tasks : job'[u].stage \notin Solo \cup {"ticker", "exiting"}
      BY <2>3 DEF Solo, Ordering
    <3>3. \A c \in Ctl : job'[c].stage = "idle"
      BY <2>3, TradeCycleAssumption DEF Tasks
    <3> QED
      BY <2>5, <3>1, <3>2, <3>3 DEF TakingTurns
  <2>7. \A u \in Tasks : /\ job[u].stage \notin Ordering \cup {"loading", "sizing"}
                        /\ job'[u].stage \notin Ordering \cup {"loading", "sizing"}
    BY <2>2, <2>3 DEF Ordering
  <2>8. Caused'
    BY <2>7, CausedStays DEF SInv
  <2>9. Told'
    <3>1. UNCHANGED <<bal, ledger>> /\ Table' /\ Shown' = Shown
      BY <1>0, <1>6 DEF TickPublish, Table, InMemory, Shown, position
    <3> QED
      BY <2>5, <2>7, <3>1, ToldStays DEF SInv
  <2> QED
    BY <2>6, <2>8, <2>9 DEF SInv
<1>7. CASE TickHold
  <2>1. /\ job["tick"].stage = "deciding" /\ queue' = queue
        /\ \A u \in Tasks : IF u = "tick" THEN job'[u].stage = "idle" ELSE job'[u] = job[u]
    BY <1>0, <1>7 DEF TickHold, Step, At
  <2>2. TakingTurns'
    BY <1>0, <2>1 DEF SInv, TakingTurns, Stages, Solo, Ordering, Alone, Quiet, Follows
  <2>3. Caused'
    BY <2>1, CausedStays DEF SInv, Ordering
  <2>4. Told'
    <3>1. UNCHANGED <<bal, ledger, rows, pos>> /\ Table' /\ Shown' = Shown
      BY <1>0, <1>7 DEF TickHold, Table, InMemory, Shown, position
    <3> QED
      BY <1>0, <1>7, <2>1, <3>1, ToldStays DEF TickHold, SInv, Ordering, FillQueued
  <2> QED
    BY <2>2, <2>3, <2>4 DEF SInv
<1> QED
  BY <1>2, <1>3, <1>4, <1>5, <1>6, <1>7 DEF TickTask

LEMMA BusInTurn ==
  ASSUME TypeOK, SInv, calm', loop # "down", loop' # "down", BusTask
  PROVE  SInv'
<1>0. /\ "bus" \in Tasks /\ job \in [Tasks -> Job] /\ Table /\ pos \in Level
      /\ "tick" \in Tasks /\ Ctl \subseteq Tasks
  BY DEF Tasks, TypeOK, PositionOK, SInv, Told
<1>1. CASE BusOpen
  <2>1. /\ queue = <<"BuyFilled">> /\ queue' = <<>> /\ FillQueued /\ ~FillQueued'
    BY <1>1 DEF BusOpen, Take, SInv, TakingTurns, Queues, FillQueued
  <2>2. \A u \in Tasks : job[u].stage \notin Solo \cup {"ticker", "exiting"}
    BY <2>1 DEF SInv, TakingTurns, Alone, Follows
  <2>3. /\ UNCHANGED <<bal, ledger, job>>
        /\ Table' /\ bal'.btc = Lots' /\ ledger' = Lots'
    <3>1. bal.btc = 1 /\ ledger = 1 /\ pos = "none"
      BY <1>1, <2>1 DEF BusOpen, Take, SInv, Told, Lots, Shown
    <3>2. own' \in Ids /\ pos' = "bare" /\ "bare" \in Level \ {"none"} /\ Save(own', pos', FALSE)
      BY <1>1, <3>1 DEF BusOpen, FreeIds, Level, CalmIf
    <3>3. Table'
      BY <1>0, <3>1, <3>2, SaveInMemory
    <3> QED
      BY <1>1, <3>1, <3>2, <3>3 DEF BusOpen, Lots, Shown
  <2>4. TakingTurns'
    BY <2>1, <2>2, <2>3 DEF SInv, TakingTurns, Queues
  <2>5. Caused'
    BY <2>3, CausedStays DEF SInv
  <2>6. Told'
    BY <2>1, <2>2, <2>3 DEF Told, Solo, Ordering
  <2> QED
    BY <2>4, <2>5, <2>6 DEF SInv
<1>2. CASE BusClose
  <2>1. /\ queue \in {<<"SellFilled">>, <<"SellFilled", "MarketTick">>}
        /\ queue' \in {<<>>, <<"MarketTick">>} /\ FillQueued /\ ~FillQueued'
        /\ queue = <<"SellFilled">> => queue' = <<>>
    <3>1. queue \in {<<"SellFilled">>, <<"SellFilled", "MarketTick">>} /\ queue' = Tail(queue)
      BY <1>2 DEF BusClose, Take, SInv, TakingTurns, Queues
    <3>2. CASE queue = <<"SellFilled">>
      BY <3>1, <3>2 DEF FillQueued
    <3>3. CASE queue = <<"SellFilled", "MarketTick">>
      <4>1. queue' = <<"MarketTick">>
        BY <3>1, <3>3
      <4> QED
        BY <3>3, <4>1 DEF FillQueued
    <3> QED
      BY <3>1, <3>2, <3>3
  <2>2. \A u \in Tasks : job[u].stage \notin Solo
    BY <2>1 DEF SInv, TakingTurns, Alone
  <2>3. \A u \in Tasks : job[u].stage \in {"ticker", "exiting"} => Follows(u)'
    BY <1>2, <2>1 DEF BusClose, SInv, TakingTurns, Follows
  <2>4. /\ UNCHANGED <<bal, ledger, job>>
        /\ Table' /\ bal'.btc = Lots' /\ ledger' = Lots'
    <3>1. bal.btc = 0 /\ ledger = 0 /\ pos # "none"
      BY <1>2, <2>1 DEF BusClose, Take, SInv, Told, Lots, Shown
    <3>2. pos' = "none" /\ Save(own, "none", FALSE)
      BY <1>2, <3>1 DEF BusClose, CalmIf
    <3>3. Table'
      BY <1>0, <3>1, <3>2, CloseInMemory
    <3> QED
      BY <1>2, <3>1, <3>2, <3>3 DEF BusClose, Lots, Shown
  <2>5. TakingTurns'
    BY <2>1, <2>2, <2>3, <2>4 DEF SInv, TakingTurns, Queues
  <2>6. Caused'
    BY <2>4, CausedStays DEF SInv
  <2>7. Told'
    BY <2>1, <2>2, <2>4 DEF Told, Solo, Ordering
  <2> QED
    BY <2>5, <2>6, <2>7 DEF SInv
<1>3. CASE BusMarketTick
  <2>1. PICK j : job' = [job EXCEPT !["bus"] = j] /\ j.stage \in {"idle", "hit"}
    <3>1. job["bus"].stage = "idle" /\ job = [job EXCEPT !["bus"] = job["bus"]] /\ At("hit").stage = "hit"
      BY <1>0, <1>3 DEF BusMarketTick, Take, At
    <3> QED
      BY <1>3, <3>1 DEF BusMarketTick
  <2>2. /\ queue = <<"MarketTick">> /\ queue' = <<>> /\ ~FillQueued /\ Quiet("bus")
    BY <1>3, TakenAlone DEF BusMarketTick, SInv, Quiet, FillQueued
  <2>3. /\ UNCHANGED <<bal, ledger>> /\ Table' /\ Shown' = Shown
        /\ job["bus"].stage \notin Ordering
    <3>1. UNCHANGED <<bal, ledger>> /\ job["bus"].stage \notin Ordering
      BY <1>3 DEF BusMarketTick, Take, Ordering
    <3>2. CASE pos = "none"
      BY <1>0, <1>3, <3>1, <3>2 DEF BusMarketTick, Table, InMemory, Shown, position
    <3>3. CASE pos # "none"
      <4>1. /\ own' = own /\ pos' = pos /\ own \in Ids /\ Save(own', pos', FALSE)
        BY <1>3, <3>3 DEF BusMarketTick, CalmIf, TypeOK, PositionOK
      <4> QED
        BY <1>0, <3>1, <3>3, <4>1, SaveInMemory DEF Shown
    <3> QED
      BY <3>2, <3>3
  <2>4. j.stage \in Stages("bus") \ Ordering /\ j.stage \notin {"loading", "sizing"}
    BY <2>1 DEF Stages, Ordering
  <2> QED
    BY <1>0, <2>1, <2>2, <2>3, <2>4, AloneKeeps
<1>4. CASE BusStopHit
  <2>1. /\ Alone("bus") /\ queue = <<>> /\ queue' = <<"StopHit">> /\ ~FillQueued /\ ~FillQueued'
        /\ job["bus"].stage = "hit"
        /\ \A u \in Tasks : IF u = "bus" THEN job'[u].stage = "idle" ELSE job'[u] = job[u]
    <3>1. /\ job["bus"].stage = "hit"
          /\ \A u \in Tasks : IF u = "bus" THEN job'[u].stage = "idle" ELSE job'[u] = job[u]
      BY <1>0, <1>4 DEF BusStopHit, Step, At
    <3>2. Alone("bus") /\ queue = <<>>
      BY <1>0, <3>1 DEF SInv, TakingTurns, Solo, Alone
    <3>3. queue' = <<"StopHit">>
      BY <1>4, <3>2 DEF BusStopHit
    <3> QED
      BY <3>1, <3>2, <3>3 DEF FillQueued
  <2>2. \A u \in Tasks : IF u = "tick" THEN job'[u].stage \in {"idle", "deciding"} ELSE job'[u].stage = "idle"
    BY <2>1 DEF Alone, Quiet
  <2>3. TakingTurns'
    <3>1. \A u \in Tasks : job'[u].stage \in Stages(u)
      BY <2>2, TradeCycleAssumption DEF Stages, Tasks
    <3>2. \A u \in Tasks : job'[u].stage \notin Solo \cup {"ticker", "exiting"}
      BY <2>2 DEF Solo, Ordering
    <3>3. \A c \in Ctl : job'[c].stage = "idle"
      BY <1>0, <2>2, TradeCycleAssumption
    <3> QED
      BY <2>1, <3>1, <3>2, <3>3 DEF TakingTurns, Queues
  <2>4. \A u \in Tasks : \/ job'[u] = job[u]
                         \/ job[u].stage \notin Ordering /\ job'[u].stage \notin Ordering \cup {"loading", "sizing"}
    BY <2>1 DEF Ordering
  <2>5. Caused'
    BY <2>2, CausedStays DEF SInv, Ordering
  <2>6. Told'
    <3>1. UNCHANGED <<bal, ledger, rows, pos>> /\ Table' /\ Shown' = Shown
      BY <1>0, <1>4 DEF BusStopHit, Table, InMemory, Shown, position
    <3> QED
      BY <2>1, <2>4, <3>1, ToldStays DEF SInv
  <2> QED
    BY <2>3, <2>5, <2>6 DEF SInv
<1>5. CASE BusStopSell
  <2>1. /\ queue = <<"StopHit">> /\ queue' = <<>> /\ ~FillQueued /\ Quiet("bus") /\ job["bus"].stage = "idle"
    BY <1>5, TakenAlone DEF BusStopSell, Take, SInv, Quiet, FillQueued
  <2>2. CASE pos # "none"
    BY <1>0, <1>5, <2>1, <2>2, PlacedInTurn, TradeCycleAssumption DEF BusStopSell, Ordering, Side, Cause
  <2>3. CASE pos = "none"
    <3>1. /\ UNCHANGED <<bal, ledger>> /\ job' = [job EXCEPT !["bus"] = job["bus"]]
          /\ Table' /\ Shown' = Shown
      BY <1>0, <1>5, <2>3 DEF BusStopSell, Table, InMemory, Shown, position
    <3> QED
      BY <1>0, <2>1, <3>1, AloneKeeps DEF Stages, Ordering
  <2> QED
    BY <2>2, <2>3
<1> QED
  BY <1>1, <1>2, <1>3, <1>4, <1>5 DEF BusTask

LEMMA CtlInTurn ==
  ASSUME TypeOK, SInv, calm', loop # "down", loop' # "down", NEW c \in Ctl, CtlTask(c)
  PROVE  SInv'
<1>0. c \in Tasks /\ c # "tick" /\ c # "bus" /\ job \in [Tasks -> Job] /\ Table
  BY TradeCycleAssumption DEF Tasks, TypeOK, SInv, Told
<1>1. ASSUME (Arrives(c) /\ InTurn(c)) \/ job[c].stage \in {"starting", "loading"}
      PROVE  queue = <<>> /\ ~FillQueued /\ Quiet(c) /\ job[c].stage \notin Ordering
  BY <1>0, <1>1, LooksAlone DEF Arrives, SInv, TakingTurns, Solo, Ordering, Alone, FillQueued
<1>2. CASE CtlClose(c)
  BY <1>0, <1>1, <1>2, PlacedInTurn DEF CtlClose, CalmIf, Side, Cause
<1>3. CASE CtlEmergency(c) /\ pos # "none"
  BY <1>0, <1>1, <1>3, PlacedInTurn DEF CtlEmergency, CalmIf, Side, Cause
<1>4. CASE \/ CtlSetStop(c) \/ (CtlEmergency(c) /\ pos = "none") \/ CtlStop(c)
           \/ CtlStart(c) \/ CtlReadRows(c) \/ CtlLoad(c)
  <2>1. /\ (Arrives(c) /\ InTurn(c)) \/ job[c].stage \in {"starting", "loading"}
        /\ UNCHANGED <<bal, ledger, queue>>
    BY <1>0, <1>4 DEF CtlSetStop, CtlEmergency, CtlStop, CtlStart, CtlReadRows, CtlLoad, Step, CalmIf
  <2>4. Table' /\ Shown' = Shown
    <3>1. CASE CtlSetStop(c)
      <4>1. pos # "none" /\ SetStop(FALSE)
        BY <3>1 DEF CtlSetStop, CalmIf
      <4> QED
        BY <1>0, <4>1, SetStopInMemory DEF Shown
    <3>2. CASE CtlLoad(c)
      <4>1. Load(rows) /\ UNCHANGED rows
        BY <1>0, <3>2 DEF CtlLoad, SInv, Told
      <4> QED
        BY <1>0, <4>1, LoadInMemory
    <3>3. CASE UNCHANGED position
      BY <1>0, <3>3 DEF position, Table, InMemory, Shown
    <3> QED
      BY <1>4, <3>1, <3>2, <3>3 DEF CtlEmergency, CtlStop, CtlStart, CtlReadRows
  <2>2. PICK j : /\ job' = [job EXCEPT ![c] = j]
                 /\ j.stage \in {"idle", "exiting", "starting", "loading"}
                 /\ j.stage = "loading" => j.read = rows'
    <3>1. CASE CtlSetStop(c) \/ CtlStop(c)
      <4>1. job' = [job EXCEPT ![c] = job[c]] /\ job[c].stage = "idle"
        BY <1>0, <3>1 DEF CtlSetStop, CtlStop, Arrives
      <4> QED
        BY <4>1
    <3>2. CASE (CtlEmergency(c) /\ pos = "none") \/ CtlStart(c) \/ CtlLoad(c)
      <4>1. PICK stage \in {"idle", "exiting", "starting"} : job' = [job EXCEPT ![c] = At(stage)]
        BY <3>2 DEF CtlEmergency, CtlStart, CtlLoad, Step, Idle
      <4>2. At(stage).stage = stage
        BY DEF At
      <4> QED
        BY <4>1, <4>2
    <3>3. CASE CtlReadRows(c)
      <4> DEFINE j == [At("loading") EXCEPT !.read = rows]
      <4>1. j.stage = "loading" /\ j.read = rows /\ rows' = rows /\ job' = [job EXCEPT ![c] = j]
        BY <3>3 DEF CtlReadRows, At, position
      <4> HIDE DEF j
      <4> QED
        BY <4>1
    <3> QED
      BY <1>4, <3>1, <3>2, <3>3
  <2>3. j.stage \in Stages(c) \ Ordering /\ j.stage # "sizing"
    BY <1>0, <2>2 DEF Stages, Ordering
  <2> QED
    BY <1>0, <1>1, <2>1, <2>2, <2>3, <2>4, AloneKeeps
<1>5. CASE CtlExit(c)
  <2>1. /\ job[c].stage = "exiting" /\ Follows(c) /\ UNCHANGED <<bal, ledger, queue>>
        /\ \A u \in Tasks : job'[u].stage = "idle"
    BY <1>0, <1>5 DEF CtlExit, Step, At, SInv, TakingTurns, Follows
  <2>2. TakingTurns'
    BY <1>0, <2>1, TradeCycleAssumption DEF SInv, TakingTurns, Stages, Solo, Ordering, Tasks
  <2>3. Caused'
    BY <2>1, CausedStays DEF SInv, Ordering
  <2>4. \A u \in Tasks : job[u].stage \notin Ordering
    BY <2>1 DEF Follows, Ordering
  <2>5. Told'
    <3>1. UNCHANGED <<rows, pos>> /\ Table' /\ Shown' = Shown
      BY <1>0, <1>5 DEF CtlExit, Table, InMemory, Shown, position
    <3> QED
      BY <1>0, <2>1, <2>4, <3>1, ToldStays DEF SInv, Ordering, FillQueued
  <2> QED
    BY <2>2, <2>3, <2>5 DEF SInv
<1> QED
  BY <1>2, <1>3, <1>4, <1>5 DEF CtlTask

(* A step after which tasks have still taken turns.                        *)
LEMMA CalmBefore ==
  ASSUME TypeOK, [Next]_vars, calm'
  PROVE  calm
<1>1. CASE TickTask
  BY <1>1 DEF TickTask, TickBegin, TickNoSwitch, TickRegimeClose, TickRegimeTighten, TickPublish, TickHold,
              TickSignal, TickSizeBuy, TickBuy, TickSell, TickNoOrder, CalmIf
<1>2. CASE BusTask
  BY <1>2 DEF BusTask, BusOpen, BusClose, BusMarketTick, BusStopHit, BusStopSell, CalmIf
<1>3. ASSUME NEW c \in Ctl, CtlTask(c) PROVE calm
  BY <1>3 DEF CtlTask, CtlClose, CtlSetStop, CtlEmergency, CtlExit, CtlStop, CtlStart, CtlReadRows, CtlLoad, CalmIf
<1>4. ASSUME NEW t \in Tasks, Pipeline(t) PROVE calm
  BY <1>4 DEF Pipeline, Book, FailOrder, Record, RecordRaises, PublishFill, PublishBuy, CalmIf
<1>5. CASE UNCHANGED vars \/ Time \/ Boot \/ Crash
  BY <1>5 DEF vars, Time, Boot, Crash, CalmIf
<1> QED
  BY <1>1, <1>2, <1>3, <1>4, <1>5 DEF Next

LEMMA StepInTurn ==
  ASSUME TypeOK, Dormant, SInv, [Next]_vars, calm'
  PROVE  SInv'
<1>1. CASE UNCHANGED vars \/ Time
  <2>1. UNCHANGED <<bal, ledger, position, queue, job, loop>>
    BY <1>1 DEF vars, Time, control
  <2> QED
    BY <2>1 DEF SInv, TakingTurns, Caused, Told, Alone, Quiet, Follows, FillQueued, Lots, Shown, Table, InMemory,
                position
<1>2. ASSUME UNCHANGED <<bal, ledger>>, queue' = <<>>, \A t \in Tasks : job'[t].stage = "idle", AtRest,
             Table', Shown' = Shown
      PROVE  SInv'
  <2>1. TakingTurns' /\ Caused'
    BY <1>2, TradeCycleAssumption DEF TakingTurns, Caused, Queues, Stages, Solo, Ordering, Tasks
  <2>2. bal.btc = Lots /\ ledger = Lots
    BY <1>2 DEF SInv, Told, AtRest, Drained, FillQueued, Ordering
  <2>3. Told'
    BY <1>2, <2>2 DEF Told, FillQueued, Lots, Ordering
  <2> QED
    BY <2>1, <2>3 DEF SInv
<1>3. CASE Boot
  <2>1. AtRest /\ UNCHANGED <<bal, ledger, queue, job, rows>> /\ Load(rows) /\ loop' # "down" /\ pos = "none"
    BY <1>3 DEF Boot, Dormant, AtRest, Drained, Tasks
  <2>2. Table' /\ Shown' = Shown
    BY <2>1, LoadInMemory DEF SInv, Told
  <2> QED
    BY <1>2, <2>1, <2>2 DEF AtRest, Drained
<1>4. CASE Crash
  <2>1. /\ AtRest /\ UNCHANGED <<bal, ledger, rows>> /\ loop' = "down" /\ queue' = <<>>
        /\ \A t \in Tasks : job'[t].stage = "idle"
    BY <1>4 DEF Crash, CalmIf, Idle, At
  <2>2. Table' /\ Shown' = Shown
    BY <2>1 DEF SInv, Told, Table, InMemory, Shown
  <2> QED
    BY <1>2, <2>1, <2>2
<1> QED
  BY <1>1, <1>3, <1>4, Runs, PipelineInTurn, TickInTurn, BusInTurn, CtlInTurn DEF Next

(* What the proof keeps: the order of the steps, until something disturbs  *)
(* it for ever.                                                            *)
CInv == calm => SInv

LEMMA CInvStep ==
  ASSUME TypeOK, PInv, CInv, [Next]_vars
  PROVE  CInv'
BY CalmBefore, StepInTurn DEF CInv, PInv

LEMMA InitInTurn == Init => CInv
<1> SUFFICES ASSUME Init PROVE SInv
  BY DEF CInv
<1>1. queue = <<>> /\ \A t \in Tasks : job[t].stage = "idle"
  BY DEF Init, Idle, At
<1>2. TakingTurns
  BY <1>1, TradeCycleAssumption DEF TakingTurns, Queues, Stages, Solo, Ordering, Tasks
<1>3. Caused
  BY <1>1 DEF Caused, Ordering
<1>4. Told
  BY <1>1 DEF Told, Init, FillQueued, Lots, Shown, Table
<1> QED
  BY <1>2, <1>3, <1>4 DEF SInv

(* At rest the position, the balance and the orders table tell the same    *)
(* story (OrderManager, PositionManager), for every number of requests,    *)
(* overlap and fault, through restarts and crashes: what can set them      *)
(* apart is a task that looks at the position while another is about to    *)
(* change it, a write that fails, and a crash in the middle of a trade;    *)
(* nothing else is.                                                        *)
THEOREM AgreesUntilDisturbed == Spec => []AgreesAtRest
<1>1. CInv => AgreesAtRest
  <2> SUFFICES ASSUME SInv, AtRest PROVE (Shown <=> bal.btc # 0) /\ bal.btc = ledger
    BY DEF AgreesAtRest, CInv
  <2>1. ~FillQueued /\ \A t \in Tasks : job[t].stage \notin Ordering
    BY DEF AtRest, Drained, FillQueued, Ordering
  <2> QED
    BY <2>1 DEF SInv, Told, Lots
<1> QED
  BY <1>1, CInvStep, InitInTurn, TypeCorrect, PInvAlways, PTL DEF Spec

LEMMA HoldingPipeline ==
  ASSUME TypeOK, SInv, calm', loop # "down", NEW t \in Tasks, Pipeline(t)
  PROVE  [H!Next]_<<bal.btc, Shown>>
<1>1. CASE Book(t)
  <2>1. job[t].side \in Side /\ bal \in Balance /\ job[t].snap = bal /\ Shown' = Shown
    BY <1>1 DEF Book, TypeOK, Job, SInv, Told, Shown, position, control
  <2>2. bal.btc = Lots /\ Lots = 1 - After(job[t].side) /\ bal'.btc = After(job[t].side)
    BY <1>1, <2>1 DEF Book, SInv, Told, Settle, After, Side, Lots, Shown
  <2> QED
    BY <2>1, <2>2 DEF H!Next, H!Buy, H!Sell, Lots, After, Side
<1>2. CASE FailOrder(t) \/ Record(t) \/ RecordRaises(t) \/ PublishFill(t) \/ PublishBuy(t)
  BY <1>2 DEF FailOrder, Record, RecordRaises, PublishFill, PublishBuy, SetStop, Continue, Shown, position, control
<1> QED
  BY <1>1, <1>2 DEF Pipeline

LEMMA HoldingBus ==
  ASSUME TypeOK, SInv, loop # "down", loop' # "down", BusTask
  PROVE  [H!Next]_<<bal.btc, Shown>>
<1>1. CASE BusOpen
  BY <1>1 DEF BusOpen, Take, SInv, Told, FillQueued, Lots, Shown, H!Next, H!Open
<1>2. CASE BusClose
  BY <1>2 DEF BusClose, Take, SInv, Told, FillQueued, Lots, Shown, H!Next, H!Close
<1>3. CASE BusMarketTick \/ BusStopHit \/ BusStopSell
  BY <1>3 DEF BusMarketTick, BusStopHit, BusStopSell, PlaceOrder, Shown, position
<1> QED
  BY <1>1, <1>2, <1>3 DEF BusTask

LEMMA HoldingStep ==
  ASSUME TypeOK, Dormant, SInv, calm', [Next]_vars
  PROVE  [H!Next]_<<bal.btc, Shown>>
<1>1. CASE TickTask
  <2>1. loop # "down" /\ loop' # "down"
    BY <1>1, Runs
  <2>2. UNCHANGED bal /\ (pos' = "none" <=> pos = "none")
    BY <1>1 DEF TickTask, TickBegin, TickNoSwitch, TickRegimeClose, TickRegimeTighten, TickPublish, TickHold,
                TickSignal, TickSizeBuy, TickBuy, TickSell, TickNoOrder, PlaceOrder, SetStop, position
  <2> QED
    BY <2>1, <2>2 DEF Shown
<1>2. ASSUME NEW c \in Ctl, CtlTask(c)
      PROVE  UNCHANGED <<bal.btc, Shown>>
  <2>0. loop # "down" /\ loop' # "down"
    BY <1>2, Runs
  <2>1. CASE CtlLoad(c)
    <3>1. Load(rows) /\ UNCHANGED <<rows, bal>> /\ Table
      BY <2>1 DEF CtlLoad, SInv, Told, Tasks
    <3> QED
      BY <2>0, <3>1, LoadInMemory
  <2>2. CASE ~CtlLoad(c)
    <3>1. UNCHANGED bal /\ (pos' = "none" <=> pos = "none")
      BY <1>2, <2>2 DEF CtlTask, CtlClose, CtlSetStop, CtlEmergency, CtlExit, CtlStop, CtlStart, CtlReadRows,
                        PlaceOrder, SetStop, position
    <3> QED
      BY <2>0, <3>1 DEF Shown
  <2> QED
    BY <2>1, <2>2
<1>3. CASE UNCHANGED vars \/ Time
  BY <1>3 DEF vars, Time, position, control, Shown
<1>4. CASE Boot
  <2>1. Load(rows) /\ UNCHANGED <<rows, bal>> /\ Table /\ loop' # "down" /\ pos = "none"
    BY <1>4 DEF Boot, Dormant, SInv, Told
  <2> QED
    BY <2>1, LoadInMemory
<1>5. CASE Crash
  BY <1>5 DEF Crash, SInv, Told, Table, InMemory, Shown
<1> QED
  BY <1>1, <1>2, <1>3, <1>4, <1>5, Runs, HoldingPipeline, HoldingBus DEF Next

(* Until something disturbs it, the cycle buys only when it is flat and    *)
(* shows no position, sells only the lot it holds and shows, and the       *)
(* position it shows follows each trade before the next: the order of      *)
(* steps that Holding allows, for every overlap, fault and restart.  (That *)
(* the position does follow, the other half of RefinesHolding, needs       *)
(* fairness.)                                                              *)
THEOREM TradesLikeHolding == Spec => H!Init /\ TradesInOrder
<1>1. Init => H!Init
  BY DEF Init, H!Init, Shown
<1>2. TypeOK /\ PInv /\ CInv /\ [Next]_vars => [calm' => H!Next]_<<bal.btc, Shown>>
  BY CalmBefore, HoldingStep DEF CInv, PInv
<1> QED
  BY <1>1, <1>2, CInvStep, InitInTurn, TypeCorrect, PInvAlways, PTL DEF Spec, TradesInOrder
=============================================================================
