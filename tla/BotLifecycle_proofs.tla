------------------------ MODULE BotLifecycle_proofs ------------------------
(***************************************************************************)
(* What holds of a bot's life for any number of requests and commands and  *)
(* any number of crashes: it is never left in the middle of a tick, and a  *)
(* bot that was stopped by a command trades no more.                       *)
(***************************************************************************)
EXTENDS BotLifecycle, WellFoundedInduction, TLAPS

Types ==
  /\ deployment \in {"embedded", "ipc"}
  /\ state \in State /\ running \in BOOLEAN
  /\ pc \in [Tasks -> Label]
  /\ next \in [Http -> {"idle", "start"}]
  /\ sent \in Seq(Commands) /\ todo \subseteq Range(sent)
  /\ asked \in [Commands -> Endpoints \cup {"none"}]
  /\ row \in [Commands -> {"none", "pending", "processed"}]
  /\ pc["ipc"] # "idle" => sent # <<>>
  /\ pc["tick"] \in {"stopping", "selling", "forced", "mark"} => todo # {}

(* A state in the middle of a routine has a task in that routine: whoever  *)
(* reads the state there will move it on.                                  *)
Carried ==
  /\ state = "VALIDATING" => pc["tick"] = "deciding"
  /\ state = "EXECUTING" => pc["tick"] = "executing"
  /\ state = "LOGGING" => pc["tick"] = "logging"
  /\ state = "STARTING" => \E t \in Tasks : pc[t] = "starting"
  /\ state = "SHUTTING_DOWN" => \E t \in Tasks : pc[t] = "stopping"

-----------------------------------------------------------------------------
(* The earliest of some commands *)

LEMMA LeastExists ==
  ASSUME NEW S, S \subseteq Nat, S # {}
  PROVE  Min(S) \in S
<1>1. PICK m \in S : \A y \in S : ~(<<y, m>> \in OpToRel(<, Nat))
  BY NatLessThanWellFounded, WFMin
<1>2. \A y \in S : m <= y
  <2> SUFFICES ASSUME NEW y \in S, y < m PROVE FALSE
    OBVIOUS
  <2>1. <<y, m>> \in Nat \X Nat
    OBVIOUS
  <2>2. <<y, m>> \in OpToRel(<, Nat)
    BY <2>1 DEF OpToRel
  <2> QED
    BY <1>1, <2>2
<1> QED
  BY <1>2 DEF Min

LEMMA FirstIsOne ==
  ASSUME sent \in Seq(Commands), NEW cs, cs \subseteq Range(sent), cs # {}
  PROVE  First(cs) \in cs
<1>1. {n \in DOMAIN sent : sent[n] \in cs} # {}
  BY DEF Range
<1>2. {n \in DOMAIN sent : sent[n] \in cs} \subseteq Nat
  OBVIOUS
<1> QED
  BY <1>1, <1>2, LeastExists DEF First

-----------------------------------------------------------------------------
(* The routines *)

(* What handling a command does (_handle_command, up to its first await).  *)
Noted(t)    == pc' = [pc EXCEPT ![t] = "mark"] /\ UNCHANGED <<state, saved, running>>
Paused(t)   == /\ pc' = [pc EXCEPT ![t] = "mark"] /\ UNCHANGED running
               /\ state \in {"SCANNING", "MONITORING"} /\ Become("PAUSED")
Halted(t)   == /\ pc' = [pc EXCEPT ![t] = "mark"] /\ UNCHANGED <<state, saved>>
               /\ ~(running /\ state \in Active) /\ running' = FALSE
Stopped(t)  == /\ pc' = [pc EXCEPT ![t] = "stopping"]
               /\ running /\ state \in Active /\ running' = FALSE /\ Become("SHUTTING_DOWN")
Emergency(t) == pc' = [pc EXCEPT ![t] = "selling"] /\ UNCHANGED <<state, saved, running>>
Exit(c) == asked[c] = "emergency_exit"

LEMMA Handled ==
  ASSUME Types, NEW t \in {"tick", "ipc"}, NEW c, Handle(t, c)
  PROVE  /\ UNCHANGED todo
         /\ IF Exit(c) THEN Emergency(t)
            ELSE Noted(t) \/ Paused(t) \/ Halted(t) \/ Stopped(t)
<1>1. t \notin Http
  BY BotLifecycleAssumption
<1> QED
  BY <1>1 DEF Handle, Command, Exit, Emergency, Noted, Paused, Halted, Stopped, Pause, Stop, Return, Goto

LEMMA TypesStep ==
  ASSUME Types, [Next]_vars
  PROVE  Types'
<1>0. {"tick", "ipc"} \subseteq Tasks /\ Http \subseteq Tasks /\ "tick" # "ipc" /\ "tick" \notin Http /\ "ipc" \notin Http
  BY BotLifecycleAssumption DEF Tasks
<1>1. ASSUME NEW t \in Tasks, Routine(t)
      PROVE  Types'
  <2>1. CASE Stopping(t)
    BY <1>0, <2>1 DEF Stopping, Transition, TRANSITIONS, Become, Return, Raise, Goto, process, Types, State, Label
  <2>2. CASE ForceIdle(t)
    BY <1>0, <2>2 DEF ForceIdle, Become, Goto, process, Types, State, Label
  <2>3. CASE Forced(t)
    BY <1>0, <2>3 DEF Forced, Return, Goto, process, store, Types, State, Label
  <2>4. CASE Starting(t)
    BY <1>0, <2>4 DEF Starting, Transition, TRANSITIONS, Become, Return, Raise, Goto, process, Types, State, Label
  <2>5. CASE Mark(t)
    <3>1. CASE t = "tick"
      <4>1. First(todo) \in Commands /\ row' \in [Commands -> {"none", "pending", "processed"}]
        BY <2>5, <3>1, FirstIsOne DEF Mark, Types, Range
      <4> QED
        BY <1>0, <2>5, <3>1, <4>1 DEF Mark, process, Types, State, Label
    <3>2. CASE t # "tick"
      <4>1. row' \in [Commands -> {"none", "pending", "processed"}]
        BY <2>5, <3>2 DEF Mark, Types
      <4> QED
        BY <1>0, <2>5, <3>2, <4>1 DEF Mark, process, Types, State, Label
    <3> QED
      BY <3>1, <3>2
  <2> QED
    BY <1>1, <2>1, <2>2, <2>3, <2>4, <2>5 DEF Routine
<1>2. CASE TickBegin
  BY <1>0, <1>2 DEF TickBegin, Pending, process, store, Types, State, Label
<1>3. CASE TickCommand
  BY <1>0, <1>3, Handled DEF TickCommand, Emergency, Noted, Paused, Halted, Stopped, Become, process, Types, State, Label
<1>4. CASE TickCommandsDone \/ TickFetch \/ TickFinish \/ TickRaises
  BY <1>0, <1>4 DEF TickCommandsDone, TickFetch, TickFinish, TickRaises, Recover, Goto, Become, process, store,
                    Types, State, Label, Resting
<1>5. CASE TickScan \/ TickValidate \/ TickTrade \/ TickLogged
  BY <1>0, <1>5 DEF TickScan, TickValidate, TickTrade, TickLogged, TickTransition, Transition, TRANSITIONS, Recover,
                    Goto, Become, process, Types, State, Label, Resting
<1>6. CASE IpcDispatch
  BY <1>0, <1>6, Handled DEF IpcDispatch, Emergency, Noted, Paused, Halted, Stopped, Become, process, Types, State, Label
<1>7. ASSUME NEW c \in Commands, NEW e \in Endpoints, IpcReceive(c, e)
      PROVE  Types'
  <2>1. sent' \in Seq(Commands) /\ sent' # <<>> /\ Range(sent) \subseteq Range(sent')
    <3>1. sent' = Append(sent, c) /\ sent \in Seq(Commands)
      BY <1>7 DEF IpcReceive, Types
    <3>2. /\ sent' \in Seq(Commands) /\ sent' # <<>>
          /\ \A n \in DOMAIN sent : n \in DOMAIN sent' /\ sent'[n] = sent[n]
      BY <3>1
    <3> QED
      BY <3>2 DEF Range
  <2> QED
    BY <1>0, <1>7, <2>1 DEF IpcReceive, Goto, process, Types, State, Label
<1>8. ASSUME NEW h \in Http, HttpStop(h) \/ HttpStart(h)
      PROVE  Types'
  <2>1. PICK l \in Label :
           /\ pc' = [pc EXCEPT ![h] = l] /\ state' \in State /\ running' \in BOOLEAN
           /\ next' \in [Http -> {"idle", "start"}]
           /\ UNCHANGED <<process, sent, asked, row, todo>>
    <3>1. CASE HttpStop(h)
      BY <1>0, <3>1 DEF HttpStop, Goto, Become, Types, State, Label
    <3>2. CASE HttpStart(h)
      BY <1>0, <3>2 DEF HttpStart, Start, Goto, Become, Types, State, Label
    <3> QED
      BY <1>8, <3>1, <3>2
  <2> QED
    BY <1>0, <2>1 DEF process, Types
<1>9. CASE Boot \/ UNCHANGED vars
  BY <1>9 DEF Boot, Become, vars, process, store, Types, State
<1>10. CASE Crash
  BY <1>0, <1>10 DEF Crash, process, store, Types, State, Label
<1> QED
  BY <1>0, <1>1, <1>2, <1>3, <1>4, <1>5, <1>6, <1>7, <1>8, <1>9, <1>10
  DEF Next, TickTask, IpcTask, HttpTask

-----------------------------------------------------------------------------
(* In the middle of a tick *)

(* A step that leaves the state alone, or where it is at rest, takes       *)
(* nobody away from a routine that carries it.                             *)
LEMMA CarriedStep ==
  ASSUME Types, Carried, [Next]_vars
  PROVE  Carried'
<1>0. {"tick", "ipc"} \subseteq Tasks /\ Http \subseteq Tasks /\ "tick" # "ipc" /\ "tick" \notin Http /\ "ipc" \notin Http
  BY BotLifecycleAssumption DEF Tasks
<1>1. ASSUME NEW t \in Tasks, Routine(t)
      PROVE  Carried'
  <2>0. \A l : pc' = [pc EXCEPT ![t] = l] => \A u \in Tasks : pc'[u] = IF u = t THEN l ELSE pc[u]
    BY DEF Types
  <2>1. CASE Stopping(t)
    BY <1>0, <2>0, <2>1 DEF Stopping, Transition, TRANSITIONS, Become, Return, Raise, Goto, Types, State, Carried
  <2>2. CASE ForceIdle(t)
    BY <1>0, <2>0, <2>2 DEF ForceIdle, Become, Goto, Types, State, Carried
  <2>3. CASE Forced(t)
    BY <1>0, <2>0, <2>3 DEF Forced, Return, Goto, Types, State, Carried
  <2>4. CASE Starting(t)
    BY <1>0, <2>0, <2>4 DEF Starting, Transition, TRANSITIONS, Become, Return, Raise, Goto, Types, State, Carried
  <2>5. CASE Mark(t)
    BY <1>0, <2>0, <2>5 DEF Mark, Carried
  <2> QED
    BY <1>1, <2>1, <2>2, <2>3, <2>4, <2>5 DEF Routine
<1>2. CASE TickBegin
  BY <1>0, <1>2 DEF TickBegin, Types, Carried
<1>3. CASE TickCommand
  <2>1. pc["tick"] = "commands" /\ (Emergency("tick") \/ Noted("tick") \/ Paused("tick") \/ Halted("tick") \/ Stopped("tick"))
    BY <1>3, Handled DEF TickCommand
  <2>2. \A l : pc' = [pc EXCEPT !["tick"] = l] => \A u \in Tasks : pc'[u] = IF u = "tick" THEN l ELSE pc[u]
    BY <1>0 DEF Types
  <2>3. CASE Emergency("tick") \/ Noted("tick") \/ Halted("tick")
    BY <1>0, <2>1, <2>2, <2>3 DEF Emergency, Noted, Halted, Carried
  <2>4. CASE Paused("tick")
    BY <2>4 DEF Paused, Become, Carried
  <2>5. CASE Stopped("tick")
    BY <1>0, <2>2, <2>5 DEF Stopped, Become, Carried
  <2> QED
    BY <2>1, <2>3, <2>4, <2>5
<1>4. CASE TickCommandsDone \/ TickFetch \/ TickFinish \/ TickRaises
  <2>1. CASE TickCommandsDone \/ TickFetch
    BY <1>0, <2>1 DEF TickCommandsDone, TickFetch, Goto, Types, Carried
  <2>2. CASE TickFinish
    BY <1>0, <2>2 DEF TickFinish, Goto, Become, Types, State, Carried
  <2>3. CASE TickRaises
    BY <1>0, <2>3 DEF TickRaises, Recover, Goto, Become, Types, State, Resting, Carried
  <2> QED
    BY <1>4, <2>1, <2>2, <2>3
<1>5. CASE TickScan \/ TickValidate \/ TickTrade \/ TickLogged
  <2>0. \A l : pc' = [pc EXCEPT !["tick"] = l] => \A u \in Tasks : pc'[u] = IF u = "tick" THEN l ELSE pc[u]
    BY <1>0 DEF Types
  <2>1. CASE TickScan
    BY <1>0, <2>0, <2>1 DEF TickScan, TickTransition, Transition, TRANSITIONS, Goto, Become, Carried
  <2>2. CASE TickValidate
    <3>1. PICK from \in {"publishing", "scanned"} : TickTransition(from, "VALIDATING", "deciding")
      BY <2>2 DEF TickValidate
    <3> QED
      BY <1>0, <2>0, <3>1 DEF TickTransition, Transition, TRANSITIONS, Recover, Goto, Become, Types, State,
                              Resting, Carried
  <2>3. CASE TickTrade
    BY <1>0, <2>0, <2>3 DEF TickTrade, TickTransition, Transition, TRANSITIONS, Recover, Goto, Become, Types, State,
                            Resting, Carried
  <2>4. CASE TickLogged
    BY <1>0, <2>0, <2>4 DEF TickLogged, TickTransition, Transition, TRANSITIONS, Recover, Goto, Become, Types, State,
                            Resting, Carried
  <2> QED
    BY <1>5, <2>1, <2>2, <2>3, <2>4
<1>6. CASE IpcDispatch
  <2>1. pc["ipc"] = "dispatch" /\ (Emergency("ipc") \/ Noted("ipc") \/ Paused("ipc") \/ Halted("ipc") \/ Stopped("ipc"))
    BY <1>6, Handled DEF IpcDispatch
  <2>2. \A l : pc' = [pc EXCEPT !["ipc"] = l] => \A u \in Tasks : pc'[u] = IF u = "ipc" THEN l ELSE pc[u]
    BY <1>0 DEF Types
  <2>3. CASE Emergency("ipc") \/ Noted("ipc") \/ Halted("ipc")
    BY <1>0, <2>1, <2>2, <2>3 DEF Emergency, Noted, Halted, Carried
  <2>4. CASE Paused("ipc")
    BY <2>4 DEF Paused, Become, Carried
  <2>5. CASE Stopped("ipc")
    BY <1>0, <2>2, <2>5 DEF Stopped, Become, Carried
  <2> QED
    BY <2>1, <2>3, <2>4, <2>5
<1>7. ASSUME NEW c \in Commands, NEW e \in Endpoints, IpcReceive(c, e)
      PROVE  Carried'
  BY <1>0, <1>7 DEF IpcReceive, Goto, Types, Carried
<1>8. ASSUME NEW h \in Http, HttpStop(h) \/ HttpStart(h)
      PROVE  Carried'
  <2>1. CASE HttpStop(h)
    BY <1>0, <2>1 DEF HttpStop, Goto, Become, Types, State, Carried
  <2>2. CASE HttpStart(h)
    BY <1>0, <2>2 DEF HttpStart, Start, Goto, Become, Types, State, Carried
  <2> QED
    BY <1>8, <2>1, <2>2
<1>9. CASE Boot \/ UNCHANGED vars
  BY <1>9 DEF Boot, Become, vars, process, store, Carried
<1>10. CASE Crash
  BY <1>0, <1>10 DEF Crash, Carried
<1> QED
  BY <1>0, <1>1, <1>2, <1>3, <1>4, <1>5, <1>6, <1>7, <1>8, <1>9, <1>10
  DEF Next, TickTask, IpcTask, HttpTask

LEMMA InitTyped ==
  ASSUME Init
  PROVE  Types /\ Carried
<1>1. /\ "tick" \in Tasks /\ "ipc" \in Tasks
      /\ \A t \in Tasks : pc[t] = "idle"
      /\ pc \in [Tasks -> Label]
  BY DEF Init, Tasks, Label
<1>2. /\ deployment \in {"embedded", "ipc"} /\ state \in State /\ running \in BOOLEAN
      /\ sent \in Seq(Commands) /\ todo \subseteq Range(sent)
  <2>1. <<>> \in Seq(Commands) /\ todo = {} /\ sent = <<>>
    BY DEF Init
  <2>2. deployment \in {"embedded", "ipc"}
    BY BotLifecycleAssumption DEF Init
  <2>3. state \in State /\ running \in BOOLEAN
    BY DEF Init, State
  <2> QED
    BY <2>1, <2>2, <2>3
<1>3. /\ next \in [Http -> {"idle", "start"}]
      /\ asked \in [Commands -> Endpoints \cup {"none"}]
      /\ row \in [Commands -> {"none", "pending", "processed"}]
  BY DEF Init
<1>4. state = "IDLE"
  BY DEF Init
<1> QED
  BY <1>1, <1>2, <1>3, <1>4 DEF Types, Carried

(* However many requests and commands cut into each other and into a tick, *)
(* whatever dies in between: when every task is idle the bot can tick, or  *)
(* is paused or idle (StateMachine, TradingLoop.tick).                     *)
THEOREM NeverLeftMidTick == Spec => []NeverStuckMidTick
<1>1. Init => Types /\ Carried
  BY InitTyped
<1>2. Types /\ Carried /\ [Next]_vars => Types' /\ Carried'
  BY TypesStep, CarriedStep
<1>3. Types /\ Carried => NeverStuckMidTick
  BY DEF Types, Carried, NeverStuckMidTick, AtRest, State, Resting, Tasks
<1> QED
  BY <1>1, <1>2, <1>3, PTL DEF Spec
-----------------------------------------------------------------------------
(* A bot that was stopped: commands only, so no request starts it again     *)

Earliest(s, cs) == s[Min({n \in DOMAIN s : s[n] \in cs})]
Exits(cs) == \E c \in cs : Exit(c)

(* The tick has an emergency exit before it, which forces IDLE.            *)
ToExit == \/ pc["tick"] = "selling"
          \/ pc["tick"] = "commands" /\ Exits(todo)
          \/ pc["tick"] = "mark" /\ Exits(todo \ {Earliest(sent, todo)})

(* Who can be where when commands are the only clients.                    *)
Serving ==
  /\ \A h \in Http : pc[h] = "idle"
  /\ pc["tick"] \notin {"starting", "start", "dispatch"}
  /\ pc["ipc"] \in {"idle", "dispatch", "stopping", "selling", "forced", "mark"}
  /\ ~alive => pc["tick"] = "idle" /\ pc["ipc"] = "idle"

(* A tick that is in stop() or _emergency_exit() has ended its own trading. *)
Closing ==
  /\ pc["tick"] = "stopping" \/ pc["ipc"] = "stopping" => ~running
  /\ pc["tick"] \in {"stopping", "forced"} => state \in {"SHUTTING_DOWN", "IDLE"}

(* An emergency exit that is dispatched is still to be polled by the tick, *)
(* or has been handled by it and has stopped the bot.                      *)
Leaving ==
  /\ pc["tick"] \in {"selling", "forced"} => Exit(Earliest(sent, todo))
  /\ pc["tick"] = "mark" /\ Exit(Earliest(sent, todo)) => ~running
  /\ pc["ipc"] \in {"selling", "forced"} => Exit(Last(sent))
  /\ pc["ipc"] \in {"dispatch", "selling", "forced"} /\ Exit(Last(sent)) =>
       row[Last(sent)] = "pending" \/ ~running

(* While the bot is stopped no tick is on its way to VALIDATING; and a     *)
(* dispatched exit, between IDLE and `running`, lets none get there.       *)
Quiet ==
  /\ ~running => /\ state # "VALIDATING"
                 /\ state \in {"SCANNING", "MONITORING"} => pc["tick"] = "idle" \/ ToExit
  /\ pc["ipc"] = "forced" /\ running =>
       state = "IDLE" \/ (state = "SCANNING" /\ pc["tick"] = "idle") \/ ToExit

Halts == Serving /\ Closing /\ Leaving /\ Quiet

(* A command that is sent later does not come before them.                 *)
LEMMA EarliestStays ==
  ASSUME NEW s \in Seq(Commands), NEW cs, cs \subseteq Range(s), cs # {}, NEW c, c \notin Range(s)
  PROVE  Earliest(Append(s, c), cs) = Earliest(s, cs)
<1> DEFINE r == Append(s, c)
           S == {n \in DOMAIN s : s[n] \in cs}
           T == {n \in DOMAIN r : r[n] \in cs}
<1>1. T = S
  BY DEF Range
<1>2. S # {} /\ S \subseteq Nat
  BY DEF Range
<1>3. Min(S) \in S
  BY <1>2, LeastExists
<1>4. r[Min(S)] = s[Min(S)]
  BY <1>3
<1> QED
  BY <1>1, <1>4 DEF Earliest

LEMMA FirstEarliest ==
  ASSUME NEW cs
  PROVE  First(cs) = Earliest(sent, cs)
  BY DEF First, Earliest

LEMMA HaltsStep ==
  ASSUME Types, Carried, Halts, deployment = "ipc", [Next]_vars
  PROVE  Halts'
<1>0. {"tick", "ipc"} \subseteq Tasks /\ Http \subseteq Tasks /\ "tick" # "ipc" /\ "tick" \notin Http /\ "ipc" \notin Http
      /\ Tasks = {"tick", "ipc"} \cup Http
  BY BotLifecycleAssumption DEF Tasks
<1> DEFINE F == Earliest(sent, todo)
<1>a. F = First(todo) /\ (todo # {} => F \in todo)
  BY FirstEarliest, FirstIsOne DEF Types
<1>b. \A t, l : t \in Tasks /\ pc' = [pc EXCEPT ![t] = l] => \A u \in Tasks : pc'[u] = IF u = t THEN l ELSE pc[u]
  BY DEF Types
<1>1. ASSUME NEW t \in {"tick", "ipc"}, Routine(t)
      PROVE  Halts'
  <2>1. CASE Stopping(t)
    BY <1>0, <1>a, <1>b, <2>1 DEF Stopping, Transition, TRANSITIONS, Become, Return, Raise, Goto, process,
       Types, State, Halts, Serving, Closing, Leaving, Quiet, ToExit, Exits, Exit
  <2>2. CASE ForceIdle(t)
    BY <1>0, <1>a, <1>b, <2>2 DEF ForceIdle, Become, Goto, process,
       Types, State, Halts, Serving, Closing, Leaving, Quiet, ToExit, Exits, Exit
  <2>3. CASE Forced(t)
    <3>1. /\ pc[t] = "forced" /\ pc' = [pc EXCEPT ![t] = "mark"] /\ running' = FALSE
          /\ UNCHANGED <<deployment, alive, state, sent, asked, row, todo>>
      BY <1>0, <2>3 DEF Forced, Return, Goto, process, store
    <3>2. CASE t = "tick"
      BY <1>0, <1>a, <1>b, <3>1, <3>2 DEF Halts, Serving, Closing, Leaving, Quiet, ToExit, Exits, Exit
    <3>3. CASE t = "ipc"
      <4>1. Serving' /\ Closing' /\ Leaving'
        BY <1>0, <1>b, <3>1, <3>3 DEF Halts, Serving, Closing, Leaving, Exit
      <4>2. ToExit' <=> ToExit
        BY <1>0, <1>b, <3>1, <3>3 DEF ToExit, Exits, Exit
      <4>3. ToExit => state # "VALIDATING"
        BY DEF ToExit, Carried
      <4>4. Quiet'
        BY <1>0, <1>b, <3>1, <3>3, <4>2, <4>3 DEF Halts, Quiet
      <4> QED
        BY <4>1, <4>4 DEF Halts
    <3> QED
      BY <3>2, <3>3
  <2>4. CASE Starting(t)
    BY <2>4 DEF Starting, Halts, Serving
  <2>5. CASE Mark(t)
    BY <1>0, <1>a, <1>b, <2>5 DEF Mark, process,
       Types, State, Halts, Serving, Closing, Leaving, Quiet, ToExit, Exits, Exit
  <2> QED
    BY <1>1, <2>1, <2>2, <2>3, <2>4, <2>5 DEF Routine
<1>2. CASE TickBegin
  <2>1. /\ running /\ pc["tick"] = "idle" /\ pc' = [pc EXCEPT !["tick"] = "commands"] /\ todo' = Pending /\ alive
        /\ UNCHANGED <<deployment, alive, state, running, sent, asked, row>>
    BY <1>2 DEF TickBegin, process, store
  <2>2. Serving' /\ Closing' /\ Leaving'
    BY <1>0, <1>b, <2>1 DEF Halts, Serving, Closing, Leaving, Exit
  <2>3. ASSUME pc["ipc"] = "forced"
        PROVE  Last(sent) \in Pending /\ Exit(Last(sent))
    <3>1. Last(sent) \in Range(sent)
      BY <2>3 DEF Types, Range, Last
    <3> QED
      BY <2>1, <2>3, <3>1 DEF Pending, Halts, Leaving, Exit
  <2>4. Quiet'
    BY <1>0, <1>b, <2>1, <2>3 DEF Halts, Quiet, ToExit, Exits, Exit
  <2> QED
    BY <2>2, <2>4 DEF Halts
<1>3. CASE TickCommand
  <2>1. /\ pc["tick"] = "commands" /\ todo # {} /\ UNCHANGED <<process, next, sent, asked, row, todo>>
        /\ IF Exit(F) THEN Emergency("tick")
           ELSE Noted("tick") \/ Paused("tick") \/ Halted("tick") \/ Stopped("tick")
    BY <1>3, <1>a, Handled DEF TickCommand
  <2>3. CASE Emergency("tick") /\ Exit(F)
    BY <1>0, <1>a, <1>b, <2>1, <2>3 DEF Emergency, process, Halts, Serving, Closing, Leaving, Quiet, ToExit, Exits, Exit
  <2>4. CASE Noted("tick") /\ ~Exit(F)
    BY <1>0, <1>a, <1>b, <2>1, <2>4 DEF Noted, process, Halts, Serving, Closing, Leaving, Quiet, ToExit, Exits, Exit
  <2>5. CASE Paused("tick") /\ ~Exit(F)
    BY <1>0, <1>a, <1>b, <2>1, <2>5 DEF Paused, Become, process, Halts, Serving, Closing, Leaving, Quiet, ToExit, Exits, Exit
  <2>6. CASE Halted("tick") /\ ~Exit(F)
    BY <1>0, <1>a, <1>b, <2>1, <2>6 DEF Halted, Active, process, Halts, Serving, Closing, Leaving, Quiet, ToExit, Exits, Exit
  <2>7. CASE Stopped("tick") /\ ~Exit(F)
    BY <1>0, <1>a, <1>b, <2>1, <2>7 DEF Stopped, Become, process, Halts, Serving, Closing, Leaving, Quiet, ToExit, Exits, Exit
  <2> QED
    BY <2>1, <2>3, <2>4, <2>5, <2>6, <2>7
<1>4. CASE TickCommandsDone \/ TickFetch
  BY <1>0, <1>a, <1>b, <1>4 DEF TickCommandsDone, TickFetch, Goto, process, store,
       Halts, Serving, Closing, Leaving, Quiet, ToExit, Exits, Exit
<1>5. CASE TickFinish
  BY <1>0, <1>a, <1>b, <1>5 DEF TickFinish, Goto, Become, process,
       Halts, Serving, Closing, Leaving, Quiet, ToExit, Exits, Exit
<1>6. CASE TickRaises
  <2>1. /\ pc["tick"] \in {"fetching", "deciding", "executing"} /\ pc' = [pc EXCEPT !["tick"] = "idle"]
        /\ state' = IF state \in Resting THEN state ELSE "SCANNING"
        /\ UNCHANGED <<deployment, alive, running, sent, asked, row, todo>>
    BY <1>6 DEF TickRaises, Recover, Goto, Become, process
  <2>2. Serving' /\ Closing' /\ Leaving'
    BY <1>0, <1>b, <2>1 DEF Halts, Serving, Closing, Leaving, Exit
  <2>3. Quiet'
    <3>0. pc["tick"] \in {"fetching", "deciding", "executing"}
      BY <2>1
    <3>1. ~ToExit /\ pc["tick"] # "idle"
      BY <3>0 DEF ToExit
    <3>3. pc'["tick"] = "idle" /\ pc'["ipc"] = pc["ipc"]
      <4>1. "tick" \in Tasks /\ "ipc" \in Tasks /\ "ipc" # "tick" /\ pc \in [Tasks -> Label]
        BY <1>0 DEF Types
      <4>2. pc' = [pc EXCEPT !["tick"] = "idle"]
        BY <2>1
      <4> QED
        BY <4>1, <4>2
    <3>2. state' # "VALIDATING" /\ (state = "IDLE" => state' = "SCANNING")
      BY <2>1 DEF Resting
    <3> QED
      BY <2>1, <3>1, <3>2, <3>3 DEF Halts, Quiet
  <2> QED
    BY <2>2, <2>3 DEF Halts
<1>7. CASE TickScan
  BY <1>0, <1>a, <1>b, <1>7 DEF TickScan, TickTransition, Transition, TRANSITIONS, Goto, Become, process,
       Halts, Serving, Closing, Leaving, Quiet, ToExit, Exits, Exit
<1>8. CASE TickValidate
  <2>1. PICK from \in {"publishing", "scanned"} : TickTransition(from, "VALIDATING", "deciding")
    BY <1>8 DEF TickValidate
  <2> QED
    BY <1>0, <1>a, <1>b, <2>1 DEF TickTransition, Transition, TRANSITIONS, Recover, Resting, Goto, Become, process,
       Types, State, Halts, Serving, Closing, Leaving, Quiet, ToExit, Exits, Exit
<1>9. CASE TickTrade
  BY <1>0, <1>a, <1>b, <1>9 DEF TickTrade, TickTransition, Transition, TRANSITIONS, Recover, Resting, Goto, Become, process,
       Types, State, Halts, Serving, Closing, Leaving, Quiet, ToExit, Exits, Exit
<1>10. CASE TickLogged
  BY <1>0, <1>a, <1>b, <1>10 DEF TickLogged, TickTransition, Transition, TRANSITIONS, Recover, Resting, Goto, Become, process,
       Types, State, Halts, Serving, Closing, Leaving, Quiet, ToExit, Exits, Exit
<1>11. CASE IpcDispatch
  <2>1. /\ pc["ipc"] = "dispatch" /\ UNCHANGED <<process, next, sent, asked, row, todo>>
        /\ IF Exit(Last(sent)) THEN Emergency("ipc")
           ELSE Noted("ipc") \/ Paused("ipc") \/ Halted("ipc") \/ Stopped("ipc")
    BY <1>11, Handled DEF IpcDispatch
  <2>3. CASE Emergency("ipc") /\ Exit(Last(sent))
    BY <1>0, <1>a, <1>b, <2>1, <2>3 DEF Emergency, process, Halts, Serving, Closing, Leaving, Quiet, ToExit, Exits, Exit
  <2>4. CASE Noted("ipc")
    BY <1>0, <1>a, <1>b, <2>1, <2>4 DEF Noted, process, Halts, Serving, Closing, Leaving, Quiet, ToExit, Exits, Exit
  <2>5. CASE Paused("ipc")
    BY <1>0, <1>a, <1>b, <2>1, <2>5 DEF Paused, Become, process, Halts, Serving, Closing, Leaving, Quiet, ToExit, Exits, Exit
  <2>6. CASE Halted("ipc")
    BY <1>0, <1>a, <1>b, <2>1, <2>6 DEF Halted, Active, process, Halts, Serving, Closing, Leaving, Quiet, ToExit, Exits, Exit
  <2>7. CASE Stopped("ipc")
    BY <1>0, <1>a, <1>b, <2>1, <2>7 DEF Stopped, Become, Active, process, Halts, Serving, Closing, Leaving, Quiet, ToExit, Exits, Exit
  <2> QED
    BY <2>1, <2>3, <2>4, <2>5, <2>6, <2>7
<1>12. ASSUME NEW c \in Commands, NEW e \in Endpoints, IpcReceive(c, e)
       PROVE  Halts'
  <2>1. Last(sent') = c /\ row'[c] = "pending" /\ todo' = todo
    <3>1. sent' = Append(sent, c) /\ sent \in Seq(Commands) /\ row' = [row EXCEPT ![c] = "pending"] /\ todo' = todo
      BY <1>12 DEF IpcReceive, Goto, Types
    <3>2. Len(sent') = Len(sent) + 1 /\ sent'[Len(sent) + 1] = c
      BY <3>1
    <3> QED
      BY <3>1, <3>2 DEF Last, Types
  <2>2. todo # {} => Earliest(sent', todo') = F
    <3> SUFFICES ASSUME todo # {} PROVE Earliest(sent', todo) = Earliest(sent, todo)
      BY <2>1
    <3>1. /\ sent \in Seq(Commands) /\ todo \subseteq Range(sent)
          /\ c \notin Range(sent) /\ sent' = Append(sent, c)
      BY <1>12 DEF IpcReceive, Types
    <3> QED
      BY <3>1, EarliestStays
  <2>3. \A d \in Range(sent) : asked'[d] = asked[d]
    BY <1>12 DEF IpcReceive, Types
  <2>4. todo \subseteq Range(sent)
    BY DEF Types
  <2> QED
    BY <1>0, <1>a, <1>b, <1>12, <2>1, <2>2, <2>3, <2>4 DEF IpcReceive, Goto, process, Types,
       Halts, Serving, Closing, Leaving, Quiet, ToExit, Exits, Exit
<1>13. ASSUME NEW h \in Http, HttpTask(h)
       PROVE  FALSE
  BY <1>13 DEF HttpTask, HttpStop, HttpStart, Routine, Stopping, ForceIdle, Forced, Starting, Mark, Halts, Serving
<1>14. CASE UNCHANGED vars
  BY <1>14 DEF vars, process, store, Halts, Serving, Closing, Leaving, Quiet, ToExit, Exits, Exit
<1>15. CASE Boot
  BY <1>15 DEF Boot, Become, Halts, Serving, Closing, Leaving, Quiet, ToExit, Exits, Exit
<1>16. CASE Crash
  BY <1>0, <1>16 DEF Crash, store, Halts, Serving, Closing, Leaving, Quiet, ToExit, Exits, Exit
<1> QED
  BY <1>1, <1>2, <1>3, <1>4, <1>5, <1>6, <1>7, <1>8, <1>9, <1>10, <1>11, <1>12, <1>13, <1>14, <1>15, <1>16
  DEF Next, TickTask, IpcTask

Commanded == deployment = "ipc" => Halts

(* A tick that was under way when a command stopped the bot places no      *)
(* order any more: EXECUTING is entered only while `running` holds (stop,  *)
(* _emergency_exit and tick of TradingLoop).                               *)
THEOREM StoppedTradesNoMore == Spec => StopEndsTrading
<1>1. Init => Types /\ Carried
  BY InitTyped
<1>2. Init => Commanded
  BY BotLifecycleAssumption DEF Init, Commanded, Halts, Serving, Closing, Leaving, Quiet, Tasks
<1>3. Types /\ [Next]_vars => deployment' = deployment
  BY DEF Next, TickTask, IpcTask, HttpTask, Routine, TickBegin, TickCommand, TickCommandsDone, TickFetch, TickScan,
     TickValidate, TickTrade, TickFinish, TickRaises, TickLogged, TickTransition, IpcDispatch, IpcReceive, Stopping,
     ForceIdle, Forced, Starting, Mark, HttpStop, HttpStart, Boot, Crash, process, vars
<1>4. Types /\ Carried /\ Commanded /\ [Next]_vars => Types' /\ Carried' /\ Commanded'
  BY <1>3, TypesStep, CarriedStep, HaltsStep DEF Commanded
<1>5. Types /\ Commanded /\ [Next]_vars =>
        (deployment = "ipc" /\ state # "EXECUTING" /\ state' = "EXECUTING" => running)
  <2> SUFFICES ASSUME Types, Halts, deployment = "ipc", Next, state # "EXECUTING", state' = "EXECUTING"
               PROVE  running
    BY DEF Commanded, vars
  <2>1. ~(\E h \in Http : HttpTask(h))
    BY DEF HttpTask, HttpStop, HttpStart, Routine, Stopping, ForceIdle, Forced, Starting, Mark, Halts, Serving
  <2>2. ~Boot /\ ~Crash /\ ~(\E c \in Commands, e \in Endpoints : IpcReceive(c, e))
    BY DEF Boot, Crash, IpcReceive, Become
  <2>3. ASSUME NEW t \in {"tick", "ipc"} PROVE ~Routine(t)
    BY DEF Routine, Stopping, ForceIdle, Forced, Starting, Mark, Transition, TRANSITIONS, Become, Raise
  <2>4. ~TickCommand /\ ~IpcDispatch
    BY Handled DEF TickCommand, IpcDispatch, Emergency, Noted, Paused, Halted, Stopped, Become
  <2>5. ~TickBegin /\ ~TickCommandsDone /\ ~TickFetch /\ ~TickRaises /\ ~TickFinish
    BY DEF TickBegin, TickCommandsDone, TickFetch, TickRaises, TickFinish, Recover, Become
  <2>6. ~TickScan /\ ~TickValidate /\ ~TickLogged
    BY DEF TickScan, TickValidate, TickLogged, TickTransition, Transition, TRANSITIONS, Recover, Become
  <2>7. TickTrade
    BY <2>1, <2>2, <2>3, <2>4, <2>5, <2>6 DEF Next, TickTask, IpcTask
  <2>8. state = "VALIDATING"
    BY <2>7 DEF TickTrade, TickTransition, Transition, TRANSITIONS, Recover, Become, Types, State
  <2> QED
    BY <2>8 DEF Types, Halts, Quiet
<1> QED
  BY <1>1, <1>2, <1>4, <1>5, PTL DEF Spec, StopEndsTrading
=============================================================================
