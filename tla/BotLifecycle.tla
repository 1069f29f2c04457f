---------------------------- MODULE BotLifecycle ----------------------------
(***************************************************************************)
(* The life of one bot: StateMachine and the lifecycle half of TradingLoop *)
(* (start, stop, pause, resume, emergency exit, and the transitions of a   *)
(* tick), driven by its ticks, by HTTP requests of the embedded API        *)
(* (/engine/start, stop, restart) and by the commands that IPCServer saves *)
(* and dispatches and that a tick polls again from the bot_commands table. *)
(* run_paper.py serves the API and no IPCServer, bootstrap() the reverse:  *)
(* `deployment` says which; in both the store is connected before Boot.    *)
(*                                                                         *)
(* Every transition awaits the store after it has changed the state, so    *)
(* the tasks interleave between the transitions of each other's routines.  *)
(* An action is the code from one await to the next; statements take       *)
(* effect when they are issued (one connection thread runs them in order), *)
(* and the store does not fail: TradeCycle has failing writes.             *)
(***************************************************************************)
EXTENDS Naturals, Sequences, SequencesExt, FiniteSetsExt

CONSTANTS Deployments, \* subset of {"embedded", "ipc"}
          Http,        \* requests of the embedded API in flight together
          Commands,    \* ids of the commands a client may send, one by one
          Endpoints,   \* the /bots endpoints the client uses
          MaxCrashes   \* bound: how often the process dies

ASSUME BotLifecycleAssumption ==
    /\ Deployments \subseteq {"embedded", "ipc"}
    /\ {"tick", "ipc"} \cap Http = {}
    /\ Endpoints \subseteq {"start", "stop", "pause", "resume", "emergency_exit",
                            "emergency_stop"}
    /\ MaxCrashes \in Nat

VARIABLES
    deployment, \* who serves the clients: never changes
    alive,     \* does the process run?
    crashes,
    state,     \* StateMachine._state
    saved,     \* the bot_state row
    running,   \* TradingLoop._running
    pc,        \* pc[t]: where task t is suspended
    next,      \* next[h]: what request h does after the routine it is in
    sent,      \* bot_commands, in the order of created_at
    asked,     \* asked[c]: the endpoint command c came from
    row,       \* row[c]: the status of its row
    runs,      \* runs[c]: how often it was handled, counted up to 2
    todo       \* the commands that are left of those the tick has read

process == <<deployment, alive, crashes>>
store == <<saved, sent, asked, row>>
vars == <<deployment, alive, crashes, state, saved, running, pc, next, sent, asked, row, runs,
          todo>>

Tasks == {"tick", "ipc"} \cup Http
State == {"IDLE", "STARTING", "SCANNING", "VALIDATING", "EXECUTING", "LOGGING",
          "MONITORING", "PAUSED", "SHUTTING_DOWN"}
Active  == {"SCANNING", "VALIDATING", "EXECUTING", "LOGGING", "MONITORING"}
Resting == {"SCANNING", "MONITORING", "PAUSED"}  \* where a tick may leave the bot

TRANSITIONS ==
    [IDLE |-> {"STARTING"},
     STARTING |-> {"SCANNING", "SHUTTING_DOWN"},
     SCANNING |-> {"VALIDATING", "PAUSED", "SHUTTING_DOWN"},
     VALIDATING |-> {"EXECUTING", "SCANNING", "SHUTTING_DOWN"},
     EXECUTING |-> {"LOGGING", "SHUTTING_DOWN"},
     LOGGING |-> {"MONITORING", "SHUTTING_DOWN"},
     MONITORING |-> {"SCANNING", "PAUSED", "SHUTTING_DOWN"},
     PAUSED |-> {"SCANNING", "SHUTTING_DOWN"},
     SHUTTING_DOWN |-> {"IDLE"}]

Label == {"idle",
          "commands", "fetching", "publishing", "scanned", "deciding", "executing",
          "logging",                                    \* tick()
          "dispatch", "mark",                           \* a command
          "stopping", "selling", "forced",              \* stop(), _emergency_exit()
          "starting", "start"}                          \* start(), /engine/restart

\* The command an endpoint of api/routes/bots.py sends for its strategy.
Command(endpoint) == IF endpoint = "resume" THEN "start" ELSE endpoint

AtRest == \A t \in Tasks : pc[t] = "idle"

\* The earliest of some commands that were sent.
First(cs) == sent[Min({n \in DOMAIN sent : sent[n] \in cs})]

-----------------------------------------------------------------------------
(* StateMachine *)

Become(s) == state' = s /\ saved' = s

\* transition() from a state that does not allow it raises.
Transition(target, done, raised) ==
    IF target \in TRANSITIONS[state] THEN Become(target) /\ done ELSE raised

-----------------------------------------------------------------------------
(* Control flow: how a routine of task t goes on, returns, or raises. *)

Goto(t, label) == pc' = [pc EXCEPT ![t] = label] /\ UNCHANGED todo

\* A handled command is marked as processed; a request answers.
Return(t) == Goto(t, IF t \in Http THEN next[t] ELSE "mark")

\* The exception of a command is logged and its row stays pending: a tick goes on
\* with the next command.
Raise(t) ==
    /\ pc' = [pc EXCEPT ![t] = IF t = "tick" THEN "commands" ELSE "idle"]
    /\ todo' = IF t = "tick" THEN todo \ {First(todo)} ELSE todo
    /\ UNCHANGED <<state, saved>>

-----------------------------------------------------------------------------
(* The routines of TradingLoop *)

\* stop(): `running` goes first, ...
Stop(t) ==
    /\ running' = FALSE
    /\ IF running /\ state \in Active
       THEN Become("SHUTTING_DOWN") /\ Goto(t, "stopping")
       ELSE UNCHANGED <<state, saved>> /\ Return(t)

\* ... IDLE follows when SHUTTING_DOWN has been saved.
Stopping(t) ==
    /\ pc[t] = "stopping"
    /\ Transition("IDLE", Return(t), Raise(t))
    /\ UNCHANGED <<process, running, next, sent, asked, row, runs>>

Pause(t) ==
    /\ IF state \in {"SCANNING", "MONITORING"} THEN Become("PAUSED")
                                               ELSE UNCHANGED <<state, saved>>
    /\ Return(t)
    /\ UNCHANGED running

\* _emergency_exit(): after the sell the state is forced to IDLE, ...
ForceIdle(t) ==
    /\ pc[t] = "selling"
    /\ Become("IDLE")
    /\ Goto(t, "forced")
    /\ UNCHANGED <<process, running, next, sent, asked, row, runs>>

\* ... and `running` follows when that has been saved.
Forced(t) ==
    /\ pc[t] = "forced"
    /\ running' = FALSE
    /\ Return(t)
    /\ UNCHANGED <<process, state, next, store, runs>>

\* start() of a running process: IDLE -> STARTING, ...
Start(t) ==
    /\ running' = TRUE
    /\ IF ~running /\ state = "IDLE"
       THEN Become("STARTING") /\ pc' = [pc EXCEPT ![t] = "starting"]
       ELSE UNCHANGED <<state, saved>> /\ pc' = [pc EXCEPT ![t] = "idle"]
    /\ UNCHANGED todo

\* ... -> SCANNING.
Starting(t) ==
    /\ pc[t] = "starting"
    /\ Transition("SCANNING", Goto(t, "idle"), Raise(t))
    /\ UNCHANGED <<process, running, next, sent, asked, row, runs>>

\* _handle_command. "resume" arrives as "start", which it does not know, and the
\* command of emergency-stop names the strategy "__all__", which nobody has.
Handle(t, c) ==
    /\ runs' = [runs EXCEPT ![c] = IF @ < 2 THEN @ + 1 ELSE @]
    /\ CASE Command(asked[c]) = "pause" -> Pause(t)
         [] Command(asked[c]) = "stop" -> Stop(t)
         [] Command(asked[c]) = "emergency_exit" ->
              Goto(t, "selling") /\ UNCHANGED <<state, saved, running>>
         [] OTHER -> Return(t) /\ UNCHANGED <<state, saved, running>>

-----------------------------------------------------------------------------
(* TradingLoop.tick *)

Pending == {c \in Range(sent) : row[c] = "pending" /\ asked[c] # "emergency_stop"}

\* Mutant: commands are left to the immediate dispatch.
TickBegin_NoPoll ==
    /\ alive /\ running /\ pc["tick"] = "idle"
    /\ state \in {"SCANNING", "MONITORING"}
    /\ todo' = {}
    /\ pc' = [pc EXCEPT !["tick"] = "commands"]
    /\ UNCHANGED <<process, state, running, next, store, runs>>

\* The tick starts and reads the pending commands of its strategy.
TickBegin ==
    /\ alive /\ running /\ pc["tick"] = "idle"
    /\ state \in {"SCANNING", "MONITORING"}
    /\ todo' = Pending
    /\ pc' = [pc EXCEPT !["tick"] = "commands"]
    /\ UNCHANGED <<process, state, running, next, store, runs>>

TickCommand ==
    /\ pc["tick"] = "commands"
    /\ todo # {}
    /\ Handle("tick", First(todo))
    /\ UNCHANGED <<process, next, sent, asked, row>>

\* After the commands only PAUSED ends the tick, a stopped bot's tick goes on.
TickCommandsDone ==
    /\ pc["tick"] = "commands"
    /\ todo = {}
    /\ Goto("tick", IF state = "PAUSED" THEN "idle" ELSE "fetching")
    /\ UNCHANGED <<process, state, running, next, store, runs>>

TickFetch ==
    /\ pc["tick"] = "fetching"
    /\ Goto("tick", "publishing") \/ Goto("tick", "idle")
    /\ UNCHANGED <<process, state, running, next, store, runs>>

\* Mutant: an exception ends the tick wherever the state is.
Recover_Nothing == Goto("tick", "idle") /\ UNCHANGED <<state, saved>>

\* The exception handler of tick(): back to SCANNING, if it is not at rest.
Recover ==
    /\ IF state \in Resting THEN UNCHANGED <<state, saved>> ELSE Become("SCANNING")
    /\ Goto("tick", "idle")

\* A transition of the tick; where it is not allowed the handler recovers.
TickTransition(from, target, to) ==
    /\ pc["tick"] = from
    /\ Transition(target, Goto("tick", to), Recover)
    /\ UNCHANGED <<process, running, next, sent, asked, row, runs>>

\* MONITORING -> SCANNING -> VALIDATING, or VALIDATING at once.
TickScan == state = "MONITORING" /\ TickTransition("publishing", "SCANNING", "scanned")
TickValidate == \/ state # "MONITORING" /\ TickTransition("publishing", "VALIDATING", "deciding")
                \/ TickTransition("scanned", "VALIDATING", "deciding")

\* Mutant: EXECUTING is entered from any state.
TickTrade_Forced ==
    /\ pc["tick"] = "deciding"
    /\ Become("EXECUTING")
    /\ Goto("tick", "executing")
    /\ UNCHANGED <<process, running, next, sent, asked, row, runs>>

\* A BUY or SELL signal.
TickTrade == TickTransition("deciding", "EXECUTING", "executing")

\* The signal is HOLD, or its order is done: LOGGING comes only after EXECUTING.
TickFinish ==
    /\ pc["tick"] \in {"deciding", "executing"}
    /\ CASE state = "EXECUTING"  -> Become("LOGGING") /\ Goto("tick", "logging")
         [] state = "VALIDATING" -> Become("SCANNING") /\ Goto("tick", "idle")
         [] OTHER                -> Goto("tick", "idle") /\ UNCHANGED <<state, saved>>
    /\ UNCHANGED <<process, running, next, sent, asked, row, runs>>

\* Something raises while the regime is switched, or the signal made or executed.
TickRaises ==
    /\ pc["tick"] \in {"fetching", "deciding", "executing"}
    /\ Recover
    /\ UNCHANGED <<process, running, next, sent, asked, row, runs>>

TickLogged == TickTransition("logging", "MONITORING", "idle")

-----------------------------------------------------------------------------
(* IPCServer._handle_command, and the end of a command in both tasks *)

\* A client's command is saved as pending, ...
IpcReceive(c, endpoint) ==
    /\ deployment = "ipc" /\ alive /\ pc["ipc"] = "idle"
    /\ c \notin Range(sent)
    /\ sent' = Append(sent, c)
    /\ asked' = [asked EXCEPT ![c] = endpoint]
    /\ row' = [row EXCEPT ![c] = "pending"]
    /\ Goto("ipc", "dispatch")
    /\ UNCHANGED <<process, state, saved, running, next, runs>>

\* ... then dispatched at once.
IpcDispatch ==
    /\ pc["ipc"] = "dispatch"
    /\ Handle("ipc", Last(sent))
    /\ UNCHANGED <<process, next, sent, asked, row>>

Mark(t) ==
    /\ pc[t] = "mark"
    /\ row' = [row EXCEPT ![IF t = "tick" THEN First(todo) ELSE Last(sent)] = "processed"]
    /\ pc' = [pc EXCEPT ![t] = IF t = "tick" THEN "commands" ELSE "idle"]
    /\ todo' = IF t = "tick" THEN todo \ {First(todo)} ELSE todo
    /\ UNCHANGED <<process, state, saved, running, next, sent, asked, runs>>

-----------------------------------------------------------------------------
(* api/routes/engine.py, and the process *)

HttpStop(h) ==
    /\ deployment = "embedded" /\ alive /\ pc[h] = "idle" /\ running
    /\ \E label \in {"idle", "start"} :   \* /engine/stop, /engine/restart
         /\ next' = [next EXCEPT ![h] = label]
         /\ running' = FALSE
         /\ IF state \in Active
            THEN Become("SHUTTING_DOWN") /\ Goto(h, "stopping")
            ELSE UNCHANGED <<state, saved>> /\ Goto(h, label)
    /\ UNCHANGED <<process, sent, asked, row, runs>>

\* /engine/start, or the second half of /engine/restart.
HttpStart(h) ==
    /\ deployment = "embedded" /\ alive
    /\ pc[h] = "start" \/ (pc[h] = "idle" /\ ~running)
    /\ Start(h)
    /\ UNCHANGED <<process, next, sent, asked, row, runs>>

\* A new process: the state machine is new, start() takes it to SCANNING before
\* ticks and requests are served; nothing reads the bot_state row.
Boot ==
    /\ ~alive
    /\ alive' = TRUE
    /\ running' = TRUE
    /\ Become("SCANNING")
    /\ UNCHANGED <<deployment, crashes, pc, next, sent, asked, row, runs, todo>>

Crash ==
    /\ alive /\ crashes < MaxCrashes
    /\ crashes' = crashes + 1
    /\ alive' = FALSE
    /\ running' = FALSE
    /\ state' = "IDLE"
    /\ pc' = [t \in Tasks |-> "idle"]
    /\ next' = [h \in Http |-> "idle"]
    /\ todo' = {}
    /\ UNCHANGED <<deployment, store, runs>>

Init ==
    /\ deployment \in Deployments
    /\ alive = FALSE /\ crashes = 0
    /\ state = "IDLE" /\ saved = "IDLE" /\ running = FALSE
    /\ pc = [t \in Tasks |-> "idle"]
    /\ next = [h \in Http |-> "idle"]
    /\ sent = <<>> /\ asked = [c \in Commands |-> "none"]
    /\ row = [c \in Commands |-> "none"]
    /\ runs = [c \in Commands |-> 0]
    /\ todo = {}

Routine(t) == Stopping(t) \/ ForceIdle(t) \/ Forced(t) \/ Starting(t) \/ Mark(t)

TickTask == \/ TickBegin \/ TickCommand \/ TickCommandsDone \/ TickFetch \/ TickScan
            \/ TickValidate \/ TickTrade \/ TickFinish \/ TickRaises \/ TickLogged
            \/ Routine("tick")
IpcTask  == IpcDispatch \/ Routine("ipc")
HttpTask(h) == HttpStop(h) \/ HttpStart(h) \/ Routine(h)

Next == \/ TickTask
        \/ IpcTask
        \/ \E c \in Commands, e \in Endpoints : IpcReceive(c, e)
        \/ \E h \in Http : HttpTask(h)
        \/ Boot
        \/ Crash

Spec == Init /\ [][Next]_vars

\* Ticks keep coming while the bot runs, a task whose await is over goes on, and a
\* dead process is started again. Clients need not send anything.
Fairness == WF_vars(TickTask) /\ WF_vars(IpcTask) /\ WF_vars(Boot)

FairSpec == Spec /\ Fairness

-----------------------------------------------------------------------------
(* Properties *)

\* However requests and commands cut into each other and into a tick, the bot is
\* never left in the middle of a tick: at rest it can tick, or is paused or idle.
NeverStuckMidTick == AtRest => state \in Resting \cup {"IDLE"}

\* A tick that was under way when the bot was stopped places no order any more,
\* unless it had already begun to (its EXECUTING was accepted). Commands keep this;
\* two requests that overlap do not: a stop that meets a start between its two
\* transitions leaves the state to it, and the tick finds SCANNING again.
StopEndsTrading ==
    [][deployment = "ipc" /\ state # "EXECUTING" /\ state' = "EXECUTING" => running]_vars

\* A command that was saved is handled, by the next process if this one dies before
\* dispatching it, unless that has its bot stopped or paused.
SavedCommandHandled ==
    \A c \in Commands :
        (row[c] = "pending" /\ asked[c] # "emergency_stop")
            ~> (runs[c] > 0 \/ (alive /\ ~running) \/ state = "PAUSED")
=============================================================================
