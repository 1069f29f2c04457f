------------------------------ MODULE Holding ------------------------------
(***************************************************************************)
(* What a strategy's trading cycle promises to its owner, without the      *)
(* tasks, the queue and the tables it is made of: the strategy is flat or  *)
(* holds exactly one lot, it buys only when flat and sells only what it    *)
(* holds, and the position it shows follows each trade before the next.    *)
(***************************************************************************)
EXTENDS Naturals

VARIABLES held,   \* lots of BTC in the account
          shown   \* does the strategy see an open position?

Init == held = 0 /\ shown = FALSE

Buy  == held = 0 /\ ~shown /\ held' = 1 /\ UNCHANGED shown
Open == held = 1 /\ ~shown /\ shown' = TRUE /\ UNCHANGED held
Sell == held = 1 /\ shown /\ held' = 0 /\ UNCHANGED shown
Close == held = 0 /\ shown /\ shown' = FALSE /\ UNCHANGED held

Next == Buy \/ Open \/ Sell \/ Close

\* The order of trades and of what is shown of them.
Trades == Init /\ [][Next]_<<held, shown>>

\* A trade is always followed up; whether and when to trade is the strategy's.
Spec == Trades /\ WF_<<held, shown>>(Open \/ Close)
=============================================================================
