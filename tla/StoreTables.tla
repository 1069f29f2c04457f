---------------------------- MODULE StoreTables ----------------------------
(***************************************************************************)
(* The tables of the store, and what the two backends do with a row.       *)
(*                                                                         *)
(* A table has columns beside its key.  SqliteDataStore replaces the whole *)
(* row (INSERT OR REPLACE) and writes NULL for a blank column's zero or    *)
(* empty list; PostgresDataStore sets some columns of a row that exists    *)
(* (ON CONFLICT ... DO UPDATE), and takes a blank column's zero for        *)
(* nothing when it reads.                                                  *)
(*                                                                         *)
(* A column's value is None, Zero (zero, or empty), or the number of the   *)
(* save that set it.                                                       *)
(***************************************************************************)
EXTENDS Naturals, FiniteSets

CONSTANTS None, Zero

----------------------------------------------------------------------------
(* SqliteDataStore: what save_...() writes and get_...() reads *)
Candles == [columns |-> {"open", "high", "low", "close", "volume"}, blank |-> {}]
Signals == [columns |-> {"strategy_id", "symbol", "direction", "score", "components", "details",
                         "created_at"}, blank |-> {}]
Orders == [columns |-> {"strategy_id", "symbol", "side", "order_type", "amount", "price", "status",
                        "idempotency_key", "created_at", "slippage_pct", "filled_at"},
           blank |-> {"slippage_pct"}]
Positions == [columns |-> {"strategy_id", "symbol", "side", "amount", "entry_price", "current_price",
                           "stop_loss", "trailing_stop", "unrealized_pnl", "realized_pnl", "status",
                           "opened_at", "closed_at"},
              blank |-> {"stop_loss", "trailing_stop"}]
RiskRows == [columns |-> {"consecutive_losses", "daily_pnl", "last_updated", "cooldown_until"},
             blank |-> {}]
BotRows == [columns |-> {"state", "trading_mode", "last_updated"}, blank |-> {}]
Balances == [columns |-> {"krw", "btc", "initial_krw"}, blank |-> {}]
DailyRows == [columns |-> {"realized", "unrealized", "trade_count"}, blank |-> {}]
Macros == [columns |-> {"fear_greed", "funding_rate", "btc_dominance", "btc_dom_7d_change", "dxy",
                        "kimchi_premium", "market_score"}, blank |-> {}]
Commands == [columns |-> {"command", "strategy_id", "params", "status", "created_at", "processed_at"},
             blank |-> {}]
Results == [columns |-> {"strategy_id", "config_json", "metrics_json", "equity_curve_json",
                         "trades_json", "walk_forward_json", "created_at"},
            blank |-> {"equity_curve_json", "trades_json", "walk_forward_json"}]

Table == [candles |-> Candles, signals |-> Signals, orders |-> Orders, positions |-> Positions,
          risk_state |-> RiskRows, bot_state |-> BotRows, paper_balances |-> Balances,
          daily_pnl |-> DailyRows, macro_snapshots |-> Macros, bot_commands |-> Commands,
          backtest_results |-> Results]
Tables == DOMAIN Table

----------------------------------------------------------------------------
(* PostgresDataStore: what ON CONFLICT sets, and which columns are blank   *)
(* when they are written or read                                           *)
CandlesPg == [sets |-> {"open", "high", "low", "close", "volume"}, written |-> {}, read |-> {}]
SignalsPg == [sets |-> {"score", "components", "details"}, written |-> {}, read |-> {}]
OrdersPg == [sets |-> {"status", "slippage_pct", "filled_at"}, written |-> {}, read |-> {"slippage_pct"}]
\* mutant: the realized result is missing from the list
PositionsPg_NoPnl ==
    [sets |-> {"current_price", "stop_loss", "trailing_stop", "unrealized_pnl", "status", "closed_at"},
     written |-> {}, read |-> {"stop_loss", "trailing_stop"}]
PositionsPg ==
    [sets |-> {"current_price", "stop_loss", "trailing_stop", "unrealized_pnl", "realized_pnl", "status",
               "closed_at"},
     written |-> {}, read |-> {"stop_loss", "trailing_stop"}]
RiskRowsPg == [sets |-> {"consecutive_losses", "daily_pnl", "last_updated", "cooldown_until"},
               written |-> {}, read |-> {}]
BotRowsPg == [sets |-> {"state", "trading_mode", "last_updated"}, written |-> {}, read |-> {}]
BalancesPg == [sets |-> {"krw", "btc"}, written |-> {}, read |-> {}]
DailyRowsPg == [sets |-> {"realized", "unrealized", "trade_count"}, written |-> {}, read |-> {}]
MacrosPg == [sets |-> {"fear_greed", "funding_rate", "btc_dominance", "btc_dom_7d_change", "dxy",
                       "kimchi_premium", "market_score"}, written |-> {}, read |-> {}]
CommandsPg == [sets |-> {"status", "processed_at"}, written |-> {}, read |-> {}]
ResultsPg == [sets |-> {"metrics_json", "equity_curve_json", "trades_json", "walk_forward_json"},
              written |-> {"equity_curve_json", "trades_json", "walk_forward_json"}, read |-> {}]

Pg == [candles |-> CandlesPg, signals |-> SignalsPg, orders |-> OrdersPg, positions |-> PositionsPg,
       risk_state |-> RiskRowsPg, bot_state |-> BotRowsPg, paper_balances |-> BalancesPg,
       daily_pnl |-> DailyRowsPg, macro_snapshots |-> MacrosPg, bot_commands |-> CommandsPg,
       backtest_results |-> ResultsPg]

----------------------------------------------------------------------------
(* What the program saves over a row of its own *)
OrdersAgain == {"price", "status", "slippage_pct", "filled_at"}     \* a live order that is filled
PositionsAgain == {"current_price", "stop_loss", "trailing_stop", "unrealized_pnl", "realized_pnl",
                   "status", "closed_at"}
BalancesAgain == {"krw", "btc"}
MarkedColumns == {"status", "processed_at"}
Again == [candles |-> Candles.columns, signals |-> {}, orders |-> OrdersAgain,
          positions |-> PositionsAgain, risk_state |-> RiskRows.columns, bot_state |-> BotRows.columns,
          paper_balances |-> BalancesAgain, daily_pnl |-> DailyRows.columns, macro_snapshots |-> {},
          bot_commands |-> MarkedColumns, backtest_results |-> {}]

\* columns that may be None, and those that may be zero or empty
Optional == {"slippage_pct", "filled_at", "stop_loss", "trailing_stop", "closed_at", "cooldown_until",
             "processed_at", "walk_forward_json"}
MayBeZero == {"slippage_pct", "equity_curve_json", "trades_json"}
Values(column, n) == {n} \cup (IF column \in Optional THEN {None} ELSE {})
                         \cup (IF column \in MayBeZero THEN {Zero} ELSE {})

Blanked(row, columns) == [x \in DOMAIN row |-> IF x \in columns /\ row[x] = Zero THEN None ELSE row[x]]

\* None is neither zero nor a row.
ASSUME StoreTablesAssumption ==
    /\ Zero # None
    /\ \A t \in Tables : None \notin [Table[t].columns -> Nat \cup {None, Zero}]
=============================================================================
