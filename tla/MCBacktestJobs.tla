--------------------------- MODULE MCBacktestJobs ---------------------------
\* The instance of BacktestJobs that TLC checks: every runner
\* but run_single, whose control is that of run_optimize, and periods after which single bars are missing.
EXTENDS BacktestJobs

MCModes == {"optimize", "compare", "ai_regime", "validate"}
MCPeriods == {<<1, 1>>, <<1, 3>>, <<3, 3>>}
=============================================================================
