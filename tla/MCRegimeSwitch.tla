--------------------------- MODULE MCRegimeSwitch ---------------------------
(* A trend and a ranging market; a loss of 4 is large, one of 3 is not. *)
EXTENDS RegimeSwitch

Market2 == {"bull_trend_low_vol", "ranging_high_vol"}
=============================================================================
