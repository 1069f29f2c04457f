---------------------------- MODULE MCRiskState ----------------------------
(* One strategy. A day has two hours, a cooldown is as long as a day.        *)
EXTENDS RiskState

CONSTANT s1

One == <<s1>>
=============================================================================
