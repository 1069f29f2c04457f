----------------------------- MODULE MCBacktest -----------------------------
\* The instance of Backtest that TLC checks: plans of every kind over a few
\* bars, and bars that stay, rise a little, rise and fall.
EXTENDS Backtest

Plan(k, t, f, l) == [kind |-> k, total |-> t, first |-> f, last |-> l, cut |-> 0]
MCPlans ==
    {Plan("dates", 5, 2, 4), Plan("dates", 2, 3, 4), Plan("weeks", 6, 1, 5), Plan("script weeks", 5, 1, 4),
     Plan("recent", 5, 2, 4), [Plan("split", 6, 2, 5) EXCEPT !.cut = 4]}
    \cup {Plan("forward", total, 0, 0) : total \in {0, 2, 3, 4, 9}}
MCShapes == {[low |-> 9, high |-> 12, close |-> 10], [low |-> 10, high |-> 14, close |-> 13],
             [low |-> 6, high |-> 10, close |-> 8], [low |-> 11, high |-> 13, close |-> 12]}
=============================================================================
