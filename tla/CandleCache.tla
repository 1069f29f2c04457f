---------------------------- MODULE CandleCache ----------------------------
(***************************************************************************)
(* What CandleCache and the Upbit fetcher compute when a backtest asks for *)
(* the candles of a period: operators only, used by BacktestJobs.          *)
(*                                                                         *)
(* Daily bars are numbered; a cache is a function from the bars it holds   *)
(* to their values.  Times are counted in half bars, so that bar b opens   *)
(* at 2b and the day of bar b ends at 2b + 1: a request asks for the time  *)
(* from the opening of its first day to the end of its last.               *)
(***************************************************************************)
EXTENDS Integers, FiniteSets

Empty == [b \in {} |-> 0]

\* _load(): the cached bars of the days first .. last
Loaded(cache, first, last) == [b \in DOMAIN cache \cap (first .. last) |-> cache[b]]

\* _find_gaps(): the whole period when nothing is cached, and otherwise the longest
\* stretches of missing bars, each from the opening of its first bar to the
\* opening of its last
Missing(cached, first, last) == (first .. last) \ DOMAIN cached
Stretches(bars) ==
    {s \in bars \X bars : /\ s[1] .. s[2] \subseteq bars
                          /\ s[1] - 1 \notin bars /\ s[2] + 1 \notin bars}
\* mutant: only the bars after the cached ones are asked for
Gaps_After(cached, first, last) ==
    IF cached = Empty THEN {[since |-> 2 * first, until |-> 2 * last + 1]}
    ELSE {[since |-> 2 * s[1], until |-> 2 * s[2]] :
              s \in {x \in Stretches(Missing(cached, first, last)) :
                         \A b \in DOMAIN cached : b < x[1]}}

Gaps(cached, first, last) ==
    IF cached = Empty THEN {[since |-> 2 * first, until |-> 2 * last + 1]}
    ELSE {[since |-> 2 * s[1], until |-> 2 * s[2]] : s \in Stretches(Missing(cached, first, last))}

\* the fetcher: bars from since to until, read while the cursor is before until;
\* an error ends the reading, and what was read before it is the answer
Answered(gap, listed, stops) ==
    IF gap.since < gap.until
    THEN {b \in listed : gap.since <= 2 * b /\ 2 * b <= gap.until /\ b < stops}
    ELSE {}

\* INSERT OR IGNORE, and the duplicates of a frame of which the first is kept
Kept(cache, fresh) ==
    [b \in DOMAIN cache \cup DOMAIN fresh |-> IF b \in DOMAIN cache THEN cache[b] ELSE fresh[b]]

\* The bars of a period that get_candles() does not ask for although they are
\* missing: a single one between cached ones.
Lone(cached, first, last) ==
    IF cached = Empty THEN {}
    ELSE {b \in Missing(cached, first, last) :
             {b - 1, b + 1} \cap Missing(cached, first, last) = {}}
=============================================================================
