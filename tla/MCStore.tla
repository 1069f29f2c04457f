------------------------------ MODULE MCStore ------------------------------
(* Two coroutines that save two candles, or a candle and a record of another table. *)
EXTENDS Store

MCRecords == (Tables \X {1}) \cup {<<"candles", 2>>}
MCScopes == {{<<t, 1>>, <<"candles", IF t = "candles" THEN 2 ELSE 1>>} : t \in Tables}
=============================================================================
