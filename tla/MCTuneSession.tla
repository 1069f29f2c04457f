--------------------------- MODULE MCTuneSession ---------------------------
(* Three thresholds, one of them negative and one 0, and two weights of each group, in thousandths. *)
EXTENDS TuneSession

TwoProviders == <<"claude", "openai">>
SomeParams == <<"buy_threshold", "sell_threshold", "tf_weight_1h", "tf_weight_4h", "macro_weight", "score_w1", "score_w2">>
TfParams == {"tf_weight_1h", "tf_weight_4h"}
ScoreParams == {"score_w1", "score_w2"}
SomeBounds == [p \in Range(SomeParams) |->
    CASE p = "buy_threshold" -> <<30, 250>> [] p = "sell_threshold" -> <<-200, -20>>
      [] p = "macro_weight" -> <<0, 300>>
      [] p \in TfParams -> <<100, 800>>     [] OTHER -> <<100, 600>>]
SomePreset == [p \in Range(SomeParams) |->
    CASE p = "buy_threshold" -> 80 [] p = "sell_threshold" -> -80
      [] p = "macro_weight" -> 0
      [] p = "tf_weight_1h" -> 300 [] OTHER -> 500]
UpAndApart == {[p \in Range(SomeParams) |-> 2],
               [p \in Range(SomeParams) |-> IF p \in {"buy_threshold", "tf_weight_4h", "score_w2"} THEN 1 ELSE 2]}
=============================================================================
