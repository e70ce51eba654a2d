----------------------------- MODULE MCOtlpLayer -----------------------------
(***************************************************************************)
(* A small instance of OtlpLayer for TLC: a trace that a rate of a half    *)
(* does not sample; what has no trace id it always samples.                *)
(***************************************************************************)
EXTENDS OtlpLayer

Interchangeable == Permutations(Threads)

HalfHash == [trace \in Traces \cup {NoTrace} |-> IF trace = "out" THEN 3 ELSE 0]
SomeGivens == {[way |-> "str", trace |-> "out"], [way |-> "absent", trace |-> NoTrace]}
RequestGivens == {[way |-> "str", trace |-> "out"], [way |-> "display", trace |-> "out"]}

Setting(traces, logs, rate) == [traces |-> traces, logs |-> logs, rate |-> rate]
SomeConfigs == {Setting(TRUE, TRUE, 2), Setting(TRUE, FALSE, 2), Setting(FALSE, TRUE, 4)}
HalfConfig == {Setting(TRUE, TRUE, 2)}

=============================================================================
