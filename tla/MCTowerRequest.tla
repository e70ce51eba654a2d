---------------------------- MODULE MCTowerRequest ----------------------------
(***************************************************************************)
(* A small instance of TowerRequest for TLC.                               *)
(***************************************************************************)
EXTENDS TowerRequest

Symmetry == Permutations(Threads) \cup Permutations(Requests)

SomeHash == [trace \in Traces \cup {NoTrace} |-> IF trace = "out" THEN 3 ELSE 0]
SomeGivens == {[way |-> "str", trace |-> "out"]}
SomeConfigs == {[traces |-> TRUE, logs |-> TRUE, rate |-> 2]}
SomeBlake3 == [id \in RequestIds |-> "out"]

=============================================================================
