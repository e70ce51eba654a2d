-------------------------- MODULE MCMetricsRegistry --------------------------
(***************************************************************************)
(* A small instance of MetricsRegistry for TLC: integers of three bits, so *)
(* that 3 + 3 overflows and 7 is negative.                                 *)
(***************************************************************************)
EXTENDS MetricsRegistry

Interchangeable == Permutations(Threads)

SomeMetrics == {<<"counter", "c">>, <<"histogram", "h">>}
OneCounter == {<<"counter", "c">>}
SomeBoundaries == {<<3, 1, 3>>}
NoBoundaries == {<<>>}
SomeHash == [a \in AttrSets |-> IF a = "none" THEN 0 ELSE 1]

=============================================================================
