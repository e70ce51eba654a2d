----------------------------- MODULE MCTelemetry -----------------------------
(***************************************************************************)
(* A small instance of Telemetry for TLC.                                  *)
(***************************************************************************)
EXTENDS Telemetry

Setting(traces, logs, metrics, use) ==
  [traces |-> traces, logs |-> logs, metrics |-> metrics, use |-> use]

SomeConfigs ==
  {Setting(TRUE, TRUE, TRUE, FALSE), Setting(FALSE, FALSE, TRUE, FALSE),
   Setting(FALSE, TRUE, FALSE, TRUE), Setting(FALSE, FALSE, FALSE, TRUE)}
MetricsOnly == {Setting(FALSE, FALSE, TRUE, FALSE)}

=============================================================================
