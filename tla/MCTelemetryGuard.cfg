SPECIFICATION Spec
CHECK_DEADLOCK FALSE
CONSTANTS
  Configs <- MetricsOnly
  Flavours = {"multi_thread"}
  Places = {"thread"}
  MaxSends = 2
  MaxMeasurements = 2
  Interval = 1
  MaxTime = 0
  MaxTicks = 0
INVARIANTS
  GuardFlushesPending
