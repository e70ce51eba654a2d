SPECIFICATION Spec
CHECK_DEADLOCK FALSE
CONSTANTS
  Configs <- SomeConfigs
  Flavours = {"multi_thread", "current_thread"}
  Places = {"task", "thread"}
  MaxSends = 2
  MaxMeasurements = 2
  Interval = 1
  MaxTime = 3
  MaxTicks = 1
INVARIANTS
  TypeOK
  DropFlushes
  ReportsAddUp
  RateOverItsInterval
PROPERTIES
  DropReturns
