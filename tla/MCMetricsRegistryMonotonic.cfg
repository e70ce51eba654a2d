SPECIFICATION Spec
CONSTANTS
  Threads = {t1}
  Metrics <- OneCounter
  Boundaries <- NoBoundaries
  AttrSets = {"none"}
  Hash <- SomeHash
  Values = {1, 7}
  MaxCardinality = 1
  Width = 3
  MaxMeasurements = 2
  MaxCollects = 2
INVARIANTS
  CounterMonotonic
