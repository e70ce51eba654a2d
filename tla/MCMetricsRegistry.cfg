SPECIFICATION Spec
SYMMETRY Interchangeable
CONSTANTS
  Threads = {t1, t2}
  Metrics <- SomeMetrics
  Boundaries <- SomeBoundaries
  AttrSets = {"none", "get"}
  Hash <- SomeHash
  Values = {1, 3}
  MaxCardinality = 1
  Width = 3
  MaxMeasurements = 2
  MaxCollects = 1
INVARIANTS
  TypeOK
  NothingLost
  SnapshotComplete
  ExemplarsFresh
  CardinalityLimit
  MutualExclusion
PROPERTIES
  RefusedExactly
