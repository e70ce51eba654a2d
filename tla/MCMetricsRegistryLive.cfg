SPECIFICATION FairSpec
CONSTANTS
  Threads = {t1, t2}
  Metrics <- OneCounter
  Boundaries <- NoBoundaries
  AttrSets = {"none"}
  Hash <- SomeHash
  Values = {3}
  MaxCardinality = 1
  Width = 3
  MaxMeasurements = 3
  MaxCollects = 2
PROPERTIES
  CollectEnds
  MeasurementsEnd
