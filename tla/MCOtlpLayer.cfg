SPECIFICATION Spec
SYMMETRY Interchangeable
CONSTANTS
  Threads = {t1, t2}
  Traces = {"out"}
  NoTrace = "none"
  Hash <- HalfHash
  Scale = 4
  Givens <- SomeGivens
  Configs <- SomeConfigs
  MaxSpans = 3
  MaxFields = 1
  MaxEvents = 1
INVARIANTS
  TypeOK
  TreesWhole
  SpanIsLast
  ExportedComplete
