SPECIFICATION Spec
CONSTANTS
  Threads = {t1}
  Traces = {"out"}
  NoTrace = "none"
  Hash <- HalfHash
  Scale = 4
  Givens <- RequestGivens
  Configs <- HalfConfig
  MaxSpans = 2
  MaxFields = 0
  MaxEvents = 1
INVARIANTS
  SameTraceSameDecision
