SPECIFICATION Spec
CONSTANTS
  Flushers = {f1}
  Closers = {}
  Emitted = {"traces"}
  Urls = {"traces"}
  Capacity = 1
  BatchSize = 1
  MaxConcurrent = 1
  MaxAttempts = 1
  MaxSends = 2
INVARIANTS
  DataConservation
