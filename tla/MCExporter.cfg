SPECIFICATION FairSpec
CONSTANTS
  Flushers = {f1, f2}
  Closers = {s1}
  Emitted = {"traces", "logs"}
  Urls = {"traces"}
  Capacity = 1
  BatchSize = 2
  MaxConcurrent = 1
  MaxAttempts = 2
  MaxSends = 2
INVARIANTS
  TypeOK
  SlotsConserved
  ConcurrencyLimit
  MessagesConserved
  PayloadsInOrder
  BatchBelowSize
  FlushBarrier
  ShutdownDrains
  RetriesBounded
  OInv
PROPERTIES
  QuietAfterEnd
  FlushReturns
  ShutdownTerminates
  SettlesWhenQuiet
  ImplementsPipe
