SPECIFICATION Spec
CONSTANTS
  Base = 8
  FixedBytes = 2
  MaxLenBytes = 3
  MaxBatch = 2
  Requests <- SomeRequests
INVARIANTS
  TypeOK
  RoundTrip
  InPlaceMatchesAllocating
PROPERTIES
  OuterBytesKept
