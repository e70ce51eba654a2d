SPECIFICATION TowerSpec
CHECK_DEADLOCK FALSE
CONSTANTS
  Threads = {t1, t2}
  Requests = {r1, r2}
  NoRequest = none
  Traces = {"out"}
  NoTrace = "none"
  Hash <- SomeHash
  Scale = 4
  Givens <- SomeGivens
  Configs <- SomeConfigs
  RequestIds = {"cf"}
  Blake3 <- SomeBlake3
  Statuses = {200, 400}
  MaxSpans = 3
  MaxFields = 2
  MaxEvents = 5
  MaxPolls = 2
  MaxHeaders = 1
INVARIANTS
  StackNamesRequest
