SPECIFICATION Spec
CONSTANTS
  Requests = {r1,r2}
  Callers = {c1}
  MaxConcurrentAnalyses = 3
  ChanSize = 1
  Parts = {"entities"}
  UseUnified = FALSE
  UnifiedFallback = FALSE
  HasDeadline = TRUE
  CallersGiveUp = FALSE
  NoRequest = NoRequest
PROPERTY FreshDeadline
CHECK_DEADLOCK FALSE
