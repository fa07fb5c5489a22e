SPECIFICATION MCSpec
CONSTANTS
  b1 = b1
  b2 = b2
  b3 = b3
  b4 = b4
  b5 = b5
  b6 = b6
  b7 = b7
  b8 = b8
  Requests = {r1, r2, b1, b2, b3, b4, b5, b6, b7, b8}
  Callers = {c1}
  MaxConcurrentAnalyses = 3
  ChanSize = 1
  Parts = {"entities", "topics"}
  UseUnified = TRUE
  UnifiedFallback = TRUE
  HasDeadline = TRUE
  CallersGiveUp = TRUE
  NoRequest = NoRequest
INVARIANT EveryAnswerAccounted
INVARIANT CompleteOrReported
INVARIANT OwnUntilTimeout
INVARIANT StuckOnlyWhenFull
PROPERTY CallReturns
CHECK_DEADLOCK FALSE
