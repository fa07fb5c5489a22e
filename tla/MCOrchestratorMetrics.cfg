CONSTANTS
  Requests = {r1}
  Workers = {w1, w2}
  Polls = {p1}
  QueueSize = 1
  CoordSize = 1
  Observed = {"metrics"}
  NoRequest = NoRequest
SPECIFICATION FairSpec
CHECK_DEADLOCK FALSE
INVARIANT
  MetricsNeverOvercount
PROPERTY
  PollReturnsAndUnlocks
