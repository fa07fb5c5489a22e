CONSTANTS
  Requests = {r1, r2}
  Workers = {w1, w2}
  Polls = {}
  QueueSize = 2
  CoordSize = 1
  Observed = {}
  NoRequest = NoRequest
SPECIFICATION FairSpec
CHECK_DEADLOCK FALSE
PROPERTIES
  AcceptedIsAnswered
  StopReleasesCallers
