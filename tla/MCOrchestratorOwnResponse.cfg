CONSTANTS
  Requests = {r1, r2}
  Workers = {w1, w2}
  Polls = {}
  QueueSize = 2
  CoordSize = 2
  Observed = {}
  NoRequest = NoRequest
SYMMETRY Symmetry
SPECIFICATION Spec
CHECK_DEADLOCK FALSE
INVARIANT
  CallerGetsOwnResponse
