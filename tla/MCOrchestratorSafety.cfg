CONSTANTS
  Requests = {r1, r2}
  Workers = {w1, w2}
  Polls = {}
  QueueSize = 1
  CoordSize = 1
  Observed = {"status"}
  NoRequest = NoRequest
SYMMETRY Symmetry
SPECIFICATION Spec
CHECK_DEADLOCK FALSE
INVARIANTS
  EachRequestInOnePlace
  NoDropBelowCapacity
  StatusNeverAhead
PROPERTY
  ImplementsPool
