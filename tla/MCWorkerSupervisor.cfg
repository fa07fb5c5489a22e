SPECIFICATION MCSpec
CONSTANTS
  NumRequests = 3
  MaxWorkers = 2
  RequestBuffer = 1
  CommandBuffer = 1
  ResultBuffer = 1
  EventBuffer = 2
  MaxCounter = 6
INVARIANT EachRequestInOnePlace
INVARIANT ActiveNeverOvercounted
PROPERTY IntactProcessesAll
PROPERTY CancelEndsAll
CHECK_DEADLOCK FALSE
