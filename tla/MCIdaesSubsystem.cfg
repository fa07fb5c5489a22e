SPECIFICATION Spec
CONSTANTS
  Requests = {r1, r2}
  RequestBuffer = 1
  ResponseBuffer = 1
  ClientBuffer = 1
  NoRequest = NoRequest
INVARIANT EachRequestInOnePlace
INVARIANT LostOnlyWhenLate
CHECK_DEADLOCK FALSE
PROPERTY RegisteredIsAnswered
PROPERTY StopEnds
