SPECIFICATION Spec
CONSTANTS
  Requests = {r1}
  RequestBuffer = 1
  ResponseBuffer = 1
  ClientBuffer = 1
  NoRequest = NoRequest
CHECK_DEADLOCK FALSE
PROPERTY WorkersTerminate
