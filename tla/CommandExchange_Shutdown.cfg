CONSTANTS
  Requesters = {a}
  MaxInvokes = 2
  MaxRequestID = 2
  MaximumOutstandingRequests = 2
  RequestTimeout = 1
  Reinvokes = {"shutdown"}
  MaximumInboundRequests = 2
  MaximumDuplicateResults = 1
  InboundRequestTimeout = 1
  DuplicateResultLifetime = 1
  MaxAttempts = 2
SPECIFICATION Spec
INVARIANT CompletedOnce
CHECK_DEADLOCK FALSE
