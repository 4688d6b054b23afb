CONSTANTS
  Requesters = {a}
  MaxInvokes = 2
  MaxRequestID = 2
  MaximumOutstandingRequests = 2
  RequestTimeout = 1
  Reinvokes = {"response", "timeout"}
  MaximumInboundRequests = 2
  MaximumDuplicateResults = 1
  InboundRequestTimeout = 1
  DuplicateResultLifetime = 1
  MaxAttempts = 2
SPECIFICATION FairSpec
INVARIANTS TypeOK CompletedOnce OwnResult OneRecordPerKey
PROPERTIES NoEarlyReexecution EveryInvocationCompletes InboundSlotsReturn
CHECK_DEADLOCK FALSE
