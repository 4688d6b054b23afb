CONSTANTS
  Clients = {c1, c2}
  Unclaimed = Unclaimed
  NoFrame = NoFrame
  MaxProtocolHandlers = 1
  MaxMaintenance = 2
  ReceiveQueueLength = 2
  UnregisterWaits = TRUE
  MaxArrivals = 3
SPECIFICATION Spec
INVARIANTS TypeOK QueueInUse OneLateCall
PROPERTIES HandoffSpec MaintenanceRuns
