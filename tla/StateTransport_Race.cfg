CONSTANTS
  Devices = {d1}
  MaximumPeers = 1
  MaxEpoch = 1
  MaxRevision = 2
  MaxInFlight = 1
  PeerReports = {}
  PublishDuringSnapshot = TRUE
SPECIFICATION Spec
INVARIANT NewestPending
