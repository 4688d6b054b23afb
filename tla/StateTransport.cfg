CONSTANTS
  Devices = {d1}
  MaximumPeers = 1
  MaxEpoch = 2
  MaxRevision = 2
  MaxInFlight = 1
  PeerReports = {"lost", "disconnect"}
  PublishDuringSnapshot = FALSE
SPECIFICATION FairSpec
INVARIANTS TypeOK NewestPending
PROPERTIES Converges StaleRecordDropped
