CONSTANTS
  Channels = {1, 2}
  NativeFaults = {"init", "peers"}
  HasPeers = TRUE
  RefreshOutOfTurn = FALSE
SPECIFICATION Spec
INVARIANTS DownDuringTransition UnavailableDuringScan BoundWhenQuiet
