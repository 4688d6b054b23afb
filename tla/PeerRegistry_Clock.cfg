CONSTANTS
  a1 = a1
  a2 = a2
  p1 = p1
  p2 = p2
  Peers = {p1}
  Apps = {a1}
  Radios = {r1}
  AddCalls <- PinnedPeer
  EnsureCalls <- ClockOfPinnedPeer
  Conditions <- CoordinatorOnly
SPECIFICATION Spec
PROPERTY ConfiguredPeersKept
