CONSTANTS
  a1 = a1
  a2 = a2
  p1 = p1
  p2 = p2
  Peers = {p1, p2}
  Apps = {a1, a2}
  Radios = {r1}
  AddCalls <- OneOwnerPerPeer
  EnsureCalls <- ClockOfDynamicPeer
  Conditions <- BothConditions
SPECIFICATION Spec
INVARIANTS TypeOK SuspendedMeansDown AvailableMeansProgrammed NoOrphanPeer ExplicitPeersPinned
