CONSTANTS
  Callers = {c1, c2}
  Frames = {f1, f2}
  NoFrame = NoFrame
  NoCaller = NoCaller
  NoSlot = NoSlot
  QueueDepth = 2
  RejectedCap = 2
SPECIFICATION FairSpec
INVARIANTS TypeOK SlotAccounting AcquireAlwaysSucceeds DropOldestNeverRejects NoUseAfterTeardown
PROPERTIES HandoffSpec SlotsReturn
