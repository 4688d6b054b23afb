CONSTANTS
  r1 = r1
  r2 = r2
  NoPeer = NoPeer
  References = {r1, r2}
  Configs <- ClientConfigs
  Interval = 1
  SequenceCount = 8
  FirstSequences = {1, 7}
  MaxExchanges = 3
SPECIFICATION Spec
INVARIANTS TypeOK SamplesInOrder SampleOfOneClock AwaitedIsPending
PROPERTIES AttemptsSpaced KeepsAsking
