CONSTANTS
  None = None
  Debounce = 6
  BlockTime = 2
  Latency = 5
SPECIFICATION BlocksSpec
INVARIANTS
  OnePublishPerBlock
