CONSTANTS
  None = None
  Debounce = 6
  BlockTime = 2
  Latency = 4
SPECIFICATION BlocksSpec
INVARIANTS
  OnePublishPerBlock
PROPERTIES
  NoWriteUnderReader
