CONSTANTS
  MaxInputs = 2
  MaxSpeakers = 2
  MaxOrder = 1
  MaxStem = 7
  MaxHardware = 8
  DefaultInputs = 1
  DefaultSpeakers = 2
  EditColumns = {2}
  PairChoices = {0, 2}
  MaxEdits = 4
SPECIFICATION Spec
INVARIANTS
  OffsetsMeetRouting
  NothingLingers
PROPERTIES
  TickExposesComposed
  SceneIsThisBlocks
  PreparedSpeakersSound
  EditsAreHeard
