CONSTANTS
  MaxInputs = 3
  MaxSpeakers = 2
  MaxOrder = 2
  MaxStem = 10
  MaxHardware = 11
  DefaultInputs = 2
  DefaultSpeakers = 1
  Projects <- MCProjectsNoPair
  EditColumns = {11}
  PairChoices = {0}
  MaxFailures = 1
  MaxSteps = 4
SPECIFICATION Spec
CHECK_DEADLOCK FALSE
INVARIANTS
  RoutingIsPublished
