CONSTANTS
  AxisOrder <- MCAxes
  PositionOrder <- MCPosition
  MaxValue = 1
  Hosts = {Console, Tracker}
  Target = Console
  None = None
  MaxOperations = 3
SPECIFICATION Spec
INVARIANTS
  NoPushIntoDeadQueue
  NoSocketWhileOff
  FeedbackCoversWrites
  PoseArrivesWhole
