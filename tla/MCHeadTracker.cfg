CONSTANTS
  None = None
  Cameras = {c1, c2}
  Stale = 2
  MaxLag = 1
  MaxZeros = 2
SPECIFICATION Spec
CHECK_DEADLOCK FALSE
INVARIANTS
  RunsWhatIsStored
  NoPoseOutlivesCamera
  ZeroIsNotLost
  NobodyInDeadSource
PROPERTIES
  OldPoseNeedsRace
  FallsBackOnlyInRace
  DeadPluginFallsBack
