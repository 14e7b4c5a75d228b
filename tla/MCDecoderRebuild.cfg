CONSTANTS
  NoJob = NoJob
  NoAnalysis = NoAnalysis
  MaxVersion = 3
  MaxFlushGeneration = 3
SPECIFICATION ShellSpec
CHECK_DEADLOCK FALSE
INVARIANTS
  BusyCoversWork
  InFlightIsExact
  NoLostWakeup
  NoCallbackAfterTeardown
  SettledMapFits
PROPERTIES
  ImplementsLatestWins
  MapFollowsLayout
  TeardownEnds
