CONSTANTS
  NoJob = NoJob
  Nothing = Nothing
  Selections = {s1, s2, gone}
  Missing = {gone}
  Rates = {r1, r2}
  BlockSizes = {64, 128}
  MaxChanges = 3
SPECIFICATION Spec
CHECK_DEADLOCK FALSE
INVARIANTS
  StatusMatchesBank
  SettledPlaysSelection
PROPERTIES
  AdoptsOnlyRequested
  SelectionAnswered
