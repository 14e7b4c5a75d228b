CONSTANTS
  NoJob = NoJob
  Nothing = Nothing
  Selections = {s1, gone}
  Missing = {gone}
  Rates = {r1}
  BlockSizes = {64}
  MaxChanges = 3
SPECIFICATION Safety
CHECK_DEADLOCK FALSE
INVARIANTS
  SettledReportsMissing
