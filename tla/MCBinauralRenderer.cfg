CONSTANTS
  Sizes = {4, 5}
  FirLengths = {4, 8}
  MaxFir = 8
  Attitudes = {Level, Left}
  Level = Level
  NoPose = NoPose
  NoBank = NoBank
  NoCook = NoCook
  BlockLengths = {3, 4}
  MaxBlocks = 6
  MaxChanges = 3
SPECIFICATION Spec
INVARIANTS
  HistoryLinesUp
  PublishedBankIntact
PROPERTIES
  FieldFollowsHead
  StreamsField
