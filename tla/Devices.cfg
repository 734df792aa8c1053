CONSTANTS
  n1 = n1
  n2 = n2
  u1 = u1
  u2 = u2
  NoUnit = NoUnit
  Names <- MCOneName
  Units <- MCUnits
  Nested <- MCFlat
  Kinds = {"network", "storage", "processes"}
  HealthInterval = 1
  MaxCount = 1
  MaxTime = 1
SPECIFICATION FairSpec
INVARIANTS
  BookkeepingIsBounded
PROPERTIES
  RowsKeepToTheirUnits
  PresentIsShown
CHECK_DEADLOCK FALSE
