CONSTANTS
  name1 = name1
  name2 = name2
  unit1 = unit1
  unit2 = unit2
  NoValue = NoValue
  NoSnapshot = NoSnapshot
  Names <- MCNames
  Units <- MCUnits
  Kinds <- AllKinds
  Limit = 1
  MaxThings = 2
  None = None
  Broken = Broken
  BatchSize = 2
  Raw <- MCRaw
  Absences <- MCAbsences
  MaxSampled = 1
SPECIFICATION ViewsSpec
SYMMETRY MCSymmetry
INVARIANTS
  ShowsWhatAFreshPageWould
  WhatIsThereIsShown
  DangersAreReported
  RulesAgreeWithChecks
PROPERTIES
  WorseIsNeverMilder
CHECK_DEADLOCK FALSE
