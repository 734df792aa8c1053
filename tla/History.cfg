\* Four samples, room for one or two, and every fault.
CONSTANTS
  MaxSamples = 4
  MaxSessions = 2
  Limits <- MCLimits
  RowCost = 2
  VacuumAbove = 1
SPECIFICATION FairSpec
INVARIANT WrittenOnceInOrder
PROPERTY SessionsEnd
PROPERTY NothingLostWithoutReason
PROPERTY PendingDrains
PROPERTY ExpiredRowsGo
