\* The settings are reset while persistence is off.
CONSTANTS
  MaxSamples = 4
  MaxSessions = 1
  Limits <- MCLimits
  RowCost = 2
  VacuumAbove = 1
SPECIFICATION Spec
INVARIANT FlushIsTimed
