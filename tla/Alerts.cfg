\* One default rule that must be sustained and one rule of the user.
CONSTANTS
  hot = hot
  custom = custom
  temperature = temperature
  Ids <- MCIds
  Metrics <- MCMetrics
  Values <- MCValues
  Rules <- MCRules
  Defaults <- MCDefaults
  Cooldown = 2
  Horizon = 2
SPECIFICATION Spec
PROPERTY FiringWasSustained
PROPERTY NoFlapping
PROPERTY CooldownHolds
PROPERTY OnlyEditsSpoilTheBadge
INVARIANT HistoryFollowsFiring
