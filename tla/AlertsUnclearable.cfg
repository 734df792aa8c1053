\* The default rule on the number of failed systemd units.
CONSTANTS
  hot = hot
  custom = custom
  temperature = temperature
  Ids <- MCIds
  Metrics <- MCMetrics
  Values <- MCCounts
  Rules = {}
  Defaults <- MCServicesFailed
  Cooldown = 2
  Horizon = 2
SPECIFICATION Spec
PROPERTY BestValueClears
