CONSTANTS
  Ids = {1, 2}
  Refused = {1}
  NoId = NoId
  NoEntry = NoEntry
  MaxStarts = 2
  Filters = {"warnings", "errors", "unit"}
  UnitFilters = {"unit"}
  NoFilter = "none"
  Texts = {"", "a"}
  MaxProbes = 2
  Metrics <- MCMetrics
  Peaks = {1000, 20000}
  Capacity = 2
  Missing = Missing
SPECIFICATION Spec
PROPERTIES
  SelectionSurvives
