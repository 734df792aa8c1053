\* A key the command line can override and listeners follow, and the list of
\* the alert rules: a default rule and one of the user, or what a hand wrote.
CONSTANTS
  theme = theme
  alert_rules = alert_rules
  dark = dark
  light = light
  hot = hot
  custom = custom
  above = above
  Torn = Torn
  Garbage = Garbage
  Absent = Absent
  Keys <- MCKeys
  Values <- MCValues
  Default <- MCDefault
  Overridable = {theme}
  Followed = {theme}
  Handwritten <- MCHandwritten
  List = alert_rules
  Ids = {hot, custom}
  Conditions = {above}
  Defaults <- MCDefaults
SPECIFICATION Spec
INVARIANT FileIsWhole
INVARIANT SettingsReachDisk
INVARIANT ListenersFollow
PROPERTY RulesSurviveRestart
