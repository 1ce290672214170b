SPECIFICATION SettingsSpec
CONSTANTS
  Models = {"m1", "m2"}
  EffortModels = {"m1"}
  ModeWords = {"plan", "bogus"}
  SettingsUsers = {"u1", "u2"}
  MaxChanges = 2
PROPERTY HooksAreMerged
CHECK_DEADLOCK FALSE
