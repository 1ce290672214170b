SPECIFICATION SessionsSpec
CONSTANTS
  Ids = {a, b, c}
  Commands = {"save", "load", "switch", "fork", "rename", "rename_to_itself", "delete", "exit", "in_turn"}
  MaxContents = 2
  SessionIds = {s1, s2}
  Faults = {"crash", "write", "rename"}
  MaxRotatedFiles = 1
  MaxTime = 4
  KeepRecent = 2
  MaxEstimated = 4
  MaxLines = 6
  MaxChars = 14
  MaxLineChars = 2
  MaxMessages = 8
  MaxCompactions = 3
SYMMETRY IdSymmetry
INVARIANTS SavedIsFound StoreIsWhole SummaryIsKept
PROPERTIES RotationIsOrdered
CHECK_DEADLOCK FALSE
