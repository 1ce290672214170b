SPECIFICATION Spec
CONSTANTS
  Kinds <- BashKinds
  ToolOf <- MCToolOf
  RuleOf <- MCRuleOf
  AskUser = "ask_user"
  PermMode = "prompt"
  Streaming = TRUE
  MayCancel = TRUE
  ChanCap = 1
  Threshold = 4
  KeepRecent = 2
  MaxCalls = 2
  MaxRounds = 1
  MaxTurns = 2
INVARIANTS
  HistoryPaired
  AuthorizedExecution
PROPERTIES
  Ownership
CHECK_DEADLOCK FALSE
