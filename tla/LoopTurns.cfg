SPECIFICATION FairSpec
CONSTANTS
  Kinds <- AskKinds
  ToolOf <- MCToolOf
  RuleOf <- MCRuleOf
  AskUser = "ask_user"
  PermMode = "prompt"
  Streaming = TRUE
  MayCancel = TRUE
  ChanCap = 1
  Threshold = 4
  KeepRecent = 2
  MaxCalls = 1
  MaxRounds = 1
  MaxTurns = 2
INVARIANTS OneTurnAtATime AnswersArrive
PROPERTIES TurnsEnd
CHECK_DEADLOCK FALSE
