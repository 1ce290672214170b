SPECIFICATION ToolsSpec
CONSTANTS
 Tools = {"read_file", "bash"}
 EditTools = {"read_file"}
 Inputs = {"plain", "risky"}
 RuleLists = {}
 LegacyRules <- MCLegacyRules
 Requirements = {}
 Classifiers = {}
 Kinds <- MCKinds
 MaxHooks = 0
 MaxCalls = 1
 Callers = {a}
 Keys = {"k1"}
 MaxEntries = 1
 Verdicts = {"allow"}
 TTL = 1
 MaxTime = 1
 Chars <- MCChars
 MaxChars = 1
 Commands <- MCNestedCommands
 Timeout = 2
 WaitDelay = 1
 UserModes = {"default"}
INVARIANTS JudgementEnds
CHECK_DEADLOCK FALSE
