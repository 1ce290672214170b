SPECIFICATION ToolsSpec
CONSTANTS
 Tools = {"read_file", "bash"}
 EditTools = {"read_file"}
 Inputs = {"plain", "risky"}
 RuleLists <- MCRuleLists
 LegacyRules <- MCLegacyRules
 Requirements <- MCRequirements
 Classifiers <- MCClassifiers
 Kinds <- MCKinds
 MaxHooks = 1
 MaxCalls = 2
 Callers = {a, b}
 Keys = {"k1", "k2", "k3"}
 MaxEntries = 2
 Verdicts = {"allow", "deny"}
 TTL = 1
 MaxTime = 2
 Chars <- MCChars
 MaxChars = 5
 Commands <- MCCommands
 Timeout = 2
 WaitDelay = 1
 UserModes = {"default", "acceptEdits"}
INVARIANTS PermissionsHold StoppedStaysStopped  CommandsAreJudged
CHECK_DEADLOCK FALSE
