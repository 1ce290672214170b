SPECIFICATION WorkersSpec
CONSTANTS
 Workers = {w1, w2}
 Cwds = {here}
 NoCwd = nowhere
 Prompts = {p}
 Blank = blank
 NoPrompt = none
 Target = w1
 Scenarios = {"trust_prompt_unresolved", "prompt_misdelivery", "mcp_handshake_failure", "partial_plugin_startup", "provider_failure", "stale_branch"}
 MaxRecoveries = 3
 MaxIds = 3
INVARIANTS OnePrompt ErrorExplains FilesAreCurrent OutcomesStand
CHECK_DEADLOCK FALSE
