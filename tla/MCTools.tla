------------------------------ MODULE MCTools ------------------------------
(* Five machines that share a run and no state: a behaviour is one of the   *)
(* decisions of Permissions, a session of ToolPipeline, the cache of the    *)
(* classifier, plan mode, or a command of the bash tool; the others stay at *)
(* a single initial state.                                                  *)
EXTENDS ToolPipeline, PlanMode, BashCommand

VARIABLE part

MCRule(inputs) == [tool |-> "bash", inputs |-> inputs]
MCRuleLists == {<<>>, <<MCRule({"risky"})>>, <<MCRule({"plain", "risky"})>>}
MCDecided(d, inputs) == [tool |-> "bash", inputs |-> inputs, decision |-> d]
MCLegacyRules == {<<>>, LoadRuleset(<<MCDecided("ask", {"risky"})>>, {"bash"}, {}),
                  LoadRuleset(<<MCDecided("deny", {"risky"})>>, {"read_file"}, {})}
MCRequirements == {[t \in {"read_file"} |-> ReadOnly]} \cup [Tools -> {ReadOnly, WorkspaceWrite, DangerFullAccess}]
MCClassifiers == {[r \in Requests |-> IF r.tool = "read_file" THEN "allow" ELSE "ask"],
                  [r \in Requests |-> IF r.input = "risky" THEN "deny" ELSE "allow"],
                  [r \in Requests |-> "allow"]}
MCKinds == {[t \in Tools |-> IF t = "read_file" THEN "builtin" ELSE k] : k \in {"builtin", "plugin", "skill"}}

MCChars == {"w", "'", "\"", "\\", "|", "&", ";"}
MCWords == {"cat", "sed", "rm", "npm", "git", "status", "sudo", "-i", "-u", "-rf", "VAR=1", "/etc/", "../",
            ">", "curl", "--max-time", "tar", "-x", "echo", "$TOKEN", "wipefs"}
MCParts == {<<"cat">>, <<"rm", "-rf">>, <<"git", "push">>, <<"echo", "$TOKEN">>, <<"sed", "-i">>, <<"sudo", "npm">>,
            <<"wipefs">>, <<"rm", "-r", "-f">>}
MCAllCommands ==
  {<<w>> : w \in [1..1 -> MCWords] \union [1..2 -> MCWords]} \union {<<v, w>> : v, w \in MCParts}
  \union {<<<<a, b, c>>>> : a \in {"sudo", "VAR=1", "rm"}, b \in {"-u", "-rf", "git", "sed"}, c \in {"rm", "push", "-i", "/etc/"}}
\* Without and with the command whose judgement has no end.
MCCommands == MCAllCommands \ {<<<<"sudo", "sudo">>>>}
MCNestedCommands == {<<<<"sudo", w>>>> : w \in MCWords}

toolsVars == <<allPipeVars, cacheVars, planVars, bashVars, part>>

NoBash == shell = ShellReady /\ script = [text |-> <<>>, parts |-> <<>>, verdict |-> "none"]

ToolsInit ==
  /\ CacheInit /\ PlanInit
  /\ \/ /\ part = "permissions" /\ PermInit /\ NoBash
        /\ setup = [kind |-> CHOOSE k \in Kinds : TRUE, handlers |-> 0, commands |-> 0]
        /\ PipeStart
     \/ part = "pipeline" /\ PipeInit /\ NoBash
     \/ /\ \/ part \in {"cache", "plan"} /\ NoBash
           \/ part = "bash" /\ BashInit
        /\ policy = <<>> /\ manager = [mode |-> Prompt, rules |-> <<>>, classifier |-> <<>>]
        /\ grants = [t \in Tools |-> "none"] /\ checked = NothingChecked
        /\ setup = [kind |-> CHOOSE k \in Kinds : TRUE, handlers |-> 0, commands |-> 0]
        /\ PipeStart

ToolsNext ==
  /\ UNCHANGED part
  /\ \/ part = "permissions" /\ PermNext /\ UNCHANGED <<pipeVars, cacheVars, planVars, bashVars>>
     \/ part = "pipeline" /\ PipeNext /\ UNCHANGED <<cacheVars, planVars, bashVars>>
     \/ part = "cache" /\ CacheNext /\ UNCHANGED <<allPipeVars, planVars, bashVars>>
     \/ part = "plan" /\ PlanNext /\ UNCHANGED <<allPipeVars, cacheVars, bashVars>>
     \/ part = "bash" /\ BashNext /\ UNCHANGED <<allPipeVars, cacheVars, planVars>>

ToolsSpec == ToolsInit /\ [][ToolsNext]_toolsVars

(* Every variable of the first four machines keeps its type                 *)
(* (internal/permissions, internal/runtime/conversation.go).                *)
ToolsTypeOK == PermTypeOK /\ PipeTypeOK /\ CacheTypeOK /\ PlanTypeOK

(* Nothing is allowed that the rules, the modes and the user together do    *)
(* not allow (internal/permissions).                                        *)
PermissionsHold == ToolsTypeOK /\ AskedBeforeAllowed /\ HooksDontWiden /\ ModesAreOrdered

(* What was stopped, by whomever, has no effect and is told as such         *)
(* (conversation.go:1112-1390).                                             *)
StoppedStaysStopped == StoppedNeverRuns /\ PlanModeRunsNothing /\ PostMatchesResult

(* What is kept to be used again is what it was                             *)
(* (llm_classifier.go:240-300, plan_mode.go:128-246).                       *)
KeptDecisionsHold == CacheIsBounded /\ CachedWasAnswered /\ UserModeKept

(* A command of the bash tool is cut into its parts and judged by all of    *)
(* them, and what it returns is true of it                                  *)
(* (bash_pipeline.go:17-115, bash_validation.go:274-631, bash.go:125-152).  *)
CommandsAreJudged == BashTypeOK /\ SplitsAreExact /\ WritersAreStopped /\ ModesOnlyTighten /\ OutputIsWhole /\ CommandReturns
=============================================================================
