------------------------------ MODULE Recovery ------------------------------
(* Recovery recipes (internal/runtime/recovery) carried out on a worker of  *)
(* the WorkerRegistry, the MCP server and a plugin, while the registry goes *)
(* on: screens are observed, prompts sent, workers restarted. A step that   *)
(* waits for a handshake leaves its goroutine behind when the time is up.   *)
(* The adapters between the recipes and the registries are the callers'.    *)
EXTENDS WorkerRegistry, Sequences, FiniteSets, SequencesExt

CONSTANTS
  Target,         \* the worker recovery acts on ("default" in the code)
  Scenarios,      \* the scenarios that occur
  MaxRecoveries   \* bound on the calls of AttemptRecovery

VARIABLES
  attempts,       \* ctx.attempts
  recovering,     \* <<>> or <<the scenario being recovered from>>
  performed,      \* steps that succeeded in the current or last attempt
  handshake,      \* the running step waits for its goroutine
  outcome,        \* result of the last attempt
  recoveries,     \* calls so far
  mcpUp,          \* the server is connected
  reconnects,     \* goroutines in Reconnect that nobody waits for any more
  pluginOn        \* the plugin is enabled

recoveryVars == <<attempts, recovering, performed, handshake, outcome, recoveries, mcpUp, reconnects, pluginOn>>

AllScenarios == {"trust_prompt_unresolved", "prompt_misdelivery", "stale_branch",
                 "compile_red_cross_crate", "mcp_handshake_failure",
                 "partial_plugin_startup", "provider_failure"}

ASSUME RecoveryAssumption == Scenarios \subseteq AllScenarios

MaxAttempts == 1

(* RecipeFor: the steps of each recipe.                                     *)
Recipe(s) ==
  CASE s = "trust_prompt_unresolved" -> <<"accept_trust_prompt">>
    [] s = "prompt_misdelivery"      -> <<"redirect_prompt_to_agent">>
    [] s = "stale_branch"            -> <<"rebase_branch", "clean_build">>
    [] s = "compile_red_cross_crate" -> <<"clean_build">>
    [] s = "mcp_handshake_failure"   -> <<"retry_mcp_handshake">>
    [] s = "partial_plugin_startup"  -> <<"restart_plugin", "retry_mcp_handshake">>
    [] s = "provider_failure"        -> <<"restart_worker">>

(* FromWorkerFailure *)
ScenarioOf(failure) ==
  CASE failure = "trust_gate"      -> "trust_prompt_unresolved"
    [] failure = "prompt_delivery" -> "prompt_misdelivery"
    [] OTHER                       -> "provider_failure"

NoOutcome == [kind |-> "none", scenario |-> "none", recovered |-> <<>>, remaining |-> <<>>]
Result(kind, done, left) ==
  [kind |-> kind, scenario |-> recovering[1], recovered |-> done, remaining |-> left]

RecoveryInit ==
  /\ attempts = [s \in Scenarios |-> 0] /\ recovering = <<>> /\ performed = <<>>
  /\ handshake = FALSE /\ outcome = NoOutcome /\ recoveries = 0
  /\ mcpUp = FALSE /\ reconnects = 0 /\ pluginOn = TRUE

(* A lane event, or the error of the worker as it was when somebody looked. *)
Occurs(s) == s \in Scenarios /\ \/ s \notin {ScenarioOf(f) : f \in Failures}
                                \/ Target \in DOMAIN workers

MutBeginRecovery(s) ==      \* an attempt is counted when it has succeeded only
  /\ recovering = <<>> /\ recoveries < MaxRecoveries /\ Occurs(s)
  /\ recoveries' = recoveries + 1
  /\ recovering' = <<s>> /\ performed' = <<>>
  /\ UNCHANGED <<outcome, attempts, handshake, mcpUp, reconnects, pluginOn, vars>>

(* AttemptRecovery: the attempt is counted before its first step.           *)
BeginRecovery(s) ==
  /\ recovering = <<>> /\ recoveries < MaxRecoveries /\ Occurs(s)
  /\ recoveries' = recoveries + 1
  /\ IF attempts[s] >= MaxAttempts
     THEN /\ outcome' = [NoOutcome EXCEPT !.kind = "escalation_required", !.scenario = s]
          /\ performed' = <<>> /\ UNCHANGED <<attempts, recovering>>
     ELSE /\ attempts' = [attempts EXCEPT ![s] = @ + 1]
          /\ recovering' = <<s>> /\ performed' = <<>> /\ UNCHANGED outcome
  /\ UNCHANGED <<handshake, mcpUp, reconnects, pluginOn, vars>>

Step == Recipe(recovering[1])[Len(performed) + 1]

MutSucceed ==       \* a recipe is done when its first step is
  /\ performed' = Append(performed, Step)
  /\ recovering' = <<>> /\ outcome' = Result("recovered", performed', <<>>)

(* The step has worked; after the last one the scenario is recovered from.  *)
Succeed ==
  /\ performed' = Append(performed, Step)
  /\ IF Len(performed') = Len(Recipe(recovering[1]))
     THEN recovering' = <<>> /\ outcome' = Result("recovered", performed', <<>>)
     ELSE UNCHANGED <<recovering, outcome>>

(* The step has failed: nothing was done, or a part.                        *)
Fail ==
  /\ recovering' = <<>>
  /\ outcome' = IF performed = <<>> THEN Result("escalation_required", <<>>, <<>>)
                ELSE LET all == Recipe(recovering[1])
                     IN  Result("partial_recovery", performed, SubSeq(all, Len(performed) + 1, Len(all)))
  /\ UNCHANGED performed

(* A step on the worker: the operation of the registry, or its refusal.     *)
OnWorker(step, operation) ==
  /\ Step = step
  /\ \/ Target \in DOMAIN workers /\ operation /\ Succeed
     \/ Fail /\ UNCHANGED vars
  /\ UNCHANGED <<handshake, mcpUp, pluginOn>>

WorkerStep ==
  \/ OnWorker("accept_trust_prompt", ResolveTrust(Target))
  \/ OnWorker("redirect_prompt_to_agent", SendPrompt(Target, Blank) \/ ReplayPrompt(Target))
  \/ OnWorker("restart_worker", Restart(Target))

GitStep ==
  /\ Step \in {"rebase_branch", "clean_build"}
  /\ (Succeed \/ Fail) /\ UNCHANGED <<handshake, mcpUp, pluginOn, vars>>

(* Disabled, then enabled; the second may fail alone.                       *)
PluginStep ==
  /\ Step = "restart_plugin"
  /\ \/ pluginOn' = TRUE /\ Succeed
     \/ pluginOn' \in {pluginOn, FALSE} /\ Fail
  /\ UNCHANGED <<handshake, mcpUp, vars>>

StartHandshake ==
  /\ Step = "retry_mcp_handshake" /\ ~handshake
  /\ handshake' = TRUE
  /\ UNCHANGED <<recovering, outcome, performed, mcpUp, reconnects, pluginOn, vars>>

EndHandshake ==
  /\ handshake /\ handshake' = FALSE
  /\ \/ mcpUp' = TRUE /\ Succeed /\ UNCHANGED reconnects
     \/ mcpUp' = FALSE /\ Fail /\ UNCHANGED reconnects
     \/ reconnects' = reconnects + 1 /\ Fail /\ UNCHANGED mcpUp
  /\ UNCHANGED <<pluginOn, vars>>

(* A goroutine whose step has timed out finishes after all.                 *)
LateReconnect ==
  /\ reconnects > 0 /\ reconnects' = reconnects - 1
  /\ mcpUp' \in BOOLEAN
  /\ UNCHANGED <<attempts, recovering, performed, handshake, outcome, recoveries, pluginOn, vars>>

RecoveryStep ==
  /\ recovering # <<>>
  /\ UNCHANGED <<attempts, recoveries>>
  /\ \/ UNCHANGED reconnects /\ (WorkerStep \/ GitStep \/ PluginStep)
     \/ StartHandshake \/ EndHandshake

RecoveryNext ==
  \/ Next /\ UNCHANGED recoveryVars
  \/ \E s \in Scenarios : BeginRecovery(s)
  \/ RecoveryStep \/ LateReconnect

RecoverySpec == Init /\ RecoveryInit /\ [][RecoveryNext]_<<vars, recoveryVars>>

-----------------------------------------------------------------------------
(* What a result says was done was done, and no more: all the steps of the  *)
(* recipe, a beginning of them with the rest named, or none                 *)
(* (recovery.go:380-452).                                                   *)
OutcomeIsTrue ==
  recovering = <<>> /\ outcome.kind # "none" =>
    LET recipe == Recipe(outcome.scenario)
    IN  CASE outcome.kind = "recovered" -> performed = recipe
          [] outcome.kind = "partial_recovery" ->
               performed # <<>> /\ outcome.recovered = performed
                 /\ performed \o outcome.remaining = recipe
          [] OTHER -> performed = <<>>

(* However often a scenario comes back, its handshakes are retried once:    *)
(* no more goroutines outlive their timeout, and can bring the server up    *)
(* behind an escalation, than there are recipes with a handshake            *)
(* (recovery.go:384-394, 606).                                              *)
LateReconnectsBounded ==
  reconnects <= Cardinality({s \in Scenarios : Contains(Recipe(s), "retry_mcp_handshake")})
=============================================================================
