--------------------------- MODULE ToolPipeline ---------------------------
(* What happens to one tool call after another between the model's request  *)
(* and its tool_result: permission check and dialog (runOneTurnStreaming),  *)
(* then ExecuteTool with the scope of the active skill, lifecycle hooks in  *)
(* the process, hook commands in a shell, the hooks' permission override,   *)
(* the dispatch, and the hooks after it. The context may be cancelled at    *)
(* any time.                                                                *)
EXTENDS Permissions

CONSTANTS
  Kinds,        \* functions from tools to the branch of the dispatch they take
  MaxHooks,     \* bound on the handlers and commands of one event
  MaxCalls      \* bound on the calls of a session

ASSUME PipelineAssumption == MaxHooks \in Nat /\ MaxCalls \in Nat

VARIABLES
  setup,        \* kind of each tool, number of handlers and commands
  skillScope,   \* <<>> or <<tools the active skill allows>>
  stage,        \* where the call stands
  call,         \* its request, input as replaced so far, hooks run, override
  isError,      \* what its result will be
  cancelled,    \* the context of the turn
  calls,        \* calls made
  stops,        \* history: those who refused the current call
  ran,          \* history: the current call was dispatched
  posted        \* history: the lifecycle event that told of the current call

pipeVars == <<setup, skillScope, stage, call, isError, cancelled, calls, stops, ran, posted>>
allPipeVars == <<permVars, pipeVars>>

Stages == {"idle", "check", "ask", "gate", "life", "shell", "override",
           "dispatch", "post", "lifePost"}

PipeTypeOK ==
  /\ stage \in Stages
  /\ call \in [req : Requests, input : Inputs, hook : 0..MaxHooks, override : Overrides]
  /\ isError \in BOOLEAN /\ cancelled \in BOOLEAN /\ ran \in BOOLEAN
  /\ calls \in 0..MaxCalls
  /\ posted \in {"none", "success", "failure"}

PipeStart ==
  /\ skillScope = <<>> /\ stage = "idle"
  /\ call = [req |-> NothingChecked.req, input |-> NothingChecked.req.input, hook |-> 0, override |-> "none"]
  /\ isError = FALSE /\ cancelled = FALSE /\ calls = 0
  /\ stops = {} /\ ran = FALSE /\ posted = "none"

PipeInit ==
  /\ PermInit /\ policy = <<>>
  /\ setup \in [kind : Kinds, handlers : 0..MaxHooks, commands : 0..MaxHooks]
  /\ PipeStart

(* The model asks for a tool; a new turn has a fresh context and no skill.  *)
NextCall(req) ==
  /\ stage = "idle" /\ calls < MaxCalls
  /\ calls' = calls + 1 /\ stage' = "check"
  /\ call' = [req |-> req, input |-> req.input, hook |-> 0, override |-> "none"]
  /\ isError' = FALSE /\ stops' = {} /\ ran' = FALSE /\ posted' = "none"
  /\ \/ UNCHANGED <<skillScope, cancelled>>
     \/ skillScope' = <<>> /\ cancelled' = FALSE
  /\ UNCHANGED <<setup, permVars>>

(* The call ends without having run: `who' refused it.                      *)
Refuse(who) == stage' = "idle" /\ isError' = TRUE /\ stops' = stops \cup {who}
GoOn(to) == stage' = to /\ UNCHANGED <<isError, stops>>

MutPermissionCheck ==       \* plan mode is left to the rules
  /\ stage = "check"
  /\ LET d == CheckManager(call.req, "none", "nobody").d
     IN  \/ d = "deny" /\ Refuse("permission")
         \/ d = "ask" /\ GoOn("ask")
         \/ d = "allow" /\ GoOn("gate")
  /\ UNCHANGED <<setup, skillScope, call, cancelled, calls, ran, posted, permVars>>

(* The check, with the plan mode of the manager, in which a call is         *)
(* described and not run.                                                   *)
PermissionCheck ==
  /\ stage = "check"
  /\ LET d == CheckManager(call.req, "none", "nobody").d
     IN  \/ manager.mode = ReadOnly /\ stage' = "idle" /\ UNCHANGED <<isError, stops>>
         \/ manager.mode # ReadOnly /\ d = "deny" /\ Refuse("permission")
         \/ manager.mode # ReadOnly /\ d = "ask" /\ GoOn("ask")
         \/ manager.mode # ReadOnly /\ d = "allow" /\ GoOn("gate")
  /\ UNCHANGED <<setup, skillScope, call, cancelled, calls, ran, posted, permVars>>

UserReplies ==
  /\ stage = "ask"
  /\ \/ Refuse("user") /\ UNCHANGED permVars
     \/ GoOn("gate") /\ (Remember(call.req.tool, "allow") \/ UNCHANGED permVars)
     \/ cancelled /\ Refuse("cancellation") /\ UNCHANGED permVars
  /\ UNCHANGED <<setup, skillScope, call, cancelled, calls, ran, posted>>

(* ExecuteTool begins: SkillState.CheckAllowed. The skill tool itself is    *)
(* always allowed.                                                          *)
InScope(tool) == skillScope = <<>> \/ setup.kind[tool] = "skill" \/ tool \in skillScope[1]

SkillGate ==
  /\ stage = "gate"
  /\ IF InScope(call.req.tool) THEN GoOn("life") ELSE Refuse("skill")
  /\ UNCHANGED <<setup, skillScope, call, cancelled, calls, ran, posted, permVars>>

(* The call as a hook leaves it.                                            *)
Replaced(i) == [call EXCEPT !.hook = 0, !.input = i]
Advanced(o, i) == [call EXCEPT !.hook = @ + 1, !.override = o, !.input = i]

MutLifecycleHandler ==      \* one handler too many
  /\ stage = "life" /\ call.hook <= setup.handlers
  /\ call' = [call EXCEPT !.hook = @ + 1]
  /\ GoOn(IF call.hook = setup.handlers THEN "shell" ELSE "life")
  /\ UNCHANGED <<setup, skillScope, cancelled, calls, ran, posted, permVars>>

(* Runner.Fire for PreToolUse: the first handler that does not say continue *)
(* decides; errors and panics are a continue; a cancelled context ends the  *)
(* chain. A block is told to the post handlers.                             *)
LifecycleHandler ==
  /\ stage = "life"
  /\ \/ /\ call.hook = setup.handlers \/ (call.hook > 0 /\ cancelled)
        /\ GoOn("shell") /\ call' = [call EXCEPT !.hook = 0] /\ UNCHANGED posted
     \/ /\ call.hook < setup.handlers
        /\ call' = [call EXCEPT !.hook = @ + 1] /\ GoOn("life") /\ UNCHANGED posted
     \/ /\ call.hook < setup.handlers
        /\ \E i \in Inputs : call' = Replaced(i)
        /\ GoOn("shell") /\ UNCHANGED posted
     \/ /\ call.hook < setup.handlers
        /\ Refuse("handler") /\ posted' = "failure" /\ UNCHANGED call
  /\ UNCHANGED <<setup, skillScope, cancelled, calls, ran, permVars>>

MutHookCommand ==       \* a command that fails does not stop the call
  /\ stage = "shell"
  /\ \/ /\ call.hook = setup.commands
        /\ GoOn("override") /\ call' = [call EXCEPT !.hook = 0]
     \/ /\ call.hook < setup.commands /\ ~cancelled
        /\ \E o \in {call.override} \cup Decisions, i \in {call.input} \cup Inputs :
             call' = Advanced(o, i)
        /\ stage' = "shell" /\ stops' \in {stops, stops \cup {"command"}} /\ UNCHANGED isError
     \/ /\ call.hook < setup.commands /\ cancelled
        /\ Refuse("cancellation") /\ UNCHANGED call
  /\ UNCHANGED <<setup, skillScope, cancelled, calls, ran, posted, permVars>>

(* HookRunner.runHooks for PreToolUse, one command: it may succeed, with an *)
(* override and another input in its output, of which the last one counts;  *)
(* deny (exit 2, or in its output), fail, or be killed with the context.    *)
HookCommand ==
  /\ stage = "shell"
  /\ \/ /\ call.hook = setup.commands
        /\ GoOn("override") /\ call' = [call EXCEPT !.hook = 0]
     \/ /\ call.hook < setup.commands /\ ~cancelled
        /\ \E o \in {call.override} \cup Decisions, i \in {call.input} \cup Inputs :
             call' = Advanced(o, i)
        /\ GoOn("shell")
     \/ /\ call.hook < setup.commands /\ ~cancelled
        /\ Refuse("command") /\ UNCHANGED call
     \/ /\ call.hook < setup.commands /\ cancelled
        /\ Refuse("cancellation") /\ UNCHANGED call
  /\ UNCHANGED <<setup, skillScope, cancelled, calls, ran, posted, permVars>>

(* The override, once the commands have run: allow is remembered for the    *)
(* tool unless an ask rule matches, ask does nothing here.                  *)
ApplyOverride ==
  /\ stage = "override"
  /\ CASE call.override = "deny" -> Refuse("override") /\ UNCHANGED permVars
       [] call.override = "allow" ->
            /\ GoOn("dispatch")
            /\ IF FirstMatch(manager.rules, [call.req EXCEPT !.input = call.input]) = "ask"
               THEN UNCHANGED permVars ELSE Remember(call.req.tool, "allow")
       [] OTHER -> GoOn("dispatch") /\ UNCHANGED permVars
  /\ UNCHANGED <<setup, skillScope, call, cancelled, calls, ran, posted>>

(* The tool runs and succeeds or fails. A skill that succeeds replaces the  *)
(* scope.                                                                   *)
Dispatch ==
  /\ stage = "dispatch" /\ stage' = "post"
  /\ ran' = TRUE /\ isError' \in BOOLEAN
  /\ IF setup.kind[call.req.tool] = "skill" /\ ~isError'
     THEN skillScope' \in {<<>>} \cup {<<ts>> : ts \in (SUBSET Tools) \ {{}}}
     ELSE UNCHANGED skillScope
  /\ UNCHANGED <<setup, call, cancelled, calls, stops, posted, permVars>>

(* runPostToolHooks: a command that denies, fails or is killed turns the    *)
(* result into an error. Only the branch of the built-in tools reaches the  *)
(* lifecycle handlers.                                                      *)
PostCommands ==
  /\ stage = "post"
  /\ \/ UNCHANGED isError /\ (setup.commands = 0 \/ ~cancelled)
     \/ isError' = TRUE /\ setup.commands > 0
  /\ stage' = IF setup.kind[call.req.tool] \in {"builtin", "skill"} THEN "lifePost" ELSE "idle"
  /\ UNCHANGED <<setup, skillScope, call, cancelled, calls, stops, ran, posted, permVars>>

MutLifecyclePost ==     \* tells what the tool said before the hooks had spoken
  /\ stage = "lifePost" /\ stage' = "idle"
  /\ posted' \in IF isError THEN {"success", "failure"} ELSE {"success"}
  /\ UNCHANGED <<setup, skillScope, call, isError, cancelled, calls, stops, ran, permVars>>

(* fireLifecyclePostToolUse with the error of the result.                   *)
LifecyclePost ==
  /\ stage = "lifePost" /\ stage' = "idle"
  /\ posted' = IF isError THEN "failure" ELSE "success"
  /\ UNCHANGED <<setup, skillScope, call, isError, cancelled, calls, stops, ran, permVars>>

CancelTurn ==
  /\ stage # "idle" /\ ~cancelled /\ cancelled' = TRUE
  /\ UNCHANGED <<setup, skillScope, stage, call, isError, calls, stops, ran, posted, permVars>>

PipeNext ==
  \/ \E req \in Requests : NextCall(req)
  \/ PermissionCheck \/ UserReplies \/ SkillGate \/ LifecycleHandler \/ HookCommand
  \/ ApplyOverride \/ Dispatch \/ PostCommands \/ LifecyclePost \/ CancelTurn

PipeSpec == PipeInit /\ [][PipeNext]_allPipeVars

-----------------------------------------------------------------------------
(* A call that anybody refused is not run: the check, the user, the scope   *)
(* of the skill, a handler, a command, its override (conversation.go:1118). *)
StoppedNeverRuns == stops # {} => ~ran /\ isError

(* In plan mode no tool runs, whatever classifier, grants and hooks say     *)
(* (conversation.go:758).                                                   *)
PlanModeRunsNothing == manager.mode = ReadOnly => ~ran

(* What the handlers are told after a call is what the model is told, also  *)
(* when a post command has turned success into failure                      *)
(* (conversation.go:1475-1499).                                             *)
PostMatchesResult == stage = "idle" /\ posted # "none" => (posted = "failure" <=> isError)

(* The lifecycle handlers hear of every dispatch. The code keeps this for   *)
(* built-in tools only (conversation.go:1112, 1255, 1389, 1428).            *)
DispatchIsObserved == stage = "idle" /\ ran => posted # "none"
=============================================================================
