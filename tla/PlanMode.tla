------------------------------ MODULE PlanMode ------------------------------
(* Plan mode, entered and left by tools (internal/tools/plan_mode.go). The  *)
(* tools override permissions.defaultMode in settings.local.json and keep   *)
(* the mode they displaced in a second file, tool-state/plan-mode.json. The *)
(* two files are written one after the other, each by truncation and write, *)
(* and the process may stop or a call may fail in between. People edit the  *)
(* settings between the calls. The directory of the state is known (without *)
(* one the tools only flip the flag in memory).                             *)
EXTENDS Naturals

CONSTANT UserModes      \* values of defaultMode other than "plan"

ASSUME PlanModeAssumption == UserModes \cap {"plan", "torn"} = {}

VARIABLES
  settings,     \* defaultMode in settings.local.json; "torn": not JSON
  saved,        \* plan-mode.json: <<the displaced mode>>, or <<>> if missing or empty
  planActive,   \* loop.PlanModeActive
  planStep,     \* where the running tool call stands
  displaced,    \* the mode it has read and is about to save or restore
  userMode      \* the mode last left in the settings by somebody else

planVars == <<settings, saved, planActive, planStep, displaced, userMode>>

Values == UserModes \cup {"plan", "absent"}

PlanTypeOK ==
  /\ settings \in Values \cup {"torn"}
  /\ saved \in {<<>>} \cup {<<v>> : v \in Values}
  /\ planActive \in BOOLEAN
  /\ planStep \in {"idle", "clear", "truncState", "writeState", "truncPlan",
                   "writePlan", "truncPrior", "writePrior", "forget"}
  /\ displaced \in Values
  /\ userMode \in Values

PlanInit ==
  /\ settings = "absent" /\ saved = <<>> /\ planActive = FALSE
  /\ planStep = "idle" /\ displaced = "absent" /\ userMode = "absent"

(* readNestedValue: what is not JSON has no mode.                           *)
CurrentMode == IF settings = "torn" THEN "absent" ELSE settings
(* readPlanModeStateFile: an empty file is no state.                        *)
ExistingState == saved # <<>>

(* A call of enter_plan_mode. Nothing is done when the settings say "plan"  *)
(* already, by an earlier call or by hand.                                  *)
EnterPlanMode ==
  /\ planStep = "idle"
  /\ IF CurrentMode = "plan"
     THEN UNCHANGED <<planStep, displaced>>
     ELSE planStep' = "clear" /\ displaced' = CurrentMode
  /\ UNCHANGED <<settings, saved, planActive, userMode>>

MutEnterStep ==
  /\ \/ /\ planStep = "clear" /\ planStep' = "truncPlan"
        /\ saved' = <<>> /\ UNCHANGED <<settings, planActive, userMode>>
     \/ /\ planStep = "truncPlan" /\ planStep' = "writePlan"
        /\ settings' = "torn" /\ UNCHANGED <<saved, planActive, userMode>>
     \/ /\ planStep = "writePlan" /\ planStep' = "truncState"
        /\ settings' = "plan" /\ UNCHANGED <<saved, planActive, userMode>>
     \/ /\ planStep = "truncState" /\ planStep' = "writeState"
        /\ saved' = <<>> /\ UNCHANGED <<settings, planActive, userMode>>
     \/ /\ planStep = "writeState" /\ planStep' = "idle"
        /\ saved' = <<displaced>> /\ planActive' = TRUE /\ UNCHANGED <<settings, userMode>>
  /\ UNCHANGED displaced

(* The steps of a call, in the order of the code. The file being written is *)
(* empty between truncation and write.                                      *)
EnterStep ==
  /\ \/ /\ planStep = "clear" /\ planStep' = "truncState"
        /\ saved' = <<>> /\ UNCHANGED <<settings, planActive, userMode>>
     \/ /\ planStep = "truncState" /\ planStep' = "writeState"
        /\ saved' = <<>> /\ UNCHANGED <<settings, planActive, userMode>>
     \/ /\ planStep = "writeState" /\ planStep' = "truncPlan"
        /\ saved' = <<displaced>> /\ UNCHANGED <<settings, planActive, userMode>>
     \/ /\ planStep = "truncPlan" /\ planStep' = "writePlan"
        /\ settings' = "torn" /\ UNCHANGED <<saved, planActive, userMode>>
     \/ /\ planStep = "writePlan" /\ planStep' = "idle"
        /\ settings' = "plan" /\ planActive' = TRUE /\ UNCHANGED <<saved, userMode>>
  /\ UNCHANGED displaced

MutExitPlanMode ==      \* a state is believed whatever the settings say now
  /\ planStep = "idle"
  /\ \/ /\ ~ExistingState
        /\ planActive' = FALSE /\ UNCHANGED <<planStep, displaced>>
     \/ /\ ExistingState
        /\ planStep' = "truncPrior" /\ displaced' = saved[1] /\ UNCHANGED planActive
  /\ UNCHANGED <<settings, saved, userMode>>

(* A call of exit_plan_mode: without a state only the flag falls; a state   *)
(* beside settings that say something else is stale and removed; otherwise  *)
(* the displaced mode is restored and then the state removed.               *)
ExitPlanMode ==
  /\ planStep = "idle"
  /\ \/ /\ ~ExistingState
        /\ planActive' = FALSE /\ UNCHANGED <<planStep, displaced>>
     \/ /\ ExistingState /\ CurrentMode # "plan"
        /\ planStep' = "forget" /\ UNCHANGED <<planActive, displaced>>
     \/ /\ ExistingState /\ CurrentMode = "plan"
        /\ planStep' = "truncPrior" /\ displaced' = saved[1] /\ UNCHANGED planActive
  /\ UNCHANGED <<settings, saved, userMode>>

ExitStep ==
  /\ \/ /\ planStep = "truncPrior" /\ planStep' = "writePrior"
        /\ settings' = "torn" /\ UNCHANGED <<saved, planActive>>
     \/ /\ planStep = "writePrior" /\ planStep' = "forget"
        /\ settings' = displaced /\ UNCHANGED <<saved, planActive>>
     \/ /\ planStep = "forget" /\ planStep' = "idle"
        /\ saved' = <<>> /\ planActive' = FALSE /\ UNCHANGED settings
  /\ UNCHANGED <<displaced, userMode>>

(* Whatever stops a call half way leaves a settings file that was being     *)
(* written without a mode: that is then the mode left in it.                *)
LeftInSettings == userMode' = IF settings = "torn" THEN "absent" ELSE userMode

(* A file operation of the running call fails and the call returns.         *)
PlanCallFails ==
  /\ planStep # "idle" /\ planStep' = "idle"
  /\ LeftInSettings
  /\ UNCHANGED <<settings, saved, planActive, displaced>>

(* The process stops. The next one starts with the flag down: nothing calls *)
(* LoadPersistedPlanMode.                                                   *)
PlanRestart ==
  /\ planStep' = "idle" /\ planActive' = FALSE
  /\ LeftInSettings
  /\ UNCHANGED <<settings, saved, displaced>>

(* Somebody edits the settings between two calls.                           *)
EditMode(m) ==
  /\ planStep = "idle"
  /\ settings' = m /\ userMode' = m
  /\ UNCHANGED <<saved, planActive, planStep, displaced>>

PlanNext ==
  \/ EnterPlanMode \/ EnterStep \/ ExitPlanMode \/ ExitStep
  \/ PlanCallFails \/ PlanRestart
  \/ \E m \in Values : EditMode(m)

PlanSpec == PlanInit /\ [][PlanNext]_planVars

-----------------------------------------------------------------------------
(* The mode of the user is never lost: outside of the write itself it is in *)
(* the settings, or plan mode is in force and the state beside it holds the *)
(* mode to restore, wherever a call was stopped (plan_mode.go:128-141, 246). *)
UserModeKept ==
  settings # "torn" /\ userMode # "plan" =>
    \/ settings = userMode
    \/ settings = "plan" /\ saved = <<userMode>>
=============================================================================
