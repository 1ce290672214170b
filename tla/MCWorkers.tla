------------------------------ MODULE MCWorkers ------------------------------
(* The worker registry alone, with two workers in one directory or in none  *)
(* (of which one, there to share the directory, has no choice of options); *)
(* recovery with one worker, whose directory has no say in it; and the      *)
(* registries of tasks, teams and cron entries, which share no state with   *)
(* workers. A behaviour is one of the three.                                *)
EXTENDS Recovery, Tasks

VARIABLE part

workersVars == <<vars, recoveryVars, taskVars, part>>

WorkersInit ==
  /\ Init /\ RecoveryInit /\ TasksInit
  /\ part \in {"registry", "recovery", "tasks"}

WorkersNext ==
  /\ UNCHANGED part
  /\ \/ /\ part = "registry" /\ Next /\ UNCHANGED <<recoveryVars, taskVars>>
        /\ \A w \in DOMAIN workers' \ {Target} : ~workers'[w].trustAuto /\ workers'[w].recover
     \/ /\ part = "recovery" /\ RecoveryNext /\ UNCHANGED taskVars
        /\ DOMAIN workers' \subseteq {Target} /\ files' = <<>>
     \/ part = "tasks" /\ TasksNext /\ UNCHANGED <<vars, recoveryVars>>

WorkersSpec == WorkersInit /\ [][WorkersNext]_workersVars

(* Workers, tasks, teams and cron entries keep their types                  *)
(* (internal/runtime/worker, task, team).                                   *)
WorkersTypeOK == TypeOK /\ TasksTypeOK

(* What is recorded of a recovery or a task is what happened                *)
(* (internal/runtime/recovery, task, team).                                 *)
OutcomesStand == WorkersTypeOK /\ OutcomeIsTrue /\ LateReconnectsBounded /\ IdsKeepTheirMeaning
=============================================================================
