------------------------------- MODULE Tasks -------------------------------
(* The registries of tasks, teams and cron entries (internal/runtime/task,  *)
(* internal/runtime/team) behind the tools of the model. Each has a mutex   *)
(* and a counter from which its ids are made; what the callers hold are     *)
(* ids and copies. Teams name their tasks, tasks their team, and a          *)
(* scheduler the entries it has listed, by ids that nobody checks.          *)
EXTENDS Integers, FiniteSets, Functions

CONSTANT MaxIds         \* bound on the creations in the three registries

ASSUME TasksAssumption == MaxIds \in Nat

VARIABLES
  tasks,      \* id -> status, team (id and birth) and birth
  teams,      \* id -> status, the tasks (ids and births) and birth
  entries,    \* id -> enabled, runs, dated and birth
  counters,   \* the counter of each registry
  births,     \* history: creations in each registry
  due         \* entries (ids and births) a scheduler has listed and will run

taskVars == <<tasks, teams, entries, counters, births, due>>

Registries == {"task", "team", "cron"}
TaskStatuses == {"created", "running", "completed", "failed", "stopped"}
TeamStatuses == {"created", "running", "completed", "deleted"}
IsTerminal(s) == s \in {"completed", "failed", "stopped"}
NoTeam == [id |-> 0, birth |-> 0]
Refs == [id : 0..MaxIds, birth : 0..MaxIds]

TasksTypeOK ==
  /\ DOMAIN tasks \subseteq 1..MaxIds
  /\ \A t \in DOMAIN tasks : tasks[t] \in [status : TaskStatuses, team : Refs, birth : 1..MaxIds]
  /\ DOMAIN teams \subseteq 1..MaxIds
  /\ \A t \in DOMAIN teams : teams[t] \in [status : TeamStatuses, tasks : SUBSET Refs, birth : 1..MaxIds]
  /\ \A e \in DOMAIN entries : entries[e].enabled \in BOOLEAN /\ entries[e].dated \in BOOLEAN

TasksInit ==
  /\ tasks = <<>> /\ teams = <<>> /\ entries = <<>> /\ due = {}
  /\ counters = [r \in Registries |-> 0] /\ births = [r \in Registries |-> 0]

Registry(r) == CASE r = "task" -> tasks [] r = "team" -> teams [] r = "cron" -> entries
Known(r) == {[id |-> i, birth |-> Registry(r)[i].birth] : i \in DOMAIN Registry(r)}
With(f, x, y) == [z \in DOMAIN f \cup {x} |-> IF z = x THEN y ELSE f[z]]
Without(f, x) == [z \in DOMAIN f \ {x} |-> f[z]]

MutNewId(r) == Cardinality(DOMAIN Registry(r)) + 1      \* as many as there are, and one

(* The counter, which no removal sets back. The time in an id adds nothing. *)
NewId(r) == counters[r] + 1
Created(r) ==
  /\ births["task"] + births["team"] + births["cron"] < MaxIds
  /\ counters' = [counters EXCEPT ![r] = @ + 1] /\ births' = [births EXCEPT ![r] = @ + 1]

(* createTask, from a prompt or from a packet with every field filled.      *)
CreateTask ==
  /\ Created("task")
  /\ tasks' = With(tasks, NewId("task"), [status |-> "created", team |-> NoTeam, birth |-> births'["task"]])
  /\ UNCHANGED <<teams, entries, due>>

Stop(t) ==
  /\ ~IsTerminal(tasks[t].status)
  /\ tasks' = [tasks EXCEPT ![t].status = "stopped"]
  /\ UNCHANGED <<teams, entries, counters, births, due>>

(* Any status, whatever the task had: recovery may reopen what was done.    *)
SetStatus(t, s) ==
  /\ tasks' = [tasks EXCEPT ![t].status = s]
  /\ UNCHANGED <<teams, entries, counters, births, due>>

AssignTeam(t, ref) ==
  /\ tasks' = [tasks EXCEPT ![t].team = ref]
  /\ UNCHANGED <<teams, entries, counters, births, due>>

RemoveTask(t) == tasks' = Without(tasks, t) /\ UNCHANGED <<teams, entries, counters, births, due>>

CreateTeam(refs) ==
  /\ Created("team")
  /\ teams' = With(teams, NewId("team"), [status |-> "created", tasks |-> refs, birth |-> births'["team"]])
  /\ UNCHANGED <<tasks, entries, due>>

(* Deletion of a team is a mark; removal is not, and tells its tasks        *)
(* nothing.                                                                 *)
DeleteTeam(t) ==
  /\ teams' = [teams EXCEPT ![t].status = "deleted"]
  /\ UNCHANGED <<tasks, entries, counters, births, due>>
RemoveTeam(t) == teams' = Without(teams, t) /\ UNCHANGED <<tasks, entries, counters, births, due>>

CreateCron ==
  /\ Created("cron")
  /\ entries' = With(entries, NewId("cron"),
                     [enabled |-> TRUE, runs |-> 0, dated |-> FALSE, birth |-> births'["cron"]])
  /\ UNCHANGED <<tasks, teams, due>>
DeleteCron(e) == entries' = Without(entries, e) /\ UNCHANGED <<tasks, teams, counters, births, due>>
Disable(e) ==
  /\ entries' = [entries EXCEPT ![e].enabled = FALSE]
  /\ UNCHANGED <<tasks, teams, counters, births, due>>

(* A scheduler lists the enabled entries, and records a run of one later.   *)
ListDue ==
  /\ due' = {ref \in Known("cron") : entries[ref.id].enabled}
  /\ UNCHANGED <<tasks, teams, entries, counters, births>>
RecordRun(ref) ==
  /\ due' = due \ {ref}
  /\ IF ref.id \in DOMAIN entries /\ entries[ref.id].runs < 1
     THEN entries' = [entries EXCEPT ![ref.id].runs = @ + 1, ![ref.id].dated = TRUE]
     ELSE UNCHANGED entries
  /\ UNCHANGED <<tasks, teams, counters, births>>

TasksNext ==
  \/ CreateTask \/ CreateCron \/ ListDue
  \/ \E t \in DOMAIN tasks :
       \/ Stop(t) \/ RemoveTask(t)
       \/ \E s \in TaskStatuses : SetStatus(t, s)
       \/ \E ref \in Known("team") : AssignTeam(t, ref)
  \/ \E refs \in SUBSET Known("task") : CreateTeam(refs)
  \/ \E t \in DOMAIN teams : DeleteTeam(t) \/ RemoveTeam(t)
  \/ \E e \in DOMAIN entries : DeleteCron(e) \/ Disable(e)
  \/ \E ref \in due : RecordRun(ref)

TasksSpec == TasksInit /\ [][TasksNext]_taskVars

-----------------------------------------------------------------------------
Meant(r, ref) == ref.id \in DOMAIN Registry(r) => Registry(r)[ref.id].birth = ref.birth

(* An id that outlives what it named never comes to name something else: a  *)
(* team keeps its tasks, a task its team, a scheduled run its entry,        *)
(* whatever was removed and created since (task.go:223, registry.go:106).   *)
IdsKeepTheirMeaning ==
  /\ \A t \in DOMAIN teams : \A ref \in teams[t].tasks : Meant("task", ref)
  /\ \A t \in DOMAIN tasks : Meant("team", tasks[t].team)
  /\ \A ref \in due : Meant("cron", ref)
=============================================================================
