--------------------------- MODULE Workers_proofs ---------------------------
(***************************************************************************)
(* The invariants of the worker registry, for any workers, directories and *)
(* prompts.  Every operation records one worker; what an operation must    *)
(* show of the record it writes is Good, and RecordKeeps turns that into   *)
(* the invariants of the registry.                                         *)
(***************************************************************************)
EXTENDS MCWorkers, FiniteSetTheorems, SequenceTheorems, TLAPS

IInv == TypeOK /\ OnePrompt /\ ErrorExplains /\ FilesAreCurrent

(* r may replace what is known of worker w. *)
Good(w, r) ==
  /\ r \in Worker /\ OnePromptOf(r) /\ ErrorExplainsOf(r)
  /\ w \in DOMAIN workers => r.cwd = workers[w].cwd

Recorded(w) == \E r : Good(w, r) /\ Record(w, r)

(* Recording a good record keeps the invariant: the other workers keep     *)
(* their records, and the file written, if any, is the one of the worker's *)
(* own directory.                                                          *)
LEMMA RecordKeeps ==
  ASSUME NEW w \in Workers, NEW r, IInv, Good(w, r), Record(w, r)
  PROVE  IInv'
<1>1. /\ DOMAIN workers' = DOMAIN workers \cup {w}
      /\ \A v \in DOMAIN workers' : workers'[v] = IF v = w THEN r ELSE workers[v]
  BY DEF Record, Put
<1>2. /\ DOMAIN files' = DOMAIN files \cup ({r.cwd} \ {NoCwd})
      /\ r.cwd # NoCwd => files'[r.cwd] \in {Snapshot(w, r), Unknown}
      /\ \A d \in DOMAIN files' : d # r.cwd => files'[d] = files[d]
  <2>1. CASE r.cwd = NoCwd
    <3>1. NoCwd \notin DOMAIN files
      BY WorkerRegistryAssumption DEF IInv, TypeOK
    <3> QED
      BY <2>1, <3>1 DEF Record, EmitStateFile
  <2>2. CASE r.cwd # NoCwd
    <3>1. PICK text \in {Snapshot(w, r), Unknown} : files' = Put(files, r.cwd, text)
      BY <2>2 DEF Record, EmitStateFile
    <3> QED
      BY <2>2, <3>1 DEF Put
  <2> QED
    BY <2>1, <2>2
<1>3. r.cwd \in Cwds \cup {NoCwd}
  BY DEF Good, Worker
<1>4. TypeOK'
  BY <1>1, <1>2, <1>3 DEF IInv, TypeOK, Good
<1>5. OnePrompt'
  BY <1>1 DEF IInv, OnePrompt, Good
<1>6. ErrorExplains'
  BY <1>1 DEF IInv, ErrorExplains, Good
<1>7. ASSUME NEW d \in DOMAIN files', files'[d] # Unknown
      PROVE  LET v == files'[d].worker IN
             v \in DOMAIN workers' /\ workers'[v].cwd = d /\ files'[d] = Snapshot(v, workers'[v])
  <2>1. CASE d = r.cwd
    <3>1. d # NoCwd
      BY <1>2, <2>1, WorkerRegistryAssumption DEF IInv, TypeOK
    <3>2. files'[d] = Snapshot(w, r)
      BY <1>2, <1>7, <2>1, <3>1
    <3> QED
      BY <1>1, <2>1, <3>2 DEF Snapshot
  <2>2. CASE d # r.cwd
    <3> DEFINE v == files[d].worker
    <3>1. d \in DOMAIN files /\ files'[d] = files[d]
      BY <1>2, <2>2
    <3>2. v \in DOMAIN workers /\ workers[v].cwd = d /\ files[d] = Snapshot(v, workers[v])
      BY <1>7, <3>1 DEF IInv, FilesAreCurrent
    <3>3. v # w
      BY <3>2, <2>2 DEF Good
    <3> QED
      BY <1>1, <3>1, <3>2, <3>3
  <2> QED
    BY <2>1, <2>2
<1>8. \A v \in DOMAIN workers' : workers'[v].cwd \in DOMAIN files' \cup {NoCwd}
  BY <1>1, <1>2 DEF IInv, FilesAreCurrent
<1> QED
  BY <1>4, <1>5, <1>6, <1>7, <1>8 DEF IInv, FilesAreCurrent

(* A worker is created without prompt, error or clearance. *)
LEMMA CreateRecords ==
  ASSUME NEW w \in Workers, IInv, Create(w)
  PROVE  Recorded(w)
<1>1. PICK cwd \in Cwds \cup {NoCwd}, trusted \in BOOLEAN, recover \in BOOLEAN :
        Record(w, [cwd |-> cwd, status |-> "spawning", trustAuto |-> trusted, cleared |-> FALSE,
                   recover |-> recover, inFlight |-> FALSE, last |-> NoPrompt,
                   replay |-> NoPrompt, error |-> "none"])
  BY DEF Create
<1> DEFINE r == [cwd |-> cwd, status |-> "spawning", trustAuto |-> trusted, cleared |-> FALSE,
                 recover |-> recover, inFlight |-> FALSE, last |-> NoPrompt,
                 replay |-> NoPrompt, error |-> "none"]
<1>2. r \in Worker /\ OnePromptOf(r) /\ ErrorExplainsOf(r)
  BY DEF Worker, Statuses, OnePromptOf, ErrorExplainsOf
<1>3. Good(w, r)
  BY <1>2 DEF Good, Create
<1> QED
  BY <1>1, <1>3 DEF Recorded

(* Every operation on a worker records a good record of it. *)
LEMMA OperationRecords ==
  ASSUME NEW w \in DOMAIN workers, IInv, Operation(w)
  PROVE  Recorded(w)
<1> DEFINE r == workers[w]
<1>0. r \in Worker /\ OnePromptOf(r) /\ ErrorExplainsOf(r)
  BY DEF IInv, TypeOK, OnePrompt, ErrorExplains
<1> USE WorkerRegistryAssumption
<1>1. ASSUME NEW screen \in SUBSET Cues, ObserveTrust(w, screen)
      PROVE  Recorded(w)
  <2> DEFINE new == [r EXCEPT !.error = "trust_gate", !.cleared = @ \/ r.trustAuto,
                       !.status = IF r.trustAuto THEN "spawning" ELSE "trust_required"]
  <2>1. new \in Worker /\ OnePromptOf(new) /\ new.cwd = r.cwd
    BY <1>0 DEF Worker, Statuses, Failures, OnePromptOf
  <2>2. ErrorExplainsOf(new)
    BY <1>0, <1>1 DEF ErrorExplainsOf, ObserveTrust, TrustPrompt, Worker
  <2> QED
    BY <1>1, <2>1, <2>2 DEF Good, Recorded, ObserveTrust
<1>2. ASSUME NEW screen \in SUBSET Cues, ObserveMisdelivery(w, screen)
      PROVE  Recorded(w)
  <2>1. r.inFlight /\ r.last # Blank /\ r.last # NoPrompt
    BY <1>0, <1>2 DEF ObserveMisdelivery, Misdelivered, OnePromptOf
  <2>2. CASE r.recover
    <3> DEFINE new == [r EXCEPT !.inFlight = FALSE, !.replay = r.last, !.status = "ready_for_prompt"]
    <3>1. new \in Worker /\ OnePromptOf(new) /\ ErrorExplainsOf(new) /\ new.cwd = r.cwd
      BY <1>0, <2>1, <2>2 DEF Worker, Statuses, OnePromptOf, ErrorExplainsOf
    <3> QED
      BY <1>2, <2>2, <3>1 DEF Good, Recorded, ObserveMisdelivery
  <2>3. CASE ~r.recover
    <3> DEFINE new == [r EXCEPT !.inFlight = FALSE, !.status = "failed", !.error = "prompt_delivery"]
    <3>1. new \in Worker /\ OnePromptOf(new) /\ ErrorExplainsOf(new) /\ new.cwd = r.cwd
      BY <1>0 DEF Worker, Statuses, Failures, OnePromptOf, ErrorExplainsOf
    <3> QED
      BY <1>2, <2>3, <3>1 DEF Good, Recorded, ObserveMisdelivery
  <2> QED
    BY <2>2, <2>3
<1>3. ASSUME NEW screen \in SUBSET Cues, ObserveRunning(w, screen)
      PROVE  Recorded(w)
  <2> DEFINE new == [r EXCEPT !.inFlight = FALSE, !.status = "running"]
  <2>1. new \in Worker /\ OnePromptOf(new) /\ ErrorExplainsOf(new) /\ new.cwd = r.cwd
    BY <1>0 DEF Worker, Statuses, OnePromptOf, ErrorExplainsOf
  <2> QED
    BY <1>3, <2>1 DEF Good, Recorded, ObserveRunning
<1>4. ASSUME NEW screen \in SUBSET Cues, ObserveReady(w, screen)
      PROVE  Recorded(w)
  <2> DEFINE new == [r EXCEPT !.inFlight = FALSE, !.status = "ready_for_prompt",
                       !.error = IF @ = "trust_gate" THEN "none" ELSE @]
  <2>1. new \in Worker /\ OnePromptOf(new) /\ ErrorExplainsOf(new) /\ new.cwd = r.cwd
    <3>1. new \in Worker /\ new.cwd = r.cwd
      BY <1>0 DEF Worker, Statuses
    <3>2. OnePromptOf(new)
      BY <1>0 DEF Worker, OnePromptOf
    <3>3. ErrorExplainsOf(new)
      BY <1>0 DEF Worker, ErrorExplainsOf
    <3> QED
      BY <3>1, <3>2, <3>3
  <2> QED
    BY <1>4, <2>1 DEF Good, Recorded, ObserveReady
<1>5. ASSUME NEW prompt \in Texts, Deliver(w, prompt)
      PROVE  Recorded(w)
  <2> DEFINE new == [r EXCEPT !.inFlight = TRUE, !.last = prompt, !.replay = NoPrompt, !.status = "running"]
  <2>1. new \in Worker /\ OnePromptOf(new) /\ ErrorExplainsOf(new) /\ new.cwd = r.cwd
    BY <1>0 DEF Worker, Statuses, Texts, OnePromptOf, ErrorExplainsOf
  <2> QED
    BY <1>5, <2>1 DEF Good, Recorded, Deliver
<1>6. CASE ReplayPrompt(w)
  <2>1. r.replay \in Texts
    BY <1>0, <1>6 DEF ReplayPrompt, Worker
  <2> QED
    BY <1>5, <1>6, <2>1 DEF ReplayPrompt
<1>7. CASE ResolveTrust(w)
  <2> DEFINE new == [r EXCEPT !.cleared = TRUE, !.status = "spawning"]
  <2>1. new \in Worker /\ OnePromptOf(new) /\ ErrorExplainsOf(new) /\ new.cwd = r.cwd
    BY <1>0 DEF Worker, Statuses, OnePromptOf, ErrorExplainsOf
  <2> QED
    BY <1>7, <2>1 DEF Good, Recorded, ResolveTrust
<1>8. ASSUME NEW failed \in BOOLEAN, ObserveCompletion(w, failed)
      PROVE  Recorded(w)
  <2> DEFINE new == [r EXCEPT !.inFlight = FALSE, !.status = IF failed THEN "failed" ELSE "finished",
                       !.error = IF failed THEN "provider" ELSE @]
  <2>1. new \in Worker /\ OnePromptOf(new) /\ ErrorExplainsOf(new) /\ new.cwd = r.cwd
    <3>1. new \in Worker /\ new.cwd = r.cwd
      BY <1>0 DEF Worker, Statuses, Failures
    <3>2. OnePromptOf(new)
      BY <1>0 DEF Worker, OnePromptOf
    <3>3. ErrorExplainsOf(new)
      BY <1>0 DEF Worker, ErrorExplainsOf
    <3> QED
      BY <3>1, <3>2, <3>3
  <2> QED
    BY <1>8, <2>1 DEF Good, Recorded, ObserveCompletion
<1>9. CASE Restart(w)
  <2> DEFINE new == [r EXCEPT !.status = "spawning", !.inFlight = FALSE, !.error = "none",
                       !.last = NoPrompt, !.replay = NoPrompt, !.cleared = FALSE]
  <2>1. new \in Worker /\ OnePromptOf(new) /\ ErrorExplainsOf(new) /\ new.cwd = r.cwd
    BY <1>0 DEF Worker, Statuses, OnePromptOf, ErrorExplainsOf
  <2> QED
    BY <1>9, <2>1 DEF Good, Recorded, Restart
<1>10. CASE Terminate(w)
  <2> DEFINE new == [r EXCEPT !.status = "finished", !.inFlight = FALSE]
  <2>1. new \in Worker /\ OnePromptOf(new) /\ ErrorExplainsOf(new) /\ new.cwd = r.cwd
    BY <1>0 DEF Worker, Statuses, OnePromptOf, ErrorExplainsOf
  <2> QED
    BY <1>10, <2>1 DEF Good, Recorded, Terminate
<1> QED
  BY <1>1, <1>2, <1>3, <1>4, <1>5, <1>6, <1>7, <1>8, <1>9, <1>10
  DEF Operation, Observe, SendPrompt

LEMMA RegistryStart == Init => IInv
BY DEF Init, IInv, TypeOK, OnePrompt, ErrorExplains, FilesAreCurrent

LEMMA RegistryStep == ASSUME IInv, [Next]_vars PROVE IInv'
<1>1. ASSUME NEW w \in Workers, Create(w) PROVE IInv'
  BY <1>1, CreateRecords, RecordKeeps DEF Recorded
<1>2. ASSUME NEW w \in DOMAIN workers, Operation(w) PROVE IInv'
  <2>1. w \in Workers
    BY DEF IInv, TypeOK
  <2> QED
    BY <1>2, <2>1, OperationRecords, RecordKeeps DEF Recorded
<1>3. CASE UNCHANGED vars
  BY <1>3 DEF vars, IInv, TypeOK, OnePrompt, ErrorExplains, FilesAreCurrent
<1> QED
  BY <1>1, <1>2, <1>3 DEF Next

(* The invariant is inductive. *)
LEMMA Inductive == Spec => []IInv
BY RegistryStart, RegistryStep, PTL DEF Spec

(* Workers and state files keep their types, whatever is observed. *)
THEOREM TypeCorrect == Spec => []TypeOK
<1>1. IInv => TypeOK
  BY DEF IInv
<1> QED
  BY <1>1, Inductive, PTL

(* A prompt is never both in flight and armed for replay, and what is      *)
(* replayed is the prompt sent last.                                       *)
THEOREM PromptsAgree == Spec => []OnePrompt
<1>1. IInv => OnePrompt
  BY DEF IInv
<1> QED
  BY <1>1, Inductive, PTL

(* A blocked worker has the error that recovery needs to choose a recipe. *)
THEOREM ErrorsExplain == Spec => []ErrorExplains
<1>1. IInv => ErrorExplains
  BY DEF IInv
<1> QED
  BY <1>1, Inductive, PTL

(* Unless the last write to it failed, a state file tells the state of a   *)
(* worker of its directory as it is now, however many share it.            *)
THEOREM FilesTellTheTruth == Spec => []FilesAreCurrent
<1>1. IInv => FilesAreCurrent
  BY DEF IInv
<1> QED
  BY <1>1, Inductive, PTL
-----------------------------------------------------------------------------
(* Tasks, teams and cron entries.  The counters are the creations, so the   *)
(* id of what is created is its birth; every reference was made of an id    *)
(* and the birth it had, and so names what it named wherever it is known.   *)

TrueRefs == {ref \in Refs : ref.id = ref.birth}

TaskRecords == [status : TaskStatuses, team : TrueRefs, birth : 1..MaxIds]
TeamRecords == [status : TeamStatuses, tasks : SUBSET TrueRefs, birth : 1..MaxIds]
EntryRecords == [enabled : BOOLEAN, runs : Nat, dated : BOOLEAN, birth : 1..MaxIds]

(* What a registry knows is of its kind, and under its birth. *)
Registered(f, records) == \A i \in DOMAIN f : i \in 1..MaxIds /\ f[i] \in records /\ f[i].birth = i

CountersAreBirths ==
  /\ births = counters /\ counters \in [Registries -> Nat]
  /\ births["task"] + births["team"] + births["cron"] <= MaxIds

TasksInv ==
  /\ CountersAreBirths
  /\ Registered(tasks, TaskRecords) /\ Registered(teams, TeamRecords) /\ Registered(entries, EntryRecords)
  /\ due \subseteq TrueRefs

(* The invariant holds the types, and that ids keep their meaning. *)
LEMMA TasksInvSuffices == TasksInv => TasksTypeOK /\ IdsKeepTheirMeaning
<1> SUFFICES ASSUME TasksInv PROVE TasksTypeOK /\ IdsKeepTheirMeaning
  OBVIOUS
<1> USE TasksAssumption
<1>1. TasksTypeOK
  BY DEF TasksInv, TasksTypeOK, Registered, TaskRecords, TeamRecords, EntryRecords, TrueRefs
<1>2. ASSUME NEW ref \in TrueRefs PROVE Meant("task", ref) /\ Meant("team", ref) /\ Meant("cron", ref)
  BY DEF TasksInv, Registered, TrueRefs, Meant, Registry
<1> QED
  BY <1>1, <1>2 DEF TasksInv, IdsKeepTheirMeaning, Registered, TaskRecords, TeamRecords

(* A creation takes a new number, which the bound allows. *)
LEMMA CreatedCounts ==
  ASSUME TasksInv, NEW r \in Registries, Created(r)
  PROVE  CountersAreBirths' /\ births'[r] = NewId(r) /\ NewId(r) \in 1..MaxIds
<1> USE TasksAssumption
<1>1. counters' \in [Registries -> Nat] /\ births' = counters' /\ counters'[r] = counters[r] + 1
  BY DEF TasksInv, CountersAreBirths, Created
<1>2. births["task"] \in Nat /\ births["team"] \in Nat /\ births["cron"] \in Nat /\ counters[r] \in Nat
  BY DEF TasksInv, CountersAreBirths, Registries
<1>3. counters[r] + 1 <= MaxIds
  BY <1>2 DEF TasksInv, CountersAreBirths, Created, Registries
<1>4. births'["task"] + births'["team"] + births'["cron"] <= MaxIds
  BY <1>2 DEF TasksInv, CountersAreBirths, Created, Registries
<1> QED
  BY <1>1, <1>2, <1>3, <1>4 DEF CountersAreBirths, NewId

(* Registering, changing and removing keep what is registered. *)
LEMMA RegisteredKept ==
  ASSUME NEW f, NEW records, Registered(f, records)
  PROVE  /\ \A i \in 1..MaxIds : \A y \in records : y.birth = i => Registered(With(f, i, y), records)
         /\ \A i : Registered(Without(f, i), records)
         /\ \A i \in DOMAIN f : \A y \in records :
              y.birth = i => Registered([f EXCEPT ![i] = y], records)
BY DEF Registered, With, Without

(* What a registry knows can be referred to. *)
LEMMA KnownAreTrue ==
  ASSUME TasksInv, NEW r \in Registries
  PROVE  Known(r) \subseteq TrueRefs
<1> USE TasksAssumption
<1>1. ASSUME NEW i \in DOMAIN Registry(r)
      PROVE  [id |-> i, birth |-> Registry(r)[i].birth] \in TrueRefs
  BY DEF TasksInv, Registered, Registry, Registries, TrueRefs, Refs
<1> QED
  BY <1>1 DEF Known

LEMMA TasksStart == TasksInit => TasksInv
BY TasksAssumption DEF TasksInit, TasksInv, CountersAreBirths, Registered, Registries, TrueRefs

(* Every operation of the three registries keeps the invariant. *)
LEMMA TasksStep == TasksInv /\ [TasksNext]_taskVars => TasksInv'
<1> SUFFICES ASSUME TasksInv, [TasksNext]_taskVars PROVE TasksInv'
  OBVIOUS
<1> USE TasksAssumption
<1>0. Registered(tasks, TaskRecords) /\ Registered(teams, TeamRecords) /\ Registered(entries, EntryRecords)
  BY DEF TasksInv
<1>1. CASE CreateTask
  <2> DEFINE new == [status |-> "created", team |-> NoTeam, birth |-> births'["task"]]
  <2>1. CountersAreBirths' /\ births'["task"] = NewId("task") /\ NewId("task") \in 1..MaxIds
    BY <1>1, CreatedCounts DEF CreateTask, Registries
  <2>2. new \in TaskRecords /\ new.birth = NewId("task")
    BY <2>1 DEF TaskRecords, TaskStatuses, TrueRefs, Refs, NoTeam
  <2>3. Registered(tasks', TaskRecords)
    BY <1>0, <1>1, <2>1, <2>2, RegisteredKept DEF CreateTask
  <2> QED
    BY <1>1, <2>1, <2>3 DEF CreateTask, TasksInv
<1>2. CASE CreateCron
  <2> DEFINE new == [enabled |-> TRUE, runs |-> 0, dated |-> FALSE, birth |-> births'["cron"]]
  <2>1. CountersAreBirths' /\ births'["cron"] = NewId("cron") /\ NewId("cron") \in 1..MaxIds
    BY <1>2, CreatedCounts DEF CreateCron, Registries
  <2>2. new \in EntryRecords /\ new.birth = NewId("cron")
    BY <2>1 DEF EntryRecords
  <2>3. Registered(entries', EntryRecords)
    BY <1>0, <1>2, <2>1, <2>2, RegisteredKept DEF CreateCron
  <2> QED
    BY <1>2, <2>1, <2>3 DEF CreateCron, TasksInv
<1>3. CASE ListDue
  BY <1>3, KnownAreTrue DEF ListDue, TasksInv, Registries, CountersAreBirths
<1>4. ASSUME NEW t \in DOMAIN tasks, NEW y \in TaskRecords, y.birth = t, tasks' = [tasks EXCEPT ![t] = y],
             UNCHANGED <<teams, entries, counters, births, due>>
      PROVE  TasksInv'
  <2>1. Registered(tasks', TaskRecords)
    BY <1>0, <1>4, RegisteredKept
  <2> QED
    BY <1>4, <2>1 DEF TasksInv, CountersAreBirths
<1>5. ASSUME NEW t \in DOMAIN tasks,
             Stop(t) \/ \E s \in TaskStatuses : SetStatus(t, s)
      PROVE  TasksInv'
  <2>1. PICK s \in TaskStatuses : tasks' = [tasks EXCEPT ![t].status = s]
    BY <1>5 DEF Stop, SetStatus, TaskStatuses
  <2>2. [tasks[t] EXCEPT !.status = s] \in TaskRecords /\ [tasks[t] EXCEPT !.status = s].birth = t
    BY <1>0 DEF Registered, TaskRecords
  <2>3. UNCHANGED <<teams, entries, counters, births, due>>
    BY <1>5 DEF Stop, SetStatus
  <2> QED
    BY <1>4, <2>1, <2>2, <2>3
<1>6. ASSUME NEW t \in DOMAIN tasks, RemoveTask(t) PROVE TasksInv'
  <2>1. Registered(tasks', TaskRecords)
    BY <1>0, <1>6, RegisteredKept DEF RemoveTask
  <2> QED
    BY <1>6, <2>1 DEF RemoveTask, TasksInv, CountersAreBirths
<1>7. ASSUME NEW t \in DOMAIN tasks, NEW ref \in Known("team"), AssignTeam(t, ref) PROVE TasksInv'
  <2>1. ref \in TrueRefs
    BY KnownAreTrue DEF Registries
  <2>2. [tasks[t] EXCEPT !.team = ref] \in TaskRecords /\ [tasks[t] EXCEPT !.team = ref].birth = t
    BY <1>0, <2>1 DEF Registered, TaskRecords
  <2> QED
    BY <1>4, <1>7, <2>2 DEF AssignTeam
<1>8. ASSUME NEW refs \in SUBSET Known("task"), CreateTeam(refs) PROVE TasksInv'
  <2> DEFINE new == [status |-> "created", tasks |-> refs, birth |-> births'["team"]]
  <2>1. CountersAreBirths' /\ births'["team"] = NewId("team") /\ NewId("team") \in 1..MaxIds
    BY <1>8, CreatedCounts DEF CreateTeam, Registries
  <2>2. refs \in SUBSET TrueRefs
    BY KnownAreTrue DEF Registries
  <2>3. new \in TeamRecords /\ new.birth = NewId("team")
    BY <2>1, <2>2 DEF TeamRecords, TeamStatuses
  <2>4. Registered(teams', TeamRecords)
    BY <1>0, <1>8, <2>1, <2>3, RegisteredKept DEF CreateTeam
  <2> QED
    BY <1>8, <2>1, <2>4 DEF CreateTeam, TasksInv
<1>9. ASSUME NEW t \in DOMAIN teams, DeleteTeam(t) \/ RemoveTeam(t) PROVE TasksInv'
  <2>1. [teams[t] EXCEPT !.status = "deleted"] \in TeamRecords /\ [teams[t] EXCEPT !.status = "deleted"].birth = t
    BY <1>0 DEF Registered, TeamRecords, TeamStatuses
  <2>2. Registered([teams EXCEPT ![t] = [teams[t] EXCEPT !.status = "deleted"]], TeamRecords)
    BY <1>0, <2>1, RegisteredKept
  <2>3. Registered(Without(teams, t), TeamRecords)
    BY <1>0, RegisteredKept
  <2> QED
    BY <1>9, <2>2, <2>3 DEF DeleteTeam, RemoveTeam, TasksInv, CountersAreBirths
<1>10. ASSUME NEW e \in DOMAIN entries, DeleteCron(e) \/ Disable(e) PROVE TasksInv'
  <2>0. entries[e] \in EntryRecords /\ entries[e].birth = e
    BY <1>0 DEF Registered
  <2>1. [entries[e] EXCEPT !.enabled = FALSE] \in EntryRecords /\ [entries[e] EXCEPT !.enabled = FALSE].birth = e
    BY <2>0 DEF EntryRecords
  <2>2. Registered([entries EXCEPT ![e] = [entries[e] EXCEPT !.enabled = FALSE]], EntryRecords)
    BY <1>0, <2>1, RegisteredKept
  <2>3. Registered(Without(entries, e), EntryRecords)
    BY <1>0, RegisteredKept
  <2> QED
    BY <1>10, <2>2, <2>3 DEF DeleteCron, Disable, TasksInv, CountersAreBirths
<1>11. ASSUME NEW ref \in due, RecordRun(ref) PROVE TasksInv'
  <2>1. Registered(entries', EntryRecords)
    <3>1. CASE ref.id \in DOMAIN entries /\ entries[ref.id].runs < 1
      <4> DEFINE old == entries[ref.id]
                 mid == [old EXCEPT !.runs = @ + 1]
                 new == [mid EXCEPT !.dated = TRUE]
      <4>0. old \in EntryRecords /\ old.birth = ref.id
        BY <1>0, <3>1 DEF Registered
      <4>1. mid \in EntryRecords /\ mid.birth = ref.id
        BY <4>0 DEF EntryRecords
      <4>2. entries' = [entries EXCEPT ![ref.id] = new]
        BY <1>11, <3>1 DEF RecordRun
      <4> HIDE DEF mid
      <4>3. new \in EntryRecords /\ new.birth = ref.id
        BY <4>1 DEF EntryRecords
      <4> HIDE DEF new
      <4> QED
        BY <1>0, <3>1, <4>2, <4>3, RegisteredKept
    <3>2. CASE ~(ref.id \in DOMAIN entries /\ entries[ref.id].runs < 1)
      BY <1>0, <1>11, <3>2 DEF RecordRun
    <3> QED
      BY <3>1, <3>2
  <2> QED
    BY <1>11, <2>1 DEF RecordRun, TasksInv, CountersAreBirths
<1>12. CASE UNCHANGED taskVars
  BY <1>12 DEF taskVars, TasksInv, CountersAreBirths
<1> QED
  BY <1>1, <1>2, <1>3, <1>5, <1>6, <1>7, <1>8, <1>9, <1>10, <1>11, <1>12 DEF TasksNext
-----------------------------------------------------------------------------
(* Recovery.  While a scenario is recovered from, what was performed is a   *)
(* beginning of its recipe; the goroutines that nobody waits for are as     *)
(* many at most as there are scenarios whose only attempt is over and whose *)
(* recipe has a handshake.                                                  *)

Steps == {"accept_trust_prompt", "redirect_prompt_to_agent", "rebase_branch", "clean_build",
          "retry_mcp_handshake", "restart_plugin", "restart_worker"}

Handshaking == {s \in Scenarios : Contains(Recipe(s), "retry_mcp_handshake")}
Spent == {s \in Handshaking : attempts[s] = 1 /\ recovering # <<s>>}

UnderWay ==
  \E s \in Scenarios :
    /\ recovering = <<s>> /\ attempts[s] = 1
    /\ performed \in Seq(Steps) /\ Len(performed) < Len(Recipe(s))
    /\ \A i \in 1..Len(performed) : performed[i] = Recipe(s)[i]

AttemptsOK == attempts \in [Scenarios -> 0..1] /\ (recovering = <<>> \/ UnderWay)
WaitsForHandshake == handshake => recovering # <<>> /\ Step = "retry_mcp_handshake"
ReconnectsOK == reconnects \in Nat /\ reconnects <= Cardinality(Spent)

RecoveryInv == AttemptsOK /\ WaitsForHandshake /\ ReconnectsOK /\ OutcomeIsTrue

LEMMA RecipeType ==
  ASSUME NEW s \in AllScenarios
  PROVE  Recipe(s) \in Seq(Steps) /\ Len(Recipe(s)) > 0
<1>1. \A a, b \in Steps : <<a>> \in Seq(Steps) /\ <<a, b>> \in Seq(Steps)
  OBVIOUS
<1>2. CASE s = "trust_prompt_unresolved"
  <2>1. Recipe(s) = <<"accept_trust_prompt">>
    BY <1>2 DEF Recipe
  <2> QED
    BY <1>1, <2>1 DEF Steps
<1>3. CASE s = "prompt_misdelivery"
  <2>1. Recipe(s) = <<"redirect_prompt_to_agent">>
    BY <1>3 DEF Recipe
  <2> QED
    BY <1>1, <2>1 DEF Steps
<1>4. CASE s = "stale_branch"
  <2>1. Recipe(s) = <<"rebase_branch", "clean_build">>
    BY <1>4 DEF Recipe
  <2> QED
    BY <1>1, <2>1 DEF Steps
<1>5. CASE s = "compile_red_cross_crate"
  <2>1. Recipe(s) = <<"clean_build">>
    BY <1>5 DEF Recipe
  <2> QED
    BY <1>1, <2>1 DEF Steps
<1>6. CASE s = "mcp_handshake_failure"
  <2>1. Recipe(s) = <<"retry_mcp_handshake">>
    BY <1>6 DEF Recipe
  <2> QED
    BY <1>1, <2>1 DEF Steps
<1>7. CASE s = "partial_plugin_startup"
  <2>1. Recipe(s) = <<"restart_plugin", "retry_mcp_handshake">>
    BY <1>7 DEF Recipe
  <2> QED
    BY <1>1, <2>1 DEF Steps
<1>8. CASE s = "provider_failure"
  <2>1. Recipe(s) = <<"restart_worker">>
    BY <1>8 DEF Recipe
  <2> QED
    BY <1>1, <2>1 DEF Steps
<1> QED
  BY <1>2, <1>3, <1>4, <1>5, <1>6, <1>7, <1>8 DEF AllScenarios

(* What is left of a recipe completes what was done of it. *)
LEMMA RestCompletes ==
  ASSUME NEW all \in Seq(Steps), NEW done \in Seq(Steps), Len(done) < Len(all),
         \A i \in 1..Len(done) : done[i] = all[i]
  PROVE  done \o SubSeq(all, Len(done) + 1, Len(all)) = all
<1> DEFINE rest == SubSeq(all, Len(done) + 1, Len(all))
<1>0. Len(done) \in Nat /\ Len(all) \in Nat
  BY LenProperties
<1>1. /\ rest \in Seq(Steps) /\ Len(rest) = Len(all) - Len(done)
      /\ \A i \in 1..Len(rest) : rest[i] = all[Len(done) + 1 + i - 1]
  BY <1>0, SubSeqProperties
<1> HIDE DEF rest
<1>2. /\ done \o rest \in Seq(Steps)
      /\ Len(done \o rest) = Len(done) + Len(rest)
      /\ \A i \in 1..Len(done) + Len(rest) :
           (done \o rest)[i] = IF i <= Len(done) THEN done[i] ELSE rest[i - Len(done)]
  BY <1>1, ConcatProperties
<1>3. Len(done \o rest) = Len(all)
  BY <1>0, <1>1, <1>2
<1>4. ASSUME NEW i \in 1..Len(all) PROVE (done \o rest)[i] = all[i]
  <2>1. CASE i <= Len(done)
    BY <1>0, <1>1, <1>2, <2>1
  <2>2. CASE ~(i <= Len(done))
    <3>1. i - Len(done) \in 1..Len(rest)
      BY <1>0, <1>1, <2>2
    <3>2. rest[i - Len(done)] = all[Len(done) + 1 + (i - Len(done)) - 1]
      BY <1>1, <3>1
    <3>3. Len(done) + 1 + (i - Len(done)) - 1 = i
      BY <1>0
    <3>4. (done \o rest)[i] = rest[i - Len(done)]
      BY <1>0, <1>1, <1>2, <2>2
    <3> QED
      BY <3>2, <3>3, <3>4
  <2> QED
    BY <2>1, <2>2
<1>5. done \o rest = all
  BY <1>2, <1>3, <1>4, SeqEqual
<1> QED
  BY <1>5 DEF rest

LEMMA HandshakingFinite == IsFiniteSet(Handshaking)
<1>1. IsFiniteSet(AllScenarios)
  <2> DEFINE S1 == {"trust_prompt_unresolved"} \cup {"prompt_misdelivery"}
             S2 == S1 \cup {"stale_branch"}
             S3 == S2 \cup {"compile_red_cross_crate"}
             S4 == S3 \cup {"mcp_handshake_failure"}
             S5 == S4 \cup {"partial_plugin_startup"}
             S6 == S5 \cup {"provider_failure"}
  <2>1. AllScenarios = S6
    BY DEF AllScenarios
  <2>2. IsFiniteSet(S1)
    BY FS_Singleton, FS_AddElement
  <2> HIDE DEF S1, S2, S3, S4, S5, S6
  <2>3. IsFiniteSet(S3)
    BY <2>2, FS_AddElement DEF S2, S3
  <2>4. IsFiniteSet(S6)
    BY <2>3, FS_AddElement DEF S4, S5, S6
  <2> QED
    BY <2>1, <2>4
<1>2. Handshaking \subseteq AllScenarios
  BY RecoveryAssumption DEF Handshaking
<1> QED
  BY <1>1, <1>2, FS_Subset

(* The more attempts are over, the more goroutines there may be. *)
LEMMA SpentMonotonic ==
  ASSUME Spent \subseteq Spent'
  PROVE  /\ Cardinality(Spent) \in Nat /\ Cardinality(Spent') \in Nat
         /\ Cardinality(Spent) <= Cardinality(Spent')
         /\ Spent # Spent' => Cardinality(Spent) + 1 <= Cardinality(Spent')
<1>1. Spent \subseteq Handshaking /\ Spent' \subseteq Handshaking
  BY DEF Spent
<1>2. IsFiniteSet(Spent) /\ IsFiniteSet(Spent')
  BY <1>1, HandshakingFinite, FS_Subset
<1>3. Cardinality(Spent) \in Nat /\ Cardinality(Spent') \in Nat
  BY <1>2, FS_CardinalityType
<1> QED
  BY <1>2, <1>3, FS_Subset

(* The step at hand is the next one of the recipe. *)
LEMMA StepIsNext ==
  ASSUME AttemptsOK, recovering # <<>>
  PROVE  \E s \in Scenarios :
           /\ recovering = <<s>> /\ recovering[1] = s /\ attempts[s] = 1
           /\ Recipe(s) \in Seq(Steps) /\ performed \in Seq(Steps)
           /\ Len(performed) < Len(Recipe(s))
           /\ \A i \in 1..Len(performed) : performed[i] = Recipe(s)[i]
           /\ Step = Recipe(s)[Len(performed) + 1] /\ Step \in Steps
<1>1. PICK s \in Scenarios :
        /\ recovering = <<s>> /\ attempts[s] = 1
        /\ performed \in Seq(Steps) /\ Len(performed) < Len(Recipe(s))
        /\ \A i \in 1..Len(performed) : performed[i] = Recipe(s)[i]
  BY DEF AttemptsOK, UnderWay
<1>2. Recipe(s) \in Seq(Steps)
  BY RecipeType, RecoveryAssumption
<1>3. recovering[1] = s
  BY <1>1
<1>4. Len(performed) + 1 \in 1..Len(Recipe(s))
  BY <1>1, <1>2, LenProperties
<1>5. Recipe(s)[Len(performed) + 1] \in Steps
  BY <1>2, <1>4, ElementOfSeq
<1> QED
  BY <1>1, <1>2, <1>3, <1>5 DEF Step

(* After a step that has worked. *)
LEMMA SucceedKeeps ==
  ASSUME AttemptsOK, recovering # <<>>, Succeed, UNCHANGED attempts
  PROVE  AttemptsOK' /\ OutcomeIsTrue' /\ Spent \subseteq Spent'
<1>1. PICK s \in Scenarios :
        /\ recovering = <<s>> /\ recovering[1] = s /\ attempts[s] = 1
        /\ Recipe(s) \in Seq(Steps) /\ performed \in Seq(Steps)
        /\ Len(performed) < Len(Recipe(s))
        /\ \A i \in 1..Len(performed) : performed[i] = Recipe(s)[i]
        /\ Step = Recipe(s)[Len(performed) + 1] /\ Step \in Steps
  BY StepIsNext
<1>2. performed' = Append(performed, Step)
  BY DEF Succeed
<1>3. /\ performed' \in Seq(Steps) /\ Len(performed') = Len(performed) + 1
      /\ \A i \in 1..Len(performed) : performed'[i] = performed[i]
      /\ performed'[Len(performed) + 1] = Step
  BY <1>1, <1>2, AppendProperties
<1>4. Len(performed) \in Nat /\ Len(Recipe(s)) \in Nat
  BY <1>1, LenProperties
<1>5. \A i \in 1..Len(performed') : performed'[i] = Recipe(s)[i]
  BY <1>1, <1>3, <1>4
<1>6. CASE Len(performed') = Len(Recipe(s))
  <2>1. performed' = Recipe(s)
    BY <1>1, <1>3, <1>5, <1>6, SeqEqual
  <2>2. recovering' = <<>> /\ outcome' = [kind |-> "recovered", scenario |-> s, recovered |-> performed', remaining |-> <<>>]
    BY <1>1, <1>6 DEF Succeed, Result
  <2>3. OutcomeIsTrue'
    BY <2>1, <2>2 DEF OutcomeIsTrue
  <2>4. Spent \subseteq Spent'
    BY <2>2 DEF Spent
  <2> QED
    BY <2>2, <2>3, <2>4 DEF AttemptsOK
<1>7. CASE Len(performed') # Len(Recipe(s))
  <2>1. recovering' = <<s>> /\ recovering' # <<>>
    BY <1>1, <1>7 DEF Succeed
  <2>2. UnderWay'
    BY <1>1, <1>3, <1>4, <1>5, <1>7, <2>1 DEF UnderWay
  <2> QED
    BY <1>1, <2>1, <2>2 DEF AttemptsOK, OutcomeIsTrue, Spent
<1> QED
  BY <1>6, <1>7

(* After a step that has failed: the attempt is over, and the goroutine of  *)
(* a handshake is one that the attempt has paid for.                        *)
LEMMA FailKeeps ==
  ASSUME AttemptsOK, recovering # <<>>, Fail, UNCHANGED attempts
  PROVE  /\ AttemptsOK' /\ OutcomeIsTrue' /\ recovering' = <<>> /\ Spent \subseteq Spent'
         /\ Step = "retry_mcp_handshake" => Spent # Spent'
<1>1. PICK s \in Scenarios :
        /\ recovering = <<s>> /\ recovering[1] = s /\ attempts[s] = 1
        /\ Recipe(s) \in Seq(Steps) /\ performed \in Seq(Steps)
        /\ Len(performed) < Len(Recipe(s))
        /\ \A i \in 1..Len(performed) : performed[i] = Recipe(s)[i]
        /\ Step = Recipe(s)[Len(performed) + 1] /\ Step \in Steps
  BY StepIsNext
<1>2. recovering' = <<>> /\ performed' = performed
  BY DEF Fail
<1>3. Len(performed) \in Nat /\ Len(Recipe(s)) \in Nat
  BY <1>1, LenProperties
<1>4. OutcomeIsTrue'
  <2>1. CASE performed = <<>>
    <3>1. outcome' = [kind |-> "escalation_required", scenario |-> s, recovered |-> <<>>, remaining |-> <<>>]
      BY <1>1, <2>1 DEF Fail, Result
    <3> QED
      BY <1>2, <2>1, <3>1 DEF OutcomeIsTrue
  <2>2. CASE performed # <<>>
    <3> DEFINE rest == SubSeq(Recipe(s), Len(performed) + 1, Len(Recipe(s)))
    <3>1. outcome' = [kind |-> "partial_recovery", scenario |-> s, recovered |-> performed, remaining |-> rest]
      BY <1>1, <2>2 DEF Fail, Result
    <3>2. performed \o rest = Recipe(s)
      BY <1>1, RestCompletes
    <3> QED
      BY <1>2, <2>2, <3>1, <3>2 DEF OutcomeIsTrue
  <2> QED
    BY <2>1, <2>2
<1>5. Spent \subseteq Spent'
  BY <1>2 DEF Spent
<1>6. ASSUME Step = "retry_mcp_handshake" PROVE s \in Spent' /\ s \notin Spent
  <2>1. Contains(Recipe(s), "retry_mcp_handshake")
    <3>1. Len(performed) + 1 \in 1..Len(Recipe(s))
      BY <1>1, <1>3
    <3>2. Recipe(s)[Len(performed) + 1] = "retry_mcp_handshake"
      BY <1>1, <1>6
    <3> QED
      BY <3>1, <3>2 DEF Contains
  <2> QED
    BY <1>1, <1>2, <2>1 DEF Spent, Handshaking
<1> QED
  BY <1>2, <1>4, <1>5, <1>6 DEF AttemptsOK
LEMMA RecoveryStart == RecoveryInit => RecoveryInv
<1> SUFFICES ASSUME RecoveryInit PROVE RecoveryInv
  OBVIOUS
<1>1. Spent = {} /\ Cardinality({}) = 0
  BY FS_EmptySet DEF RecoveryInit, Spent, Handshaking
<1>2. AttemptsOK
  BY DEF RecoveryInit, AttemptsOK
<1>3. WaitsForHandshake /\ OutcomeIsTrue
  BY DEF RecoveryInit, WaitsForHandshake, OutcomeIsTrue, NoOutcome
<1>4. ReconnectsOK
  BY <1>1 DEF RecoveryInit, ReconnectsOK
<1> QED
  BY <1>2, <1>3, <1>4 DEF RecoveryInv

(* An attempt is counted before its first step: only a scenario that has   *)
(* never been attempted begins, and none of the others is freed.           *)
LEMMA BeginKeeps ==
  ASSUME RecoveryInv, NEW s \in Scenarios, BeginRecovery(s)
  PROVE  RecoveryInv'
<1>0. recovering = <<>> /\ ~handshake /\ attempts[s] \in 0..1 /\ Recipe(s) \in Seq(Steps)
  BY RecipeType, RecoveryAssumption DEF RecoveryInv, BeginRecovery, WaitsForHandshake, AttemptsOK
<1>1. ~handshake' /\ WaitsForHandshake'
  BY <1>0 DEF BeginRecovery, WaitsForHandshake
<1>2. CASE attempts[s] >= MaxAttempts
  <2>1. UNCHANGED <<attempts, recovering, reconnects>> /\ performed' = <<>>
        /\ outcome' = [NoOutcome EXCEPT !.kind = "escalation_required", !.scenario = s]
    BY <1>2 DEF BeginRecovery
  <2>2. AttemptsOK' /\ ReconnectsOK'
    BY <1>0, <2>1 DEF RecoveryInv, AttemptsOK, ReconnectsOK, Spent
  <2>3. outcome'.kind = "escalation_required"
    BY <2>1 DEF NoOutcome
  <2>4. OutcomeIsTrue'
    BY <2>1, <2>3 DEF OutcomeIsTrue
  <2> QED
    BY <1>1, <2>2, <2>4 DEF RecoveryInv
<1>3. CASE ~(attempts[s] >= MaxAttempts)
  <2>1. /\ attempts' = [attempts EXCEPT ![s] = @ + 1] /\ attempts[s] = 0
        /\ recovering' = <<s>> /\ performed' = <<>> /\ reconnects' = reconnects
    BY <1>0, <1>3 DEF BeginRecovery, MaxAttempts
  <2>2. attempts' \in [Scenarios -> 0..1] /\ attempts'[s] = 1
    BY <2>1 DEF RecoveryInv, AttemptsOK
  <2>3. Len(Recipe(s)) > 0
    BY RecipeType, RecoveryAssumption
  <2>4. UnderWay'
    BY <2>1, <2>2, <2>3, EmptySeq DEF UnderWay
  <2>5. \A r \in Scenarios \ {s} : attempts'[r] = attempts[r]
    BY <2>1 DEF RecoveryInv, AttemptsOK
  <2>6. Spent \subseteq Spent'
    <3> SUFFICES ASSUME NEW r \in Spent PROVE r \in Spent'
      OBVIOUS
    <3>1. r \in Handshaking /\ r \in Scenarios /\ attempts[r] = 1 /\ r # s
      BY <2>1 DEF Spent, Handshaking
    <3>2. <<s>> # <<r>>
      BY <3>1
    <3> QED
      BY <2>1, <2>5, <3>1, <3>2 DEF Spent
  <2>7. ReconnectsOK'
    BY <2>1, <2>6, SpentMonotonic DEF RecoveryInv, ReconnectsOK
  <2>8. recovering' # <<>>
    BY <2>1
  <2> QED
    BY <1>1, <2>2, <2>4, <2>7, <2>8 DEF RecoveryInv, AttemptsOK, OutcomeIsTrue
<1> QED
  BY <1>2, <1>3

(* A step that works or fails without a handshake. *)
LEMMA PlainStepKeeps ==
  ASSUME RecoveryInv, recovering # <<>>, Step # "retry_mcp_handshake",
         Succeed \/ Fail, UNCHANGED <<attempts, handshake, reconnects>>
  PROVE  RecoveryInv'
<1>1. AttemptsOK' /\ OutcomeIsTrue' /\ Spent \subseteq Spent'
  BY SucceedKeeps, FailKeeps DEF RecoveryInv
<1>2. ~handshake'
  BY DEF RecoveryInv, WaitsForHandshake
<1>3. ReconnectsOK'
  BY <1>1, SpentMonotonic DEF RecoveryInv, ReconnectsOK
<1> QED
  BY <1>1, <1>2, <1>3 DEF RecoveryInv, WaitsForHandshake

LEMMA RecoveryStepKeeps ==
  ASSUME IInv, RecoveryInv, RecoveryStep
  PROVE  IInv' /\ RecoveryInv'
<1>0. recovering # <<>> /\ UNCHANGED attempts
  BY DEF RecoveryStep
<1>1. ASSUME Step # "retry_mcp_handshake", Succeed \/ Fail, UNCHANGED <<handshake, reconnects>>,
             UNCHANGED vars \/ (Target \in DOMAIN workers /\ Operation(Target))
      PROVE  IInv' /\ RecoveryInv'
  <2>1. RecoveryInv'
    BY <1>0, <1>1, PlainStepKeeps
  <2>2. CASE Target \in DOMAIN workers /\ Operation(Target)
    <3>1. Target \in Workers
      BY <2>2 DEF IInv, TypeOK
    <3> QED
      BY <2>1, <2>2, <3>1, OperationRecords, RecordKeeps DEF Recorded
  <2>3. CASE UNCHANGED vars
    BY <2>1, <2>3 DEF vars, IInv, TypeOK, OnePrompt, ErrorExplains, FilesAreCurrent
  <2> QED
    BY <1>1, <2>2, <2>3
<1>2. CASE WorkerStep /\ UNCHANGED reconnects
  <2>1. ResolveTrust(Target) \/ SendPrompt(Target, Blank) \/ ReplayPrompt(Target) \/ Restart(Target)
          => Operation(Target)
    BY DEF Operation, Texts
  <2>2. Step # "retry_mcp_handshake" /\ (Succeed \/ Fail) /\ UNCHANGED handshake
    BY <1>2 DEF WorkerStep, OnWorker
  <2>3. UNCHANGED vars \/ (Target \in DOMAIN workers /\ Operation(Target))
    BY <1>2, <2>1 DEF WorkerStep, OnWorker
  <2> QED
    BY <1>1, <1>2, <2>2, <2>3
<1>3. CASE (GitStep \/ PluginStep) /\ UNCHANGED reconnects
  <2>1. CASE GitStep
    <3>1. Step # "retry_mcp_handshake" /\ (Succeed \/ Fail) /\ UNCHANGED <<handshake, vars>>
      BY <2>1 DEF GitStep
    <3> QED
      BY <1>1, <1>3, <3>1
  <2>2. CASE PluginStep
    <3>1. Step # "retry_mcp_handshake" /\ (Succeed \/ Fail) /\ UNCHANGED <<handshake, vars>>
      BY <2>2, Zenon DEF PluginStep
    <3> QED
      BY <1>1, <1>3, <3>1
  <2> QED
    BY <1>3, <2>1, <2>2
<1>4. CASE StartHandshake
  <2>1. UNCHANGED <<recovering, performed, outcome, reconnects, vars>> /\ Step = "retry_mcp_handshake"
    BY <1>4 DEF StartHandshake
  <2>2. IInv'
    BY <2>1 DEF vars, IInv, TypeOK, OnePrompt, ErrorExplains, FilesAreCurrent
  <2>3. AttemptsOK' /\ OutcomeIsTrue' /\ ReconnectsOK'
    BY <1>0, <2>1 DEF RecoveryInv, AttemptsOK, UnderWay, OutcomeIsTrue, ReconnectsOK, Spent
  <2>4. WaitsForHandshake'
    BY <1>0, <2>1 DEF WaitsForHandshake, Step
  <2> QED
    BY <2>2, <2>3, <2>4 DEF RecoveryInv
<1>5. CASE EndHandshake
  <2>1. Step = "retry_mcp_handshake" /\ ~handshake' /\ UNCHANGED vars
    BY <1>5 DEF EndHandshake, RecoveryInv, WaitsForHandshake
  <2>2. IInv'
    BY <2>1 DEF vars, IInv, TypeOK, OnePrompt, ErrorExplains, FilesAreCurrent
  <2>3. AttemptsOK' /\ OutcomeIsTrue' /\ Spent \subseteq Spent'
    BY <1>0, <1>5, SucceedKeeps, FailKeeps DEF EndHandshake, RecoveryInv
  <2>4. ReconnectsOK'
    <3>1. CASE UNCHANGED reconnects
      BY <2>3, <3>1, SpentMonotonic DEF RecoveryInv, ReconnectsOK
    <3>2. CASE reconnects' = reconnects + 1 /\ Fail
      <4>1. Spent # Spent'
        BY <1>0, <2>1, <3>2, FailKeeps DEF RecoveryInv
      <4> QED
        BY <2>3, <3>2, <4>1, SpentMonotonic DEF RecoveryInv, ReconnectsOK
    <3> QED
      BY <1>5, <3>1, <3>2 DEF EndHandshake
  <2> QED
    BY <2>1, <2>2, <2>3, <2>4 DEF RecoveryInv, WaitsForHandshake
<1> QED
  BY <1>2, <1>3, <1>4, <1>5 DEF RecoveryStep

(* Every step of recovery, and of the registry meanwhile, keeps both        *)
(* invariants.                                                              *)
LEMMA RecoveryNextKeeps ==
  ASSUME IInv, RecoveryInv, [RecoveryNext]_<<vars, recoveryVars>>
  PROVE  IInv' /\ RecoveryInv'
<1>1. ASSUME UNCHANGED recoveryVars PROVE RecoveryInv'
  BY <1>1 DEF recoveryVars, RecoveryInv, AttemptsOK, UnderWay, WaitsForHandshake, Step,
              ReconnectsOK, Spent, OutcomeIsTrue
<1>2. ASSUME UNCHANGED vars PROVE IInv'
  BY <1>2 DEF vars, IInv, TypeOK, OnePrompt, ErrorExplains, FilesAreCurrent
<1>3. CASE Next /\ UNCHANGED recoveryVars
  BY <1>1, <1>3, RegistryStep
<1>4. ASSUME NEW s \in Scenarios, BeginRecovery(s) PROVE IInv' /\ RecoveryInv'
  <2>1. UNCHANGED vars
    BY <1>4 DEF BeginRecovery
  <2> QED
    BY <1>2, <1>4, <2>1, BeginKeeps
<1>5. CASE RecoveryStep
  BY <1>5, RecoveryStepKeeps
<1>6. CASE LateReconnect
  <2>1. UNCHANGED <<attempts, recovering, performed, handshake, outcome, vars>> /\ reconnects' = reconnects - 1
        /\ reconnects > 0
    BY <1>6 DEF LateReconnect
  <2>2. AttemptsOK' /\ WaitsForHandshake' /\ OutcomeIsTrue' /\ Spent' = Spent
    BY <2>1 DEF RecoveryInv, AttemptsOK, UnderWay, WaitsForHandshake, Step, OutcomeIsTrue, Spent
  <2>3. ReconnectsOK'
    BY <2>1, <2>2, SpentMonotonic DEF RecoveryInv, ReconnectsOK
  <2> QED
    BY <1>2, <2>1, <2>2, <2>3 DEF RecoveryInv
<1>7. CASE UNCHANGED <<vars, recoveryVars>>
  BY <1>1, <1>2, <1>7
<1> QED
  BY <1>3, <1>4, <1>5, <1>6, <1>7 DEF RecoveryNext

(* The bound on the goroutines follows: those whose attempt is over are     *)
(* some of those with a handshake.                                          *)
LEMMA ReconnectsAreBounded == RecoveryInv => LateReconnectsBounded
<1> SUFFICES ASSUME RecoveryInv PROVE LateReconnectsBounded
  OBVIOUS
<1>1. Cardinality(Spent) <= Cardinality(Handshaking) /\ Cardinality(Spent) \in Nat
      /\ Cardinality(Handshaking) \in Nat
  BY HandshakingFinite, FS_Subset, FS_CardinalityType DEF Spent
<1> QED
  BY <1>1 DEF RecoveryInv, ReconnectsOK, LateReconnectsBounded, Handshaking

-----------------------------------------------------------------------------
(* The three together. *)

WorkersInv == IInv /\ RecoveryInv /\ TasksInv

LEMMA WorkersInductive == WorkersSpec => []WorkersInv
<1>1. WorkersInit => WorkersInv
  BY RegistryStart, RecoveryStart, TasksStart DEF WorkersInit, WorkersInv
<1>2. WorkersInv /\ [WorkersNext]_workersVars => WorkersInv'
  <2> SUFFICES ASSUME WorkersInv, [WorkersNext]_workersVars PROVE WorkersInv'
    OBVIOUS
  <2>1. /\ [RecoveryNext]_<<vars, recoveryVars>>
        /\ [TasksNext]_taskVars
    BY DEF WorkersNext, workersVars, RecoveryNext
  <2> QED
    BY <2>1, RecoveryNextKeeps, TasksStep DEF WorkersInv
<1> QED
  BY <1>1, <1>2, PTL DEF WorkersSpec

(* Whatever fails, comes late or is removed meanwhile, what is recorded of  *)
(* a recovery or a task is what happened: a result names the steps that     *)
(* were performed and those that were not, no more handshakes outlive their *)
(* timeout than recipes have one, and no id comes to name something else.   *)
THEOREM OutcomesAlwaysStand == WorkersSpec => []OutcomesStand
<1>1. WorkersInv => OutcomesStand
  BY TasksInvSuffices, ReconnectsAreBounded
  DEF WorkersInv, OutcomesStand, WorkersTypeOK, IInv, RecoveryInv
<1> QED
  BY <1>1, WorkersInductive, PTL

(* What is said of workers holds while they are recovered as well.          *)
THEOREM WorkersStayConsistent == WorkersSpec => [](OnePrompt /\ ErrorExplains /\ FilesAreCurrent)
<1>1. WorkersInv => OnePrompt /\ ErrorExplains /\ FilesAreCurrent
  BY DEF WorkersInv, IInv
<1> QED
  BY <1>1, WorkersInductive, PTL
=============================================================================
