--------------------------- MODULE WorkerRegistry ---------------------------
(***************************************************************************)
(* WorkerRegistry (internal/runtime/worker): the state machine of a worker *)
(* that runs in a terminal.  The registry sees the worker only through the *)
(* screens its observers read, at some moment before they call Observe,    *)
(* while others send prompts, restart, terminate or report completions.    *)
(* Its mutex makes every operation one step.  Each event also overwrites   *)
(* the state file of the worker's directory, if it has one; workers may    *)
(* share it, and nobody hears of it when the file cannot be written.       *)
(*                                                                         *)
(* A screen is the set of cues it shows.  Counts, times and the texts of   *)
(* events, which no operation but IsDegraded reads, are left out.          *)
(***************************************************************************)
EXTENDS Naturals, Functions

CONSTANTS
  Workers,   \* ids of workers
  Cwds,      \* directories
  NoCwd,     \* the empty one
  Prompts,   \* texts of prompts
  Blank,     \* the prompt without text
  NoPrompt   \* not a prompt

ASSUME WorkerRegistryAssumption == NoPrompt \notin Prompts \cup {Blank} /\ NoCwd \notin Cwds

VARIABLES
  workers,  \* r.workers
  files     \* .claw/worker-state.json of the directories where one was written

vars == <<workers, files>>

Cues == {"trust", "misdelivered", "running", "ready"}
Statuses == {"spawning", "trust_required", "ready_for_prompt", "running", "finished", "failed"}
Failures == {"trust_gate", "prompt_delivery", "provider"}
Texts == Prompts \cup {Blank}

Worker ==
  [cwd : Cwds \cup {NoCwd}, status : Statuses, trustAuto : BOOLEAN, cleared : BOOLEAN, recover : BOOLEAN,
   inFlight : BOOLEAN, last : Texts \cup {NoPrompt}, replay : Texts \cup {NoPrompt},
   error : Failures \cup {"none"}]

Snapshot(w, r) == [worker |-> w, status |-> r.status, cleared |-> r.cleared, inFlight |-> r.inFlight]
Unknown == [worker |-> "?", status |-> "?", cleared |-> FALSE, inFlight |-> FALSE]

Init == workers = <<>> /\ files = <<>>

Put(f, x, y) == [z \in DOMAIN f \cup {x} |-> IF z = x THEN y ELSE f[z]]

(* emitStateFile.  A write that fails leaves what was there before, if     *)
(* anything was, or a part of the snapshot: nobody knows which.            *)
EmitStateFile(d, snapshot) ==
  IF d = NoCwd THEN UNCHANGED files
  ELSE \E text \in {snapshot, Unknown} : files' = Put(files, d, text)

(* The worker becomes r, and its last event writes the state file. *)
Record(w, r) == workers' = Put(workers, w, r) /\ EmitStateFile(r.cwd, Snapshot(w, r))

Create(w) ==
  /\ w \notin DOMAIN workers
  /\ \E cwd \in Cwds \cup {NoCwd}, trusted, recover \in BOOLEAN :
       Record(w, [cwd |-> cwd, status |-> "spawning", trustAuto |-> trusted, cleared |-> FALSE,
                  recover |-> recover, inFlight |-> FALSE, last |-> NoPrompt,
                  replay |-> NoPrompt, error |-> "none"])

-----------------------------------------------------------------------------
(* Observe.  The cues are tried in this order. *)

TrustPrompt(r, screen) == ~r.cleared /\ "trust" \in screen

(* The prompt is on the screen, with another directory or a shell's error. *)
Misdelivered(r, screen) == r.inFlight /\ r.last # Blank /\ "misdelivered" \in screen

RunningCue(r, screen) == r.inFlight /\ "running" \in screen

ObserveTrust(w, screen) ==
  /\ TrustPrompt(workers[w], screen)
  /\ Record(w, [workers[w] EXCEPT !.error = "trust_gate", !.cleared = @ \/ workers[w].trustAuto,
                  !.status = IF workers[w].trustAuto THEN "spawning" ELSE "trust_required"])

(* Mutant: the prompt is still in flight. *)
MutObserveMisdelivery(w, screen) ==
  /\ ~TrustPrompt(workers[w], screen) /\ Misdelivered(workers[w], screen)
  /\ Record(w,
       IF workers[w].recover
         THEN [workers[w] EXCEPT !.replay = workers[w].last, !.status = "ready_for_prompt"]
         ELSE [workers[w] EXCEPT !.inFlight = FALSE, !.status = "failed", !.error = "prompt_delivery"])

ObserveMisdelivery(w, screen) ==
  /\ ~TrustPrompt(workers[w], screen) /\ Misdelivered(workers[w], screen)
  /\ Record(w,
       IF workers[w].recover
         THEN [workers[w] EXCEPT !.inFlight = FALSE, !.replay = workers[w].last, !.status = "ready_for_prompt"]
         ELSE [workers[w] EXCEPT !.inFlight = FALSE, !.status = "failed", !.error = "prompt_delivery"])

ObserveRunning(w, screen) ==
  /\ ~TrustPrompt(workers[w], screen) /\ ~Misdelivered(workers[w], screen)
  /\ RunningCue(workers[w], screen)
  /\ Record(w, [workers[w] EXCEPT !.inFlight = FALSE, !.status = "running"])

(* A worker that is ready already has no event. *)
ObserveReady(w, screen) ==
  /\ ~TrustPrompt(workers[w], screen) /\ ~Misdelivered(workers[w], screen)
  /\ ~RunningCue(workers[w], screen) /\ "ready" \in screen
  /\ workers[w].status # "ready_for_prompt"
  /\ Record(w, [workers[w] EXCEPT !.inFlight = FALSE, !.status = "ready_for_prompt",
                  !.error = IF @ = "trust_gate" THEN "none" ELSE @])

Observe(w, screen) ==
  \/ ObserveTrust(w, screen) \/ ObserveMisdelivery(w, screen)
  \/ ObserveRunning(w, screen) \/ ObserveReady(w, screen)

-----------------------------------------------------------------------------
(* Mutant: the status stays. *)
MutResolveTrust(w) ==
  /\ workers[w].status = "trust_required"
  /\ Record(w, [workers[w] EXCEPT !.cleared = TRUE])

ResolveTrust(w) ==
  /\ workers[w].status = "trust_required"
  /\ Record(w, [workers[w] EXCEPT !.cleared = TRUE, !.status = "spawning"])

(* A prompt goes out: given, or the one armed for replay. *)
Deliver(w, prompt) ==
  Record(w, [workers[w] EXCEPT !.inFlight = TRUE, !.last = prompt, !.replay = NoPrompt,
                               !.status = "running"])

SendPrompt(w, prompt) ==
  /\ workers[w].status = "ready_for_prompt"
  /\ prompt \in Texts
  /\ Deliver(w, prompt)

(* ReplayArmedPrompt, and SendPrompt without a prompt *)
ReplayPrompt(w) ==
  /\ workers[w].status = "ready_for_prompt" /\ workers[w].replay # NoPrompt
  /\ Deliver(w, workers[w].replay)

(* Mutant: the prompt is no longer in flight once the event is out. *)
MutObserveCompletion(w, failed) ==
  /\ workers' = Put(workers, w, [workers[w] EXCEPT !.inFlight = FALSE,
       !.status = IF failed THEN "failed" ELSE "finished",
       !.error = IF failed THEN "provider" ELSE @])
  /\ EmitStateFile(workers[w].cwd, Snapshot(w, [workers[w] EXCEPT
       !.status = IF failed THEN "failed" ELSE "finished"]))

ObserveCompletion(w, failed) ==
  Record(w, [workers[w] EXCEPT !.inFlight = FALSE,
               !.status = IF failed THEN "failed" ELSE "finished",
               !.error = IF failed THEN "provider" ELSE @])

Restart(w) ==
  Record(w, [workers[w] EXCEPT !.status = "spawning", !.inFlight = FALSE, !.error = "none",
               !.last = NoPrompt, !.replay = NoPrompt, !.cleared = FALSE])

Terminate(w) ==
  Record(w, [workers[w] EXCEPT !.status = "finished", !.inFlight = FALSE])

-----------------------------------------------------------------------------
Operation(w) ==
  \/ \E screen \in SUBSET Cues : Observe(w, screen)
  \/ \E prompt \in Texts : SendPrompt(w, prompt)
  \/ ReplayPrompt(w) \/ ResolveTrust(w)
  \/ \E failed \in BOOLEAN : ObserveCompletion(w, failed)
  \/ Restart(w) \/ Terminate(w)

Next ==
  \/ \E w \in Workers : Create(w)
  \/ \E w \in DOMAIN workers : Operation(w)

Spec == Init /\ [][Next]_vars

-----------------------------------------------------------------------------
(* Properties. *)

TypeOK ==
  /\ DOMAIN workers \subseteq Workers /\ \A w \in DOMAIN workers : workers[w] \in Worker
  /\ DOMAIN files \subseteq Cwds

(* What is known of a prompt is consistent: the one armed for replay is    *)
(* the one sent last, which was misdelivered to a worker that recovers and *)
(* has text; a prompt in flight is not armed, and its worker is neither    *)
(* ready nor done.                                                         *)
OnePromptOf(r) ==
  /\ r.replay # NoPrompt => r.replay = r.last /\ r.recover /\ r.replay # Blank
  /\ r.inFlight => /\ r.last # NoPrompt /\ r.replay = NoPrompt
                   /\ r.status \notin {"ready_for_prompt", "finished", "failed"}

OnePrompt == \A w \in DOMAIN workers : OnePromptOf(workers[w])

(* The error tells why a worker is blocked, as recovery takes it to        *)
(* (recovery.go:499, FromWorkerFailure).                                   *)
ErrorExplainsOf(r) ==
  /\ r.status = "trust_required" => r.error = "trust_gate" /\ ~r.cleared
  /\ r.status = "failed" => r.error \in {"prompt_delivery", "provider"}

ErrorExplains == \A w \in DOMAIN workers : ErrorExplainsOf(workers[w])

(* Unless the last write to it failed, the state file of a directory is    *)
(* there and tells the state, as it is now, of a worker of this directory, *)
(* however many share it; one write that works makes up for all that did   *)
(* not (worker.go:366-423).                                                *)
FilesAreCurrent ==
  /\ \A d \in DOMAIN files :
       \/ files[d] = Unknown
       \/ LET w == files[d].worker IN
          w \in DOMAIN workers /\ workers[w].cwd = d /\ files[d] = Snapshot(w, workers[w])
  /\ \A w \in DOMAIN workers : workers[w].cwd \in DOMAIN files \cup {NoCwd}

(* registry.go:161: "Clear trust gate error when becoming ready." *)
ReadyHasNoTrustError ==
  \A w \in DOMAIN workers :
    workers[w].status = "ready_for_prompt" => workers[w].error # "trust_gate"

(* README.md:149: "Spawning -> TrustRequired -> ReadyForPrompt -> Running  *)
(* -> Finished/Failed".                                                    *)
DoneUntilRestart ==
  [][\A w \in DOMAIN workers :
       workers[w].status = "finished" => workers'[w].status \in {"finished", "failed", "spawning"}]_vars
=============================================================================
