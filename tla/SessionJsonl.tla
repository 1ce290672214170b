---------------------------- MODULE SessionJsonl ----------------------------
(***************************************************************************)
(* Sessions saved as JSONL (internal/runtime/session_jsonl.go) and the     *)
(* store that lists and loads them (session_store.go).  A save moves a     *)
(* large file out of the way, writes the snapshot beside the path, renames *)
(* it into place and then removes the oldest of the rotated files.  Each   *)
(* of these steps may fail, and the process may stop between two of them.  *)
(*                                                                         *)
(* A snapshot is known by the time at which it was written.  Two are not   *)
(* written in the same millisecond.                                        *)
(***************************************************************************)
EXTENDS Naturals, FiniteSets, FiniteSetsExt, Functions

CONSTANTS
  SessionIds,              \* session ids
  Faults,           \* what may happen, out of AllFaults
  MaxRotatedFiles,  \* rotated files kept (3 in the code)
  MaxTime           \* bound: snapshots written

AllFaults == {"crash", "write", "rename"}
NoSession == [id |-> "none", large |-> FALSE]

ASSUME SessionJsonlAssumption ==
  /\ Faults \subseteq AllFaults /\ "none" \notin SessionIds
  /\ MaxRotatedFiles \in Nat /\ MaxTime \in Nat

VARIABLES
  logs,    \* paths to snapshots
  live,  \* the session in memory; large: its snapshot exceeds RotateAfterBytes
  save,     \* the save in progress and its next step, or Idle
  now,    \* the time of the last snapshot
  taken,     \* ids of sessions there have been
  kept,     \* when the session last saved without error under an id was written, or 0
  undone    \* ids whose last save has not returned without error

keptVars == <<kept, undone>>
jsonlVars == <<logs, live, save, now, taken, keptVars>>

LiveSessions == [id : SessionIds, large : BOOLEAN]

Path(id) == [id |-> id, kind |-> "jsonl", stamp |-> 0]
Tmp(id) == [id |-> id, kind |-> "tmp", stamp |-> 0]
Legacy(id) == [id |-> id, kind |-> "json", stamp |-> 0]
RotatedPath(id, t) == [id |-> id, kind |-> "rot", stamp |-> t]

NotSaving == [step |-> "idle"]

With(p, snapshot) == [q \in DOMAIN logs \cup {p} |-> IF q = p THEN snapshot ELSE logs[q]]
Moved(p, q) == [r \in (DOMAIN logs \ {p}) \cup {q} |-> IF r = q THEN logs[p] ELSE logs[r]]

(* A session may be there from before, as legacy JSON. *)
JsonlInit ==
  \E id \in SessionIds, old \in BOOLEAN, large \in BOOLEAN :
    /\ live = [id |-> id, large |-> large]
    /\ logs = IF old THEN [p \in {Legacy(id)} |-> [session |-> live, time |-> 0, whole |-> TRUE]]
               ELSE <<>>
    /\ save = NotSaving /\ now = 0 /\ taken = {id} /\ kept = [i \in SessionIds |-> 0] /\ undone = {}

-----------------------------------------------------------------------------
(* The session in memory grows with its turns and shrinks by compaction. *)
Change ==
  /\ save = NotSaving /\ live # NoSession
  /\ live' = [live EXCEPT !.large = ~@]
  /\ UNCHANGED <<logs, save, now, taken, keptVars>>

Create(id) ==
  /\ save = NotSaving /\ id \notin taken
  /\ live' = [id |-> id, large |-> FALSE] /\ taken' = taken \cup {id}
  /\ UNCHANGED <<logs, save, now, keptVars>>

(* Files of the store, IsManagedSessionFile: the rotated ones are among    *)
(* them, the temporary ones not.                                           *)
Managed == {p \in DOMAIN logs : p.kind # "tmp"}

(* LoadSession by a path or, for the newest, by "latest".  ParseJSONL      *)
(* takes the id from the file, also of a rotated one.                      *)
LoadAuto(p) ==
  /\ save = NotSaving /\ p \in Managed /\ logs[p].whole
  /\ live' = logs[p].session
  /\ UNCHANGED <<logs, save, now, taken, keptVars>>

Saving(s) == [step |-> "rotate", session |-> s]

SaveSessionJSONL ==
  /\ save = NotSaving /\ live # NoSession /\ now < MaxTime
  /\ save' = Saving(live) /\ undone' = undone \cup {live.id}
  /\ UNCHANGED <<logs, live, now, taken, kept>>

(* ForkSession saves a copy under a new id. *)
ForkSession(id) ==
  /\ save = NotSaving /\ live # NoSession /\ now < MaxTime /\ id \notin taken
  /\ save' = Saving([live EXCEPT !.id = id]) /\ taken' = taken \cup {id}
  /\ undone' = undone \cup {id}
  /\ UNCHANGED <<logs, live, now, kept>>

(* Mutant: the path is that of the session in memory, also for a fork. *)
MutTarget == live.id

Target == save.session.id
Then(step) == save' = [save EXCEPT !.step = step]

(* Mutant: the file is removed, not renamed. *)
MutRotate ==
  /\ save.step = "rotate"
  /\ logs' = IF Path(Target) \in DOMAIN logs /\ logs[Path(Target)].session.large
              THEN Restrict(logs, DOMAIN logs \ {Path(Target)})
              ELSE logs
  /\ Then("truncate")
  /\ UNCHANGED <<live, now, taken, keptVars>>

(* RotateSessionFileIfNeeded: a file over the threshold is renamed after   *)
(* the time of the rotation.                                               *)
Rotate ==
  /\ save.step = "rotate"
  /\ logs' = IF Path(Target) \in DOMAIN logs /\ logs[Path(Target)].session.large
              THEN Moved(Path(Target), RotatedPath(Target, now))
              ELSE logs
  /\ Then("truncate")
  /\ UNCHANGED <<live, now, taken, keptVars>>

(* Mutant: the snapshot is written in place. *)
MutTruncateTmp ==
  /\ save.step = "truncate"
  /\ logs' = With(Path(Target), [session |-> save.session, time |-> now + 1, whole |-> FALSE])
  /\ Then("write")
  /\ UNCHANGED <<live, now, taken, keptVars>>

(* os.WriteFile on the temporary path: truncated, then written. *)
TruncateTmp ==
  /\ save.step = "truncate"
  /\ logs' = With(Tmp(Target), [session |-> save.session, time |-> now + 1, whole |-> FALSE])
  /\ Then("write")
  /\ UNCHANGED <<live, now, taken, keptVars>>

Write ==
  /\ save.step = "write"
  /\ now' = now + 1
  /\ logs' = With(Tmp(Target), [session |-> save.session, time |-> now', whole |-> TRUE])
  /\ Then("rename")
  /\ UNCHANGED <<live, taken, keptVars>>

(* Mutant: a file that is there is not replaced. *)
MutRenameTmp ==
  /\ save.step = "rename"
  /\ logs' = IF Path(Target) \in DOMAIN logs THEN Restrict(logs, DOMAIN logs \ {Tmp(Target)})
              ELSE Moved(Tmp(Target), Path(Target))
  /\ Then("cleanup")
  /\ UNCHANGED <<live, now, taken, keptVars>>

(* The rename puts the snapshot in place of what the path holds. *)
RenameTmp ==
  /\ save.step = "rename"
  /\ logs' = Moved(Tmp(Target), Path(Target))
  /\ Then("cleanup")
  /\ UNCHANGED <<live, now, taken, keptVars>>

Rotated(id) == {p \in DOMAIN logs : p.kind = "rot" /\ p.id = id}

(* Mutant: the files kept are the oldest. *)
MutOldestRotated(id) ==
  {p \in Rotated(id) : Cardinality({q \in Rotated(id) : q.stamp < p.stamp}) >= MaxRotatedFiles}

(* CleanupRotatedLogs: of the files sorted by name, all but the last       *)
(* MaxRotatedFiles.                                                        *)
OldestRotated(id) ==
  {p \in Rotated(id) : Cardinality({q \in Rotated(id) : q.stamp > p.stamp}) >= MaxRotatedFiles}

(* Mutant: the rotated files are left. *)
MutCleanup ==
  /\ save.step = "cleanup"
  /\ kept' = [kept EXCEPT ![Target] = now] /\ undone' = undone \ {Target}
  /\ save' = NotSaving
  /\ UNCHANGED <<logs, live, now, taken>>

(* The last step of a save: it returns without error. *)
Cleanup ==
  /\ save.step = "cleanup"
  /\ logs' = Restrict(logs, DOMAIN logs \ OldestRotated(Target))
  /\ kept' = [kept EXCEPT ![Target] = now] /\ undone' = undone \ {Target}
  /\ save' = NotSaving
  /\ UNCHANGED <<live, now, taken>>

(* The write fails with part of it done: the save returns the error. *)
TmpFails ==
  /\ "write" \in Faults /\ save.step = "write"
  /\ save' = NotSaving
  /\ UNCHANGED <<logs, live, now, taken, keptVars>>

(* The rename of the temporary file fails, and the file is removed; or     *)
(* that of the rotation, with nothing done.                                *)
RenameFails ==
  /\ "rename" \in Faults /\ save.step \in {"rotate", "rename"}
  /\ logs' = IF save.step = "rename" THEN Restrict(logs, DOMAIN logs \ {Tmp(Target)}) ELSE logs
  /\ save' = NotSaving
  /\ UNCHANGED <<live, now, taken, keptVars>>

(* The process stops; the next one loads a session or starts a new one. *)
Crash ==
  /\ "crash" \in Faults
  /\ save' = NotSaving /\ live' = NoSession
  /\ UNCHANGED <<logs, now, taken, keptVars>>

JsonlNext ==
  \/ Change \/ SaveSessionJSONL
  \/ Rotate \/ TruncateTmp \/ Write \/ RenameTmp \/ Cleanup
  \/ TmpFails \/ RenameFails \/ Crash
  \/ \E id \in SessionIds : Create(id) \/ ForkSession(id)
  \/ \E p \in Managed : LoadAuto(p)

JsonlSpec == JsonlInit /\ [][JsonlNext]_jsonlVars

-----------------------------------------------------------------------------
(* Properties. *)

JsonlTypeOK ==
  /\ \A p \in DOMAIN logs :
       /\ p.id \in taken /\ p.kind \in {"jsonl", "json", "tmp", "rot"} /\ p.stamp \in 0..MaxTime
       /\ logs[p].session \in LiveSessions /\ logs[p].session.id = p.id
       /\ logs[p].time \in 0..MaxTime /\ logs[p].whole \in BOOLEAN
  /\ live \in LiveSessions \cup {NoSession}
  /\ \/ save = NotSaving
     \/ /\ save.step \in {"rotate", "truncate", "write", "rename", "cleanup"}
        /\ save.session \in LiveSessions /\ Target \in taken
  /\ now \in 0..MaxTime /\ taken \subseteq SessionIds /\ kept \in [SessionIds -> 0..MaxTime]
  /\ undone \subseteq taken

(* A reader of the store never meets a half-written snapshot, wherever a   *)
(* save fails or the process stops.  (session_jsonl.go:287: "persists a    *)
(* session to disk in JSONL format using atomic write.")                   *)
NeverTorn == \A p \in Managed : logs[p].whole

(* What was saved without error stays in the store, under its own path or  *)
(* as the newest rotated file of its id, or a later save has replaced it:  *)
(* "latest" finds it after any failed or interrupted save.                 *)
SavedSurvives ==
  \A id \in SessionIds : kept[id] # 0 =>
    \E p \in Managed :
      /\ p.id = id /\ logs[p].time >= kept[id]
      /\ \A q \in Managed : q.id = id => logs[q].time <= logs[p].time

(* LoadSessionAuto, which looks at the path of the id and falls back to    *)
(* the legacy one, finds what was last saved, large or small, if the last  *)
(* save under the id returned without error: whatever failed before it,    *)
(* and whatever became of the saves of other sessions.                     *)
LoadFindsSaved ==
  \A id \in SessionIds :
    kept[id] # 0 /\ id \notin undone =>
      Path(id) \in DOMAIN logs /\ logs[Path(id)].time = kept[id]

(* session_jsonl.go:287: a save is an "atomic write".  Its path holds the  *)
(* snapshot of before, or the new one, if it does not return.              *)
SaveIsAtomic ==
  \A id \in SessionIds :
    kept[id] # 0 /\ save = NotSaving =>
      Path(id) \in DOMAIN logs /\ logs[Path(id)].time >= kept[id]

(* Of the rotated files of a session a save that succeeds leaves at most   *)
(* MaxRotatedFiles.  (session_jsonl.go:248: "keeping at most maxKeep.")    *)
KeepsAtMost == [][kept' # kept => \A id \in SessionIds :
                   kept'[id] # kept[id] => Cardinality({p \in Rotated(id) : p \in DOMAIN logs'}) <= MaxRotatedFiles]_jsonlVars

(* No rotated file is removed while an older one of its session is kept.   *)
(* ("oldest are removed first", session_jsonl.go:249.)                     *)
OldestGoFirst ==
  [][\A p, q \in DOMAIN logs :
       /\ p.kind = "rot" /\ q.kind = "rot" /\ p.id = q.id
       /\ logs[p].time < logs[q].time /\ p \in DOMAIN logs'
       => q \in DOMAIN logs']_jsonlVars
=============================================================================
