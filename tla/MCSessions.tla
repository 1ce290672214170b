----------------------------- MODULE MCSessions -----------------------------
(* What is kept of a session, which shares a run and no state: the JSON files *)
(* the commands use, the JSONL store, and the summary of what was compacted.  *)
(* The parts that are not at work stay at a single initial state.             *)
EXTENDS SessionFiles, SessionJsonl, Compaction, TLC

VARIABLE part

sessionsVars == <<part, vars, jsonlVars, compactionVars>>
IdSymmetry == Permutations(Ids) \cup Permutations(SessionIds)

SessionsInit ==
  /\ part \in {"files", "jsonl", "compaction"}
  /\ Init /\ JsonlInit /\ CompactionInit
  /\ part # "compaction" => way = "pure"
  /\ part # "jsonl" => logs = <<>> /\ ~live.large

SessionsNext ==
  /\ UNCHANGED part
  /\ \/ part = "files" /\ Next /\ UNCHANGED <<jsonlVars, compactionVars>>
     \/ part = "jsonl" /\ JsonlNext /\ UNCHANGED <<vars, compactionVars>>
     \/ part = "compaction" /\ CompactionNext /\ UNCHANGED <<vars, jsonlVars>>

SessionsSpec == SessionsInit /\ [][SessionsNext]_sessionsVars

(* Every variable of the two stores keeps its type                            *)
(* (internal/runtime/session.go, session_jsonl.go).                           *)
SessionsTypeOK == TypeOK /\ JsonlTypeOK

(* The store has what was saved, whole and where it is looked for           *)
(* (session_jsonl.go:287-346).                                              *)
StoreIsWhole == SessionsTypeOK /\ NeverTorn /\ SavedSurvives /\ LoadFindsSaved

(* Rotated files are as many as they may be, and the newest                 *)
(* (session_jsonl.go:248-285).                                              *)
RotationIsOrdered == KeepsAtMost /\ OldestGoFirst
=============================================================================
