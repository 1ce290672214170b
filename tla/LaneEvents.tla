----------------------------- MODULE LaneEvents -----------------------------
(* The log of a lane (internal/runtime/lane/event.go): events come in one   *)
(* by one, cross the wire as JSON, and readers drop superseded commits from *)
(* what they have. Of the data of an event only the provenance of a commit  *)
(* matters: its key (canonical commit or commit) and whether it names a     *)
(* successor.                                                               *)
EXTENDS Integers, Sequences, FiniteSets, SequencesExt

CONSTANTS
  Commits,      \* keys of commits
  MaxLog        \* bound on the length of a log

ASSUME LogAssumption == MaxLog \in Nat

VARIABLES
  laneLog,      \* the events as they were emitted
  reader        \* what a reader keeps that drops superseded commits as it goes

laneVars == <<laneLog, reader>>

Provenance == [key : Commits \cup {"none"}, superseded : BOOLEAN]
(* Typed data as they are emitted; a foreign writer may send anything.      *)
Malformed == <<[key |-> "malformed", superseded |-> FALSE]>>
Payloads == {<<>>, Malformed} \cup {<<p>> : p \in Provenance}
EventNames == {"commit.created", "superseded", "stale_against_main", "finished"}
LaneEvent == [event : EventNames, data : Payloads, typed : {"none", "provenance", "stale", "raw"}]

LogTypeOK ==
  /\ Len(laneLog) <= MaxLog /\ Len(reader) <= Len(laneLog)
  /\ \A i \in DOMAIN laneLog : laneLog[i] \in LaneEvent
  /\ \A i \in DOMAIN reader : reader[i] \in LaneEvent

(* UnmarshalJSON: the data are kept as they came; what they decode to       *)
(* depends on the event.                                                    *)
Decoded(event, data) ==
  [event |-> event, data |-> data,
   typed |-> IF data = <<>> THEN "none"
             ELSE CASE event \in {"commit.created", "superseded"} ->
                         IF data = Malformed THEN "none" ELSE "provenance"
                    [] event = "stale_against_main" -> IF data = Malformed THEN "none" ELSE "stale"
                    [] OTHER -> "raw"]

(* What the constructors make: CommitCreated, Superseded, BranchStale, and  *)
(* the events without data.                                                 *)
Constructed ==
  {Decoded("commit.created", <<p>>) : p \in Provenance} \cup {Decoded("superseded", <<p>>) : p \in Provenance}
    \cup {Decoded("finished", <<>>), Decoded("stale_against_main", <<[key |-> "none", superseded |-> FALSE]>>)}

(* An event DedupeSupersededCommitEvents looks at.                          *)
IsCommit(e) == e.event = "commit.created" /\ e.data \notin {<<>>, Malformed}
HasKey(e) == IsCommit(e) /\ ~e.data[1].superseded /\ e.data[1].key # "none"

(* What stands at some of the positions, in its order.                      *)
AtPositions(log, some) ==
  [n \in 1..Cardinality(some) |-> log[CHOOSE i \in some : Cardinality({j \in some : j <= i}) = n]]

MutDropped(log, i) ==       \* only a direct repetition is taken for one
  \/ IsCommit(log[i]) /\ log[i].data[1].superseded
  \/ i < Len(log) /\ HasKey(log[i]) /\ HasKey(log[i + 1])
       /\ log[i].data[1].key = log[i + 1].data[1].key

(* The loop over latestByKey: a later event of the same key clears keep of  *)
(* the one before.                                                          *)
Dropped(log, i) ==
  \/ IsCommit(log[i]) /\ log[i].data[1].superseded
  \/ HasKey(log[i]) /\ \E j \in (i + 1)..Len(log) :
       HasKey(log[j]) /\ log[j].data[1].key = log[i].data[1].key

MutDedupe(log) ==       \* kept by key, the rest behind
  AtPositions(log, {i \in DOMAIN log : IsCommit(log[i])}) \o AtPositions(log, {i \in DOMAIN log : ~IsCommit(log[i])})

Dedupe(log) == AtPositions(log, {i \in DOMAIN log : ~Dropped(log, i)})

LogInit == laneLog = <<>> /\ reader = <<>>

Emit(e) ==
  /\ Len(laneLog) < MaxLog
  /\ laneLog' = Append(laneLog, e)
  /\ reader' = Dedupe(Append(reader, e))

LogNext == \E e \in Constructed \cup {Decoded("commit.created", Malformed)} : Emit(e)

LogSpec == LogInit /\ [][LogNext]_laneVars

-----------------------------------------------------------------------------
Live(log, k) == {i \in DOMAIN log : HasKey(log[i]) /\ log[i].data[1].key = k}

Others(log) == {i \in DOMAIN log : ~IsCommit(log[i])}

(* Reading the log at the end or as it grows comes to the same: one live    *)
(* event per canonical commit, the latest, and every event that is not a    *)
(* commit in its place (event.go:298).                                      *)
ReadersAgree ==
  /\ reader = Dedupe(laneLog)
  /\ \A k \in Commits : Cardinality(Live(reader, k)) = IF Live(laneLog, k) = {} THEN 0 ELSE 1
  /\ AtPositions(reader, Others(reader)) = AtPositions(laneLog, Others(laneLog))

---------------------------------------------------------------------------
(* Whether a branch is behind main and what to do about it                  *)
(* (internal/runtime/lane/stale_branch.go). A check is several git          *)
(* commands, between which main and the branch move; each command may fail  *)
(* or time out, which counts as nothing found.                              *)
CONSTANTS
  StalePolicies,    \* the policies a lane may be given, known ones and others
  MaxCommits        \* bound on the commits ever made

ASSUME StaleAssumption == MaxCommits \in Nat

VARIABLES
  onMain, onBranch, \* the commits reachable from each
  commits,          \* commits made so far
  stalePolicy,
  check,            \* the check under way: next command and what was counted
  action,           \* what ApplyPolicy said last
  seen              \* history: main and branch when the check began, failures, rebases

staleVars == <<onMain, onBranch, commits, stalePolicy, check, action, seen>>

StaleKinds == {"none", "noop", "warn", "block", "rebase", "merge_forward"}
KindOf == [warn_only |-> "warn", block |-> "block", auto_rebase |-> "rebase", auto_merge_forward |-> "merge_forward"]
(* Of a message it matters whether it lists the missing fixes, and which.   *)
NoAction == [kind |-> "none", lists |-> FALSE, fixes |-> {}]
NoCheck == [at |-> "idle", behind |-> 0, ahead |-> 0, fixes |-> {}]
NotSeen == [main |-> {}, branch |-> {}, failed |-> FALSE, moved |-> FALSE]

StaleTypeOK ==
  /\ onMain \subseteq 1..MaxCommits /\ onBranch \subseteq 1..MaxCommits
  /\ check.at \in {"idle", "ahead", "fixes", "decide"}
  /\ action.kind \in StaleKinds /\ action.fixes \subseteq check.fixes

StaleInit ==
  /\ onMain = {} /\ onBranch = {} /\ commits = 0
  /\ stalePolicy \in StalePolicies
  /\ check = NoCheck /\ action = NoAction /\ seen = NotSeen

CommitOnMain ==
  /\ commits < MaxCommits /\ commits' = commits + 1
  /\ onMain' = onMain \cup {commits'}
  /\ UNCHANGED <<onBranch, stalePolicy, check, action, seen>>
CommitOnBranch ==
  /\ commits < MaxCommits /\ commits' = commits + 1
  /\ onBranch' = onBranch \cup {commits'}
  /\ UNCHANGED <<onMain, stalePolicy, check, action, seen>>

MutRevList(a, b) == b \ a       \* the two refs the wrong way round

(* git rev-list b..a, git log b..a                                          *)
RevList(a, b) == a \ b

CountBehind ==
  /\ check.at = "idle" /\ action = NoAction
  /\ \E found \in {RevList(onMain, onBranch), {}} :
       /\ check' = [NoCheck EXCEPT !.at = "ahead", !.behind = Cardinality(found)]
       /\ seen' = [main |-> onMain, branch |-> onBranch, moved |-> FALSE,
                   failed |-> found # RevList(onMain, onBranch)]
  /\ UNCHANGED <<onMain, onBranch, commits, stalePolicy, action>>

(* Nothing behind ends the check, whatever is ahead.                        *)
CountAhead ==
  /\ check.at = "ahead"
  /\ \E found \in {RevList(onBranch, onMain), {}} :
       /\ check' = [check EXCEPT !.ahead = Cardinality(found),
                                 !.at = IF check.behind = 0 THEN "decide" ELSE "fixes"]
       /\ seen' = [seen EXCEPT !.failed = @ \/ found # RevList(onBranch, onMain)]
  /\ UNCHANGED <<onMain, onBranch, commits, stalePolicy, action>>

MutLogSubjects ==       \* what the branch has and main has not
  /\ check.at = "fixes"
  /\ \E found \in {RevList(onBranch, onMain), {}} :
       /\ check' = [check EXCEPT !.fixes = found, !.at = "decide"]
       /\ seen' = [seen EXCEPT !.failed = @ \/ found # RevList(onBranch, onMain)]
  /\ UNCHANGED <<onMain, onBranch, commits, stalePolicy, action>>

LogSubjects ==
  /\ check.at = "fixes"
  /\ \E found \in {RevList(onMain, onBranch), {}} :
       /\ check' = [check EXCEPT !.fixes = found, !.at = "decide"]
       /\ seen' = [seen EXCEPT !.failed = @ \/ found # RevList(onMain, onBranch)]
  /\ UNCHANGED <<onMain, onBranch, commits, stalePolicy, action>>

Freshness == IF check.behind = 0 THEN "fresh" ELSE IF check.ahead > 0 THEN "diverged" ELSE "stale"

(* A warning lists the fixes, a block only those of a branch that diverged. *)
Lists == stalePolicy = "warn_only" \/ (stalePolicy = "block" /\ Freshness = "diverged")

MutPolicyActs == Freshness = "stale" /\ stalePolicy \in DOMAIN KindOf       \* a diverged branch is left to its lane
(* A policy that is none of the four ends in Noop, as a fresh branch does.  *)
PolicyActs == Freshness # "fresh" /\ stalePolicy \in DOMAIN KindOf

ApplyPolicy ==
  /\ check.at = "decide"
  /\ action' = IF PolicyActs
               THEN [kind |-> KindOf[stalePolicy], lists |-> Lists, fixes |-> IF Lists THEN check.fixes ELSE {}]
               ELSE [NoAction EXCEPT !.kind = "noop"]
  /\ check' = [check EXCEPT !.at = "idle"]
  /\ UNCHANGED <<onMain, onBranch, commits, stalePolicy, seen>>

(* The lane does what it was told, or goes on.                              *)
Carry ==
  /\ action # NoAction /\ action' = NoAction
  /\ onBranch' = IF action.kind \in {"rebase", "merge_forward"} THEN onBranch \cup onMain ELSE onBranch
  /\ check' = NoCheck /\ seen' = NotSeen
  /\ UNCHANGED <<onMain, commits, stalePolicy>>

(* Somebody else brings the branch up to date during a check.               *)
UpdateElsewhere ==
  /\ onBranch' = onBranch \cup onMain
  /\ seen' = [seen EXCEPT !.moved = TRUE]
  /\ UNCHANGED <<onMain, commits, stalePolicy, check, action>>

StaleNext ==
  \/ CommitOnMain \/ CommitOnBranch \/ UpdateElsewhere
  \/ CountBehind \/ CountAhead \/ LogSubjects \/ ApplyPolicy \/ Carry

StaleSpec == StaleInit /\ [][StaleNext]_staleVars

-----------------------------------------------------------------------------
(* A lane under one of the four policies is told to go on only if its       *)
(* branch had all of main when the check began, however the two have moved  *)
(* since. A git command that failed excuses it: it counts as nothing found  *)
(* (stale_branch.go:66-135, 191).                                           *)
FreshWasFresh ==
  action.kind = "noop" /\ stalePolicy \in DOMAIN KindOf /\ ~seen.failed => seen.main \subseteq seen.branch

(* A warning, and a block of a branch that had diverged, list all that the  *)
(* branch missed when the check began, unless a git command failed or it    *)
(* was brought up to date in the meantime; a block of a branch that was     *)
(* only behind lists nothing (stale_branch.go:110-128, 139-187).            *)
FixesAreNamed ==
  /\ action.kind = "warn" => action.lists
  /\ action.kind = "block" => (action.lists <=> (check.ahead > 0))
  /\ action.lists /\ ~seen.failed /\ ~seen.moved => seen.main \ seen.branch \subseteq action.fixes
=============================================================================
