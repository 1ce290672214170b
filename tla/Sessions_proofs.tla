--------------------------- MODULE Sessions_proofs ---------------------------
(***************************************************************************)
(* Proofs about the two stores of sessions in MCSessions, for any ids,     *)
(* commands, faults and bounds: the JSON files the commands use            *)
(* (SessionFiles) and the JSONL store (SessionJsonl).                      *)
(***************************************************************************)
EXTENDS MCSessions, FiniteSetTheorems, TLAPS

(* Of a set, the members with fewer than n above them are at most n: the   *)
(* number of those above tells them apart.                                 *)
LEMMA FewAbove ==
  ASSUME NEW K, IsFiniteSet(K), NEW n \in Nat, \A p \in K : p.stamp \in Nat,
         \A p, q \in K : p.stamp = q.stamp => p = q,
         \A p \in K : Cardinality({q \in K : q.stamp > p.stamp}) < n
  PROVE  Cardinality(K) <= n
<1> DEFINE above(p) == {q \in K : q.stamp > p.stamp}
           f == [p \in K |-> Cardinality(above(p))]
<1>1. \A p \in K : IsFiniteSet(above(p)) /\ Cardinality(above(p)) \in 0..(n - 1)
  <2>1. ASSUME NEW p \in K PROVE IsFiniteSet(above(p)) /\ Cardinality(above(p)) \in Nat
    BY FS_Subset, FS_CardinalityType
  <2>. QED
    BY <2>1
<1>2. ASSUME NEW p \in K, NEW q \in K, p.stamp < q.stamp
      PROVE  Cardinality(above(p)) # Cardinality(above(q))
  <2>1. above(q) \subseteq above(p)
    BY <1>2
  <2>2. q \in above(p) /\ q \notin above(q)
    BY <1>2
  <2>. QED
    BY <1>1, <2>1, <2>2, FS_Subset
<1>3. f \in [K -> 0..(n - 1)]
  BY <1>1
<1>4. ASSUME NEW p \in K, NEW q \in K, f[p] = f[q] PROVE p = q
  <2>1. ~(p.stamp < q.stamp) /\ ~(q.stamp < p.stamp)
    BY <1>2, <1>4
  <2>. QED
    BY <2>1
<1>5. f \in Injection(K, 0..(n - 1))
  BY <1>3, <1>4 DEF Injection, IsInjective
<1>6. IsFiniteSet(0..(n - 1)) /\ Cardinality(0..(n - 1)) = n
  BY FS_Interval
<1>. QED
  BY <1>5, <1>6, FS_Injection

-----------------------------------------------------------------------------
(* The JSONL store. *)
Kinds == {"jsonl", "json", "tmp", "rot"}
Paths == [id : taken, kind : Kinds, stamp : 0..MaxTime]
Snapshots == [session : LiveSessions, time : 0..MaxTime, whole : BOOLEAN]

(* What a path may hold: only the temporary one a torn snapshot, and a     *)
(* rotated one a snapshot not later than the rotation.                     *)
Holds(p) ==
  /\ p \in Paths /\ logs[p] \in Snapshots /\ logs[p].session.id = p.id
  /\ p.kind # "rot" => p.stamp = 0
  /\ p.kind # "tmp" => logs[p].whole /\ logs[p].time <= now
  /\ p.kind = "rot" => logs[p].time <= p.stamp /\ p.stamp <= now
  /\ p.kind = "json" => logs[p].time = 0

PathsHold == IsFiniteSet(DOMAIN logs) /\ \A p \in DOMAIN logs : Holds(p)

(* Rotated files are in the order of their rotation, before the file at    *)
(* the path of the id.                                                     *)
InOrder ==
  \A p, r \in DOMAIN logs :
    /\ r.kind = "rot" /\ p.id = r.id
    /\ p.kind = "jsonl" \/ (p.kind = "rot" /\ r.stamp < p.stamp)
    => r.stamp < logs[p].time

(* What a save has done so far. *)
SaveStands ==
  save = NotSaving \/
    /\ save.session \in LiveSessions /\ Target \in taken /\ Target \in undone
    /\ save = [step |-> save.step, session |-> save.session]
    /\ save.step \in {"rotate", "truncate", "write", "rename", "cleanup"}
    /\ save.step \in {"rotate", "truncate", "write"} => now < MaxTime
    /\ save.step = "rename" =>
         /\ Tmp(Target) \in DOMAIN logs
         /\ logs[Tmp(Target)].whole /\ logs[Tmp(Target)].time = now
         /\ \A r \in DOMAIN logs : r.kind = "rot" => r.stamp < now
    /\ save.step = "cleanup" => Path(Target) \in DOMAIN logs /\ logs[Path(Target)].time = now

(* What was kept is at the path, or while there is nothing, the newest of  *)
(* the rotated files.                                                      *)
Newest(id) ==
  \/ Path(id) \in DOMAIN logs /\ logs[Path(id)].time >= kept[id]
  \/ /\ Path(id) \notin DOMAIN logs
     /\ \E r \in Rotated(id) : /\ logs[r].time >= kept[id]
                               /\ \A q \in Rotated(id) : q.stamp <= r.stamp

KeptStands == \A id \in SessionIds : kept[id] <= now /\ (kept[id] # 0 => Newest(id))

JsonlShape ==
  /\ now \in 0..MaxTime /\ taken \subseteq SessionIds /\ undone \subseteq taken
  /\ kept \in [SessionIds -> 0..MaxTime] /\ live \in LiveSessions \cup {NoSession}
  /\ live # NoSession => live.id \in taken

JsonlInv ==
  /\ JsonlShape /\ PathsHold /\ InOrder /\ SaveStands /\ KeptStands /\ LoadFindsSaved

(* Two paths are the same if they agree on id, kind and time. *)
LEMMA SamePath ==
  ASSUME NEW p \in Paths, NEW q \in Paths, p.id = q.id, p.kind = q.kind, p.stamp = q.stamp
  PROVE  p = q
BY DEF Paths

LEMMA PathFacts ==
  ASSUME NEW i, NEW t
  PROVE  /\ Path(i).id = i /\ Path(i).kind = "jsonl" /\ Path(i).stamp = 0
         /\ Tmp(i).id = i /\ Tmp(i).kind = "tmp" /\ Tmp(i).stamp = 0
         /\ Legacy(i).id = i /\ Legacy(i).kind = "json" /\ Legacy(i).stamp = 0
         /\ RotatedPath(i, t).id = i /\ RotatedPath(i, t).kind = "rot" /\ RotatedPath(i, t).stamp = t
BY DEF Path, Tmp, Legacy, RotatedPath

LEMMA PathTypes ==
  ASSUME NEW i \in taken, NEW t \in 0..MaxTime
  PROVE  Path(i) \in Paths /\ Tmp(i) \in Paths /\ Legacy(i) \in Paths /\ RotatedPath(i, t) \in Paths
<1>1. 0 \in 0..MaxTime
  BY SessionJsonlAssumption
<1>. QED
  BY <1>1 DEF Path, Tmp, Legacy, RotatedPath, Paths, Kinds

LEMMA JsonlInvInit == JsonlInit => JsonlInv
<1>. SUFFICES ASSUME JsonlInit PROVE JsonlInv
  OBVIOUS
<1>1. PICK i \in SessionIds, old \in BOOLEAN, large \in BOOLEAN :
        /\ live = [id |-> i, large |-> large]
        /\ logs = IF old THEN [p \in {Legacy(i)} |-> [session |-> live, time |-> 0, whole |-> TRUE]]
                   ELSE <<>>
        /\ save = NotSaving /\ now = 0 /\ taken = {i} /\ kept = [j \in SessionIds |-> 0] /\ undone = {}
  BY DEF JsonlInit
<1>2. 0 \in 0..MaxTime
  BY SessionJsonlAssumption
<1>3. live \in LiveSessions
  BY <1>1 DEF LiveSessions
<1>4. JsonlShape
  BY <1>1, <1>2, <1>3 DEF JsonlShape
<1>5. \A p \in DOMAIN logs : p = Legacy(i) /\ logs[p] = [session |-> live, time |-> 0, whole |-> TRUE]
  <2>1. CASE old
    BY <1>1, <2>1
  <2>2. CASE ~old
    BY <1>1, <2>2
  <2>. QED
    BY <2>1, <2>2
<1>6. IsFiniteSet(DOMAIN logs)
  <2>1. DOMAIN logs \subseteq {Legacy(i)}
    BY <1>5
  <2>. QED
    BY <2>1, FS_Singleton, FS_Subset
<1>7. ASSUME NEW p \in DOMAIN logs PROVE Holds(p)
  <2>1. p = Legacy(i) /\ logs[p] = [session |-> live, time |-> 0, whole |-> TRUE]
    BY <1>5
  <2>2. p \in Paths /\ p.id = i /\ p.kind = "json" /\ p.stamp = 0
    BY <1>1, <1>2, <2>1, PathTypes, PathFacts
  <2>3. logs[p] \in Snapshots /\ logs[p].session.id = i /\ logs[p].time = 0 /\ logs[p].whole
    BY <1>1, <1>2, <1>3, <2>1 DEF Snapshots
  <2>. QED
    BY <1>1, <2>2, <2>3 DEF Holds
<1>8. InOrder
  BY <1>5, PathFacts DEF InOrder
<1>9. SaveStands /\ KeptStands /\ LoadFindsSaved
  BY <1>1 DEF SaveStands, KeptStands, LoadFindsSaved
<1>. QED
  BY <1>4, <1>6, <1>7, <1>8, <1>9 DEF JsonlInv, PathsHold

-----------------------------------------------------------------------------
(* A step that leaves the files alone. *)
LEMMA FilesKept ==
  ASSUME JsonlInv, UNCHANGED <<logs, now, kept>>, taken \subseteq taken', undone \subseteq undone'
  PROVE  PathsHold' /\ InOrder' /\ KeptStands' /\ LoadFindsSaved'
<1>1. Paths \subseteq Paths'
  BY DEF Paths
<1>2. PathsHold'
  BY <1>1 DEF JsonlInv, PathsHold, Holds
<1>3. InOrder'
  BY DEF JsonlInv, InOrder
<1>4. KeptStands'
  BY DEF JsonlInv, KeptStands, Newest, Rotated
<1>5. LoadFindsSaved'
  BY DEF JsonlInv, LoadFindsSaved
<1>. QED
  BY <1>2, <1>3, <1>4, <1>5

(* A step that changes one file that is neither a rotated one nor at a     *)
(* path where a session is looked for.                                     *)
LEMMA TmpChanges ==
  ASSUME JsonlInv, NEW i \in taken, JsonlShape', now <= now', UNCHANGED <<kept, taken, undone>>,
         IsFiniteSet(DOMAIN logs'),
         \A p \in DOMAIN logs' : p # Tmp(i) => p \in DOMAIN logs /\ logs'[p] = logs[p],
         \A p \in DOMAIN logs : p # Tmp(i) => p \in DOMAIN logs',
         Tmp(i) \in DOMAIN logs' =>
           logs'[Tmp(i)] \in Snapshots /\ logs'[Tmp(i)].session.id = i
  PROVE  PathsHold' /\ InOrder' /\ KeptStands' /\ LoadFindsSaved'
<1>1. Paths' = Paths /\ Snapshots' = Snapshots
  BY DEF Paths, Snapshots
<1>2. now \in Nat /\ now' \in Nat
  BY DEF JsonlInv, JsonlShape
<1>3. \A p \in DOMAIN logs : Holds(p) /\ logs[p].time \in Nat /\ p.stamp \in Nat
  BY DEF JsonlInv, PathsHold, Holds, Snapshots, Paths
<1>4. ASSUME NEW p \in DOMAIN logs' PROVE Holds(p)'
  <2>1. CASE p = Tmp(i)
    BY <1>1, <2>1, PathTypes, PathFacts, SessionJsonlAssumption DEF Holds
  <2>2. CASE p # Tmp(i)
    <3>1. Holds(p) /\ logs'[p] = logs[p] /\ logs[p].time \in Nat /\ p.stamp \in Nat
      BY <1>3, <2>2
    <3>. QED
      BY <1>1, <1>2, <3>1 DEF Holds
  <2>. QED
    BY <2>1, <2>2
<1>5. PathsHold'
  BY <1>4 DEF PathsHold
<1>6. InOrder'
  BY PathFacts DEF JsonlInv, InOrder
<1>7. \A j \in SessionIds : Path(j) # Tmp(i)
  BY PathFacts
<1>8. \A j \in SessionIds : Rotated(j)' = Rotated(j)
  BY PathFacts DEF Rotated
<1>9. ASSUME NEW j \in SessionIds, Newest(j) PROVE Newest(j)'
  <2>1. \A q \in Rotated(j) : logs'[q] = logs[q]
    BY PathFacts DEF Rotated
  <2>. QED
    BY <1>7, <1>8, <1>9, <2>1 DEF Newest
<1>10. \A j \in SessionIds : kept[j] \in Nat
  BY DEF JsonlInv, JsonlShape
<1>11. KeptStands'
  BY <1>2, <1>9, <1>10 DEF JsonlInv, KeptStands
<1>12. LoadFindsSaved'
  BY <1>7 DEF JsonlInv, LoadFindsSaved
<1>. QED
  BY <1>5, <1>6, <1>11, <1>12

(* The operators that change the files. *)
LEMMA WithFacts ==
  ASSUME NEW q, NEW s, logs' = With(q, s)
  PROVE  /\ DOMAIN logs' = DOMAIN logs \cup {q} /\ logs'[q] = s
         /\ \A p \in DOMAIN logs : p # q => logs'[p] = logs[p]
BY DEF With

LEMMA MovedFacts ==
  ASSUME NEW q, NEW r, logs' = Moved(q, r)
  PROVE  /\ DOMAIN logs' = (DOMAIN logs \ {q}) \cup {r} /\ logs'[r] = logs[q]
         /\ \A p \in DOMAIN logs \ {q} : p # r => logs'[p] = logs[p]
BY DEF Moved

LEMMA RestrictFacts ==
  ASSUME NEW S, logs' = Restrict(logs, S)
  PROVE  DOMAIN logs' = S /\ \A p \in S : logs'[p] = logs[p]
BY DEF Restrict

LEMMA TruncateTmpStep == JsonlInv /\ TruncateTmp => JsonlInv'
<1>. SUFFICES ASSUME JsonlInv, TruncateTmp PROVE JsonlInv'
  OBVIOUS
<1>1. PICK s \in LiveSessions, i \in taken :
        /\ save = [step |-> "truncate", session |-> s] /\ i = s.id /\ i \in undone /\ now < MaxTime
  BY DEF JsonlInv, SaveStands, TruncateTmp, NotSaving, Target
<1>2. /\ logs' = With(Tmp(i), [session |-> s, time |-> now + 1, whole |-> FALSE])
      /\ save' = [step |-> "write", session |-> s]
      /\ UNCHANGED <<live, now, taken, kept, undone>>
  BY <1>1 DEF TruncateTmp, Then, Target, keptVars
<1>3. JsonlShape /\ JsonlShape' /\ now \in Nat /\ MaxTime \in Nat
  BY <1>2, SessionJsonlAssumption DEF JsonlInv, JsonlShape
<1>4. PICK n \in Snapshots : n = [session |-> s, time |-> now + 1, whole |-> FALSE]
  <2>1. PICK at \in 0..MaxTime : at = now + 1
    BY <1>1, <1>3
  <2>2. [session |-> s, time |-> at, whole |-> FALSE] \in Snapshots
    BY DEF Snapshots
  <2>. QED
    BY <2>1, <2>2
<1>5. /\ DOMAIN logs' = DOMAIN logs \cup {Tmp(i)} /\ logs'[Tmp(i)] = n
      /\ \A p \in DOMAIN logs : p # Tmp(i) => logs'[p] = logs[p]
  <2>1. logs' = With(Tmp(i), n)
    BY <1>2, <1>4
  <2>. QED
    BY <2>1, WithFacts
<1>6. PathsHold' /\ InOrder' /\ KeptStands' /\ LoadFindsSaved'
  <2>1. IsFiniteSet(DOMAIN logs')
    BY <1>5, FS_AddElement DEF JsonlInv, PathsHold
  <2>2. now <= now' /\ n.session.id = i
    BY <1>1, <1>2, <1>3, <1>4
  <2>. QED
    BY <1>2, <1>3, <1>5, <2>1, <2>2, TmpChanges
<1>7. SaveStands'
  BY <1>1, <1>2 DEF SaveStands, Target
<1>. QED
  BY <1>3, <1>6, <1>7 DEF JsonlInv

LEMMA WriteStep == JsonlInv /\ Write => JsonlInv'
<1>. SUFFICES ASSUME JsonlInv, Write PROVE JsonlInv'
  OBVIOUS
<1>1. PICK s \in LiveSessions, i \in taken :
        /\ save = [step |-> "write", session |-> s] /\ i = s.id /\ i \in undone /\ now < MaxTime
  BY DEF JsonlInv, SaveStands, Write, NotSaving, Target
<1>2. /\ logs' = With(Tmp(i), [session |-> s, time |-> now + 1, whole |-> TRUE])
      /\ save' = [step |-> "rename", session |-> s] /\ now' = now + 1
      /\ UNCHANGED <<live, taken, kept, undone>>
  BY <1>1 DEF Write, Then, Target, keptVars
<1>3. JsonlShape /\ JsonlShape' /\ now \in Nat /\ MaxTime \in Nat
  BY <1>1, <1>2, SessionJsonlAssumption DEF JsonlInv, JsonlShape
<1>4. PICK n \in Snapshots : n = [session |-> s, time |-> now + 1, whole |-> TRUE]
  <2>1. PICK at \in 0..MaxTime : at = now + 1
    BY <1>1, <1>3
  <2>2. [session |-> s, time |-> at, whole |-> TRUE] \in Snapshots
    BY DEF Snapshots
  <2>. QED
    BY <2>1, <2>2
<1>5. /\ DOMAIN logs' = DOMAIN logs \cup {Tmp(i)} /\ logs'[Tmp(i)] = n
      /\ \A p \in DOMAIN logs : p # Tmp(i) => logs'[p] = logs[p]
  <2>1. logs' = With(Tmp(i), n)
    BY <1>2, <1>4
  <2>. QED
    BY <2>1, WithFacts
<1>6. PathsHold' /\ InOrder' /\ KeptStands' /\ LoadFindsSaved'
  <2>1. IsFiniteSet(DOMAIN logs')
    BY <1>5, FS_AddElement DEF JsonlInv, PathsHold
  <2>2. now <= now' /\ n.session.id = i
    BY <1>1, <1>2, <1>3, <1>4
  <2>. QED
    BY <1>2, <1>3, <1>5, <2>1, <2>2, TmpChanges
<1>7. \A r \in DOMAIN logs' : r.kind = "rot" => r.stamp < now'
  <2>1. \A r \in DOMAIN logs : r.kind = "rot" => r.stamp \in Nat /\ r.stamp <= now
    BY DEF JsonlInv, PathsHold, Holds, Paths
  <2>2. \A r \in DOMAIN logs' : r.kind = "rot" => r \in DOMAIN logs
    BY <1>5, PathFacts
  <2>3. PICK next \in Nat : next = now' /\ now < next
    BY <1>2, <1>3
  <2>4. \A r \in DOMAIN logs : r.kind = "rot" => r.stamp < next
    BY <1>3, <2>1, <2>3
  <2>. QED
    BY <2>2, <2>3, <2>4
<1>8. SaveStands'
  <2>1. n.whole /\ n.time = now'
    BY <1>2, <1>4
  <2>2. save'.step = "rename" /\ save'.session = s /\ save' = [step |-> save'.step, session |-> save'.session]
    BY <1>2
  <2>3. Target' = i /\ i \in taken' /\ i \in undone' /\ s \in LiveSessions
    BY <1>1, <1>2, <2>2 DEF Target
  <2>4. Tmp(i) \in DOMAIN logs' /\ logs'[Tmp(i)].whole /\ logs'[Tmp(i)].time = now'
    BY <1>5, <2>1
  <2>. QED
    BY <1>7, <2>2, <2>3, <2>4 DEF SaveStands
<1>. QED
  BY <1>3, <1>6, <1>8 DEF JsonlInv

(* A large file is set aside under the time of its rotation. *)
LEMMA RotateMoves ==
  ASSUME JsonlInv, NEW i \in taken, i \in undone, Path(i) \in DOMAIN logs,
         logs' = Moved(Path(i), RotatedPath(i, now)), UNCHANGED <<live, now, taken, kept, undone>>
  PROVE  PathsHold' /\ InOrder' /\ KeptStands' /\ LoadFindsSaved'
<1> DEFINE P == Path(i)
           R == RotatedPath(i, now)
<1>1. now \in 0..MaxTime /\ MaxTime \in Nat /\ i \in SessionIds
  BY SessionJsonlAssumption DEF JsonlInv, JsonlShape
<1>2. /\ DOMAIN logs' = (DOMAIN logs \ {P}) \cup {R} /\ logs'[R] = logs[P]
      /\ \A p \in DOMAIN logs \ {P} : p # R => logs'[p] = logs[p]
  BY MovedFacts
<1>3. /\ P \in Paths /\ P.id = i /\ P.kind = "jsonl" /\ P.stamp = 0
      /\ R \in Paths /\ R.id = i /\ R.kind = "rot" /\ R.stamp = now
  BY <1>1, PathFacts, PathTypes
<1>4. \A p \in DOMAIN logs : Holds(p) /\ p \in Paths /\ p.stamp \in Nat /\ logs[p].time \in Nat
  BY DEF JsonlInv, PathsHold, Holds, Paths, Snapshots
<1>5. logs[P].time <= now /\ logs[P].whole /\ logs[P] \in Snapshots /\ logs[P].session.id = i
  BY <1>3, <1>4 DEF Holds
<1>6. ASSUME NEW r \in DOMAIN logs, r.kind = "rot", r.id = i PROVE r.stamp < logs[P].time /\ r # R
  <2>1. r.stamp < logs[P].time
    BY <1>3, <1>6 DEF JsonlInv, InOrder
  <2>. QED
    BY <1>1, <1>3, <1>4, <1>5, <2>1
<1>7. R \notin DOMAIN logs
  BY <1>3, <1>6
<1> HIDE DEF P, R
<1>8. ASSUME NEW p \in DOMAIN logs' PROVE Holds(p)'
  <2>1. CASE p = R
    BY <1>1, <1>2, <1>3, <1>5, <2>1 DEF Holds, Paths, Snapshots
  <2>2. CASE p # R
    <3>1. p \in DOMAIN logs /\ logs'[p] = logs[p]
      BY <1>2, <2>2
    <3>. QED
      BY <1>4, <3>1 DEF Holds, Paths, Snapshots
  <2>. QED
    BY <2>1, <2>2
<1>9. PathsHold'
  <2>1. IsFiniteSet(DOMAIN logs \ {P})
    BY FS_RemoveElement DEF JsonlInv, PathsHold
  <2>2. IsFiniteSet(DOMAIN logs')
    BY <1>2, <2>1, FS_AddElement
  <2>. QED
    BY <1>8, <2>2 DEF PathsHold
<1>10. InOrder'
  <2>1. ASSUME NEW p \in DOMAIN logs', NEW r \in DOMAIN logs',
               r.kind = "rot", p.id = r.id, p.kind = "jsonl" \/ (p.kind = "rot" /\ r.stamp < p.stamp)
        PROVE  r.stamp < logs'[p].time
    <3>1. CASE r = R
      <4>1. p \in DOMAIN logs \ {P} /\ p.id = i
        <5>1. p # R
          BY <1>1, <1>3, <2>1, <3>1
        <5>. QED
          BY <1>2, <1>3, <2>1, <3>1, <5>1
      <4>2. p.kind # "jsonl"
        <5>1. ASSUME p.kind = "jsonl" PROVE p = P
          BY <1>3, <1>4, <4>1, <5>1, SamePath DEF Holds
        <5>. QED
          BY <4>1, <5>1
      <4>3. p.stamp <= now /\ p.stamp \in Nat
        BY <1>4, <2>1, <4>1, <4>2 DEF Holds
      <4>. QED
        BY <1>1, <1>3, <2>1, <3>1, <4>2, <4>3
    <3>2. CASE r # R /\ p = R
      <4>1. r \in DOMAIN logs
        BY <1>2, <3>2
      <4>. QED
        BY <1>2, <1>3, <1>6, <2>1, <3>2, <4>1
    <3>3. CASE r # R /\ p # R
      <4>1. r \in DOMAIN logs /\ p \in DOMAIN logs /\ logs'[p] = logs[p]
        BY <1>2, <3>3
      <4>. QED
        BY <2>1, <4>1 DEF JsonlInv, InOrder
    <3>. QED
      BY <3>1, <3>2, <3>3
  <2>. QED
    BY <2>1 DEF InOrder
<1>11. ASSUME NEW j \in SessionIds, Newest(j) PROVE Newest(j)'
  <2>1. CASE j = i
    <3>1. logs[P].time >= kept[i]
      BY <1>2, <1>11, <2>1 DEF Newest, P
    <3>2. Path(j) \notin DOMAIN logs'
      BY <1>2, <1>3, <2>1 DEF P
    <3>3. R \in Rotated(j)' /\ logs'[R].time >= kept[i]
      BY <1>2, <1>3, <2>1, <3>1 DEF Rotated
    <3>4. ASSUME NEW q \in Rotated(j)' PROVE q.stamp <= R.stamp
      <4>1. CASE q = R
        BY <1>1, <1>3, <4>1
      <4>2. CASE q # R
        BY <1>2, <1>3, <1>4, <3>4, <4>2 DEF Rotated, Holds
      <4>. QED
        BY <4>1, <4>2
    <3>. QED
      BY <2>1, <3>2, <3>3, <3>4 DEF Newest
  <2>2. CASE j # i
    <3>1. Rotated(j)' = Rotated(j)
      BY <1>2, <1>3, <2>2 DEF Rotated
    <3>2. \A q \in Rotated(j) : logs'[q] = logs[q]
      BY <1>2, <1>3, <2>2 DEF Rotated
    <3>3. Path(j) # P /\ Path(j) # R
      BY <1>3, <2>2, PathFacts
    <3>. QED
      BY <1>2, <1>11, <3>1, <3>2, <3>3 DEF Newest
  <2>. QED
    BY <2>1, <2>2
<1>12. KeptStands'
  BY <1>11 DEF JsonlInv, KeptStands
<1>13. LoadFindsSaved'
  <2>1. ASSUME NEW j \in SessionIds, j # i, Path(j) \in DOMAIN logs
        PROVE  Path(j) \in DOMAIN logs' /\ logs'[Path(j)] = logs[Path(j)]
    BY <1>2, <1>3, <2>1, PathFacts
  <2>. QED
    BY <2>1 DEF JsonlInv, LoadFindsSaved
<1>. QED
  BY <1>9, <1>10, <1>12, <1>13

LEMMA RotateStep == JsonlInv /\ Rotate => JsonlInv'
<1>. SUFFICES ASSUME JsonlInv, Rotate PROVE JsonlInv'
  OBVIOUS
<1>1. PICK s \in LiveSessions, i \in taken :
        /\ save = [step |-> "rotate", session |-> s] /\ i = s.id /\ i \in undone /\ now < MaxTime
  BY DEF JsonlInv, SaveStands, Rotate, NotSaving, Target
<1>2. /\ save' = [step |-> "truncate", session |-> s]
      /\ UNCHANGED <<live, now, taken, kept, undone>>
      /\ \/ logs' = logs
         \/ Path(i) \in DOMAIN logs /\ logs' = Moved(Path(i), RotatedPath(i, now))
  BY <1>1 DEF Rotate, Then, Target, keptVars
<1>3. JsonlShape'
  BY <1>2 DEF JsonlInv, JsonlShape
<1>4. PathsHold' /\ InOrder' /\ KeptStands' /\ LoadFindsSaved'
  BY <1>1, <1>2, FilesKept, RotateMoves
<1>5. SaveStands'
  BY <1>1, <1>2 DEF SaveStands, Target
<1>. QED
  BY <1>3, <1>4, <1>5 DEF JsonlInv

(* The snapshot takes its place. *)
LEMMA RenameTmpStep == JsonlInv /\ RenameTmp => JsonlInv'
<1>. SUFFICES ASSUME JsonlInv, RenameTmp PROVE JsonlInv'
  OBVIOUS
<1>1. PICK s \in LiveSessions, i \in taken :
        /\ save = [step |-> "rename", session |-> s] /\ i = s.id /\ i \in undone
        /\ Tmp(i) \in DOMAIN logs /\ logs[Tmp(i)].whole /\ logs[Tmp(i)].time = now
        /\ \A r \in DOMAIN logs : r.kind = "rot" => r.stamp < now
  BY DEF JsonlInv, SaveStands, RenameTmp, NotSaving, Target
<1>2. /\ logs' = Moved(Tmp(i), Path(i)) /\ save' = [step |-> "cleanup", session |-> s]
      /\ UNCHANGED <<live, now, taken, kept, undone>>
  BY <1>1 DEF RenameTmp, Then, Target, keptVars
<1> DEFINE P == Path(i)
           T == Tmp(i)
<1>3. now \in 0..MaxTime /\ MaxTime \in Nat /\ i \in SessionIds /\ JsonlShape'
  BY <1>2, SessionJsonlAssumption DEF JsonlInv, JsonlShape
<1>4. /\ DOMAIN logs' = (DOMAIN logs \ {T}) \cup {P} /\ logs'[P] = logs[T]
      /\ \A p \in DOMAIN logs \ {T} : p # P => logs'[p] = logs[p]
  BY <1>2, MovedFacts
<1>5. /\ P \in Paths /\ P.id = i /\ P.kind = "jsonl" /\ P.stamp = 0
      /\ T \in Paths /\ T.id = i /\ T.kind = "tmp" /\ T.stamp = 0
  BY <1>3, PathFacts, PathTypes
<1>6. \A p \in DOMAIN logs : Holds(p) /\ p \in Paths /\ p.stamp \in Nat /\ logs[p].time \in Nat
  BY DEF JsonlInv, PathsHold, Holds, Paths, Snapshots
<1>7. logs[T].time = now /\ logs[T].whole /\ logs[T] \in Snapshots /\ logs[T].session.id = i
  BY <1>1, <1>5, <1>6 DEF Holds
<1>8. Path(i) = P /\ Tmp(i) = T
  OBVIOUS
<1> HIDE DEF P, T
<1>9. ASSUME NEW p \in DOMAIN logs' PROVE Holds(p)'
  <2>1. CASE p = P
    BY <1>2, <1>3, <1>4, <1>5, <1>7, <2>1 DEF Holds, Paths, Snapshots
  <2>2. CASE p # P
    <3>1. p \in DOMAIN logs /\ logs'[p] = logs[p]
      BY <1>4, <2>2
    <3>. QED
      BY <1>2, <1>6, <3>1 DEF Holds, Paths, Snapshots
  <2>. QED
    BY <2>1, <2>2
<1>10. PathsHold'
  <2>1. IsFiniteSet(DOMAIN logs \ {T})
    BY FS_RemoveElement DEF JsonlInv, PathsHold
  <2>2. IsFiniteSet(DOMAIN logs')
    BY <1>4, <2>1, FS_AddElement
  <2>. QED
    BY <1>9, <2>2 DEF PathsHold
<1>11. InOrder'
  <2>1. ASSUME NEW p \in DOMAIN logs', NEW r \in DOMAIN logs',
               r.kind = "rot", p.id = r.id, p.kind = "jsonl" \/ (p.kind = "rot" /\ r.stamp < p.stamp)
        PROVE  r.stamp < logs'[p].time
    <3>1. r \in DOMAIN logs /\ r.stamp < now
      BY <1>1, <1>4, <1>5, <2>1
    <3>2. CASE p = P
      BY <1>4, <1>7, <3>1, <3>2
    <3>3. CASE p # P
      BY <1>4, <2>1, <3>1, <3>3 DEF JsonlInv, InOrder
    <3>. QED
      BY <3>2, <3>3
  <2>. QED
    BY <2>1 DEF InOrder
<1>12. ASSUME NEW j \in SessionIds, Newest(j), kept[j] <= now PROVE Newest(j)'
  <2>1. CASE j = i
    BY <1>2, <1>3, <1>4, <1>7, <1>8, <1>12, <2>1 DEF Newest
  <2>2. CASE j # i
    <3>1. Rotated(j)' = Rotated(j)
      BY <1>4, <1>5 DEF Rotated
    <3>2. \A q \in Rotated(j) : logs'[q] = logs[q]
      BY <1>4, <1>5 DEF Rotated
    <3>3. Path(j) # P /\ Path(j) # T
      BY <1>5, <2>2, PathFacts
    <3>. QED
      BY <1>2, <1>4, <1>12, <3>1, <3>2, <3>3 DEF Newest
  <2>. QED
    BY <2>1, <2>2
<1>13. KeptStands'
  BY <1>2, <1>12 DEF JsonlInv, KeptStands
<1>14. LoadFindsSaved'
  <2>1. ASSUME NEW j \in SessionIds, j # i, Path(j) \in DOMAIN logs
        PROVE  Path(j) \in DOMAIN logs' /\ logs'[Path(j)] = logs[Path(j)]
    BY <1>4, <1>5, <2>1, PathFacts
  <2>. QED
    BY <1>1, <1>2, <2>1 DEF JsonlInv, LoadFindsSaved
<1>15. SaveStands'
  BY <1>1, <1>2, <1>4, <1>7, <1>8 DEF SaveStands, Target
<1>. QED
  BY <1>3, <1>10, <1>11, <1>13, <1>14, <1>15 DEF JsonlInv

(* A save that ends removes rotated files of its session only, and what it *)
(* kept is at the path.                                                    *)
LEMMA CleanupStep == JsonlInv /\ Cleanup => JsonlInv'
<1>. SUFFICES ASSUME JsonlInv, Cleanup PROVE JsonlInv'
  OBVIOUS
<1>1. PICK s \in LiveSessions, i \in taken :
        /\ save = [step |-> "cleanup", session |-> s] /\ i = s.id
        /\ Path(i) \in DOMAIN logs /\ logs[Path(i)].time = now
  BY DEF JsonlInv, SaveStands, Cleanup, NotSaving, Target
<1>2. /\ logs' = Restrict(logs, DOMAIN logs \ OldestRotated(i))
      /\ kept' = [kept EXCEPT ![i] = now] /\ undone' = undone \ {i} /\ save' = NotSaving
      /\ UNCHANGED <<live, now, taken>>
  BY <1>1 DEF Cleanup, Target
<1>3. now \in 0..MaxTime /\ MaxTime \in Nat /\ i \in SessionIds /\ JsonlShape'
  BY <1>2, SessionJsonlAssumption DEF JsonlInv, JsonlShape
<1>4. DOMAIN logs' = DOMAIN logs \ OldestRotated(i) /\ \A p \in DOMAIN logs' : logs'[p] = logs[p]
  BY <1>2, RestrictFacts
<1>5. \A p \in OldestRotated(i) : p.kind = "rot" /\ p.id = i
  BY DEF OldestRotated, Rotated
<1>6. PathsHold'
  <2>1. IsFiniteSet(DOMAIN logs')
    BY <1>4, FS_Subset DEF JsonlInv, PathsHold
  <2>2. \A p \in DOMAIN logs' : Holds(p)'
    BY <1>2, <1>4 DEF JsonlInv, PathsHold, Holds, Paths, Snapshots
  <2>. QED
    BY <2>1, <2>2 DEF PathsHold
<1>7. InOrder'
  BY <1>4 DEF JsonlInv, InOrder
<1>8. \A j \in SessionIds : Path(j) \in DOMAIN logs <=> Path(j) \in DOMAIN logs'
  BY <1>4, <1>5, PathFacts
<1>9. kept'[i] = now /\ \A j \in SessionIds \ {i} : kept'[j] = kept[j]
  BY <1>2, <1>3 DEF JsonlInv, JsonlShape
<1>10. ASSUME NEW j \in SessionIds, kept'[j] # 0 PROVE kept'[j] <= now /\ Newest(j)'
  <2>1. CASE j = i
    <3>1. Path(j) \in DOMAIN logs' /\ logs'[Path(j)].time = now
      BY <1>1, <1>4, <1>8, <2>1
    <3>2. kept'[j] = now /\ now <= now /\ now >= now
      BY <1>3, <1>9, <2>1
    <3>. QED
      BY <3>1, <3>2 DEF Newest
  <2>2. CASE j # i
    <3>1. Rotated(j)' = Rotated(j) /\ \A q \in Rotated(j) : logs'[q] = logs[q]
      BY <1>4, <1>5, <2>2 DEF Rotated
    <3>2. kept[j] <= now /\ Newest(j)
      BY <1>9, <1>10, <2>2 DEF JsonlInv, KeptStands
    <3>. QED
      BY <1>4, <1>8, <1>9, <2>2, <3>1, <3>2 DEF Newest
  <2>. QED
    BY <2>1, <2>2
<1>11. KeptStands'
  BY <1>2, <1>3, <1>10 DEF KeptStands
<1>12. LoadFindsSaved'
  <2>1. ASSUME NEW j \in SessionIds, kept'[j] # 0, j \notin undone'
        PROVE  Path(j) \in DOMAIN logs' /\ logs'[Path(j)].time = kept'[j]
    <3>1. CASE j = i
      BY <1>1, <1>4, <1>8, <1>9, <2>1, <3>1
    <3>2. CASE j # i
      BY <1>2, <1>4, <1>8, <1>9, <2>1, <3>2 DEF JsonlInv, LoadFindsSaved
    <3>. QED
      BY <3>1, <3>2
  <2>. QED
    BY <2>1 DEF LoadFindsSaved
<1>13. SaveStands'
  BY <1>2 DEF SaveStands
<1>. QED
  BY <1>3, <1>6, <1>7, <1>11, <1>12, <1>13 DEF JsonlInv

LEMMA RenameFailsStep == JsonlInv /\ RenameFails => JsonlInv'
<1>. SUFFICES ASSUME JsonlInv, RenameFails PROVE JsonlInv'
  OBVIOUS
<1>1. save' = NotSaving /\ UNCHANGED <<live, now, taken, kept, undone>>
  BY DEF RenameFails, keptVars
<1>2. JsonlShape' /\ SaveStands' /\ now \in Nat
  BY <1>1 DEF JsonlInv, JsonlShape, SaveStands
<1>3. CASE save.step = "rename"
  <2>1. PICK i \in taken : i = Target
    BY <1>3 DEF JsonlInv, SaveStands, NotSaving
  <2>2. logs' = Restrict(logs, DOMAIN logs \ {Tmp(i)})
    BY <1>3, <2>1 DEF RenameFails
  <2>3. DOMAIN logs' = DOMAIN logs \ {Tmp(i)} /\ \A p \in DOMAIN logs' : logs'[p] = logs[p]
    BY <2>2, RestrictFacts
  <2>4. IsFiniteSet(DOMAIN logs')
    BY <2>3, FS_RemoveElement DEF JsonlInv, PathsHold
  <2>. QED
    BY <1>1, <1>2, <2>1, <2>3, <2>4, TmpChanges DEF JsonlInv
<1>4. CASE save.step # "rename"
  <2>1. logs' = logs
    BY <1>4 DEF RenameFails
  <2>. QED
    BY <1>1, <1>2, <2>1, FilesKept DEF JsonlInv
<1>. QED
  BY <1>3, <1>4

LEMMA JsonlInvStep == JsonlInv /\ [JsonlNext]_jsonlVars => JsonlInv'
<1>. SUFFICES ASSUME JsonlInv, [JsonlNext]_jsonlVars PROVE JsonlInv'
  OBVIOUS
<1>1. CASE UNCHANGED jsonlVars
  <2>1. UNCHANGED <<logs, live, save, now, taken, kept, undone>>
    BY <1>1 DEF jsonlVars, keptVars
  <2>2. JsonlShape' /\ SaveStands'
    BY <2>1 DEF JsonlInv, JsonlShape, SaveStands, Target
  <2>. QED
    BY <2>1, <2>2, FilesKept DEF JsonlInv
<1>2. CASE Change \/ Crash \/ TmpFails \/ \E p \in Managed : LoadAuto(p)
  <2>1. UNCHANGED <<logs, now, taken, kept, undone>>
    BY <1>2 DEF Change, Crash, TmpFails, LoadAuto, keptVars
  <2>2. save' = NotSaving
    BY <1>2 DEF Change, Crash, TmpFails, LoadAuto
  <2>3. live' \in LiveSessions \cup {NoSession} /\ (live' # NoSession => live'.id \in taken)
    <3>1. CASE Change
      BY <3>1 DEF Change, JsonlInv, JsonlShape, LiveSessions
    <3>2. CASE Crash \/ TmpFails
      BY <3>2 DEF Crash, TmpFails, JsonlInv, JsonlShape
    <3>3. ASSUME NEW p \in Managed, LoadAuto(p) PROVE live' \in LiveSessions /\ live'.id \in taken
      BY <3>3 DEF LoadAuto, Managed, JsonlInv, PathsHold, Holds, Snapshots, Paths
    <3>. QED
      BY <1>2, <3>1, <3>2, <3>3
  <2>4. JsonlShape' /\ SaveStands'
    BY <2>1, <2>2, <2>3 DEF JsonlInv, JsonlShape, SaveStands
  <2>. QED
    BY <2>1, <2>4, FilesKept DEF JsonlInv
<1>3. ASSUME NEW i \in SessionIds, Create(i) PROVE JsonlInv'
  <2>1. /\ UNCHANGED <<logs, save, now, kept, undone>> /\ save' = NotSaving
        /\ taken' = taken \cup {i} /\ live' = [id |-> i, large |-> FALSE]
    BY <1>3 DEF Create, keptVars
  <2>2. JsonlShape' /\ SaveStands'
    BY <2>1 DEF JsonlInv, JsonlShape, SaveStands, LiveSessions
  <2>. QED
    BY <2>1, <2>2, FilesKept DEF JsonlInv
<1>4. CASE SaveSessionJSONL
  <2>1. /\ live \in LiveSessions /\ save' = [step |-> "rotate", session |-> live] /\ now < MaxTime
        /\ undone' = undone \cup {live.id} /\ UNCHANGED <<logs, live, now, taken, kept>>
    BY <1>4 DEF SaveSessionJSONL, Saving, JsonlInv, JsonlShape
  <2>2. live.id \in taken
    BY <1>4 DEF SaveSessionJSONL, JsonlInv, JsonlShape
  <2>3. JsonlShape' /\ SaveStands'
    BY <2>1, <2>2 DEF JsonlInv, JsonlShape, SaveStands, Target
  <2>. QED
    BY <2>1, <2>3, FilesKept DEF JsonlInv
<1>5. ASSUME NEW i \in SessionIds, ForkSession(i) PROVE JsonlInv'
  <2>1. PICK s \in LiveSessions : s = [live EXCEPT !.id = i] /\ s.id = i
    BY <1>5 DEF ForkSession, JsonlInv, JsonlShape, LiveSessions
  <2>2. /\ save' = [step |-> "rotate", session |-> s] /\ now < MaxTime /\ taken' = taken \cup {i}
        /\ undone' = undone \cup {i} /\ UNCHANGED <<logs, live, now, kept>>
    BY <1>5, <2>1 DEF ForkSession, Saving
  <2>3. JsonlShape'
    BY <2>2 DEF JsonlInv, JsonlShape
  <2>4. SaveStands'
    <3>1. save'.step = "rotate" /\ save'.session = s /\ save' = [step |-> save'.step, session |-> save'.session]
      BY <2>2
    <3>2. Target' = i /\ i \in taken' /\ i \in undone' /\ now' < MaxTime
      BY <2>1, <2>2, <3>1 DEF Target
    <3>. QED
      BY <3>1, <3>2 DEF SaveStands
  <2>. QED
    BY <2>2, <2>3, <2>4, FilesKept DEF JsonlInv
<1>. QED
  BY <1>1, <1>2, <1>3, <1>4, <1>5, RotateStep, TruncateTmpStep, WriteStep, RenameTmpStep,
     CleanupStep, RenameFailsStep DEF JsonlNext

-----------------------------------------------------------------------------
(* What the invariant says of what is kept. *)
LEMMA JsonlTypes == JsonlInv => JsonlTypeOK /\ NeverTorn
<1>. SUFFICES ASSUME JsonlInv PROVE JsonlTypeOK /\ NeverTorn
  OBVIOUS
<1>1. ASSUME NEW p \in DOMAIN logs
      PROVE  /\ p.id \in taken /\ p.kind \in {"jsonl", "json", "tmp", "rot"} /\ p.stamp \in 0..MaxTime
             /\ logs[p].session \in LiveSessions /\ logs[p].session.id = p.id
             /\ logs[p].time \in 0..MaxTime /\ logs[p].whole \in BOOLEAN
  BY DEF JsonlInv, PathsHold, Holds, Paths, Snapshots, Kinds
<1>2. \/ save = NotSaving
      \/ /\ save.step \in {"rotate", "truncate", "write", "rename", "cleanup"}
         /\ save.session \in LiveSessions /\ Target \in taken
  BY DEF JsonlInv, SaveStands
<1>3. JsonlTypeOK
  BY <1>1, <1>2 DEF JsonlTypeOK, JsonlInv, JsonlShape
<1>4. NeverTorn
  BY DEF JsonlInv, PathsHold, Holds, NeverTorn, Managed
<1>. QED
  BY <1>3, <1>4

LEMMA Survives == JsonlInv => SavedSurvives
<1>. SUFFICES ASSUME JsonlInv, NEW id \in SessionIds, kept[id] # 0
              PROVE  \E p \in Managed :
                       /\ p.id = id /\ logs[p].time >= kept[id]
                       /\ \A q \in Managed : q.id = id => logs[q].time <= logs[p].time
  BY DEF SavedSurvives
<1>1. \A p \in DOMAIN logs : Holds(p) /\ p \in Paths /\ p.stamp \in Nat /\ logs[p].time \in Nat
  BY DEF JsonlInv, PathsHold, Holds, Paths, Snapshots
<1>2. kept[id] \in Nat /\ Newest(id)
  BY DEF JsonlInv, JsonlShape, KeptStands
<1>3. \A q \in Managed : q \in DOMAIN logs /\ q.kind \in {"jsonl", "json", "rot"}
  BY <1>1 DEF Managed, Paths, Kinds
<1>4. ASSUME NEW q \in Managed, q.kind = "json" PROVE logs[q].time = 0
  BY <1>1, <1>3, <1>4 DEF Holds
<1>5. ASSUME NEW q \in Managed, q.kind = "rot" PROVE logs[q].time <= q.stamp
  BY <1>1, <1>3, <1>5 DEF Holds
<1>6. ASSUME NEW q \in Managed, q.kind = "jsonl", q.id = id PROVE q = Path(id)
  <2>1. q \in Paths /\ q.stamp = 0
    BY <1>1, <1>3, <1>6 DEF Holds
  <2>2. Path(id) \in Paths
    BY <1>6, <2>1 DEF Paths, Path, Kinds
  <2>. QED
    BY <1>6, <2>1, <2>2, PathFacts, SamePath
<1>7. CASE Path(id) \in DOMAIN logs /\ logs[Path(id)].time >= kept[id]
  <2>1. PICK p \in DOMAIN logs : p = Path(id) /\ p.kind = "jsonl" /\ p.id = id /\ logs[p].time >= kept[id]
    BY <1>7, PathFacts
  <2>2. p \in Managed
    BY <2>1 DEF Managed
  <2>3. ASSUME NEW q \in Managed, q.id = id PROVE logs[q].time <= logs[p].time
    <3>1. CASE q.kind = "jsonl"
      BY <1>1, <1>6, <2>1, <2>3, <3>1
    <3>2. CASE q.kind = "json"
      BY <1>1, <1>4, <2>1, <3>2
    <3>3. CASE q.kind = "rot"
      <4>1. q.stamp < logs[p].time
        BY <1>3, <2>1, <2>3, <3>3 DEF JsonlInv, InOrder
      <4>. QED
        BY <1>1, <1>3, <1>5, <2>1, <3>3, <4>1
    <3>. QED
      BY <1>3, <3>1, <3>2, <3>3
  <2>. QED
    BY <2>1, <2>2, <2>3
<1>8. CASE /\ Path(id) \notin DOMAIN logs
           /\ \E r \in Rotated(id) : /\ logs[r].time >= kept[id]
                                     /\ \A q \in Rotated(id) : q.stamp <= r.stamp
  <2>1. PICK p \in Rotated(id) : /\ logs[p].time >= kept[id]
                                 /\ \A q \in Rotated(id) : q.stamp <= p.stamp
    BY <1>8
  <2>2. p \in Managed /\ p \in DOMAIN logs /\ p.id = id /\ p.kind = "rot"
    BY DEF Rotated, Managed
  <2>3. ASSUME NEW q \in Managed, q.id = id PROVE logs[q].time <= logs[p].time
    <3>1. q.kind # "jsonl"
      BY <1>3, <1>6, <1>8, <2>3
    <3>2. CASE q.kind = "json"
      BY <1>1, <1>4, <2>2, <3>2
    <3>3. CASE q.kind = "rot"
      <4>1. q \in DOMAIN logs /\ q.stamp <= p.stamp
        BY <1>3, <2>1, <2>3, <3>3 DEF Rotated
      <4>2. CASE q.stamp = p.stamp
        <5>1. q = p
          BY <1>1, <2>2, <2>3, <3>3, <4>1, <4>2, SamePath
        <5>. QED
          BY <1>1, <2>2, <5>1
      <4>3. CASE q.stamp < p.stamp
        <5>1. q.stamp < logs[p].time
          BY <2>2, <2>3, <3>3, <4>1, <4>3 DEF JsonlInv, InOrder
        <5>. QED
          BY <1>1, <1>5, <2>2, <3>3, <4>1, <5>1
      <4>. QED
        BY <1>1, <2>2, <4>1, <4>2, <4>3
    <3>. QED
      BY <1>3, <3>1, <3>2, <3>3
  <2>. QED
    BY <2>1, <2>2, <2>3
<1>. QED
  BY <1>2, <1>7, <1>8 DEF Newest

-----------------------------------------------------------------------------
(* Rotated files are removed by the last step of a save only. *)
LEMMA RotatedStay ==
  ASSUME JsonlInv, [JsonlNext]_jsonlVars, ~Cleanup
  PROVE  \A p \in DOMAIN logs : p.kind = "rot" => p \in DOMAIN logs'
<1>1. CASE UNCHANGED logs
  BY <1>1
<1>2. CASE Rotate
  <2>1. CASE logs' = Moved(Path(Target), RotatedPath(Target, now))
    <3>1. DOMAIN logs' = (DOMAIN logs \ {Path(Target)}) \cup {RotatedPath(Target, now)}
      BY <2>1, MovedFacts
    <3>2. Path(Target).kind = "jsonl"
      BY PathFacts
    <3>. QED
      BY <3>1, <3>2
  <2>. QED
    BY <1>2, <2>1 DEF Rotate
<1>3. CASE TruncateTmp
  BY <1>3, WithFacts DEF TruncateTmp
<1>4. CASE Write
  BY <1>4, WithFacts DEF Write
<1>5. CASE RenameTmp
  <2>1. DOMAIN logs' = (DOMAIN logs \ {Tmp(Target)}) \cup {Path(Target)}
    BY <1>5, MovedFacts DEF RenameTmp
  <2>2. Tmp(Target).kind = "tmp"
    BY PathFacts
  <2>. QED
    BY <2>1, <2>2
<1>6. CASE RenameFails
  <2>1. CASE logs' = Restrict(logs, DOMAIN logs \ {Tmp(Target)})
    <3>1. DOMAIN logs' = DOMAIN logs \ {Tmp(Target)}
      BY <2>1, RestrictFacts
    <3>2. Tmp(Target).kind = "tmp"
      BY PathFacts
    <3>. QED
      BY <3>1, <3>2
  <2>. QED
    BY <1>6, <2>1 DEF RenameFails
<1>. QED
  BY <1>1, <1>2, <1>3, <1>4, <1>5, <1>6
  DEF JsonlNext, jsonlVars, Change, Create, LoadAuto, SaveSessionJSONL, ForkSession, TmpFails, Crash

LEMMA CleanupKeeps ==
  ASSUME JsonlInv, Cleanup
  PROVE  /\ \A j \in SessionIds : kept'[j] # kept[j] => j = Target
         /\ \A j \in SessionIds : j # Target => \A p \in Rotated(j) : p \in DOMAIN logs'
         /\ {p \in Rotated(Target) : p \in DOMAIN logs'} = Rotated(Target) \ OldestRotated(Target)
<1>1. Target \in SessionIds
  BY DEF JsonlInv, JsonlShape, SaveStands, Cleanup, NotSaving
<1>2. DOMAIN logs' = DOMAIN logs \ OldestRotated(Target)
  BY RestrictFacts DEF Cleanup
<1>3. \A j \in SessionIds : kept'[j] # kept[j] => j = Target
  BY <1>1 DEF Cleanup, JsonlInv, JsonlShape
<1>. QED
  BY <1>2, <1>3 DEF OldestRotated, Rotated

LEMMA RotationStep ==
  ASSUME JsonlInv, [JsonlNext]_jsonlVars
  PROVE  /\ kept' # kept => \A id \in SessionIds :
              kept'[id] # kept[id] => Cardinality({p \in Rotated(id) : p \in DOMAIN logs'}) <= MaxRotatedFiles
         /\ \A p, q \in DOMAIN logs :
              /\ p.kind = "rot" /\ q.kind = "rot" /\ p.id = q.id
              /\ logs[p].time < logs[q].time /\ p \in DOMAIN logs'
              => q \in DOMAIN logs'
<1>1. CASE ~Cleanup
  <2>1. kept' = kept
    BY <1>1 DEF JsonlNext, jsonlVars, keptVars, Change, Create, LoadAuto, SaveSessionJSONL, ForkSession,
                Rotate, TruncateTmp, Write, RenameTmp, TmpFails, RenameFails, Crash
  <2>. QED
    BY <1>1, <2>1, RotatedStay
<1>2. CASE Cleanup
  <2> DEFINE i == Target
             K == Rotated(i) \ OldestRotated(i)
             above(p) == {q \in Rotated(i) : q.stamp > p.stamp}
  <2>1. IsFiniteSet(Rotated(i)) /\ MaxRotatedFiles \in Nat
    BY FS_Subset, SessionJsonlAssumption DEF JsonlInv, PathsHold, Rotated
  <2>2. \A p \in Rotated(i) : /\ p \in DOMAIN logs /\ p.kind = "rot" /\ p.id = i
                              /\ Holds(p) /\ p \in Paths /\ p.stamp \in Nat /\ logs[p].time \in Nat
    BY DEF Rotated, JsonlInv, PathsHold, Holds, Paths, Snapshots
  <2>3. ASSUME NEW p \in Rotated(i) PROVE IsFiniteSet(above(p)) /\ Cardinality(above(p)) \in Nat
    BY <2>1, FS_Subset, FS_CardinalityType
  <2>4. \A p \in Rotated(i) : p \in K <=> Cardinality(above(p)) < MaxRotatedFiles
    <3>1. \A p \in Rotated(i) : p \in OldestRotated(i) <=> Cardinality(above(p)) >= MaxRotatedFiles
      BY DEF OldestRotated
    <3>. QED
      BY <2>1, <2>3, <3>1
  <2> HIDE DEF K, above
  <2>5. Cardinality(K) <= MaxRotatedFiles
    <3>1. K \subseteq Rotated(i)
      BY DEF K
    <3>2. IsFiniteSet(K)
      BY <2>1, <3>1, FS_Subset
    <3>3. \A p, q \in K : p.stamp = q.stamp => p = q
      BY <2>2, <3>1, SamePath
    <3>4. ASSUME NEW p \in K PROVE Cardinality({q \in K : q.stamp > p.stamp}) < MaxRotatedFiles
      <4>1. PICK higher : higher = {q \in K : q.stamp > p.stamp}
        OBVIOUS
      <4>2. higher \subseteq above(p)
        BY <3>1, <4>1 DEF above
      <4>3. IsFiniteSet(above(p)) /\ Cardinality(above(p)) \in Nat /\ Cardinality(above(p)) < MaxRotatedFiles
        BY <2>3, <2>4, <3>1
      <4>4. Cardinality(higher) <= Cardinality(above(p)) /\ Cardinality(higher) \in Nat
        BY <4>2, <4>3, FS_Subset, FS_CardinalityType
      <4>5. Cardinality(higher) < MaxRotatedFiles
        BY <2>1, <4>3, <4>4
      <4>. QED
        BY <4>1, <4>5
    <3>5. \A p \in K : p.stamp \in Nat
      BY <2>2, <3>1
    <3>. QED
      BY <2>1, <3>2, <3>3, <3>4, <3>5, FewAbove
  <2>6. ASSUME NEW id \in SessionIds, kept'[id] # kept[id]
        PROVE  Cardinality({p \in Rotated(id) : p \in DOMAIN logs'}) <= MaxRotatedFiles
    BY <1>2, <2>5, <2>6, CleanupKeeps DEF K
  <2>7. ASSUME NEW p \in DOMAIN logs, NEW q \in DOMAIN logs, p.kind = "rot", q.kind = "rot", p.id = q.id,
               logs[p].time < logs[q].time, p \in DOMAIN logs'
        PROVE  q \in DOMAIN logs'
    <3>1. CASE p.id = i
      <4>1. p \in Rotated(i) /\ q \in Rotated(i)
        BY <2>7, <3>1 DEF Rotated
      <4>2. p.stamp < q.stamp
        <5>1. logs[p].time <= p.stamp /\ logs[q].time <= q.stamp
          BY <2>2, <2>7, <4>1 DEF Holds
        <5>2. CASE p.stamp = q.stamp
          <6>1. p = q
            BY <2>2, <2>7, <4>1, <5>2, SamePath
          <6>. QED
            BY <2>2, <2>7, <4>1, <6>1
        <5>3. CASE q.stamp < p.stamp
          <6>1. q.stamp < logs[p].time
            BY <2>7, <5>3 DEF JsonlInv, InOrder
          <6>. QED
            BY <2>2, <2>7, <4>1, <5>1, <6>1
        <5>. QED
          BY <2>2, <4>1, <5>2, <5>3
      <4>3. above(q) \subseteq above(p)
        BY <2>2, <4>1, <4>2 DEF above
      <4>4. Cardinality(above(q)) <= Cardinality(above(p))
        BY <2>3, <4>1, <4>3, FS_Subset
      <4>5. p \in K
        BY <1>2, <2>7, <4>1, CleanupKeeps DEF K
      <4>6. q \in K
        BY <2>1, <2>3, <2>4, <4>1, <4>4, <4>5
      <4>. QED
        BY <1>2, <4>1, <4>6, CleanupKeeps DEF K
    <3>2. CASE p.id # i
      <4>1. q.id \in SessionIds /\ q \in Rotated(q.id)
        BY <2>7 DEF JsonlInv, JsonlShape, PathsHold, Holds, Paths, Rotated
      <4>. QED
        BY <1>2, <2>7, <3>2, <4>1, CleanupKeeps
    <3>. QED
      BY <3>1, <3>2
  <2>. QED
    BY <2>6, <2>7
<1>. QED
  BY <1>1, <1>2

-----------------------------------------------------------------------------
(* The JSON files. *)

(* A session, in memory, in a file or being written. *)
Within(s) == s \in Sessions /\ s.id \in used /\ s.content <= contents /\ s.turns <= contents

CountsHold ==
  /\ contents \in 0..MaxContents /\ usage \in 0..contents /\ turn \in BOOLEAN
  /\ used \subseteq Ids /\ saved \in [Ids -> 0..(MaxContents + 1)] /\ lost \subseteq Ids

FilesHold ==
  \A i \in DOMAIN files : /\ files[i] \in [session : Sessions, whole : BOOLEAN]
                          /\ Within(files[i].session) /\ files[i].session.id = i

(* What is written has a file already. *)
WriteHolds ==
  write \in {Idle, Stopped} \/
    /\ write.then \in {"stay", "switch", "remove", "exit"}
    /\ Within(write.session) /\ write.session.id \in DOMAIN files
    /\ write.old \in used

(* What SavedIsFound says of one id. *)
Found(i) ==
  IF i \in lost THEN ~Loadable(i)
  ELSE /\ saved[i] # 0 <=> Loadable(i)
       /\ Loadable(i) => files[i].session.content + 1 = saved[i]

FilesInv == CountsHold /\ Within(session) /\ FilesHold /\ WriteHolds /\ SavedIsFound

(* What renaming a session and counting its turns change. *)
LEMMA NewFacts ==
  ASSUME NEW i \in Ids
  PROVE  /\ NewSession(i) \in Sessions /\ NewSession(i).id = i
         /\ NewSession(i).content = 0 /\ NewSession(i).turns = 0
BY DEF Sessions, NewSession

LEMMA RenamedFacts ==
  ASSUME NEW s \in Sessions, NEW i \in Ids, NEW r, r = [s EXCEPT !.id = i]
  PROVE  r \in Sessions /\ r.id = i /\ r.content = s.content /\ r.turns = s.turns
BY DEF Sessions

LEMMA FilesInvInit == Init => FilesInv
<1>. SUFFICES ASSUME Init PROVE FilesInv
  OBVIOUS
<1>1. PICK i \in Ids : /\ files = <<>> /\ session = NewSession(i) /\ usage = 0 /\ turn = FALSE
                       /\ write = Idle /\ contents = 0 /\ used = {i} /\ saved = [j \in Ids |-> 0]
                       /\ lost = {}
  BY DEF Init
<1>2. Within(session)
  <2>1. session \in Sessions /\ session.id = i /\ session.content = 0 /\ session.turns = 0
    BY <1>1, NewFacts
  <2>. QED
    BY <1>1, <2>1 DEF Within
<1>3. CountsHold
  <2>1. contents \in 0..MaxContents /\ usage \in 0..contents /\ used \subseteq Ids
    BY <1>1, SessionFilesAssumption
  <2>2. turn \in BOOLEAN
    BY <1>1, Zenon
  <2>3. saved \in [Ids -> 0..(MaxContents + 1)] /\ lost \subseteq Ids
    BY <1>1, SessionFilesAssumption
  <2>. QED
    BY <2>1, <2>2, <2>3 DEF CountsHold
<1>. QED
  BY <1>1, <1>2, <1>3 DEF FilesInv, FilesHold, WriteHolds, SavedIsFound, Loadable

(* A step that leaves the files alone. *)
LEMMA FilesAlone ==
  ASSUME FilesInv, UNCHANGED <<files, saved, lost>>, contents \in Nat, contents' \in Nat,
         contents <= contents', used \subseteq used'
  PROVE  FilesHold' /\ SavedIsFound' /\ \A s : Within(s) =>
           s \in Sessions /\ s.id \in used' /\ s.content <= contents' /\ s.turns <= contents'
<1>1. ASSUME NEW s, Within(s)
      PROVE  s \in Sessions /\ s.id \in used' /\ s.content <= contents' /\ s.turns <= contents'
  BY <1>1 DEF Within, Sessions
<1>2. FilesHold'
  BY <1>1 DEF FilesInv, FilesHold, Within
<1>3. SavedIsFound'
  BY DEF FilesInv, SavedIsFound, Loadable
<1>. QED
  BY <1>1, <1>2, <1>3

(* The file a session is saved to is truncated first, or nothing is done. *)
LEMMA TruncateStep ==
  ASSUME FilesInv, NEW s \in Sessions, NEW then \in {"stay", "switch", "remove", "exit"}, NEW old \in used',
         Truncate(s, then, old), s.content <= contents, s.turns <= contents, s.id \in used',
         used \subseteq used', used' \subseteq Ids, UNCHANGED <<usage, turn, contents>>,
         session' \in Sessions, session'.id \in used', session'.content <= contents,
         session'.turns <= contents
  PROVE  FilesInv'
<1>1. CountsHold' /\ Within(session)'
  <2>1. saved' = saved /\ lost' \in {lost, lost \cup {s.id}}
    BY DEF Truncate
  <2>. QED
    BY <2>1 DEF FilesInv, CountsHold, Within
<1>2. CASE write' = Freed(then) /\ UNCHANGED <<files, saved, lost>>
  <2>1. WriteHolds'
    BY <1>2 DEF Freed, WriteHolds
  <2>2. contents \in Nat
    BY SessionFilesAssumption DEF FilesInv, CountsHold
  <2>3. FilesHold' /\ SavedIsFound'
    BY <1>2, <2>2, FilesAlone
  <2>. QED
    BY <1>1, <2>1, <2>3 DEF FilesInv
<1>3. CASE write' # Freed(then) \/ ~UNCHANGED <<files, saved, lost>>
  <2>1. /\ DOMAIN files' = DOMAIN files \cup {s.id} /\ files'[s.id] = Torn(s.id)
        /\ \A i \in DOMAIN files : i # s.id => files'[i] = files[i]
        /\ write' = [then |-> then, session |-> s, old |-> old]
        /\ UNCHANGED saved /\ lost' = lost \cup {s.id}
    BY <1>3 DEF Truncate
  <2>2. /\ s.id \in Ids /\ Torn(s.id).session = NewSession(s.id)
        /\ Torn(s.id) \in [session : Sessions, whole : BOOLEAN] /\ ~Torn(s.id).whole
    BY NewFacts DEF Torn
  <2>3. FilesHold'
    <3>1. ASSUME NEW i \in DOMAIN files'
          PROVE  /\ files'[i] \in [session : Sessions, whole : BOOLEAN]
                 /\ Within(files[i].session)' /\ files'[i].session.id = i
      <4>1. CASE i = s.id
        <5>1. files'[i].session = NewSession(i)
          BY <2>1, <2>2, <4>1
        <5>2. contents \in Nat
          BY SessionFilesAssumption DEF FilesInv, CountsHold
        <5>3. Within(files[i].session)'
          BY <2>2, <4>1, <5>1, <5>2, NewFacts DEF Within
        <5>. QED
          BY <2>1, <2>2, <4>1, <5>1, <5>3, NewFacts
      <4>2. CASE i # s.id
        <5>1. i \in DOMAIN files /\ files'[i] = files[i]
          BY <2>1, <4>2
        <5>. QED
          BY <5>1 DEF FilesInv, FilesHold, Within
      <4>. QED
        BY <4>1, <4>2
    <3>. QED
      BY <3>1 DEF FilesHold
  <2>4. WriteHolds'
    <3>1. write'.then = then /\ write'.session = s /\ write'.old = old
      BY <2>1
    <3>2. Within(write.session)'
      BY <3>1 DEF Within
    <3>. QED
      BY <2>1, <3>1, <3>2 DEF WriteHolds
  <2>5. SavedIsFound'
    <3>1. ASSUME NEW i \in Ids PROVE Found(i)'
      <4>1. CASE i = s.id
        BY <2>1, <2>2, <4>1 DEF Loadable, Found
      <4>2. CASE i # s.id
        BY <2>1, <4>2 DEF FilesInv, SavedIsFound, Loadable, Found
      <4>. QED
        BY <4>1, <4>2
    <3>. QED
      BY <3>1 DEF SavedIsFound, Found
  <2>. QED
    BY <1>1, <2>3, <2>4, <2>5 DEF FilesInv
<1>. QED
  BY <1>2, <1>3

LEMMA CommandSteps ==
  ASSUME FilesInv, NEW id \in Ids,
         SaveAs(id) \/ Fork(id) \/ Rename(id) \/ Exit
  PROVE  FilesInv'
<1>1. /\ session \in Sessions /\ session.id \in used /\ session.content <= contents
      /\ session.turns <= contents /\ usage \in Nat /\ usage <= contents /\ used \subseteq Ids
      /\ contents \in Nat
  BY SessionFilesAssumption DEF FilesInv, Within, CountsHold
<1>2. CASE SaveAs(id)
  <2>1. PICK s \in Sessions : /\ s = [session EXCEPT !.id = id, !.turns = usage]
                              /\ s.id = id /\ s.turns = usage /\ s.content = session.content
    <3>1. PICK r : r = [session EXCEPT !.id = id, !.turns = usage]
      OBVIOUS
    <3>2. r \in Sessions /\ r.id = id /\ r.turns = usage /\ r.content = session.content
      BY <1>1, <3>1 DEF Sessions
    <3>. QED
      BY <3>1, <3>2
  <2>2. /\ session' = s /\ Truncate(s, "stay", id) /\ used' = used \cup {id}
        /\ UNCHANGED <<usage, turn, contents>>
    BY <1>2, <2>1 DEF SaveAs
  <2>3. /\ id \in used' /\ s.id \in used' /\ used \subseteq used' /\ used' \subseteq Ids
        /\ s.content <= contents /\ s.turns <= contents
    BY <1>1, <2>1, <2>2
  <2>4. /\ session' \in Sessions /\ session'.id \in used' /\ session'.content <= contents
        /\ session'.turns <= contents
    BY <1>1, <2>1, <2>2, <2>3
  <2>. QED
    BY <2>1, <2>2, <2>3, <2>4, TruncateStep
<1>3. CASE Fork(id)
  <2>1. PICK s \in Sessions : /\ s = [session EXCEPT !.id = id]
                              /\ s.id = id /\ s.turns = session.turns /\ s.content = session.content
    <3>1. PICK r : r = [session EXCEPT !.id = id]
      OBVIOUS
    <3>2. r \in Sessions /\ r.id = id /\ r.turns = session.turns /\ r.content = session.content
      BY <1>1, <3>1, RenamedFacts
    <3>. QED
      BY <3>1, <3>2
  <2>2. /\ Truncate(s, "switch", id) /\ used' = used \cup {id}
        /\ UNCHANGED <<session, usage, turn, contents>>
    BY <1>3, <2>1 DEF Fork
  <2>3. /\ id \in used' /\ s.id \in used' /\ used \subseteq used' /\ used' \subseteq Ids
        /\ s.content <= contents /\ s.turns <= contents
    BY <1>1, <2>1, <2>2
  <2>4. /\ session' \in Sessions /\ session'.id \in used' /\ session'.content <= contents
        /\ session'.turns <= contents
    BY <1>1, <2>1, <2>2, <2>3
  <2>. QED
    BY <2>1, <2>2, <2>3, <2>4, TruncateStep
<1>4. CASE Rename(id)
  <2>1. PICK s \in Sessions : /\ s = [session EXCEPT !.id = id]
                              /\ s.id = id /\ s.turns = session.turns /\ s.content = session.content
    <3>1. PICK r : r = [session EXCEPT !.id = id]
      OBVIOUS
    <3>2. r \in Sessions /\ r.id = id /\ r.turns = session.turns /\ r.content = session.content
      BY <1>1, <3>1, RenamedFacts
    <3>. QED
      BY <3>1, <3>2
  <2>2. /\ session' = s /\ Truncate(s, "remove", session.id) /\ used' = used \cup {id}
        /\ UNCHANGED <<usage, turn, contents>>
    BY <1>4, <2>1 DEF Rename
  <2>3. /\ session.id \in used' /\ s.id \in used' /\ used \subseteq used' /\ used' \subseteq Ids
        /\ s.content <= contents /\ s.turns <= contents
    BY <1>1, <2>1, <2>2
  <2>4. /\ session' \in Sessions /\ session'.id \in used' /\ session'.content <= contents
        /\ session'.turns <= contents
    BY <1>1, <2>1, <2>2, <2>3
  <2>. QED
    BY <2>1, <2>2, <2>3, <2>4, TruncateStep
<1>5. CASE Exit
  <2>1. Truncate(session, "exit", session.id) /\ UNCHANGED <<session, usage, turn, contents, used>>
    BY <1>5 DEF Exit
  <2>2. /\ session' \in Sessions /\ session'.id \in used' /\ session'.content <= contents
        /\ session'.turns <= contents /\ used \subseteq used' /\ used' \subseteq Ids
    BY <1>1, <2>1
  <2>. QED
    BY <1>1, <2>1, <2>2, TruncateStep
<1>. QED
  BY <1>2, <1>3, <1>4, <1>5

LEMMA WrittenStep == FilesInv /\ Written => FilesInv'
<1>. SUFFICES ASSUME FilesInv, Written PROVE FilesInv'
  OBVIOUS
<1>1. PICK s \in Sessions, i \in used, old \in used :
        /\ s = write.session /\ i = s.id /\ old = write.old /\ i \in Ids
        /\ s.content \in Nat /\ s.content <= contents /\ s.turns <= contents
        /\ i \in DOMAIN files
  BY DEF Written, FilesInv, WriteHolds, CountsHold, Within, Sessions
<1>2. PICK removed \in {{}, IF write.then = "remove" THEN {write.old} ELSE {}} :
        /\ files' = Restrict([files EXCEPT ![i] = [session |-> s, whole |-> TRUE]],
                             DOMAIN files \ removed)
        /\ saved' = [j \in Ids |-> IF j = i THEN s.content + 1
                                   ELSE IF j \in removed THEN 0 ELSE saved[j]]
        /\ lost' = (lost \ ({i} \cup removed)) \cup ({i} \cap removed)
  BY <1>1 DEF Written
<1>3. /\ DOMAIN files' = DOMAIN files \ removed
      /\ i \in DOMAIN files' => files'[i] = [session |-> s, whole |-> TRUE]
      /\ \A j \in DOMAIN files' : j # i => files'[j] = files[j]
  <2> DEFINE written == [files EXCEPT ![i] = [session |-> s, whole |-> TRUE]]
  <2>1. /\ DOMAIN written = DOMAIN files /\ written[i] = [session |-> s, whole |-> TRUE]
        /\ \A j \in DOMAIN files : j # i => written[j] = files[j]
    BY <1>1
  <2>2. files' = Restrict(written, DOMAIN files \ removed)
    BY <1>2
  <2> HIDE DEF written
  <2>. QED
    BY <2>1, <2>2 DEF Restrict
<1>4. /\ write' \in {Idle, Stopped} /\ UNCHANGED <<usage, turn, contents, used>>
      /\ session' = s \/ session' = session
  BY <1>1 DEF Written, Freed
<1>5. CountsHold'
  <2>1. s.content + 1 \in 0..(MaxContents + 1)
    BY <1>1, SessionFilesAssumption DEF FilesInv, CountsHold
  <2>2. saved' \in [Ids -> 0..(MaxContents + 1)]
    <3>1. ASSUME NEW j \in Ids
          PROVE  (IF j = i THEN s.content + 1 ELSE IF j \in removed THEN 0 ELSE saved[j])
                   \in 0..(MaxContents + 1)
      BY <2>1, SessionFilesAssumption DEF FilesInv, CountsHold
    <3>. QED
      BY <1>2, <3>1
  <2>3. lost' \subseteq Ids
    BY <1>1, <1>2 DEF FilesInv, CountsHold
  <2>. QED
    BY <1>4, <2>2, <2>3 DEF FilesInv, CountsHold
<1>6. Within(session)'
  BY <1>1, <1>4 DEF FilesInv, Within
<1>7. FilesHold'
  <2>1. ASSUME NEW j \in DOMAIN files'
        PROVE  /\ files'[j] \in [session : Sessions, whole : BOOLEAN]
               /\ Within(files[j].session)' /\ files'[j].session.id = j
    <3>1. CASE j = i
      <4>1. files'[j].session = s /\ files'[j] = [session |-> s, whole |-> TRUE]
        BY <1>3, <3>1
      <4>2. Within(files[j].session)'
        BY <1>1, <1>4, <4>1 DEF Within
      <4>. QED
        BY <1>1, <3>1, <4>1, <4>2
    <3>2. CASE j # i
      <4>1. j \in DOMAIN files /\ files'[j] = files[j]
        BY <1>3, <3>2
      <4>. QED
        BY <1>4, <4>1 DEF FilesInv, FilesHold, Within
    <3>. QED
      BY <3>1, <3>2
  <2>. QED
    BY <2>1 DEF FilesHold
<1>8. WriteHolds'
  BY <1>4 DEF WriteHolds
<1>9. SavedIsFound'
  <2>1. ASSUME NEW j \in Ids PROVE Found(j)'
    <3>1. saved'[j] = IF j = i THEN s.content + 1 ELSE IF j \in removed THEN 0 ELSE saved[j]
      BY <1>2
    <3>2. CASE j = i
      <4>1. CASE i \in removed
        BY <1>1, <1>2, <1>3, <3>2, <4>1 DEF Loadable, Found
      <4>2. CASE i \notin removed
        <5>1. j \notin lost' /\ saved'[j] = s.content + 1 /\ files'[j] = [session |-> s, whole |-> TRUE]
              /\ j \in DOMAIN files'
          BY <1>1, <1>2, <1>3, <3>1, <3>2, <4>2
        <5>2. files'[j].session = s /\ files'[j].whole
          BY <5>1
        <5>. QED
          BY <1>1, <5>1, <5>2 DEF Loadable, Found
      <4>. QED
        BY <4>1, <4>2
    <3>3. CASE j # i /\ j \in removed
      BY <1>2, <1>3, <3>1, <3>3 DEF Loadable, Found
    <3>4. CASE j # i /\ j \notin removed
      <4>1. saved'[j] = saved[j] /\ (j \in DOMAIN files' <=> j \in DOMAIN files) /\ (j \in lost' <=> j \in lost)
        BY <1>2, <1>3, <3>1, <3>4
      <4>. QED
        BY <1>3, <3>4, <4>1 DEF FilesInv, SavedIsFound, Loadable, Found
    <3>. QED
      BY <3>2, <3>3, <3>4
  <2>. QED
    BY <2>1 DEF SavedIsFound, Found
<1>. QED
  BY <1>5, <1>6, <1>7, <1>8, <1>9 DEF FilesInv

LEMMA DeleteStep == ASSUME NEW id \in Ids, FilesInv, Delete(id) PROVE FilesInv'
<1>1. /\ DOMAIN files' = DOMAIN files \ {id} /\ \A i \in DOMAIN files' : files'[i] = files[i]
      /\ saved' = [saved EXCEPT ![id] = 0] /\ lost' = lost \ {id} /\ write = Idle /\ id \in DOMAIN files
      /\ UNCHANGED <<session, usage, turn, write, contents, used>>
  BY DEF Delete, Adapter, Without, Restrict
<1>2. CountsHold' /\ Within(session)' /\ WriteHolds'
  <2>1. saved' \in [Ids -> 0..(MaxContents + 1)]
    BY <1>1, SessionFilesAssumption DEF FilesInv, CountsHold
  <2>2. CountsHold'
    BY <1>1, <2>1 DEF FilesInv, CountsHold
  <2>. QED
    BY <1>1, <2>2 DEF FilesInv, Within, WriteHolds
<1>3. FilesHold'
  BY <1>1 DEF FilesInv, FilesHold, Within
<1>4. SavedIsFound'
  <2>1. ASSUME NEW i \in Ids PROVE Found(i)'
    BY <1>1 DEF FilesInv, CountsHold, SavedIsFound, Loadable, Found
  <2>. QED
    BY <2>1 DEF SavedIsFound, Found
<1>. QED
  BY <1>2, <1>3, <1>4 DEF FilesInv

LEMMA FilesInvStep ==
  ASSUME FilesInv, [Next]_vars
  PROVE  FilesInv'
<1>1. contents \in Nat /\ used \subseteq Ids
  BY SessionFilesAssumption DEF FilesInv, CountsHold
<1>2. CASE UNCHANGED vars
  BY <1>2 DEF vars, FilesInv, CountsHold, Within, FilesHold, WriteHolds, SavedIsFound, Loadable
<1>3. CASE StartTurn
  <2>1. turn' \in BOOLEAN /\ UNCHANGED <<files, session, usage, write, contents, used, saved, lost>>
    BY <1>3 DEF StartTurn
  <2>. QED
    BY <2>1 DEF FilesInv, CountsHold, Within, FilesHold, WriteHolds, SavedIsFound, Loadable
<1>4. CASE EndTurn
  <2>1. /\ turn' \in BOOLEAN /\ contents' = contents + 1 /\ contents < MaxContents /\ usage' = usage + 1
        /\ session' = [session EXCEPT !.content = contents', !.spent = @ + 1]
        /\ UNCHANGED <<files, write, used, saved, lost>>
    BY <1>4 DEF EndTurn
  <2>2. contents' \in 0..MaxContents /\ usage' \in 0..contents'
    BY <1>1, <2>1, SessionFilesAssumption DEF FilesInv, CountsHold
  <2>3. CountsHold'
    BY <2>1, <2>2 DEF FilesInv, CountsHold
  <2>4. Within(session)'
    <3>1. /\ session'.id = session.id /\ session'.content = contents' /\ session'.turns = session.turns
          /\ session' \in Sessions
      <4>1. session \in Sessions /\ contents' \in Nat /\ session.id \in Ids
        BY <1>1, <2>1 DEF FilesInv, Within
      <4>2. PICK n \in Nat : n = contents'
        BY <4>1
      <4>3. PICK k \in Nat : k = session.spent + 1
        BY <4>1 DEF Sessions
      <4>4. session' = [session EXCEPT !.content = n, !.spent = k]
        BY <2>1, <4>2, <4>3
      <4>. QED
        BY <4>1, <4>2, <4>4 DEF Sessions
    <3>2. session.turns <= contents + 1 /\ contents' <= contents'
      BY <1>1, <2>1 DEF FilesInv, Within, Sessions
    <3>. QED
      BY <2>1, <3>1, <3>2 DEF FilesInv, Within
  <2>5. /\ FilesHold' /\ SavedIsFound' /\ \A s : Within(s) =>
           s \in Sessions /\ s.id \in used' /\ s.content <= contents' /\ s.turns <= contents'
    BY <1>1, <2>1, FilesAlone
  <2>6. WriteHolds'
    BY <2>1, <2>5 DEF FilesInv, WriteHolds, Within
  <2>. QED
    BY <2>3, <2>4, <2>5, <2>6 DEF FilesInv
<1>5. CASE WriteFails
  <2>1. write' \in {Idle, Stopped} /\ UNCHANGED <<files, session, usage, turn, contents, used, saved, lost>>
    BY <1>5 DEF WriteFails, Freed
  <2>. QED
    BY <2>1 DEF FilesInv, CountsHold, Within, FilesHold, WriteHolds, SavedIsFound, Loadable
<1>6. ASSUME NEW id \in Ids, Load(id) \/ Switch(id) PROVE FilesInv'
  <2>1. /\ id \in DOMAIN files /\ session' = files[id].session /\ usage' \in {usage, session'.turns}
        /\ UNCHANGED <<files, turn, write, contents, used, saved, lost>>
    BY <1>6 DEF Load, Switch, Loadable
  <2>2. Within(session)'
    BY <2>1 DEF FilesInv, FilesHold, Within
  <2>3. CountsHold'
    BY <1>1, <2>1, <2>2 DEF FilesInv, CountsHold, Within, Sessions
  <2>. QED
    BY <2>1, <2>2, <2>3 DEF FilesInv, Within, FilesHold, WriteHolds, SavedIsFound, Loadable
<1>7. ASSUME NEW id \in Ids, Restart(id) PROVE FilesInv'
  <2>1. /\ session' = NewSession(id) /\ usage' = 0 /\ turn' = FALSE /\ write' = Idle
        /\ used' = used \cup {id} /\ UNCHANGED <<files, contents, saved, lost>>
    BY <1>7 DEF Restart
  <2>2. CountsHold' /\ Within(session)' /\ WriteHolds'
    <3>1. /\ session' \in Sessions /\ session'.id = id /\ session'.content = 0
          /\ session'.turns = 0
      BY <2>1, NewFacts
    <3>2. Within(session)'
      BY <1>1, <2>1, <3>1 DEF Within
    <3>3. WriteHolds'
      BY <2>1 DEF WriteHolds
    <3>4. turn' \in BOOLEAN
      BY <2>1, Zenon
    <3>5. CountsHold'
      BY <1>1, <2>1, <3>4 DEF FilesInv, CountsHold
    <3>. QED
      BY <3>2, <3>3, <3>5
  <2>3. contents' \in Nat /\ contents <= contents'
    BY <1>1, <2>1
  <2>4. FilesHold' /\ SavedIsFound'
    BY <1>1, <2>1, <2>3, FilesAlone
  <2>. QED
    BY <2>2, <2>4 DEF FilesInv
<1>8. CASE Exit
  <2>1. session.id \in Ids
    BY <1>1 DEF FilesInv, Within
  <2>. QED
    BY <1>8, <2>1, CommandSteps
<1>. QED
  BY <1>2, <1>3, <1>4, <1>5, <1>6, <1>7, <1>8, CommandSteps, WrittenStep, DeleteStep DEF Next

LEMMA FilesTypes == FilesInv => TypeOK
<1>. SUFFICES ASSUME FilesInv PROVE TypeOK
  OBVIOUS
<1>1. \A i \in DOMAIN files :
        /\ i \in used /\ files[i].session \in Sessions /\ files[i].session.id = i
        /\ files[i].whole \in BOOLEAN /\ files[i].session.content \in Nat
        /\ files[i].session.content <= contents
  BY DEF FilesInv, FilesHold, Within, Sessions
<1>2. contents \in Nat /\ MaxContents \in Nat /\ contents <= MaxContents /\ usage \in 0..MaxContents
  BY SessionFilesAssumption DEF FilesInv, CountsHold
<1>3. saved \in [Ids -> 0..(MaxContents + 1)] /\ lost \subseteq Ids
  BY DEF FilesInv, CountsHold
<1>4. write \in {Idle, Stopped}
      \/ (/\ write.then \in {"stay", "switch", "remove", "exit"}
          /\ write.session.id \in DOMAIN files /\ write.old \in used)
  BY DEF FilesInv, WriteHolds
<1>. QED
  BY <1>1, <1>2, <1>3, <1>4 DEF TypeOK, FilesInv, CountsHold, Within

-----------------------------------------------------------------------------
(* The two stores side by side. *)
StoresInv == FilesInv /\ JsonlInv

LEMMA StoresInvHolds == SessionsSpec => []StoresInv
<1>1. SessionsInit => StoresInv
  BY FilesInvInit, JsonlInvInit DEF SessionsInit, StoresInv
<1>2. StoresInv /\ [SessionsNext]_sessionsVars => StoresInv'
  <2>1. [SessionsNext]_sessionsVars => [Next]_vars /\ [JsonlNext]_jsonlVars
    BY DEF SessionsNext, sessionsVars
  <2>. QED
    BY <2>1, FilesInvStep, JsonlInvStep DEF StoresInv
<1>. QED
  BY <1>1, <1>2, PTL DEF SessionsSpec

(* A save is lost only with the write that was to replace it, or when its  *)
(* session is renamed to the name it has, and a load then finds nothing;   *)
(* under every other id it finds what was last saved there                 *)
(* (internal/runtime/session.go, loop_adapter.go).                         *)
THEOREM SavedIsAlwaysFound == SessionsSpec => []SavedIsFound
<1>1. StoresInv => SavedIsFound
  BY DEF StoresInv, FilesInv
<1>. QED
  BY <1>1, StoresInvHolds, PTL

(* The stores keep their types; no reader of the JSONL store meets a torn  *)
(* snapshot, what was saved survives any failed or interrupted save, and   *)
(* is found by its id once the last save under it has returned             *)
(* (internal/runtime/session_jsonl.go).                                    *)
THEOREM StoreIsAlwaysWhole == SessionsSpec => []StoreIsWhole
<1>1. StoresInv => StoreIsWhole
  BY FilesTypes, JsonlTypes, Survives DEF StoresInv, StoreIsWhole, SessionsTypeOK, JsonlInv
<1>. QED
  BY <1>1, StoresInvHolds, PTL

(* A save leaves at most MaxRotatedFiles rotated files of its session, and *)
(* no file is removed while an older one is kept                           *)
(* (session_jsonl.go:248-285).                                             *)
THEOREM RotationIsAlwaysOrdered == SessionsSpec => RotationIsOrdered
<1> DEFINE AtMost == kept' # kept => \A id \in SessionIds :
                       kept'[id] # kept[id] =>
                         Cardinality({p \in Rotated(id) : p \in DOMAIN logs'}) <= MaxRotatedFiles
           InTurn == \A p, q \in DOMAIN logs :
                       /\ p.kind = "rot" /\ q.kind = "rot" /\ p.id = q.id
                       /\ logs[p].time < logs[q].time /\ p \in DOMAIN logs'
                       => q \in DOMAIN logs'
<1>1. StoresInv /\ [SessionsNext]_sessionsVars => [AtMost]_jsonlVars /\ [InTurn]_jsonlVars
  <2>1. [SessionsNext]_sessionsVars => [JsonlNext]_jsonlVars
    BY DEF SessionsNext, sessionsVars
  <2>. QED
    BY <2>1, RotationStep DEF StoresInv
<1>2. SessionsSpec => [][AtMost]_jsonlVars /\ [][InTurn]_jsonlVars
  BY <1>1, StoresInvHolds, PTL DEF SessionsSpec
<1>. QED
  BY <1>2 DEF RotationIsOrdered, KeepsAtMost, OldestGoFirst
=============================================================================
