---------------------------- MODULE Lanes_proofs ----------------------------
(***************************************************************************)
(* Proofs about the parts of MCLanesAndModels, for any values of their     *)
(* constants: the locks of BranchLock, the log of a lane and the check of  *)
(* a stale branch, the policy engine and the trust resolver, the indices   *)
(* of a rebuilt answer and the requests, the frames of an event stream,    *)
(* the registry of models and the prompt cache.  Induction over a sequence *)
(* is by its longest prefix, or by the least number for which a fact fails *)
(* (LeastOf).  The answers themselves are in Responses_proofs.             *)
(***************************************************************************)
EXTENDS MCLanesAndModels, SequenceTheorems, FiniteSetTheorems,
        WellFoundedInduction, TLAPS

(* Of two modules above one file, one is above the other. *)
LEMMA PrefixesOverlap ==
  ASSUME NEW S, NEW a \in Seq(S), NEW b \in Seq(S), NEW f \in Seq(S),
         IsPrefix(a, f), IsPrefix(b, f)
  PROVE  ModulesOverlap(a, b)
<1>1. Len(a) \in Nat /\ Len(b) \in Nat /\ Len(f) \in Nat
  OBVIOUS
<1>2. /\ Len(a) <= Len(f) /\ \A i \in 1..Len(a) : a[i] = f[i]
      /\ Len(b) <= Len(f) /\ \A i \in 1..Len(b) : b[i] = f[i]
  BY <1>1 DEF IsPrefix
<1>3. CASE Len(a) <= Len(b)
  <2>1. \A i \in 1..Len(a) : a[i] = b[i]
    BY <1>1, <1>2, <1>3
  <2>2. IsPrefix(a, b)
    BY <1>1, <1>3, <2>1 DEF IsPrefix
  <2>. QED
    BY <2>2 DEF ModulesOverlap
<1>4. CASE Len(b) <= Len(a)
  <2>1. \A i \in 1..Len(b) : b[i] = a[i]
    BY <1>1, <1>2, <1>4
  <2>2. IsPrefix(b, a)
    BY <1>1, <1>4, <2>1 DEF IsPrefix
  <2>. QED
    BY <2>2 DEF ModulesOverlap
<1>. QED
  BY <1>1, <1>3, <1>4

(* Claims overlap when two of their modules on one branch do. *)
LEMMA OverlappingModules ==
  ASSUME NEW a, NEW b
  PROVE  Overlapping(a, b) # {} <=>
           \E m \in a.modules, n \in b.modules : a.branch = b.branch /\ ModulesOverlap(m, n)
<1>1. ASSUME NEW p \in Overlapping(a, b)
      PROVE  \E m \in a.modules, n \in b.modules : a.branch = b.branch /\ ModulesOverlap(m, n)
  <2>1. /\ p \in a.modules \X b.modules
        /\ a.branch = b.branch /\ ModulesOverlap(p[1], p[2])
    BY DEF Overlapping
  <2>2. p[1] \in a.modules /\ p[2] \in b.modules
    BY <2>1
  <2>. QED
    BY <2>1, <2>2
<1>2. ASSUME NEW m \in a.modules, NEW n \in b.modules,
             a.branch = b.branch, ModulesOverlap(m, n)
      PROVE  <<m, n>> \in Overlapping(a, b)
  <2>1. <<m, n>> \in a.modules \X b.modules /\ <<m, n>>[1] = m /\ <<m, n>>[2] = n
    OBVIOUS
  <2>2. a.branch = b.branch /\ ModulesOverlap(<<m, n>>[1], <<m, n>>[2])
    BY <1>2, <2>1
  <2>. QED
    BY <2>1, <2>2 DEF Overlapping
<1>. QED
  BY <1>1, <1>2

LEMMA OverlapSymmetric ==
  ASSUME NEW a, NEW b, Overlapping(a, b) = {}
  PROVE  Overlapping(b, a) = {}
<1>1. ASSUME NEW m, NEW n, ModulesOverlap(m, n) PROVE ModulesOverlap(n, m)
  BY <1>1 DEF ModulesOverlap
<1>. QED
  BY <1>1, OverlappingModules

-----------------------------------------------------------------------------
(* The locks of the branches: no two lanes hold one file. *)
LocksInv == LocksTypeOK /\ Disjoint

LEMMA LocksInvInit == LocksInit => LocksInv
BY DEF LocksInit, LocksInv, LocksTypeOK, Disjoint

(* An accepted intent collides with no claim held. *)
LEMMA AcceptedIsFree ==
  ASSUME NEW intent \in Intents, Acquire(intent), claims' # claims
  PROVE  \A s \in claims : Overlapping(s, intent) = {}
<1>1. {c.lanes : c \in DetectCollisions(claims, intent)} = {}
  BY DEF Acquire
<1>2. DetectCollisions(claims, intent) = {}
  BY <1>1
<1>3. ASSUME NEW s \in claims, NEW p \in Overlapping(s, intent) PROVE FALSE
  <2> DEFINE c(r, q) == [branch |-> intent.branch, module |-> SharedScope(q[1], q[2]),
                         lanes |-> <<r.lane, intent.lane>>]
             C(r) == {c(r, q) : q \in Overlapping(r, intent)}
  <2>1. c(s, p) \in C(s)
    OBVIOUS
  <2>2. C(s) \in {C(r) : r \in claims}
    OBVIOUS
  <2> HIDE DEF C, c
  <2>3. c(s, p) \in UNION {C(r) : r \in claims}
    BY <2>1, <2>2
  <2>4. DetectCollisions(claims, intent) = UNION {C(r) : r \in claims}
    BY DEF DetectCollisions, C, c
  <2>. QED
    BY <1>2, <2>3, <2>4
<1>. QED
  BY <1>3

LEMMA LocksInvStep == LocksInv /\ [LocksNext]_lockVars => LocksInv'
<1>. SUFFICES ASSUME LocksInv, [LocksNext]_lockVars PROVE LocksInv'
  OBVIOUS
<1>1. CASE claims' = claims
  BY <1>1 DEF LocksInv, LocksTypeOK, Disjoint
<1>2. ASSUME NEW intent \in Intents, Acquire(intent), claims' # claims PROVE LocksInv'
  <2>1. claims' = claims \cup {intent}
    BY <1>2 DEF Acquire
  <2>2. LocksTypeOK'
    BY <2>1 DEF LocksInv, LocksTypeOK
  <2>3. \A c \in claims : Overlapping(c, intent) = {} /\ Overlapping(intent, c) = {}
    BY <1>2, AcceptedIsFree, OverlapSymmetric
  <2>4. Disjoint'
    BY <2>1, <2>3 DEF LocksInv, Disjoint
  <2>. QED
    BY <2>2, <2>4 DEF LocksInv
<1>3. ASSUME NEW l \in Lanes, Release(l) PROVE LocksInv'
  <2>1. claims' \subseteq claims
    BY <1>3 DEF Release
  <2>. QED
    BY <2>1 DEF LocksInv, LocksTypeOK, Disjoint
<1>. QED
  BY <1>1, <1>2, <1>3 DEF LocksNext, lockVars

(* No two claims on a branch overlap, for any number of lanes and claims. *)
THEOREM ClaimsAreDisjoint == LocksSpec => []Disjoint
<1>1. LocksInv => Disjoint
  BY DEF LocksInv
<1>. QED
  BY LocksInvInit, LocksInvStep, <1>1, PTL DEF LocksSpec

-----------------------------------------------------------------------------
(* Claims that cover one file of a branch overlap. *)
LEMMA CoversClash ==
  ASSUME NEW c \in Intents, NEW d \in Intents, NEW p \in Places, Covers(c, p), Covers(d, p)
  PROVE  Overlapping(c, d) # {}
<1>1. PICK a \in c.modules : c.branch = p[1] /\ IsPrefix(a, p[2])
  BY DEF Covers
<1>2. PICK b \in d.modules : d.branch = p[1] /\ IsPrefix(b, p[2])
  BY DEF Covers
<1>3. a \in Seq(STRING) /\ b \in Seq(STRING) /\ p[2] \in Seq(STRING)
  BY BranchLockAssumption DEF Intents, Places
<1>4. ModulesOverlap(a, b)
  BY <1>1, <1>2, <1>3, PrefixesOverlap
<1>. QED
  BY <1>1, <1>2, <1>4, OverlappingModules

(* So at most one claim covers a file of a branch. *)
LEMMA OneHolder ==
  ASSUME LocksInv, NEW p \in Places, NEW s \in Holders(p), NEW t \in Holders(p)
  PROVE  s = t
<1>1. s \in claims /\ t \in claims
  BY DEF Holders
<1>2. s \in Intents /\ t \in Intents
  BY <1>1 DEF LocksInv, LocksTypeOK
<1>3. Overlapping(s, t) # {}
  BY <1>2, CoversClash DEF Holders
<1>. QED
  BY <1>1, <1>3 DEF LocksInv, Disjoint

(* The writer of a file is the lane of the claim that covers it. *)
WriterIsHolder ==
  \A p \in Places : /\ Holders(p) = {} => Writer[p] = NoLane
                    /\ \A s \in Holders(p) : Writer[p] = s.lane

LEMMA HolderWrites == LocksInv => WriterIsHolder
<1>. SUFFICES ASSUME LocksInv, NEW p \in Places
              PROVE  /\ Holders(p) = {} => Writer[p] = NoLane
                     /\ \A s \in Holders(p) : Writer[p] = s.lane
  BY DEF WriterIsHolder
<1>1. Holders(p) = {} => Writer[p] = NoLane
  BY DEF Writer
<1>2. ASSUME NEW s \in Holders(p) PROVE Writer[p] = s.lane
  <2>1. (CHOOSE t \in Holders(p) : TRUE) = s
    BY OneHolder
  <2>. QED
    BY <2>1 DEF Writer
<1>. QED
  BY <1>1, <1>2

LEMMA HolderWritesNext == LocksInv' => WriterIsHolder'
BY HolderWrites, PTL

(* An accepted claim takes places nobody has. *)
LEMMA AcquireTakes ==
  ASSUME LocksInv, LocksInv', NEW intent \in Intents, Acquire(intent), claims' # claims
  PROVE  Abs!Take(intent.lane)
<1>1. claims' = claims \cup {intent}
  BY DEF Acquire
<1>2. WriterIsHolder /\ WriterIsHolder'
  BY HolderWrites, HolderWritesNext
<1> DEFINE S == {p \in Places : Covers(intent, p)}
<1>3. ASSUME NEW p \in S PROVE Writer[p] = NoLane /\ Writer'[p] = intent.lane
  <2>1. ASSUME NEW t \in Holders(p) PROVE FALSE
    <3>1. t \in claims /\ t \in Intents /\ Covers(t, p)
      BY <2>1 DEF Holders, LocksInv, LocksTypeOK
    <3>2. Overlapping(t, intent) # {}
      BY <3>1, CoversClash
    <3>. QED
      BY <3>1, <3>2, AcceptedIsFree
  <2>2. Writer[p] = NoLane
    BY <2>1, <1>2 DEF WriterIsHolder
  <2>3. intent \in Holders(p)'
    BY <1>1 DEF Holders
  <2>4. Writer'[p] = intent.lane
    BY <1>2, <2>3 DEF WriterIsHolder
  <2>. QED
    BY <2>2, <2>4
<1>4. ASSUME NEW p \in Places \ S PROVE Writer'[p] = Writer[p]
  <2>1. Holders(p)' = Holders(p)
    BY <1>1 DEF Holders
  <2>. QED
    BY <1>2, <2>1 DEF WriterIsHolder
<1>5. Writer' = [p \in Places |-> IF p \in S THEN intent.lane ELSE Writer[p]]
  <2>1. Writer' = [p \in Places |-> Writer'[p]]
    BY DEF Writer
  <2>. QED
    BY <2>1, <1>3, <1>4
<1>. QED
  BY <1>3, <1>5 DEF Abs!Take

(* A release gives back the places of its lane and no others. *)
LEMMA ReleaseGivesBack ==
  ASSUME LocksInv, LocksInv', NEW l \in Lanes, Release(l)
  PROVE  Abs!GiveBack(l)
<1>1. WriterIsHolder /\ WriterIsHolder'
  BY HolderWrites, HolderWritesNext
<1>2. claims' = {s \in claims : s.lane # l}
  BY DEF Release
<1>3. ASSUME NEW p \in Places
      PROVE  Writer'[p] = IF Writer[p] = l THEN NoLane ELSE Writer[p]
  <2>1. Holders(p)' = {s \in Holders(p) : s.lane # l}
    BY <1>2 DEF Holders
  <2>2. CASE Holders(p) = {}
    BY <1>1, <2>1, <2>2, BranchLockAssumption DEF WriterIsHolder
  <2>3. ASSUME NEW s \in Holders(p)
        PROVE  Writer'[p] = IF Writer[p] = l THEN NoLane ELSE Writer[p]
    <3>1. Writer[p] = s.lane
      BY <1>1 DEF WriterIsHolder
    <3>2. CASE s.lane = l
      <4>1. Holders(p)' = {}
        BY <2>1, <3>2, OneHolder
      <4>. QED
        BY <1>1, <3>1, <3>2, <4>1 DEF WriterIsHolder
    <3>3. CASE s.lane # l
      <4>1. s \in Holders(p)'
        BY <1>2, <2>1, <3>3 DEF Holders
      <4>. QED
        BY <1>1, <3>1, <3>3, <4>1 DEF WriterIsHolder
    <3>. QED
      BY <3>2, <3>3
  <2>. QED
    BY <2>2, <2>3
<1>4. Writer' = [p \in Places |-> Writer'[p]]
  BY DEF Writer
<1>. QED
  BY <1>3, <1>4 DEF Abs!GiveBack

LEMMA RefinementStep == LocksInv /\ LocksInv' /\ [LocksNext]_lockVars => [Abs!Next]_Writer
<1>. SUFFICES ASSUME LocksInv, LocksInv', [LocksNext]_lockVars PROVE [Abs!Next]_Writer
  OBVIOUS
<1>1. CASE claims' = claims
  BY <1>1 DEF Writer, Holders
<1>2. ASSUME NEW intent \in Intents, Acquire(intent), claims' # claims PROVE Abs!Next
  <2>1. intent.lane \in Lanes
    BY DEF Intents
  <2>. QED
    BY <1>2, <2>1, AcquireTakes DEF Abs!Next
<1>3. ASSUME NEW l \in Lanes, Release(l) PROVE Abs!Next
  BY <1>3, ReleaseGivesBack DEF Abs!Next
<1>. QED
  BY <1>1, <1>2, <1>3 DEF LocksNext, lockVars

(* The locks implement one writer per file, for any lanes, paths and files. *)
THEOREM LocksImplementOneWriter == LocksSpec => OneWriter
<1>1. LocksInit => Abs!Init
  BY DEF LocksInit, Abs!Init, Writer, Holders
<1>. QED
  BY LocksInvInit, LocksInvStep, RefinementStep, <1>1, PTL DEF LocksSpec, OneWriter, Abs!Spec

-----------------------------------------------------------------------------
(* The check of a stale branch. *)
StaleShape ==
  /\ commits \in Nat /\ onMain \subseteq 1..commits /\ onBranch \subseteq 1..commits
  /\ check \in [at : {"idle", "ahead", "fixes", "decide"}, behind : Nat, ahead : Nat, fixes : SUBSET Nat]
  /\ seen \in [main : SUBSET Nat, branch : SUBSET Nat, failed : BOOLEAN, moved : BOOLEAN]
  /\ action \in [kind : StaleKinds, lists : BOOLEAN, fixes : SUBSET Nat]

Decided == check.at = "decide" \/ action # NoAction

(* Main only grows after it was looked at, and the branch takes nothing    *)
(* from it unless it is moved; what was counted is so; and a decision      *)
(* matches what was counted.                                               *)
StaleInv ==
  /\ StaleShape
  /\ seen.main \subseteq onMain
  /\ ~seen.moved => seen.main \cap onBranch \subseteq seen.branch
  /\ ~seen.failed /\ check.behind = 0 => seen.main \subseteq seen.branch
  /\ ~seen.failed /\ ~seen.moved /\ check.behind # 0 /\ Decided => seen.main \ seen.branch \subseteq check.fixes
  /\ action # NoAction => check.at = "idle"
  /\ action.kind = "none" => action = NoAction
  /\ action.kind = "noop" /\ stalePolicy \in DOMAIN KindOf => check.behind = 0
  /\ action.kind = "warn" => action.lists
  /\ action.kind = "block" => (action.lists <=> (check.ahead > 0))
  /\ action.lists => check.behind # 0 /\ action.fixes = check.fixes
  /\ action.fixes \subseteq check.fixes

LEMMA StaleInvInit == StaleInit => StaleInv
BY DEF StaleInit, StaleInv, StaleShape, Decided, NoCheck, NotSeen, NoAction, StaleKinds

LEMMA RevListFacts ==
  ASSUME StaleShape
  PROVE  /\ RevList(onMain, onBranch) \subseteq Nat /\ RevList(onBranch, onMain) \subseteq Nat
         /\ Cardinality(RevList(onMain, onBranch)) \in Nat
         /\ Cardinality(RevList(onBranch, onMain)) \in Nat
         /\ Cardinality({}) = 0
         /\ Cardinality(RevList(onMain, onBranch)) = 0 => onMain \subseteq onBranch
<1>1. commits \in Nat /\ onMain \subseteq 1..commits /\ onBranch \subseteq 1..commits
  BY DEF StaleShape
<1>2. IsFiniteSet(1..commits) /\ 1..commits \subseteq Nat
  BY <1>1, FS_Interval
<1>3. /\ RevList(onMain, onBranch) \subseteq 1..commits /\ RevList(onBranch, onMain) \subseteq 1..commits
  BY <1>1 DEF RevList
<1>4. IsFiniteSet(RevList(onMain, onBranch)) /\ IsFiniteSet(RevList(onBranch, onMain))
  BY <1>2, <1>3, FS_Subset
<1>5. Cardinality(RevList(onMain, onBranch)) \in Nat /\ Cardinality(RevList(onBranch, onMain)) \in Nat
  BY <1>4, FS_CardinalityType
<1>6. Cardinality(RevList(onMain, onBranch)) = 0 => RevList(onMain, onBranch) = {}
  BY <1>4, FS_EmptySet
<1>7. RevList(onMain, onBranch) = {} => onMain \subseteq onBranch
  BY DEF RevList
<1>. QED
  BY <1>2, <1>3, <1>5, <1>6, <1>7, FS_EmptySet

LEMMA StaleInvStep == StaleInv /\ [StaleNext]_staleVars => StaleInv'
<1>. SUFFICES ASSUME StaleInv, [StaleNext]_staleVars PROVE StaleInv'
  OBVIOUS
<1>1. StaleShape /\ commits \in Nat /\ onMain \subseteq 1..commits /\ onBranch \subseteq 1..commits
  BY DEF StaleInv, StaleShape
<1>2. 1..commits \subseteq Nat /\ 1..commits \subseteq 1..(commits + 1) /\ commits + 1 \in 1..(commits + 1)
  BY <1>1
<1>3. CASE UNCHANGED staleVars
  BY <1>3 DEF staleVars, StaleInv, StaleShape, Decided
<1>4. CASE CommitOnMain
  <2>1. /\ commits' = commits + 1 /\ onMain' = onMain \cup {commits + 1}
        /\ UNCHANGED <<onBranch, stalePolicy, check, action, seen>>
    BY <1>4 DEF CommitOnMain
  <2>2. StaleShape'
    BY <1>1, <1>2, <2>1 DEF StaleShape
  <2>. QED
    BY <2>1, <2>2 DEF StaleInv, Decided
<1>5. CASE CommitOnBranch
  <2>1. /\ commits' = commits + 1 /\ onBranch' = onBranch \cup {commits + 1}
        /\ UNCHANGED <<onMain, stalePolicy, check, action, seen>>
    BY <1>5 DEF CommitOnBranch
  <2>2. StaleShape'
    BY <1>1, <1>2, <2>1 DEF StaleShape
  <2>3. commits + 1 \notin seen.main
    <3>1. commits + 1 \notin 1..commits
      BY <1>1
    <3>. QED
      BY <1>1, <3>1 DEF StaleInv
  <2>4. ~seen.moved => seen.main \cap onBranch' \subseteq seen.branch
    BY <2>1, <2>3 DEF StaleInv
  <2>. QED
    BY <2>1, <2>2, <2>4 DEF StaleInv, Decided
<1>6. CASE UpdateElsewhere
  <2>1. /\ onBranch' = onBranch \cup onMain /\ seen' = [seen EXCEPT !.moved = TRUE]
        /\ UNCHANGED <<onMain, commits, stalePolicy, check, action>>
    BY <1>6 DEF UpdateElsewhere
  <2>2. seen' = [main |-> seen.main, branch |-> seen.branch, failed |-> seen.failed, moved |-> TRUE]
    BY <1>1, <2>1 DEF StaleShape
  <2>3. StaleShape'
    BY <1>1, <2>1, <2>2 DEF StaleShape
  <2>. QED
    BY <2>1, <2>2, <2>3 DEF StaleInv, Decided
<1>7. CASE CountBehind
  <2>1. PICK found \in {RevList(onMain, onBranch), {}} :
          /\ check' = [NoCheck EXCEPT !.at = "ahead", !.behind = Cardinality(found)]
          /\ seen' = [main |-> onMain, branch |-> onBranch, moved |-> FALSE,
                      failed |-> found # RevList(onMain, onBranch)]
    BY <1>7 DEF CountBehind
  <2>2. UNCHANGED <<onMain, onBranch, commits, stalePolicy, action>> /\ action = NoAction
    BY <1>7 DEF CountBehind
  <2>3. PICK n \in Nat : n = Cardinality(found)
    BY <1>1, RevListFacts
  <2>4. check' = [at |-> "ahead", behind |-> n, ahead |-> 0, fixes |-> {}]
    BY <2>1, <2>3 DEF NoCheck
  <2>5. n = 0 /\ found = RevList(onMain, onBranch) => onMain \subseteq onBranch
    BY <1>1, <2>3, RevListFacts
  <2>6. StaleShape'
    BY <1>1, <1>2, <2>1, <2>2, <2>4 DEF StaleShape
  <2>7. PICK failed \in BOOLEAN : failed = (found # RevList(onMain, onBranch))
    OBVIOUS
  <2>8. seen' = [main |-> onMain, branch |-> onBranch, moved |-> FALSE, failed |-> failed]
    BY <2>1, <2>7
  <2>9. /\ seen'.main = onMain /\ seen'.branch = onBranch
        /\ ~seen'.failed => found = RevList(onMain, onBranch)
        /\ check'.at = "ahead" /\ check'.behind = n
    BY <2>4, <2>7, <2>8
  <2>. QED
    BY <2>2, <2>4, <2>5, <2>6, <2>9 DEF StaleInv, Decided, NoAction
<1>8. CASE CountAhead
  <2>1. PICK found \in {RevList(onBranch, onMain), {}} :
          /\ check' = [check EXCEPT !.ahead = Cardinality(found),
                                    !.at = IF check.behind = 0 THEN "decide" ELSE "fixes"]
          /\ seen' = [seen EXCEPT !.failed = @ \/ found # RevList(onBranch, onMain)]
    BY <1>8 DEF CountAhead
  <2>2. UNCHANGED <<onMain, onBranch, commits, stalePolicy, action>> /\ check.at = "ahead"
    BY <1>8 DEF CountAhead
  <2>3. PICK n \in Nat : n = Cardinality(found)
    BY <1>1, RevListFacts
  <2>4. check' = [at |-> IF check.behind = 0 THEN "decide" ELSE "fixes",
                  behind |-> check.behind, ahead |-> n, fixes |-> check.fixes]
    BY <1>1, <2>1, <2>3 DEF StaleShape
  <2>5. PICK failed \in BOOLEAN : failed = (seen.failed \/ found # RevList(onBranch, onMain))
    OBVIOUS
  <2>6. seen' = [main |-> seen.main, branch |-> seen.branch, failed |-> failed, moved |-> seen.moved]
    BY <1>1, <2>1, <2>5 DEF StaleShape
  <2>7. StaleShape'
    BY <1>1, <2>2, <2>4, <2>6 DEF StaleShape
  <2>8. /\ seen'.main = seen.main /\ seen'.branch = seen.branch /\ seen'.moved = seen.moved
        /\ ~seen'.failed => ~seen.failed
        /\ check'.behind = check.behind /\ check'.fixes = check.fixes
        /\ check'.at = IF check.behind = 0 THEN "decide" ELSE "fixes"
    BY <2>4, <2>5, <2>6
  <2>. QED
    BY <2>2, <2>7, <2>8 DEF StaleInv, Decided, NoAction
<1>9. CASE LogSubjects
  <2>1. PICK found \in {RevList(onMain, onBranch), {}} :
          /\ check' = [check EXCEPT !.fixes = found, !.at = "decide"]
          /\ seen' = [seen EXCEPT !.failed = @ \/ found # RevList(onMain, onBranch)]
    BY <1>9 DEF LogSubjects
  <2>2. UNCHANGED <<onMain, onBranch, commits, stalePolicy, action>> /\ check.at = "fixes"
    BY <1>9 DEF LogSubjects
  <2>3. check' = [at |-> "decide", behind |-> check.behind, ahead |-> check.ahead, fixes |-> found]
    BY <1>1, <2>1 DEF StaleShape
  <2>4. PICK failed \in BOOLEAN : failed = (seen.failed \/ found # RevList(onMain, onBranch))
    OBVIOUS
  <2>5. seen' = [main |-> seen.main, branch |-> seen.branch, failed |-> failed, moved |-> seen.moved]
    BY <1>1, <2>1, <2>4 DEF StaleShape
  <2>6. found \subseteq Nat
    BY <1>1, RevListFacts
  <2>7. StaleShape'
    BY <1>1, <2>2, <2>3, <2>5, <2>6 DEF StaleShape
  <2>8. /\ seen'.main = seen.main /\ seen'.branch = seen.branch /\ seen'.moved = seen.moved
        /\ ~seen'.failed => ~seen.failed /\ found = onMain \ onBranch
        /\ check'.behind = check.behind /\ check'.fixes = found
    BY <2>3, <2>4, <2>5 DEF RevList
  <2>9. ~seen'.failed /\ ~seen'.moved => seen'.main \ seen'.branch \subseteq check'.fixes
    BY <2>8 DEF StaleInv
  <2>. QED
    BY <2>2, <2>7, <2>8, <2>9 DEF StaleInv, Decided, NoAction
<1>10. CASE ApplyPolicy
  <2>1. check' = [check EXCEPT !.at = "idle"] /\ check.at = "decide"
        /\ UNCHANGED <<onMain, onBranch, commits, stalePolicy, seen>>
    BY <1>10 DEF ApplyPolicy
  <2>2. check' = [at |-> "idle", behind |-> check.behind, ahead |-> check.ahead, fixes |-> check.fixes]
    BY <1>1, <2>1 DEF StaleShape
  <2>3. /\ (Freshness = "fresh") <=> (check.behind = 0)
        /\ (Freshness = "diverged") <=> (check.behind # 0 /\ check.ahead > 0)
    BY DEF Freshness
  <2>4. CASE PolicyActs
    <3>0. DOMAIN KindOf = {"warn_only", "block", "auto_rebase", "auto_merge_forward"}
      BY DEF KindOf
    <3>1. check.behind # 0 /\ stalePolicy \in {"warn_only", "block", "auto_rebase", "auto_merge_forward"}
      BY <2>3, <2>4, <3>0 DEF PolicyActs
    <3>2. PICK lists \in BOOLEAN : lists = Lists
      <4>1. Lists \in BOOLEAN
        BY Zenon DEF Lists
      <4>. QED
        BY <4>1
    <3>3. PICK kind \in {"warn", "block", "rebase", "merge_forward"} : kind = KindOf[stalePolicy]
      BY <3>1 DEF KindOf
    <3>4. action' = [kind |-> kind, lists |-> lists, fixes |-> IF lists THEN check.fixes ELSE {}]
      BY <1>10, <2>4, <3>2, <3>3 DEF ApplyPolicy
    <3>4a. /\ KindOf["warn_only"] = "warn" /\ KindOf["block"] = "block"
           /\ KindOf["auto_rebase"] = "rebase" /\ KindOf["auto_merge_forward"] = "merge_forward"
      BY DEF KindOf
    <3>5. kind = "warn" => lists
      BY <3>1, <3>2, <3>3, <3>4a DEF Lists
    <3>6. kind = "block" => (lists <=> (check.ahead > 0))
      BY <2>3, <3>1, <3>2, <3>3, <3>4a DEF Lists
    <3>7. action' \in [kind : StaleKinds, lists : BOOLEAN, fixes : SUBSET Nat] /\ action' # NoAction
      BY <1>1, <3>4 DEF StaleKinds, StaleShape, NoAction
    <3>8. StaleShape'
      BY <1>1, <2>1, <2>2, <3>7 DEF StaleShape
    <3>9. /\ action'.kind = kind /\ action'.lists = lists /\ action'.fixes = IF lists THEN check.fixes ELSE {}
          /\ check'.behind = check.behind /\ check'.ahead = check.ahead /\ check'.fixes = check.fixes
          /\ check'.at = "idle"
      BY <2>2, <3>4
    <3>. QED
      BY <2>1, <3>1, <3>5, <3>6, <3>7, <3>8, <3>9 DEF StaleInv, Decided
  <2>5. CASE ~PolicyActs
    <3>1. stalePolicy \in DOMAIN KindOf => check.behind = 0
      BY <2>3, <2>5 DEF PolicyActs
    <3>2. action' = [kind |-> "noop", lists |-> FALSE, fixes |-> {}]
      BY <1>10, <2>5 DEF ApplyPolicy, NoAction
    <3>3. StaleShape'
      BY <1>1, <2>1, <2>2, <3>2 DEF StaleShape, StaleKinds
    <3>4. /\ action'.kind = "noop" /\ ~action'.lists /\ action'.fixes = {} /\ action' # NoAction
          /\ check'.behind = check.behind /\ check'.ahead = check.ahead /\ check'.fixes = check.fixes
          /\ check'.at = "idle"
      BY <2>2, <3>2 DEF NoAction
    <3>. QED
      BY <2>1, <3>1, <3>3, <3>4 DEF StaleInv, Decided
  <2>. QED
    BY <2>4, <2>5
<1>11. CASE Carry
  <2>1. /\ action' = NoAction /\ stalePolicy' = stalePolicy /\ check' = NoCheck /\ seen' = NotSeen
        /\ onBranch' = onBranch \cup onMain \/ onBranch' = onBranch
        /\ UNCHANGED <<onMain, commits>>
    BY <1>11 DEF Carry
  <2>2. StaleShape'
    BY <1>1, <2>1 DEF StaleShape, NoCheck, NotSeen, NoAction, StaleKinds
  <2>. QED
    BY <2>1, <2>2 DEF StaleInv, Decided, NoCheck, NotSeen, NoAction
<1>. QED
  BY <1>3, <1>4, <1>5, <1>6, <1>7, <1>8, <1>9, <1>10, <1>11 DEF StaleNext

-----------------------------------------------------------------------------
(* The trust resolver: what was said of a directory has its reason in the  *)
(* lists, which only grow.                                                 *)
TrustInv ==
  /\ TrustTypeOK
  /\ \A d \in Directories :
       /\ resolved[d] = "deny" => \E root \in denied : PathMatches(d, root)
       /\ resolved[d] = "auto_trust" => \E root \in allowlisted : PathMatches(d, root)

LEMMA TrustInvInit == TrustInit => TrustInv
BY DEF TrustInit, TrustInv, TrustTypeOK

(* What Resolve says, by the lists. *)
LEMMA ResolveSays ==
  ASSUME TrustInv, NEW d \in Directories, NEW prompt \in BOOLEAN, Resolve(d, prompt)
  PROVE  /\ \A other \in Directories \ {d} : resolved'[other] = resolved[other]
         /\ resolved'[d] \in TrustPolicy \cup {"not_asked"}
         /\ resolved' \in [Directories -> TrustPolicy \cup {"not_asked"}]
         /\ resolved'[d] = "deny" <=> prompt /\ \E root \in denied : PathMatches(d, root)
         /\ resolved'[d] = "auto_trust" <=> prompt /\ Trusts(d)
<1>1. PICK answer : answer = IF ~prompt THEN "not_asked"
         ELSE IF \E root \in denied : PathMatches(d, root) THEN "deny"
         ELSE IF \E root \in allowlisted : PathMatches(d, root) THEN "auto_trust" ELSE "require_approval"
  OBVIOUS
<1>2. resolved' = [resolved EXCEPT ![d] = answer] /\ UNCHANGED <<allowlisted, denied>>
  BY <1>1 DEF Resolve
<1>3. resolved \in [Directories -> TrustPolicy \cup {"not_asked"}]
  BY DEF TrustInv, TrustTypeOK
<1>4. answer \in TrustPolicy \cup {"not_asked"}
  BY <1>1 DEF TrustPolicy
<1>5. /\ answer = "deny" <=> prompt /\ \E root \in denied : PathMatches(d, root)
      /\ answer = "auto_trust" <=> prompt /\ Trusts(d)
  BY <1>1 DEF Trusts
<1>6. resolved'[d] = answer /\ \A other \in Directories \ {d} : resolved'[other] = resolved[other]
  BY <1>2, <1>3
<1>. QED
  BY <1>2, <1>3, <1>4, <1>5, <1>6

LEMMA TrustInvStep == TrustInv /\ [TrustNext]_trustVars => TrustInv'
<1>. SUFFICES ASSUME TrustInv, [TrustNext]_trustVars PROVE TrustInv'
  OBVIOUS
<1>1. CASE UNCHANGED trustVars
  BY <1>1 DEF trustVars, TrustInv, TrustTypeOK
<1>2. ASSUME NEW d \in Directories, WithAllowlisted(d) \/ WithDenied(d) PROVE TrustInv'
  <2>1. /\ allowlisted \subseteq allowlisted' /\ denied \subseteq denied' /\ resolved' = resolved
        /\ allowlisted' \subseteq allowlisted \cup {d} /\ denied' \subseteq denied \cup {d}
    BY <1>2 DEF WithAllowlisted, WithDenied
  <2>. QED
    BY <2>1 DEF TrustInv, TrustTypeOK
<1>3. ASSUME NEW d \in Directories, NEW prompt \in BOOLEAN, Resolve(d, prompt) PROVE TrustInv'
  <2>1. UNCHANGED <<allowlisted, denied>>
    BY <1>3 DEF Resolve
  <2>2. TrustTypeOK'
    BY <1>3, <2>1, ResolveSays DEF TrustInv, TrustTypeOK
  <2>3. ASSUME NEW other \in Directories
        PROVE  /\ resolved'[other] = "deny" => \E root \in denied : PathMatches(other, root)
               /\ resolved'[other] = "auto_trust" => \E root \in allowlisted : PathMatches(other, root)
    <3>1. CASE other = d
      BY <1>3, <3>1, ResolveSays DEF Trusts
    <3>2. CASE other # d
      BY <1>3, <3>2, ResolveSays DEF TrustInv
    <3>. QED
      BY <3>1, <3>2
  <2>. QED
    BY <2>1, <2>2, <2>3 DEF TrustInv
<1>. QED
  BY <1>1, <1>2, <1>3 DEF TrustNext

(* A root above a directory is above everything below the directory. *)
LEMMA PrefixTransitive ==
  ASSUME NEW S, NEW a \in Seq(S), NEW b \in Seq(S), NEW c \in Seq(S), IsPrefix(a, b), IsPrefix(b, c)
  PROVE  IsPrefix(a, c)
<1>1. Len(a) \in Nat /\ Len(b) \in Nat /\ Len(c) \in Nat
  OBVIOUS
<1>2. /\ Len(a) <= Len(b) /\ \A i \in 1..Len(a) : a[i] = b[i]
      /\ Len(b) <= Len(c) /\ \A i \in 1..Len(b) : b[i] = c[i]
  BY <1>1 DEF IsPrefix
<1>3. Len(a) <= Len(c) /\ \A i \in 1..Len(a) : a[i] = c[i]
  BY <1>1, <1>2
<1>. QED
  BY <1>1, <1>3 DEF IsPrefix

LEMMA MatchesBelow ==
  ASSUME TrustInv, NEW above \in Directories, NEW d \in Directories,
         above # <<>>, IsPrefix(above, d), NEW root \in denied, PathMatches(above, root)
  PROVE  PathMatches(d, root)
<1>1. above \in Seq(STRING) /\ d \in Seq(STRING) /\ root \in Seq(STRING)
  BY TrustAssumption DEF TrustInv, TrustTypeOK
<1>2. CASE above = root
  BY <1>2 DEF PathMatches
<1>3. CASE root # <<>> /\ IsPrefix(root, above)
  BY <1>1, <1>3, PrefixTransitive DEF PathMatches
<1>. QED
  BY <1>2, <1>3 DEF PathMatches

(* The step of DenialsStand. *)
AnswerStands(d) ==
  /\ resolved[d] = "deny" => resolved'[d] = "deny"
  /\ resolved[d] = "auto_trust" => resolved'[d] \in {"auto_trust", "deny"}
  /\ resolved'[d] = "auto_trust" =>
       /\ Trusts(d)
       /\ \A above \in Directories : above # <<>> /\ IsPrefix(above, d) => resolved[above] # "deny"

LEMMA AnswersStandStep ==
  ASSUME TrustInv, [TrustNext]_trustVars, NEW d \in Directories, Asked(d)
  PROVE  AnswerStands(d)
<1>1. PICK prompt \in BOOLEAN : Resolve(d, prompt)
  <2>1. resolved'[d] # resolved[d]
    BY DEF Asked
  <2>2. PICK e \in Directories, prompt \in BOOLEAN : Resolve(e, prompt)
    BY <2>1 DEF TrustNext, trustVars, WithAllowlisted, WithDenied
  <2>3. e = d
    BY <2>1, <2>2, ResolveSays
  <2>. QED
    BY <2>2, <2>3
<1>2. prompt
  BY <1>1 DEF Asked, Resolve, TrustInv, TrustTypeOK
<1>3. resolved[d] = "deny" => resolved'[d] = "deny"
  BY <1>1, <1>2, ResolveSays DEF TrustInv
<1>4. resolved[d] = "auto_trust" => resolved'[d] \in {"auto_trust", "deny"}
  BY <1>1, <1>2, ResolveSays DEF TrustInv, Trusts
<1>5. ASSUME resolved'[d] = "auto_trust"
      PROVE  /\ Trusts(d)
             /\ \A above \in Directories : above # <<>> /\ IsPrefix(above, d) => resolved[above] # "deny"
  <2>1. Trusts(d)
    BY <1>1, <1>5, ResolveSays
  <2>2. ASSUME NEW above \in Directories, above # <<>>, IsPrefix(above, d), resolved[above] = "deny"
        PROVE  FALSE
    <3>1. PICK root \in denied : PathMatches(above, root)
      BY <2>2 DEF TrustInv
    <3>2. PathMatches(d, root)
      BY <2>2, <3>1, MatchesBelow
    <3>. QED
      BY <2>1, <3>1, <3>2 DEF Trusts
  <2>. QED
    BY <2>1, <2>2
<1>. QED
  BY <1>3, <1>4, <1>5 DEF AnswerStands

-----------------------------------------------------------------------------
(* The prompt cache. *)
KeptAnswer == [at : Int, read : Reads]

(* An entry that was read holds what the provider answered, not later than *)
(* its last answer to that prompt; time stands still until it is acted on. *)
EntryStands(l) ==
  /\ l.prompt \in Prompts
  /\ l.entry # NoAnswer => l.entry.at \in Nat /\ l.entry.at <= askedAt[l.prompt]
  /\ l.expired = (l.entry # NoAnswer /\ IsExpired(l.entry))

AnswersStand ==
  \A p \in Prompts : /\ askedAt[p] <= time
                     /\ answers[p] # NoAnswer => answers[p].at \in Nat /\ answers[p].at <= askedAt[p]

(* What was last observed was answered by the provider within the lifetime *)
(* of a kept answer before it was observed.                                *)
ObservationStands ==
  previous # NoState =>
    /\ previous.prompt \in Prompts /\ previous.at <= time
    /\ askedAt[previous.prompt] >= 0
    /\ previous.at - askedAt[previous.prompt] < CompletionTTL

PromptShape ==
  /\ time \in Nat /\ answers \in [Prompts -> KeptAnswer] /\ askedAt \in [Prompts -> Int]
  /\ previous \in [prompt : Prompts \cup {"none"}, read : Reads, at : Nat]
  /\ lookup \in [Callers -> [prompt : Prompts \cup {"none"}, entry : KeptAnswer, expired : BOOLEAN]]
  /\ hit \in Int

PromptInv ==
  /\ PromptShape /\ AnswersStand /\ ObservationStands
  /\ \A g \in Callers : lookup[g] = Idle \/ EntryStands(lookup[g])
  /\ HitsAreFresh

LEMMA PromptInvInit == PromptInit => PromptInv
<1>. SUFFICES ASSUME PromptInit PROVE PromptInv
  OBVIOUS
<1>1. NoAnswer \in KeptAnswer
  BY DEF NoAnswer, KeptAnswer, Reads
<1>2. PromptShape
  BY <1>1 DEF PromptInit, PromptShape, NoState, Idle, Reads
<1>3. AnswersStand /\ ObservationStands
  BY DEF PromptInit, AnswersStand, ObservationStands, NoState
<1>4. HitsAreFresh
  BY PromptAssumption DEF PromptInit, HitsAreFresh
<1>. QED
  BY <1>2, <1>3, <1>4 DEF PromptInv, PromptInit

LEMMA RecordsStand == PromptInv /\ Records => PromptInv'
<1>. SUFFICES ASSUME PromptInv, Records PROVE PromptInv'
  OBVIOUS
<1>1. PICK p \in Prompts, r \in Reads, kept \in BOOLEAN :
        /\ previous' = [prompt |-> p, read |-> r, at |-> time]
        /\ askedAt' = [askedAt EXCEPT ![p] = time]
        /\ answers' = IF kept THEN [answers EXCEPT ![p] = [at |-> time, read |-> r]] ELSE answers
  BY DEF Records
<1>2. hit' = -1 /\ time' = time /\ lookup' = lookup
  BY DEF Records
<1>3. PromptShape /\ AnswersStand
  BY DEF PromptInv
<1>4. time \in Nat /\ [at |-> time, read |-> r] \in KeptAnswer
  BY <1>3 DEF PromptShape, KeptAnswer
<1>5. PromptShape'
  BY <1>1, <1>2, <1>3, <1>4 DEF PromptShape
<1>6. /\ askedAt'[p] = time /\ \A q \in Prompts \ {p} : askedAt'[q] = askedAt[q]
      /\ \A q \in Prompts : answers'[q] = answers[q]
                             \/ (q = p /\ answers'[q] = [at |-> time, read |-> r])
  BY <1>1, <1>3 DEF PromptShape
<1>7. \A q \in Prompts : askedAt[q] \in Int /\ askedAt[q] <= time /\ askedAt[q] <= askedAt'[q]
  BY <1>3, <1>4, <1>6 DEF PromptShape, AnswersStand
<1>8. AnswersStand'
  <2>1. ASSUME NEW q \in Prompts
        PROVE  /\ askedAt'[q] <= time
               /\ answers'[q] # NoAnswer => answers'[q].at \in Nat /\ answers'[q].at <= askedAt'[q]
    <3>1. CASE answers'[q] = answers[q]
      BY <1>3, <1>4, <1>6, <1>7, <3>1 DEF AnswersStand
    <3>2. CASE q = p /\ answers'[q] = [at |-> time, read |-> r]
      BY <1>4, <1>6, <3>2
    <3>. QED
      BY <1>6, <3>1, <3>2
  <2>. QED
    BY <1>2, <2>1 DEF AnswersStand
<1>9. ObservationStands'
  BY <1>1, <1>2, <1>4, <1>6, PromptAssumption DEF ObservationStands
<1>10. \A g \in Callers : lookup'[g] = Idle \/ EntryStands(lookup[g])'
  <2>1. ASSUME NEW g \in Callers, NEW l, l = lookup[g], EntryStands(l) PROVE EntryStands(lookup[g])'
    <3>1. lookup'[g] = l
      BY <1>2, <2>1
    <3>2. l.prompt \in Prompts /\ askedAt[l.prompt] <= askedAt'[l.prompt]
      BY <1>7, <2>1 DEF EntryStands
    <3>3. l.entry # NoAnswer => l.entry.at \in Nat /\ l.entry.at <= askedAt'[l.prompt]
      <4>1. askedAt[l.prompt] \in Int /\ askedAt'[l.prompt] \in Int
        BY <1>5, <1>7, <3>2 DEF PromptShape
      <4>. QED
        BY <2>1, <3>2, <4>1 DEF EntryStands
    <3>4. (l.expired = (l.entry # NoAnswer /\ IsExpired(l.entry)))'
      BY <1>2, <2>1 DEF EntryStands, IsExpired
    <3>. QED
      BY <3>1, <3>2, <3>3, <3>4 DEF EntryStands, IsExpired
  <2>. QED
    BY <1>2, <2>1 DEF PromptInv
<1>11. HitsAreFresh'
  BY <1>2, PromptAssumption DEF HitsAreFresh
<1>. QED
  BY <1>5, <1>8, <1>9, <1>10, <1>11 DEF PromptInv

LEMMA LookUpStands == ASSUME NEW g \in Callers, PromptInv, LookUp(g) PROVE PromptInv'
<1>1. PICK p \in Prompts :
        lookup' = [lookup EXCEPT ![g] = [prompt |-> p, entry |-> answers[p],
                                         expired |-> answers[p] # NoAnswer /\ IsExpired(answers[p])]]
  BY DEF LookUp
<1>2. UNCHANGED <<time, answers, previous, hit, askedAt>>
  BY DEF LookUp
<1>3. PromptShape /\ AnswersStand /\ ObservationStands /\ HitsAreFresh
  BY DEF PromptInv
<1>4. PICK l : l = [prompt |-> p, entry |-> answers[p],
                    expired |-> answers[p] # NoAnswer /\ IsExpired(answers[p])]
  OBVIOUS
<1>5. EntryStands(l) /\ l \in [prompt : Prompts \cup {"none"}, entry : KeptAnswer, expired : BOOLEAN]
  BY <1>3, <1>4 DEF EntryStands, AnswersStand, PromptShape
<1>6. lookup' = [lookup EXCEPT ![g] = l]
  BY <1>1, <1>4
<1>7. PromptShape'
  BY <1>2, <1>3, <1>5, <1>6 DEF PromptShape
<1>8. \A h \in Callers : lookup'[h] = l \/ lookup'[h] = lookup[h]
  BY <1>3, <1>6 DEF PromptShape
<1>9. ASSUME NEW h \in Callers PROVE lookup'[h] = Idle \/ EntryStands(lookup[h])'
  <2>1. ASSUME NEW m, EntryStands(m), lookup'[h] = m PROVE EntryStands(lookup[h])'
    BY <1>2, <2>1 DEF EntryStands, IsExpired
  <2>. QED
    BY <1>5, <1>8, <2>1 DEF PromptInv
<1>10. AnswersStand' /\ ObservationStands' /\ HitsAreFresh'
  BY <1>2, <1>3 DEF AnswersStand, ObservationStands, HitsAreFresh
<1>. QED
  BY <1>7, <1>9, <1>10 DEF PromptInv

LEMMA LookUpEndsStands == ASSUME NEW g \in Callers, PromptInv, LookUpEnds(g) PROVE PromptInv'
<1>1. PICK l : l = lookup[g]
  OBVIOUS
<1>2. PromptShape /\ AnswersStand /\ ObservationStands /\ HitsAreFresh /\ EntryStands(l)
  BY <1>1 DEF PromptInv, LookUpEnds
<1>3. lookup' = [lookup EXCEPT ![g] = Idle] /\ time' = time /\ askedAt' = askedAt
  BY DEF LookUpEnds
<1>4. l \in [prompt : Prompts \cup {"none"}, entry : KeptAnswer, expired : BOOLEAN]
  BY <1>1, <1>2 DEF PromptShape
<1>5. NoAnswer \in KeptAnswer /\ Idle \in [prompt : Prompts \cup {"none"}, entry : KeptAnswer, expired : BOOLEAN]
  BY DEF NoAnswer, KeptAnswer, Reads, Idle
<1>6. \A h \in Callers : lookup'[h] = Idle \/ EntryStands(lookup[h])'
  <2>1. \A h \in Callers : lookup'[h] = Idle \/ lookup'[h] = lookup[h]
    BY <1>2, <1>3 DEF PromptShape
  <2>2. ASSUME NEW h \in Callers, lookup'[h] = lookup[h], EntryStands(lookup[h])
        PROVE  EntryStands(lookup[h])'
    BY <1>3, <2>2 DEF EntryStands, IsExpired
  <2>. QED
    BY <2>1, <2>2 DEF PromptInv
<1>7. lookup' \in [Callers -> [prompt : Prompts \cup {"none"}, entry : KeptAnswer, expired : BOOLEAN]]
  BY <1>2, <1>3, <1>5 DEF PromptShape
<1>8. CASE /\ l.entry = NoAnswer \/ l.expired
           /\ answers' = IF l.expired THEN [answers EXCEPT ![l.prompt] = NoAnswer] ELSE answers
           /\ UNCHANGED <<previous, hit>>
  <2>1. \A q \in Prompts : answers'[q] = NoAnswer \/ answers'[q] = answers[q]
    BY <1>2, <1>8 DEF PromptShape
  <2>2. PromptShape'
    BY <1>2, <1>3, <1>5, <1>7, <1>8 DEF PromptShape
  <2>3. AnswersStand'
    BY <1>2, <1>3, <2>1 DEF AnswersStand
  <2>4. ObservationStands' /\ HitsAreFresh'
    BY <1>2, <1>3, <1>8 DEF ObservationStands, HitsAreFresh
  <2>. QED
    BY <1>6, <2>2, <2>3, <2>4 DEF PromptInv
<1>9. CASE /\ l.entry # NoAnswer /\ ~l.expired
           /\ previous' = Observation(l) /\ hit' = time - l.entry.at /\ UNCHANGED answers
  <2>1. PICK at \in Nat : at = l.entry.at
    BY <1>2, <1>9 DEF EntryStands
  <2>2. ~IsExpired(l.entry) /\ at <= askedAt[l.prompt]
    BY <1>2, <1>9, <2>1 DEF EntryStands
  <2>3. time \in Nat /\ askedAt[l.prompt] \in Int /\ l.prompt \in Prompts /\ l.entry.read \in Reads
    BY <1>2, <1>4 DEF PromptShape, EntryStands, KeptAnswer
  <2>4. time - at < CompletionTTL
    BY <2>1, <2>2, <2>3, PromptAssumption DEF IsExpired
  <2>5. previous' = [prompt |-> l.prompt, read |-> l.entry.read, at |-> time] /\ hit' = time - at
    BY <1>9, <2>1 DEF Observation
  <2>6. PromptShape'
    BY <1>2, <1>3, <1>7, <1>9, <2>3, <2>5 DEF PromptShape
  <2>7. ObservationStands' /\ HitsAreFresh'
    BY <1>3, <2>2, <2>3, <2>4, <2>5, PromptAssumption DEF ObservationStands, HitsAreFresh
  <2>8. AnswersStand'
    BY <1>2, <1>3, <1>9 DEF AnswersStand
  <2>. QED
    BY <1>6, <2>6, <2>7, <2>8 DEF PromptInv
<1>. QED
  BY <1>1, <1>8, <1>9 DEF LookUpEnds

LEMMA PromptInvStep == PromptInv /\ [PromptNext]_promptVars => PromptInv'
<1>. SUFFICES ASSUME PromptInv, [PromptNext]_promptVars PROVE PromptInv'
  OBVIOUS
<1>1. CASE UNCHANGED promptVars
  BY <1>1 DEF promptVars, PromptInv, PromptShape, AnswersStand, ObservationStands, HitsAreFresh,
              EntryStands, IsExpired
<1>2. CASE PromptTick
  <2>1. time' = time + 1 /\ hit' = -1 /\ UNCHANGED <<answers, previous, lookup, askedAt>>
    BY <1>2 DEF PromptTick
  <2>2. PromptShape /\ AnswersStand /\ ObservationStands
    BY DEF PromptInv
  <2>3. time \in Nat
    BY <2>2 DEF PromptShape
  <2>4. PromptShape'
    BY <2>1, <2>2, <2>3 DEF PromptShape
  <2>5. AnswersStand'
    BY <2>1, <2>2, <2>3 DEF AnswersStand, PromptShape
  <2>6. ObservationStands'
    BY <2>1, <2>2, <2>3 DEF ObservationStands, PromptShape
  <2>7. HitsAreFresh'
    BY <2>1, PromptAssumption DEF HitsAreFresh
  <2>8. \A g \in Callers : lookup'[g] = Idle
    BY <1>2, <2>1 DEF PromptTick
  <2>. QED
    BY <2>4, <2>5, <2>6, <2>7, <2>8 DEF PromptInv
<1>3. CASE NewProgram
  <2>1. /\ lookup' = [g \in Callers |-> Idle] /\ hit' = -1
        /\ UNCHANGED <<time, answers, previous, askedAt>>
    BY <1>3 DEF NewProgram
  <2>2. PromptShape /\ AnswersStand /\ ObservationStands
    BY DEF PromptInv
  <2>3. Idle \in [prompt : Prompts \cup {"none"}, entry : KeptAnswer, expired : BOOLEAN]
    BY DEF NoAnswer, KeptAnswer, Reads, Idle
  <2>4. PromptShape'
    BY <2>1, <2>2, <2>3 DEF PromptShape
  <2>5. AnswersStand' /\ ObservationStands' /\ HitsAreFresh'
    BY <2>1, <2>2, PromptAssumption DEF AnswersStand, ObservationStands, HitsAreFresh
  <2>. QED
    BY <2>1, <2>4, <2>5 DEF PromptInv
<1>. QED
  BY <1>1, <1>2, <1>3, RecordsStand, LookUpStands, LookUpEndsStands DEF PromptNext

(* The watch calls a drop unexpected only of the prompt last observed. *)
LEMMA DropsHaveACause ==
  ASSUME PromptInv, [PromptNext]_promptVars, break' = "unexpected", break # "unexpected"
  PROVE  \E p \in Prompts : /\ previous'.prompt = p /\ askedAt[p] >= 0
                            /\ time - askedAt[p] < PromptTTL + CompletionTTL
<1>1. Records
  <2>1. ASSUME NEW g \in Callers PROVE ~LookUp(g) /\ ~LookUpEnds(g)
    BY DEF LookUp, LookUpEnds
  <2>. QED
    BY <2>1 DEF PromptNext, promptVars, PromptTick, NewProgram
<1>2. PICK p \in Prompts, r \in Reads :
        break' = BreakOf(p, r) /\ previous' = [prompt |-> p, read |-> r, at |-> time]
  BY <1>1 DEF Records
<1>3. previous # NoState /\ previous.prompt = p /\ ~(time - previous.at > PromptTTL)
  BY <1>2 DEF BreakOf
<1>4. PICK at \in Nat, asked \in Int : at = previous.at /\ asked = askedAt[p]
  BY DEF PromptInv, PromptShape
<1>5. asked >= 0 /\ at - asked < CompletionTTL /\ time \in Nat
  BY <1>3, <1>4 DEF PromptInv, ObservationStands, PromptShape
<1>6. time - asked < PromptTTL + CompletionTTL
  BY <1>3, <1>4, <1>5, PromptAssumption
<1>. QED
  BY <1>2, <1>4, <1>5, <1>6

-----------------------------------------------------------------------------
(* The registry of models. *)
Dated == [at : Nat, entries : SUBSET Entries]

RegistryShape ==
  /\ clock \in Nat \ {0} /\ disk \in Dated /\ fetched \in Dated
  /\ last \in Nat /\ merged \in Nat
  /\ models \in [Names -> {Unknown, 0, 1, 2}]
  /\ aliases \in [Aliases -> Names \cup {Unset}]

(* What is on disk, fetched and merged has been there; and whenever a      *)
(* refresh was taken for a success, data younger than its lifetime then    *)
(* had been merged.                                                        *)
RegistryInv ==
  /\ RegistryShape
  /\ refresh \in {"none", "load", "fetch", "save", "merge"}
  /\ disk = NoCache \/ disk.at \in 1..clock
  /\ refresh \in {"save", "merge"} => fetched.at = clock
  /\ last <= clock /\ merged <= clock
  /\ last # 0 => merged > 0 /\ last - merged < LiveTTL
  /\ CuratedSurvive

LEMMA RegistryInvInit == RegistryInit => RegistryInv
<1>. SUFFICES ASSUME RegistryInit PROVE RegistryInv
  OBVIOUS
<1>1. NoCache \in Dated
  BY DEF NoCache, Dated
<1>2. RegistryShape
  BY <1>1, RegistryAssumption DEF RegistryInit, RegistryShape, Names, Unknown
<1>3. CuratedSurvive
  BY RegistryAssumption DEF RegistryInit, CuratedSurvive, Names, Unknown
<1>. QED
  BY <1>2, <1>3 DEF RegistryInv, RegistryInit

(* A merge leaves names, aliases and curated limits what they were, and    *)
(* what was merged is not older than before nor than what is merged.       *)
LEMMA MergeSurvives ==
  ASSUME RegistryShape, CuratedSurvive, NEW cache \in Dated, Merge(cache)
  PROVE  /\ models' \in [Names -> {Unknown, 0, 1, 2}]
         /\ aliases' \in [Aliases -> Names \cup {Unset}]
         /\ CuratedSurvive'
         /\ merged' \in {cache.at, merged} /\ merged' >= cache.at /\ merged' >= merged
<1> DEFINE about(n) == {e \in cache.entries : e.name = n}
           calling(a) == {e \in cache.entries : e.alias = a}
           added(a) == {n \in Names : about(n) # {} /\ models[n] = Unknown /\ Lower[n] = a}
           first(n) == CHOOSE e \in about(n) : TRUE
           named(a) == CHOOSE n \in added(a) : TRUE
           called(a) == CHOOSE e \in calling(a) : TRUE
<1>1. /\ models' = [n \in Names |-> IF about(n) = {} THEN models[n] ELSE Window(first(n), models[n])]
      /\ aliases' = [a \in Aliases |-> IF added(a) # {} THEN named(a)
                                     ELSE IF calling(a) = {} THEN aliases[a] ELSE Alias(called(a), aliases[a])]
      /\ merged' = IF cache.at > merged THEN cache.at ELSE merged
  BY DEF Merge
<1>2. cache.entries \subseteq Entries /\ cache.at \in Nat /\ merged \in Nat
  BY DEF Dated, RegistryShape
<1>3. ASSUME NEW n, about(n) # {} PROVE first(n) \in Entries /\ first(n).window \in {0, 2}
  BY <1>2, <1>3 DEF Entries, Windows
<1>4. ASSUME NEW a, calling(a) # {} PROVE called(a) \in cache.entries /\ called(a).name \in Names
  BY <1>2, <1>4 DEF Entries
<1>4a. ASSUME NEW a, added(a) # {} PROVE named(a) \in added(a)
  BY <1>4a
<1> HIDE DEF first, called, named
<1>5. ASSUME NEW n \in Names
      PROVE  /\ models'[n] \in {Unknown, 0, 1, 2}
             /\ models[n] # Unknown => models'[n] # Unknown
             /\ models[n] > 0 => models'[n] > 0
             /\ about(n) # {} => models'[n] # Unknown
  <2>1. models[n] \in {Unknown, 0, 1, 2}
    BY DEF RegistryShape
  <2>2. CASE about(n) = {}
    BY <1>1, <2>1, <2>2
  <2>3. CASE about(n) # {}
    <3>1. models'[n] = Window(first(n), models[n])
      BY <1>1, <2>3
    <3>2. PICK w \in {0, 2} : w = first(n).window
      BY <1>3, <2>3
    <3>3. models'[n] = IF models[n] = Unknown \/ w > 0 THEN w ELSE models[n]
      BY <3>1, <3>2 DEF Window
    <3>. QED
      BY <2>1, <3>2, <3>3 DEF Unknown
  <2>. QED
    BY <2>2, <2>3
<1>6. ASSUME NEW a \in Aliases
      PROVE  /\ aliases'[a] \in Names \cup {Unset}
             /\ \/ aliases'[a] = aliases[a]
                \/ aliases[a] = Unset /\ about(aliases'[a]) # {}
                \/ aliases'[a] \in Upstream /\ Lower[aliases'[a]] = a /\ about(aliases'[a]) # {}
  <2>1. aliases[a] \in Names \cup {Unset}
    BY DEF RegistryShape
  <2>0. CASE added(a) # {}
    <3>1. named(a) \in Names /\ about(named(a)) # {} /\ models[named(a)] = Unknown /\ Lower[named(a)] = a
      BY <1>4a, <2>0
    <3>2. named(a) \notin Curated
      BY <3>1 DEF CuratedSurvive, Unknown
    <3>3. aliases'[a] = named(a)
      BY <1>1, <2>0
    <3>. QED
      BY <3>1, <3>2, <3>3 DEF Names
  <2>2. CASE added(a) = {} /\ calling(a) = {}
    BY <1>1, <2>1, <2>2
  <2>3. CASE added(a) = {} /\ calling(a) # {}
    <3>1. aliases'[a] = IF aliases[a] = Unset THEN called(a).name ELSE aliases[a]
      BY <1>1, <2>3 DEF Alias
    <3>2. called(a) \in about(called(a).name) /\ called(a).name \in Names
      BY <1>4, <2>3
    <3>. QED
      BY <2>1, <3>1, <3>2
  <2>. QED
    BY <2>0, <2>2, <2>3
<1>7. models' \in [Names -> {Unknown, 0, 1, 2}]
  BY <1>1, <1>5
<1>8. aliases' \in [Aliases -> Names \cup {Unset}]
  BY <1>1, <1>6
<1> HIDE DEF about
<1>9. ASSUME NEW a \in Aliases
      PROVE  /\ CuratedAlias[a] # Unset => \/ aliases'[a] = CuratedAlias[a]
                                          \/ (aliases'[a] \in Upstream /\ Lower[aliases'[a]] = a)
             /\ aliases'[a] # Unset => models'[aliases'[a]] # Unknown
  <2>1. CuratedAlias[a] # Unset => \/ aliases'[a] = CuratedAlias[a]
                                   \/ (aliases'[a] \in Upstream /\ Lower[aliases'[a]] = a)
    BY <1>6, RegistryAssumption DEF CuratedSurvive, Names
  <2>2. ASSUME aliases'[a] # Unset PROVE models'[aliases'[a]] # Unknown
    <3>1. aliases'[a] \in Names
      BY <1>6, <2>2
    <3>2. CASE about(aliases'[a]) # {}
      BY <1>5, <3>1, <3>2
    <3>3. CASE aliases'[a] = aliases[a]
      <4>1. models[aliases'[a]] # Unknown
        BY <2>2, <3>3 DEF CuratedSurvive
      <4>. QED
        BY <1>5, <3>1, <4>1
    <3>. QED
      BY <1>6, <3>2, <3>3
  <2>. QED
    BY <2>1, <2>2
<1>10. CuratedSurvive'
  <2>1. \A n \in Curated : models'[n] > 0
    BY <1>5 DEF CuratedSurvive, Names
  <2>. QED
    BY <1>9, <2>1 DEF CuratedSurvive
<1>11. merged' \in {cache.at, merged} /\ merged' >= cache.at /\ merged' >= merged
  BY <1>1, <1>2
<1>. QED
  BY <1>7, <1>8, <1>10, <1>11

(* What is newer than young data is young. *)
LEMMA Younger ==
  ASSUME NEW now \in Nat, NEW old \in Nat \ {0}, NEW new \in Nat, NEW ttl \in Nat,
         now - old < ttl, new >= old
  PROVE  new > 0 /\ now - new < ttl
OBVIOUS

(* A refresh that ends with data younger than its lifetime merged. *)
LEMMA RefreshEnds ==
  ASSUME RegistryInv, NEW cache \in Dated, cache.at \in 1..clock, Merge(cache),
         UNCHANGED clock, disk' \in Dated, fetched' \in Dated,
         disk' = NoCache \/ disk'.at \in 1..clock,
         refresh' \in {"none", "fetch"},
         last' = last \/ (last' = clock /\ clock - cache.at < LiveTTL)
  PROVE  RegistryInv'
<1>1. RegistryShape /\ CuratedSurvive /\ clock \in Nat \ {0} /\ last \in Nat /\ merged \in Nat
  BY DEF RegistryInv, RegistryShape
<1>2. /\ models' \in [Names -> {Unknown, 0, 1, 2}]
      /\ aliases' \in [Aliases -> Names \cup {Unset}]
      /\ CuratedSurvive'
      /\ merged' \in {cache.at, merged} /\ merged' >= cache.at /\ merged' >= merged
  BY <1>1, MergeSurvives
<1>3. PICK at \in 1..clock : at = cache.at
  OBVIOUS
<1>4. merged' \in Nat /\ merged' <= clock
  BY <1>1, <1>2, <1>3 DEF RegistryInv
<1>5. last' \in Nat /\ last' <= clock
  BY <1>1 DEF RegistryInv
<1>6. RegistryShape'
  BY <1>1, <1>2, <1>4, <1>5 DEF RegistryShape
<1>7. last' # 0 => merged' > 0 /\ last' - merged' < LiveTTL
  <2>1. PICK ttl \in Nat \ {0}, new \in Nat : ttl = LiveTTL /\ new = merged'
    BY <1>4, RegistryAssumption
  <2>2. new >= at /\ new >= merged /\ at >= 1
    BY <1>1, <1>2, <1>3, <2>1
  <2>3. CASE last' = last
    <3>1. last # 0 => merged > 0 /\ last - merged < ttl
      BY <2>1 DEF RegistryInv
    <3>2. last # 0 => new > 0 /\ last - new < ttl
      BY <1>1, <2>2, <3>1, Younger
    <3>. QED
      BY <2>1, <2>3, <3>2
  <2>4. CASE last' = clock /\ clock - cache.at < LiveTTL
    <3>1. clock - at < ttl
      BY <1>3, <2>1, <2>4
    <3>2. new > 0 /\ clock - new < ttl
      BY <1>1, <2>2, <3>1, Younger
    <3>. QED
      BY <2>1, <2>4, <3>2
  <2>. QED
    BY <2>3, <2>4
<1>. QED
  BY <1>2, <1>4, <1>5, <1>6, <1>7 DEF RegistryInv

LEMMA RegistryInvStep == RegistryInv /\ [RegistryNext]_registryVars => RegistryInv'
<1>. SUFFICES ASSUME RegistryInv, [RegistryNext]_registryVars PROVE RegistryInv'
  OBVIOUS
<1>1. RegistryShape /\ clock \in Nat \ {0} /\ last \in Nat /\ merged \in Nat /\ disk \in Dated /\ fetched \in Dated
  BY DEF RegistryInv, RegistryShape
<1>2. ASSUME NEW s \in Fetchable PROVE [at |-> clock, entries |-> s] \in Dated
  BY <1>1 DEF Fetchable, Dated
<1>3. CASE UNCHANGED registryVars
  BY <1>3 DEF registryVars, RegistryInv, RegistryShape, CuratedSurvive
<1>4. CASE Tick
  BY <1>1, <1>4 DEF Tick, RegistryInv, RegistryShape, CuratedSurvive
<1>5. CASE OtherProgramSaves
  BY <1>1, <1>2, <1>5 DEF OtherProgramSaves, RegistryInv, RegistryShape, CuratedSurvive
<1>6. CASE UseRegistry
  BY <1>6 DEF UseRegistry, RegistryInv, RegistryShape, CuratedSurvive
<1>7. CASE LoadsCache
  <2>1. CASE disk = NoCache
    BY <1>7, <2>1 DEF LoadsCache, RegistryInv, RegistryShape, CuratedSurvive
  <2>2. CASE disk # NoCache
    <3>1. disk.at \in 1..clock /\ Merge(disk) /\ UNCHANGED <<clock, disk, fetched>>
      BY <1>7, <2>2 DEF LoadsCache, RegistryInv
    <3>2. CASE clock - disk.at < LiveTTL
      <4>1. refresh' = "none" /\ last' = clock
        BY <1>7, <2>2, <3>2 DEF LoadsCache, Ends
      <4>. QED
        BY <1>1, <3>1, <3>2, <4>1, RefreshEnds
    <3>3. CASE ~(clock - disk.at < LiveTTL)
      <4>1. refresh' = "fetch" /\ last' = last
        BY <1>7, <3>3 DEF LoadsCache
      <4>. QED
        BY <1>1, <3>1, <4>1, RefreshEnds
    <3>. QED
      BY <3>2, <3>3
  <2>. QED
    BY <2>1, <2>2
<1>8. CASE Fetches
  <2>1. UNCHANGED <<clock, disk, models, aliases, merged>>
    BY <1>8 DEF Fetches
  <2>2. ASSUME NEW s \in Fetchable, fetched' = [at |-> clock, entries |-> s],
               refresh' = "save", last' = last
        PROVE  RegistryInv'
    BY <1>1, <1>2, <2>1, <2>2 DEF RegistryInv, RegistryShape, CuratedSurvive
  <2>3. CASE Ends(OnFailure) /\ UNCHANGED fetched
    BY <1>1, <2>1, <2>3 DEF Ends, OnFailure, RegistryInv, RegistryShape, CuratedSurvive
  <2>. QED
    BY <1>8, <2>2, <2>3 DEF Fetches
<1>9. CASE Saves
  <2>1. /\ refresh' = "merge" /\ fetched.at = clock
        /\ disk' = fetched \/ disk' = disk
        /\ UNCHANGED <<clock, fetched, last, models, aliases, merged>>
    BY <1>9 DEF Saves, RegistryInv
  <2>. QED
    BY <1>1, <2>1 DEF RegistryInv, RegistryShape, CuratedSurvive
<1>10. CASE MergesFetched
  <2>1. /\ fetched.at = clock /\ Merge(fetched) /\ UNCHANGED <<clock, disk>>
        /\ fetched' = NoCache /\ refresh' = "none" /\ last' = clock
    BY <1>10 DEF MergesFetched, Ends, RegistryInv
  <2>2. fetched.at \in 1..clock /\ clock - fetched.at < LiveTTL
    BY <1>1, <2>1, RegistryAssumption
  <2>3. NoCache \in Dated
    BY DEF NoCache, Dated
  <2>4. disk = NoCache \/ disk.at \in 1..clock
    BY DEF RegistryInv
  <2>. QED
    BY <1>1, <2>1, <2>2, <2>3, <2>4, RefreshEnds
<1>. QED
  BY <1>3, <1>4, <1>5, <1>6, <1>7, <1>8, <1>9, <1>10 DEF RegistryNext

LEMMA RegistryIsRecent == RegistryInv => DataIsRecent /\ CuratedSurvive
<1>. SUFFICES ASSUME RegistryInv, refresh = "none", ~Due
              PROVE  merged > 0 /\ clock - merged < 2 * LiveTTL
  BY DEF RegistryInv, DataIsRecent
<1>1. clock \in Nat /\ last \in Nat /\ merged \in Nat
  BY DEF RegistryInv, RegistryShape
<1>2. last # 0 /\ clock - last < LiveTTL
  BY <1>1, RegistryAssumption DEF Due
<1>. QED
  BY <1>1, <1>2, RegistryAssumption DEF RegistryInv

-----------------------------------------------------------------------------
(* What is counted has a least one.                                         *)
LEMMA LeastOf ==
  ASSUME NEW T \in SUBSET Nat, T # {}
  PROVE  \E n \in T : \A m \in T : n <= m
<1>1. IsWellFoundedOn({p \in Nat \X Nat : p[1] < p[2]}, Nat)
  BY NatLessThanWellFounded, Zenon DEF OpToRel
<1>2. PICK W : W = {p \in Nat \X Nat : p[1] < p[2]}
  OBVIOUS
<1>3. \E x \in T : \A y \in T : ~(<<y, x>> \in W)
  BY <1>1, <1>2, WFMin
<1>4. \A x, y \in Nat : y < x => <<y, x>> \in W
  BY <1>2
<1>5. PICK x \in T : \A y \in T : ~(<<y, x>> \in W)
  BY <1>3
<1>6. \A y \in T : x <= y
  <2> TAKE y \in T
  <2>1. x \in Nat /\ y \in Nat
    OBVIOUS
  <2>2. ~(y < x)
    BY <1>4, <1>5, <2>1
  <2> QED
    BY <2>1, <2>2
<1> QED
  BY <1>6

(* Induction up to a number.                                                *)
LEMMA UpTo ==
  ASSUME NEW n \in Nat, NEW Good, 0 \in Good, \A k \in 1..n : k - 1 \in Good => k \in Good
  PROVE  \A k \in 0..n : k \in Good
<1>1. PICK T : T = {k \in 0..n : k \notin Good}
  OBVIOUS
<1>2. SUFFICES ASSUME T # {} PROVE FALSE
  BY <1>1
<1>3. T \in SUBSET Nat
  BY <1>1
<1>4. PICK k \in T : \A l \in T : k <= l
  BY <1>2, <1>3, LeastOf
<1>5. k \in 0..n /\ k \notin Good
  BY <1>1
<1>6. k \in 1..n
  BY <1>5
<1>7. k - 1 \in 0..n /\ ~(k <= k - 1)
  BY <1>6
<1>8. k - 1 \notin T
  BY <1>4, <1>7
<1>9. k - 1 \in Good
  BY <1>1, <1>7, <1>8
<1> QED
  BY <1>5, <1>6, <1>9

(* What is defined step by step from a start exists, and is what its steps  *)
(* say.                                                                     *)
Stepwise(n, S, a, F) == n \in Nat /\ a \in S /\ F \in [(1..n) \X S -> S]

Steps(f, n, S, a, F) == f \in [0..n -> S] /\ f[0] = a /\ \A k \in 1..n : f[k] = F[<<k, f[k - 1]>>]

LEMMA StepsExist ==
  ASSUME NEW n, NEW S, NEW a, NEW F, Stepwise(n, S, a, F)
  PROVE  \E f : Steps(f, n, S, a, F)
<1>0. n \in Nat /\ a \in S /\ F \in [(1..n) \X S -> S]
  BY DEF Stepwise
<1> DEFINE Upto(m) == \E f \in [0..m -> S] : f[0] = a /\ \A k \in 1..m : f[k] = F[<<k, f[k - 1]>>]
<1>1. PICK Good : Good = {m \in 0..n : Upto(m)}
  OBVIOUS
<1>2. Upto(0)
  <2>1. PICK f : f = [k \in 0..0 |-> a]
    OBVIOUS
  <2>2. f \in [0..0 -> S] /\ f[0] = a /\ \A k \in 1..0 : f[k] = F[<<k, f[k - 1]>>]
    BY <1>0, <2>1
  <2> QED
    BY <2>2
<1>3. ASSUME NEW m \in 1..n, Upto(m - 1) PROVE Upto(m)
  <2>1. PICK g \in [0..(m - 1) -> S] : g[0] = a /\ \A k \in 1..(m - 1) : g[k] = F[<<k, g[k - 1]>>]
    BY <1>3
  <2>2. m - 1 \in 0..(m - 1) /\ m \in 1..n /\ m \in Nat
    BY <1>0
  <2>3. g[m - 1] \in S
    BY <2>2
  <2>4. PICK next \in S : next = F[<<m, g[m - 1]>>]
    BY <1>0, <2>2, <2>3
  <2>5. PICK f : f = [k \in 0..m |-> IF k < m THEN g[k] ELSE next]
    OBVIOUS
  <2>6. \A k \in 0..m : k < m => k \in 0..(m - 1)
    BY <2>2
  <2>7. f \in [0..m -> S]
    BY <2>5, <2>6
  <2>8. f[0] = a
    BY <1>0, <2>1, <2>5
  <2>9. ASSUME NEW k \in 1..m PROVE f[k] = F[<<k, f[k - 1]>>]
    <3>1. k - 1 \in 0..m /\ k - 1 < m /\ k \in 0..m
      BY <2>2
    <3>2. f[k - 1] = g[k - 1]
      BY <2>5, <3>1
    <3>3. CASE k < m
      <4>1. k \in 1..(m - 1)
        BY <2>2, <3>3
      <4>2. f[k] = g[k]
        BY <2>5, <3>1, <3>3
      <4> QED
        BY <2>1, <3>2, <4>1, <4>2
    <3>4. CASE k = m
      <4>1. f[m] = next
        BY <2>5, <3>1, <3>4
      <4> QED
        BY <2>4, <3>2, <3>4, <4>1
    <3> QED
      BY <2>2, <3>3, <3>4
  <2> QED
    BY <2>7, <2>8, <2>9
<1> HIDE DEF Upto
<1>4. 0 \in Good /\ \A m \in 1..n : m - 1 \in Good => m \in Good
  BY <1>0, <1>1, <1>2, <1>3
<1>5. n \in 0..n
  BY <1>0
<1>6. n \in Good
  BY <1>0, <1>4, <1>5, UpTo
<1>7. Upto(n)
  BY <1>1, <1>6
<1>8. PICK f \in [0..n -> S] : f[0] = a /\ \A k \in 1..n : f[k] = F[<<k, f[k - 1]>>]
  BY <1>7 DEF Upto
<1>9. Steps(f, n, S, a, F)
  BY <1>8 DEF Steps
<1> QED
  BY <1>9

LEMMA StepsAre ==
  ASSUME NEW n, NEW S, NEW a, NEW F, Stepwise(n, S, a, F), NEW f, f = CHOOSE g : g = [k \in 0..n |-> IF k = 0 THEN a ELSE F[<<k, g[k - 1]>>]]
  PROVE  Steps(f, n, S, a, F)
<1>0. n \in Nat /\ a \in S /\ F \in [(1..n) \X S -> S]
  BY DEF Stepwise
<1>1. PICK e \in [0..n -> S] : e[0] = a /\ \A k \in 1..n : e[k] = F[<<k, e[k - 1]>>]
  BY StepsExist DEF Steps
<1>2. \A k \in 0..n : k # 0 => k \in 1..n
  BY <1>0
<1>3. e = [k \in 0..n |-> IF k = 0 THEN a ELSE F[<<k, e[k - 1]>>]]
  BY <1>1, <1>2
<1>4. f = [k \in 0..n |-> IF k = 0 THEN a ELSE F[<<k, f[k - 1]>>]]
  BY <1>3, Zenon
<1>5. 0 \in 0..n /\ \A k \in 1..n : k \in 0..n /\ k # 0 /\ k - 1 \in 0..n
  BY <1>0
<1>6. f[0] = a /\ \A k \in 1..n : f[k] = F[<<k, f[k - 1]>>]
  BY <1>4, <1>5
<1>7. PICK Good : Good = {k \in 0..n : f[k] \in S}
  OBVIOUS
<1>8. 0 \in Good
  BY <1>0, <1>5, <1>6, <1>7
<1>9. ASSUME NEW k \in 1..n, k - 1 \in Good PROVE k \in Good
  <2>1. f[k - 1] \in S
    BY <1>7, <1>9
  <2>2. f[k] = F[<<k, f[k - 1]>>]
    BY <1>6
  <2>3. F[<<k, f[k - 1]>>] \in S
    BY <1>0, <2>1
  <2> QED
    BY <1>5, <1>7, <2>2, <2>3
<1>10. \A k \in 0..n : k \in Good
  BY <1>0, <1>8, <1>9, UpTo
<1>11. \A k \in 0..n : f[k] \in S
  BY <1>7, <1>10
<1> QED
  BY <1>4, <1>6, <1>11 DEF Steps

(* Induction on the length of a sequence.                                   *)
LEMMA BySuffix ==
  ASSUME NEW S, NEW Good, <<>> \in Good,
         \A s \in Seq(S), x \in S : s \in Good => Append(s, x) \in Good
  PROVE  \A s \in Seq(S) : s \in Good
<1>1. SUFFICES ASSUME NEW bad \in Seq(S), bad \notin Good PROVE FALSE
  OBVIOUS
<1>2. PICK T : T = {n \in Nat : \E s \in Seq(S) : Len(s) = n /\ s \notin Good}
  OBVIOUS
<1>3. Len(bad) \in T /\ T \in SUBSET Nat
  BY <1>1, <1>2
<1>4. PICK n \in T : \A m \in T : n <= m
  BY <1>3, LeastOf
<1>5. PICK s \in Seq(S) : Len(s) = n /\ s \notin Good
  BY <1>2
<1>6. n \in Nat /\ n # 0
  BY <1>2, <1>5
<1>7. PICK front : front = SubSeq(s, 1, n - 1)
  OBVIOUS
<1>8. front \in Seq(S) /\ Len(front) = n - 1 /\ s[n] \in S
  BY <1>5, <1>6, <1>7
<1>9. s = Append(front, s[n])
  BY <1>5, <1>6, <1>7, <1>8
<1>10. n - 1 \in Nat /\ ~(n <= n - 1)
  BY <1>6
<1>11. front \in Good
  BY <1>2, <1>4, <1>8, <1>10
<1> QED
  BY <1>5, <1>8, <1>9, <1>11

Behind(s, t, x) == Append(s \o t, x) = s \o Append(t, x)

LEMMA AppendBehind ==
  ASSUME NEW S, NEW s \in Seq(S), NEW t \in Seq(S), NEW x \in S
  PROVE  Behind(s, t, x)
BY DEF Behind

(* FlattenSeq step by step. *)
LEMMA FlattenIs ==
  ASSUME NEW S, NEW seqs \in Seq(Seq(S)), Len(seqs) # 0
  PROVE  \E f \in [1..Len(seqs) -> Seq(S)] :
           /\ f[1] = seqs[1] /\ \A k \in 2..Len(seqs) : f[k] = f[k - 1] \o seqs[k]
           /\ FlattenSeq(seqs) = f[Len(seqs)]
<1>1. PICK n \in Nat : n = Len(seqs)
  OBVIOUS
<1>2. n # 0 /\ \A k \in 1..n : seqs[k] \in Seq(S)
  BY <1>1
<1>3. PICK F : F = [p \in (1..n) \X Seq(S) |-> p[2] \o seqs[p[1]]]
  OBVIOUS
<1>4. PICK none : none = <<>>
  OBVIOUS
<1>5. Stepwise(n, Seq(S), none, F)
  <2>1. none \in Seq(S)
    BY <1>4
  <2>2. ASSUME NEW p \in (1..n) \X Seq(S) PROVE p[2] \o seqs[p[1]] \in Seq(S)
    <3>1. p[2] \in Seq(S) /\ seqs[p[1]] \in Seq(S)
      BY <1>2
    <3> QED
      BY <3>1
  <2>3. F \in [(1..n) \X Seq(S) -> Seq(S)]
    BY <1>3, <2>2
  <2> QED
    BY <2>1, <2>3 DEF Stepwise
<1>6. PICK e \in [0..n -> Seq(S)] : e[0] = none /\ \A k \in 1..n : e[k] = F[<<k, e[k - 1]>>]
  <2>1. PICK T : T = Seq(S)
    OBVIOUS
  <2>2. Stepwise(n, T, none, F)
    BY <1>5, <2>1
  <2>3. PICK e : Steps(e, n, T, none, F)
    BY <2>2, StepsExist
  <2> QED
    BY <2>1, <2>3 DEF Steps
<1>7. ASSUME NEW k \in 1..n PROVE e[k] = e[k - 1] \o seqs[k]
  <2>1. k - 1 \in 0..n /\ e[k] = F[<<k, e[k - 1]>>]
    BY <1>6
  <2>2. <<k, e[k - 1]>> \in (1..n) \X Seq(S)
    BY <1>6, <2>1
  <2> QED
    BY <1>3, <2>1, <2>2
<1>8. e[1] = seqs[1]
  <2>1. 1 \in 1..n /\ 1 - 1 = 0
    BY <1>2
  <2>2. e[1] = none \o seqs[1] /\ seqs[1] \in Seq(S)
    BY <1>2, <1>6, <1>7, <2>1
  <2> QED
    BY <1>4, <2>2
<1>9. PICK f : f = [k \in 1..n |-> e[k]]
  OBVIOUS
<1>10. f = [i \in 1..n |-> IF i = 1 THEN seqs[i] ELSE f[i - 1] \o seqs[i]]
  <2>1. ASSUME NEW k \in 1..n PROVE e[k] = IF k = 1 THEN seqs[k] ELSE f[k - 1] \o seqs[k]
    <3>1. CASE k = 1
      BY <1>8, <3>1
    <3>2. CASE k # 1
      <4>1. k - 1 \in 1..n
        BY <3>2
      <4>2. f[k - 1] = e[k - 1]
        BY <1>9, <4>1
      <4> QED
        BY <1>7, <3>2, <4>2
    <3> QED
      BY <3>1, <3>2
  <2> QED
    BY <1>9, <2>1
<1>11. PICK g : g = CHOOSE h : h = [i \in 1..n |-> IF i = 1 THEN seqs[i] ELSE h[i - 1] \o seqs[i]]
  OBVIOUS
<1>12. g = [i \in 1..n |-> IF i = 1 THEN seqs[i] ELSE g[i - 1] \o seqs[i]]
  BY <1>10, <1>11, Zenon
<1>13. FlattenSeq(seqs) = g[n]
  BY <1>1, <1>2, <1>11 DEF FlattenSeq
<1>14. 1 \in 1..n /\ \A k \in 2..n : k \in 1..n /\ k # 1 /\ k - 1 \in 1..n
  BY <1>2
<1>15. g[1] = seqs[1] /\ \A k \in 2..n : g[k] = g[k - 1] \o seqs[k]
  BY <1>12, <1>14
<1>16. PICK Good : Good = {k \in 0..n : k = 0 \/ g[k] \in Seq(S)}
  OBVIOUS
<1>17. 0 \in Good
  BY <1>16
<1>18. ASSUME NEW k \in 1..n, k - 1 \in Good PROVE k \in Good
  <2>1. CASE k = 1
    BY <1>2, <1>14, <1>15, <1>16, <2>1
  <2>2. CASE k # 1
    <3>1. k \in 2..n /\ k - 1 # 0
      BY <2>2
    <3>2. g[k - 1] \in Seq(S) /\ seqs[k] \in Seq(S)
      BY <1>2, <1>16, <1>18, <3>1
    <3>3. g[k] = g[k - 1] \o seqs[k]
      BY <1>15, <3>1
    <3>4. g[k] \in Seq(S)
      BY <3>2, <3>3
    <3>5. k \in 0..n
      OBVIOUS
    <3> QED
      BY <1>16, <3>4, <3>5
  <2> QED
    BY <2>1, <2>2
<1>19. \A k \in 0..n : k \in Good
  BY <1>17, <1>18, UpTo
<1>20. \A k \in 1..n : k \in 0..n /\ k # 0
  OBVIOUS
<1>21. \A k \in 1..n : g[k] \in Seq(S)
  BY <1>16, <1>19, <1>20
<1>22. g \in [1..n -> Seq(S)]
  BY <1>12, <1>21
<1> QED
  BY <1>1, <1>13, <1>15, <1>22

LEMMA FlattenNothing == FlattenSeq(<<>>) = <<>>
BY DEF FlattenSeq

LEMMA FlattenType ==
  ASSUME NEW S, NEW seqs \in Seq(Seq(S))
  PROVE  FlattenSeq(seqs) \in Seq(S)
<1>1. CASE Len(seqs) = 0
  BY <1>1 DEF FlattenSeq
<1>2. CASE Len(seqs) # 0
  <2>1. PICK f \in [1..Len(seqs) -> Seq(S)] : FlattenSeq(seqs) = f[Len(seqs)]
    BY <1>2, FlattenIs
  <2>2. Len(seqs) \in 1..Len(seqs)
    BY <1>2
  <2> QED
    BY <2>1, <2>2
<1> QED
  BY <1>1, <1>2

LEMMA FlattenAppend ==
  ASSUME NEW S, NEW seqs \in Seq(Seq(S)), NEW more \in Seq(S)
  PROVE  FlattenSeq(Append(seqs, more)) = FlattenSeq(seqs) \o more
<1>1. PICK n \in Nat : n = Len(seqs)
  OBVIOUS
<1>2. PICK all \in Seq(Seq(S)) : all = Append(seqs, more)
  <2>1. PICK T : T = Seq(S)
    OBVIOUS
  <2>2. seqs \in Seq(T) /\ more \in T
    BY <2>1
  <2>3. Append(seqs, more) \in Seq(T)
    BY <2>2
  <2> QED
    BY <2>1, <2>3
<1>3. Len(all) = n + 1 /\ Len(all) # 0 /\ all[n + 1] = more /\ \A k \in 1..n : all[k] = seqs[k]
  BY <1>1, <1>2
<1>4. PICK f \in [1..Len(all) -> Seq(S)] :
           /\ f[1] = all[1] /\ \A k \in 2..Len(all) : f[k] = f[k - 1] \o all[k]
           /\ FlattenSeq(all) = f[Len(all)]
  BY <1>3, FlattenIs
<1>5. f \in [1..(n + 1) -> Seq(S)] /\ FlattenSeq(all) = f[n + 1]
      /\ \A k \in 2..(n + 1) : f[k] = f[k - 1] \o all[k]
  BY <1>3, <1>4
<1>6. CASE n = 0
  <2>1. FlattenSeq(all) = more
    BY <1>3, <1>4, <1>5, <1>6
  <2>2. seqs = <<>>
    BY <1>1, <1>6, EmptySeq
  <2>3. <<>> \o more = more
    OBVIOUS
  <2> QED
    BY <1>2, <2>1, <2>2, <2>3, FlattenNothing
<1>7. CASE n # 0
  <2>1. PICK g \in [1..n -> Seq(S)] :
           /\ g[1] = seqs[1] /\ \A k \in 2..n : g[k] = g[k - 1] \o seqs[k]
           /\ FlattenSeq(seqs) = g[n]
    BY <1>1, <1>7, FlattenIs
  <2>2. PICK Good : Good = {k \in 0..n : k = 0 \/ f[k] = g[k]}
    OBVIOUS
  <2>3. 0 \in Good
    BY <2>2
  <2>4. ASSUME NEW k \in 1..n, k - 1 \in Good PROVE k \in Good
    <3>1. CASE k = 1
      BY <1>3, <1>4, <2>1, <2>2, <3>1
    <3>2. CASE k # 1
      <4>1. k \in 2..n /\ k \in 2..(n + 1) /\ k - 1 # 0
        BY <3>2
      <4>2. f[k - 1] = g[k - 1] /\ all[k] = seqs[k]
        BY <1>3, <2>2, <2>4, <4>1
      <4>3. f[k] = g[k]
        BY <1>5, <2>1, <4>1, <4>2
      <4>4. k \in 0..n
        OBVIOUS
      <4> QED
        BY <2>2, <4>3, <4>4
    <3> QED
      BY <3>1, <3>2
  <2>5. \A k \in 1..n : k - 1 \in Good => k \in Good
    BY <2>4
  <2>6. \A k \in 0..n : k \in Good
    BY <2>3, <2>5, UpTo
  <2>7. n \in 0..n
    OBVIOUS
  <2>8. f[n] = g[n]
    BY <1>7, <2>2, <2>6, <2>7
  <2>9. PICK j \in Nat : j = n + 1
    OBVIOUS
  <2>12. j \in 2..(n + 1) /\ j - 1 = n
    BY <1>7, <2>9
  <2>10. f[j] = f[n] \o all[j]
    BY <1>5, <2>12
  <2>11. f[n + 1] = f[n] \o more
    BY <1>3, <2>9, <2>10
  <2> QED
    BY <1>2, <1>5, <2>1, <2>8, <2>11
<1> QED
  BY <1>6, <1>7

(* An element joins last, and three sequences join in either order. *)
LEMMA JoinLast ==
  ASSUME NEW S, NEW s \in Seq(S), NEW t \in Seq(S), NEW x \in S
  PROVE  s \o Append(t, x) = Append(s \o t, x) /\ Append(t, x) \in Seq(S) /\ s \o t \in Seq(S)
  OBVIOUS

Joins(s, t, u) == (s \o t) \o u = s \o (t \o u)
LEMMA JoinThree ==
  ASSUME NEW S, NEW s \in Seq(S), NEW t \in Seq(S), NEW u \in Seq(S)
  PROVE  Joins(s, t, u)
  BY ConcatAssociative DEF Joins

LEMMA FlattenBoth ==
  ASSUME NEW S, NEW s \in Seq(Seq(S)), NEW t \in Seq(Seq(S))
  PROVE  FlattenSeq(s \o t) = FlattenSeq(s) \o FlattenSeq(t)
<1>1. PICK Good : Good = {u \in Seq(Seq(S)) : FlattenSeq(s \o u) = FlattenSeq(s) \o FlattenSeq(u)}
  OBVIOUS
<1>2. <<>> \in Good
  <2>1. s \o <<>> = s
    OBVIOUS
  <2>2. FlattenSeq(s) \in Seq(S)
    BY FlattenType
  <2>3. FlattenSeq(s) \o <<>> = FlattenSeq(s)
    BY <2>2
  <2>4. PICK T : T = Seq(S)
    OBVIOUS
  <2>5. <<>> \in Seq(T)
    OBVIOUS
  <2> QED
    BY <1>1, <2>1, <2>3, <2>4, <2>5, FlattenNothing
<1>3. ASSUME NEW u \in Seq(Seq(S)), NEW x \in Seq(S), u \in Good PROVE Append(u, x) \in Good
  <2>1. PICK a \in Seq(S) : a = FlattenSeq(s)
    BY FlattenType
  <2>2. PICK b \in Seq(S) : b = FlattenSeq(u)
    BY FlattenType
  <2>0. PICK T : T = Seq(S)
    OBVIOUS
  <2>3. s \o Append(u, x) = Append(s \o u, x) /\ Append(u, x) \in Seq(T) /\ s \o u \in Seq(T)
    <3>1. s \in Seq(T) /\ u \in Seq(T) /\ x \in T
      BY <2>0
    <3> QED
      BY <3>1, JoinLast
  <2>4. s \o u \in Seq(Seq(S))
    BY <2>0, <2>3
  <2>5. FlattenSeq(Append(s \o u, x)) = FlattenSeq(s \o u) \o x
    BY <2>4, FlattenAppend
  <2>6. FlattenSeq(Append(u, x)) = b \o x
    BY <2>2, FlattenAppend
  <2>7. FlattenSeq(s \o u) = a \o b
    BY <1>1, <1>3, <2>1, <2>2
  <2>8. Joins(a, b, x)
    BY JoinThree, Zenon
  <2>9. FlattenSeq(s \o Append(u, x)) = FlattenSeq(s) \o FlattenSeq(Append(u, x))
    BY <2>1, <2>3, <2>5, <2>6, <2>7, <2>8 DEF Joins
  <2>10. Append(u, x) \in Seq(Seq(S))
    BY <2>0, <2>3
  <2> QED
    BY <1>1, <2>9, <2>10
<1>4. \A u \in Seq(Seq(S)) : u \in Good
  BY <1>2, <1>3, BySuffix
<1> QED
  BY <1>1, <1>4

-----------------------------------------------------------------------------
(* The frames of an event stream: where a delimiter stands, what one step  *)
(* of the parser takes, and that a cut of the body changes neither.        *)
LEMMA DelimiterIs ==
  ASSUME NEW buf \in Seq(Bytes), NEW i \in 1..Len(buf)
  PROVE  /\ DelimiterAt(buf, i) \in {0, 2, 3, 4}
         /\ DelimiterAt(buf, i) = 2 <=> i + 1 <= Len(buf) /\ buf[i] = "LF" /\ buf[i + 1] = "LF"
         /\ DelimiterAt(buf, i) = 3 <=> /\ i + 2 <= Len(buf) /\ buf[i] = "LF"
                                        /\ buf[i + 1] = "CR" /\ buf[i + 2] = "LF"
         /\ DelimiterAt(buf, i) = 4 <=> /\ i + 3 <= Len(buf) /\ buf[i] = "CR" /\ buf[i + 1] = "LF"
                                        /\ buf[i + 2] = "CR" /\ buf[i + 3] = "LF"
<1>1. PICK n \in Nat : n = Len(buf)
  OBVIOUS
<1>2. i \in Nat /\ i <= n /\ i + 0 = i
  BY <1>1
<1>3. DelimiterAt(buf, i) =
        CASE buf[i] = "LF" /\ i + 1 <= n /\ buf[i + 1] = "LF" -> 2
          [] buf[i] = "LF" /\ (i + 1 <= n /\ buf[i + 1] = "CR") /\ (i + 2 <= n /\ buf[i + 2] = "LF") -> 3
          [] buf[i] = "CR" /\ (i + 1 <= n /\ buf[i + 1] = "LF") /\ (i + 2 <= n /\ buf[i + 2] = "CR")
               /\ (i + 3 <= n /\ buf[i + 3] = "LF") -> 4
          [] OTHER -> 0
  BY <1>1, <1>2 DEF DelimiterAt
<1> QED
  BY <1>1, <1>2, <1>3

Delimits(buf, n, i, i1, i2, i3) ==
  /\ DelimiterAt(buf, i) \in {0, 2, 3, 4}
  /\ DelimiterAt(buf, i) = 2 <=> i1 <= n /\ buf[i] = "LF" /\ buf[i1] = "LF"
  /\ DelimiterAt(buf, i) = 3 <=> i2 <= n /\ buf[i] = "LF" /\ buf[i1] = "CR" /\ buf[i2] = "LF"
  /\ DelimiterAt(buf, i) = 4 <=>
       i3 <= n /\ buf[i] = "CR" /\ buf[i1] = "LF" /\ buf[i2] = "CR" /\ buf[i3] = "LF"

LEMMA DelimiterOf ==
  ASSUME NEW buf \in Seq(Bytes), NEW n, n = Len(buf), NEW i \in 1..n,
         NEW i1, i1 = i + 1, NEW i2, i2 = i + 2, NEW i3, i3 = i + 3
  PROVE  Delimits(buf, n, i, i1, i2, i3)
BY DelimiterIs DEF Delimits

(* What follows does not change the first delimiter.                        *)
LEMMA DelimitersStay ==
  ASSUME NEW r \in Seq(Bytes), NEW b \in Seq(Bytes), NEW i \in Delimiters(r)
  PROVE  /\ i \in Delimiters(r \o b) /\ DelimiterAt(r \o b, i) = DelimiterAt(r, i)
         /\ \A k \in Delimiters(r \o b) : k < i => k \in Delimiters(r)
<1>1. PICK n \in Nat : n = Len(r)
  OBVIOUS
<1>2. PICK all \in Seq(Bytes) : all = r \o b
  BY ConcatProperties
<1>3. PICK m \in Nat : m = Len(all)
  OBVIOUS
<1>4. n <= m /\ \A k \in 1..n : k \in 1..m /\ all[k] = r[k]
  BY <1>1, <1>2, <1>3
<1>5. i \in 1..n /\ i \in 1..m /\ DelimiterAt(r, i) > 0
  BY <1>1, <1>4 DEF Delimiters
<1>6. PICK i1 \in Nat : i1 = i + 1
  BY <1>5
<1>7. PICK i2 \in Nat : i2 = i + 2
  BY <1>5
<1>8. PICK i3 \in Nat : i3 = i + 3
  BY <1>5
<1>9. Delimits(r, n, i, i1, i2, i3)
  BY <1>1, <1>5, <1>6, <1>7, <1>8, DelimiterOf
<1>10. Delimits(all, m, i, i1, i2, i3)
  BY <1>3, <1>5, <1>6, <1>7, <1>8, DelimiterOf
<1>11. /\ all[i] = r[i] /\ (i1 <= n => all[i1] = r[i1]) /\ (i2 <= n => all[i2] = r[i2])
       /\ (i3 <= n => all[i3] = r[i3]) /\ i1 <= i2 /\ i2 <= i3
  <2>1. (i1 <= n => i1 \in 1..n) /\ (i2 <= n => i2 \in 1..n) /\ (i3 <= n => i3 \in 1..n) /\ i1 <= i2 /\ i2 <= i3
    BY <1>5, <1>6, <1>7, <1>8
  <2> QED
    BY <1>4, <1>5, <2>1
<1>12. DelimiterAt(all, i) = DelimiterAt(r, i)
  <2>1. i1 <= n => i1 <= m
    BY <1>4
  <2>2. /\ (i2 <= n => i2 <= m) /\ (i3 <= n => i3 <= m)
        /\ (i2 <= n => i1 <= n) /\ (i3 <= n => i2 <= n)
    <3>1. n <= m /\ i1 <= i2 /\ i2 <= i3
      BY <1>4, <1>11, Zenon
    <3> QED
      BY <3>1
  <2>3. all[i] = r[i] /\ (i1 <= n => all[i1] = r[i1]) /\ (i2 <= n => all[i2] = r[i2]) /\ (i3 <= n => all[i3] = r[i3])
    BY <1>11, Zenon
  <2>4. CASE DelimiterAt(r, i) = 2
    BY <1>9, <1>10, <2>1, <2>3, <2>4, Zenon DEF Delimits
  <2>5. CASE DelimiterAt(r, i) = 3
    BY <1>9, <1>10, <2>2, <2>3, <2>5, Zenon DEF Delimits
  <2>6. CASE DelimiterAt(r, i) = 4
    BY <1>9, <1>10, <2>2, <2>3, <2>6, Zenon DEF Delimits
  <2>7. DelimiterAt(r, i) # 0
    BY <1>5
  <2> QED
    BY <1>9, <2>4, <2>5, <2>6, <2>7, Zenon DEF Delimits
<1>13. i1 <= n
  BY <1>5, <1>9, <1>11 DEF Delimits
<1>14. ASSUME NEW k \in Delimiters(all), k < i PROVE k \in Delimiters(r)
  <2>1. k \in 1..m /\ DelimiterAt(all, k) > 0
    BY <1>3, <1>14 DEF Delimiters
  <2>2. k \in 1..n
    BY <1>5, <1>14, <2>1
  <2>3. PICK k1 \in Nat : k1 = k + 1
    BY <2>1
  <2>4. PICK k2 \in Nat : k2 = k + 2
    BY <2>1
  <2>5. PICK k3 \in Nat : k3 = k + 3
    BY <2>1
  <2>6. k1 \in 1..n /\ k2 \in 1..n
    BY <1>5, <1>6, <1>13, <1>14, <2>1, <2>3, <2>4
  <2>7. Delimits(all, m, k, k1, k2, k3)
    BY <1>3, <2>1, <2>3, <2>4, <2>5, DelimiterOf
  <2>8. Delimits(r, n, k, k1, k2, k3)
    BY <1>1, <2>2, <2>3, <2>4, <2>5, DelimiterOf
  <2>9. all[k] = r[k] /\ all[k1] = r[k1] /\ all[k2] = r[k2] /\ k1 <= n /\ k2 <= n
    BY <1>4, <2>2, <2>6
  <2>10. DelimiterAt(all, k) = 2 => DelimiterAt(r, k) = 2
    BY <2>7, <2>8, <2>9 DEF Delimits
  <2>11. DelimiterAt(all, k) = 3 => DelimiterAt(r, k) = 3
    BY <2>7, <2>8, <2>9 DEF Delimits
  <2>12. DelimiterAt(all, k) = 4 => DelimiterAt(r, k) = 4
    <3>1. SUFFICES ASSUME DelimiterAt(all, k) = 4 PROVE DelimiterAt(r, k) = 4
      OBVIOUS
    <3>2. r[k] = "CR" /\ r[k1] = "LF" /\ r[k2] = "CR" /\ all[k3] = "LF"
      BY <2>7, <2>9, <3>1 DEF Delimits
    <3>3. k3 <= n
      <4>1. CASE i = k1
        <5>1. i1 = k2 /\ i2 = k3
          BY <1>6, <1>7, <2>3, <2>4, <2>5, <4>1
        <5>2. r[i] = "LF" /\ r[i1] = "CR"
          BY <3>2, <4>1, <5>1
        <5>3. i2 <= n
          BY <1>5, <1>9, <5>2 DEF Delimits
        <5> QED
          BY <5>1, <5>3
      <4>2. CASE i # k1
        BY <1>5, <1>6, <1>13, <1>14, <2>1, <2>3, <2>5, <4>2
      <4> QED
        BY <4>1, <4>2
    <3>4. k3 \in 1..n
      BY <2>1, <2>5, <3>3
    <3>5. r[k3] = "LF"
      BY <1>4, <3>2, <3>4
    <3> QED
      BY <2>8, <3>2, <3>3, <3>5 DEF Delimits
  <2>13. DelimiterAt(r, k) > 0
    BY <2>1, <2>7, <2>10, <2>11, <2>12 DEF Delimits
  <2> QED
    BY <1>1, <2>2, <2>13 DEF Delimiters
<1>15. i \in Delimiters(all)
  BY <1>3, <1>5, <1>12 DEF Delimiters
<1> QED
  BY <1>2, <1>12, <1>14, <1>15

LEMMA FirstIs ==
  ASSUME NEW buf \in Seq(Bytes), Delimiters(buf) # {}
  PROVE  First(buf) \in Delimiters(buf) /\ \A k \in Delimiters(buf) : First(buf) <= k
<1>1. PICK D : D = Delimiters(buf)
  OBVIOUS
<1>2. D \in SUBSET Nat /\ D # {}
  BY <1>1 DEF Delimiters
<1>3. \E i \in D : \A k \in D : i <= k
  BY <1>2, LeastOf
<1>4. (CHOOSE i \in D : \A k \in D : i <= k) \in D
        /\ \A k \in D : (CHOOSE i \in D : \A j \in D : i <= j) <= k
  BY <1>3, Zenon
<1> QED
  BY <1>1, <1>4 DEF First

ParseStates == [frames : Seq(Seq(Bytes)), rest : Seq(Bytes)]

LEMMA TakeIs ==
  ASSUME NEW s \in ParseStates
  PROVE  /\ Take(s) \in ParseStates
         /\ Delimiters(s.rest) = {} => Take(s) = s
         /\ Delimiters(s.rest) # {} =>
              \E i \in 1..Len(s.rest) : \E c \in 2..4 :
                /\ i = First(s.rest) /\ i \in Delimiters(s.rest) /\ c = DelimiterAt(s.rest, i)
                /\ i + c - 1 <= Len(s.rest)
                /\ Take(s).frames = Append(s.frames, SubSeq(s.rest, 1, i - 1))
                /\ Take(s).rest = SubSeq(s.rest, i + c, Len(s.rest))
                /\ Len(Take(s).rest) = Len(s.rest) - i - c + 1
<1>1. CASE Delimiters(s.rest) = {}
  BY <1>1 DEF Take
<1>2. CASE Delimiters(s.rest) # {}
  <2>1. PICK rest \in Seq(Bytes) : rest = s.rest
    BY DEF ParseStates
  <2>2. PICK n \in Nat : n = Len(rest)
    OBVIOUS
  <2>3. PICK i \in Delimiters(rest) : i = First(rest)
    BY <1>2, <2>1, FirstIs
  <2>4. i \in 1..n
    BY <2>2 DEF Delimiters
  <2>5. PICK c : c = DelimiterAt(rest, i)
    OBVIOUS
  <2>6. c \in 2..4 /\ i + c - 1 <= n
    <3>1. c > 0
      BY <2>3, <2>5 DEF Delimiters
    <3>2. c \in {0, 2, 3, 4}
      BY <2>2, <2>4, <2>5, DelimiterIs
    <3>3. c = 2 => i + 1 <= n
      BY <2>2, <2>4, <2>5, DelimiterIs
    <3>4. c = 3 => i + 2 <= n
      BY <2>2, <2>4, <2>5, DelimiterIs
    <3>5. c = 4 => i + 3 <= n
      BY <2>2, <2>4, <2>5, DelimiterIs
    <3> QED
      BY <2>4, <3>1, <3>2, <3>3, <3>4, <3>5
  <2>7. Take(s) = [frames |-> Append(s.frames, SubSeq(rest, 1, i - 1)), rest |-> SubSeq(rest, i + c, n)]
    BY <1>2, <2>1, <2>2, <2>3, <2>5 DEF Take
  <2>8. SubSeq(rest, 1, i - 1) \in Seq(Bytes)
    BY <2>2, <2>4
  <2>9. SubSeq(rest, i + c, n) \in Seq(Bytes) /\ Len(SubSeq(rest, i + c, n)) = n - i - c + 1
    BY <2>2, <2>4, <2>6
  <2>10. Append(s.frames, SubSeq(rest, 1, i - 1)) \in Seq(Seq(Bytes))
    <3>1. PICK T : T = Seq(Bytes)
      OBVIOUS
    <3>2. s.frames \in Seq(T) /\ SubSeq(rest, 1, i - 1) \in T
      BY <2>8, <3>1 DEF ParseStates
    <3>3. Append(s.frames, SubSeq(rest, 1, i - 1)) \in Seq(T)
      BY <3>2
    <3> QED
      BY <3>1, <3>3
  <2>11. Take(s) \in ParseStates
    BY <2>7, <2>9, <2>10 DEF ParseStates
  <2>12. /\ Take(s).frames = Append(s.frames, SubSeq(rest, 1, i - 1))
         /\ Take(s).rest = SubSeq(rest, i + c, n)
    <3>1. PICK front : front = Append(s.frames, SubSeq(rest, 1, i - 1))
      OBVIOUS
    <3>2. PICK back : back = SubSeq(rest, i + c, n)
      OBVIOUS
    <3>3. Take(s) = [frames |-> front, rest |-> back]
      BY <2>7, <3>1, <3>2
    <3>4. Take(s).frames = front /\ Take(s).rest = back
      BY <3>3
    <3> QED
      BY <3>1, <3>2, <3>4, Zenon
  <2> QED
    BY <1>2, <2>1, <2>2, <2>3, <2>4, <2>5, <2>6, <2>9, <2>11, <2>12
<1> QED
  BY <1>1, <1>2

(* A parse ends where no delimiter is left, at one state.                   *)
Chain(f, n, s) == n \in Nat /\ f \in [0..n -> ParseStates] /\ f[0] = s /\ \A k \in 1..n : f[k] = Take(f[k - 1])
Parsed(s, d) == \E n : \E f : Chain(f, n, s) /\ f[n] = d /\ Delimiters(d.rest) = {}

LEMMA ParsedAtOnce ==
  ASSUME NEW s \in ParseStates, Delimiters(s.rest) = {}
  PROVE  Parsed(s, s)
<1>1. PICK f : f = [k \in 0..0 |-> s]
  OBVIOUS
<1>2. Chain(f, 0, s) /\ f[0] = s
  BY <1>1 DEF Chain
<1> QED
  BY <1>2 DEF Parsed

LEMMA ParsedAfterStep ==
  ASSUME NEW s \in ParseStates, NEW d, Parsed(Take(s), d)
  PROVE  Parsed(s, d)
<1>1. PICK n, f : Chain(f, n, Take(s)) /\ f[n] = d /\ Delimiters(d.rest) = {}
  BY DEF Parsed
<1>2. n \in Nat /\ f \in [0..n -> ParseStates] /\ f[0] = Take(s) /\ \A k \in 1..n : f[k] = Take(f[k - 1])
  BY <1>1 DEF Chain
<1>3. PICK m \in Nat : m = n + 1
  BY <1>2
<1>4. PICK g : g = [k \in 0..m |-> IF k = 0 THEN s ELSE f[k - 1]]
  OBVIOUS
<1>5. \A k \in 0..m : k # 0 => k - 1 \in 0..n
  BY <1>2, <1>3
<1>6. g \in [0..m -> ParseStates]
  BY <1>2, <1>4, <1>5
<1>7. g[0] = s /\ g[m] = d
  BY <1>1, <1>2, <1>3, <1>4
<1>8. ASSUME NEW k \in 1..m PROVE g[k] = Take(g[k - 1])
  <2>1. k \in 0..m /\ k # 0 /\ k - 1 \in 0..m /\ k - 1 \in 0..n
    BY <1>3, <1>2
  <2>2. g[k] = f[k - 1]
    BY <1>4, <2>1
  <2>3. CASE k = 1
    BY <1>2, <1>7, <2>2, <2>3
  <2>4. CASE k # 1
    <3>1. k - 1 \in 1..n /\ k - 1 # 0
      BY <2>1, <2>4
    <3>2. g[k - 1] = f[k - 1 - 1]
      BY <1>4, <2>1, <3>1
    <3> QED
      BY <1>2, <2>2, <3>1, <3>2
  <2> QED
    BY <2>3, <2>4
<1>9. Chain(g, m, s)
  BY <1>6, <1>7, <1>8 DEF Chain
<1> QED
  BY <1>1, <1>7, <1>9 DEF Parsed

(* One parse comes no further than another that has ended.                  *)
LEMMA ChainsAgree ==
  ASSUME NEW s, NEW f, NEW n, Chain(f, n, s), NEW g, NEW m, Chain(g, m, s), n <= m, Delimiters(f[n].rest) = {}
  PROVE  g[m] = f[n]
<1>1. n \in Nat /\ f \in [0..n -> ParseStates] /\ f[0] = s /\ \A k \in 1..n : f[k] = Take(f[k - 1])
  BY DEF Chain
<1>2. m \in Nat /\ g \in [0..m -> ParseStates] /\ g[0] = s /\ \A k \in 1..m : g[k] = Take(g[k - 1])
  BY DEF Chain
<1>3. PICK Good : Good = {k \in 0..m : IF k <= n THEN g[k] = f[k] ELSE g[k] = f[n]}
  OBVIOUS
<1>4. 0 \in Good
  BY <1>1, <1>2, <1>3
<1>5. f[n] \in ParseStates /\ Take(f[n]) = f[n]
  <2>1. n \in 0..n
    BY <1>1
  <2>2. f[n] \in ParseStates
    BY <1>1, <2>1
  <2> QED
    BY <2>2, TakeIs
<1>6. ASSUME NEW k \in 1..m, k - 1 \in Good PROVE k \in Good
  <2>1. k \in 0..m /\ k \in Nat /\ g[k] = Take(g[k - 1])
    BY <1>2
  <2>2. CASE k <= n
    <3>1. k \in 1..n /\ k - 1 <= n
      BY <1>1, <2>1, <2>2
    <3>2. g[k - 1] = f[k - 1] /\ f[k] = Take(f[k - 1])
      BY <1>1, <1>3, <1>6, <3>1
    <3> QED
      BY <1>3, <2>1, <2>2, <3>2
  <2>3. CASE ~(k <= n)
    <3>1. g[k - 1] = f[n]
      <4>1. CASE k - 1 <= n
        <5>1. k - 1 = n
          BY <1>1, <2>1, <2>3, <4>1
        <5> QED
          BY <1>3, <1>6, <4>1, <5>1
      <4>2. CASE ~(k - 1 <= n)
        BY <1>3, <1>6, <4>2
      <4> QED
        BY <4>1, <4>2
    <3> QED
      BY <1>3, <1>5, <2>1, <2>3, <3>1
  <2> QED
    BY <2>2, <2>3
<1>7. \A k \in 0..m : k \in Good
  BY <1>2, <1>4, <1>6, UpTo
<1>8. m \in 0..m /\ (m <= n => m = n)
  BY <1>1, <1>2
<1> QED
  BY <1>3, <1>7, <1>8

LEMMA ParsedOnce ==
  ASSUME NEW s, NEW d, NEW e, Parsed(s, d), Parsed(s, e)
  PROVE  d = e
<1>1. PICK n, f : Chain(f, n, s) /\ f[n] = d /\ Delimiters(d.rest) = {}
  BY DEF Parsed
<1>2. PICK m, g : Chain(g, m, s) /\ g[m] = e /\ Delimiters(e.rest) = {}
  BY DEF Parsed
<1>3. n \in Nat /\ m \in Nat
  BY <1>1, <1>2 DEF Chain
<1>4. CASE n <= m
  BY <1>1, <1>2, <1>4, ChainsAgree
<1>5. CASE m <= n
  BY <1>1, <1>2, <1>5, ChainsAgree
<1> QED
  BY <1>3, <1>4, <1>5

(* What holds where no delimiter is left and of every state from which one  *)
(* step leads to where it holds, holds.                                     *)
LEMMA ByTaking ==
  ASSUME NEW Good,
         \A s \in ParseStates : Delimiters(s.rest) = {} => s \in Good,
         \A s \in ParseStates : Delimiters(s.rest) # {} /\ Take(s) \in Good => s \in Good
  PROVE  \A s \in ParseStates : s \in Good
<1>1. SUFFICES ASSUME NEW bad \in ParseStates, bad \notin Good PROVE FALSE
  OBVIOUS
<1>2. PICK T : T = {n \in Nat : \E s \in ParseStates : Len(s.rest) = n /\ s \notin Good}
  OBVIOUS
<1>3. \A s \in ParseStates : Len(s.rest) \in Nat
  BY DEF ParseStates
<1>4. T \in SUBSET Nat /\ T # {}
  BY <1>1, <1>2, <1>3
<1>5. PICK n \in T : \A m \in T : n <= m
  BY <1>4, LeastOf
<1>6. PICK s \in ParseStates : Len(s.rest) = n /\ s \notin Good
  BY <1>2, <1>5
<1>7. Delimiters(s.rest) # {}
  BY <1>6
<1>8. PICK i \in 1..Len(s.rest), c \in 2..4 : Len(Take(s).rest) = Len(s.rest) - i - c + 1
  BY <1>7, TakeIs
<1>9. Take(s) \in ParseStates /\ Len(Take(s).rest) \in Nat
  BY <1>3, TakeIs
<1>10. n \in Nat /\ Len(Take(s).rest) < n
  BY <1>2, <1>6, <1>8
<1>11. Take(s) \in Good
  BY <1>2, <1>5, <1>9, <1>10
<1> QED
  BY <1>6, <1>7, <1>11

LEMMA ParsedExists == \A s \in ParseStates : \E d : Parsed(s, d)
<1>1. PICK Good : Good = {s \in ParseStates : \E d : Parsed(s, d)}
  OBVIOUS
<1>2. \A s \in ParseStates : Delimiters(s.rest) = {} => s \in Good
  BY <1>1, ParsedAtOnce
<1>3. \A s \in ParseStates : Delimiters(s.rest) # {} /\ Take(s) \in Good => s \in Good
  BY <1>1, ParsedAfterStep
<1>4. \A s \in ParseStates : s \in Good
  BY <1>2, <1>3, ByTaking
<1> QED
  BY <1>1, <1>4

Result(s) == CHOOSE d : Parsed(s, d)

LEMMA ResultIs ==
  ASSUME NEW s \in ParseStates
  PROVE  /\ Parsed(s, Result(s)) /\ Result(s) \in ParseStates /\ Delimiters(Result(s).rest) = {}
         /\ Delimiters(s.rest) = {} => Result(s) = s
         /\ Result(Take(s)) = Result(s)
<1>1. Parsed(s, Result(s))
  BY ParsedExists, Zenon DEF Result
<1>2. Result(s) \in ParseStates /\ Delimiters(Result(s).rest) = {}
  <2>1. PICK n, f : Chain(f, n, s) /\ f[n] = Result(s) /\ Delimiters(Result(s).rest) = {}
    BY <1>1 DEF Parsed
  <2>2. n \in 0..n /\ f \in [0..n -> ParseStates]
    BY <2>1 DEF Chain
  <2> QED
    BY <2>1, <2>2
<1>3. Delimiters(s.rest) = {} => Result(s) = s
  BY <1>1, ParsedAtOnce, ParsedOnce
<1>4. Take(s) \in ParseStates
  BY TakeIs
<1>5. Parsed(Take(s), Result(Take(s)))
  BY <1>4, ParsedExists, Zenon DEF Result
<1>6. Parsed(s, Result(Take(s)))
  BY <1>5, ParsedAfterStep
<1>7. Result(Take(s)) = Result(s)
  BY <1>1, <1>6, ParsedOnce
<1> QED
  BY <1>1, <1>2, <1>3, <1>7

LEMMA TailFollowed ==
  ASSUME NEW S, NEW r \in Seq(S), NEW b \in Seq(S), NEW j \in 1..(Len(r) + 1)
  PROVE  SubSeq(r \o b, j, Len(r \o b)) = SubSeq(r, j, Len(r)) \o b
<1>1. PICK n \in Nat : n = Len(r)
  OBVIOUS
<1>2. PICK l \in Nat : l = Len(b)
  OBVIOUS
<1>3. PICK all \in Seq(S) : all = r \o b
  BY ConcatProperties
<1>4. PICK m \in Nat : m = Len(all)
  OBVIOUS
<1>5. m = n + l /\ j \in 1..(n + 1)
  BY <1>1, <1>2, <1>3, <1>4
<1>6. SubSeq(all, j, n) \o SubSeq(all, n + 1, m) = SubSeq(all, j, m)
  <2>1. j \in 1..(Len(all) + 1) /\ n \in (j - 1)..Len(all) /\ m \in n..Len(all)
    BY <1>4, <1>5
  <2> QED
    BY <2>1, ConcatAdjacentSubSeq
<1>7. SubSeq(all, j, n) = SubSeq(r, j, n)
  <2>1. CASE j = n + 1
    BY <1>5, <2>1, SubSeqEmpty
  <2>2. CASE j # n + 1
    <3>1. j \in 1..Len(r) /\ n \in 1..Len(r)
      BY <1>1, <1>5, <2>2
    <3> QED
      BY <1>3, <3>1, SubSeqOfConcat1
  <2> QED
    BY <2>1, <2>2
<1>8. SubSeq(all, n + 1, m) = b
  <2>1. CASE l = 0
    <3>1. b = <<>>
      BY <1>2, <2>1, EmptySeq
    <3>2. m < n + 1 /\ n + 1 \in Int /\ m \in Int
      BY <1>5, <2>1
    <3> QED
      BY <3>1, <3>2, SubSeqEmpty
  <2>2. CASE l # 0
    <3>1. PICK from \in Nat : from = n + 1
      OBVIOUS
    <3>2. from \in (Len(r) + 1)..(Len(r) + Len(b)) /\ m \in (Len(r) + 1)..(Len(r) + Len(b))
      BY <1>1, <1>2, <1>5, <2>2, <3>1
    <3>3. SubSeq(all, from, m) = SubSeq(b, from - Len(r), m - Len(r))
      BY <1>3, <3>2, SubSeqOfConcat2
    <3>4. from - Len(r) = 1 /\ m - Len(r) = Len(b)
      BY <1>1, <1>2, <1>5, <3>1
    <3> QED
      BY <3>1, <3>3, <3>4, SubSeqFull
  <2> QED
    BY <2>1, <2>2
<1> QED
  BY <1>1, <1>3, <1>4, <1>6, <1>7, <1>8

(* Bytes that follow, and frames taken before, do not matter to a parse.    *)
LEMMA TakeFollowed ==
  ASSUME NEW s \in ParseStates, Delimiters(s.rest) # {}, NEW b \in Seq(Bytes),
         NEW before \in Seq(Seq(Bytes)), NEW t, t = [frames |-> before \o s.frames, rest |-> s.rest \o b]
  PROVE  /\ t \in ParseStates /\ Delimiters(t.rest) # {}
         /\ Take(t) = [frames |-> before \o Take(s).frames, rest |-> Take(s).rest \o b]
<1>1. PICK rest \in Seq(Bytes) : rest = s.rest
  BY DEF ParseStates
<1>2. PICK n \in Nat : n = Len(rest)
  OBVIOUS
<1>3. PICK i \in 1..n, c \in 2..4 :
        /\ i = First(rest) /\ i \in Delimiters(rest) /\ c = DelimiterAt(rest, i) /\ i + c - 1 <= n
        /\ Take(s).frames = Append(s.frames, SubSeq(rest, 1, i - 1))
        /\ Take(s).rest = SubSeq(rest, i + c, n)
  BY <1>1, <1>2, TakeIs
<1>4. PICK all \in Seq(Bytes) : all = rest \o b
  BY ConcatProperties
<1>5. PICK m \in Nat : m = Len(all)
  OBVIOUS
<1>6. PICK frs : frs = before \o s.frames
  OBVIOUS
<1>7. frs \in Seq(Seq(Bytes)) /\ s.frames \in Seq(Seq(Bytes))
  <2>1. PICK T : T = Seq(Bytes)
    OBVIOUS
  <2>2. before \in Seq(T) /\ s.frames \in Seq(T)
    BY <2>1 DEF ParseStates
  <2>3. before \o s.frames \in Seq(T)
    BY <2>2
  <2> QED
    BY <1>6, <2>1, <2>2, <2>3
<1>8. t = [frames |-> frs, rest |-> all] /\ t \in ParseStates /\ t.rest = all /\ t.frames = frs
  BY <1>1, <1>4, <1>6, <1>7 DEF ParseStates
<1>9. i \in Delimiters(all) /\ DelimiterAt(all, i) = c /\ \A k \in Delimiters(all) : k < i => k \in Delimiters(rest)
  BY <1>3, <1>4, DelimitersStay
<1>10. First(all) = i
  <2>1. First(all) \in Delimiters(all) /\ First(all) <= i
    BY <1>9, FirstIs
  <2>2. \A k \in Delimiters(rest) : i <= k
    BY <1>3, FirstIs
  <2>3. First(all) \in 1..m
    <3>1. Delimiters(all) \subseteq 1..m
      BY <1>5 DEF Delimiters
    <3> QED
      BY <2>1, <3>1, Zenon
  <2>4. ~(First(all) < i)
    <3>1. SUFFICES ASSUME First(all) < i PROVE FALSE
      OBVIOUS
    <3>2. First(all) \in Delimiters(rest)
      BY <1>9, <2>1, <3>1, Zenon
    <3>3. PICK q \in 1..m : q = First(all)
      BY <2>3
    <3>4. i <= q
      BY <2>2, <3>2, <3>3, Zenon
    <3> QED
      BY <3>1, <3>3, <3>4
  <2> QED
    BY <2>1, <2>3, <2>4
<1>11. Take(t) = [frames |-> Append(frs, SubSeq(all, 1, i - 1)), rest |-> SubSeq(all, i + c, m)]
  BY <1>5, <1>8, <1>9, <1>10 DEF Take
<1>12. SubSeq(all, 1, i - 1) = SubSeq(rest, 1, i - 1)
  <2>1. n <= m /\ \A k \in 1..n : all[k] = rest[k]
    BY <1>2, <1>4, <1>5
  <2>2. PICK j \in Nat : j = i - 1 /\ j <= n
    BY <1>3
  <2>3. SubSeq(all, 1, j) = [k \in 1..j |-> all[k]] /\ SubSeq(rest, 1, j) = [k \in 1..j |-> rest[k]]
    BY <1>2, <1>5, <2>1, <2>2
  <2>4. ASSUME NEW k \in 1..j PROVE all[k] = rest[k]
    <3>1. k \in 1..n
      BY <2>2
    <3> QED
      BY <2>1, <3>1, Zenon
  <2> QED
    BY <2>2, <2>3, <2>4
<1>13. SubSeq(all, i + c, m) = SubSeq(rest, i + c, n) \o b
  <2>0. i + c - 1 <= n
    BY <1>3
  <2>1. i + c \in 1..(n + 1)
    BY <2>0
  <2>2. PICK j \in 1..(n + 1) : j = i + c
    BY <2>1
  <2> QED
    BY <1>2, <1>4, <1>5, <2>2, TailFollowed
<1>14. Append(frs, SubSeq(rest, 1, i - 1)) = before \o Append(s.frames, SubSeq(rest, 1, i - 1))
  <2>1. PICK T : T = Seq(Bytes)
    OBVIOUS
  <2>2. SubSeq(rest, 1, i - 1) \in Seq(Bytes)
    BY <1>2
  <2>3. PICK x \in T : x = SubSeq(rest, 1, i - 1)
    BY <2>1, <2>2
  <2>4. before \in Seq(T) /\ s.frames \in Seq(T)
    BY <1>7, <2>1
  <2>5. Behind(before, s.frames, x)
    BY <2>4, AppendBehind
  <2>6. Append(before \o s.frames, x) = before \o Append(s.frames, x)
    BY <2>5, Zenon DEF Behind
  <2> QED
    BY <1>6, <2>3, <2>6, Zenon
<1>15. Take(t) = [frames |-> before \o Take(s).frames, rest |-> Take(s).rest \o b]
  BY <1>3, <1>11, <1>12, <1>13, <1>14
<1>16. Delimiters(t.rest) # {}
  BY <1>8, <1>9
<1> QED
  BY <1>8, <1>15, <1>16

LEMMA ResultFollowed ==
  ASSUME NEW s \in ParseStates, NEW b \in Seq(Bytes), NEW before \in Seq(Seq(Bytes))
  PROVE  Result([frames |-> before \o s.frames, rest |-> s.rest \o b])
           = Result([frames |-> before \o Result(s).frames, rest |-> Result(s).rest \o b])
<1> DEFINE more(u) == [frames |-> before \o u.frames, rest |-> u.rest \o b]
<1>1. PICK Good : Good = {u \in ParseStates : Result(more(u)) = Result(more(Result(u)))}
  OBVIOUS
<1>2. \A u \in ParseStates : Delimiters(u.rest) = {} => u \in Good
  BY <1>1, ResultIs
<1>3. ASSUME NEW u \in ParseStates, Delimiters(u.rest) # {}, Take(u) \in Good PROVE u \in Good
  <2>1. more(u) \in ParseStates /\ Take(more(u)) = more(Take(u))
    BY <1>3, TakeFollowed
  <2>2. Result(more(Take(u))) = Result(more(Result(Take(u)))) /\ Result(Take(u)) = Result(u)
    BY <1>1, <1>3, ResultIs
  <2>3. Result(more(Take(u))) = Result(more(u))
    BY <2>1, ResultIs
  <2> QED
    BY <1>1, <2>2, <2>3
<1>4. \A u \in ParseStates : u \in Good
  BY <1>2, <1>3, ByTaking
<1> QED
  BY <1>1, <1>4

LEMMA ResultPrefixed ==
  ASSUME NEW s \in ParseStates, NEW before \in Seq(Seq(Bytes))
  PROVE  Result([frames |-> before \o s.frames, rest |-> s.rest])
           = [frames |-> before \o Result(s).frames, rest |-> Result(s).rest]
<1> DEFINE more(u) == [frames |-> before \o u.frames, rest |-> u.rest]
<1>0. PICK T : T = Seq(Bytes)
  OBVIOUS
<1>1. ASSUME NEW u \in ParseStates PROVE more(u) \in ParseStates /\ u.rest \o <<>> = u.rest /\ more(u).rest = u.rest
  <2>1. before \in Seq(T) /\ u.frames \in Seq(T) /\ u.rest \in Seq(Bytes)
    BY <1>0 DEF ParseStates
  <2>2. before \o u.frames \in Seq(T) /\ u.rest \o <<>> = u.rest
    BY <2>1
  <2> QED
    BY <1>0, <2>1, <2>2 DEF ParseStates
<1>2. PICK Good : Good = {u \in ParseStates : Result(more(u)) = more(Result(u))}
  OBVIOUS
<1>3. ASSUME NEW u \in ParseStates, Delimiters(u.rest) = {} PROVE u \in Good
  <2>1. Result(u) = u
    BY <1>3, ResultIs
  <2>2. Result(more(u)) = more(u)
    BY <1>1, <1>3, ResultIs
  <2> QED
    BY <1>2, <2>1, <2>2
<1>4. ASSUME NEW u \in ParseStates, Delimiters(u.rest) # {}, Take(u) \in Good PROVE u \in Good
  <2>1. Take(u) \in ParseStates
    BY TakeIs
  <2>2. PICK none \in Seq(Bytes) : none = <<>>
    BY EmptySeq
  <2>3. more(u) = [frames |-> before \o u.frames, rest |-> u.rest \o none]
    BY <1>1, <2>2
  <2>4. Take(more(u)) = [frames |-> before \o Take(u).frames, rest |-> Take(u).rest \o none]
    BY <1>4, <2>3, TakeFollowed
  <2>5. Take(more(u)) = more(Take(u))
    BY <1>1, <2>1, <2>2, <2>4
  <2>6. Result(more(Take(u))) = more(Result(Take(u))) /\ Result(Take(u)) = Result(u)
    BY <1>2, <1>4, ResultIs
  <2>7. Result(more(Take(u))) = Result(more(u))
    BY <1>1, <2>5, ResultIs
  <2> QED
    BY <1>2, <2>6, <2>7
<1>5. \A u \in ParseStates : u \in Good
  BY <1>3, <1>4, ByTaking
<1> QED
  BY <1>2, <1>5

(* Drain is the parse of a buffer, and parsing in pieces is parsing at once.*)
Unparsed(buf) == [frames |-> <<>>, rest |-> buf]

LEMMA UnparsedState ==
  ASSUME NEW buf \in Seq(Bytes)
  PROVE  Unparsed(buf) \in ParseStates
<1>1. PICK T : T = Seq(Bytes)
  OBVIOUS
<1>2. <<>> \in Seq(T)
  OBVIOUS
<1> QED
  BY <1>1, <1>2 DEF Unparsed, ParseStates

LEMMA DrainIs ==
  ASSUME NEW buf \in Seq(Bytes)
  PROVE  Drain(buf) = Result(Unparsed(buf))
<1>1. PICK n \in Nat : n = Len(buf)
  OBVIOUS
<1>2. PICK start \in ParseStates : start = Unparsed(buf)
  BY UnparsedState
<1>3. PICK F : F = [p \in (1..n) \X ParseStates |-> Take(p[2])]
  OBVIOUS
<1>4. Stepwise(n, ParseStates, start, F)
  <2>1. \A p \in (1..n) \X ParseStates : Take(p[2]) \in ParseStates
    BY TakeIs
  <2> QED
    BY <1>3, <2>1 DEF Stepwise
<1>5. PICK e : Steps(e, n, ParseStates, start, F)
  BY <1>4, StepsExist
<1>6. e \in [0..n -> ParseStates] /\ e[0] = start /\ \A k \in 1..n : e[k] = F[<<k, e[k - 1]>>]
  BY <1>5 DEF Steps
<1>7. ASSUME NEW k \in 1..n PROVE e[k] = Take(e[k - 1])
  <2>1. k - 1 \in 0..n
    OBVIOUS
  <2>2. <<k, e[k - 1]>> \in (1..n) \X ParseStates
    BY <1>6, <2>1
  <2> QED
    BY <1>3, <1>6, <2>2
<1>8. \A k \in 0..n : k # 0 => k \in 1..n
  OBVIOUS
<1>9. e = [k \in 0..n |-> IF k = 0 THEN start ELSE Take(e[k - 1])]
  BY <1>6, <1>7, <1>8
<1>10. PICK g : g = CHOOSE h : h = [k \in 0..n |-> IF k = 0 THEN start ELSE Take(h[k - 1])]
  OBVIOUS
<1>11. g = [k \in 0..n |-> IF k = 0 THEN start ELSE Take(g[k - 1])]
  BY <1>9, <1>10, Zenon
<1>12. Drain(buf) = g[n]
  BY <1>1, <1>2, <1>10 DEF Drain, Unparsed
<1>13. 0 \in 0..n /\ \A k \in 1..n : k \in 0..n /\ k # 0 /\ k - 1 \in 0..n
  OBVIOUS
<1>14. g[0] = start /\ \A k \in 1..n : g[k] = Take(g[k - 1])
  BY <1>11, <1>13
<1>15. PICK Good : Good = {k \in 0..n : /\ g[k] \in ParseStates /\ Result(g[k]) = Result(start)
                                       /\ (Delimiters(g[k].rest) = {} \/ Len(g[k].rest) <= n - k)}
  OBVIOUS
<1>16. 0 \in Good
  <2>1. start.rest = buf
    BY <1>2 DEF Unparsed
  <2> QED
    BY <1>1, <1>13, <1>14, <1>15, <2>1
<1>17. ASSUME NEW k \in 1..n, k - 1 \in Good PROVE k \in Good
  <2>1. PICK s \in ParseStates : /\ s = g[k - 1] /\ Result(s) = Result(start)
                                 /\ Delimiters(s.rest) = {} \/ Len(s.rest) <= n - (k - 1)
    BY <1>15, <1>17
  <2>2. g[k] = Take(s)
    BY <1>14, <2>1
  <2>3. Take(s) \in ParseStates /\ Result(Take(s)) = Result(s)
    BY TakeIs, ResultIs
  <2>4. Delimiters(Take(s).rest) = {} \/ Len(Take(s).rest) <= n - k
    <3>1. CASE Delimiters(s.rest) = {}
      BY <3>1, TakeIs
    <3>2. CASE Delimiters(s.rest) # {}
      <4>1. PICK l \in Nat : l = Len(s.rest)
        BY DEF ParseStates
      <4>2. PICK i \in 1..l, c \in 2..4 : Len(Take(s).rest) = l - i - c + 1
        BY <3>2, <4>1, TakeIs
      <4>3. l <= n - (k - 1)
        BY <2>1, <3>2, <4>1, Zenon
      <4>4. l - i - c + 1 <= n - k
        BY <4>3
      <4> QED
        BY <4>2, <4>4, Zenon
    <3> QED
      BY <3>1, <3>2
  <2> QED
    BY <1>13, <1>15, <2>1, <2>2, <2>3, <2>4
<1>18. n \in 0..n /\ \A k \in 0..n : k \in Good
  BY <1>16, <1>17, UpTo
<1>19. PICK d \in ParseStates : /\ d = g[n] /\ Result(d) = Result(start)
                                /\ Delimiters(d.rest) = {} \/ Len(d.rest) <= n - n
  BY <1>15, <1>18
<1>20. Delimiters(d.rest) = {}
  <2>1. SUFFICES ASSUME Len(d.rest) <= n - n PROVE Delimiters(d.rest) = {}
    BY <1>19
  <2>2. d.rest \in Seq(Bytes)
    BY DEF ParseStates
  <2>3. Len(d.rest) = 0
    BY <2>1, <2>2
  <2> QED
    BY <2>3 DEF Delimiters
<1>21. Result(d) = d
  BY <1>20, ResultIs
<1> QED
  BY <1>2, <1>12, <1>19, <1>21

(* Parsing what came before, and then its rest with what comes after, is parsing both at once. *)
DrainedOnce(a, b, rest) ==
  /\ Drain(a \o b).frames = Drain(a).frames \o Drain(rest \o b).frames
  /\ Drain(a \o b).rest = Drain(rest \o b).rest

LEMMA DrainFollowed ==
  ASSUME NEW a \in Seq(Bytes), NEW b \in Seq(Bytes), NEW rest \in Seq(Bytes), rest = Drain(a).rest
  PROVE  DrainedOnce(a, b, rest)
<1>0. PICK T : T = Seq(Bytes)
  OBVIOUS
<1>1. PICK none \in Seq(Seq(Bytes)) : none = <<>>
  <2>1. <<>> \in Seq(T)
    OBVIOUS
  <2> QED
    BY <1>0, <2>1
<1>2. PICK s \in ParseStates : s = Unparsed(a)
  BY UnparsedState
<1>3. s.frames = none /\ s.rest = a
  BY <1>1, <1>2 DEF Unparsed
<1>4. PICK d \in ParseStates : d = Drain(a) /\ d = Result(s)
  BY <1>2, DrainIs, ResultIs
<1>5. d.frames \in Seq(Seq(Bytes)) /\ d.rest = rest
  BY <1>4 DEF ParseStates
<1>6. \A u \in Seq(Seq(Bytes)) : none \o u = u /\ u \o none = u
  <2>1. \A u \in Seq(T) : <<>> \o u = u /\ u \o <<>> = u
    OBVIOUS
  <2> QED
    BY <1>0, <1>1, <2>1
<1>7. PICK ab \in Seq(Bytes) : ab = a \o b
  BY ConcatProperties
<1>8. PICK rb \in Seq(Bytes) : rb = rest \o b
  BY ConcatProperties
<1>9. Result([frames |-> none \o s.frames, rest |-> s.rest \o b])
        = Result([frames |-> none \o d.frames, rest |-> d.rest \o b])
  <2>1. Result([frames |-> none \o s.frames, rest |-> s.rest \o b])
          = Result([frames |-> none \o Result(s).frames, rest |-> Result(s).rest \o b])
    BY ResultFollowed, Zenon
  <2> QED
    BY <1>4, <2>1, Zenon
<1>10. Result([frames |-> none, rest |-> ab]) = Result([frames |-> d.frames, rest |-> rb])
  <2>1. none \o none = none /\ none \o d.frames = d.frames
    BY <1>1, <1>5, <1>6
  <2> QED
    BY <1>3, <1>5, <1>7, <1>8, <1>9, <2>1, Zenon
<1>11. PICK t \in ParseStates : t = Unparsed(rb)
  BY UnparsedState
<1>12. t.frames = none /\ t.rest = rb
  BY <1>1, <1>11 DEF Unparsed
<1>13. Result([frames |-> d.frames \o t.frames, rest |-> t.rest])
         = [frames |-> d.frames \o Result(t).frames, rest |-> Result(t).rest]
  BY <1>5, ResultPrefixed
<1>14. Result([frames |-> d.frames, rest |-> rb]) = [frames |-> d.frames \o Result(t).frames, rest |-> Result(t).rest]
  BY <1>5, <1>6, <1>12, <1>13
<1>15. Drain(ab) = Result([frames |-> none, rest |-> ab]) /\ Drain(rb) = Result(t)
  BY <1>1, <1>11, DrainIs DEF Unparsed
<1>16. PICK fr : fr = d.frames \o Drain(rb).frames
  OBVIOUS
<1>17. Drain(ab) = [frames |-> fr, rest |-> Drain(rb).rest]
  BY <1>10, <1>14, <1>15, <1>16, Zenon
<1>18. Drain(ab).frames = fr /\ Drain(ab).rest = Drain(rb).rest
  BY <1>17
<1> QED
  <2>1. /\ Drain(a \o b).frames = Drain(a).frames \o Drain(rest \o b).frames
        /\ Drain(a \o b).rest = Drain(rest \o b).rest
    BY <1>4, <1>7, <1>8, <1>16, <1>18, Zenon
  <2> QED
    BY <2>1, Zenon DEF DrainedOnce

LEMMA DrainType ==
  ASSUME NEW buf \in Seq(Bytes)
  PROVE  /\ Drain(buf) \in ParseStates /\ Delimiters(Drain(buf).rest) = {}
         /\ Drain(buf).frames \in Seq(Seq(Bytes)) /\ Drain(buf).rest \in Seq(Bytes)
<1>1. Unparsed(buf) \in ParseStates
  BY UnparsedState
<1>2. Drain(buf) \in ParseStates /\ Delimiters(Drain(buf).rest) = {}
  <2>1. Drain(buf) = Result(Unparsed(buf))
    BY DrainIs
  <2>2. Result(Unparsed(buf)) \in ParseStates /\ Delimiters(Result(Unparsed(buf)).rest) = {}
    BY <1>1, ResultIs, Zenon
  <2> QED
    BY <2>1, <2>2, Zenon
<1> QED
  BY <1>2 DEF ParseStates

LEMMA RestIsShorter ==
  ASSUME NEW buf \in Seq(Bytes)
  PROVE  /\ Len(Drain(buf).rest) \in Nat /\ Len(Drain(buf).rest) <= Len(buf)
         /\ Delimiters(buf) # {} => Len(Drain(buf).rest) + 2 <= Len(buf)
<1>1. PICK Good : Good = {s \in ParseStates : Len(Result(s).rest) <= Len(s.rest)}
  OBVIOUS
<1>2. ASSUME NEW s \in ParseStates PROVE Len(s.rest) \in Nat /\ Len(Result(s).rest) \in Nat
  <2>1. Result(s) \in ParseStates
    BY ResultIs
  <2> QED
    BY <2>1 DEF ParseStates
<1>3. ASSUME NEW s \in ParseStates, Delimiters(s.rest) = {} PROVE s \in Good
  <2>1. Result(s) = s
    BY <1>3, ResultIs
  <2> QED
    BY <1>1, <1>2, <2>1
<1>4. ASSUME NEW s \in ParseStates, Delimiters(s.rest) # {}, Take(s) \in Good PROVE Len(Result(s).rest) + 2 <= Len(s.rest)
  <2>1. PICK i \in 1..Len(s.rest), c \in 2..4 : Len(Take(s).rest) = Len(s.rest) - i - c + 1
    BY <1>4, TakeIs
  <2>2. Result(Take(s)) = Result(s) /\ Take(s) \in ParseStates
    BY ResultIs, TakeIs
  <2>3. Len(Result(s).rest) <= Len(Take(s).rest)
    BY <1>1, <1>4, <2>2
  <2>4. Len(s.rest) \in Nat /\ Len(Result(s).rest) \in Nat
    BY <1>2
  <2> QED
    BY <2>1, <2>3, <2>4
<1>5. ASSUME NEW s \in ParseStates, Delimiters(s.rest) # {}, Take(s) \in Good PROVE s \in Good
  <2>1. Len(Result(s).rest) + 2 <= Len(s.rest)
    BY <1>4, <1>5
  <2>2. Len(Result(s).rest) <= Len(s.rest)
    BY <1>2, <2>1
  <2> QED
    BY <1>1, <2>2
<1>6. \A s \in ParseStates : s \in Good
  BY <1>3, <1>5, ByTaking
<1>7. PICK s \in ParseStates : s = Unparsed(buf)
  BY UnparsedState
<1>8. s.rest = buf /\ Drain(buf) = Result(s)
  BY <1>7, DrainIs DEF Unparsed
<1>9. Len(Drain(buf).rest) \in Nat /\ Len(Drain(buf).rest) <= Len(buf)
  BY <1>1, <1>2, <1>6, <1>8
<1>10. ASSUME Delimiters(buf) # {} PROVE Len(Drain(buf).rest) + 2 <= Len(buf)
  <2>1. Take(s) \in Good
    BY <1>6, TakeIs
  <2> QED
    BY <1>4, <1>8, <1>10, <2>1
<1> QED
  BY <1>9, <1>10

-----------------------------------------------------------------------------
(* What is made of each element of one sequence after another is that of *)
(* the one after that of the other.                                      *)
Mapped(a, s, G) == DOMAIN a = DOMAIN s /\ \A i \in DOMAIN s : a[i] = G[s[i]]
BothMapped(a, b, s, t, G) == Mapped(a \o b, s \o t, G)

LEMMA MappedBoth ==
  ASSUME NEW S, NEW T, NEW s \in Seq(S), NEW t \in Seq(S), NEW a \in Seq(T), NEW b \in Seq(T), NEW G,
         Mapped(a, s, G), Mapped(b, t, G)
  PROVE  BothMapped(a, b, s, t, G)
<1>1. PICK n \in Nat : n = Len(s) /\ DOMAIN s = 1..n /\ n = Len(a)
  BY DEF Mapped
<1>2. PICK m \in Nat : m = Len(t) /\ DOMAIN t = 1..m /\ m = Len(b)
  BY DEF Mapped
<1>3. PICK st \in Seq(S) : st = s \o t
  BY ConcatProperties
<1>4. PICK ab \in Seq(T) : ab = a \o b
  BY ConcatProperties
<1>5. /\ DOMAIN st = 1..(n + m) /\ \A i \in 1..n : st[i] = s[i]
      /\ \A i \in 1..(n + m) : ~(i <= n) => st[i] = t[i - n]
  <2>1. n = Len(s) /\ m = Len(t)
    BY <1>1, <1>2
  <2> QED
    BY <1>3, <2>1
<1>6. /\ DOMAIN ab = 1..(n + m) /\ \A i \in 1..n : ab[i] = a[i]
      /\ \A i \in 1..(n + m) : ~(i <= n) => ab[i] = b[i - n]
  BY <1>1, <1>2, <1>4
<1>7. (\A i \in 1..n : a[i] = G[s[i]]) /\ \A i \in 1..m : b[i] = G[t[i]]
  BY <1>1, <1>2 DEF Mapped
<1>8. ASSUME NEW i \in 1..(n + m) PROVE ab[i] = G[st[i]]
  <2>1. CASE i <= n
    <3>1. i \in 1..n
      BY <2>1
    <3> QED
      BY <1>5, <1>6, <1>7, <3>1
  <2>2. CASE ~(i <= n)
    <3>1. i - n \in 1..m
      BY <2>2
    <3>2. ab[i] = b[i - n] /\ st[i] = t[i - n]
      BY <1>5, <1>6, <2>2
    <3> QED
      BY <1>7, <3>1, <3>2
  <2> QED
    BY <2>1, <2>2
<1>9. Mapped(ab, st, G)
  BY <1>5, <1>6, <1>8 DEF Mapped
<1> QED
  BY <1>3, <1>4, <1>9 DEF BothMapped

Image(s, G) == [i \in DOMAIN s |-> G[s[i]]]
Into(G, S, T) == \A x \in S : G[x] \in T

LEMMA MappedSeq ==
  ASSUME NEW S, NEW T, NEW s \in Seq(S), NEW G, Into(G, S, T)
  PROVE  Image(s, G) \in Seq(T) /\ Mapped(Image(s, G), s, G) /\ \A b \in Seq(T) : Mapped(b, s, G) => b = Image(s, G)
<1>0. PICK a : a = Image(s, G)
  OBVIOUS
<1>1. PICK n \in Nat : n = Len(s) /\ DOMAIN s = 1..n /\ \A i \in 1..n : s[i] \in S
  OBVIOUS
<1>2. a \in [1..n -> T]
  BY <1>0, <1>1 DEF Image, Into
<1>3. a \in Seq(T)
  BY <1>2
<1>4. Mapped(a, s, G)
  BY <1>0 DEF Mapped, Image
<1>5. ASSUME NEW b \in Seq(T), Mapped(b, s, G) PROVE b = a
  <2>1. DOMAIN b = 1..n /\ \A i \in 1..n : b[i] = G[s[i]]
    BY <1>1, <1>5 DEF Mapped
  <2>2. Len(b) = n /\ Len(a) = n /\ \A i \in 1..n : b[i] = a[i]
    BY <1>0, <1>1, <1>2, <2>1 DEF Image
  <2> QED
    BY <1>3, <2>2, SeqEqual
<1> QED
  BY <1>0, <1>3, <1>4, <1>5

(* What is delivered of frames one after another.                           *)
LEMMA DeliveredBoth ==
  ASSUME NEW S, NEW s \in Seq(S), NEW t \in Seq(S)
  PROVE  /\ Delivered(s) \in Seq(S)
         /\ Delivered(s \o t) = Delivered(s) \o Delivered(t)
<1>1. PICK T : T = Seq(S)
  OBVIOUS
<1>2. PICK G : G = [x \in S |-> IF Blank(x) THEN <<>> ELSE <<x>>]
  OBVIOUS
<1>3. Into(G, S, T)
  BY <1>1, <1>2 DEF Into
<1>4. ASSUME NEW u \in Seq(S) PROVE Delivered(u) = FlattenSeq(Image(u, G))
  <2>1. \A i \in DOMAIN u : u[i] \in S
    OBVIOUS
  <2>2. [i \in DOMAIN u |-> G[u[i]]] = [i \in DOMAIN u |-> IF Blank(u[i]) THEN <<>> ELSE <<u[i]>>]
    BY <1>2, <2>1
  <2> QED
    BY <2>2 DEF Delivered, Image
<1>5. PICK a \in Seq(T) : a = Image(s, G) /\ Mapped(a, s, G)
  BY <1>3, MappedSeq
<1>6. PICK b \in Seq(T) : b = Image(t, G) /\ Mapped(b, t, G)
  BY <1>3, MappedSeq
<1>7. PICK st \in Seq(S) : st = s \o t
  BY ConcatProperties
<1>8. PICK ab \in Seq(T) : ab = a \o b
  BY ConcatProperties
<1>9. Mapped(ab, st, G)
  BY <1>5, <1>6, <1>7, <1>8, MappedBoth DEF BothMapped
<1>10. ab = Image(st, G)
  BY <1>3, <1>9, MappedSeq
<1>11. a \in Seq(Seq(S)) /\ b \in Seq(Seq(S))
  BY <1>1
<1>12. FlattenSeq(a \o b) = FlattenSeq(a) \o FlattenSeq(b) /\ FlattenSeq(a) \in Seq(S)
  BY <1>11, FlattenBoth, FlattenType
<1>13. Delivered(s) = FlattenSeq(a) /\ Delivered(t) = FlattenSeq(b) /\ Delivered(st) = FlattenSeq(ab)
  BY <1>4, <1>5, <1>6, <1>10
<1>14. Delivered(st) = Delivered(s) \o Delivered(t)
  BY <1>8, <1>12, <1>13, Zenon
<1> QED
  BY <1>7, <1>12, <1>13, <1>14, Zenon

LEMMA FlattenOne ==
  ASSUME NEW S, NEW w \in Seq(S)
  PROVE  FlattenSeq(<<w>>) = w
<1>1. PICK none \in Seq(Seq(S)) : none = <<>>
  <2>1. PICK T : T = Seq(S)
    OBVIOUS
  <2>2. <<>> \in Seq(T)
    OBVIOUS
  <2> QED
    BY <2>1, <2>2
<1>2. FlattenSeq(Append(none, w)) = FlattenSeq(none) \o w
  BY FlattenAppend
<1>3. Append(none, w) = <<w>>
  BY <1>1
<1>4. <<>> \o w = w
  OBVIOUS
<1> QED
  BY <1>1, <1>2, <1>3, <1>4, FlattenNothing

LEMMA OneIs ==
  ASSUME NEW S, NEW x \in S
  PROVE  <<x>> \in Seq(S) /\ DOMAIN <<x>> = 1..1 /\ <<x>>[1] = x
OBVIOUS

LEMMA OneMore ==
  ASSUME NEW S, NEW s \in Seq(S), NEW x \in S
  PROVE  Append(s, x) \in Seq(S) /\ Append(s, x) = s \o <<x>>
OBVIOUS

LEMMA DeliveredOne ==
  ASSUME NEW S, NEW x \in S
  PROVE  Delivered(<<x>>) = IF Blank(x) THEN <<>> ELSE <<x>>
<1>1. PICK w : w = IF Blank(x) THEN <<>> ELSE <<x>>
  OBVIOUS
<1>2. w \in Seq(S)
  BY <1>1
<1>3. PICK one \in Seq(S) : one = <<x>> /\ DOMAIN one = 1..1 /\ one[1] = x
  BY OneIs
<1>4. [i \in DOMAIN one |-> IF Blank(one[i]) THEN <<>> ELSE <<one[i]>>] = [i \in 1..1 |-> w]
  BY <1>1, <1>3
<1>5. [i \in 1..1 |-> w] = <<w>>
  OBVIOUS
<1>6. Delivered(one) = FlattenSeq(<<w>>)
  BY <1>4, <1>5 DEF Delivered
<1> QED
  BY <1>1, <1>2, <1>3, <1>6, FlattenOne

(* What is written in bytes after others is written after what is in those. *)
LEMMA WrittenBoth ==
  ASSUME NEW s \in Seq(Bytes), NEW t \in Seq(Bytes)
  PROVE  /\ Written(s) \in Seq({"x"})
         /\ Written(s \o t) = Written(s) \o Written(t)
<1>1. PICK X : X = {"x"}
  OBVIOUS
<1>2. PICK T : T = Seq(X)
  OBVIOUS
<1>3. PICK G : G = [b \in Bytes |-> IF b = "x" THEN <<"x">> ELSE <<>>]
  OBVIOUS
<1>4. Into(G, Bytes, T)
  <2>1. <<"x">> \in T /\ <<>> \in T
    <3>1. PICK x : x = "x"
      OBVIOUS
    <3>2. <<x>> \in Seq({x})
      BY OneIs
    <3> QED
      BY <1>1, <1>2, <3>1, <3>2
  <2>2. \A b \in Bytes : G[b] = IF b = "x" THEN <<"x">> ELSE <<>>
    BY <1>3
  <2> QED
    BY <2>1, <2>2 DEF Into
<1>5. ASSUME NEW u \in Seq(Bytes) PROVE Written(u) = FlattenSeq(Image(u, G))
  <2>1. \A i \in DOMAIN u : u[i] \in Bytes
    OBVIOUS
  <2>2. [i \in DOMAIN u |-> G[u[i]]] = [i \in DOMAIN u |-> IF u[i] = "x" THEN <<"x">> ELSE <<>>]
    BY <1>3, <2>1
  <2> QED
    BY <2>2 DEF Written, Image
<1>6. PICK a \in Seq(T) : a = Image(s, G) /\ Mapped(a, s, G)
  BY <1>4, MappedSeq
<1>7. PICK b \in Seq(T) : b = Image(t, G) /\ Mapped(b, t, G)
  BY <1>4, MappedSeq
<1>8. PICK st \in Seq(Bytes) : st = s \o t
  BY ConcatProperties
<1>9. PICK ab \in Seq(T) : ab = a \o b
  BY ConcatProperties
<1>10. Mapped(ab, st, G)
  BY <1>6, <1>7, <1>8, <1>9, MappedBoth DEF BothMapped
<1>11. ab = Image(st, G)
  BY <1>4, <1>10, MappedSeq
<1>12. a \in Seq(Seq(X)) /\ b \in Seq(Seq(X))
  BY <1>2
<1>13. FlattenSeq(a \o b) = FlattenSeq(a) \o FlattenSeq(b) /\ FlattenSeq(a) \in Seq(X)
  BY <1>12, FlattenBoth, FlattenType
<1>14. Written(s) = FlattenSeq(a) /\ Written(t) = FlattenSeq(b) /\ Written(st) = FlattenSeq(ab)
  BY <1>5, <1>6, <1>7, <1>11
<1>15. Written(st) = Written(s) \o Written(t)
  BY <1>9, <1>13, <1>14, Zenon
<1> QED
  BY <1>1, <1>8, <1>13, <1>14, <1>15, Zenon

LEMMA WrittenOne ==
  ASSUME NEW b \in Bytes
  PROVE  Written(<<b>>) = IF b = "x" THEN <<"x">> ELSE <<>>
<1>1. PICK w : w = IF b = "x" THEN <<"x">> ELSE <<>>
  OBVIOUS
<1>2. w \in Seq(Bytes)
  <2>1. b = "x" => w = <<b>>
    BY <1>1
  <2>2. b # "x" => w = <<>>
    BY <1>1
  <2> QED
    <3>1. <<b>> \in Seq(Bytes) /\ <<>> \in Seq(Bytes)
      BY OneIs
    <3> QED
      BY <2>1, <2>2, <3>1, Zenon
<1>3. PICK one \in Seq(Bytes) : one = <<b>> /\ DOMAIN one = 1..1 /\ one[1] = b
  BY OneIs
<1>4. [i \in DOMAIN one |-> IF one[i] = "x" THEN <<"x">> ELSE <<>>] = [i \in 1..1 |-> w]
  BY <1>1, <1>3
<1>5. [i \in 1..1 |-> w] = <<w>>
  OBVIOUS
<1>6. Written(one) = FlattenSeq(<<w>>)
  BY <1>4, <1>5 DEF Written
<1> QED
  BY <1>1, <1>2, <1>3, <1>6, FlattenOne

LEMMA WrittenNothing == Written(<<>>) = <<>>
<1>1. [i \in DOMAIN <<>> |-> IF <<>>[i] = "x" THEN <<"x">> ELSE <<>>] = <<>>
  OBVIOUS
<1> QED
  BY <1>1, FlattenNothing DEF Written

LEMMA BlankIsNothing ==
  ASSUME NEW s \in Seq(Bytes), Blank(s)
  PROVE  Written(s) = <<>>
<1>1. PICK Good : Good = {u \in Seq(Bytes) : Blank(u) => Written(u) = <<>>}
  OBVIOUS
<1>2. <<>> \in Good
  BY <1>1, WrittenNothing
<1>3. ASSUME NEW u \in Seq(Bytes), NEW b \in Bytes, u \in Good PROVE Append(u, b) \in Good
  <2>1. PICK ub \in Seq(Bytes) : ub = Append(u, b)
    BY OneMore
  <2>2. SUFFICES ASSUME Blank(ub) PROVE Written(ub) = <<>>
    BY <1>1, <2>1
  <2>3. PICK n \in Nat : n = Len(u)
    OBVIOUS
  <2>4. /\ Len(ub) = n + 1 /\ ub[n + 1] = b /\ \A i \in 1..n : ub[i] = u[i]
    BY <2>1, <2>3
  <2>5. \A i \in 1..(n + 1) : ub[i] # "x"
    BY <2>2, <2>4 DEF Blank
  <2>6. b # "x" /\ \A i \in 1..n : u[i] # "x"
    <3>1. n + 1 \in 1..(n + 1) /\ \A i \in 1..n : i \in 1..(n + 1)
      OBVIOUS
    <3> QED
      BY <2>4, <2>5, <3>1
  <2>7. Written(u) = <<>>
    BY <1>1, <1>3, <2>3, <2>6 DEF Blank
  <2>8. PICK one \in Seq(Bytes) : one = <<b>>
    BY OneIs
  <2>9. Written(one) = <<>>
    BY <2>6, <2>8, WrittenOne
  <2>10. ub = u \o one
    BY <2>1, <2>8
  <2>11. Written(u \o one) = Written(u) \o Written(one)
    BY WrittenBoth
  <2>12. <<>> \o <<>> = <<>>
    OBVIOUS
  <2> QED
    BY <2>7, <2>9, <2>10, <2>11, <2>12, Zenon
<1>4. \A u \in Seq(Bytes) : u \in Good
  BY <1>2, <1>3, BySuffix
<1> QED
  BY <1>1, <1>4

(* Nothing written is left out of what is delivered.                        *)
LEMMA DeliveredIsWritten ==
  ASSUME NEW fr \in Seq(Seq(Bytes))
  PROVE  Written(FlattenSeq(Delivered(fr))) = Written(FlattenSeq(fr))
<1>0. PICK T : T = Seq(Bytes)
  OBVIOUS
<1>1. PICK Good : Good = {s \in Seq(T) : Written(FlattenSeq(Delivered(s))) = Written(FlattenSeq(s))}
  OBVIOUS
<1>2. <<>> \in Good
  <2>1. [i \in DOMAIN <<>> |-> IF Blank(<<>>[i]) THEN <<>> ELSE <<<<>>[i]>>] = <<>>
    OBVIOUS
  <2>2. Delivered(<<>>) = <<>>
    BY <2>1, FlattenNothing DEF Delivered
  <2>3. <<>> \in Seq(T)
    OBVIOUS
  <2> QED
    BY <1>1, <2>2, <2>3
<1>3. ASSUME NEW s \in Seq(T), NEW x \in T, s \in Good PROVE Append(s, x) \in Good
  <2>1. PICK one \in Seq(T) : one = <<x>>
    BY OneIs
  <2>2. PICK sx \in Seq(T) : sx = Append(s, x) /\ sx = s \o one
    BY <2>1, OneMore
  <2>3. PICK ds \in Seq(T) : ds = Delivered(s)
    BY DeliveredBoth
  <2>4. PICK dx \in Seq(T) : dx = Delivered(one)
    BY DeliveredBoth
  <2>5. Delivered(sx) = ds \o dx
    BY <2>2, <2>3, <2>4, DeliveredBoth
  <2>6. ds \in Seq(Seq(Bytes)) /\ dx \in Seq(Seq(Bytes)) /\ s \in Seq(Seq(Bytes)) /\ one \in Seq(Seq(Bytes))
    BY <1>0
  <2>7. FlattenSeq(ds \o dx) = FlattenSeq(ds) \o FlattenSeq(dx) /\ FlattenSeq(s \o one) = FlattenSeq(s) \o FlattenSeq(one)
    BY <2>6, FlattenBoth
  <2>8. /\ FlattenSeq(ds) \in Seq(Bytes) /\ FlattenSeq(dx) \in Seq(Bytes)
        /\ FlattenSeq(s) \in Seq(Bytes) /\ FlattenSeq(one) \in Seq(Bytes)
    BY <2>6, FlattenType
  <2>9. Written(FlattenSeq(ds) \o FlattenSeq(dx)) = Written(FlattenSeq(ds)) \o Written(FlattenSeq(dx))
    BY <2>8, WrittenBoth
  <2>10. Written(FlattenSeq(s) \o FlattenSeq(one)) = Written(FlattenSeq(s)) \o Written(FlattenSeq(one))
    BY <2>8, WrittenBoth
  <2>11. Written(FlattenSeq(ds)) = Written(FlattenSeq(s))
    BY <1>1, <1>3, <2>3
  <2>12. Written(FlattenSeq(dx)) = Written(FlattenSeq(one))
    <3>1. x \in Seq(Bytes)
      BY <1>0
    <3>2. CASE Blank(x)
      <4>1. dx = <<>>
        BY <2>1, <2>4, <3>2, DeliveredOne
      <4>2. FlattenSeq(one) = x
        BY <2>1, <3>1, FlattenOne
      <4> QED
        BY <3>1, <3>2, <4>1, <4>2, FlattenNothing, WrittenNothing, BlankIsNothing
    <3>3. CASE ~Blank(x)
      BY <2>1, <2>4, <3>3, DeliveredOne
    <3> QED
      BY <3>2, <3>3
  <2>13. Written(FlattenSeq(Delivered(sx))) = Written(FlattenSeq(sx))
    BY <2>2, <2>5, <2>7, <2>9, <2>10, <2>11, <2>12, Zenon
  <2> QED
    BY <1>1, <2>2, <2>13
<1>4. \A s \in Seq(T) : s \in Good
  BY <1>2, <1>3, BySuffix
<1> QED
  BY <1>0, <1>1, <1>4

(* A delimiter holds no byte but line ends.                                 *)
LEMMA DelimiterIsBlank ==
  ASSUME NEW buf \in Seq(Bytes), NEW i \in Delimiters(buf), NEW k \in i..(i + DelimiterAt(buf, i) - 1)
  PROVE  k \in 1..Len(buf) /\ buf[k] # "x"
<1>1. PICK n \in Nat : n = Len(buf)
  OBVIOUS
<1>2. i \in 1..n /\ DelimiterAt(buf, i) > 0
  BY <1>1 DEF Delimiters
<1>3. PICK i1 \in Nat : i1 = i + 1
  BY <1>2
<1>4. PICK i2 \in Nat : i2 = i + 2
  BY <1>2
<1>5. PICK i3 \in Nat : i3 = i + 3
  BY <1>2
<1>6. Delimits(buf, n, i, i1, i2, i3)
  BY <1>1, <1>2, <1>3, <1>4, <1>5, DelimiterOf
<1>7. CASE DelimiterAt(buf, i) = 2
  <2>1. i1 <= n /\ buf[i] = "LF" /\ buf[i1] = "LF"
    BY <1>6, <1>7 DEF Delimits
  <2>2. k = i \/ k = i1
    BY <1>2, <1>3, <1>7
  <2> QED
    BY <1>1, <1>2, <1>3, <2>1, <2>2
<1>8. CASE DelimiterAt(buf, i) = 3
  <2>1. i2 <= n /\ buf[i] = "LF" /\ buf[i1] = "CR" /\ buf[i2] = "LF"
    BY <1>6, <1>8 DEF Delimits
  <2>2. k = i \/ k = i1 \/ k = i2
    BY <1>2, <1>3, <1>4, <1>8
  <2> QED
    BY <1>1, <1>2, <1>3, <1>4, <2>1, <2>2
<1>9. CASE DelimiterAt(buf, i) = 4
  <2>1. i3 <= n /\ buf[i] = "CR" /\ buf[i1] = "LF" /\ buf[i2] = "CR" /\ buf[i3] = "LF"
    BY <1>6, <1>9 DEF Delimits
  <2>2. k = i \/ k = i1 \/ k = i2 \/ k = i3
    BY <1>2, <1>3, <1>4, <1>5, <1>9
  <2> QED
    BY <1>1, <1>2, <1>3, <1>4, <1>5, <2>1, <2>2
<1> QED
  BY <1>2, <1>6, <1>7, <1>8, <1>9 DEF Delimits

WrittenIn(s) == Written(FlattenSeq(s.frames)) \o Written(s.rest)

LEMMA PieceIs ==
  ASSUME NEW S, NEW s \in Seq(S), NEW a \in Nat, NEW b \in Nat, a <= b, b <= Len(s), NEW from, from = a + 1,
         NEW piece, piece = SubSeq(s, from, b)
  PROVE  piece \in Seq(S) /\ Len(piece) = b - a /\ \A k \in 1..(b - a) : piece[k] = s[a + k]
<1>1. piece \in Seq(S) /\ Len(piece) = b - a
  OBVIOUS
<1>2. ASSUME NEW k \in 1..(b - a) PROVE piece[k] = s[a + k]
  OBVIOUS
<1> QED
  BY <1>1, <1>2

LEMMA TakeWrites ==
  ASSUME NEW s \in ParseStates, Delimiters(s.rest) # {}
  PROVE  WrittenIn(Take(s)) = WrittenIn(s)
<1>1. PICK rest \in Seq(Bytes) : rest = s.rest
  BY DEF ParseStates
<1>2. PICK n \in Nat : n = Len(rest)
  OBVIOUS
<1>3. PICK i \in 1..n, c \in 2..4 :
        /\ i \in Delimiters(rest) /\ c = DelimiterAt(rest, i) /\ i + c - 1 <= n
        /\ Take(s).frames = Append(s.frames, SubSeq(rest, 1, i - 1))
        /\ Take(s).rest = SubSeq(rest, i + c, n)
  BY <1>1, <1>2, TakeIs
<1>4. PICK j \in Nat : j = i - 1 /\ j <= n
  BY <1>3
<1>5. PICK l \in Nat : l = i + c - 1 /\ j <= l /\ l <= n
  BY <1>3, <1>4
<1>6. PICK frame : frame = SubSeq(rest, 1, j)
  OBVIOUS
<1>6a. frame \in Seq(Bytes)
  <2>1. 0 \in Nat /\ 0 <= j /\ 1 = 0 + 1
    OBVIOUS
  <2> QED
    BY <1>2, <1>4, <1>6, <2>1, PieceIs
<1>7. PICK gap : gap = SubSeq(rest, j + 1, l)
  OBVIOUS
<1>7a. gap \in Seq(Bytes) /\ Len(gap) = l - j /\ \A k \in 1..(l - j) : gap[k] = rest[j + k]
  BY <1>2, <1>5, <1>7, PieceIs
<1>8. PICK tail : tail = SubSeq(rest, l + 1, n)
  OBVIOUS
<1>8a. tail \in Seq(Bytes)
  <2>1. n <= n
    OBVIOUS
  <2> QED
    BY <1>2, <1>5, <1>8, <2>1, PieceIs
<1>9. rest = (frame \o gap) \o tail
  <2>1. frame \o gap = SubSeq(rest, 1, l)
    <3>1. 1 \in 1..(Len(rest) + 1) /\ j \in (1 - 1)..Len(rest) /\ l \in j..Len(rest)
      BY <1>2, <1>4, <1>5
    <3> QED
      BY <1>6, <1>7, <3>1, ConcatAdjacentSubSeq
  <2>2. SubSeq(rest, 1, l) \o tail = SubSeq(rest, 1, n)
    <3>1. 1 \in 1..(Len(rest) + 1) /\ l \in (1 - 1)..Len(rest) /\ n \in l..Len(rest)
      BY <1>2, <1>5
    <3> QED
      BY <1>8, <3>1, ConcatAdjacentSubSeq
  <2>3. SubSeq(rest, 1, n) = rest
    BY <1>2, SubSeqFull
  <2> QED
    BY <2>1, <2>2, <2>3
<1>10. Written(gap) = <<>>
  <2>1. ASSUME NEW k \in 1..(l - j) PROVE gap[k] # "x"
    <3>1. PICK at \in Nat : at = j + k /\ at \in i..(i + DelimiterAt(rest, i) - 1)
      BY <1>3, <1>4, <1>5
    <3>2. rest[at] # "x"
      BY <1>3, <3>1, DelimiterIsBlank
    <3> QED
      BY <1>7a, <3>1, <3>2
  <2>2. Blank(gap)
    BY <1>7a, <2>1 DEF Blank
  <2> QED
    BY <1>7a, <2>2, BlankIsNothing
<1>11. PICK fg \in Seq(Bytes) : fg = frame \o gap
  BY <1>6a, <1>7a, ConcatProperties
<1>12. Written(fg) = Written(frame)
  <2>1. Written(frame \o gap) = Written(frame) \o Written(gap) /\ Written(frame) \in Seq({"x"})
    BY <1>6a, <1>7a, WrittenBoth
  <2>2. Written(frame) \o <<>> = Written(frame)
    BY <2>1, ConcatEmptySeq
  <2> QED
    BY <1>10, <1>11, <2>1, <2>2, Zenon
<1>13. Written(rest) = Written(frame) \o Written(tail)
  <2>1. Written(fg \o tail) = Written(fg) \o Written(tail)
    BY <1>8a, WrittenBoth
  <2> QED
    BY <1>9, <1>11, <1>12, <2>1, Zenon
<1>14. PICK frs : frs = s.frames
  OBVIOUS
<1>15. frs \in Seq(Seq(Bytes))
  BY <1>14 DEF ParseStates
<1>16. FlattenSeq(Append(frs, frame)) = FlattenSeq(frs) \o frame /\ FlattenSeq(frs) \in Seq(Bytes)
  BY <1>15, <1>6a, FlattenAppend, FlattenType
<1>17. Written(FlattenSeq(frs) \o frame) = Written(FlattenSeq(frs)) \o Written(frame)
  BY <1>16, <1>6a, WrittenBoth
<1>18. Take(s).frames = Append(frs, frame) /\ Take(s).rest = tail
  <2>1. i + c = l + 1 /\ i - 1 = j
    BY <1>4, <1>5
  <2> QED
    BY <1>3, <1>6, <1>8, <1>14, <2>1
<1>19. WrittenIn(Take(s)) = (Written(FlattenSeq(frs)) \o Written(frame)) \o Written(tail)
  BY <1>16, <1>17, <1>18, Zenon DEF WrittenIn
<1>20. (Written(FlattenSeq(frs)) \o Written(frame)) \o Written(tail) = Written(FlattenSeq(frs)) \o (Written(frame) \o Written(tail))
  <2>1. Written(FlattenSeq(frs)) \in Seq({"x"}) /\ Written(frame) \in Seq({"x"}) /\ Written(tail) \in Seq({"x"})
    BY <1>16, <1>6a, <1>8a, WrittenBoth
  <2>2. PICK X : X = {"x"}
    OBVIOUS
  <2>3. PICK a \in Seq(X) : a = Written(FlattenSeq(frs))
    BY <2>1, <2>2
  <2>4. PICK b \in Seq(X) : b = Written(frame)
    BY <2>1, <2>2
  <2>5. PICK d \in Seq(X) : d = Written(tail)
    BY <2>1, <2>2
  <2>6. (a \o b) \o d = a \o (b \o d)
    BY ConcatAssociative
  <2> QED
    BY <2>3, <2>4, <2>5, <2>6, Zenon
<1> QED
  BY <1>1, <1>13, <1>14, <1>19, <1>20, Zenon DEF WrittenIn

LEMMA DrainWrites ==
  ASSUME NEW buf \in Seq(Bytes)
  PROVE  Written(buf) = Written(FlattenSeq(Drain(buf).frames)) \o Written(Drain(buf).rest)
<1>1. PICK Good : Good = {s \in ParseStates : WrittenIn(Result(s)) = WrittenIn(s)}
  OBVIOUS
<1>2. \A s \in ParseStates : Delimiters(s.rest) = {} => s \in Good
  BY <1>1, ResultIs
<1>3. ASSUME NEW s \in ParseStates, Delimiters(s.rest) # {}, Take(s) \in Good PROVE s \in Good
  <2>1. Result(Take(s)) = Result(s)
    BY ResultIs
  <2>2. WrittenIn(Take(s)) = WrittenIn(s)
    BY <1>3, TakeWrites
  <2> QED
    BY <1>1, <1>3, <2>1, <2>2
<1>4. \A s \in ParseStates : s \in Good
  BY <1>2, <1>3, ByTaking
<1>5. PICK s \in ParseStates : s = Unparsed(buf)
  BY UnparsedState
<1>6. WrittenIn(Result(s)) = WrittenIn(s) /\ Drain(buf) = Result(s)
  BY <1>1, <1>4, <1>5, DrainIs
<1>7. WrittenIn(s) = Written(buf)
  <2>1. s.frames = <<>> /\ s.rest = buf
    BY <1>5 DEF Unparsed
  <2>2. Written(buf) \in Seq({"x"})
    BY WrittenBoth
  <2>3. <<>> \o Written(buf) = Written(buf)
    BY <2>2, ConcatEmptySeq
  <2> QED
    BY <2>1, <2>3, FlattenNothing, WrittenNothing, Zenon DEF WrittenIn
<1> QED
  BY <1>6, <1>7, Zenon DEF WrittenIn

(* Two line feeds end a frame that had no delimiter yet, and leave no byte  *)
(* but a line end.                                                          *)
LEMMA LineFeedsEndAFrame ==
  ASSUME NEW buf \in Seq(Bytes), Delimiters(buf) = {}, NEW all, all = buf \o <<"LF", "LF">>
  PROVE  /\ all \in Seq(Bytes) /\ Len(all) = Len(buf) + 2 /\ Delimiters(all) # {}
         /\ Written(all) = Written(buf) /\ Written(Drain(all).rest) = <<>>
<1>1. PICK ends \in Seq(Bytes) : ends = <<"LF", "LF">> /\ Len(ends) = 2 /\ ends[1] = "LF" /\ ends[2] = "LF"
  <2>1. PICK lf \in Bytes : lf = "LF"
    BY DEF Bytes
  <2>2. <<lf, lf>> \in Seq(Bytes) /\ Len(<<lf, lf>>) = 2 /\ <<lf, lf>>[1] = lf /\ <<lf, lf>>[2] = lf
    OBVIOUS
  <2> QED
    BY <2>1, <2>2
<1>2. PICK n \in Nat : n = Len(buf)
  OBVIOUS
<1>3. all \in Seq(Bytes) /\ all = buf \o ends
  BY <1>1, ConcatProperties
<1>4. PICK m \in Nat : m = Len(all) /\ m = n + 2
  BY <1>1, <1>2, <1>3, ConcatProperties
<1>5. PICK n1 \in Nat : n1 = n + 1
  OBVIOUS
<1>6. all[n1] = "LF" /\ all[m] = "LF"
  <2>1. /\ n1 \in 1..(Len(buf) + Len(ends)) /\ ~(n1 <= Len(buf)) /\ n1 - Len(buf) = 1
        /\ m \in 1..(Len(buf) + Len(ends)) /\ ~(m <= Len(buf)) /\ m - Len(buf) = 2
    BY <1>1, <1>2, <1>4, <1>5
  <2>2. all[n1] = ends[1] /\ all[m] = ends[2]
    BY <1>3, <2>1, ConcatProperties
  <2> QED
    BY <1>1, <2>2
<1>7. n1 \in Delimiters(all)
  <2>1. n1 + 1 <= Len(all) /\ n1 \in 1..Len(all) /\ n1 + 1 = m
    BY <1>4, <1>5
  <2>2. DelimiterAt(all, n1) = 2
    BY <1>3, <1>6, <2>1, DelimiterIs
  <2>3. 2 > 0
    OBVIOUS
  <2> QED
    BY <2>1, <2>2, <2>3 DEF Delimiters
<1>8. Written(all) = Written(buf)
  <2>1. Blank(ends)
    <3>1. \A i \in 1..2 : i = 1 \/ i = 2
      OBVIOUS
    <3> QED
      BY <1>1, <3>1 DEF Blank
  <2>2. Written(ends) = <<>>
    BY <2>1, BlankIsNothing
  <2>3. Written(buf \o ends) = Written(buf) \o Written(ends) /\ Written(buf) \in Seq({"x"})
    BY WrittenBoth
  <2>4. Written(buf) \o <<>> = Written(buf)
    BY <2>3, ConcatEmptySeq
  <2> QED
    BY <1>3, <2>2, <2>3, <2>4, Zenon
<1>9. PICK s \in ParseStates : s = Unparsed(all)
  BY <1>3, UnparsedState
<1>10. s.rest = all
  BY <1>9 DEF Unparsed
<1>11. PICK i \in 1..m, c \in 2..4 :
         /\ i = First(all) /\ i \in Delimiters(all) /\ c = DelimiterAt(all, i) /\ i + c - 1 <= m
         /\ Take(s).rest = SubSeq(all, i + c, m)
  BY <1>4, <1>7, <1>10, TakeIs
<1>12. i <= n1
  BY <1>3, <1>7, <1>11, FirstIs
<1>13. ~(i + c - 1 <= n)
  <2>1. SUFFICES ASSUME i + c - 1 <= n PROVE i \in Delimiters(buf)
    OBVIOUS
  <2>2. i \in 1..n
    BY <2>1
  <2>3. PICK i1 \in Nat : i1 = i + 1
    OBVIOUS
  <2>4. PICK i2 \in Nat : i2 = i + 2
    OBVIOUS
  <2>5. PICK i3 \in Nat : i3 = i + 3
    OBVIOUS
  <2>6. Delimits(all, m, i, i1, i2, i3)
    BY <1>3, <1>4, <2>3, <2>4, <2>5, DelimiterOf
  <2>7. Delimits(buf, n, i, i1, i2, i3)
    BY <1>2, <2>2, <2>3, <2>4, <2>5, DelimiterOf
  <2>8. \A k \in 1..n : all[k] = buf[k]
    BY <1>2, <1>3
  <2>9. all[i] = buf[i] /\ i1 \in 1..n /\ all[i1] = buf[i1]
    <3>1. i1 \in 1..n
      BY <2>1, <2>2, <2>3
    <3> QED
      BY <2>2, <2>8, <3>1
  <2>0. c = DelimiterAt(all, i) /\ i1 <= n
    BY <1>11, <2>9
  <2>10. c = 2 => DelimiterAt(buf, i) = 2
    BY <2>0, <2>6, <2>7, <2>9 DEF Delimits
  <2>11. c = 3 => DelimiterAt(buf, i) = 3
    <3>0. SUFFICES ASSUME c = 3 PROVE DelimiterAt(buf, i) = 3
      OBVIOUS
    <3>1. i2 \in 1..n
      BY <2>1, <2>4, <3>0
    <3>4. all[i2] = buf[i2]
      BY <2>8, <3>1, Zenon
    <3>5. i2 <= n
      BY <3>1
    <3>2. all[i2] = buf[i2] /\ i2 <= n
      BY <3>4, <3>5, Zenon
    <3>3. buf[i] = "LF" /\ buf[i1] = "CR" /\ buf[i2] = "LF"
      BY <2>0, <2>6, <2>9, <3>0, <3>2 DEF Delimits
    <3> QED
      BY <2>7, <3>2, <3>3 DEF Delimits
  <2>12. c = 4 => DelimiterAt(buf, i) = 4
    <3>0. SUFFICES ASSUME c = 4 PROVE DelimiterAt(buf, i) = 4
      OBVIOUS
    <3>1. i2 \in 1..n /\ i3 \in 1..n
      BY <2>1, <2>4, <2>5, <3>0
    <3>4. all[i2] = buf[i2] /\ all[i3] = buf[i3]
      BY <2>8, <3>1, Zenon
    <3>5. i3 <= n
      BY <3>1
    <3>2. all[i2] = buf[i2] /\ all[i3] = buf[i3] /\ i3 <= n
      BY <3>4, <3>5, Zenon
    <3>3. buf[i] = "CR" /\ buf[i1] = "LF" /\ buf[i2] = "CR" /\ buf[i3] = "LF"
      BY <2>0, <2>6, <2>9, <3>0, <3>2 DEF Delimits
    <3> QED
      BY <2>7, <3>2, <3>3 DEF Delimits
  <2>13. DelimiterAt(buf, i) > 0
    <3>1. c = 2 \/ c = 3 \/ c = 4
      OBVIOUS
    <3> QED
      BY <2>10, <2>11, <2>12, <3>1
  <2> QED
    BY <1>2, <2>2, <2>13 DEF Delimiters
<1>14. PICK rest \in Seq(Bytes) : rest = Take(s).rest /\ rest = SubSeq(all, i + c, m)
  <2>1. Take(s).rest \in Seq(Bytes)
    BY TakeIs DEF ParseStates
  <2> QED
    BY <1>11, <2>1
<1>15. Blank(rest) /\ Len(rest) <= 1
  <2>1. i + c = m \/ i + c = m + 1
    <3>1. i + c - 1 <= m /\ m = n + 2
      BY <1>4, <1>11
    <3> QED
      BY <1>13, <3>1
  <2>2. CASE i + c = m
    <3>1. PICK l \in Nat : l = i + c /\ l \in 1..m
      BY <1>4, <2>2
    <3>2. Len(rest) = 1 /\ rest[1] = all[l]
      BY <1>3, <1>4, <1>14, <2>2, <3>1
    <3>3. rest[1] = "LF"
      BY <1>6, <2>2, <3>1, <3>2
    <3> QED
      BY <3>2, <3>3 DEF Blank
  <2>3. CASE i + c = m + 1
    <3>1. m < i + c /\ i + c \in Int /\ m \in Int
      BY <2>3
    <3>2. rest = <<>>
      BY <1>14, <3>1, SubSeqEmpty
    <3> QED
      BY <3>2 DEF Blank
  <2> QED
    BY <2>1, <2>2, <2>3
<1>16. Delimiters(rest) = {}
  <2>1. SUFFICES ASSUME NEW k \in Delimiters(rest) PROVE FALSE
    OBVIOUS
  <2>2. k \in 1..Len(rest) /\ DelimiterAt(rest, k) > 0
    BY DEF Delimiters
  <2>3. PICK k1 \in Nat : k1 = k + DelimiterAt(rest, k) - 1 /\ k1 \in k..(k + DelimiterAt(rest, k) - 1)
    <3>1. PICK e \in {0, 2, 3, 4} : e = DelimiterAt(rest, k)
      BY <2>2, DelimiterIs
    <3>2. PICK at \in Nat : at = k
      BY <2>2
    <3>3. e > 0
      BY <2>2, <3>1
    <3>4. at + e - 1 \in Nat /\ at + e - 1 \in at..(at + e - 1)
      BY <3>3
    <3> QED
      BY <3>1, <3>2, <3>4
  <2>4. k1 \in 1..Len(rest)
    BY <2>3, DelimiterIsBlank
  <2>5. DelimiterAt(rest, k) \in {2, 3, 4}
    BY <2>2, DelimiterIs
  <2> QED
    BY <1>15, <2>2, <2>3, <2>4, <2>5
<1>17. Drain(all).rest = rest
  <2>1. Drain(all) = Result(s) /\ Take(s) \in ParseStates
    BY <1>3, <1>9, DrainIs, TakeIs
  <2>2. Result(Take(s)) = Result(s)
    BY ResultIs
  <2>3. Result(Take(s)) = Take(s)
    BY <1>14, <1>16, <2>1, ResultIs
  <2> QED
    BY <1>14, <2>1, <2>2, <2>3
<1>18. Written(rest) = <<>>
  BY <1>15, BlankIsNothing
<1> QED
  BY <1>2, <1>3, <1>4, <1>7, <1>8, <1>17, <1>18

(* The parser's inductive invariant. *)
FramesInv ==
  /\ body \in Seq(Bytes) /\ buffer \in Seq(Bytes) /\ frames \in Seq(Seq(Bytes))
  /\ parser \in {"open", "finished", "refused"}
  /\ Len(body) <= MaxBytes /\ Len(buffer) <= BufferLimit
  /\ parser = "open" => frames = Delivered(Drain(body).frames) /\ buffer = Drain(body).rest
  /\ parser = "refused" => Len(body) > BufferLimit /\ buffer = <<>>
  /\ NothingIsLost

LEMMA FramesInit ==
  ASSUME SseInit
  PROVE  FramesInv
<1>1. body = <<>> /\ buffer = <<>> /\ frames = <<>> /\ parser = "open"
  BY DEF SseInit
<1>2. PICK T : T = Seq(Bytes)
  OBVIOUS
<1>3. <<>> \in Seq(Bytes) /\ <<>> \in Seq(T) /\ Len(<<>>) = 0
  OBVIOUS
<1>4. 0 <= MaxBytes /\ 0 <= BufferLimit
  BY SseAssumption
<1>5. Drain(<<>>) = [frames |-> <<>>, rest |-> <<>>]
  <2>1. PICK none \in Seq(Bytes) : none = <<>>
    BY <1>3
  <2>2. Unparsed(none) \in ParseStates /\ Drain(none) = Result(Unparsed(none))
    BY UnparsedState, DrainIs
  <2>3. Unparsed(none).rest = none
    BY DEF Unparsed
  <2>4. Delimiters(none) = {}
    BY <2>1 DEF Delimiters
  <2>5. Result(Unparsed(none)) = Unparsed(none)
    BY <2>2, <2>3, <2>4, ResultIs
  <2> QED
    BY <2>1, <2>2, <2>5, Zenon DEF Unparsed
<1>6. Drain(<<>>).frames = <<>> /\ Drain(<<>>).rest = <<>>
  BY <1>5
<1>7. Delivered(<<>>) = <<>>
  <2>1. [i \in DOMAIN <<>> |-> IF Blank(<<>>[i]) THEN <<>> ELSE <<<<>>[i]>>] = <<>>
    OBVIOUS
  <2> QED
    BY <2>1, FlattenNothing DEF Delivered
<1>8. NothingIsLost
  BY <1>1 DEF NothingIsLost
<1>9. frames \in Seq(Seq(Bytes))
  BY <1>1, <1>2, <1>3
<1> QED
  BY <1>1, <1>3, <1>4, <1>6, <1>7, <1>8, <1>9 DEF FramesInv

(* A chunk that is taken in: its frames follow those before.                *)
LEMMA PushKeeps ==
  ASSUME FramesInv, Push
  PROVE  FramesInv'
<1>0. PICK n \in 1..3 : \E chunk \in [1..n -> Bytes] :
        /\ Len(body) + n <= MaxBytes /\ body' = body \o chunk
        /\ IF Len(buffer) + n > BufferLimit
           THEN buffer' = <<>> /\ parser' = "refused" /\ UNCHANGED frames
           ELSE LET d == Drain(Kept(chunk))
                IN buffer' = d.rest /\ frames' = frames \o Delivered(d.frames) /\ UNCHANGED parser
  BY DEF Push
<1>1. PICK chunk \in [1..n -> Bytes] :
        /\ Len(body) + n <= MaxBytes /\ body' = body \o chunk
        /\ IF Len(buffer) + n > BufferLimit
           THEN buffer' = <<>> /\ parser' = "refused" /\ UNCHANGED frames
           ELSE LET d == Drain(Kept(chunk))
                IN buffer' = d.rest /\ frames' = frames \o Delivered(d.frames) /\ UNCHANGED parser
  BY <1>0
<1>2. parser = "open"
  BY DEF Push
<1>3. /\ body \in Seq(Bytes) /\ buffer \in Seq(Bytes) /\ frames \in Seq(Seq(Bytes))
      /\ frames = Delivered(Drain(body).frames) /\ buffer = Drain(body).rest
  BY <1>2 DEF FramesInv
<1>4. chunk \in Seq(Bytes) /\ Len(chunk) = n
  OBVIOUS
<1>5. body' \in Seq(Bytes) /\ Len(body') = Len(body) + n /\ Len(body') <= MaxBytes
  <2>1. body \o chunk \in Seq(Bytes) /\ Len(body \o chunk) = Len(body) + Len(chunk)
    BY <1>3, <1>4, ConcatProperties
  <2> QED
    BY <1>1, <1>4, <2>1
<1>6. Len(buffer) \in Nat /\ Len(body) \in Nat /\ Len(buffer) <= Len(body) /\ BufferLimit \in Nat
  BY <1>3, RestIsShorter, SseAssumption
<1>7. CASE Len(buffer) + n > BufferLimit
  <2>1. buffer' = <<>> /\ parser' = "refused" /\ frames' = frames
    BY <1>1, <1>7
  <2>2. Len(body') > BufferLimit
    BY <1>5, <1>6, <1>7
  <2>3. buffer' \in Seq(Bytes) /\ Len(buffer') <= BufferLimit
    BY <1>6, <2>1
  <2>4. NothingIsLost'
    BY <2>1 DEF NothingIsLost
  <2> QED
    BY <1>3, <1>5, <2>1, <2>2, <2>3, <2>4 DEF FramesInv
<1>8. CASE ~(Len(buffer) + n > BufferLimit)
  <2>1. PICK all \in Seq(Bytes) : all = buffer \o chunk /\ Len(all) = Len(buffer) + n
    BY <1>3, <1>4, ConcatProperties
  <2>2. buffer' = Drain(all).rest /\ frames' = frames \o Delivered(Drain(all).frames) /\ parser' = "open"
    BY <1>1, <1>2, <1>8, <2>1 DEF Kept
  <2>3. /\ Drain(body \o chunk).frames = Drain(body).frames \o Drain(buffer \o chunk).frames
        /\ Drain(body \o chunk).rest = Drain(buffer \o chunk).rest
    <3>1. DrainedOnce(body, chunk, buffer)
      BY <1>3, <1>4, DrainFollowed
    <3> QED
      BY <3>1, Zenon DEF DrainedOnce
  <2>4. Drain(body').frames = Drain(body).frames \o Drain(all).frames /\ Drain(body').rest = Drain(all).rest
    BY <1>1, <2>1, <2>3, Zenon
  <2>5. PICK S : S = Seq(Bytes)
    OBVIOUS
  <2>6. PICK a \in Seq(S) : a = Drain(body).frames
    BY <1>3, <2>5, DrainType
  <2>7. PICK b \in Seq(S) : b = Drain(all).frames
    BY <2>5, DrainType
  <2>8. Delivered(a \o b) = Delivered(a) \o Delivered(b) /\ Delivered(b) \in Seq(S)
    BY DeliveredBoth
  <2>9. frames' = Delivered(Drain(body').frames)
    BY <1>3, <2>2, <2>4, <2>6, <2>7, <2>8, Zenon
  <2>10. frames' \in Seq(Seq(Bytes))
    <3>1. frames \in Seq(S)
      BY <1>3, <2>5
    <3>2. frames \o Delivered(b) \in Seq(S)
      BY <2>8, <3>1, ConcatProperties
    <3> QED
      BY <2>2, <2>5, <2>7, <3>2, Zenon
  <2>11. buffer' \in Seq(Bytes) /\ Len(buffer') <= BufferLimit
    <3>1. Drain(all).rest \in Seq(Bytes) /\ Len(Drain(all).rest) \in Nat /\ Len(Drain(all).rest) <= Len(all)
      BY DrainType, RestIsShorter
    <3> QED
      BY <1>6, <1>8, <2>1, <2>2, <3>1
  <2>12. NothingIsLost'
    BY <2>2 DEF NothingIsLost
  <2> QED
    BY <1>5, <2>2, <2>4, <2>9, <2>10, <2>11, <2>12 DEF FramesInv
<1> QED
  BY <1>7, <1>8

(* The end of a body: what is left is ended, and nothing written is lost.   *)
LEMMA FinishKeeps ==
  ASSUME FramesInv, SseFinish
  PROVE  FramesInv'
<1>1. parser # "finished" /\ parser' = "finished" /\ body' = body
  BY DEF SseFinish
<1>2. /\ body \in Seq(Bytes) /\ buffer \in Seq(Bytes) /\ frames \in Seq(Seq(Bytes))
      /\ parser \in {"open", "finished", "refused"}
      /\ Len(body) <= MaxBytes /\ Len(buffer) <= BufferLimit
      /\ parser = "open" => frames = Delivered(Drain(body).frames) /\ buffer = Drain(body).rest
      /\ parser = "refused" => Len(body) > BufferLimit /\ buffer = <<>>
  BY DEF FramesInv
<1>3. BufferLimit \in Nat /\ Len(body) \in Nat
  BY <1>2, SseAssumption
<1>4. PICK X : X = {"x"}
  OBVIOUS
<1>5. ASSUME parser = "open" PROVE Written(body) = Written(FlattenSeq(frames)) \o Written(buffer)
  <2>1. Written(body) = Written(FlattenSeq(Drain(body).frames)) \o Written(Drain(body).rest)
    BY <1>2, DrainWrites
  <2>2. Drain(body).frames \in Seq(Seq(Bytes))
    BY <1>2, DrainType
  <2>3. Written(FlattenSeq(Delivered(Drain(body).frames))) = Written(FlattenSeq(Drain(body).frames))
    BY <2>2, DeliveredIsWritten
  <2> QED
    BY <1>2, <1>5, <2>1, <2>3, Zenon
<1>6. PICK w \in Seq(X) : w = Written(FlattenSeq(frames))
  BY <1>2, <1>4, FlattenType, WrittenBoth
<1>7. w \o <<>> = w
  BY ConcatEmptySeq
<1>8. CASE Blank(buffer)
  <2>1. buffer' = <<>> /\ frames' = frames
    BY <1>8 DEF SseFinish
  <2>2. NothingIsLost'
    <3>1. SUFFICES ASSUME Len(body) <= BufferLimit PROVE Written(FlattenSeq(frames)) = Written(body)
      BY <1>1, <2>1 DEF NothingIsLost
    <3>2. parser = "open"
      BY <1>1, <1>2, <1>3, <3>1
    <3>3. Written(buffer) = <<>>
      BY <1>2, <1>8, BlankIsNothing
    <3> QED
      BY <1>5, <1>6, <1>7, <3>2, <3>3, Zenon
  <2>3. buffer' \in Seq(Bytes) /\ Len(buffer') <= BufferLimit
    BY <1>3, <2>1
  <2> QED
    BY <1>1, <1>2, <2>1, <2>2, <2>3 DEF FramesInv
<1>9. CASE ~Blank(buffer)
  <2>1. PICK all : all = buffer \o <<"LF", "LF">>
    OBVIOUS
  <2>2. buffer' = Drain(all).rest /\ frames' = frames \o Delivered(Drain(all).frames)
    BY <1>9, <2>1 DEF SseFinish
  <2>3. parser = "open"
    <3>1. buffer = <<>> => Blank(buffer)
      BY DEF Blank
    <3> QED
      BY <1>1, <1>2, <1>9, <3>1
  <2>4. Delimiters(buffer) = {}
    BY <1>2, <2>3, DrainType
  <2>5. /\ all \in Seq(Bytes) /\ Len(all) = Len(buffer) + 2 /\ Delimiters(all) # {}
        /\ Written(all) = Written(buffer) /\ Written(Drain(all).rest) = <<>>
    BY <1>2, <2>1, <2>4, LineFeedsEndAFrame
  <2>6. buffer' \in Seq(Bytes) /\ Len(buffer') <= BufferLimit
    <3>1. Drain(all).rest \in Seq(Bytes) /\ Len(Drain(all).rest) \in Nat /\ Len(Drain(all).rest) + 2 <= Len(all)
      BY <2>5, DrainType, RestIsShorter
    <3>2. Len(buffer) \in Nat
      BY <1>2
    <3> QED
      BY <1>2, <1>3, <2>2, <2>5, <3>1, <3>2
  <2>7. PICK S : S = Seq(Bytes)
    OBVIOUS
  <2>8. PICK b \in Seq(S) : b = Drain(all).frames
    BY <2>5, <2>7, DrainType
  <2>9. PICK db \in Seq(S) : db = Delivered(b)
    BY DeliveredBoth
  <2>10. frames \in Seq(S) /\ frames' = frames \o db
    BY <1>2, <2>2, <2>7, <2>8, <2>9
  <2>11. frames' \in Seq(Seq(Bytes))
    BY <2>7, <2>10, ConcatProperties
  <2>12. Written(FlattenSeq(frames')) = Written(FlattenSeq(frames)) \o Written(buffer)
    <3>1. frames \in Seq(Seq(Bytes)) /\ db \in Seq(Seq(Bytes)) /\ b \in Seq(Seq(Bytes))
      BY <2>7, <2>10
    <3>2. FlattenSeq(frames \o db) = FlattenSeq(frames) \o FlattenSeq(db)
      BY <3>1, FlattenBoth
    <3>3. FlattenSeq(frames) \in Seq(Bytes) /\ FlattenSeq(db) \in Seq(Bytes)
      BY <3>1, FlattenType
    <3>4. Written(FlattenSeq(frames) \o FlattenSeq(db)) = Written(FlattenSeq(frames)) \o Written(FlattenSeq(db))
      BY <3>3, WrittenBoth
    <3>5. Written(FlattenSeq(db)) = Written(FlattenSeq(b))
      BY <2>9, <3>1, DeliveredIsWritten
    <3>6. Written(all) = Written(FlattenSeq(b)) \o Written(Drain(all).rest)
      BY <2>5, <2>8, DrainWrites
    <3>7. PICK v \in Seq(X) : v = Written(FlattenSeq(b))
      BY <1>4, <3>1, FlattenType, WrittenBoth
    <3>8. v \o <<>> = v
      BY ConcatEmptySeq
    <3>9. Written(FlattenSeq(b)) = Written(buffer)
      BY <2>5, <3>6, <3>7, <3>8, Zenon
    <3> QED
      BY <2>10, <3>2, <3>4, <3>5, <3>9, Zenon
  <2>13. NothingIsLost'
    BY <1>1, <1>5, <2>3, <2>12 DEF NothingIsLost
  <2> QED
    BY <1>1, <1>2, <2>6, <2>11, <2>13 DEF FramesInv
<1> QED
  BY <1>8, <1>9

LEMMA FramesStep ==
  ASSUME FramesInv, [SseNext]_sseVars
  PROVE  FramesInv'
<1>1. CASE UNCHANGED sseVars
  BY <1>1 DEF sseVars, FramesInv, NothingIsLost
<1> QED
  BY <1>1, PushKeeps, FinishKeeps DEF SseNext

LEMMA FramesHold ==
  ASSUME FramesInv
  PROVE  SseTypeOK /\ CutsDoNotShow /\ NothingIsLost
BY DEF FramesInv, SseTypeOK, CutsDoNotShow

-----------------------------------------------------------------------------
(* What stands at some positions of a log: an increasing enumeration of the *)
(* positions says which.                                                    *)
Enumerates(pos, m, some) ==
  /\ m \in Nat /\ some \subseteq Nat /\ pos \in [1..m -> some]
  /\ \A a, b \in 1..m : a < b => pos[a] < pos[b]
  /\ \A i \in some : \E n \in 1..m : pos[n] = i
Rank(some, i) == Cardinality({j \in some : j <= i})

LEMMA RanksAre ==
  ASSUME NEW pos, NEW m, NEW some, Enumerates(pos, m, some)
  PROVE  IsFiniteSet(some) /\ Cardinality(some) = m /\ \A n \in 1..m : Rank(some, pos[n]) = n
<1>0. m \in Nat /\ some \subseteq Nat /\ pos \in [1..m -> some]
  BY DEF Enumerates
<1>1. ASSUME NEW n \in 0..m PROVE IsFiniteSet({pos[k] : k \in 1..n}) /\ Cardinality({pos[k] : k \in 1..n}) = n
  <2>1. PICK T : T = {pos[k] : k \in 1..n}
    OBVIOUS
  <2>2. PICK f : f = [k \in 1..n |-> pos[k]]
    OBVIOUS
  <2>3. \A a, b \in 1..n : pos[a] = pos[b] => a = b
    <3> TAKE a, b \in 1..n
    <3>1. a < b \/ b < a \/ a = b
      OBVIOUS
    <3>2. a \in 1..m /\ b \in 1..m
      BY <1>0
    <3>3. pos[a] \in Nat /\ pos[b] \in Nat
      BY <1>0, <3>2
    <3> QED
      BY <3>1, <3>2, <3>3 DEF Enumerates
  <2>4. f \in Bijection(1..n, T)
    BY <2>1, <2>2, <2>3 DEF Bijection, Injection, Surjection, IsInjective
  <2>5. ExistsBijection(1..n, T)
    BY <2>4 DEF ExistsBijection
  <2>6. IsFiniteSet(1..n) /\ Cardinality(1..n) = n
    BY FS_Interval
  <2> QED
    BY <2>1, <2>5, <2>6, FS_Bijection
<1>2. some = {pos[k] : k \in 1..m}
  BY <1>0 DEF Enumerates
<1>3. ASSUME NEW n \in 1..m PROVE {j \in some : j <= pos[n]} = {pos[k] : k \in 1..n}
  <2>1. ASSUME NEW k \in 1..m PROVE pos[k] <= pos[n] <=> k <= n
    <3>1. k < n \/ n < k \/ k = n
      OBVIOUS
    <3>2. pos[k] \in Nat /\ pos[n] \in Nat
      BY <1>0
    <3> QED
      BY <3>1, <3>2 DEF Enumerates
  <2>2. ASSUME NEW j \in some PROVE j <= pos[n] <=> \E k \in 1..n : j = pos[k]
    <3>1. PICK k \in 1..m : j = pos[k]
      BY <1>2
    <3>2. \A l \in 1..n : l \in 1..m /\ l <= n
      BY <1>0
    <3> QED
      BY <1>0, <2>1, <3>1, <3>2
  <2>3. {pos[k] : k \in 1..n} \subseteq some
    BY <1>0
  <2> QED
    BY <2>2, <2>3
<1>4. ASSUME NEW n \in 1..m PROVE Rank(some, pos[n]) = n
  <2>1. n \in 0..m
    BY <1>0
  <2> QED
    BY <1>1, <1>3, <2>1 DEF Rank
<1>5. m \in 0..m
  BY <1>0
<1> QED
  BY <1>1, <1>2, <1>4, <1>5

LEMMA AtPositionsAre ==
  ASSUME NEW pos, NEW m, NEW some, Enumerates(pos, m, some), NEW log
  PROVE  AtPositions(log, some) = [n \in 1..m |-> log[pos[n]]]
<1>1. Cardinality(some) = m /\ \A n \in 1..m : Rank(some, pos[n]) = n
  BY RanksAre
<1>2. ASSUME NEW n \in 1..m PROVE (CHOOSE i \in some : Rank(some, i) = n) = pos[n]
  <2>1. pos[n] \in some /\ Rank(some, pos[n]) = n
    BY <1>1 DEF Enumerates
  <2>2. \A i \in some : Rank(some, i) = n => i = pos[n]
    BY <1>1 DEF Enumerates
  <2> QED
    BY <2>1, <2>2
<1>3. AtPositions(log, some) = [n \in 1..Cardinality(some) |-> log[CHOOSE i \in some : Rank(some, i) = n]]
  BY DEF AtPositions, Rank
<1> QED
  BY <1>1, <1>2, <1>3

(* Every finite set of positions has such an enumeration.                  *)
LEMMA EnumerationExists ==
  ASSUME NEW some \in SUBSET Nat, IsFiniteSet(some)
  PROVE  \E pos : Enumerates(pos, Cardinality(some), some)
<1>1. PICK m \in Nat : m = Cardinality(some)
  BY FS_CardinalityType
<1> DEFINE upTo(i) == {j \in some : j <= i}
<1>2. \A i \in some : IsFiniteSet(upTo(i)) /\ Cardinality(upTo(i)) \in 1..m
  <2> TAKE i \in some
  <2>1. upTo(i) \subseteq some /\ upTo(i) # {}
    OBVIOUS
  <2>2. IsFiniteSet(upTo(i)) /\ Cardinality(upTo(i)) <= m
    BY <1>1, <2>1, FS_Subset
  <2>3. Cardinality(upTo(i)) \in Nat /\ Cardinality(upTo(i)) # 0
    BY <2>1, <2>2, FS_CardinalityType, FS_EmptySet
  <2> QED
    BY <1>1, <2>2, <2>3
<1>3. \A i, j \in some : i < j => Cardinality(upTo(i)) < Cardinality(upTo(j))
  <2> TAKE i, j \in some
  <2> HAVE i < j
  <2>0. i \in Nat /\ j \in Nat
    OBVIOUS
  <2>1. upTo(i) \subseteq upTo(j) /\ j \in upTo(j) /\ j \notin upTo(i)
    <3>1. ASSUME NEW k \in upTo(i) PROVE k \in upTo(j)
      <4>1. k \in Nat /\ k \in some /\ k <= i
        OBVIOUS
      <4> QED
        BY <2>0, <4>1
    <3>2. j \in upTo(j)
      BY <2>0
    <3>3. j \notin upTo(i)
      BY <2>0
    <3> QED
      BY <3>1, <3>2, <3>3
  <2>2. Cardinality(upTo(i)) <= Cardinality(upTo(j)) /\ Cardinality(upTo(i)) # Cardinality(upTo(j))
    BY <1>2, <2>1, FS_Subset
  <2>3. Cardinality(upTo(i)) \in Nat /\ Cardinality(upTo(j)) \in Nat
    BY <1>2
  <2> QED
    BY <2>2, <2>3
<1>4. PICK rank : rank = [i \in some |-> Cardinality(upTo(i))]
  OBVIOUS
<1> HIDE DEF upTo
<1>5. rank \in Injection(some, 1..m)
  <2>1. \A i, j \in some : rank[i] = rank[j] => i = j
    <3> TAKE i, j \in some
    <3>1. i < j \/ j < i \/ i = j
      OBVIOUS
    <3>2. rank[i] \in Nat /\ rank[j] \in Nat /\ (i < j => rank[i] < rank[j]) /\ (j < i => rank[j] < rank[i])
      BY <1>2, <1>3, <1>4
    <3> QED
      BY <3>1, <3>2
  <2> QED
    BY <1>2, <1>4, <2>1 DEF Injection, IsInjective
<1>6. IsFiniteSet(1..m) /\ Cardinality(1..m) = m
  BY <1>1, FS_Interval
<1>7. rank \in Surjection(some, 1..m)
  BY <1>1, <1>5, <1>6, FS_Injection
<1>8. \A n \in 1..m : \E i \in some : rank[i] = n
  BY <1>7 DEF Surjection
<1>9. PICK pos : pos = [n \in 1..m |-> CHOOSE i \in some : rank[i] = n]
  OBVIOUS
<1>10. \A n \in 1..m : pos[n] \in some /\ rank[pos[n]] = n
  BY <1>8, <1>9
<1>11. \A a, b \in 1..m : a < b => pos[a] < pos[b]
  <2> TAKE a, b \in 1..m
  <2> HAVE a < b
  <2>1. pos[a] \in some /\ pos[b] \in some /\ rank[pos[a]] = a /\ rank[pos[b]] = b
    BY <1>10
  <2>2. pos[b] < pos[a] => b < a
    BY <1>3, <1>4, <2>1
  <2>3. pos[a] \in Nat /\ pos[b] \in Nat
    BY <2>1
  <2>4. pos[a] # pos[b]
    BY <2>1
  <2> QED
    BY <2>2, <2>3, <2>4
<1>12. \A i \in some : \E n \in 1..m : pos[n] = i
  <2> TAKE i \in some
  <2>1. rank[i] \in 1..m
    BY <1>2, <1>4
  <2>2. pos[rank[i]] \in some /\ rank[pos[rank[i]]] = rank[i]
    BY <1>10, <2>1
  <2>3. pos[rank[i]] = i
    BY <1>5, <2>2 DEF Injection, IsInjective
  <2> QED
    BY <2>1, <2>3
<1>13. pos \in [1..m -> some]
  BY <1>9, <1>10
<1>14. Enumerates(pos, m, some)
  BY <1>11, <1>12, <1>13 DEF Enumerates
<1> QED
  BY <1>1, <1>14

(* Positions that are chosen in what stands at positions of a log.          *)
Chooses(log, read, m, pos, inRead, inLog) ==
  /\ m \in Nat /\ pos \in [1..m -> Nat] /\ \A a, b \in 1..m : a < b => pos[a] < pos[b]
  /\ inRead \subseteq 1..m /\ inLog \subseteq Nat
  /\ \A n \in 1..m : n \in inRead <=> pos[n] \in inLog
  /\ \A i \in inLog : \E n \in 1..m : pos[n] = i
  /\ \A n \in 1..m : read[n] = log[pos[n]]

LEMMA AtChosenPositions ==
  ASSUME NEW log, NEW read, NEW m, NEW pos, NEW inRead, NEW inLog,
         Chooses(log, read, m, pos, inRead, inLog)
  PROVE  AtPositions(read, inRead) = AtPositions(log, inLog)
<1>0. /\ m \in Nat /\ pos \in [1..m -> Nat] /\ \A a, b \in 1..m : a < b => pos[a] < pos[b]
      /\ inRead \subseteq 1..m /\ inLog \subseteq Nat
      /\ \A n \in 1..m : n \in inRead <=> pos[n] \in inLog
      /\ \A i \in inLog : \E n \in 1..m : pos[n] = i
      /\ \A n \in 1..m : read[n] = log[pos[n]]
  BY DEF Chooses
<1>1. inRead \in SUBSET Nat /\ IsFiniteSet(inRead)
  <2>1. IsFiniteSet(1..m)
    BY <1>0, FS_Interval
  <2>2. IsFiniteSet(inRead)
    BY <1>0, <2>1, FS_Subset
  <2> QED
    BY <1>0, <2>2
<1>2. PICK q : Enumerates(q, Cardinality(inRead), inRead)
  BY <1>1, EnumerationExists
<1>3. PICK c \in Nat : c = Cardinality(inRead)
  BY <1>1, FS_CardinalityType
<1>4. Enumerates(q, c, inRead)
  BY <1>2, <1>3
<1>5. /\ q \in [1..c -> inRead]
      /\ \A a, b \in 1..c : a < b => q[a] < q[b]
      /\ \A i \in inRead : \E n \in 1..c : q[n] = i
  BY <1>4 DEF Enumerates
<1>6. PICK both : both = [n \in 1..c |-> pos[q[n]]]
  OBVIOUS
<1>7. both \in [1..c -> inLog]
  BY <1>0, <1>5, <1>6
<1>8. \A a, b \in 1..c : a < b => both[a] < both[b]
  BY <1>0, <1>5, <1>6
<1>9. \A i \in inLog : \E n \in 1..c : both[n] = i
  <2> TAKE i \in inLog
  <2>1. PICK n \in 1..m : pos[n] = i
    BY <1>0
  <2>2. PICK k \in 1..c : q[k] = n
    BY <1>0, <1>5, <2>1
  <2> QED
    BY <1>6, <2>1, <2>2
<1>10. Enumerates(both, c, inLog)
  BY <1>0, <1>7, <1>8, <1>9 DEF Enumerates
<1>11. AtPositions(log, inLog) = [n \in 1..c |-> log[both[n]]]
  BY <1>10, AtPositionsAre
<1>12. AtPositions(read, inRead) = [n \in 1..c |-> read[q[n]]]
  BY <1>4, AtPositionsAre
<1>13. \A n \in 1..c : read[q[n]] = log[both[n]]
  BY <1>0, <1>5, <1>6
<1> QED
  BY <1>11, <1>12, <1>13

(* A later event of the same key drops the one before.                      *)
Supersedes(e, f) == HasKey(f) /\ HasKey(e) /\ f.data[1].key = e.data[1].key
Lapsed(f) == IsCommit(f) /\ f.data[1].superseded
KeptAt(log) == {i \in DOMAIN log : ~Dropped(log, i)}

LEMMA DroppedIs ==
  ASSUME NEW log, NEW i
  PROVE  Dropped(log, i) <=> Lapsed(log[i]) \/ \E j \in (i + 1)..Len(log) : Supersedes(log[j], log[i])
BY DEF Dropped, Lapsed, Supersedes

LEMMA DroppedWhenAppended ==
  ASSUME NEW log \in Seq(LaneEvent), NEW e \in LaneEvent
  PROVE  /\ DOMAIN Append(log, e) = 1..(Len(log) + 1)
         /\ \A i \in 1..Len(log) : Dropped(Append(log, e), i) <=> Dropped(log, i) \/ Supersedes(e, log[i])
         /\ Dropped(Append(log, e), Len(log) + 1) <=> Lapsed(e)
<1>1. PICK n \in Nat : n = Len(log)
  OBVIOUS
<1>2. PICK longer : longer = Append(log, e)
  OBVIOUS
<1>3. /\ longer \in Seq(LaneEvent) /\ Len(longer) = n + 1 /\ DOMAIN longer = 1..(n + 1)
      /\ longer[n + 1] = e /\ \A i \in 1..n : longer[i] = log[i]
  BY <1>1, <1>2
<1>4. ASSUME NEW i \in 1..n PROVE Dropped(longer, i) <=> Dropped(log, i) \/ Supersedes(e, log[i])
  <2>1. \A j \in (i + 1)..(n + 1) : j \in (i + 1)..n \/ j = n + 1
    OBVIOUS
  <2>2. \A j \in (i + 1)..n : j \in (i + 1)..(n + 1) /\ longer[j] = log[j]
    BY <1>3
  <2>3. n + 1 \in (i + 1)..(n + 1)
    OBVIOUS
  <2>4. longer[i] = log[i] /\ longer[n + 1] = e
    BY <1>3
  <2>5. (\E j \in (i + 1)..(n + 1) : Supersedes(longer[j], longer[i]))
          <=> (\E j \in (i + 1)..n : Supersedes(log[j], log[i])) \/ Supersedes(e, log[i])
    <3> DEFINE over(a) == Supersedes(a, log[i])
    <3>1. (\E j \in (i + 1)..(n + 1) : over(longer[j])) <=> (\E j \in (i + 1)..n : over(log[j])) \/ over(e)
      <4> HIDE DEF over
      <4> QED
        BY <2>1, <2>2, <2>3, <2>4
    <3> QED
      BY <2>4, <3>1
  <2>6. Len(longer) = n + 1 /\ Len(log) = n
    BY <1>1, <1>3
  <2>7. Dropped(longer, i) <=> Lapsed(longer[i]) \/ \E j \in (i + 1)..(n + 1) : Supersedes(longer[j], longer[i])
    BY <2>6, DroppedIs
  <2>8. Dropped(log, i) <=> Lapsed(log[i]) \/ \E j \in (i + 1)..n : Supersedes(log[j], log[i])
    BY <2>6, DroppedIs
  <2> QED
    BY <2>4, <2>5, <2>7, <2>8
<1>5. Dropped(longer, n + 1) <=> Lapsed(e)
  <2>1. (n + 1 + 1)..Len(longer) = {}
    BY <1>3
  <2> QED
    BY <1>3, <2>1, DroppedIs
<1> QED
  BY <1>1, <1>2, <1>3, <1>4, <1>5

(* What is left of a log: the kept ones in their order, none of which drops *)
(* another.                                                                 *)
Survivors(log, pos, m) ==
  /\ Enumerates(pos, m, KeptAt(log)) /\ pos \in [1..m -> 1..Len(log)]
  /\ Dedupe(log) = [n \in 1..m |-> log[pos[n]]]
  /\ Dedupe(log) \in Seq(LaneEvent) /\ Len(Dedupe(log)) = m /\ m <= Len(log)

LEMMA SurvivorsExist ==
  ASSUME NEW log \in Seq(LaneEvent)
  PROVE  \E pos : \E m \in Nat : Survivors(log, pos, m)
<1>1. KeptAt(log) \subseteq 1..Len(log)
  BY DEF KeptAt
<1>2. IsFiniteSet(1..Len(log)) /\ Cardinality(1..Len(log)) = Len(log)
  <2>1. PICK length \in Nat : length = Len(log)
    OBVIOUS
  <2>2. IsFiniteSet(1..length) /\ Cardinality(1..length) = length
    BY FS_Interval
  <2> QED
    BY <2>1, <2>2
<1>3. IsFiniteSet(KeptAt(log)) /\ Cardinality(KeptAt(log)) <= Len(log) /\ Cardinality(KeptAt(log)) \in Nat
  BY <1>1, <1>2, FS_Subset, FS_CardinalityType
<1>4. PICK m \in Nat : m = Cardinality(KeptAt(log))
  BY <1>3
<1>5. KeptAt(log) \in SUBSET Nat
  BY <1>1
<1>6. PICK pos : Enumerates(pos, m, KeptAt(log))
  BY <1>3, <1>4, <1>5, EnumerationExists
<1>7. pos \in [1..m -> KeptAt(log)]
  BY <1>6 DEF Enumerates
<1>8. pos \in [1..m -> 1..Len(log)]
  BY <1>1, <1>7
<1>9. AtPositions(log, KeptAt(log)) = [n \in 1..m |-> log[pos[n]]]
  BY <1>6, AtPositionsAre
<1>10. Dedupe(log) = [n \in 1..m |-> log[pos[n]]]
  BY <1>9 DEF Dedupe, KeptAt
<1>11. \A n \in 1..m : log[pos[n]] \in LaneEvent
  BY <1>8
<1>12. Dedupe(log) \in Seq(LaneEvent) /\ Len(Dedupe(log)) = m
  BY <1>10, <1>11
<1>13. Survivors(log, pos, m)
  BY <1>3, <1>4, <1>6, <1>8, <1>10, <1>12 DEF Survivors
<1> QED
  BY <1>13

LEMMA SurvivorsStay ==
  ASSUME NEW log \in Seq(LaneEvent), NEW pos, NEW m \in Nat, Survivors(log, pos, m)
  PROVE  \A n \in 1..m : ~Dropped(log, pos[n]) /\ ~Dropped(Dedupe(log), n)
<1> TAKE n \in 1..m
<1>1. /\ pos \in [1..m -> KeptAt(log)] /\ pos \in [1..m -> 1..Len(log)]
      /\ \A a, b \in 1..m : a < b => pos[a] < pos[b]
  BY DEF Survivors, Enumerates
<1>2. ~Dropped(log, pos[n])
  BY <1>1 DEF KeptAt
<1>3. PICK read : read = Dedupe(log)
  OBVIOUS
<1>4. Len(read) = m /\ \A k \in 1..m : read[k] = log[pos[k]]
  BY <1>3 DEF Survivors
<1>5. ~Lapsed(log[pos[n]]) /\ \A j \in (pos[n] + 1)..Len(log) : ~Supersedes(log[j], log[pos[n]])
  BY <1>2, DroppedIs
<1>6. ASSUME NEW k \in (n + 1)..m PROVE ~Supersedes(read[k], read[n])
  <2>1. k \in 1..m /\ n < k
    OBVIOUS
  <2>2. pos[k] \in 1..Len(log) /\ pos[n] \in 1..Len(log) /\ pos[n] < pos[k]
    BY <1>1, <2>1
  <2>3. pos[k] \in (pos[n] + 1)..Len(log)
    BY <2>2
  <2> QED
    BY <1>4, <1>5, <2>1, <2>3
<1>7. ~Dropped(read, n)
  BY <1>4, <1>5, <1>6, DroppedIs
<1> QED
  BY <1>2, <1>3, <1>7

(* A reader that drops as it goes ends with what a reader at the end has.   *)
LEMMA ReadAsItGrows ==
  ASSUME NEW log \in Seq(LaneEvent), NEW e \in LaneEvent
  PROVE  Dedupe(Append(Dedupe(log), e)) = Dedupe(Append(log, e))
<1>1. PICK pos : \E k \in Nat : Survivors(log, pos, k)
  BY SurvivorsExist
<1>2. PICK m \in Nat : Survivors(log, pos, m)
  BY <1>1
<1>3. PICK length \in Nat : length = Len(log)
  OBVIOUS
<1>4. /\ pos \in [1..m -> KeptAt(log)] /\ pos \in [1..m -> 1..length]
      /\ \A a, b \in 1..m : a < b => pos[a] < pos[b]
      /\ \A i \in KeptAt(log) : \E n \in 1..m : pos[n] = i
  BY <1>2, <1>3 DEF Survivors, Enumerates
<1>5. PICK read \in Seq(LaneEvent) : read = Dedupe(log)
  BY <1>2 DEF Survivors
<1>6. Len(read) = m /\ \A n \in 1..m : read[n] = log[pos[n]]
  BY <1>2, <1>5 DEF Survivors
<1>7. PICK log2 : log2 = Append(log, e)
  OBVIOUS
<1>8. PICK read2 : read2 = Append(read, e)
  OBVIOUS
<1>9. PICK pos2 : pos2 = [n \in 1..(m + 1) |-> IF n <= m THEN pos[n] ELSE length + 1]
  OBVIOUS
<1>10. (\A n \in 1..m : pos2[n] = pos[n] /\ pos2[n] \in 1..length) /\ pos2[m + 1] = length + 1
  BY <1>4, <1>9
<1>11. pos2 \in [1..(m + 1) -> Nat]
  BY <1>4, <1>9
<1>12. \A a, b \in 1..(m + 1) : a < b => pos2[a] < pos2[b]
  <2> TAKE a, b \in 1..(m + 1)
  <2> HAVE a < b
  <2>1. a \in 1..m /\ (b \in 1..m \/ b = m + 1)
    OBVIOUS
  <2>2. pos2[a] = pos[a] /\ pos2[a] \in 1..length
    BY <1>10, <2>1
  <2>3. CASE b \in 1..m
    <3>1. pos2[b] = pos[b] /\ pos[a] < pos[b]
      BY <1>4, <1>10, <2>1, <2>3
    <3> QED
      BY <2>2, <3>1
  <2>4. CASE b = m + 1
    <3>1. pos2[b] = length + 1
      BY <1>10, <2>4
    <3> QED
      BY <2>2, <3>1
  <2> QED
    BY <2>1, <2>3, <2>4
<1>13. /\ DOMAIN log2 = 1..(length + 1)
       /\ \A i \in 1..length : Dropped(log2, i) <=> Dropped(log, i) \/ Supersedes(e, log[i])
       /\ Dropped(log2, length + 1) <=> Lapsed(e)
  BY <1>3, <1>7, DroppedWhenAppended
<1>14. /\ DOMAIN read2 = 1..(m + 1)
       /\ \A n \in 1..m : Dropped(read2, n) <=> Dropped(read, n) \/ Supersedes(e, read[n])
       /\ Dropped(read2, m + 1) <=> Lapsed(e)
  BY <1>6, <1>8, DroppedWhenAppended
<1>15. ASSUME NEW n \in 1..(m + 1)
       PROVE  read2[n] = log2[pos2[n]] /\ (n \in KeptAt(read2) <=> pos2[n] \in KeptAt(log2))
  <2>1. CASE n \in 1..m
    <3>1. pos[n] \in 1..length /\ pos2[n] = pos[n]
      BY <1>4, <1>10, <2>1
    <3>2. read2[n] = read[n] /\ log2[pos[n]] = log[pos[n]]
      BY <1>3, <1>6, <1>7, <1>8, <2>1, <3>1
    <3>3. ~Dropped(log, pos[n]) /\ ~Dropped(read, n)
      BY <1>2, <1>5, <2>1, SurvivorsStay
    <3>4. Dropped(read2, n) <=> Supersedes(e, read[n])
      BY <1>14, <2>1, <3>3
    <3>5. Dropped(log2, pos[n]) <=> Supersedes(e, log[pos[n]])
      BY <1>13, <3>1, <3>3
    <3>6. read[n] = log[pos[n]]
      BY <1>6, <2>1
    <3>7. n \in DOMAIN read2 /\ pos[n] \in DOMAIN log2
      BY <1>13, <1>14, <3>1
    <3> QED
      BY <3>1, <3>2, <3>4, <3>5, <3>6, <3>7 DEF KeptAt
  <2>2. CASE n = m + 1
    <3>1. read2[m + 1] = e
      BY <1>6, <1>8
    <3>2. log2[length + 1] = e
      BY <1>3, <1>7
    <3>3. m + 1 \in DOMAIN read2 /\ length + 1 \in DOMAIN log2
      BY <1>13, <1>14
    <3> QED
      BY <1>10, <1>13, <1>14, <2>2, <3>1, <3>2, <3>3 DEF KeptAt
  <2> QED
    BY <2>1, <2>2
<1>16. ASSUME NEW i \in KeptAt(log2) PROVE \E n \in 1..(m + 1) : pos2[n] = i
  <2>1. i \in 1..(length + 1) /\ ~Dropped(log2, i)
    BY <1>13 DEF KeptAt
  <2>2. CASE i = length + 1
    <3>1. m + 1 \in 1..(m + 1)
      OBVIOUS
    <3> QED
      BY <1>10, <2>2, <3>1
  <2>3. CASE i \in 1..length
    <3>1. i \in KeptAt(log)
      BY <1>3, <1>13, <2>1, <2>3 DEF KeptAt
    <3>2. PICK n \in 1..m : pos[n] = i
      BY <1>4, <3>1
    <3>3. n \in 1..(m + 1)
      OBVIOUS
    <3> QED
      BY <1>10, <3>2, <3>3
  <2> QED
    BY <2>1, <2>2, <2>3
<1>17. KeptAt(read2) \in SUBSET (1..(m + 1)) /\ KeptAt(log2) \in SUBSET Nat
  BY <1>13, <1>14 DEF KeptAt
<1>18. PICK n \in Nat : n = m + 1
  OBVIOUS
<1>19. pos2 \in [1..n -> Nat]
  BY <1>11, <1>18
<1>20. \A a, b \in 1..n : a < b => pos2[a] < pos2[b]
  BY <1>12, <1>18
<1>21. PICK inRead \in SUBSET (1..n) : inRead = KeptAt(read2)
  BY <1>17, <1>18
<1>22. PICK inLog \in SUBSET Nat : inLog = KeptAt(log2)
  BY <1>17
<1>23. \A a \in 1..n : a \in inRead <=> pos2[a] \in inLog
  BY <1>15, <1>18, <1>21, <1>22
<1>24. \A i \in inLog : \E a \in 1..n : pos2[a] = i
  BY <1>16, <1>18, <1>22
<1>25. \A a \in 1..n : read2[a] = log2[pos2[a]]
  BY <1>15, <1>18
<1>26. Chooses(log2, read2, n, pos2, inRead, inLog)
  BY <1>19, <1>20, <1>23, <1>24, <1>25 DEF Chooses
<1>27. AtPositions(read2, inRead) = AtPositions(log2, inLog)
  BY <1>26, AtChosenPositions
<1> QED
  BY <1>5, <1>7, <1>8, <1>21, <1>22, <1>27 DEF Dedupe, KeptAt

(* Of a log that is read, one live event per key is left, and every event   *)
(* that is not a commit.                                                    *)
LEMMA OneLiveIsLeft ==
  ASSUME NEW log \in Seq(LaneEvent), NEW k
  PROVE  Cardinality(Live(Dedupe(log), k)) = IF Live(log, k) = {} THEN 0 ELSE 1
<1>1. PICK pos : \E n \in Nat : Survivors(log, pos, n)
  BY SurvivorsExist
<1>2. PICK m \in Nat : Survivors(log, pos, m)
  BY <1>1
<1>3. PICK length \in Nat : length = Len(log)
  OBVIOUS
<1>4. /\ pos \in [1..m -> 1..length]
      /\ \A i \in KeptAt(log) : \E n \in 1..m : pos[n] = i
  BY <1>2, <1>3 DEF Survivors, Enumerates
<1>5. PICK read \in Seq(LaneEvent) : read = Dedupe(log)
  BY <1>2 DEF Survivors
<1>6. Len(read) = m /\ DOMAIN read = 1..m /\ \A n \in 1..m : read[n] = log[pos[n]]
  BY <1>2, <1>5 DEF Survivors
<1>7. ASSUME NEW a \in Live(read, k), NEW b \in Live(read, k) PROVE a = b
  <2>1. a \in 1..m /\ b \in 1..m
    BY <1>6 DEF Live
  <2>2. Supersedes(read[a], read[b]) /\ Supersedes(read[b], read[a])
    BY DEF Live, Supersedes
  <2>3. ~Dropped(read, a) /\ ~Dropped(read, b)
    BY <1>2, <1>5, <2>1, SurvivorsStay
  <2>4. ~(a < b)
    <3>1. a < b => b \in (a + 1)..Len(read)
      BY <1>6, <2>1
    <3> QED
      BY <2>2, <2>3, <3>1, DroppedIs
  <2>5. ~(b < a)
    <3>1. b < a => a \in (b + 1)..Len(read)
      BY <1>6, <2>1
    <3> QED
      BY <2>2, <2>3, <3>1, DroppedIs
  <2> QED
    BY <2>1, <2>4, <2>5
<1>8. ASSUME NEW n \in Live(read, k) PROVE Live(log, k) # {}
  <2>1. n \in 1..m /\ HasKey(read[n]) /\ read[n].data[1].key = k
    BY <1>6 DEF Live
  <2>2. pos[n] \in DOMAIN log /\ read[n] = log[pos[n]]
    BY <1>3, <1>4, <1>6, <2>1
  <2>3. pos[n] \in Live(log, k)
    BY <2>1, <2>2 DEF Live
  <2> QED
    BY <2>3
<1>9. ASSUME Live(log, k) # {} PROVE \E n : n \in Live(read, k)
  <2>1. PICK T : T = {j \in Nat : j <= length /\ length - j \in Live(log, k)}
    OBVIOUS
  <2>2. \A i \in Live(log, k) : i \in 1..length
    BY <1>3 DEF Live
  <2>3. T \in SUBSET Nat /\ T # {}
    <3>1. PICK i \in Live(log, k) : TRUE
      BY <1>9
    <3>2. i \in 1..length
      BY <2>2
    <3>3. length - i \in Nat /\ length - i <= length /\ length - (length - i) = i
      BY <3>2
    <3>4. length - i \in T
      BY <2>1, <3>1, <3>3
    <3> QED
      BY <2>1, <3>4
  <2>4. PICK j \in T : \A l \in T : j <= l
    BY <2>3, LeastOf
  <2>5. PICK i \in Live(log, k) : i = length - j
    BY <2>1
  <2>6. i \in 1..length /\ j \in Nat /\ HasKey(log[i]) /\ log[i].data[1].key = k
    BY <2>1, <2>2, <2>5 DEF Live
  <2>7. ASSUME NEW l \in (i + 1)..length PROVE ~Supersedes(log[l], log[i])
    <3>1. l \in 1..length /\ i < l
      BY <2>6
    <3>2. SUFFICES ASSUME Supersedes(log[l], log[i]) PROVE FALSE
      OBVIOUS
    <3>3. l \in Live(log, k)
      BY <1>3, <2>6, <3>1, <3>2 DEF Live, Supersedes
    <3>4. length - l \in Nat /\ length - l <= length /\ length - (length - l) = l
      BY <3>1
    <3>5. length - l \in T
      BY <2>1, <3>3, <3>4
    <3>6. j <= length - l
      BY <2>4, <3>5
    <3> QED
      BY <2>5, <2>6, <3>1, <3>6
  <2>8. ~Lapsed(log[i])
    BY <2>6 DEF HasKey, Lapsed
  <2>9. ~Dropped(log, i)
    BY <1>3, <2>7, <2>8, DroppedIs
  <2>10. i \in KeptAt(log)
    BY <1>3, <2>6, <2>9 DEF KeptAt
  <2>11. PICK n \in 1..m : pos[n] = i
    BY <1>4, <2>10
  <2>12. n \in Live(read, k)
    BY <1>6, <2>6, <2>11 DEF Live
  <2> QED
    BY <2>12
<1>10. CASE Live(log, k) = {}
  <2>1. Live(read, k) = {}
    BY <1>8, <1>10
  <2> QED
    BY <1>5, <1>10, <2>1, FS_EmptySet
<1>11. CASE Live(log, k) # {}
  <2>1. PICK n : n \in Live(read, k)
    BY <1>9, <1>11
  <2>2. Live(read, k) = {n}
    BY <1>7, <2>1
  <2>3. Cardinality({n}) = 1
    BY FS_Singleton
  <2> QED
    BY <1>5, <1>11, <2>2, <2>3
<1> QED
  BY <1>10, <1>11

LEMMA OthersAreLeft ==
  ASSUME NEW log \in Seq(LaneEvent)
  PROVE  AtPositions(Dedupe(log), Others(Dedupe(log))) = AtPositions(log, Others(log))
<1>1. PICK pos : \E n \in Nat : Survivors(log, pos, n)
  BY SurvivorsExist
<1>2. PICK m \in Nat : Survivors(log, pos, m)
  BY <1>1
<1>3. /\ pos \in [1..m -> 1..Len(log)]
      /\ \A a, b \in 1..m : a < b => pos[a] < pos[b]
      /\ \A i \in KeptAt(log) : \E n \in 1..m : pos[n] = i
  BY <1>2 DEF Survivors, Enumerates
<1>4. PICK read \in Seq(LaneEvent) : read = Dedupe(log)
  BY <1>2 DEF Survivors
<1>5. DOMAIN read = 1..m /\ \A n \in 1..m : read[n] = log[pos[n]]
  BY <1>2, <1>4 DEF Survivors
<1>6. ASSUME NEW i \in Others(log) PROVE \E n \in 1..m : pos[n] = i
  <2>1. i \in DOMAIN log /\ ~IsCommit(log[i])
    BY DEF Others
  <2>2. ~Dropped(log, i)
    BY <2>1 DEF Dropped, HasKey
  <2>3. i \in KeptAt(log)
    BY <2>1, <2>2 DEF KeptAt
  <2> QED
    BY <1>3, <2>3
<1>7. \A n \in 1..m : pos[n] \in DOMAIN log
  BY <1>3
<1>8. \A n \in 1..m : n \in Others(read) <=> pos[n] \in Others(log)
  BY <1>5, <1>7 DEF Others
<1>9. Others(read) \in SUBSET (1..m) /\ Others(log) \in SUBSET Nat
  BY <1>5 DEF Others
<1>10. pos \in [1..m -> Nat]
  BY <1>3
<1>11. PICK inRead \in SUBSET (1..m) : inRead = Others(read)
  BY <1>9
<1>12. PICK inLog \in SUBSET Nat : inLog = Others(log)
  BY <1>9
<1>13. \A n \in 1..m : n \in inRead <=> pos[n] \in inLog
  BY <1>8, <1>11, <1>12
<1>14. \A i \in inLog : \E n \in 1..m : pos[n] = i
  BY <1>6, <1>12
<1>15. \A a, b \in 1..m : a < b => pos[a] < pos[b]
  BY <1>3
<1>16. Chooses(log, read, m, pos, inRead, inLog)
  BY <1>5, <1>10, <1>13, <1>14, <1>15 DEF Chooses
<1>17. AtPositions(read, inRead) = AtPositions(log, inLog)
  BY <1>16, AtChosenPositions
<1> QED
  BY <1>4, <1>11, <1>12, <1>17

LogInv ==
  /\ laneLog \in Seq(LaneEvent) /\ Len(laneLog) <= MaxLog
  /\ reader = Dedupe(laneLog)

LEMMA LogInitially == LogInit => LogInv
<1> SUFFICES ASSUME LogInit PROVE LogInv
  OBVIOUS
<1>1. PICK none : none = <<>>
  OBVIOUS
<1>2. laneLog = none /\ reader = none /\ none \in Seq(LaneEvent) /\ Len(none) = 0
  BY <1>1 DEF LogInit
<1>3. Dedupe(none) \in Seq(LaneEvent) /\ Len(Dedupe(none)) <= Len(none)
  BY <1>2, SurvivorsExist DEF Survivors
<1>4. Dedupe(none) = none
  BY <1>1, <1>2, <1>3, EmptySeq
<1> QED
  BY <1>2, <1>4, LogAssumption DEF LogInv

LEMMA EmittedIs ==
  ASSUME NEW e \in Constructed \cup {Decoded("commit.created", Malformed)}
  PROVE  e \in LaneEvent
<1>1. \A d \in Payloads, n \in EventNames : Decoded(n, d) \in LaneEvent
  BY DEF Decoded, LaneEvent, EventNames
<1>2. \A p \in Provenance : <<p>> \in Payloads
  BY DEF Payloads
<1>3. <<>> \in Payloads /\ Malformed \in Payloads
  BY DEF Payloads
<1>4. [key |-> "none", superseded |-> FALSE] \in Provenance
  BY DEF Provenance
<1>5. {"commit.created", "superseded", "finished", "stale_against_main"} \subseteq EventNames
  BY DEF EventNames
<1>6. PICK stale : stale = [key |-> "none", superseded |-> FALSE]
  OBVIOUS
<1>7. \/ \E n \in {"commit.created", "superseded"}, p \in Provenance : e = Decoded(n, <<p>>)
      \/ e = Decoded("finished", <<>>) \/ e = Decoded("stale_against_main", <<stale>>)
      \/ e = Decoded("commit.created", Malformed)
  <2>1. PICK created : created = {Decoded("commit.created", <<p>>) : p \in Provenance}
    OBVIOUS
  <2>2. PICK ended : ended = {Decoded("superseded", <<p>>) : p \in Provenance}
    OBVIOUS
  <2>3. e \in created \/ e \in ended \/ e = Decoded("finished", <<>>)
        \/ e = Decoded("stale_against_main", <<stale>>) \/ e = Decoded("commit.created", Malformed)
    BY <1>6, <2>1, <2>2, Zenon DEF Constructed
  <2>4. (e \in created => \E p \in Provenance : e = Decoded("commit.created", <<p>>))
        /\ (e \in ended => \E p \in Provenance : e = Decoded("superseded", <<p>>))
    BY <2>1, <2>2
  <2> QED
    BY <2>3, <2>4
<1>8. <<stale>> \in Payloads
  BY <1>2, <1>4, <1>6
<1> QED
  BY <1>1, <1>2, <1>3, <1>5, <1>7, <1>8

LEMMA LogStep == LogInv /\ [LogNext]_laneVars => LogInv'
<1> SUFFICES ASSUME LogInv, [LogNext]_laneVars PROVE LogInv'
  OBVIOUS
<1>1. ASSUME NEW e \in LaneEvent, Emit(e) PROVE LogInv'
  <2>1. PICK log \in Seq(LaneEvent) : log = laneLog
    BY DEF LogInv
  <2>2. Len(log) < MaxLog /\ laneLog' = Append(log, e) /\ reader' = Dedupe(Append(Dedupe(log), e))
    BY <1>1, <2>1 DEF LogInv, Emit
  <2>3. reader' = Dedupe(Append(log, e))
    BY <2>2, ReadAsItGrows
  <2>4. Append(log, e) \in Seq(LaneEvent) /\ Len(Append(log, e)) = Len(log) + 1 /\ Len(log) \in Nat
    OBVIOUS
  <2>5. Len(laneLog') <= MaxLog
    BY <2>2, <2>4, LogAssumption
  <2>6. reader' = Dedupe(laneLog') /\ laneLog' \in Seq(LaneEvent)
    BY <2>2, <2>3, <2>4
  <2> QED
    BY <2>5, <2>6 DEF LogInv
<1>2. CASE LogNext
  BY <1>1, <1>2, EmittedIs DEF LogNext
<1>3. CASE UNCHANGED laneVars
  BY <1>3 DEF LogInv, laneVars
<1> QED
  BY <1>2, <1>3

LEMMA LogIsRead == LogInv => LogTypeOK /\ ReadersAgree
<1> SUFFICES ASSUME LogInv PROVE LogTypeOK /\ ReadersAgree
  OBVIOUS
<1>1. PICK log \in Seq(LaneEvent) : log = laneLog
  BY DEF LogInv
<1>2. reader = Dedupe(log) /\ Len(log) <= MaxLog
  BY <1>1 DEF LogInv
<1>3. PICK read : read = Dedupe(log)
  OBVIOUS
<1>4. read \in Seq(LaneEvent) /\ Len(read) <= Len(log)
  BY <1>3, SurvivorsExist DEF Survivors
<1>5. LogTypeOK
  BY <1>1, <1>2, <1>3, <1>4 DEF LogTypeOK
<1>6. \A k \in Commits : Cardinality(Live(reader, k)) = IF Live(laneLog, k) = {} THEN 0 ELSE 1
  BY <1>1, <1>2, OneLiveIsLeft
<1>7. AtPositions(reader, Others(reader)) = AtPositions(laneLog, Others(laneLog))
  BY <1>1, <1>2, OthersAreLeft
<1> QED
  BY <1>1, <1>2, <1>5, <1>6, <1>7 DEF ReadersAgree

-----------------------------------------------------------------------------
(* The policy engine: its rules are those given, each once, in the order of *)
(* RuleBefore.                                                              *)
EngineOrder(s, n, list) ==
  /\ n \in Nat /\ s \in [1..n -> 1..n]
  /\ \A a, b \in 1..n : a < b => RuleBefore(list, s[a], s[b])
  /\ \A i \in 1..n : \E k \in 1..n : s[k] = i
  /\ NewEngine(list) = [k \in 1..n |-> list[s[k]]]

(* The engine holds the rules in the order of RuleBefore.                   *)
LEMMA RulesOrdered ==
  ASSUME NEW list \in RuleLists, NEW n \in Nat, n = Len(list)
  PROVE  \A i, j \in 1..n :
           /\ ~RuleBefore(list, i, i)
           /\ i # j => RuleBefore(list, i, j) \/ RuleBefore(list, j, i)
           /\ ~(RuleBefore(list, i, j) /\ RuleBefore(list, j, i))
           /\ \A k \in 1..n : RuleBefore(list, k, i) /\ RuleBefore(list, i, j) => RuleBefore(list, k, j)
<1>1. \A i \in 1..n : list[i].priority \in Int
  BY RulesAssumption
<1>2. PICK p \in [1..n -> Int] : \A i \in 1..n : p[i] = list[i].priority
  <2>1. [i \in 1..n |-> list[i].priority] \in [1..n -> Int]
    BY <1>1
  <2> QED
    BY <2>1
<1>3. \A i, j \in 1..n : RuleBefore(list, i, j) <=> p[i] < p[j] \/ (p[i] = p[j] /\ i < j)
  BY <1>2, Zenon DEF RuleBefore
<1>4. TAKE i, j \in 1..n
<1>5. p[i] \in Int /\ p[j] \in Int /\ i \in Int /\ j \in Int
  OBVIOUS
<1>6. ~RuleBefore(list, i, i)
  BY <1>3, <1>5
<1>7. i # j => RuleBefore(list, i, j) \/ RuleBefore(list, j, i)
  <2>1. p[i] < p[j] \/ p[j] < p[i] \/ p[i] = p[j]
    BY <1>5
  <2>2. i # j => i < j \/ j < i
    BY <1>5
  <2> QED
    BY <1>3, <2>1, <2>2
<1>8. ~(RuleBefore(list, i, j) /\ RuleBefore(list, j, i))
  BY <1>3, <1>5
<1>9. ASSUME NEW k \in 1..n, RuleBefore(list, k, i), RuleBefore(list, i, j) PROVE RuleBefore(list, k, j)
  <2>1. p[k] \in Int /\ k \in Int
    OBVIOUS
  <2>2. (p[k] < p[i] \/ (p[k] = p[i] /\ k < i)) /\ (p[i] < p[j] \/ (p[i] = p[j] /\ i < j))
    BY <1>3, <1>9
  <2>3. p[k] < p[j] \/ (p[k] = p[j] /\ k < j)
    BY <1>5, <2>1, <2>2
  <2> QED
    BY <1>3, <2>3
<1> QED
  BY <1>6, <1>7, <1>8, <1>9

LEMMA EngineIs ==
  ASSUME NEW list \in RuleLists, NEW n \in Nat, n = Len(list)
  PROVE  \E s : EngineOrder(s, n, list)
<1>0. DOMAIN list = 1..n
  BY RulesAssumption
<1> DEFINE ahead(i) == {j \in 1..n : RuleBefore(list, j, i)}
<1>1. IsFiniteSet(1..n) /\ Cardinality(1..n) = n /\ IsFiniteSet(0..(n - 1)) /\ Cardinality(0..(n - 1)) = n
  <2>1. 1 \in Int /\ n \in Int /\ 0 \in Int
    OBVIOUS
  <2>2. PICK m \in Int : m = n - 1
    OBVIOUS
  <2>3. /\ IsFiniteSet(1..n) /\ Cardinality(1..n) = IF 1 > n THEN 0 ELSE n - 1 + 1
        /\ IsFiniteSet(0..m) /\ Cardinality(0..m) = IF 0 > m THEN 0 ELSE m - 0 + 1
    BY <2>1, <2>2, FS_Interval, Zenon
  <2>4. (IF 1 > n THEN 0 ELSE n - 1 + 1) = n /\ (IF 0 > m THEN 0 ELSE m - 0 + 1) = n
    BY <2>2
  <2>5. IsFiniteSet(0..(n - 1)) /\ Cardinality(0..(n - 1)) = n
    BY <2>2, <2>3, <2>4
  <2> QED
    BY <2>3, <2>4, <2>5
<1>4. PICK rank : rank = [i \in 1..n |-> Cardinality(ahead(i))]
  OBVIOUS
<1>2. \A i \in 1..n : IsFiniteSet(ahead(i)) /\ rank[i] \in 0..(n - 1)
  <2> TAKE i \in 1..n
  <2>0. PICK A : A = ahead(i)
    OBVIOUS
  <2>1. A \subseteq 1..n /\ A # 1..n
    BY <2>0, RulesOrdered
  <2>2. IsFiniteSet(A) /\ Cardinality(A) <= n /\ Cardinality(A) # n
    <3>1. PICK N : N = 1..n
      OBVIOUS
    <3>2. IsFiniteSet(N) /\ Cardinality(N) = n /\ A \subseteq N /\ A # N
      BY <1>1, <2>1, <3>1, Zenon
    <3> QED
      BY <3>2, FS_Subset
  <2>3. Cardinality(A) \in Nat
    BY <2>2, FS_CardinalityType
  <2>4. Cardinality(A) \in 0..(n - 1)
    BY <2>2, <2>3
  <2> QED
    BY <1>4, <2>0, <2>2, <2>4
<1>3. ASSUME NEW i \in 1..n, NEW j \in 1..n, RuleBefore(list, i, j) PROVE rank[i] < rank[j]
  <2>0. PICK A : A = ahead(i)
    OBVIOUS
  <2>0b. PICK B : B = ahead(j)
    OBVIOUS
  <2>1. A \subseteq B /\ i \in B /\ i \notin A
    <3>1. ASSUME NEW k \in A PROVE k \in B
      BY <1>3, <2>0, <2>0b, RulesOrdered
    <3> QED
      BY <1>3, <2>0, <2>0b, <3>1, RulesOrdered
  <2>4. IsFiniteSet(B) /\ rank[i] = Cardinality(A) /\ rank[j] = Cardinality(B)
    BY <1>2, <1>4, <2>0, <2>0b
  <2>2. Cardinality(A) <= Cardinality(B) /\ Cardinality(A) # Cardinality(B)
    BY <2>1, <2>4, FS_Subset
  <2>3. rank[i] \in 0..(n - 1) /\ rank[j] \in 0..(n - 1)
    BY <1>2
  <2> QED
    BY <2>2, <2>3, <2>4
<1>5. \A i \in 1..n : rank[i] = Cardinality({j \in DOMAIN list : RuleBefore(list, j, i)})
  BY <1>0, <1>4
<1> HIDE DEF ahead
<1>6. rank \in [1..n -> 0..(n - 1)] /\ \A i, j \in 1..n : RuleBefore(list, i, j) => rank[i] < rank[j]
  BY <1>2, <1>3, <1>4
<1>7. rank \in Injection(1..n, 0..(n - 1))
  <2>1. \A i, j \in 1..n : rank[i] = rank[j] => i = j
    <3> TAKE i, j \in 1..n
    <3>1. i # j => rank[i] < rank[j] \/ rank[j] < rank[i]
      BY <1>6, RulesOrdered
    <3>2. rank[i] \in Nat /\ rank[j] \in Nat
      BY <1>6
    <3> QED
      BY <3>1, <3>2
  <2> QED
    BY <1>6, <2>1 DEF Injection, IsInjective
<1>8. rank \in Surjection(1..n, 0..(n - 1))
  BY <1>1, <1>7, FS_Injection
<1>9. \A k \in 1..n : \E i \in 1..n : rank[i] = k - 1
  <2>1. \A k \in 1..n : k - 1 \in 0..(n - 1)
    OBVIOUS
  <2> QED
    BY <1>8, <2>1 DEF Surjection
<1>10. PICK s : s = [k \in 1..n |-> CHOOSE i \in 1..n : rank[i] = k - 1]
  OBVIOUS
<1>11. \A k \in 1..n : s[k] \in 1..n /\ rank[s[k]] = k - 1
  BY <1>9, <1>10
<1>12. ASSUME NEW a \in 1..n, NEW b \in 1..n, a < b PROVE RuleBefore(list, s[a], s[b])
  <2>1. s[a] \in 1..n /\ s[b] \in 1..n /\ rank[s[a]] = a - 1 /\ rank[s[b]] = b - 1
    BY <1>11
  <2>2. ~(rank[s[b]] < rank[s[a]]) /\ rank[s[a]] # rank[s[b]]
    BY <1>12, <2>1
  <2> QED
    BY <1>6, <2>1, <2>2, RulesOrdered
<1>13. ASSUME NEW i \in 1..n PROVE \E k \in 1..n : s[k] = i
  <2>1. PICK k \in 1..n : k = rank[i] + 1
    BY <1>6
  <2>4. k - 1 = rank[i]
    BY <1>6, <2>1
  <2>2. s[k] \in 1..n /\ rank[s[k]] = rank[i]
    BY <1>11, <2>4
  <2>3. s[k] = i
    BY <1>7, <2>2 DEF Injection, IsInjective
  <2> QED
    BY <2>3
<1>14. NewEngine(list) = [k \in 1..n |-> list[s[k]]]
  <2>1. ASSUME NEW k \in 1..n
        PROVE  (CHOOSE i \in DOMAIN list : Cardinality({j \in DOMAIN list : RuleBefore(list, j, i)}) = k - 1) = s[k]
    <3>2. s[k] = CHOOSE i \in 1..n : rank[i] = k - 1
      BY <1>10
    <3> QED
      BY <1>0, <1>5, <3>2, Zenon
  <2> DEFINE place(k) == CHOOSE i \in DOMAIN list : Cardinality({j \in DOMAIN list : RuleBefore(list, j, i)}) = k - 1
  <2>2. \A k \in 1..n : place(k) = s[k]
    BY <2>1
  <2>3. NewEngine(list) = [k \in DOMAIN list |-> list[place(k)]]
    BY DEF NewEngine
  <2> HIDE DEF place
  <2> QED
    BY <1>0, <2>2, <2>3
<1>15. s \in [1..n -> 1..n]
  BY <1>10, <1>11
<1>16. EngineOrder(s, n, list)
  BY <1>12, <1>13, <1>14, <1>15 DEF EngineOrder
<1> QED
  BY <1>16

(* A flattened sequence grows piece by piece.                               *)
Unfolds(e, parts, n, S) ==
  /\ n \in Nat /\ parts \in [1..n -> Seq(S)] /\ e \in [0..n -> Seq(S)]
  /\ e[0] = <<>> /\ \A k \in 1..n : e[k] = e[k - 1] \o parts[k]
  /\ FlattenSeq(parts) = e[n]

LEMMA UnfoldsExist ==
  ASSUME NEW S, NEW n \in Nat, NEW parts \in [1..n -> Seq(S)]
  PROVE  \E e : Unfolds(e, parts, n, S)
<1>1. parts \in Seq(Seq(S)) /\ Len(parts) = n
  <2>1. PICK T : T = Seq(S)
    OBVIOUS
  <2>2. parts \in Seq(T) /\ Len(parts) = n
    BY <2>1
  <2> QED
    BY <2>1, <2>2
<1>2. PICK none : none = <<>>
  OBVIOUS
<1>2b. none \in Seq(S) /\ \A p \in Seq(S) : none \o p = p
  BY <1>2
<1>3. CASE n = 0
  <2>1. PICK e : e = [k \in 0..n |-> none]
    OBVIOUS
  <2>2. e \in [0..n -> Seq(S)] /\ e[0] = none /\ e[n] = none
    BY <1>2b, <1>3, <2>1
  <2>3. FlattenSeq(parts) = none
    BY <1>1, <1>2, <1>3, FlattenNothing DEF FlattenSeq
  <2>4. \A k \in 1..n : FALSE
    BY <1>3
  <2>5. Unfolds(e, parts, n, S)
    BY <1>2, <2>2, <2>3, <2>4, Zenon DEF Unfolds
  <2> QED
    BY <2>5
<1>4. CASE n # 0
  <2>1. PICK f \in [1..n -> Seq(S)] :
           /\ f[1] = parts[1] /\ \A k \in 2..n : f[k] = f[k - 1] \o parts[k]
           /\ FlattenSeq(parts) = f[n]
    BY <1>1, <1>4, FlattenIs
  <2>2. PICK e : e = [k \in 0..n |-> IF k = 0 THEN none ELSE f[k]]
    OBVIOUS
  <2>3. n \in 1..n /\ 1 \in 1..n /\ 0 \in 0..n
    BY <1>4
  <2>4. e[0] = none /\ \A k \in 1..n : e[k] = f[k]
    BY <2>2, <2>3
  <2>5. e \in [0..n -> Seq(S)]
    <3>1. \A k \in 0..n : k # 0 => k \in 1..n
      OBVIOUS
    <3> QED
      BY <1>2b, <2>1, <2>2, <3>1
  <2>6. ASSUME NEW k \in 1..n PROVE e[k] = e[k - 1] \o parts[k]
    <3>1. CASE k = 1
      <4>1. k - 1 = 0 /\ parts[k] \in Seq(S)
        BY <3>1
      <4>2. e[k] = parts[k] /\ e[k - 1] = none
        BY <2>1, <2>3, <2>4, <3>1, <4>1
      <4> QED
        BY <1>2b, <4>1, <4>2
    <3>2. CASE k # 1
      <4>1. k \in 2..n /\ k - 1 \in 1..n
        BY <3>2
      <4> QED
        BY <2>1, <2>4, <4>1
    <3> QED
      BY <3>1, <3>2
  <2>7. e[n] = FlattenSeq(parts)
    BY <2>1, <2>3, <2>4
  <2>8. Unfolds(e, parts, n, S)
    BY <1>2, <2>4, <2>5, <2>6, <2>7, Zenon DEF Unfolds
  <2> QED
    BY <2>8
<1> QED
  BY <1>3, <1>4

(* Each piece lies behind those before it.                                  *)
Lies(e, parts, n, k) ==
  /\ Len(e[k]) = Len(e[k - 1]) + Len(parts[k])
  /\ SubSeq(e[n], Len(e[k - 1]) + 1, Len(e[k - 1]) + Len(parts[k])) = parts[k]

LEMMA PieceLies ==
  ASSUME NEW S, NEW n, NEW parts, NEW e, Unfolds(e, parts, n, S), NEW k \in 1..n
  PROVE  Lies(e, parts, n, k)
<1>1. /\ n \in Nat /\ parts \in [1..n -> Seq(S)] /\ e \in [0..n -> Seq(S)]
      /\ \A m \in 1..n : e[m] = e[m - 1] \o parts[m]
  BY DEF Unfolds
<1>2. \A m \in 1..n : m \in 0..n /\ m - 1 \in 0..n
  BY <1>1
<1>3. ASSUME NEW m \in 1..n
      PROVE  /\ Len(e[m]) = Len(e[m - 1]) + Len(parts[m])
             /\ \A i \in 1..(Len(e[m - 1]) + Len(parts[m])) :
                  e[m][i] = IF i <= Len(e[m - 1]) THEN e[m - 1][i] ELSE parts[m][i - Len(e[m - 1])]
  <2>1. PICK u \in Seq(S) : u = e[m - 1]
    BY <1>1, <1>2
  <2>2. PICK v \in Seq(S) : v = parts[m]
    BY <1>1
  <2>3. e[m] = u \o v
    BY <1>1, <2>1, <2>2
  <2>4. /\ Len(u \o v) = Len(u) + Len(v)
        /\ \A i \in 1..(Len(u) + Len(v)) : (u \o v)[i] = IF i <= Len(u) THEN u[i] ELSE v[i - Len(u)]
    OBVIOUS
  <2>5. PICK w : w = u \o v
    OBVIOUS
  <2>6. /\ Len(w) = Len(u) + Len(v)
        /\ \A i \in 1..(Len(u) + Len(v)) : w[i] = IF i <= Len(u) THEN u[i] ELSE v[i - Len(u)]
    BY <2>4, <2>5, Zenon
  <2>7. e[m] = w
    BY <2>3, <2>5
  <2>8. Len(e[m]) = Len(e[m - 1]) + Len(parts[m])
    BY <2>1, <2>2, <2>6, <2>7
  <2>9. ASSUME NEW i \in 1..(Len(e[m - 1]) + Len(parts[m]))
        PROVE  e[m][i] = IF i <= Len(e[m - 1]) THEN e[m - 1][i] ELSE parts[m][i - Len(e[m - 1])]
    BY <2>1, <2>2, <2>6, <2>7
  <2> QED
    BY <2>8, <2>9
<1>4. PICK a \in Nat : a = Len(e[k - 1])
  BY <1>1, <1>2
<1>5. PICK p \in Seq(S) : p = parts[k]
  BY <1>1
<1>6. PICK b \in Nat : b = Len(p)
  OBVIOUS
<1>7. PICK len \in [0..n -> Nat] : \A m \in 0..n : len[m] = Len(e[m])
  <2>1. \A m \in 0..n : Len(e[m]) \in Nat
    BY <1>1
  <2>2. [m \in 0..n |-> Len(e[m])] \in [0..n -> Nat]
    BY <2>1
  <2> QED
    BY <2>2
<1>8. PICK Good : Good = {m \in 0..n : m >= k => a + b <= len[m] /\ \A i \in 1..b : e[m][a + i] = p[i]}
  OBVIOUS
<1>9. \A m \in 0..n : m \in Good
  <2>1. 0 \in Good
    BY <1>1, <1>8
  <2>2. ASSUME NEW m \in 1..n, m - 1 \in Good PROVE m \in Good
    <3>0. m \in 0..n
      BY <1>2
    <3>1. CASE m < k
      BY <1>8, <3>0, <3>1
    <3>2. CASE m = k
      <4>1. len[m] = a + b /\ \A i \in 1..(a + b) : e[m][i] = IF i <= a THEN e[m - 1][i] ELSE p[i - a]
        BY <1>3, <1>4, <1>5, <1>6, <1>7, <3>0, <3>2, Zenon
      <4>2. ASSUME NEW i \in 1..b PROVE e[m][a + i] = p[i]
        <5>1. a + i \in 1..(a + b) /\ ~(a + i <= a) /\ (a + i) - a = i
          OBVIOUS
        <5> QED
          BY <4>1, <5>1
      <4>3. a + b <= len[m]
        BY <4>1
      <4> QED
        BY <1>8, <3>0, <4>2, <4>3
    <3>3. CASE m > k
      <4>1. m - 1 >= k
        BY <3>3
      <4>2. a + b <= len[m - 1] /\ \A i \in 1..b : e[m - 1][a + i] = p[i]
        BY <1>8, <2>2, <4>1
      <4>3. PICK c \in Nat : c = Len(parts[m])
        BY <1>1
      <4>4. PICK d \in Nat : d = len[m - 1]
        BY <1>2, <1>7
      <4>5. len[m] = d + c /\ \A i \in 1..(d + c) : e[m][i] = IF i <= d THEN e[m - 1][i] ELSE parts[m][i - d]
        BY <1>2, <1>3, <1>7, <4>3, <4>4, Zenon
      <4>6. ASSUME NEW i \in 1..b PROVE e[m][a + i] = p[i]
        <5>1. a + i \in 1..(d + c) /\ a + i <= d
          BY <4>2, <4>4
        <5> QED
          BY <4>2, <4>5, <5>1
      <4>7. a + b <= len[m]
        BY <4>2, <4>4, <4>5
      <4> QED
        BY <1>8, <3>0, <4>6, <4>7
    <3>4. m \in Int /\ k \in Int
      OBVIOUS
    <3> QED
      BY <3>1, <3>2, <3>3, <3>4
  <2> QED
    BY <1>1, <2>1, <2>2, UpTo
<1>10. n \in 0..n /\ n >= k
  BY <1>1
<1>11. a + b <= len[n] /\ \A i \in 1..b : e[n][a + i] = p[i]
  BY <1>8, <1>9, <1>10
<1>12. PICK q \in Seq(S) : q = e[n]
  BY <1>1, <1>10
<1>13. a + b <= Len(q) /\ \A i \in 1..b : q[a + i] = p[i]
  BY <1>7, <1>10, <1>11, <1>12
<1>14. SubSeq(q, a + 1, a + b) = p
  <2>1. PICK r : r = SubSeq(q, a + 1, a + b)
    OBVIOUS
  <2>2. r \in Seq(S) /\ Len(r) = b /\ \A i \in 1..b : r[i] = q[a + i]
    BY <1>13, <2>1
  <2>3. r = p
    BY <1>6, <1>13, <2>2, SeqEqual
  <2> QED
    BY <2>1, <2>3
<1>15. Len(e[k]) = Len(e[k - 1]) + Len(parts[k])
  BY <1>3
<1> QED
  BY <1>4, <1>5, <1>6, <1>12, <1>14, <1>15 DEF Lies

(* The actions of a set of rules, one pair for each.                        *)
PairsOf(list, matching) == UNION {{j} \X DOMAIN list[j].action : j \in matching}

LEMMA PairsGrow ==
  ASSUME NEW list \in RuleLists, NEW i \in DOMAIN list, NEW matching \in SUBSET DOMAIN list,
         i \notin matching, IsFiniteSet(PairsOf(list, matching))
  PROVE  /\ IsFiniteSet(PairsOf(list, matching \cup {i}))
         /\ Cardinality(PairsOf(list, matching \cup {i}))
              = Cardinality(PairsOf(list, matching)) + Len(list[i].action)
<1>1. PICK m \in Nat : m = Len(list[i].action) /\ DOMAIN list[i].action = 1..m
  BY RulesAssumption
<1>2. PICK D : D = 1..m
  OBVIOUS
<1>3. IsFiniteSet(D) /\ Cardinality(D) = m
  <2>1. 1 \in Int /\ m \in Int
    OBVIOUS
  <2>2. IsFiniteSet(D) /\ Cardinality(D) = IF 1 > m THEN 0 ELSE m - 1 + 1
    BY <1>2, <2>1, FS_Interval, Zenon
  <2> QED
    BY <2>2
<1>4. PICK one : one = {i}
  OBVIOUS
<1>5. IsFiniteSet(one) /\ Cardinality(one) = 1
  BY <1>4, FS_Singleton
<1>6. PICK new : new = one \X D
  OBVIOUS
<1>7. IsFiniteSet(new) /\ Cardinality(new) = m
  <2>1. IsFiniteSet(new) /\ Cardinality(new) = Cardinality(one) * Cardinality(D)
    BY <1>3, <1>5, <1>6, FS_Product
  <2>2. 1 * m = m
    OBVIOUS
  <2> QED
    BY <1>3, <1>5, <2>1, <2>2
<1>8. PICK old : old = PairsOf(list, matching)
  OBVIOUS
<1>9. PairsOf(list, matching \cup {i}) = old \cup new
  <2>1. new = {i} \X DOMAIN list[i].action
    BY <1>1, <1>2, <1>4, <1>6
  <2>2. PairsOf(list, matching \cup {i}) = PairsOf(list, matching) \cup ({i} \X DOMAIN list[i].action)
    BY DEF PairsOf
  <2> QED
    BY <1>8, <2>1, <2>2
<1>10. old \cap new = {}
  <2>1. ASSUME NEW p \in old, p \in new PROVE FALSE
    <3>1. PICK j \in matching : p \in {j} \X DOMAIN list[j].action
      BY <1>8 DEF PairsOf
    <3>2. p[1] = j /\ p[1] = i
      BY <1>4, <1>6, <2>1, <3>1
    <3> QED
      BY <3>2
  <2> QED
    BY <2>1
<1>11. PICK all : all = old \cup new
  OBVIOUS
<1>12. /\ IsFiniteSet(all)
       /\ Cardinality(all) = Cardinality(old) + Cardinality(new) - Cardinality(old \cap new)
  BY <1>7, <1>8, <1>11, FS_Union
<1>13. Cardinality(old \cap new) = 0
  BY <1>10, FS_EmptySet
<1>14. Cardinality(old) \in Nat
  BY <1>8, FS_CardinalityType
<1>15. Cardinality(all) = Cardinality(old) + m
  BY <1>7, <1>12, <1>13, <1>14
<1> QED
  BY <1>1, <1>8, <1>9, <1>11, <1>12, <1>15

HitsUpTo(list, s, k, x) ==
  {i \in 1..Len(list) : Matches(list[i].condition, x) /\ \E j \in 1..k : s[j] = i}

PartsOf(list, s, x) ==
  [k \in 1..Len(list) |-> IF Matches(list[s[k]].condition, x) THEN list[s[k]].action ELSE <<>>]

(* What is evaluated is flattened in the order of the engine.               *)
LEMMA EvaluatedAs ==
  ASSUME NEW list \in RuleLists, NEW n \in Nat, n = Len(list), NEW s, EngineOrder(s, n, list), NEW x
  PROVE  /\ PartsOf(list, s, x) \in [1..n -> Seq(ActionKinds)]
         /\ EvaluateRules(NewEngine(list), x) = FlattenSeq(PartsOf(list, s, x))
<1>1. s \in [1..n -> 1..n] /\ NewEngine(list) = [k \in 1..n |-> list[s[k]]]
  BY DEF EngineOrder
<1>2. PICK engine1 : engine1 = NewEngine(list)
  OBVIOUS
<1>3. DOMAIN engine1 = 1..n /\ \A k \in 1..n : engine1[k] = list[s[k]]
  BY <1>1, <1>2
<1>4. PICK parts : parts = [i \in DOMAIN engine1 |->
          IF Matches(engine1[i].condition, x) THEN engine1[i].action ELSE <<>>]
  OBVIOUS
<1>5. parts = PartsOf(list, s, x)
  BY <1>3, <1>4, Zenon DEF PartsOf
<1>6. EvaluateRules(engine1, x) = FlattenSeq(parts)
  BY <1>4, Zenon DEF EvaluateRules
<1>7. PICK T : T = Seq(ActionKinds)
  OBVIOUS
<1>8. <<>> \in T /\ \A k \in 1..n : list[s[k]].action \in T
  BY <1>1, <1>7, RulesAssumption
<1>9. PartsOf(list, s, x) \in [1..n -> T]
  BY <1>8 DEF PartsOf
<1> QED
  BY <1>2, <1>5, <1>6, <1>7, <1>9

LEMMA PairsUpTo ==
  ASSUME NEW list \in RuleLists, NEW n \in Nat, n = Len(list), NEW s, EngineOrder(s, n, list), NEW x,
         NEW e, Unfolds(e, PartsOf(list, s, x), n, ActionKinds), NEW k \in 0..n
  PROVE  /\ IsFiniteSet(PairsOf(list, HitsUpTo(list, s, k, x)))
         /\ Cardinality(PairsOf(list, HitsUpTo(list, s, k, x))) = Len(e[k])
<1>1. PICK parts : parts = PartsOf(list, s, x)
  OBVIOUS
<1>2. Unfolds(e, parts, n, ActionKinds) /\ DOMAIN list = 1..n
  BY <1>1, RulesAssumption
<1>3. e \in [0..n -> Seq(ActionKinds)] /\ e[0] = <<>>
  BY <1>2 DEF Unfolds
<1>4. s \in [1..n -> 1..n] /\ \A a, b \in 1..n : a < b => s[a] # s[b]
  BY RulesOrdered DEF EngineOrder
<1>5. PICK hits : hits = [m \in 0..n |-> HitsUpTo(list, s, m, x)]
  OBVIOUS
<1>6. PICK pairs : pairs = [m \in 0..n |-> PairsOf(list, hits[m])]
  OBVIOUS
<1>7. PICK Good : Good = {m \in 0..n : IsFiniteSet(pairs[m]) /\ Cardinality(pairs[m]) = Len(e[m])}
  OBVIOUS
<1>8. 0 \in Good
  <2>1. 0 \in 0..n /\ 1..0 = {}
    OBVIOUS
  <2>2. hits[0] = {}
    BY <1>5, <2>1 DEF HitsUpTo
  <2>3. pairs[0] = {}
    BY <1>6, <2>1, <2>2 DEF PairsOf
  <2>4. IsFiniteSet(pairs[0]) /\ Cardinality(pairs[0]) = 0
    BY <2>3, FS_EmptySet
  <2>5. Len(e[0]) = 0
    BY <1>3
  <2> QED
    BY <1>7, <2>1, <2>4, <2>5
<1>9. ASSUME NEW m \in 1..n, m - 1 \in Good PROVE m \in Good
  <2>1. m \in 0..n /\ m - 1 \in 0..n /\ s[m] \in 1..n
    BY <1>4
  <2>2. \A j \in 1..m : j \in 1..(m - 1) \/ j = m
    OBVIOUS
  <2>3. (\A j \in 1..(m - 1) : j \in 1..m /\ j < m /\ j \in 1..n) /\ m \in 1..m
    OBVIOUS
  <2>4. PICK i \in 1..n : i = s[m]
    BY <2>1
  <2>5. i \notin hits[m - 1] /\ hits[m - 1] \in SUBSET DOMAIN list
    BY <1>2, <1>4, <1>5, <2>1, <2>3, <2>4 DEF HitsUpTo
  <2>6. Len(e[m]) = Len(e[m - 1]) + Len(parts[m])
    <3>1. Lies(e, parts, n, m)
      BY <1>2, PieceLies
    <3> QED
      BY <3>1 DEF Lies
  <2>7. IsFiniteSet(pairs[m - 1]) /\ Cardinality(pairs[m - 1]) = Len(e[m - 1]) /\ Len(e[m - 1]) \in Nat
    BY <1>3, <1>7, <1>9, <2>1
  <2>8. CASE Matches(list[i].condition, x)
    <3>1. hits[m] = hits[m - 1] \cup {i}
      BY <1>5, <2>1, <2>2, <2>3, <2>4, <2>8 DEF HitsUpTo
    <3>2. parts[m] = list[i].action
      BY <1>1, <2>4, <2>8 DEF PartsOf
    <3>3. pairs[m] = PairsOf(list, hits[m - 1] \cup {i}) /\ pairs[m - 1] = PairsOf(list, hits[m - 1])
      BY <1>6, <2>1, <3>1
    <3>3b. PICK H \in SUBSET DOMAIN list : H = hits[m - 1]
      BY <2>5
    <3>3c. i \in DOMAIN list /\ i \notin H /\ IsFiniteSet(PairsOf(list, H))
      BY <1>2, <2>5, <2>7, <3>3, <3>3b
    <3>3d. /\ IsFiniteSet(PairsOf(list, H \cup {i}))
           /\ Cardinality(PairsOf(list, H \cup {i})) = Cardinality(PairsOf(list, H)) + Len(list[i].action)
      BY <3>3c, PairsGrow
    <3>4. IsFiniteSet(pairs[m]) /\ Cardinality(pairs[m]) = Cardinality(pairs[m - 1]) + Len(list[i].action)
      BY <3>3, <3>3b, <3>3d
    <3>5. Cardinality(pairs[m]) = Len(e[m])
      BY <2>6, <2>7, <3>2, <3>4
    <3> QED
      BY <1>7, <2>1, <3>4, <3>5
  <2>9. CASE ~Matches(list[i].condition, x)
    <3>1. hits[m] = hits[m - 1]
      BY <1>5, <2>1, <2>2, <2>3, <2>4, <2>9 DEF HitsUpTo
    <3>2. parts[m] = <<>>
      BY <1>1, <2>4, <2>9 DEF PartsOf
    <3>2b. Len(parts[m]) = 0
      BY <3>2
    <3>3. pairs[m] = pairs[m - 1]
      BY <1>6, <2>1, <3>1
    <3>4. Len(e[m]) = Len(e[m - 1])
      BY <2>6, <2>7, <3>2b
    <3> QED
      BY <1>7, <2>1, <2>7, <3>3, <3>4
  <2> QED
    BY <2>8, <2>9
<1>10. k \in Good
  BY <1>8, <1>9, UpTo
<1> QED
  BY <1>5, <1>6, <1>7, <1>10

BeforeIn(list, x, i) == {j \in DOMAIN list : Matches(list[j].condition, x) /\ RuleBefore(list, j, i)}
HitIn(list, x) == {j \in DOMAIN list : Matches(list[j].condition, x)}

(* The actions of the rules that match are decided in their order.          *)
LEMMA DecidedAs ==
  ASSUME NEW list \in RuleLists, NEW x, NEW d, d = EvaluateRules(NewEngine(list), x)
  PROVE  /\ d \in Seq(ActionKinds)
         /\ Len(d) = Cardinality(PairsOf(list, HitIn(list, x)))
         /\ \A i \in HitIn(list, x) :
              LET a == Cardinality(PairsOf(list, BeforeIn(list, x, i)))
              IN  SubSeq(d, a + 1, a + Len(list[i].action)) = list[i].action
<1>1. PICK n \in Nat : n = Len(list) /\ DOMAIN list = 1..n
  BY RulesAssumption
<1>2. PICK s : EngineOrder(s, n, list)
  BY <1>1, EngineIs
<1>3. PICK parts : parts = PartsOf(list, s, x)
  OBVIOUS
<1>4. parts \in [1..n -> Seq(ActionKinds)] /\ d = FlattenSeq(parts)
  BY <1>1, <1>2, <1>3, EvaluatedAs
<1>5. PICK e : Unfolds(e, parts, n, ActionKinds)
  BY <1>4, UnfoldsExist
<1>6. e \in [0..n -> Seq(ActionKinds)] /\ d = e[n] /\ n \in 0..n
  BY <1>4, <1>5 DEF Unfolds
<1>7. d \in Seq(ActionKinds)
  BY <1>6
<1>8. \A k \in 0..n : Cardinality(PairsOf(list, HitsUpTo(list, s, k, x))) = Len(e[k])
  BY <1>1, <1>2, <1>3, <1>5, PairsUpTo
<1>9. /\ s \in [1..n -> 1..n]
      /\ \A a, b \in 1..n : a < b => RuleBefore(list, s[a], s[b])
      /\ \A i \in 1..n : \E k \in 1..n : s[k] = i
  BY <1>2 DEF EngineOrder
<1>10. HitsUpTo(list, s, n, x) = HitIn(list, x)
  BY <1>1, <1>9 DEF HitsUpTo, HitIn
<1>11. Len(d) = Cardinality(PairsOf(list, HitIn(list, x)))
  BY <1>6, <1>8, <1>10
<1>12. ASSUME NEW i \in HitIn(list, x)
       PROVE  LET a == Cardinality(PairsOf(list, BeforeIn(list, x, i)))
              IN  SubSeq(d, a + 1, a + Len(list[i].action)) = list[i].action
  <2>1. i \in 1..n /\ Matches(list[i].condition, x)
    BY <1>1 DEF HitIn
  <2>2. PICK k \in 1..n : s[k] = i
    BY <1>9, <2>1
  <2>3. ASSUME NEW j \in 1..n PROVE RuleBefore(list, j, i) <=> \E m \in 1..(k - 1) : s[m] = j
    <3>1. PICK l \in 1..n : s[l] = j
      BY <1>9
    <3>2. CASE l < k
      <4>1. l \in 1..(k - 1)
        BY <3>2
      <4> QED
        BY <1>9, <2>2, <3>1, <3>2, <4>1
    <3>3. CASE ~(l < k)
      <4>1. l = k \/ k < l
        BY <3>3
      <4>2. ~RuleBefore(list, j, i)
        BY <1>1, <1>9, <2>1, <2>2, <3>1, <4>1, RulesOrdered
      <4>3. ASSUME NEW m \in 1..(k - 1), s[m] = j PROVE FALSE
        <5>1. m \in 1..n /\ m < k
          OBVIOUS
        <5> QED
          BY <1>9, <2>2, <4>2, <4>3, <5>1
      <4> QED
        BY <4>2, <4>3
    <3> QED
      BY <3>2, <3>3
  <2>4. HitsUpTo(list, s, k - 1, x) = BeforeIn(list, x, i)
    BY <1>1, <2>3 DEF HitsUpTo, BeforeIn
  <2>5. k - 1 \in 0..n
    OBVIOUS
  <2>6. PICK a : a = Len(e[k - 1])
    OBVIOUS
  <2>7. a = Cardinality(PairsOf(list, BeforeIn(list, x, i)))
    BY <1>8, <2>4, <2>5, <2>6
  <2>8. parts[k] = list[i].action
    BY <1>1, <1>3, <2>1, <2>2 DEF PartsOf
  <2>9. SubSeq(e[n], Len(e[k - 1]) + 1, Len(e[k - 1]) + Len(parts[k])) = parts[k]
    <3>1. Lies(e, parts, n, k)
      BY <1>5, PieceLies
    <3> QED
      BY <3>1 DEF Lies
  <2>10. SubSeq(d, a + 1, a + Len(list[i].action)) = list[i].action
    BY <1>6, <2>6, <2>8, <2>9
  <2> QED
    BY <2>7, <2>10
<1> QED
  BY <1>7, <1>11, <1>12

Times(a, u) == Cardinality({i \in DOMAIN u : u[i] = a})

LEMMA TimesIs ==
  ASSUME NEW S, NEW u \in Seq(S), NEW a
  PROVE  IsFiniteSet({i \in DOMAIN u : u[i] = a}) /\ Times(a, u) \in Nat
<1>1. PICK P : P = {i \in DOMAIN u : u[i] = a}
  OBVIOUS
<1>2. PICK n \in Nat : n = Len(u) /\ DOMAIN u = 1..n
  OBVIOUS
<1>3. P \in SUBSET (1..n)
  BY <1>1, <1>2
<1>4. IsFiniteSet(1..n)
  <2>1. 1 \in Int /\ n \in Int
    OBVIOUS
  <2> QED
    BY <2>1, FS_Interval
<1>5. IsFiniteSet(P)
  BY <1>3, <1>4, FS_Subset
<1> QED
  BY <1>1, <1>5, FS_CardinalityType DEF Times

TimesAdd(a, u, v) == Times(a, u \o v) = Times(a, u) + Times(a, v)

LEMMA TimesBoth ==
  ASSUME NEW S, NEW u \in Seq(S), NEW v \in Seq(S), NEW a
  PROVE  TimesAdd(a, u, v)
<1>1. PICK w \in Seq(S) : w = u \o v
  <2>1. u \o v \in Seq(S)
    OBVIOUS
  <2> QED
    BY <2>1
<1>2. PICK m \in Nat : m = Len(u) /\ DOMAIN u = 1..m
  OBVIOUS
<1>3. PICK n \in Nat : n = Len(v) /\ DOMAIN v = 1..n
  OBVIOUS
<1>4. Len(w) = m + n /\ \A i \in 1..(m + n) : w[i] = IF i <= m THEN u[i] ELSE v[i - m]
  <2>1. /\ Len(u \o v) = Len(u) + Len(v)
        /\ \A i \in 1..(Len(u) + Len(v)) : (u \o v)[i] = IF i <= Len(u) THEN u[i] ELSE v[i - Len(u)]
    BY ConcatProperties, Zenon
  <2> QED
    BY <1>1, <1>2, <1>3, <2>1, Zenon
<1>5. DOMAIN w = 1..(m + n)
  BY <1>4
<1>6. PICK A : A = {i \in DOMAIN u : u[i] = a}
  OBVIOUS
<1>7. PICK B : B = {i \in DOMAIN v : v[i] = a}
  OBVIOUS
<1>8. PICK C : C = {i \in DOMAIN w : w[i] = a}
  OBVIOUS
<1>9. IsFiniteSet(A) /\ IsFiniteSet(B) /\ Cardinality(A) \in Nat /\ Cardinality(B) \in Nat
  BY <1>6, <1>7, TimesIs, FS_CardinalityType
<1>10. PICK f : f = [i \in B |-> m + i]
  OBVIOUS
<1>11. PICK D : D = {m + i : i \in B}
  OBVIOUS
<1>12. \A i \in B : i \in 1..n
  BY <1>3, <1>7
<1>13. f \in Bijection(B, D)
  <2>1. f \in [B -> D] /\ \A d \in D : \E i \in B : f[i] = d
    BY <1>10, <1>11
  <2>2. \A i, j \in B : f[i] = f[j] => i = j
    BY <1>10, <1>12
  <2> QED
    BY <2>1, <2>2 DEF Bijection, Injection, Surjection, IsInjective
<1>14. IsFiniteSet(D) /\ Cardinality(D) = Cardinality(B)
  <2>1. ExistsBijection(B, D)
    BY <1>13 DEF ExistsBijection
  <2> QED
    BY <1>9, <2>1, FS_Bijection
<1>15. A \cap D = {}
  <2>1. ASSUME NEW i \in A, i \in D PROVE FALSE
    <3>1. PICK j \in B : i = m + j
      BY <1>11, <2>1
    <3>2. i \in 1..m /\ j \in 1..n
      BY <1>2, <1>6, <1>12
    <3> QED
      BY <3>1, <3>2
  <2> QED
    BY <2>1
<1>16. C = A \cup D
  <2>1. ASSUME NEW i \in C PROVE i \in A \cup D
    <3>1. i \in 1..(m + n) /\ w[i] = a
      BY <1>5, <1>8
    <3>2. CASE i <= m
      <4>1. i \in 1..m
        BY <3>1, <3>2
      <4> QED
        BY <1>2, <1>4, <1>6, <3>1, <3>2, <4>1
    <3>3. CASE ~(i <= m)
      <4>1. PICK j \in 1..n : j = i - m
        BY <3>1, <3>3
      <4>2. v[j] = a
        BY <1>4, <3>1, <3>3, <4>1
      <4>3. i = m + j
        BY <3>1, <4>1
      <4> QED
        BY <1>3, <1>7, <1>11, <4>2, <4>3
    <3> QED
      BY <3>2, <3>3
  <2>2. ASSUME NEW i \in A PROVE i \in C
    <3>1. i \in 1..m /\ u[i] = a
      BY <1>2, <1>6
    <3>2. i \in 1..(m + n) /\ i <= m
      BY <3>1
    <3> QED
      BY <1>4, <1>5, <1>8, <3>1, <3>2
  <2>3. ASSUME NEW i \in D PROVE i \in C
    <3>1. PICK j \in B : i = m + j
      BY <1>11
    <3>2. j \in 1..n /\ v[j] = a
      BY <1>7, <1>12
    <3>3. i \in 1..(m + n) /\ ~(i <= m) /\ i - m = j
      BY <3>1, <3>2
    <3> QED
      BY <1>4, <1>5, <1>8, <3>2, <3>3
  <2> QED
    BY <2>1, <2>2, <2>3
<1>17. Cardinality(A \cap D) = 0
  BY <1>15, FS_EmptySet
<1>18. Cardinality(A \cup D) = Cardinality(A) + Cardinality(D) - Cardinality(A \cap D)
  BY <1>9, <1>14, FS_Union
<1>19. Cardinality(C) = Cardinality(A) + Cardinality(B)
  BY <1>9, <1>14, <1>16, <1>17, <1>18
<1>20. Times(a, w) = Cardinality(C) /\ Times(a, u) = Cardinality(A) /\ Times(a, v) = Cardinality(B)
  BY <1>6, <1>7, <1>8 DEF Times
<1> QED
  BY <1>1, <1>19, <1>20 DEF TimesAdd

(* No condition that held when a lane was less far fails.                   *)
LEMMA TestStays ==
  ASSUME NEW c, IsTest(c), NEW x \in LaneContext, NEW y \in LaneContext, Further(x, y), Test(c, x)
  PROVE  Test(c, y)
<1>1. /\ x.green <= y.green /\ x.age <= y.age
      /\ x.blocker = "startup" => y.blocker = "startup"
      /\ x.review = "approved" => y.review = "approved"
      /\ x.diff = "scoped" => y.diff = "scoped"
      /\ x.completed => y.completed
      /\ x.reconciled => y.reconciled
  BY Zenon DEF Further
<1>2. /\ x.green \in 0..3 /\ y.green \in 0..3 /\ x.age \in 0..2 /\ y.age \in 0..2
      /\ x.completed \in BOOLEAN /\ y.completed \in BOOLEAN /\ x.reconciled \in BOOLEAN /\ y.reconciled \in BOOLEAN
  BY DEF LaneContext
<1>3. CASE c[1] = "green_at"
  <2>1. c[2] \in Nat
    BY <1>3 DEF IsTest
  <2>2. x.green >= c[2]
    BY <1>3 DEF Test, IsSatisfiedBy
  <2>3. y.green >= c[2]
    BY <1>1, <1>2, <2>1, <2>2
  <2> QED
    BY <1>3, <2>3 DEF Test, IsSatisfiedBy
<1>4. CASE c[1] = "timed_out"
  <2>1. c[2] \in Nat
    BY <1>4 DEF IsTest
  <2>2. x.age >= c[2]
    BY <1>4 DEF Test
  <2>3. y.age >= c[2]
    BY <1>1, <1>2, <2>1, <2>2
  <2> QED
    BY <1>4, <2>3 DEF Test
<1>5. CASE c[1] = "stale_branch"
  <2>1. x.age >= 1
    BY <1>5 DEF Test
  <2>2. y.age >= 1
    BY <1>1, <1>2, <2>1
  <2> QED
    BY <1>5, <2>2 DEF Test
<1>6. CASE c[1] = "startup_blocked"
  BY <1>1, <1>6 DEF Test
<1>7. CASE c[1] = "lane_completed"
  <2>1. Test(c, x) = x.completed /\ Test(c, y) = y.completed
    BY <1>7 DEF Test
  <2> QED
    BY <1>1, <2>1
<1>8. CASE c[1] = "lane_reconciled"
  <2>1. Test(c, x) = x.reconciled /\ Test(c, y) = y.reconciled
    BY <1>8 DEF Test
  <2> QED
    BY <1>1, <2>1
<1>9. CASE c[1] = "review_passed"
  BY <1>1, <1>9 DEF Test
<1>10. CASE c[1] = "scoped_diff"
  BY <1>1, <1>10 DEF Test
<1> QED
  BY <1>3, <1>4, <1>5, <1>6, <1>7, <1>8, <1>9, <1>10 DEF IsTest

LEMMA MatchStays ==
  ASSUME NEW c, IsCondition(c), NEW x \in LaneContext, NEW y \in LaneContext, Further(x, y), Matches(c, x)
  PROVE  Matches(c, y)
<1>1. CASE IsTest(c)
  <2>1. c[1] # "and" /\ c[1] # "or"
    BY <1>1 DEF IsTest
  <2>2. Test(c, x)
    BY <2>1 DEF Matches
  <2>3. Test(c, y)
    BY <1>1, <2>2, TestStays
  <2> QED
    BY <2>1, <2>3 DEF Matches
<1>2. CASE c[1] = "and" /\ \A i \in DOMAIN c[2] : IsTest(c[2][i])
  <2>1. \A i \in DOMAIN c[2] : Test(c[2][i], x)
    BY <1>2 DEF Matches
  <2>2. \A i \in DOMAIN c[2] : Test(c[2][i], y)
    BY <1>2, <2>1, TestStays
  <2> QED
    BY <1>2, <2>2 DEF Matches
<1>3. CASE c[1] = "or" /\ \A i \in DOMAIN c[2] : IsTest(c[2][i])
  <2>1. \E i \in DOMAIN c[2] : Test(c[2][i], x)
    BY <1>3 DEF Matches
  <2>2. \E i \in DOMAIN c[2] : Test(c[2][i], y)
    BY <1>3, <2>1, TestStays
  <2> QED
    BY <1>3, <2>2 DEF Matches
<1> QED
  BY <1>1, <1>2, <1>3 DEF IsCondition

(* Evaluated again of a lane that got further, no action is missing.        *)
LEMMA NothingLostBetween ==
  ASSUME NEW list \in RuleLists, NEW x \in LaneContext, NEW y \in LaneContext, Further(x, y), NEW a,
         NEW d, d = EvaluateRules(NewEngine(list), x), NEW f, f = EvaluateRules(NewEngine(list), y)
  PROVE  Times(a, d) <= Times(a, f)
<1>1. PICK n \in Nat : n = Len(list) /\ DOMAIN list = 1..n
  BY RulesAssumption
<1>2. PICK s : EngineOrder(s, n, list)
  BY <1>1, EngineIs
<1>3. PICK p : p = PartsOf(list, s, x)
  OBVIOUS
<1>4. PICK q : q = PartsOf(list, s, y)
  OBVIOUS
<1>5. /\ p \in [1..n -> Seq(ActionKinds)] /\ d = FlattenSeq(p)
      /\ q \in [1..n -> Seq(ActionKinds)] /\ f = FlattenSeq(q)
  BY <1>1, <1>2, <1>3, <1>4, EvaluatedAs
<1>6. PICK e : Unfolds(e, p, n, ActionKinds)
  BY <1>5, UnfoldsExist
<1>7. PICK g : Unfolds(g, q, n, ActionKinds)
  BY <1>5, UnfoldsExist
<1>8. /\ e \in [0..n -> Seq(ActionKinds)] /\ e[0] = <<>> /\ \A k \in 1..n : e[k] = e[k - 1] \o p[k]
      /\ d = e[n]
  BY <1>5, <1>6 DEF Unfolds
<1>9. /\ g \in [0..n -> Seq(ActionKinds)] /\ g[0] = <<>> /\ \A k \in 1..n : g[k] = g[k - 1] \o q[k]
      /\ f = g[n]
  BY <1>5, <1>7 DEF Unfolds
<1>10. PICK Good : Good = {k \in 0..n : Times(a, e[k]) <= Times(a, g[k])}
  OBVIOUS
<1>11. 0 \in Good
  <2>1. e[0] = g[0] /\ e[0] \in Seq(ActionKinds) /\ 0 \in 0..n
    BY <1>8, <1>9
  <2>2. Times(a, e[0]) \in Nat
    BY <2>1, TimesIs
  <2> QED
    BY <1>10, <2>1, <2>2
<1>12. ASSUME NEW k \in 1..n PROVE Times(a, p[k]) <= Times(a, q[k])
  <2>1. s[k] \in DOMAIN list
    BY <1>1, <1>2 DEF EngineOrder
  <2>2. q[k] \in Seq(ActionKinds) /\ Times(a, q[k]) \in Nat
    BY <1>5, TimesIs
  <2>3. CASE Matches(list[s[k]].condition, x)
    <3>1. Matches(list[s[k]].condition, y)
      BY <2>1, <2>3, MatchStays, RulesAssumption
    <3>2. p[k] = q[k]
      BY <1>1, <1>3, <1>4, <2>3, <3>1 DEF PartsOf
    <3> QED
      BY <2>2, <3>2
  <2>4. CASE ~Matches(list[s[k]].condition, x)
    <3>1. p[k] = <<>>
      BY <1>1, <1>3, <2>4 DEF PartsOf
    <3>2. {i \in DOMAIN p[k] : p[k][i] = a} = {}
      BY <3>1
    <3>3. Times(a, p[k]) = 0
      BY <3>2, FS_EmptySet DEF Times
    <3> QED
      BY <2>2, <3>3
  <2> QED
    BY <2>3, <2>4
<1>13. ASSUME NEW k \in 1..n, k - 1 \in Good PROVE k \in Good
  <2>1. k \in 0..n /\ k - 1 \in 0..n
    OBVIOUS
  <2>2. PICK u \in Seq(ActionKinds) : u = e[k - 1]
    BY <1>8, <2>1
  <2>3. PICK v \in Seq(ActionKinds) : v = p[k]
    BY <1>5
  <2>4. PICK w \in Seq(ActionKinds) : w = g[k - 1]
    BY <1>9, <2>1
  <2>5. PICK z \in Seq(ActionKinds) : z = q[k]
    BY <1>5
  <2>6. TimesAdd(a, u, v) /\ TimesAdd(a, w, z)
    BY TimesBoth
  <2>7. Times(a, e[k]) = Times(a, u) + Times(a, v) /\ Times(a, g[k]) = Times(a, w) + Times(a, z)
    BY <1>8, <1>9, <2>2, <2>3, <2>4, <2>5, <2>6, Zenon DEF TimesAdd
  <2>8. /\ Times(a, u) \in Nat /\ Times(a, v) \in Nat /\ Times(a, w) \in Nat /\ Times(a, z) \in Nat
    BY TimesIs
  <2>9. Times(a, u) <= Times(a, w) /\ Times(a, v) <= Times(a, z)
    BY <1>10, <1>12, <1>13, <2>2, <2>3, <2>4, <2>5
  <2>10. Times(a, u) + Times(a, v) <= Times(a, w) + Times(a, z)
    BY <2>8, <2>9
  <2> QED
    BY <1>10, <2>1, <2>7, <2>10
<1>14. n \in 0..n
  OBVIOUS
<1>15. n \in Good
  BY <1>11, <1>13, <1>14, UpTo
<1> QED
  BY <1>8, <1>9, <1>10, <1>15

LEMMA FurtherOn ==
  ASSUME NEW x \in LaneContext, NEW y \in LaneContext, NEW z \in LaneContext
  PROVE  /\ Further(x, x)
         /\ Further(x, y) /\ Further(y, z) => Further(x, z)
<1>1. /\ x.green \in Int /\ y.green \in Int /\ z.green \in Int
      /\ x.age \in Int /\ y.age \in Int /\ z.age \in Int
  BY DEF LaneContext
<1> QED
  BY <1>1 DEF Further

(* The last decision was one about the lane as it was then; unless it lost  *)
(* something since, it is now no less far.                                  *)
PolicyInv ==
  /\ given \in RuleLists /\ engine = NewEngine(given)
  /\ lane \in LaneContext /\ setback \in BOOLEAN
  /\ decided \in Seq(ActionKinds)
  /\ \/ decided = <<>>
     \/ \E x \in LaneContext : decided = EvaluateRules(engine, x) /\ (~setback => Further(x, lane))

LEMMA PolicyInitially == PolicyInit => PolicyInv
<1>1. NewLaneContext \in LaneContext
  BY DEF NewLaneContext, LaneContext
<1>2. <<>> \in Seq(ActionKinds) /\ FALSE \in BOOLEAN
  OBVIOUS
<1> QED
  BY <1>1, <1>2 DEF PolicyInit, PolicyInv

LEMMA PolicyStep ==
  ASSUME PolicyInv, PolicyNext
  PROVE  PolicyInv'
<1>1. /\ given \in RuleLists /\ engine = NewEngine(given)
      /\ lane \in LaneContext /\ setback \in BOOLEAN
      /\ decided \in Seq(ActionKinds)
  BY DEF PolicyInv
<1>2. CASE Evaluate
  <2>1. /\ decided' = EvaluateRules(engine, lane) /\ setback' = FALSE
        /\ given' = given /\ engine' = engine /\ lane' = lane
    BY <1>2 DEF Evaluate
  <2>2. decided' \in Seq(ActionKinds)
    BY <1>1, <2>1, DecidedAs
  <2>3. Further(lane, lane)
    BY <1>1, FurtherOn
  <2>4. \E x \in LaneContext : decided' = EvaluateRules(engine', x) /\ (~setback' => Further(x, lane'))
    BY <1>1, <2>1, <2>3
  <2>5. engine' = NewEngine(given')
    BY <1>1, <2>1
  <2> QED
    BY <1>1, <2>1, <2>2, <2>4, <2>5 DEF PolicyInv
<1>3. CASE LaneMoves
  <2>1. /\ setback' = (setback \/ ~Further(lane, lane')) /\ lane' \in LaneContext
        /\ given' = given /\ engine' = engine /\ decided' = decided
    BY <1>3 DEF LaneMoves
  <2>2. setback' \in BOOLEAN
    BY <2>1
  <2>3. CASE decided = <<>>
    BY <1>1, <2>1, <2>2, <2>3 DEF PolicyInv
  <2>4. CASE decided # <<>>
    <3>1. PICK x \in LaneContext : decided = EvaluateRules(engine, x) /\ (~setback => Further(x, lane))
      BY <2>4 DEF PolicyInv
    <3>2. ~setback' => ~setback /\ Further(lane, lane')
      BY <2>1, Zenon
    <3>3. ~setback' => Further(x, lane')
      BY <1>1, <2>1, <3>1, <3>2, FurtherOn
    <3>4. decided' = EvaluateRules(engine', x)
      BY <2>1, <3>1
    <3>5. engine' = NewEngine(given')
      BY <1>1, <2>1
    <3> QED
      BY <1>1, <2>1, <2>2, <3>3, <3>4, <3>5 DEF PolicyInv
  <2> QED
    BY <2>3, <2>4
<1> QED
  BY <1>2, <1>3 DEF PolicyNext

LEMMA PolicyUnchanged == PolicyInv /\ UNCHANGED policyVars => PolicyInv'
<1> SUFFICES ASSUME PolicyInv, UNCHANGED policyVars PROVE PolicyInv'
  OBVIOUS
<1>1. given' = given /\ engine' = engine /\ lane' = lane /\ decided' = decided /\ setback' = setback
  BY DEF policyVars
<1>2. (NewEngine(given))' = NewEngine(given')
  OBVIOUS
<1> QED
  BY <1>1 DEF PolicyInv

LEMMA PolicyTyped == PolicyInv => PolicyTypeOK
  BY DEF PolicyInv, PolicyTypeOK

(* The two bodies of the action properties.                                 *)
LEMMA DecisionInOrder ==
  ASSUME PolicyInv, PolicyNext \/ UNCHANGED decided
  PROVE  [LET matching == {i \in DOMAIN given : Matches(given[i].condition, lane)}
          IN  /\ Len(decided') = ActionsOf(matching)
              /\ \A i \in matching :
                   SubSeq(decided', ActionsOf(Before(i)) + 1, ActionsOf(Before(i)) + Len(given[i].action))
                     = given[i].action]_decided
<1>1. SUFFICES ASSUME decided' # decided
      PROVE  LET matching == {i \in DOMAIN given : Matches(given[i].condition, lane)}
             IN  /\ Len(decided') = ActionsOf(matching)
                 /\ \A i \in matching :
                      SubSeq(decided', ActionsOf(Before(i)) + 1, ActionsOf(Before(i)) + Len(given[i].action))
                        = given[i].action
  OBVIOUS
<1>2. given \in RuleLists /\ decided' = EvaluateRules(NewEngine(given), lane)
  BY <1>1 DEF PolicyInv, PolicyNext, Evaluate, LaneMoves
<1>3. PICK d : d = decided'
  OBVIOUS
<1>4. /\ Len(d) = Cardinality(PairsOf(given, HitIn(given, lane)))
      /\ \A i \in HitIn(given, lane) :
           LET a == Cardinality(PairsOf(given, BeforeIn(given, lane, i)))
           IN  SubSeq(d, a + 1, a + Len(given[i].action)) = given[i].action
  BY <1>2, <1>3, DecidedAs
<1>5. HitIn(given, lane) = {i \in DOMAIN given : Matches(given[i].condition, lane)}
  BY DEF HitIn
<1>6. \A matching : ActionsOf(matching) = Cardinality(PairsOf(given, matching))
  BY DEF ActionsOf, PairsOf
<1>7. \A i : Before(i) = BeforeIn(given, lane, i)
  BY DEF Before, BeforeIn, RuleBefore
<1>8. \A i \in HitIn(given, lane) :
        SubSeq(d, ActionsOf(Before(i)) + 1, ActionsOf(Before(i)) + Len(given[i].action)) = given[i].action
  BY <1>4, <1>6, <1>7
<1>9. Len(d) = ActionsOf(HitIn(given, lane))
  BY <1>4, <1>6
<1> QED
  BY <1>3, <1>5, <1>8, <1>9

LEMMA NothingIsTakenBack ==
  ASSUME PolicyInv, PolicyNext \/ UNCHANGED decided
  PROVE  [~setback => \A a \in ActionKinds :
            Cardinality({i \in DOMAIN decided : decided[i] = a})
              <= Cardinality({i \in DOMAIN decided' : decided'[i] = a})]_decided
<1>1. SUFFICES ASSUME decided' # decided, ~setback, NEW a \in ActionKinds
      PROVE  Times(a, decided) <= Times(a, decided')
  BY DEF Times
<1>2. /\ given \in RuleLists /\ engine = NewEngine(given) /\ lane \in LaneContext
      /\ decided' = EvaluateRules(NewEngine(given), lane)
  BY <1>1 DEF PolicyInv, PolicyNext, Evaluate, LaneMoves
<1>3. PICK f : f = decided'
  OBVIOUS
<1>4. CASE decided = <<>>
  <2>1. {i \in DOMAIN decided : decided[i] = a} = {}
    BY <1>4
  <2>2. Times(a, decided) = 0
    BY <2>1, FS_EmptySet DEF Times
  <2>3. f \in Seq(ActionKinds)
    BY <1>2, <1>3, DecidedAs
  <2>4. Times(a, f) \in Nat
    BY <2>3, TimesIs
  <2> QED
    BY <1>3, <2>2, <2>4
<1>5. CASE decided # <<>>
  <2>1. PICK x \in LaneContext : decided = EvaluateRules(NewEngine(given), x) /\ Further(x, lane)
    BY <1>1, <1>2, <1>5 DEF PolicyInv
  <2>2. Times(a, decided) <= Times(a, f)
    BY <1>2, <1>3, <2>1, NothingLostBetween
  <2> QED
    BY <1>3, <2>2
<1> QED
  BY <1>4, <1>5

-----------------------------------------------------------------------------
(* The rebuilt answer: nextIndex counts the items that have an index. *)
Accumulators ==
  [index : Int, started : BOOLEAN, stopped : BOOLEAN, named : BOOLEAN, received : BOOLEAN, buffer : Seq(Nat)]
TextBlocks == [index : Int, started : BOOLEAN, closed : BOOLEAN]

(* The items that have an index: as many as there are indices.              *)
Made == {f \in CallItems : acc[f].index # -1} \cup {t \in TextItems : text[t].index # -1}
Indexed ==
  /\ acc \in [CallItems -> Accumulators] /\ text \in [TextItems -> TextBlocks]
  /\ nextIndex = Cardinality(Made)
  /\ \A f \in CallItems : acc[f].index \in -1..(nextIndex - 1)
  /\ \A t \in TextItems : text[t].index \in -1..(nextIndex - 1)
ServerShape ==
  /\ style \in Styles /\ upstream \in {"open", "completed", "ended"}
  /\ item \in [Items -> [announced : {"no", "bare", "named"}, frags : 0..MaxFrags, done : BOOLEAN]]
  /\ reason \in {"end_turn", "tool_use"}
ResponseInv == ServerShape /\ Indexed

LEMMA ItemsAreFinite ==
  /\ IsFiniteSet(Items) /\ CallItems \subseteq Items /\ TextItems \subseteq Items /\ CallItems \cap TextItems = {}
<1>1. IsFiniteSet(TextItems \cup CallItems)
  BY ResponseAssumption, FS_Union
<1> QED
  BY <1>1, ResponseAssumption DEF Items

LEMMA MadeIs ==
  ASSUME Indexed
  PROVE  /\ Made \subseteq Items /\ IsFiniteSet(Made) /\ nextIndex \in 0..Cardinality(Items) /\ nextIndex \in Nat
<1>1. Made \in SUBSET Items
  BY ItemsAreFinite DEF Made
<1>2. PICK M : M = Made
  OBVIOUS
<1>3. M \in SUBSET Items /\ IsFiniteSet(Items)
  BY <1>1, <1>2, ItemsAreFinite
<1>4. IsFiniteSet(M) /\ Cardinality(M) <= Cardinality(Items)
  BY <1>3, FS_Subset
<1>5. Cardinality(M) \in Nat /\ Cardinality(Items) \in Nat
  BY <1>3, <1>4, FS_CardinalityType
<1> QED
  BY <1>1, <1>2, <1>4, <1>5 DEF Indexed

LEMMA ResponseTyped == ResponseInv => ResponseTypeOK
<1> SUFFICES ASSUME ResponseInv PROVE ResponseTypeOK
  OBVIOUS
<1>1. nextIndex \in 0..Cardinality(Items)
  BY MadeIs DEF ResponseInv
<1>2. \A f \in CallItems : acc[f].index \in -1..(nextIndex - 1) /\ acc[f].started \in BOOLEAN
  BY DEF ResponseInv, Indexed, Accumulators
<1>3. text \in [TextItems -> [index : -1..(nextIndex - 1), started : BOOLEAN, closed : BOOLEAN]]
  BY DEF ResponseInv, Indexed, TextBlocks
<1> QED
  BY <1>1, <1>2, <1>3 DEF ResponseInv, ServerShape, ResponseTypeOK

LEMMA ResponseInitially == ResponseInit => ResponseInv
<1> SUFFICES ASSUME ResponseInit PROVE ResponseInv
  OBVIOUS
<1>1. PICK none : none = <<>>
  OBVIOUS
<1>2. none \in Seq(Nat)
  BY <1>1
<1>3. Unmade = [index |-> -1, started |-> FALSE, stopped |-> FALSE, named |-> FALSE,
                received |-> FALSE, buffer |-> none]
  BY <1>1 DEF Unmade, NewAccumulator
<1>4. acc \in [CallItems -> Accumulators] /\ \A f \in CallItems : acc[f].index = -1
  <2>1. acc = [f \in CallItems |-> Unmade]
    BY DEF ResponseInit
  <2>2. Unmade \in Accumulators /\ Unmade.index = -1
    BY <1>2, <1>3 DEF Accumulators
  <2> QED
    BY <2>1, <2>2
<1>5. text \in [TextItems -> TextBlocks] /\ \A t \in TextItems : text[t].index = -1
  <2>1. text = [t \in TextItems |-> NoText]
    BY DEF ResponseInit
  <2>2. NoText \in TextBlocks /\ NoText.index = -1
    BY DEF NoText, TextBlocks
  <2> QED
    BY <2>1, <2>2
<1>6. Made = {}
  BY <1>4, <1>5 DEF Made
<1>7. nextIndex = 0 /\ Cardinality(Made) = 0
  BY <1>6, FS_EmptySet DEF ResponseInit
<1>8. Indexed
  BY <1>4, <1>5, <1>7 DEF Indexed
<1>9. ServerShape
  BY ResponseAssumption DEF ResponseInit, ServerShape
<1> QED
  BY <1>8, <1>9 DEF ResponseInv

(* Each step of an accumulator keeps its type and its index.                *)
Continues(b, a) == b \in Accumulators /\ b.index = a.index

LEMMA DeltaContinues ==
  ASSUME NEW a \in Accumulators, NEW who, NEW named \in BOOLEAN, NEW frags \in Seq(Nat)
  PROVE  Continues(HandleDelta(a, who, named, frags).acc, a)
<1>1. CASE a.stopped
  <2>1. HandleDelta(a, who, named, frags).acc = a
    BY <1>1 DEF HandleDelta
  <2> QED
    BY <2>1 DEF Continues
<1>2. CASE ~a.stopped
  <2> DEFINE known == a.named \/ named
             starts == ~a.started /\ known
             open == a.started \/ starts
             buffered == IF starts THEN <<>> ELSE IF open THEN a.buffer ELSE a.buffer \o frags
             put == [a EXCEPT !.named = known, !.started = open, !.received = @ \/ frags # <<>>,
                              !.buffer = IF starts THEN <<>> ELSE IF open THEN @ ELSE @ \o frags]
  <2>1. HandleDelta(a, who, named, frags).acc = put
    BY <1>2 DEF HandleDelta
  <2>2. /\ a.index \in Int /\ a.started \in BOOLEAN /\ a.stopped \in BOOLEAN /\ a.named \in BOOLEAN
        /\ a.received \in BOOLEAN /\ a.buffer \in Seq(Nat)
    BY DEF Accumulators
  <2>3. buffered \in Seq(Nat)
    BY <2>2
  <2>4. known \in BOOLEAN /\ open \in BOOLEAN
    BY <2>2
  <2>5. PICK more : more = (a.received \/ frags # <<>>)
    OBVIOUS
  <2>6. more \in BOOLEAN
    BY <2>2, <2>5
  <2>7. put = [a EXCEPT !.named = known, !.started = open, !.received = more, !.buffer = buffered]
    BY <2>5
  <2> HIDE DEF known, open, buffered, put
  <2>8. put \in Accumulators /\ put.index = a.index
    BY <2>3, <2>4, <2>6, <2>7 DEF Accumulators
  <2> QED
    BY <2>1, <2>8 DEF Continues
<1>3. a.stopped \in BOOLEAN
  BY DEF Accumulators
<1> QED
  BY <1>1, <1>2, <1>3

LEMMA DoneContinues ==
  ASSUME NEW a \in Accumulators, NEW who, NEW frags \in Seq(Nat)
  PROVE  Continues(HandleDone(a, who, frags).acc, a)
<1>1. CASE a.received \/ frags = <<>>
  <2>1. HandleDone(a, who, frags).acc = a
    BY <1>1 DEF HandleDone
  <2> QED
    BY <2>1 DEF Continues
<1>2. CASE ~(a.received \/ frags = <<>>)
  <2>1. HandleDone(a, who, frags) = HandleDelta(a, who, FALSE, frags)
    BY <1>2, Zenon DEF HandleDone
  <2>2. Continues(HandleDelta(a, who, FALSE, frags).acc, a)
    BY DeltaContinues
  <2> QED
    BY <2>1, <2>2
<1> QED
  BY <1>1, <1>2

LEMMA MarkContinues ==
  ASSUME NEW a \in Accumulators, NEW who
  PROVE  Continues(MarkStarted(a, who).acc, a) /\ Continues(Finish(a, who).acc, a)
<1>1. Continues(MarkStarted(a, who).acc, a)
  BY DEF MarkStarted, Continues, Accumulators
<1>2. Continues(Finish(a, who).acc, a)
  BY DEF Finish, Continues, Accumulators
<1> QED
  BY <1>1, <1>2

(* A new index is one more.                                                 *)
LEMMA OneMoreMade ==
  ASSUME Indexed, NEW i \in Items, i \notin Made
  PROVE  Cardinality(Made \cup {i}) = nextIndex + 1
<1>1. PICK M : M = Made
  OBVIOUS
<1>2. IsFiniteSet(M) /\ i \notin M /\ nextIndex = Cardinality(M)
  BY <1>1, MadeIs DEF Indexed
<1>3. Cardinality(M \cup {i}) = Cardinality(M) + 1
  BY <1>2, FS_AddElement
<1> QED
  BY <1>1, <1>2, <1>3

LEMMA FreshIs ==
  ASSUME Indexed, NEW f \in CallItems
  PROVE  /\ Fresh(f) \in Accumulators
         /\ Fresh(f).index = IF acc[f].index = -1 THEN nextIndex ELSE acc[f].index
<1>1. nextIndex \in Int
  BY MadeIs
<1>2. PICK none : none = <<>>
  OBVIOUS
<1>3. none \in Seq(Nat)
  BY <1>2
<1>4. NewAccumulator(nextIndex) = [index |-> nextIndex, started |-> FALSE, stopped |-> FALSE, named |-> FALSE,
                                   received |-> FALSE, buffer |-> none]
  BY <1>2 DEF NewAccumulator
<1>5. NewAccumulator(nextIndex) \in Accumulators /\ NewAccumulator(nextIndex).index = nextIndex
  BY <1>1, <1>3, <1>4 DEF Accumulators
<1>6. acc[f] \in Accumulators
  BY DEF Indexed
<1> QED
  BY <1>5, <1>6 DEF Fresh

(* What a call is answered with leaves the indices as they should be.       *)
LEMMA CallIndexed ==
  ASSUME Indexed, NEW f \in CallItems, NEW step, Continues(step.acc, Fresh(f)),
         WithCall(f, step), text' = text
  PROVE  Indexed'
<1>1. /\ acc \in [CallItems -> Accumulators] /\ text \in [TextItems -> TextBlocks]
      /\ nextIndex \in Nat /\ nextIndex = Cardinality(Made)
      /\ \A g \in CallItems : acc[g].index \in -1..(nextIndex - 1)
      /\ \A t \in TextItems : text[t].index \in -1..(nextIndex - 1)
  BY MadeIs DEF Indexed
<1>2. acc' = [acc EXCEPT ![f] = step.acc] /\ nextIndex' = nextIndex + (IF acc[f].index = -1 THEN 1 ELSE 0)
  BY DEF WithCall
<1>3. PICK b \in Accumulators : b = step.acc /\ b.index = IF acc[f].index = -1 THEN nextIndex ELSE acc[f].index
  BY FreshIs DEF Continues
<1>4. acc' \in [CallItems -> Accumulators] /\ acc'[f] = b /\ \A g \in CallItems \ {f} : acc'[g] = acc[g]
  BY <1>1, <1>2, <1>3
<1>5. CASE acc[f].index = -1
  <2>1. nextIndex' = nextIndex + 1 /\ b.index = nextIndex
    BY <1>2, <1>3, <1>5
  <2>2. f \in Items /\ f \notin Made
    BY <1>5, ItemsAreFinite DEF Made
  <2>3. b.index # -1
    BY <1>1, <2>1
  <2>4. Made' = Made \cup {f}
    BY <1>4, <2>3 DEF Made
  <2>5. nextIndex' = Cardinality(Made')
    BY <2>1, <2>2, <2>4, OneMoreMade
  <2>6. \A g \in CallItems : acc'[g].index \in -1..(nextIndex' - 1)
    <3>1. b.index \in -1..(nextIndex' - 1)
      BY <1>1, <2>1
    <3>2. \A g \in CallItems : acc[g].index \in -1..(nextIndex' - 1)
      BY <1>1, <2>1
    <3> QED
      BY <1>4, <3>1, <3>2
  <2>7. \A t \in TextItems : text'[t].index \in -1..(nextIndex' - 1)
    BY <1>1, <2>1
  <2>8. text' \in [TextItems -> TextBlocks]
    BY <1>1
  <2> QED
    BY <1>4, <2>5, <2>6, <2>7, <2>8 DEF Indexed
<1>6. CASE acc[f].index # -1
  <2>1. nextIndex' = nextIndex /\ b.index = acc[f].index
    BY <1>1, <1>2, <1>3, <1>6
  <2>2. \A g \in CallItems : acc'[g].index = acc[g].index
    BY <1>4, <2>1
  <2>3. Made' = Made
    BY <2>2 DEF Made
  <2>4. text' \in [TextItems -> TextBlocks] /\ \A t \in TextItems : text'[t].index \in -1..(nextIndex' - 1)
    BY <1>1, <2>1
  <2>5. \A g \in CallItems : acc'[g].index \in -1..(nextIndex' - 1)
    BY <1>1, <2>1, <2>2
  <2>6. nextIndex' = Cardinality(Made')
    BY <1>1, <2>1, <2>3
  <2> QED
    BY <1>4, <2>4, <2>5, <2>6 DEF Indexed
<1> QED
  BY <1>5, <1>6

(* A text gets its index with its first frame.                              *)
LEMMA TextIndexed ==
  ASSUME Indexed, NEW t \in TextItems, NEW b \in TextBlocks, acc' = acc,
         text' = [text EXCEPT ![t] = b],
         nextIndex' = nextIndex + (IF text[t].index = -1 THEN 1 ELSE 0),
         b.index = IF text[t].index = -1 THEN nextIndex ELSE text[t].index
  PROVE  Indexed'
<1>1. /\ acc \in [CallItems -> Accumulators] /\ text \in [TextItems -> TextBlocks]
      /\ nextIndex \in Nat /\ nextIndex = Cardinality(Made)
      /\ \A g \in CallItems : acc[g].index \in -1..(nextIndex - 1)
      /\ \A u \in TextItems : text[u].index \in -1..(nextIndex - 1)
  BY MadeIs DEF Indexed
<1>4. text' \in [TextItems -> TextBlocks] /\ text'[t] = b /\ \A u \in TextItems \ {t} : text'[u] = text[u]
  BY <1>1
<1>5. CASE text[t].index = -1
  <2>1. nextIndex' = nextIndex + 1 /\ b.index = nextIndex
    BY <1>5
  <2>2. t \in Items /\ t \notin Made
    BY <1>5, ItemsAreFinite DEF Made
  <2>3. b.index # -1
    BY <1>1, <2>1
  <2>4. Made' = Made \cup {t}
    BY <1>4, <2>3 DEF Made
  <2>5. nextIndex' = Cardinality(Made')
    BY <2>1, <2>2, <2>4, OneMoreMade
  <2>6. \A u \in TextItems : text'[u].index \in -1..(nextIndex' - 1)
    <3>1. b.index \in -1..(nextIndex' - 1)
      BY <1>1, <2>1
    <3>2. \A u \in TextItems : text[u].index \in -1..(nextIndex' - 1)
      BY <1>1, <2>1
    <3> QED
      BY <1>4, <3>1, <3>2
  <2>7. \A g \in CallItems : acc'[g].index \in -1..(nextIndex' - 1)
    BY <1>1, <2>1
  <2>8. acc' \in [CallItems -> Accumulators]
    BY <1>1
  <2> QED
    BY <1>4, <2>5, <2>6, <2>7, <2>8 DEF Indexed
<1>6. CASE text[t].index # -1
  <2>1. nextIndex' = nextIndex /\ b.index = text[t].index
    BY <1>1, <1>6
  <2>2. \A u \in TextItems : text'[u].index = text[u].index
    BY <1>4, <2>1
  <2>3. Made' = Made
    BY <2>2 DEF Made
  <2>4. acc' \in [CallItems -> Accumulators] /\ \A g \in CallItems : acc'[g].index \in -1..(nextIndex' - 1)
    BY <1>1, <2>1
  <2>5. \A u \in TextItems : text'[u].index \in -1..(nextIndex' - 1)
    BY <1>1, <2>1, <2>2
  <2>6. nextIndex' = Cardinality(Made')
    BY <1>1, <2>1, <2>3
  <2> QED
    BY <1>4, <2>4, <2>5, <2>6 DEF Indexed
<1> QED
  BY <1>5, <1>6

LEMMA WholeIs ==
  ASSUME ServerShape, NEW i \in Items
  PROVE  Whole(i) \in Seq(Nat)
<1>1. PICK n \in Nat : n = item[i].frags
  BY ResponseAssumption DEF ServerShape
<1>2. <<1>> \in Seq(Nat) /\ [k \in 1..n |-> k] \in Seq(Nat)
  OBVIOUS
<1> QED
  BY <1>1, <1>2 DEF Whole

(* Only the accumulators' and the blocks' indices matter.                   *)
LEMMA StillIndexed ==
  ASSUME Indexed, nextIndex' = nextIndex,
         acc' \in [CallItems -> Accumulators], \A f \in CallItems : acc'[f].index = acc[f].index,
         text' \in [TextItems -> TextBlocks], \A t \in TextItems : text'[t].index = text[t].index
  PROVE  Indexed'
<1>1. Made' = Made
  BY DEF Made
<1> QED
  BY <1>1 DEF Indexed

LEMMA UnchangedIndexed == Indexed /\ UNCHANGED <<acc, text, nextIndex>> => Indexed'
  BY DEF Indexed, Made

ItemRecords == [announced : {"no", "bare", "named"}, frags : 0..MaxFrags, done : BOOLEAN]

LEMMA ServerStep ==
  ASSUME ServerShape, NEW i \in Items, NEW r \in ItemRecords, item' = [item EXCEPT ![i] = r],
         style' = style, upstream' = upstream, reason' \in {"end_turn", "tool_use"}
  PROVE  ServerShape'
BY DEF ServerShape, ItemRecords

LEMMA ItemIs ==
  ASSUME ServerShape, NEW i \in Items
  PROVE  item[i] \in ItemRecords
BY DEF ServerShape, ItemRecords

LEMMA Announced ==
  ASSUME ServerShape, NEW i \in Items, NEW how \in {"bare", "named"}, Announce(i, how)
  PROVE  \E r \in ItemRecords : item' = [item EXCEPT ![i] = r]
<1>1. item[i] \in ItemRecords
  BY ItemIs
<1>2. PICK r : r = [item[i] EXCEPT !.announced = how]
  OBVIOUS
<1>3. r \in ItemRecords
  BY <1>1, <1>2 DEF ItemRecords
<1>4. item' = [item EXCEPT ![i] = r]
  BY <1>2 DEF Announce
<1> QED
  BY <1>3, <1>4

LEMMA CallAddedStep == ASSUME ResponseInv, NEW f \in CallItems, CallAdded(f) PROVE ResponseInv'
<1>1. f \in Items /\ ServerShape /\ Indexed
  BY ItemsAreFinite DEF ResponseInv
<1>2. PICK how \in {"bare", "named"} :
        /\ Announce(f, how)
        /\ IF acc[f].index # -1 THEN UNCHANGED <<acc, opened, nextIndex, reason, sent>>
           ELSE /\ reason' = ReasonOfCalls
                /\ WithCall(f, IF how = "named" THEN MarkStarted(Fresh(f), f)
                               ELSE [acc |-> Fresh(f), events |-> <<>>])
  BY DEF CallAdded
<1>3. style' = style /\ upstream' = upstream /\ text' = text
  BY DEF CallAdded
<1>4. reason' \in {"end_turn", "tool_use"}
  BY <1>1, <1>2 DEF ServerShape, ReasonOfCalls
<1>5. ServerShape'
  <2>1. PICK r \in ItemRecords : item' = [item EXCEPT ![f] = r]
    BY <1>1, <1>2, Announced
  <2> QED
    BY <1>1, <1>3, <1>4, <2>1, ServerStep
<1>6. Indexed'
  <2>1. CASE acc[f].index # -1
    BY <1>1, <1>2, <1>3, <2>1, UnchangedIndexed
  <2>2. CASE acc[f].index = -1
    <3>1. PICK step : step = IF how = "named" THEN MarkStarted(Fresh(f), f)
                             ELSE [acc |-> Fresh(f), events |-> <<>>]
      OBVIOUS
    <3>2. WithCall(f, step)
      BY <1>2, <2>2, <3>1
    <3>3. PICK new \in Accumulators : new = Fresh(f)
      BY <1>1, FreshIs
    <3>4. Continues(MarkStarted(new, f).acc, new) /\ Continues(new, new)
      BY MarkContinues DEF Continues
    <3>5. Continues(step.acc, Fresh(f))
      <4>1. CASE how = "named"
        BY <3>1, <3>3, <3>4, <4>1
      <4>2. CASE how # "named"
        <5>1. step.acc = new
          BY <3>1, <3>3, <4>2
        <5> QED
          BY <3>3, <3>4, <5>1
      <4> QED
        BY <4>1, <4>2
    <3> QED
      BY <1>1, <1>3, <3>2, <3>5, CallIndexed
  <2> QED
    BY <2>1, <2>2
<1> QED
  BY <1>5, <1>6 DEF ResponseInv

LEMMA MessageAddedStep == ASSUME ResponseInv, NEW t \in TextItems, MessageAdded(t) PROVE ResponseInv'
<1>1. t \in Items /\ ServerShape /\ Indexed
  BY ItemsAreFinite DEF ResponseInv
<1>2. /\ Announce(t, "named") /\ style' = style /\ upstream' = upstream /\ acc' = acc /\ reason' = reason
      /\ IF text[t].index = -1
         THEN text' = [text EXCEPT ![t].index = nextIndex] /\ nextIndex' = nextIndex + 1
         ELSE UNCHANGED <<text, nextIndex>>
  BY DEF MessageAdded
<1>3. ServerShape'
  <2>1. PICK r \in ItemRecords : item' = [item EXCEPT ![t] = r]
    BY <1>1, <1>2, Announced
  <2>2. reason' \in {"end_turn", "tool_use"}
    BY <1>1, <1>2 DEF ServerShape
  <2> QED
    BY <1>1, <1>2, <2>1, <2>2, ServerStep
<1>4. Indexed'
  <2>1. CASE text[t].index # -1
    BY <1>1, <1>2, <2>1, UnchangedIndexed
  <2>2. CASE text[t].index = -1
    <3>1. text' = [text EXCEPT ![t].index = nextIndex] /\ nextIndex' = nextIndex + 1
      BY <1>2, <2>2
    <3>2. PICK b : b = [text[t] EXCEPT !.index = nextIndex]
      OBVIOUS
    <3>3. nextIndex \in Int /\ text[t] \in TextBlocks
      BY <1>1, MadeIs DEF Indexed
    <3>4. b \in TextBlocks /\ b.index = nextIndex
      BY <3>2, <3>3 DEF TextBlocks
    <3>5. text' = [text EXCEPT ![t] = b]
      BY <3>1, <3>2
    <3>6. nextIndex' = nextIndex + (IF text[t].index = -1 THEN 1 ELSE 0)
      BY <2>2, <3>1
    <3> QED
      BY <1>1, <1>2, <2>2, <3>4, <3>5, <3>6, TextIndexed
  <2> QED
    BY <2>1, <2>2
<1> QED
  BY <1>3, <1>4 DEF ResponseInv

LEMMA MoreFrags ==
  ASSUME ServerShape, NEW i \in Items, item[i].frags < MaxFrags, item' = [item EXCEPT ![i].frags = @ + 1]
  PROVE  \E r \in ItemRecords : item' = [item EXCEPT ![i] = r]
<1>1. item[i] \in ItemRecords
  BY ItemIs
<1>2. PICK r : r = [item[i] EXCEPT !.frags = @ + 1]
  OBVIOUS
<1>3. item[i].frags \in 0..MaxFrags /\ MaxFrags \in Nat
  BY <1>1, ResponseAssumption DEF ItemRecords
<1>4. item[i].frags + 1 \in 0..MaxFrags
  BY <1>3
<1>5. r \in ItemRecords
  BY <1>1, <1>2, <1>4 DEF ItemRecords
<1>6. item' = [item EXCEPT ![i] = r]
  BY <1>2
<1> QED
  BY <1>5, <1>6

LEMMA ItemDone ==
  ASSUME ServerShape, NEW i \in Items, item' = [item EXCEPT ![i].done = TRUE]
  PROVE  \E r \in ItemRecords : item' = [item EXCEPT ![i] = r]
<1>1. item[i] \in ItemRecords
  BY ItemIs
<1>2. PICK r : r = [item[i] EXCEPT !.done = TRUE]
  OBVIOUS
<1>3. r \in ItemRecords
  BY <1>1, <1>2 DEF ItemRecords
<1>4. item' = [item EXCEPT ![i] = r]
  BY <1>2
<1> QED
  BY <1>3, <1>4

LEMMA TextDeltaStep == ASSUME ResponseInv, NEW t \in TextItems, TextDelta(t) PROVE ResponseInv'
<1>1. t \in Items /\ ServerShape /\ Indexed
  BY ItemsAreFinite DEF ResponseInv
<1>2. PICK index : index = IF text[t].index = -1 THEN nextIndex ELSE text[t].index
  OBVIOUS
<1>3. /\ item[t].frags < MaxFrags /\ item' = [item EXCEPT ![t].frags = @ + 1]
      /\ style' = style /\ upstream' = upstream /\ acc' = acc /\ reason' = reason
      /\ nextIndex' = nextIndex + (IF text[t].index = -1 THEN 1 ELSE 0)
      /\ text' = [text EXCEPT ![t] = [index |-> index, started |-> TRUE, closed |-> FALSE]]
  BY <1>2 DEF TextDelta
<1>4. ServerShape'
  <2>1. PICK r \in ItemRecords : item' = [item EXCEPT ![t] = r]
    BY <1>1, <1>3, MoreFrags
  <2>2. reason' \in {"end_turn", "tool_use"}
    BY <1>1, <1>3 DEF ServerShape
  <2> QED
    BY <1>1, <1>3, <2>1, <2>2, ServerStep
<1>5. PICK b : b = [index |-> index, started |-> TRUE, closed |-> FALSE]
  OBVIOUS
<1>6. b \in TextBlocks /\ b.index = index
  <2>1. nextIndex \in Int /\ text[t].index \in Int
    BY <1>1, MadeIs DEF Indexed, TextBlocks
  <2>2. index \in Int
    BY <1>2, <2>1
  <2> QED
    BY <1>5, <2>2 DEF TextBlocks
<1>7. Indexed'
  BY <1>1, <1>2, <1>3, <1>5, <1>6, TextIndexed
<1> QED
  BY <1>4, <1>7 DEF ResponseInv

LEMMA TextDoneStep == ASSUME ResponseInv, NEW t \in TextItems, TextDone(t) PROVE ResponseInv'
<1>1. t \in Items /\ ServerShape /\ Indexed
  BY ItemsAreFinite DEF ResponseInv
<1>2. /\ item' = [item EXCEPT ![t].done = TRUE] /\ style' = style /\ upstream' = upstream
      /\ acc' = acc /\ reason' = reason /\ nextIndex' = nextIndex
      /\ text' = text \/ text' = [text EXCEPT ![t].closed = TRUE]
  BY DEF TextDone
<1>3. ServerShape'
  <2>1. PICK r \in ItemRecords : item' = [item EXCEPT ![t] = r]
    BY <1>1, <1>2, ItemDone
  <2>2. reason' \in {"end_turn", "tool_use"}
    BY <1>1, <1>2 DEF ServerShape
  <2> QED
    BY <1>1, <1>2, <2>1, <2>2, ServerStep
<1>4. text' \in [TextItems -> TextBlocks] /\ \A u \in TextItems : text'[u].index = text[u].index
  <2>1. text \in [TextItems -> TextBlocks]
    BY <1>1 DEF Indexed
  <2>2. PICK b : b = [text[t] EXCEPT !.closed = TRUE]
    OBVIOUS
  <2>3. text[t] \in TextBlocks
    BY <2>1
  <2>4. b \in TextBlocks /\ b.index = text[t].index
    BY <2>2, <2>3 DEF TextBlocks
  <2>5. text' = text \/ text' = [text EXCEPT ![t] = b]
    BY <1>2, <2>2, Zenon
  <2> QED
    BY <2>1, <2>4, <2>5
<1>5. acc' \in [CallItems -> Accumulators] /\ \A f \in CallItems : acc'[f].index = acc[f].index
  BY <1>1, <1>2 DEF Indexed
<1>6. Indexed'
  BY <1>1, <1>2, <1>4, <1>5, StillIndexed
<1> QED
  BY <1>3, <1>6 DEF ResponseInv

LEMMA ArgumentsStep ==
  ASSUME ResponseInv, NEW f \in CallItems, ArgumentsDelta(f) \/ ArgumentsDone(f)
  PROVE  ResponseInv'
<1>1. f \in Items /\ ServerShape /\ Indexed
  BY ItemsAreFinite DEF ResponseInv
<1>2. PICK new \in Accumulators : new = Fresh(f)
  BY <1>1, FreshIs
<1>3. \E step : WithCall(f, step) /\ Continues(step.acc, new)
  <2>1. CASE ArgumentsDelta(f)
    <3>0. item[f].frags \in 0..MaxFrags
      BY <1>1, ItemIs DEF ItemRecords
    <3>1. PICK n \in Nat : n = item[f].frags + 1
      BY <3>0, ResponseAssumption
    <3>1b. <<n>> \in Seq(Nat)
      OBVIOUS
    <3>2. PICK frags \in Seq(Nat) : frags = <<item[f].frags + 1>>
      BY <3>1, <3>1b, Zenon
    <3>3. WithCall(f, HandleDelta(new, f, FALSE, frags))
      BY <1>2, <2>1, <3>2 DEF ArgumentsDelta
    <3>4. Continues(HandleDelta(new, f, FALSE, frags).acc, new)
      BY DeltaContinues
    <3> QED
      BY <3>3, <3>4
  <2>2. CASE ArgumentsDone(f)
    <3>1. PICK frags \in Seq(Nat) : frags = Whole(f)
      BY <1>1, WholeIs
    <3>2. WithCall(f, HandleDone(new, f, frags))
      BY <1>2, <2>2, <3>1 DEF ArgumentsDone
    <3>3. Continues(HandleDone(new, f, frags).acc, new)
      BY DoneContinues
    <3> QED
      BY <3>2, <3>3
  <2> QED
    BY <2>1, <2>2
<1>4. style' = style /\ upstream' = upstream /\ text' = text /\ reason' = reason
  BY DEF ArgumentsDelta, ArgumentsDone
<1>5. Indexed'
  BY <1>1, <1>2, <1>3, <1>4, CallIndexed
<1>6. PICK r \in ItemRecords : item' = [item EXCEPT ![f] = r]
  BY <1>1, MoreFrags, ItemDone DEF ArgumentsDelta, ArgumentsDone
<1>7. ServerShape'
  <2>1. reason' \in {"end_turn", "tool_use"}
    BY <1>1, <1>4 DEF ServerShape
  <2> QED
    BY <1>1, <1>4, <1>6, <2>1, ServerStep
<1> QED
  BY <1>5, <1>7 DEF ResponseInv

LEMMA EndsStep ==
  ASSUME ResponseInv, Completed \/ StreamFails \/ BodyEnds
  PROVE  ResponseInv'
<1>1. ServerShape /\ Indexed
  BY DEF ResponseInv
<1>2. /\ style' = style /\ upstream' \in {"open", "completed", "ended"} /\ item' = item
      /\ reason' = reason /\ nextIndex' = nextIndex
  BY DEF Completed, StreamFails, BodyEnds
<1>3. ServerShape'
  BY <1>1, <1>2 DEF ServerShape
<1>4. acc' \in [CallItems -> Accumulators] /\ \A f \in CallItems : acc'[f].index = acc[f].index
  <2>0. acc \in [CallItems -> Accumulators]
    BY <1>1 DEF Indexed
  <2>1. \A f \in CallItems : /\ MarkStarted(acc[f], f).acc \in Accumulators /\ MarkStarted(acc[f], f).acc.index = acc[f].index
                             /\ Finish(acc[f], f).acc \in Accumulators /\ Finish(acc[f], f).acc.index = acc[f].index
    BY <2>0, MarkContinues DEF Continues
  <2>2. CASE acc' = acc
    BY <2>0, <2>2
  <2>3. CASE acc' = [f \in CallItems |-> IF Startable(f) THEN MarkStarted(acc[f], f).acc ELSE acc[f]]
    BY <2>0, <2>1, <2>3
  <2>4. CASE acc' = [f \in CallItems |-> Finish(acc[f], f).acc]
    BY <2>0, <2>1, <2>4
  <2> QED
    BY <2>2, <2>3, <2>4 DEF Completed, StreamFails, BodyEnds
<1>5. text' \in [TextItems -> TextBlocks] /\ \A t \in TextItems : text'[t].index = text[t].index
  <2>0. text \in [TextItems -> TextBlocks]
    BY <1>1 DEF Indexed
  <2>1. CASE text' = text
    BY <2>0, <2>1
  <2>2. CASE text' = [t \in TextItems |-> [text[t] EXCEPT !.closed = @ \/ CloseText(t)]]
    <3>1. \A t \in TextItems : (text[t].closed \/ CloseText(t)) \in BOOLEAN
      OBVIOUS
    <3>2. PICK closes : closes = [t \in TextItems |-> text[t].closed \/ CloseText(t)]
      OBVIOUS
    <3>3. \A t \in TextItems : closes[t] \in BOOLEAN
      BY <3>1, <3>2
    <3>4. \A t \in TextItems : text'[t] = [text[t] EXCEPT !.closed = closes[t]]
      BY <2>2, <3>2
    <3>5. \A t \in TextItems : text'[t] \in TextBlocks /\ text'[t].index = text[t].index
      BY <2>0, <3>3, <3>4 DEF TextBlocks
    <3>6. text' = [t \in TextItems |-> text'[t]]
      BY <2>2
    <3> QED
      BY <3>5, <3>6
  <2> QED
    BY <2>1, <2>2 DEF Completed, StreamFails, BodyEnds
<1>6. Indexed'
  BY <1>1, <1>2, <1>4, <1>5, StillIndexed
<1> QED
  BY <1>3, <1>6 DEF ResponseInv

LEMMA ResponseStep == ResponseInv /\ [ResponseNext]_responseVars => ResponseInv'
<1> SUFFICES ASSUME ResponseInv, [ResponseNext]_responseVars PROVE ResponseInv'
  OBVIOUS
<1>1. CASE ResponseNext
  BY <1>1, CallAddedStep, ArgumentsStep, MessageAddedStep, TextDeltaStep, TextDoneStep, EndsStep DEF ResponseNext
<1>2. CASE UNCHANGED responseVars
  <2>1. style' = style /\ item' = item /\ upstream' = upstream /\ reason' = reason /\ UNCHANGED <<acc, text, nextIndex>>
    BY <1>2 DEF responseVars
  <2>2. ServerShape'
    BY <2>1 DEF ResponseInv, ServerShape
  <2> QED
    BY <2>1, <2>2, UnchangedIndexed DEF ResponseInv
<1> QED
  BY <1>1, <1>2

-----------------------------------------------------------------------------
(* The bounds of the clocks and of the commits, and what is said last.      *)
StaleBounds == commits <= MaxCommits
RegistryBounds == clock <= MaxClock
PromptBounds == time <= MaxTime /\ hit \in -1..MaxTime /\ break \in {"none", "expected", "unexpected"}

LEMMA StaleBoundsInit == StaleInit => StaleBounds
  BY StaleAssumption DEF StaleInit, StaleBounds

LEMMA StaleBoundsStep == StaleInv /\ StaleBounds /\ [StaleNext]_staleVars => StaleBounds'
<1>. SUFFICES ASSUME StaleInv, StaleBounds, [StaleNext]_staleVars PROVE StaleBounds'
  OBVIOUS
<1>1. commits \in Nat /\ commits <= MaxCommits
  BY DEF StaleInv, StaleShape, StaleBounds
<1>2. commits' = commits \/ (commits < MaxCommits /\ commits' = commits + 1)
  BY DEF StaleNext, staleVars, CommitOnMain, CommitOnBranch, UpdateElsewhere, CountBehind, CountAhead,
         LogSubjects, ApplyPolicy, Carry
<1>. QED
  BY <1>1, <1>2, StaleAssumption DEF StaleBounds

LEMMA StaleTyped == StaleInv /\ StaleBounds => StaleTypeOK
<1>. SUFFICES ASSUME StaleInv, StaleBounds PROVE StaleTypeOK
  OBVIOUS
<1>1. 1..commits \subseteq 1..MaxCommits
  BY StaleAssumption DEF StaleInv, StaleShape, StaleBounds
<1>. QED
  BY <1>1 DEF StaleInv, StaleShape, StaleTypeOK

LEMMA RegistryBoundsInit == RegistryInit => RegistryBounds
  BY RegistryAssumption DEF RegistryInit, RegistryBounds

LEMMA RegistryBoundsStep == RegistryInv /\ RegistryBounds /\ [RegistryNext]_registryVars => RegistryBounds'
<1>. SUFFICES ASSUME RegistryInv, RegistryBounds, [RegistryNext]_registryVars PROVE RegistryBounds'
  OBVIOUS
<1>1. clock \in Nat /\ clock <= MaxClock
  BY DEF RegistryInv, RegistryShape, RegistryBounds
<1>2. clock' = clock \/ (clock < MaxClock /\ clock' = clock + 1)
  BY DEF RegistryNext, registryVars, Tick, OtherProgramSaves, UseRegistry, LoadsCache, Fetches, Saves, MergesFetched
<1>. QED
  BY <1>1, <1>2, RegistryAssumption DEF RegistryBounds

LEMMA RegistryTyped == RegistryInv /\ RegistryBounds => RegistryTypeOK
<1>. SUFFICES ASSUME RegistryInv, RegistryBounds PROVE RegistryTypeOK
  OBVIOUS
<1>1. /\ clock \in Nat \ {0} /\ last \in Nat /\ merged \in Nat
      /\ clock <= MaxClock /\ last <= clock /\ merged <= clock /\ MaxClock \in Nat
  BY RegistryAssumption DEF RegistryInv, RegistryShape, RegistryBounds
<1>2. clock \in 1..MaxClock /\ last \in 0..MaxClock /\ merged \in 0..MaxClock
  BY <1>1
<1>3. disk.at \in 0..MaxClock
  <2>1. CASE disk = NoCache
    BY <1>1, <2>1 DEF NoCache
  <2>2. CASE disk.at \in 1..clock
    BY <1>1, <2>2
  <2>. QED
    BY <2>1, <2>2 DEF RegistryInv
<1>. QED
  BY <1>2, <1>3 DEF RegistryInv, RegistryShape, RegistryTypeOK

LEMMA PromptBoundsInit == PromptInit => PromptBounds
  BY PromptAssumption DEF PromptInit, PromptBounds

LEMMA PromptBoundsStep == PromptInv /\ PromptBounds /\ [PromptNext]_promptVars => PromptBounds'
<1>. SUFFICES ASSUME PromptInv, PromptBounds, [PromptNext]_promptVars PROVE PromptBounds'
  OBVIOUS
<1>1. time \in Nat /\ time <= MaxTime /\ MaxTime \in Nat
  BY PromptAssumption DEF PromptInv, PromptShape, PromptBounds
<1>2. CASE UNCHANGED promptVars
  BY <1>2 DEF promptVars, PromptBounds
<1>3. CASE PromptTick \/ NewProgram
  BY <1>1, <1>3 DEF PromptTick, NewProgram, PromptBounds
<1>4. CASE Records
  <2>1. break' \in {"none", "expected", "unexpected"}
    BY <1>4 DEF Records, BreakOf
  <2>. QED
    BY <1>1, <1>4, <2>1 DEF Records, PromptBounds
<1>5. ASSUME NEW g \in Callers, LookUp(g) PROVE PromptBounds'
  BY <1>5 DEF LookUp, PromptBounds
<1>6. ASSUME NEW g \in Callers, LookUpEnds(g) PROVE PromptBounds'
  <2>1. time' = time /\ break' = break
    BY <1>6 DEF LookUpEnds
  <2>2. CASE hit' = hit
    BY <2>1, <2>2 DEF PromptBounds
  <2>3. CASE hit' # hit
    <3>1. lookup[g] # Idle /\ lookup[g].entry # NoAnswer /\ hit' = time - lookup[g].entry.at
      BY <1>6, <2>3 DEF LookUpEnds
    <3>2. EntryStands(lookup[g]) /\ AnswersStand
      BY <3>1 DEF PromptInv
    <3>3. PICK at \in Nat : at = lookup[g].entry.at
      BY <3>1, <3>2 DEF EntryStands
    <3>4. PICK asked \in Int : asked = askedAt[lookup[g].prompt]
      BY <3>2 DEF EntryStands, PromptInv, PromptShape
    <3>5. at <= asked /\ asked <= time
      BY <3>1, <3>2, <3>3, <3>4 DEF EntryStands, AnswersStand
    <3>6. hit' \in -1..MaxTime
      BY <1>1, <3>1, <3>3, <3>5
    <3>. QED
      BY <2>1, <3>6 DEF PromptBounds
  <2>. QED
    BY <2>2, <2>3
<1>. QED
  BY <1>2, <1>3, <1>4, <1>5, <1>6 DEF PromptNext

LEMMA PromptTyped == PromptInv /\ PromptBounds => PromptTypeOK
<1>. SUFFICES ASSUME PromptInv, PromptBounds PROVE PromptTypeOK
  OBVIOUS
<1>1. /\ time \in Nat /\ time <= MaxTime /\ MaxTime \in Nat
      /\ answers \in [Prompts -> KeptAnswer] /\ askedAt \in [Prompts -> Int]
  BY PromptAssumption DEF PromptInv, PromptShape, PromptBounds
<1>2. ASSUME NEW p \in Prompts PROVE answers[p] \in [at : -1..MaxTime, read : Reads]
  <2>1. answers[p] \in KeptAnswer /\ askedAt[p] \in Int /\ askedAt[p] <= time
    BY <1>1 DEF PromptInv, AnswersStand
  <2>2. answers[p].at \in -1..MaxTime
    <3>1. CASE answers[p] = NoAnswer
      BY <1>1, <3>1 DEF NoAnswer
    <3>2. CASE answers[p] # NoAnswer
      <4>1. answers[p].at \in Nat /\ answers[p].at <= askedAt[p]
        BY <3>2 DEF PromptInv, AnswersStand
      <4>. QED
        BY <1>1, <2>1, <4>1
    <3>. QED
      BY <3>1, <3>2
  <2>. QED
    BY <2>1, <2>2 DEF KeptAnswer
<1>3. answers \in [Prompts -> [at : -1..MaxTime, read : Reads]]
  BY <1>1, <1>2
<1>4. time \in 0..MaxTime
  BY <1>1
<1>5. previous.prompt \in Prompts \cup {"none"} /\ \A g \in Callers : lookup[g].prompt \in Prompts \cup {"none"}
  BY DEF PromptInv, PromptShape
<1>. QED
  BY <1>3, <1>4, <1>5 DEF PromptBounds, PromptTypeOK

-----------------------------------------------------------------------------
(* Sequences that go on: one after another, and what is left of lists of at *)
(* most one entry.                                                          *)
Same(w, out, n) == \A k \in 1..n : w[k] = out[k]
(* w continues out by the m events ev.                                      *)
Goes(w, out, n, ev, m) ==
  /\ n \in Nat /\ m \in Nat /\ Same(w, out, n) /\ \A k \in 1..m : w[n + k] = ev[k]

(* Of n + m places, one that is not among the first n is one of the others. *)
LEMMA Positions ==
  ASSUME NEW n \in Nat, NEW m \in Nat, NEW k \in 1..(n + m), k \notin 1..n
  PROVE  \E l \in 1..m : k = n + l
<1>1. PICK l \in Int : l = k - n
  OBVIOUS
<1>2. l \in 1..m /\ k = n + l
  BY <1>1
<1> QED
  BY <1>2

(* The sequence of events grows.                                            *)
Follows(w, out, ev) == w = out \o ev
LEMMA FollowsIs ==
  ASSUME NEW S, NEW out \in Seq(S), NEW ev \in Seq(S), NEW w, Follows(w, out, ev)
  PROVE  w \in Seq(S) /\ Len(w) = Len(out) + Len(ev) /\ Goes(w, out, Len(out), ev, Len(ev))
<1>1. w \in Seq(S) /\ Len(w) = Len(out) + Len(ev) /\ Len(out) \in Nat /\ Len(ev) \in Nat
  BY DEF Follows
<1>2. \A k \in 1..Len(out) : w[k] = out[k]
  BY DEF Follows
<1>3. \A k \in 1..Len(ev) : w[Len(out) + k] = ev[k]
  BY DEF Follows
<1> QED
  BY <1>1, <1>2, <1>3 DEF Goes, Same

(* Any order of a set: each of its members once.                            *)
LEMMA SeqsOf ==
  ASSUME NEW S, IsFiniteSet(S), NEW late \in SetToSeqs(S)
  PROVE  /\ Len(late) \in Nat /\ late \in [1..Len(late) -> S] /\ late \in Seq(S)
         /\ \A k, l \in 1..Len(late) : late[k] = late[l] => k = l
         /\ \A x \in S : \E k \in 1..Len(late) : late[k] = x
<1>1. PICK n \in Nat : n = Cardinality(S)
  BY FS_CardinalityType
<1>2. late \in [1..n -> S] /\ \A k, l \in 1..n : k # l => late[k] # late[l]
  BY <1>1 DEF SetToSeqs
<1>3. late \in Seq(S) /\ Len(late) = n
  BY <1>1, <1>2
<1>4. late \in Injection(1..n, S)
  BY <1>2 DEF Injection, IsInjective
<1>5. Cardinality(1..n) = n
  BY FS_Interval
<1>6. late \in Surjection(1..n, S)
  BY <1>1, <1>4, <1>5, FS_Injection
<1>7. \A x \in S : \E k \in 1..n : late[k] = x
  BY <1>6 DEF Surjection
<1> QED
  BY <1>2, <1>3, <1>7

(* What is left of a list of empty sequences and of sequences of one.       *)
Single(S) == {<<>>} \cup {<<x>> : x \in S}
Swept(p, n, out, m, pos) ==
  /\ n \in Nat /\ m \in Nat /\ pos \in [1..m -> 1..n]
  /\ \A j, k \in 1..m : pos[j] = pos[k] => j = k
  /\ \A j \in 1..m : p[pos[j]] = <<out[j]>>
  /\ \A k \in 1..n : p[k] # <<>> => \E j \in 1..m : pos[j] = k

(* Of a list of lists, an empty one adds nothing, one of one an entry.      *)
LEMMA SweptNone ==
  ASSUME NEW p, NEW n, NEW out, NEW m, NEW pos, Swept(p, n, out, m, pos),
         NEW q, \A k \in 1..n : q[k] = p[k], q[n + 1] = <<>>
  PROVE  Swept(q, n + 1, out, m, pos)
<1>1. n \in Nat /\ m \in Nat /\ n + 1 \in Nat
  BY DEF Swept
<1>2. \A k \in 1..(n + 1) : k \in 1..n \/ k = n + 1
  BY <1>1
<1>3. \A k \in 1..n : k \in 1..(n + 1)
  BY <1>1
<1>4. pos \in [1..m -> 1..(n + 1)]
  BY <1>3 DEF Swept
<1>5. \A j \in 1..m : q[pos[j]] = <<out[j]>>
  BY DEF Swept
<1> QED
  BY <1>1, <1>2, <1>4, <1>5 DEF Swept

LEMMA SweptOne ==
  ASSUME NEW p, NEW n, NEW out, NEW m, NEW pos, Swept(p, n, out, m, pos),
         NEW q, \A k \in 1..n : q[k] = p[k], NEW x, q[n + 1] = <<x>>, NEW more, \A k \in 1..m : more[k] = out[k], more[m + 1] = x
  PROVE  \E at : Swept(q, n + 1, more, m + 1, at)
<1>1. n \in Nat /\ m \in Nat /\ n + 1 \in Nat /\ m + 1 \in Nat
  BY DEF Swept
<1>2. \A k \in 1..(n + 1) : k \in 1..n \/ k = n + 1
  BY <1>1
<1>3. \A k \in 1..n : k \in 1..(n + 1) /\ k # n + 1
  BY <1>1
<1>4. \A k \in 1..(m + 1) : k \in 1..m \/ k = m + 1
  BY <1>1
<1>5. \A k \in 1..m : k \in 1..(m + 1) /\ k # m + 1
  BY <1>1
<1>6. m + 1 \in 1..(m + 1) /\ n + 1 \in 1..(n + 1)
  BY <1>1
<1>7. PICK at : at = [k \in 1..(m + 1) |-> IF k = m + 1 THEN n + 1 ELSE pos[k]]
  OBVIOUS
<1>8. at[m + 1] = n + 1 /\ \A k \in 1..m : at[k] = pos[k] /\ pos[k] \in 1..n
  BY <1>5, <1>6, <1>7 DEF Swept
<1>9. at \in [1..(m + 1) -> 1..(n + 1)]
  BY <1>3, <1>4, <1>6, <1>7, <1>8
<1>10. \A j, k \in 1..(m + 1) : at[j] = at[k] => j = k
  BY <1>3, <1>4, <1>8 DEF Swept
<1>11. \A j \in 1..(m + 1) : q[at[j]] = <<more[j]>>
  BY <1>4, <1>8 DEF Swept
<1>12. ASSUME NEW k \in 1..(n + 1), q[k] # <<>> PROVE \E j \in 1..(m + 1) : at[j] = k
  <2>1. CASE k = n + 1
    BY <1>6, <1>8, <2>1
  <2>2. CASE k \in 1..n
    <3>1. PICK j \in 1..m : pos[j] = k
      BY <1>12, <2>2 DEF Swept
    <3> QED
      BY <1>5, <1>8, <3>1
  <2> QED
    BY <1>2, <2>1, <2>2
<1>13. Swept(q, n + 1, more, m + 1, at)
  BY <1>1, <1>9, <1>10, <1>11, <1>12 DEF Swept
<1> QED
  BY <1>13

(* A sequence with one entry more.                                          *)
LEMMA AppendIs ==
  ASSUME NEW S, NEW s \in Seq(S), NEW x \in S, NEW r, r = Append(s, x)
  PROVE  r \in Seq(S) /\ Len(r) = Len(s) + 1 /\ r[Len(s) + 1] = x /\ \A k \in 1..Len(s) : r[k] = s[k]
OBVIOUS

SweepOf(p, S) ==
  /\ FlattenSeq(p) \in Seq(S)
  /\ \E pos : Swept(p, Len(p), FlattenSeq(p), Len(FlattenSeq(p)), pos)

LEMMA SweepNothing == ASSUME NEW S PROVE SweepOf(<<>>, S)
<1>1. PICK p : p = <<>>
  OBVIOUS
<1>2. p \in Seq(S) /\ Len(p) = 0 /\ p \in [1..0 -> 1..0] /\ \A k \in 1..0 : FALSE
  BY <1>1
<1>3. FlattenSeq(p) = p
  BY <1>1, FlattenNothing
<1>4. Swept(p, 0, p, 0, p)
  BY <1>2 DEF Swept
<1>5. SweepOf(p, S)
  BY <1>2, <1>3, <1>4 DEF SweepOf
<1> QED
  BY <1>1, <1>5

(* So the list that is left has the entries that are there, in order.       *)
LEMMA SweepIs ==
  ASSUME NEW S
  PROVE  \A p \in Seq(Single(S)) : SweepOf(p, S)
<1>0. PICK T : T = Single(S)
  OBVIOUS
<1>1. PICK Good : Good = {p \in Seq(T) : SweepOf(p, S)}
  OBVIOUS
<1>2. <<>> \in Good
  <2>1. <<>> \in Seq(T)
    OBVIOUS
  <2> QED
    BY <1>1, <2>1, SweepNothing
<1>3. T \subseteq Seq(S)
  <2>1. SUFFICES ASSUME NEW t \in T PROVE t \in Seq(S)
    OBVIOUS
  <2>2. CASE t = <<>>
    BY <2>2
  <2>3. CASE t # <<>>
    <3>1. PICK x \in S : t = <<x>>
      BY <1>0, <2>3 DEF Single
    <3> QED
      BY <3>1, OneIs
  <2> QED
    BY <2>2, <2>3
<1>4. ASSUME NEW p \in Seq(T), NEW t \in T, p \in Good PROVE Append(p, t) \in Good
  <2>1. PICK q : q = Append(p, t)
    OBVIOUS
  <2>2. q \in Seq(T) /\ Len(q) = Len(p) + 1 /\ q[Len(p) + 1] = t /\ \A k \in 1..Len(p) : q[k] = p[k]
    BY <2>1, AppendIs
  <2>3. p \in Seq(Seq(S)) /\ t \in Seq(S)
    BY <1>3
  <2>4. SweepOf(p, S)
    BY <1>1, <1>4
  <2>5. PICK out \in Seq(S) : out = FlattenSeq(p)
    BY <2>4 DEF SweepOf
  <2>6. PICK pos : Swept(p, Len(p), out, Len(out), pos)
    BY <2>4, <2>5 DEF SweepOf
  <2>7. FlattenSeq(q) = out \o t
    BY <2>1, <2>3, <2>5, FlattenAppend
  <2>8. CASE t = <<>>
    <3>1. out \o t = out
      BY <2>8
    <3>2. Swept(q, Len(q), out, Len(out), pos)
      BY <2>2, <2>6, <2>8, SweptNone
    <3>3. SweepOf(q, S)
      BY <2>7, <3>1, <3>2 DEF SweepOf
    <3> QED
      BY <1>1, <2>1, <2>2, <3>3
  <2>9. CASE t # <<>>
    <3>1. PICK x \in S : t = <<x>>
      BY <1>0, <2>9 DEF Single
    <3>2. PICK more : more = Append(out, x)
      OBVIOUS
    <3>3. more \in Seq(S) /\ Len(more) = Len(out) + 1 /\ more[Len(out) + 1] = x /\ \A k \in 1..Len(out) : more[k] = out[k]
      BY <3>2, AppendIs
    <3>4. out \o t = more
      BY <3>1, <3>2
    <3>5. \E at : Swept(q, Len(p) + 1, more, Len(out) + 1, at)
      BY <2>2, <2>6, <3>1, <3>3, SweptOne
    <3>6. SweepOf(q, S)
      BY <2>2, <2>7, <3>3, <3>4, <3>5 DEF SweepOf
    <3> QED
      BY <1>1, <2>1, <2>2, <3>6
  <2> QED
    BY <2>8, <2>9
<1>5. \A p \in Seq(T) : p \in Good
  BY <1>2, <1>4, BySuffix
<1> QED
  BY <1>0, <1>1, <1>5

LEMMA SeqIs ==
  ASSUME NEW T, NEW n \in Nat, NEW p \in [1..n -> T]
  PROVE  p \in Seq(T) /\ Len(p) = n
OBVIOUS

-----------------------------------------------------------------------------
(* The requests: over a history that answers each call in the next message, the *)
(* converters leave every result behind its call.                               *)

(* The blocks of one type, each once.                                       *)
BlockSet == [type : {"text", "thinking", "tool_use", "tool_result"}, id : {"none", "c1", "c2"}]
OfKind(kind, s) == {k \in 1..Len(s) : s[k].type = kind}
Picked(kind, s, out, pos) ==
  /\ pos \in [1..Len(out) -> OfKind(kind, s)]
  /\ \A j, k \in 1..Len(out) : pos[j] = pos[k] => j = k
  /\ \A j \in 1..Len(out) : out[j] = s[pos[j]]
  /\ \A k \in OfKind(kind, s) : \E j \in 1..Len(out) : pos[j] = k

(* The blocks of a type are the places that have it, in order.              *)
LEMMA OfTypeIs ==
  ASSUME NEW kind, NEW s \in Seq(BlockSet)
  PROVE  OfType(kind, s) \in Seq(BlockSet) /\ \E pos : Picked(kind, s, OfType(kind, s), pos)
<1>1. PICK n \in Nat : n = Len(s)
  OBVIOUS
<1>2. PICK T : T = Single(BlockSet)
  OBVIOUS
<1>3. PICK p : p = [i \in 1..n |-> IF s[i].type = kind THEN <<s[i]>> ELSE <<>>]
  OBVIOUS
<1>4. ASSUME NEW k \in 1..n PROVE (IF s[k].type = kind THEN <<s[k]>> ELSE <<>>) \in T
  <2>1. s[k] \in BlockSet
    BY <1>1
  <2> QED
    BY <1>2, <2>1 DEF Single
<1>5. p \in Seq(T) /\ Len(p) = n
  <2>1. p \in [1..n -> T]
    BY <1>3, <1>4
  <2> QED
    BY <1>1, <2>1, SeqIs
<1>6. PICK out : out = OfType(kind, s) /\ out = FlattenSeq(p)
  BY <1>1, <1>3 DEF OfType
<1>7. SweepOf(p, BlockSet)
  BY <1>2, <1>5, SweepIs
<1>8. out \in Seq(BlockSet)
  BY <1>6, <1>7 DEF SweepOf
<1>9. PICK m \in Nat : m = Len(out)
  BY <1>8
<1>10. PICK pos : Swept(p, n, out, m, pos)
  BY <1>5, <1>6, <1>7, <1>9 DEF SweepOf
<1>11. /\ pos \in [1..m -> 1..n] /\ \A j, k \in 1..m : pos[j] = pos[k] => j = k
       /\ \A j \in 1..m : p[pos[j]] = <<out[j]>>
       /\ \A k \in 1..n : p[k] # <<>> => \E j \in 1..m : pos[j] = k
  BY <1>10 DEF Swept
<1>12. ASSUME NEW j \in 1..m PROVE pos[j] \in OfKind(kind, s) /\ out[j] = s[pos[j]]
  <2>1. PICK k \in 1..n : k = pos[j]
    BY <1>11
  <2>2. p[k] = <<out[j]>>
    BY <1>11, <2>1
  <2>3. s[k].type = kind
    BY <1>3, <2>2
  <2>4. <<s[k]>> = <<out[j]>>
    BY <1>3, <2>2, <2>3
  <2>5. s[k] = out[j]
    BY <2>4
  <2> QED
    BY <1>1, <2>1, <2>3, <2>5 DEF OfKind
<1>13. ASSUME NEW k \in OfKind(kind, s) PROVE \E j \in 1..m : pos[j] = k
  <2>1. k \in 1..n /\ s[k].type = kind
    BY <1>1 DEF OfKind
  <2>2. p[k] = <<s[k]>>
    BY <1>3, <2>1
  <2>3. p[k] # <<>>
    BY <2>2
  <2> QED
    BY <1>11, <2>1, <2>3
<1>14. Picked(kind, s, out, pos)
  BY <1>9, <1>11, <1>12, <1>13 DEF Picked
<1> QED
  BY <1>6, <1>8, <1>14

(* Where the ids of a kind are all different, they stay so; and they are    *)
(* the ids of that kind.                                                    *)
IdsOf(kind, s) == {s[k].id : k \in OfKind(kind, s)}
Different(kind, s) == \A k, l \in OfKind(kind, s) : s[k].id = s[l].id => k = l

SaidIds(out) == {out[j].id : j \in 1..Len(out)}
Apart(out) == \A j, k \in 1..Len(out) : out[j].id = out[k].id => j = k

(* Different ids stay different.                                            *)
LEMMA PickedIds ==
  ASSUME NEW kind, NEW s \in Seq(BlockSet), NEW out \in Seq(BlockSet), out = OfType(kind, s), Different(kind, s)
  PROVE  Apart(out) /\ SaidIds(out) = IdsOf(kind, s)
<1>1. PICK pos : Picked(kind, s, out, pos)
  BY OfTypeIs
<1>2. PICK m \in Nat : m = Len(out)
  OBVIOUS
<1>3. \A j \in 1..m : pos[j] \in OfKind(kind, s) /\ out[j] = s[pos[j]]
  BY <1>1, <1>2 DEF Picked
<1>4. ASSUME NEW j \in 1..m, NEW k \in 1..m, out[j].id = out[k].id PROVE j = k
  <2>1. pos[j] = pos[k]
    BY <1>3, <1>4 DEF Different
  <2> QED
    BY <1>1, <1>2, <2>1 DEF Picked
<1>5. \A k \in OfKind(kind, s) : \E j \in 1..m : out[j].id = s[k].id
  BY <1>1, <1>2, <1>3 DEF Picked
<1>6. {out[j].id : j \in 1..m} = IdsOf(kind, s)
  <2>1. \A y \in {out[j].id : j \in 1..m} : y \in IdsOf(kind, s)
    BY <1>3 DEF IdsOf
  <2>2. \A y \in IdsOf(kind, s) : y \in {out[j].id : j \in 1..m}
    BY <1>5 DEF IdsOf
  <2> QED
    BY <2>1, <2>2
<1> QED
  BY <1>2, <1>4, <1>6 DEF Apart, SaidIds

(* As many of one kind as of another, when the ids are the same.            *)
LEMMA SameNumber ==
  ASSUME NEW s \in Seq(BlockSet), NEW t \in Seq(BlockSet), SaidIds(s) = SaidIds(t), Apart(s), Apart(t)
  PROVE  Len(s) = Len(t)
<1>1. PICK m \in Nat, n \in Nat : m = Len(s) /\ n = Len(t)
  OBVIOUS
<1>2. PICK A : A = {s[j].id : j \in 1..m} /\ A = {t[j].id : j \in 1..n}
  BY <1>1 DEF SaidIds
<1>3. PICK f, g : f = [j \in 1..m |-> s[j].id] /\ g = [j \in 1..n |-> t[j].id]
  OBVIOUS
<1>4. f \in Bijection(1..m, A)
  <2>1. f \in [1..m -> A] /\ \A j \in 1..m : f[j] = s[j].id
    BY <1>2, <1>3
  <2>2. \A j, k \in 1..m : f[j] = f[k] => j = k
    BY <1>1, <2>1 DEF Apart
  <2>3. \A y \in A : \E j \in 1..m : f[j] = y
    BY <1>2, <2>1
  <2> QED
    BY <2>1, <2>2, <2>3 DEF Bijection, Injection, Surjection, IsInjective
<1>5. g \in Bijection(1..n, A)
  <2>1. g \in [1..n -> A] /\ \A j \in 1..n : g[j] = t[j].id
    BY <1>2, <1>3
  <2>2. \A j, k \in 1..n : g[j] = g[k] => j = k
    BY <1>1, <2>1 DEF Apart
  <2>3. \A y \in A : \E j \in 1..n : g[j] = y
    BY <1>2, <2>1
  <2> QED
    BY <2>1, <2>2, <2>3 DEF Bijection, Injection, Surjection, IsInjective
<1>6. IsFiniteSet(1..m) /\ Cardinality(1..m) = m /\ IsFiniteSet(1..n) /\ Cardinality(1..n) = n
  BY FS_Interval
<1>7. ExistsBijection(1..m, A) /\ ExistsBijection(1..n, A)
  BY <1>4, <1>5 DEF ExistsBijection
<1>8. Cardinality(A) = m /\ Cardinality(A) = n
  BY <1>6, <1>7, FS_Bijection
<1> QED
  BY <1>1, <1>8

(* Four lists one after the other.                                          *)
Four(w, a, b, c, d) ==
  /\ Len(w) = Len(a) + Len(b) + Len(c) + Len(d)
  /\ \A i \in 1..Len(a) : w[i] = a[i]
  /\ \A i \in 1..Len(b) : w[Len(a) + i] = b[i]
  /\ \A i \in 1..Len(c) : w[Len(a) + Len(b) + i] = c[i]
  /\ \A i \in 1..Len(d) : w[Len(a) + Len(b) + Len(c) + i] = d[i]

(* Each of the four is at its place in the whole.                           *)
LEMMA FourJoined ==
  ASSUME NEW S, NEW a \in Seq(S), NEW b \in Seq(S), NEW c \in Seq(S), NEW d \in Seq(S),
         NEW x \in Seq(S), NEW y \in Seq(S), NEW z \in Seq(S), Follows(x, a, b), Follows(y, x, c), Follows(z, y, d)
  PROVE  Four(z, a, b, c, d)
<1>1. PICK la \in Nat : la = Len(a)
  OBVIOUS
<1>2. PICK lb \in Nat : lb = Len(b)
  OBVIOUS
<1>3. PICK lc \in Nat : lc = Len(c)
  OBVIOUS
<1>4. PICK ld \in Nat : ld = Len(d)
  OBVIOUS
<1>5. Len(x) = la + lb /\ Goes(x, a, la, b, lb)
  BY <1>1, <1>2, FollowsIs
<1>6. Len(y) = la + lb + lc /\ Goes(y, x, la + lb, c, lc)
  <2>1. Len(y) = Len(x) + Len(c) /\ Goes(y, x, Len(x), c, Len(c))
    BY FollowsIs
  <2> QED
    BY <1>3, <1>5, <2>1
<1>7. Len(z) = la + lb + lc + ld /\ Goes(z, y, la + lb + lc, d, ld)
  <2>1. Len(z) = Len(y) + Len(d) /\ Goes(z, y, Len(y), d, Len(d))
    BY FollowsIs
  <2> QED
    BY <1>4, <1>6, <2>1
<1>8. (\A i \in 1..la : x[i] = a[i]) /\ (\A i \in 1..lb : x[la + i] = b[i])
  BY <1>5 DEF Goes, Same
<1>9. (\A i \in 1..(la + lb) : y[i] = x[i]) /\ (\A i \in 1..lc : y[(la + lb) + i] = c[i])
  BY <1>6 DEF Goes, Same
<1>10. (\A i \in 1..(la + lb + lc) : z[i] = y[i]) /\ (\A i \in 1..ld : z[(la + lb + lc) + i] = d[i])
  BY <1>7 DEF Goes, Same
<1>11. ASSUME NEW i \in 1..la PROVE z[i] = a[i]
  <2>1. i \in 1..(la + lb) /\ i \in 1..(la + lb + lc)
    BY <1>1, <1>2, <1>3
  <2> QED
    BY <1>8, <1>9, <1>10, <2>1
<1>12. ASSUME NEW i \in 1..lb PROVE z[la + i] = b[i]
  <2>1. la + i \in 1..(la + lb) /\ la + i \in 1..(la + lb + lc)
    OBVIOUS
  <2> QED
    BY <1>8, <1>9, <1>10, <2>1
<1>13. ASSUME NEW i \in 1..lc PROVE z[la + lb + i] = c[i]
  <2>1. la + lb + i \in 1..(la + lb + lc)
    OBVIOUS
  <2> QED
    BY <1>9, <1>10, <2>1
<1> QED
  BY <1>1, <1>2, <1>3, <1>4, <1>7, <1>10, <1>11, <1>12, <1>13 DEF Four

LEMMA FourParts ==
  ASSUME NEW S, NEW a \in Seq(S), NEW b \in Seq(S), NEW c \in Seq(S), NEW d \in Seq(S),
         NEW f, f = [i \in 1..4 |-> IF i = 1 THEN a ELSE IF i = 2 THEN b ELSE IF i = 3 THEN c ELSE d]
  PROVE  FlattenSeq(f) \in Seq(S) /\ Four(FlattenSeq(f), a, b, c, d)
<1>1. f \in Seq(Seq(S)) /\ Len(f) = 4
  <2>1. PICK T : T = Seq(S)
    OBVIOUS
  <2>2. f \in Seq(T) /\ Len(f) = 4
    BY <2>1
  <2> QED
    BY <2>1, <2>2
<1>2. f[1] = a /\ f[2] = b /\ f[3] = c /\ f[4] = d
  OBVIOUS
<1>3. PICK g \in [1..Len(f) -> Seq(S)] :
        /\ g[1] = f[1] /\ \A k \in 2..Len(f) : g[k] = g[k - 1] \o f[k]
        /\ FlattenSeq(f) = g[Len(f)]
  <2>1. Len(f) # 0
    BY <1>1
  <2> QED
    BY <1>1, <2>1, FlattenIs
<1>4. \A k \in 2..4 : Follows(g[k], g[k - 1], f[k])
  BY <1>1, <1>3 DEF Follows
<1>5. PICK x \in Seq(S), y \in Seq(S), z \in Seq(S) : x = g[2] /\ y = g[3] /\ z = g[4]
  BY <1>1, <1>3
<1>6. Follows(x, a, b) /\ Follows(y, x, c) /\ Follows(z, y, d)
  <2>1. 2 - 1 = 1 /\ 3 - 1 = 2 /\ 4 - 1 = 3 /\ 2 \in 2..4 /\ 3 \in 2..4 /\ 4 \in 2..4
    OBVIOUS
  <2>2. Follows(g[2], g[1], f[2]) /\ Follows(g[3], g[2], f[3]) /\ Follows(g[4], g[3], f[4])
    BY <1>4, <2>1
  <2> QED
    BY <1>2, <1>3, <1>5, <2>2
<1>7. FlattenSeq(f) = z
  BY <1>1, <1>3, <1>5
<1>8. Four(z, a, b, c, d)
  BY <1>5, <1>6, FourJoined
<1> QED
  BY <1>5, <1>7, <1>8

(* Where a place of the whole is.                                           *)
LEMMA FourPlaces ==
  ASSUME NEW la \in Nat, NEW lb \in Nat, NEW lc \in Nat, NEW ld \in Nat, NEW k \in 1..(la + lb + lc + ld)
  PROVE  \/ k \in 1..la
         \/ \E i \in 1..lb : k = la + i
         \/ \E i \in 1..lc : k = la + lb + i
         \/ \E i \in 1..ld : k = la + lb + lc + i
<1>1. CASE k \in 1..la
  BY <1>1
<1>2. CASE k > la /\ k <= la + lb
  <2>1. k - la \in 1..lb /\ k = la + (k - la)
    BY <1>2
  <2> QED
    BY <2>1
<1>3. CASE k > la + lb /\ k <= la + lb + lc
  <2>1. k - (la + lb) \in 1..lc /\ k = la + lb + (k - (la + lb))
    BY <1>3
  <2> QED
    BY <2>1
<1>4. CASE k > la + lb + lc
  <2>1. k - (la + lb + lc) \in 1..ld /\ k = la + lb + lc + (k - (la + lb + lc))
    BY <1>4
  <2> QED
    BY <2>1
<1> QED
  BY <1>1, <1>2, <1>3, <1>4

(* A history of which one turn calls, and the next answers.                 *)
Message(role, content) == [role |-> role, content |-> content]
Messages == [role : {"user", "assistant"}, content : Seq(BlockSet)]
Spoke == <<Text>>
Paired(asks, answer) ==
  /\ asks \in Seq(BlockSet) /\ answer \in Seq(BlockSet)
  /\ Different("tool_use", asks) /\ Different("tool_result", answer)
  /\ IdsOf("tool_use", asks) = IdsOf("tool_result", answer)
HistoryOf(asks, answer) ==
  <<Message("user", Spoke), Message("assistant", asks), Message("user", answer), Message("assistant", Spoke)>>

(* What is only said has no calls and no results.                           *)
LEMMA SpokeIs == Spoke \in Seq(BlockSet) /\ Len(Spoke) = 1 /\ Spoke[1].type = "text"
<1>1. Text \in BlockSet /\ Text.type = "text"
  BY DEF Text, Block, BlockSet
<1>2. PICK b \in BlockSet : b = Text /\ b.type = "text"
  BY <1>1
<1>3. PICK s \in Seq(BlockSet) : s = <<b>> /\ Len(s) = 1 /\ s[1] = b
  BY OneIs
<1> QED
  BY <1>2, <1>3 DEF Spoke

LEMMA SpokeOnly ==
  ASSUME NEW kind, kind # "text", NEW out, out = OfType(kind, Spoke)
  PROVE  out \in Seq(BlockSet) /\ Len(out) = 0
<1>1. PICK s \in Seq(BlockSet) : s = Spoke /\ Len(s) = 1 /\ s[1].type = "text"
  BY SpokeIs
<1>2. out \in Seq(BlockSet)
  BY <1>1, OfTypeIs
<1>3. PICK pos : Picked(kind, s, out, pos)
  BY <1>1, OfTypeIs
<1>4. OfKind(kind, s) = {}
  BY <1>1 DEF OfKind
<1>5. PICK m \in Nat : m = Len(out)
  BY <1>2
<1>6. \A j \in 1..m : FALSE
  BY <1>3, <1>4, <1>5 DEF Picked
<1>7. m = 0
  BY <1>6
<1> QED
  BY <1>2, <1>5, <1>7

(* Any converter of messages, over such a history.                          *)
LEMMA HistoryParts ==
  ASSUME NEW S, NEW asks, NEW answer, Paired(asks, answer), NEW a \in Seq(S), NEW b \in Seq(S), NEW c \in Seq(S), NEW d \in Seq(S),
         NEW h, h = HistoryOf(asks, answer), NEW f,
         f = [i \in 1..Len(h) |-> IF i = 1 THEN a ELSE IF i = 2 THEN b ELSE IF i = 3 THEN c ELSE d]
  PROVE  FlattenSeq(f) \in Seq(S) /\ Four(FlattenSeq(f), a, b, c, d)
<1>1. Len(h) = 4
  BY DEF HistoryOf
<1> QED
  BY <1>1, FourParts

(* The four messages of such a history.                                     *)
LEMMA HistoryIs ==
  ASSUME NEW asks, NEW answer, Paired(asks, answer), NEW h, h = HistoryOf(asks, answer)
  PROVE  /\ Len(h) = 4 /\ h[1] = Message("user", Spoke) /\ h[2] = Message("assistant", asks)
         /\ h[3] = Message("user", answer) /\ h[4] = Message("assistant", Spoke)
  BY DEF HistoryOf

(* The calls of a message are those it makes and those it answers.          *)
LEMMA CallsAre ==
  ASSUME NEW s \in Seq(BlockSet)
  PROVE  CallsOf(s) = IdsOf("tool_use", s) \cup IdsOf("tool_result", s)
<1>1. PICK n \in Nat : n = Len(s) /\ DOMAIN s = 1..n
  OBVIOUS
<1>2. PICK A, B, C : /\ A = {j \in 1..n : s[j].type \in {"tool_use", "tool_result"}}
                     /\ B = OfKind("tool_use", s) /\ C = OfKind("tool_result", s)
  OBVIOUS
<1>3. A = B \cup C
  BY <1>1, <1>2 DEF OfKind
<1>4. {s[i].id : i \in A} = {s[i].id : i \in B} \cup {s[i].id : i \in C}
  BY <1>3
<1> QED
  BY <1>1, <1>2, <1>4 DEF CallsOf, IdsOf

LEMMA BlocksAre ==
  /\ Text \in BlockSet /\ Text.type = "text" /\ Text.id = "none"
  /\ Block("thinking", "none") \in BlockSet /\ Block("thinking", "none").type = "thinking"
  /\ \A x \in {"c1", "c2"} :
       /\ Block("tool_use", x) \in BlockSet /\ Block("tool_use", x).type = "tool_use" /\ Block("tool_use", x).id = x
       /\ Block("tool_result", x) \in BlockSet /\ Block("tool_result", x).type = "tool_result" /\ Block("tool_result", x).id = x
BY DEF Block, Text, BlockSet

(* What an assistant asks: every call of it is another.                     *)
Asking(s) == s \in Seq(BlockSet) /\ Different("tool_use", s) /\ OfKind("tool_result", s) = {}

(* One call, or one among three blocks, and so on: each call is asked once. *)
LEMMA AskedOne == Asking(<<Block("tool_use", "c1")>>)
<1>1. PICK b \in BlockSet : b = Block("tool_use", "c1") /\ b.type = "tool_use"
  BY BlocksAre
<1>2. PICK s \in Seq(BlockSet) : s = <<b>> /\ Len(s) = 1 /\ s[1] = b
  BY OneIs
<1>3. Asking(s)
  BY <1>1, <1>2 DEF Asking, Different, OfKind
<1> QED
  BY <1>1, <1>2, <1>3

LEMMA AskedThree ==
  ASSUME NEW a \in BlockSet, NEW b \in BlockSet, NEW c \in BlockSet,
         a.type # "tool_result", b.type # "tool_result", c.type # "tool_result", a.type # "tool_use",
         c.type = "tool_use" => b.id # c.id
  PROVE  Asking(<<a, b, c>>)
<1>1. PICK s \in Seq(BlockSet) : s = <<a, b, c>> /\ Len(s) = 3 /\ s[1] = a /\ s[2] = b /\ s[3] = c
  <2>1. PICK s : s = <<a, b, c>>
    OBVIOUS
  <2>2. s \in Seq(BlockSet) /\ Len(s) = 3 /\ s[1] = a /\ s[2] = b /\ s[3] = c
    BY <2>1
  <2> QED
    BY <2>1, <2>2
<1>2. \A k \in 1..3 : k = 1 \/ k = 2 \/ k = 3
  OBVIOUS
<1>3. OfKind("tool_result", s) = {}
  BY <1>1, <1>2 DEF OfKind
<1>4. OfKind("tool_use", s) \subseteq {2, 3} /\ (3 \in OfKind("tool_use", s) => b.id # c.id)
  BY <1>1, <1>2 DEF OfKind
<1>5. Different("tool_use", s)
  BY <1>1, <1>4 DEF Different
<1> QED
  BY <1>1, <1>3, <1>5 DEF Asking

(* What a user answers: every result is another, in any order.              *)
LEMMA AnswersAre ==
  ASSUME NEW s \in SetToAllKPermutations({Text, Block("tool_result", "c1"), Block("tool_result", "c2")})
  PROVE  s \in Seq(BlockSet) /\ Different("tool_result", s) /\ OfKind("tool_use", s) = {}
<1>1. PICK a, b, c : a = Text /\ b = Block("tool_result", "c1") /\ c = Block("tool_result", "c2")
  OBVIOUS
<1>2. /\ a \in BlockSet /\ a.type = "text" /\ b \in BlockSet /\ b.type = "tool_result" /\ b.id = "c1"
      /\ c \in BlockSet /\ c.type = "tool_result" /\ c.id = "c2"
  BY <1>1, BlocksAre
<1>3. PICK S \in SUBSET {a, b, c} : s \in SetToSeqs(S)
  BY <1>1 DEF SetToAllKPermutations
<1>4. IsFiniteSet(S)
  <2>1. IsFiniteSet({a, b, c})
    <3>1. IsFiniteSet({}) /\ IsFiniteSet({} \cup {a})
      BY FS_EmptySet, FS_AddElement
    <3>2. IsFiniteSet(({} \cup {a}) \cup {b})
      BY <3>1, FS_AddElement
    <3>3. IsFiniteSet((({} \cup {a}) \cup {b}) \cup {c})
      BY <3>2, FS_AddElement
    <3>4. (({} \cup {a}) \cup {b}) \cup {c} = {a, b, c}
      OBVIOUS
    <3> QED
      BY <3>3, <3>4
  <2> QED
    BY <1>3, <2>1, FS_Subset
<1>5. s \in Seq(S) /\ \A k, l \in 1..Len(s) : s[k] = s[l] => k = l
  BY <1>3, <1>4, SeqsOf
<1>6. PICK n \in Nat : n = Len(s)
  BY <1>5
<1>7. \A k \in 1..n : s[k] = a \/ s[k] = b \/ s[k] = c
  BY <1>3, <1>5, <1>6
<1>8. s \in Seq(BlockSet)
  <2>1. S \subseteq BlockSet
    BY <1>2, <1>3
  <2> QED
    BY <1>5, <2>1
<1>9. OfKind("tool_use", s) = {}
  BY <1>2, <1>6, <1>7 DEF OfKind
<1>10. \A k \in OfKind("tool_result", s) : k \in 1..n /\ (s[k] = b \/ s[k] = c)
  BY <1>2, <1>6, <1>7 DEF OfKind
<1>11. ASSUME NEW k \in OfKind("tool_result", s), NEW l \in OfKind("tool_result", s), s[k].id = s[l].id PROVE k = l
  <2>1. s[k] = s[l]
    BY <1>2, <1>10, <1>11
  <2> QED
    BY <1>5, <1>6, <1>10, <2>1
<1> QED
  BY <1>8, <1>9, <1>11 DEF Different

(* Every history that is checked is one of these.                           *)
LEMMA HistoriesArePaired ==
  ASSUME NEW h \in PairedHistories
  PROVE  \E asks, answer : Paired(asks, answer) /\ h = HistoryOf(asks, answer)
<1>1. PICK t \in Turns : /\ CallsOf(t[1]) = CallsOf(t[2])
                         /\ h = <<[role |-> "user", content |-> <<Text>>], [role |-> "assistant", content |-> t[1]],
                                  [role |-> "user", content |-> t[2]], [role |-> "assistant", content |-> <<Text>>]>>
  BY DEF PairedHistories
<1>2. PICK asks, answer : /\ t = <<asks, answer>>
                          /\ asks \in {<<Block("tool_use", "c1")>>, <<Text, Block("tool_use", "c1"), Block("tool_use", "c2")>>,
                                       <<Block("thinking", "none"), Block("tool_use", "c1"), Text>>}
                          /\ answer \in SetToAllKPermutations({Text, Block("tool_result", "c1"), Block("tool_result", "c2")})
  BY DEF Turns
<1>3. t[1] = asks /\ t[2] = answer
  BY <1>2
<1>4. Asking(asks)
  <2>1. CASE asks = <<Block("tool_use", "c1")>>
    BY <2>1, AskedOne
  <2>2. CASE asks = <<Text, Block("tool_use", "c1"), Block("tool_use", "c2")>>
    <3>1. Asking(<<Text, Block("tool_use", "c1"), Block("tool_use", "c2")>>)
      BY AskedThree, BlocksAre
    <3> QED
      BY <2>2, <3>1
  <2>3. CASE asks = <<Block("thinking", "none"), Block("tool_use", "c1"), Text>>
    <3>1. Asking(<<Block("thinking", "none"), Block("tool_use", "c1"), Text>>)
      BY AskedThree, BlocksAre
    <3> QED
      BY <2>3, <3>1
  <2> QED
    BY <1>2, <2>1, <2>2, <2>3
<1>5. answer \in Seq(BlockSet) /\ Different("tool_result", answer) /\ OfKind("tool_use", answer) = {}
  BY <1>2, AnswersAre
<1>6. IdsOf("tool_use", asks) = IdsOf("tool_result", answer)
  <2>1. IdsOf("tool_result", asks) = {} /\ IdsOf("tool_use", answer) = {}
    BY <1>4, <1>5 DEF IdsOf, Asking
  <2> QED
    BY <1>1, <1>3, <1>4, <1>5, <2>1, CallsAre DEF Asking
<1>7. Paired(asks, answer)
  BY <1>4, <1>5, <1>6 DEF Paired, Asking
<1>8. h = HistoryOf(asks, answer)
  BY <1>1, <1>3 DEF HistoryOf, Message, Spoke
<1> QED
  BY <1>7, <1>8

(* A request of the Responses API.                                          *)
InputItems ==
  [type : {"function_call", "function_call_output", "message"}, id : {"none", "c1", "c2"}, role : {"none", "user", "assistant"}]
OwnOf(role) == IF role = "user" THEN "tool_result" ELSE "tool_use"
TypeOf(role) == IF role = "user" THEN "function_call_output" ELSE "function_call"
InputPart(p, own, role) ==
  /\ p \in Seq(InputItems) /\ Len(p) >= Len(own)
  /\ \A i \in 1..Len(own) : p[i].type = TypeOf(role) /\ p[i].id = own[i].id
  /\ \A i \in 1..Len(p) : i > Len(own) => p[i].type = "message" /\ p[i].role = role

(* The items of one message: what it says, and its calls or its results.    *)
LEMMA InputIs ==
  ASSUME NEW role \in {"user", "assistant"}, NEW content \in Seq(BlockSet), NEW own, own = OfType(OwnOf(role), content)
  PROVE  InputPart(ResponsesInput(Message(role, content)), own, role)
<1>1. own \in Seq(BlockSet) /\ \E pos : Picked(OwnOf(role), content, own, pos)
  BY OfTypeIs
<1>2. PICK pos : Picked(OwnOf(role), content, own, pos)
  BY <1>1
<1>3. PICK n \in Nat : n = Len(own)
  BY <1>1
<1>4. ASSUME NEW i \in 1..n PROVE own[i] \in BlockSet /\ own[i].type = OwnOf(role)
  <2>1. own[i] = content[pos[i]] /\ pos[i] \in OfKind(OwnOf(role), content)
    BY <1>2, <1>3 DEF Picked
  <2>2. own[i].type = OwnOf(role)
    BY <2>1 DEF OfKind
  <2> QED
    BY <1>1, <1>3, <2>2
<1>5. PICK s : s = [i \in 1..n |-> ItemOf(own[i])]
  OBVIOUS
<1>6. ASSUME NEW i \in 1..n PROVE ItemOf(own[i]) \in InputItems /\ ItemOf(own[i]).type = TypeOf(role) /\ ItemOf(own[i]).id = own[i].id
  BY <1>4 DEF ItemOf, InputItems, TypeOf, OwnOf, BlockSet
<1>7. s \in Seq(InputItems) /\ Len(s) = n /\ \A i \in 1..n : s[i].type = TypeOf(role) /\ s[i].id = own[i].id
  <2>1. s \in [1..n -> InputItems]
    BY <1>5, <1>6
  <2>2. s \in Seq(InputItems) /\ Len(s) = n
    BY <2>1, SeqIs
  <2> QED
    BY <1>5, <1>6, <2>2
<1>8. PICK words : words = IF OfType("text", content) = <<>> THEN <<>> ELSE <<[type |-> "message", id |-> "none", role |-> role]>>
  OBVIOUS
<1>9. words \in Seq(InputItems) /\ \A i \in 1..Len(words) : words[i].type = "message" /\ words[i].role = role
  <2>1. CASE OfType("text", content) = <<>>
    BY <1>8, <2>1
  <2>2. CASE OfType("text", content) # <<>>
    <3>1. PICK x \in InputItems : x = [type |-> "message", id |-> "none", role |-> role] /\ x.type = "message" /\ x.role = role
      <4>1. PICK x : x = [type |-> "message", id |-> "none", role |-> role]
        OBVIOUS
      <4>2. x \in InputItems /\ x.type = "message" /\ x.role = role
        BY <4>1 DEF InputItems
      <4> QED
        BY <4>1, <4>2
    <3>2. PICK one \in Seq(InputItems) : one = <<x>> /\ Len(one) = 1 /\ one[1] = x
      BY OneIs
    <3> QED
      BY <1>8, <2>2, <3>1, <3>2
  <2> QED
    BY <2>1, <2>2
<1>10. PICK m \in Nat : m = Len(words)
  BY <1>9
<1>11. PICK p : p = ResponsesInput(Message(role, content)) /\ Follows(p, s, words)
  <2>1. Message(role, content).role = role /\ Message(role, content).content = content
    BY DEF Message
  <2>2. ResponsesInput(Message(role, content)) = s \o words
    BY <1>3, <1>5, <1>8, <2>1 DEF ResponsesInput, OwnOf
  <2> QED
    BY <2>2 DEF Follows
<1>12. p \in Seq(InputItems) /\ Len(p) = n + m /\ Goes(p, s, n, words, m)
  BY <1>7, <1>9, <1>10, <1>11, FollowsIs
<1>13. \A i \in 1..n : p[i].type = TypeOf(role) /\ p[i].id = own[i].id
  BY <1>7, <1>12 DEF Goes, Same
<1>14. ASSUME NEW i \in 1..(n + m), i > n PROVE p[i].type = "message" /\ p[i].role = role
  <2>1. PICK l \in 1..m : i = n + l
    BY <1>14, Positions
  <2>2. p[n + l] = words[l]
    BY <1>12 DEF Goes
  <2> QED
    BY <1>9, <1>10, <2>1, <2>2
<1>15. InputPart(p, own, role)
  BY <1>3, <1>12, <1>13, <1>14 DEF InputPart
<1> QED
  BY <1>11, <1>15

(* Every output follows its call, and every call has one.                   *)
LEMMA OutputsAlwaysFollow ==
  ASSUME NEW asks, NEW answer, Paired(asks, answer)
  PROVE  OutputsFollow(ConvertMessagesToResponsesInput(HistoryOf(asks, answer)))
<1>1. PICK h : h = HistoryOf(asks, answer)
  OBVIOUS
<1>2. /\ Len(h) = 4 /\ h[1] = Message("user", Spoke) /\ h[2] = Message("assistant", asks)
      /\ h[3] = Message("user", answer) /\ h[4] = Message("assistant", Spoke)
  BY <1>1, HistoryIs
<1>3. asks \in Seq(BlockSet) /\ answer \in Seq(BlockSet) /\ Spoke \in Seq(BlockSet)
  BY SpokeIs DEF Paired
<1>4. PICK calls \in Seq(BlockSet), results \in Seq(BlockSet) : calls = OfType("tool_use", asks) /\ results = OfType("tool_result", answer)
  BY <1>3, OfTypeIs
<1>5. Apart(calls) /\ Apart(results) /\ SaidIds(calls) = SaidIds(results)
  BY <1>3, <1>4, PickedIds DEF Paired
<1>6. PICK none1, none2 : /\ none1 = OfType("tool_result", Spoke) /\ none2 = OfType("tool_use", Spoke)
                          /\ Len(none1) = 0 /\ Len(none2) = 0
  BY SpokeOnly
<1>7. PICK a, b, c, d : a = ResponsesInput(h[1]) /\ b = ResponsesInput(h[2]) /\ c = ResponsesInput(h[3]) /\ d = ResponsesInput(h[4])
  OBVIOUS
<1>8. OwnOf("user") = "tool_result" /\ OwnOf("assistant") = "tool_use" /\ TypeOf("user") = "function_call_output" /\ TypeOf("assistant") = "function_call"
  BY DEF OwnOf, TypeOf
<1>9. InputPart(a, none1, "user") /\ InputPart(b, calls, "assistant") /\ InputPart(c, results, "user") /\ InputPart(d, none2, "assistant")
  <2>1. InputPart(a, none1, "user")
    BY <1>2, <1>3, <1>6, <1>7, <1>8, InputIs
  <2>2. InputPart(b, calls, "assistant")
    BY <1>2, <1>3, <1>4, <1>7, <1>8, InputIs
  <2>3. InputPart(c, results, "user")
    BY <1>2, <1>3, <1>4, <1>7, <1>8, InputIs
  <2>4. InputPart(d, none2, "assistant")
    BY <1>2, <1>3, <1>6, <1>7, <1>8, InputIs
  <2> QED
    BY <2>1, <2>2, <2>3, <2>4
<1>10. a \in Seq(InputItems) /\ b \in Seq(InputItems) /\ c \in Seq(InputItems) /\ d \in Seq(InputItems)
  BY <1>9 DEF InputPart
<1>11. PICK w : w = ConvertMessagesToResponsesInput(h) /\ w \in Seq(InputItems) /\ Four(w, a, b, c, d)
  <2>1. PICK f : f = [i \in 1..Len(h) |-> ResponsesInput(h[i])]
    OBVIOUS
  <2>2. \A i \in 1..4 : i = 1 \/ i = 2 \/ i = 3 \/ i = 4
    OBVIOUS
  <2>3. f = [i \in 1..Len(h) |-> IF i = 1 THEN a ELSE IF i = 2 THEN b ELSE IF i = 3 THEN c ELSE d]
    BY <1>2, <1>7, <2>1, <2>2
  <2>4. FlattenSeq(f) \in Seq(InputItems) /\ Four(FlattenSeq(f), a, b, c, d)
    BY <1>1, <1>10, <2>3, HistoryParts
  <2> QED
    BY <2>1, <2>4 DEF ConvertMessagesToResponsesInput
<1>12. PICK la \in Nat, lb \in Nat, lc \in Nat, ld \in Nat : la = Len(a) /\ lb = Len(b) /\ lc = Len(c) /\ ld = Len(d)
  BY <1>10
<1>13. PICK n \in Nat, m \in Nat : n = Len(calls) /\ m = Len(results)
  OBVIOUS
<1>14. /\ Len(w) = la + lb + lc + ld /\ \A i \in 1..la : w[i] = a[i] 
       /\ \A i \in 1..lb : w[la + i] = b[i]
       /\ \A i \in 1..lc : w[la + lb + i] = c[i] 
       /\ \A i \in 1..ld : w[la + lb + lc + i] = d[i]
  BY <1>11, <1>12 DEF Four
<1>15. /\ n <= lb /\ m <= lc
       /\ \A i \in 1..n : w[la + i].type = "function_call" /\ w[la + i].id = calls[i].id
       /\ \A i \in 1..lb : i > n => w[la + i].type = "message" /\ w[la + i].role = "assistant"
       /\ \A i \in 1..m : w[la + lb + i].type = "function_call_output" /\ w[la + lb + i].id = results[i].id
       /\ \A i \in 1..lc : i > m => w[la + lb + i].type = "message"
       /\ \A i \in 1..la : w[i].type = "message"
       /\ \A i \in 1..ld : w[la + lb + lc + i].type = "message"
  <2>1. /\ lb >= n /\ \A i \in 1..n : b[i].type = "function_call" /\ b[i].id = calls[i].id
        /\ \A i \in 1..lb : i > n => b[i].type = "message" /\ b[i].role = "assistant"
    BY <1>8, <1>9, <1>12, <1>13 DEF InputPart
  <2>2. /\ lc >= m /\ \A i \in 1..m : c[i].type = "function_call_output" /\ c[i].id = results[i].id
        /\ \A i \in 1..lc : i > m => c[i].type = "message"
    BY <1>8, <1>9, <1>12, <1>13 DEF InputPart
  <2>3. \A i \in 1..la : a[i].type = "message"
    BY <1>6, <1>9, <1>12 DEF InputPart
  <2>4. \A i \in 1..ld : d[i].type = "message"
    BY <1>6, <1>9, <1>12 DEF InputPart
  <2>5. (\A i \in 1..n : i \in 1..lb) /\ (\A i \in 1..m : i \in 1..lc)
    BY <2>1, <2>2
  <2>6. \A i \in 1..n : w[la + i].type = "function_call" /\ w[la + i].id = calls[i].id
    <3>1. \A i \in 1..n : w[la + i] = b[i]
      BY <1>14, <2>5
    <3> QED
      BY <2>1, <3>1
  <2>7. \A i \in 1..lb : i > n => w[la + i].type = "message" /\ w[la + i].role = "assistant"
    BY <1>14, <2>1
  <2>8. \A i \in 1..m : w[la + lb + i].type = "function_call_output" /\ w[la + lb + i].id = results[i].id
    <3>1. \A i \in 1..m : w[la + lb + i] = c[i]
      BY <1>14, <2>5
    <3> QED
      BY <2>2, <3>1
  <2>9. \A i \in 1..lc : i > m => w[la + lb + i].type = "message"
    BY <1>14, <2>2
  <2>10. (\A i \in 1..la : w[i].type = "message") /\ (\A i \in 1..ld : w[la + lb + lc + i].type = "message")
    BY <1>14, <2>3, <2>4
  <2> QED
    BY <2>1, <2>2, <2>6, <2>7, <2>8, <2>9, <2>10
<1>16. ASSUME NEW p \in 1..Len(w), w[p].type = "function_call"
       PROVE  \E k \in (p + 1)..Len(w) :
                /\ w[k].type = "function_call_output" /\ w[k].id = w[p].id
                /\ \A j \in (p + 1)..(k - 1) :
                     IF w[j].type = "message" THEN w[j].role = "assistant" ELSE w[j].id # w[p].id
  <2>1. \E i \in 1..n : p = la + i
    <3>1. \/ p \in 1..la
          \/ \E i \in 1..lb : p = la + i
          \/ \E i \in 1..lc : p = la + lb + i
          \/ \E i \in 1..ld : p = la + lb + lc + i
      BY <1>14, FourPlaces
    <3>2. p \notin 1..la
      BY <1>15, <1>16
    <3>3. ASSUME NEW i \in 1..lb, p = la + i PROVE i \in 1..n
      BY <1>15, <1>16, <3>3
    <3>4. ASSUME NEW i \in 1..lc, p = la + lb + i PROVE FALSE
      <4>1. i \in 1..m \/ i > m
        OBVIOUS
      <4> QED
        BY <1>15, <1>16, <3>4, <4>1
    <3>5. ASSUME NEW i \in 1..ld, p = la + lb + lc + i PROVE FALSE
      BY <1>15, <1>16, <3>5
    <3> QED
      BY <3>1, <3>2, <3>3, <3>4, <3>5
  <2>2. PICK i \in 1..n : p = la + i
    BY <2>1
  <2>3. PICK j \in 1..m : results[j].id = calls[i].id
    <3>1. calls[i].id \in SaidIds(results)
      BY <1>5, <1>13 DEF SaidIds
    <3> QED
      BY <1>13, <3>1 DEF SaidIds
  <2>4. PICK k \in Nat : k = la + lb + j
    OBVIOUS
  <2>5. k \in (p + 1)..Len(w) /\ w[k].type = "function_call_output" /\ w[k].id = w[p].id
    BY <1>14, <1>15, <2>2, <2>3, <2>4
  <2>6. ASSUME NEW q \in (p + 1)..(k - 1)
        PROVE  IF w[q].type = "message" THEN w[q].role = "assistant" ELSE w[q].id # w[p].id
    <3>1. w[p].id = calls[i].id
      BY <1>15, <2>2
    <3>2. CASE q <= la + n
      <4>1. q - la \in 1..n /\ q = la + (q - la) /\ q - la # i
        BY <2>2, <3>2
      <4>2. PICK l \in 1..n : q = la + l /\ l # i
        BY <4>1
      <4>3. w[q].type = "function_call" /\ w[q].id = calls[l].id
        BY <1>15, <4>2
      <4>4. calls[l].id # calls[i].id
        BY <1>5, <1>13, <4>2 DEF Apart
      <4> QED
        BY <3>1, <4>3, <4>4
    <3>3. CASE q > la + n /\ q <= la + lb
      <4>1. q - la \in 1..lb /\ q = la + (q - la) /\ q - la > n
        BY <3>3
      <4>2. PICK l \in 1..lb : q = la + l /\ l > n
        BY <4>1
      <4>3. w[q].type = "message" /\ w[q].role = "assistant"
        BY <1>15, <4>2
      <4> QED
        BY <4>3
    <3>4. CASE q > la + lb
      <4>1. q - (la + lb) \in 1..m /\ q = la + lb + (q - (la + lb)) /\ q - (la + lb) # j
        BY <2>4, <3>4
      <4>2. PICK l \in 1..m : q = la + lb + l /\ l # j
        BY <4>1
      <4>3. w[q].type = "function_call_output" /\ w[q].id = results[l].id
        BY <1>15, <4>2
      <4>4. results[l].id # results[j].id
        BY <1>5, <1>13, <4>2 DEF Apart
      <4> QED
        BY <2>3, <3>1, <4>3, <4>4
    <3>5. q <= la + n \/ (q > la + n /\ q <= la + lb) \/ q > la + lb
      OBVIOUS
    <3> QED
      BY <3>2, <3>3, <3>4, <3>5
  <2> QED
    BY <2>5, <2>6
<1>17. DOMAIN w = 1..Len(w)
  BY <1>11
<1>18. OutputsFollow(w)
  BY <1>11, <1>16, <1>17 DEF OutputsFollow
<1> QED
  BY <1>1, <1>11, <1>18

(* A request of the chat API.                                               *)
Ids == {"none", "c1", "c2"}
ChatMessages == [role : {"user", "assistant", "tool"}, words : BOOLEAN, calls : Seq(Ids), id : Ids]
UserPart(p, results) ==
  /\ p \in Seq(ChatMessages) /\ Len(p) >= Len(results)
  /\ \A i \in 1..Len(results) : p[i].id = results[i].id
  /\ \A i \in 1..Len(p) : Len(p[i].calls) = 0
AssistantPart(p, calls) ==
  /\ p \in Seq(ChatMessages) /\ Len(p) = 1 /\ Len(p[1].calls) = Len(calls)
  /\ \A i \in 1..Len(calls) : p[1].calls[i] = calls[i].id

ChatRecord(x, calls, id) == x \in ChatMessages /\ x.calls = calls /\ x.id = id

(* A chat message is what it is made of.                                    *)
LEMMA ChatMessageIs ==
  ASSUME NEW role \in {"user", "assistant", "tool"}, NEW words \in BOOLEAN, NEW calls \in Seq(Ids), NEW id \in Ids
  PROVE  ChatRecord(ChatMessage(role, words, calls, id), calls, id)
BY DEF ChatMessage, ChatMessages, ChatRecord

(* The chat messages of a user: the results first, each on its own.         *)
LEMMA UserIs ==
  ASSUME NEW content \in Seq(BlockSet), NEW results, results = OfType("tool_result", content)
  PROVE  UserPart(ChatUser(Message("user", content)), results)
<1>1. results \in Seq(BlockSet)
  BY OfTypeIs
<1>2. PICK n \in Nat : n = Len(results)
  BY <1>1
<1>3. PICK none \in Seq(Ids) : none = <<>> /\ Len(none) = 0
  <2>1. <<>> \in Seq(Ids) /\ Len(<<>>) = 0
    OBVIOUS
  <2> QED
    BY <2>1
<1>4. PICK msg : msg = Message("user", content) /\ msg.content = content
  <2>1. Message("user", content).content = content
    BY DEF Message
  <2> QED
    BY <2>1
<1>5. PICK s : s = [i \in 1..n |-> ChatMessage("tool", TRUE, none, results[i].id)]
  OBVIOUS
<1>6. ASSUME NEW i \in 1..n
      PROVE  s[i] \in ChatMessages /\ s[i].id = results[i].id /\ Len(s[i].calls) = 0
  <2>1. PICK x \in Ids : x = results[i].id
    <3>1. results[i] \in BlockSet
      BY <1>1, <1>2
    <3> QED
      BY <3>1 DEF BlockSet, Ids
  <2>2. s[i] = ChatMessage("tool", TRUE, none, x)
    BY <1>5, <2>1
  <2>3. ChatRecord(s[i], none, x)
    BY <2>2, ChatMessageIs
  <2> QED
    BY <1>3, <2>1, <2>3 DEF ChatRecord
<1>7. s \in Seq(ChatMessages) /\ Len(s) = n
  <2>1. s \in [1..n -> ChatMessages]
    BY <1>5, <1>6
  <2> QED
    BY <2>1, SeqIs
<1>8. PICK words : words = ChatWords(msg)
  OBVIOUS
<1>9. words \in Seq(ChatMessages) /\ \A i \in 1..Len(words) : Len(words[i].calls) = 0
  <2>1. CASE ~Said(msg)
    BY <1>8, <2>1 DEF ChatWords
  <2>2. CASE Said(msg)
    <3>1. PICK x \in ChatMessages : x = ChatMessage("user", TRUE, none, "none") /\ x.calls = none
      <4>1. "none" \in Ids
        BY DEF Ids
      <4>2. ChatRecord(ChatMessage("user", TRUE, none, "none"), none, "none")
        BY <4>1, ChatMessageIs
      <4> QED
        BY <4>2 DEF ChatRecord
    <3>2. PICK one \in Seq(ChatMessages) : one = <<x>> /\ Len(one) = 1 /\ one[1] = x
      BY OneIs
    <3>3. words = one
      BY <1>3, <1>8, <2>2, <3>1, <3>2 DEF ChatWords
    <3>4. \A i \in 1..1 : Len(one[i].calls) = 0
      <4>1. Len(x.calls) = 0
        BY <1>3, <3>1, Zenon
      <4>2. \A i \in 1..1 : i = 1
        OBVIOUS
      <4> QED
        BY <3>2, <4>1, <4>2
    <3> QED
      BY <3>2, <3>3, <3>4
  <2> QED
    BY <2>1, <2>2
<1>10. PICK m \in Nat : m = Len(words)
  BY <1>9
<1>11. PICK p : p = ChatUser(msg) /\ Follows(p, s, words)
  <2>1. ChatResults(msg) = s
    BY <1>2, <1>3, <1>4, <1>5 DEF ChatResults
  <2> QED
    BY <1>8, <2>1 DEF ChatUser, Follows
<1>12. p \in Seq(ChatMessages) /\ Len(p) = n + m /\ Goes(p, s, n, words, m)
  BY <1>7, <1>9, <1>10, <1>11, FollowsIs
<1>13. \A i \in 1..n : p[i] = s[i]
  BY <1>12 DEF Goes, Same
<1>14. ASSUME NEW i \in 1..(n + m) PROVE Len(p[i].calls) = 0
  <2>1. CASE i \in 1..n
    BY <1>6, <1>13, <2>1
  <2>2. CASE i \notin 1..n
    <3>1. PICK l \in 1..m : i = n + l
      BY <2>2, Positions
    <3>2. p[n + l] = words[l]
      BY <1>12 DEF Goes
    <3> QED
      BY <1>9, <1>10, <3>1, <3>2
  <2> QED
    BY <2>1, <2>2
<1>15. \A i \in 1..n : p[i].id = results[i].id
  BY <1>6, <1>13
<1>16. UserPart(p, results)
  BY <1>2, <1>12, <1>14, <1>15 DEF UserPart
<1> QED
  BY <1>4, <1>11, <1>16

(* The chat message of an assistant, with its calls.                        *)
LEMMA AssistantIs ==
  ASSUME NEW content \in Seq(BlockSet), NEW calls, calls = OfType("tool_use", content)
  PROVE  AssistantPart(ChatAssistant(Message("assistant", content)), calls)
<1>1. calls \in Seq(BlockSet)
  BY OfTypeIs
<1>2. PICK n \in Nat : n = Len(calls)
  BY <1>1
<1>3. PICK s : s = [i \in 1..n |-> calls[i].id]
  OBVIOUS
<1>4. s \in Seq(Ids) /\ Len(s) = n
  <2>1. \A i \in 1..n : calls[i].id \in Ids
    <3>1. \A i \in 1..n : calls[i] \in BlockSet
      BY <1>1, <1>2
    <3> QED
      BY <3>1 DEF BlockSet, Ids
  <2>2. s \in [1..n -> Ids]
    BY <1>3, <2>1
  <2> QED
    BY <2>2, SeqIs
<1>5. PICK msg : msg = Message("assistant", content) /\ msg.content = content
  <2>1. Message("assistant", content).content = content
    BY DEF Message
  <2> QED
    BY <2>1
<1>6. PICK x \in ChatMessages : x = ChatMessage("assistant", Said(msg), s, "none") /\ x.calls = s
  <2>1. "none" \in Ids /\ Said(msg) \in BOOLEAN
    BY DEF Ids, Said
  <2>2. ChatRecord(ChatMessage("assistant", Said(msg), s, "none"), s, "none")
    BY <1>4, <2>1, ChatMessageIs
  <2> QED
    BY <2>2 DEF ChatRecord
<1>7. PICK p \in Seq(ChatMessages) : p = <<x>> /\ Len(p) = 1 /\ p[1] = x
  BY OneIs
<1>8. ChatAssistant(msg) = p
  BY <1>2, <1>3, <1>5, <1>6, <1>7 DEF ChatAssistant
<1>9. AssistantPart(p, calls)
  BY <1>2, <1>3, <1>4, <1>6, <1>7 DEF AssistantPart
<1> QED
  BY <1>5, <1>8, <1>9

(* Every result follows the message with its call.                          *)
LEMMA ResultsAlwaysFollow ==
  ASSUME NEW asks, NEW answer, Paired(asks, answer)
  PROVE  ResultsFollow(ConvertMessages(HistoryOf(asks, answer)))
<1>1. PICK h : h = HistoryOf(asks, answer)
  OBVIOUS
<1>2. /\ Len(h) = 4 /\ h[1] = Message("user", Spoke) /\ h[2] = Message("assistant", asks)
      /\ h[3] = Message("user", answer) /\ h[4] = Message("assistant", Spoke)
  BY <1>1, HistoryIs
<1>3. asks \in Seq(BlockSet) /\ answer \in Seq(BlockSet) /\ Spoke \in Seq(BlockSet)
  BY SpokeIs DEF Paired
<1>4. PICK calls \in Seq(BlockSet), results \in Seq(BlockSet) : calls = OfType("tool_use", asks) /\ results = OfType("tool_result", answer)
  BY <1>3, OfTypeIs
<1>5. Apart(calls) /\ Apart(results) /\ SaidIds(calls) = SaidIds(results)
  BY <1>3, <1>4, PickedIds DEF Paired
<1>6. PICK n \in Nat : n = Len(calls) /\ n = Len(results)
  BY <1>5, SameNumber
<1>7. PICK none1, none2 : /\ none1 = OfType("tool_result", Spoke) /\ none2 = OfType("tool_use", Spoke)
                          /\ Len(none1) = 0 /\ Len(none2) = 0
  BY SpokeOnly
<1>8. PICK a, b, c, d : a = ChatUser(h[1]) /\ b = ChatAssistant(h[2]) /\ c = ChatUser(h[3]) /\ d = ChatAssistant(h[4])
  OBVIOUS
<1>9. UserPart(a, none1) /\ AssistantPart(b, calls) /\ UserPart(c, results) /\ AssistantPart(d, none2)
  BY <1>2, <1>3, <1>4, <1>7, <1>8, UserIs, AssistantIs
<1>10. a \in Seq(ChatMessages) /\ b \in Seq(ChatMessages) /\ c \in Seq(ChatMessages) /\ d \in Seq(ChatMessages)
  BY <1>9 DEF UserPart, AssistantPart
<1>11. PICK w : w = ConvertMessages(h) /\ w \in Seq(ChatMessages) /\ Four(w, a, b, c, d)
  <2>1. PICK f : f = [i \in 1..Len(h) |-> IF h[i].role = "user" THEN ChatUser(h[i]) ELSE ChatAssistant(h[i])]
    OBVIOUS
  <2>2. \A i \in 1..4 : i = 1 \/ i = 2 \/ i = 3 \/ i = 4
    OBVIOUS
  <2>3. h[1].role = "user" /\ h[2].role = "assistant" /\ h[3].role = "user" /\ h[4].role = "assistant"
    BY <1>2 DEF Message
  <2>4. f = [i \in 1..Len(h) |-> IF i = 1 THEN a ELSE IF i = 2 THEN b ELSE IF i = 3 THEN c ELSE d]
    BY <1>2, <1>8, <2>1, <2>2, <2>3
  <2>5. FlattenSeq(f) \in Seq(ChatMessages) /\ Four(FlattenSeq(f), a, b, c, d)
    BY <1>1, <1>10, <2>4, HistoryParts
  <2> QED
    BY <2>1, <2>5 DEF ConvertMessages
<1>12. PICK la \in Nat, lc \in Nat : la = Len(a) /\ lc = Len(c) /\ Len(b) = 1 /\ Len(d) = 1
  <2>1. Len(b) = 1 /\ Len(d) = 1
    BY <1>9 DEF AssistantPart
  <2> QED
    BY <1>10, <2>1
<1>13. /\ Len(w) = la + 1 + lc + 1 
       /\ \A i \in 1..la : w[i] = a[i] 
       /\ w[la + 1] = b[1]
       /\ \A i \in 1..lc : w[la + 1 + i] = c[i] 
       /\ w[la + 1 + lc + 1] = d[1]
  <2>1. 1 \in 1..1
    OBVIOUS
  <2> QED
    BY <1>11, <1>12, <2>1 DEF Four
<1>14. n <= lc /\ (\A i \in 1..n : w[la + 1 + i].id = results[i].id) /\ (\A i \in 1..lc : Len(w[la + 1 + i].calls) = 0)
  <2>1. n <= lc /\ (\A i \in 1..n : c[i].id = results[i].id) /\ (\A i \in 1..lc : Len(c[i].calls) = 0)
    BY <1>6, <1>9, <1>12 DEF UserPart
  <2>2. \A i \in 1..n : i \in 1..lc
    BY <2>1
  <2> QED
    BY <1>13, <2>1, <2>2
<1>15. \A i \in 1..la : Len(w[i].calls) = 0
  BY <1>9, <1>12, <1>13 DEF UserPart
<1>16. Len(w[la + 1 + lc + 1].calls) = 0
  BY <1>7, <1>9, <1>13 DEF AssistantPart
<1>17. PICK s : s = w[la + 1].calls /\ s \in Seq(Ids) /\ Len(s) = n /\ \A i \in 1..n : s[i] = calls[i].id
  <2>1. b[1] \in ChatMessages
    <3>1. 1 \in 1..Len(b)
      BY <1>12
    <3> QED
      BY <1>10, <3>1
  <2>2. b[1].calls \in Seq(Ids)
    BY <2>1 DEF ChatMessages
  <2> QED
    BY <1>6, <1>9, <1>13, <2>2 DEF AssistantPart
<1>18. Range(s) = {results[j].id : j \in 1..n}
  <2>1. DOMAIN s = 1..n
    BY <1>17
  <2>2. Range(s) = {calls[j].id : j \in 1..n}
    BY <1>17, <2>1 DEF Range
  <2> QED
    BY <1>5, <1>6, <2>2 DEF SaidIds
<1>19. ASSUME NEW i \in 1..Len(w)
       PROVE  /\ i + Len(w[i].calls) <= Len(w)
              /\ {w[k].id : k \in (i + 1)..(i + Len(w[i].calls))} = Range(w[i].calls)
  <2>1. CASE i = la + 1
    <3>1. Len(w[i].calls) = n /\ i + n <= Len(w)
      BY <1>13, <1>14, <1>17, <2>1
    <3>2. \A k \in (i + 1)..(i + n) : k - i \in 1..n /\ k = la + 1 + (k - i)
      BY <2>1
    <3>3. \A j \in 1..n : la + 1 + j \in (i + 1)..(i + n) /\ w[la + 1 + j].id = results[j].id
      <4>1. \A j \in 1..n : la + 1 + j \in (i + 1)..(i + n)
        BY <2>1
      <4>2. \A j \in 1..n : w[la + 1 + j].id = results[j].id
        BY <1>14
      <4> QED
        BY <4>1, <4>2
    <3>4. \A k \in (i + 1)..(i + n) : \E j \in 1..n : w[k].id = results[j].id
      BY <1>14, <3>2
    <3>5. {w[k].id : k \in (i + 1)..(i + n)} = {results[j].id : j \in 1..n}
      <4>1. PICK X, Y : X = {w[k].id : k \in (i + 1)..(i + n)} /\ Y = {results[j].id : j \in 1..n}
        OBVIOUS
      <4>2. \A y : y \in X <=> \E k \in (i + 1)..(i + n) : y = w[k].id
        BY <4>1
      <4>3. \A y : y \in Y <=> \E j \in 1..n : y = results[j].id
        BY <4>1
      <4>4. X \subseteq Y
        BY <3>4, <4>2, <4>3
      <4>5. ASSUME NEW y \in Y PROVE y \in X
        <5>1. PICK j \in 1..n : y = results[j].id
          BY <4>3
        <5>2. PICK k \in (i + 1)..(i + n) : k = la + 1 + j /\ w[k].id = y
          BY <3>3, <5>1
        <5> QED
          BY <4>2, <5>2
      <4> QED
        BY <4>1, <4>4, <4>5
    <3> QED
      BY <1>17, <1>18, <2>1, <3>1, <3>5
  <2>2. CASE i # la + 1
    <3>1. Len(w[i].calls) = 0
      <4>1. i \in 1..la \/ (\E l \in 1..lc : i = la + 1 + l) \/ i = la + 1 + lc + 1
        <5>1. \/ i \in 1..la
              \/ \E l \in 1..1 : i = la + l
              \/ \E l \in 1..lc : i = la + 1 + l
              \/ \E l \in 1..1 : i = la + 1 + lc + l
          <6>1. i \in 1..(la + 1 + lc + 1) /\ 1 \in Nat
            BY <1>13
          <6> QED
            BY <6>1, FourPlaces
        <5>2. \A l \in 1..1 : l = 1
          OBVIOUS
        <5> QED
          BY <2>2, <5>1, <5>2
      <4> QED
        BY <1>14, <1>15, <1>16, <4>1
    <3>2. w[i].calls \in Seq(Ids)
      <4>1. w[i] \in ChatMessages
        BY <1>11
      <4> QED
        BY <4>1 DEF ChatMessages
    <3>3. Range(w[i].calls) = {}
      <4>1. DOMAIN w[i].calls = {}
        BY <3>1, <3>2
      <4> QED
        BY <4>1 DEF Range
    <3>4. (i + 1)..(i + 0) = {} /\ i + 0 <= Len(w)
      BY <1>13
    <3> QED
      BY <3>1, <3>3, <3>4
  <2> QED
    BY <2>1, <2>2
<1>20. DOMAIN w = 1..Len(w)
  BY <1>11
<1>21. ResultsFollow(w)
  BY <1>11, <1>19, <1>20 DEF ResultsFollow
<1> QED
  BY <1>1, <1>11, <1>21

(* Both requests pair what the history pairs, for every such history.       *)
LEMMA RequestsAlwaysPaired == RequestsArePaired
<1> SUFFICES ASSUME NEW h \in PairedHistories
             PROVE  OutputsFollow(ConvertMessagesToResponsesInput(h)) /\ ResultsFollow(ConvertMessages(h))
  BY DEF RequestsArePaired
<1>1. PICK asks, answer : Paired(asks, answer) /\ h = HistoryOf(asks, answer)
  BY HistoriesArePaired
<1> QED
  BY <1>1, OutputsAlwaysFollow, ResultsAlwaysFollow

-----------------------------------------------------------------------------
(* Each step is one of the part at work; no other part changes.             *)
LEMMA PartSteps ==
  ASSUME [LanesAndModelsNext]_<<part, lanesVars, modelsVars>>
  PROVE  /\ [LocksNext]_lockVars /\ [LogNext]_laneVars /\ [StaleNext]_staleVars
         /\ [PolicyNext]_policyVars /\ [TrustNext]_trustVars
         /\ [ResponseNext]_responseVars /\ [SseNext]_sseVars
         /\ [RegistryNext]_registryVars /\ [PromptNext]_promptVars
         /\ part' = part
BY DEF LanesAndModelsNext, LanesNext, ModelsNext, lanesVars, modelsVars

(* Data the registry goes on with are younger than twice their lifetime,    *)
(* a curated alias keeps its model until a new model of that very name takes *)
(* it, no merge zeroes a curated limit, and no answer given from the cache  *)
(* has outlived its lifetime, for any models, aliases, prompts, callers and *)
(* lifetimes (model_registry_live.go:154-274, prompt_cache.go:120-300).     *)
THEOREM KeptDataIsAlwaysFresh == LanesAndModelsSpec => []KeptDataIsFresh
<1>1. LanesAndModelsInit => RegistryInv /\ PromptInv
  BY RegistryInvInit, PromptInvInit DEF LanesAndModelsInit
<1>2. RegistryInv /\ PromptInv /\ [LanesAndModelsNext]_<<part, lanesVars, modelsVars>>
        => (RegistryInv /\ PromptInv)'
  BY PartSteps, RegistryInvStep, PromptInvStep
<1>3. RegistryInv /\ PromptInv => KeptDataIsFresh
  BY RegistryIsRecent DEF KeptDataIsFresh, PromptInv
<1>. QED
  BY <1>1, <1>2, <1>3, PTL DEF LanesAndModelsSpec

(* A drop of cached tokens is called unexpected only when the provider      *)
(* answered this prompt within the two lifetimes (prompt_cache.go:385-392). *)
THEOREM UnexpectedAlwaysHasACause == LanesAndModelsSpec => UnexpectedHasACause
<1>1. LanesAndModelsInit => PromptInv
  BY PromptInvInit DEF LanesAndModelsInit
<1>2. PromptInv /\ [LanesAndModelsNext]_<<part, lanesVars, modelsVars>> => PromptInv'
  BY PartSteps, PromptInvStep
<1>3. PromptInv /\ [LanesAndModelsNext]_<<part, lanesVars, modelsVars>>
        => [break' = "unexpected" /\ break # "unexpected" =>
              \E p \in Prompts : /\ previous'.prompt = p /\ askedAt[p] >= 0
                                 /\ time - askedAt[p] < PromptTTL + CompletionTTL]_promptVars
  BY PartSteps, DropsHaveACause
<1>. QED
  BY <1>1, <1>2, <1>3, PTL DEF LanesAndModelsSpec, UnexpectedHasACause

(* What is denied stays denied with every directory below it, trust is      *)
(* lost only to a denied root, and whom a prompt trusts, Trusts lets pass   *)
(* (trust_resolver.go:183-242).                                             *)
LEMMA DenialsAlwaysStand == LanesAndModelsSpec => DenialsStand
<1>1. LanesAndModelsInit => TrustInv
  BY TrustInvInit DEF LanesAndModelsInit
<1>2. TrustInv /\ [LanesAndModelsNext]_<<part, lanesVars, modelsVars>> => TrustInv'
  BY PartSteps, TrustInvStep
<1>3. TrustInv /\ [LanesAndModelsNext]_<<part, lanesVars, modelsVars>>
        => [\A d \in Directories : Asked(d) => AnswerStands(d)]_trustVars
  BY PartSteps, AnswersStandStep
<1>. QED
  BY <1>1, <1>2, <1>3, PTL DEF LanesAndModelsSpec, DenialsStand, AnswerStands

(* What was decided about lanes stays so, for any rules over any of the     *)
(* conditions and actions there are and any directories: the actions of the *)
(* rules that match, in the order of the engine and all of them; none of    *)
(* them taken back of a lane that only got further; and the denials of the  *)
(* trust resolver (policy.go:58-329, trust_resolver.go:183-242).            *)
THEOREM DecisionsAlwaysStand == LanesAndModelsSpec => DecisionsStand
<1>1. LanesAndModelsInit => PolicyInv
  BY PolicyInitially DEF LanesAndModelsInit
<1>2. PolicyInv /\ [LanesAndModelsNext]_<<part, lanesVars, modelsVars>> => PolicyInv'
  BY PartSteps, PolicyStep, PolicyUnchanged
<1>3. ASSUME [LanesAndModelsNext]_<<part, lanesVars, modelsVars>> PROVE PolicyNext \/ UNCHANGED decided
  BY <1>3, PartSteps DEF policyVars
<1>4. PolicyInv /\ [LanesAndModelsNext]_<<part, lanesVars, modelsVars>>
        => [LET matching == {i \in DOMAIN given : Matches(given[i].condition, lane)}
            IN  /\ Len(decided') = ActionsOf(matching)
                /\ \A i \in matching :
                     SubSeq(decided', ActionsOf(Before(i)) + 1, ActionsOf(Before(i)) + Len(given[i].action))
                       = given[i].action]_decided
  BY <1>3, DecisionInOrder
<1>5. PolicyInv /\ [LanesAndModelsNext]_<<part, lanesVars, modelsVars>>
        => [~setback => \A a \in ActionKinds :
              Cardinality({i \in DOMAIN decided : decided[i] = a})
                <= Cardinality({i \in DOMAIN decided' : decided'[i] = a})]_decided
  BY <1>3, NothingIsTakenBack
<1>6. LanesAndModelsSpec => DecidedInOrder
  BY <1>1, <1>2, <1>4, PTL DEF LanesAndModelsSpec, DecidedInOrder
<1>7. LanesAndModelsSpec => NothingTakenBack
  BY <1>1, <1>2, <1>5, PTL DEF LanesAndModelsSpec, NothingTakenBack
<1>. QED
  BY <1>6, <1>7, DenialsAlwaysStand DEF DecisionsStand

LanesInv ==
  /\ part \in {"lock", "events", "stale", "policy", "trust", "responses", "requests", "frames", "registry", "cache"}
  /\ LocksInv /\ LogInv /\ StaleInv /\ StaleBounds /\ PolicyInv /\ TrustInv
  /\ ResponseInv /\ FramesInv /\ RegistryInv /\ RegistryBounds /\ PromptInv /\ PromptBounds

(* For any commits, logs, policies, histories and rules: every part keeps   *)
(* its type; a log of a lane reads the same at its end and as it grows,     *)
(* with one live event per commit, the latest, and everything else in its   *)
(* place; and a branch under a known policy is let go on only if it had all *)
(* of main when the check began, and a message that lists fixes lists all   *)
(* it missed, however main and the branch move between the git commands     *)
(* (event.go:298-350, stale_branch.go:105-191).                             *)
THEOREM ChecksAreAlwaysHonest == LanesAndModelsSpec => []ChecksAreHonest
<1>1. LanesAndModelsInit => LanesInv
  BY LocksInvInit, LogInitially, StaleInvInit, StaleBoundsInit, PolicyInitially, TrustInvInit,
     ResponseInitially, FramesInit, RegistryInvInit, RegistryBoundsInit, PromptInvInit, PromptBoundsInit
     DEF LanesAndModelsInit, LanesInv
<1>2. LanesInv /\ [LanesAndModelsNext]_<<part, lanesVars, modelsVars>> => LanesInv'
  BY PartSteps, LocksInvStep, LogStep, StaleInvStep, StaleBoundsStep, PolicyStep, PolicyUnchanged, TrustInvStep,
     ResponseStep, FramesStep, RegistryInvStep, RegistryBoundsStep, PromptInvStep, PromptBoundsStep
     DEF LanesInv
<1>3. LanesInv => PartTypeOK
  <2>. SUFFICES ASSUME LanesInv PROVE PartTypeOK
    OBVIOUS
  <2>1. LocksTypeOK /\ LogTypeOK /\ StaleTypeOK /\ PolicyTypeOK /\ TrustTypeOK
    BY LogIsRead, StaleTyped, PolicyTyped DEF LanesInv, LocksInv, TrustInv
  <2>2. ResponseTypeOK /\ SseTypeOK /\ RegistryTypeOK /\ PromptTypeOK
    BY ResponseTyped, FramesHold, RegistryTyped, PromptTyped DEF LanesInv
  <2>. QED
    BY <2>1, <2>2 DEF LanesInv, PartTypeOK
<1>4. LanesInv => ChecksAreHonest
  <2>. SUFFICES ASSUME LanesInv PROVE ChecksAreHonest
    OBVIOUS
  <2>1. FreshWasFresh
    BY DEF LanesInv, StaleInv, FreshWasFresh
  <2>2. FixesAreNamed
    <3>1. action.lists => Decided
      BY DEF LanesInv, StaleInv, Decided, NoAction
    <3>. QED
      BY <3>1 DEF LanesInv, StaleInv, FixesAreNamed
  <2>. QED
    BY <1>3, <2>1, <2>2, LogIsRead DEF LanesInv, ChecksAreHonest
<1>. QED
  BY <1>1, <1>2, <1>4, PTL DEF LanesAndModelsSpec

(* A body gives the same frames however it is cut, and one that was not     *)
(* refused is delivered to the last byte that is no line end, for any limit *)
(* of the buffer and any length of the body (sse.go:51-180).                *)
THEOREM CutsNeverShow == LanesAndModelsSpec => [](CutsDoNotShow /\ NothingIsLost)
<1>1. LanesAndModelsInit => FramesInv
  BY FramesInit DEF LanesAndModelsInit
<1>2. FramesInv /\ [LanesAndModelsNext]_<<part, lanesVars, modelsVars>> => FramesInv'
  BY PartSteps, FramesStep
<1>3. FramesInv => CutsDoNotShow /\ NothingIsLost
  BY FramesHold
<1>. QED
  BY <1>1, <1>2, <1>3, PTL DEF LanesAndModelsSpec
=============================================================================
