----------------------------- MODULE BranchLock -----------------------------
(***************************************************************************)
(* BranchLockManager (internal/runtime/lane/branch_lock.go).  A lane       *)
(* claims modules of a branch before it works on them.  Modules are paths, *)
(* here sequences of names, and a module stands for everything below it.   *)
(* The manager's mutex makes every operation one step.                     *)
(*                                                                         *)
(* The slice of claims is a set of intents: collisions are sorted, so the  *)
(* order of the claims is never observed.                                  *)
(***************************************************************************)
EXTENDS Naturals, FiniteSets, Sequences, SequencesExt

CONSTANTS
  Lanes,     \* lanes
  NoLane,    \* not a lane
  Branches,  \* branches
  Paths,     \* modules a lane may claim
  Files,     \* files whose writers are of interest
  MaxClaims  \* bound: claims held at once

ASSUME BranchLockAssumption ==
  /\ Paths \subseteq Seq(STRING) /\ Files \subseteq Seq(STRING)
  /\ NoLane \notin Lanes

VARIABLES
  claims,   \* m.claims; one without modules counts once
  refusal   \* the lanes of the collisions the last Acquire reported

lockVars == <<claims, refusal>>

Intents == [lane : Lanes, branch : Branches, modules : SUBSET Paths]

(* Mutants: only equal modules collide; a module below a held one is        *)
(* refused, one above it is not.                                            *)
MutEqualModules(left, right) == left = right
MutNestedModules(left, right) == IsPrefix(left, right)

(* left == right, or one has the other and a slash as its prefix *)
ModulesOverlap(left, right) == IsPrefix(left, right) \/ IsPrefix(right, left)
SharedScope(left, right) == IF IsPrefix(right, left) THEN right ELSE left

(* The collisions of an intent with the claims held.  The code compares all *)
(* pairs of the candidate list; pairs of claims held never collide, which   *)
(* is the invariant Disjoint below.                                         *)
Overlapping(a, b) ==
  {p \in a.modules \X b.modules : a.branch = b.branch /\ ModulesOverlap(p[1], p[2])}

DetectCollisions(held, intent) ==
  UNION {{[branch |-> intent.branch, module |-> SharedScope(p[1], p[2]),
           lanes |-> <<claim.lane, intent.lane>>] :
             p \in Overlapping(claim, intent)} : claim \in held}

LocksInit == claims = {} /\ refusal = {}

Acquire(intent) ==
  /\ refusal' = {c.lanes : c \in DetectCollisions(claims, intent)}
  /\ IF refusal' # {}
       THEN UNCHANGED claims
       ELSE Cardinality(claims) < MaxClaims /\ claims' = claims \cup {intent}

(* Mutant: the claim is cleared instead of removed. *)
Release(lane) ==
  /\ claims' = {c \in claims : c.lane # lane}
  /\ refusal' = {}

LocksNext ==
  \/ \E intent \in Intents : Acquire(intent)
  \/ \E lane \in Lanes : Release(lane)

LocksSpec == LocksInit /\ [][LocksNext]_lockVars

-----------------------------------------------------------------------------
(* Properties. *)

(* The state holds claims of lanes. *)
LocksTypeOK == claims \subseteq Intents

(* Claims held on one branch never overlap, not even those of one lane. *)
Disjoint == \A a, b \in claims : a # b => Overlapping(a, b) = {}

(* A claim covers a file on its branch when one of its modules is above it. *)
Places == Branches \X Files
Covers(claim, place) ==
  claim.branch = place[1] /\ \E m \in claim.modules : IsPrefix(m, place[2])
Holders(place) == {c \in claims : Covers(c, place)}
Writer == [p \in Places |->
             IF Holders(p) = {} THEN NoLane ELSE (CHOOSE c \in Holders(p) : TRUE).lane]

(* The locks give every file of a branch at most one writer, who keeps it   *)
(* until its lane releases.                                                 *)
Abs == INSTANCE FileWriters WITH writer <- Writer, Places <- Places
OneWriter == Abs!Spec

(* branch_lock.go:23 calls a collision one "between lanes". *)
CollisionBetweenLanes == \A lanes \in refusal : lanes[1] # lanes[2]
=============================================================================
