----------------------------- MODULE LanePolicy -----------------------------
(* What is decided about lanes without asking anybody. The policy engine    *)
(* over the context of a lane (internal/runtime/policy), with the test      *)
(* levels a lane is held to (green_contracts.go): the rules are given once; *)
(* the lane goes through its life and is evaluated at any moment.           *)
(* Conditions nest one level below And and Or, and actions one level below  *)
(* Chain. The trust resolver (internal/runtime/trust), which shares no      *)
(* state with it: roots are allowed or denied one by one, and the directory *)
(* of a worker is judged when a trust prompt shows.                         *)
EXTENDS Integers, Sequences, FiniteSets, SequencesExt

CONSTANT RuleLists    \* sequences of rules: [condition, action, priority]

(* The actions and conditions there are.                                    *)
ActionKinds ==
  {"merge_to_dev", "merge_forward", "recover_once", "escalate", "closeout_lane",
   "cleanup_session", "reconcile", "notify", "block"}
IsTest(c) ==
  \/ c[1] \in {"green_at", "timed_out"} /\ c[2] \in Nat
  \/ c[1] \in {"stale_branch", "startup_blocked", "lane_completed",
               "lane_reconciled", "review_passed", "scoped_diff"}
IsCondition(c) ==
  \/ IsTest(c)
  \/ c[1] \in {"and", "or"} /\ \A i \in DOMAIN c[2] : IsTest(c[2][i])

ASSUME RulesAssumption ==
  \A list \in RuleLists :
    /\ DOMAIN list = 1..Len(list) /\ Len(list) \in Nat
    /\ \A i \in DOMAIN list :
         /\ IsCondition(list[i].condition) /\ list[i].priority \in Int
         /\ list[i].action \in Seq(ActionKinds)

VARIABLES
  given,      \* the rules as they were given
  engine,     \* the rules as NewEngine keeps them
  lane,       \* the LaneContext
  decided,    \* the actions of the last evaluation
  setback     \* history: the lane lost something since then

policyVars == <<given, engine, lane, decided, setback>>

(* QualityTier: targeted, package, workspace, merge ready. Age in hours.    *)
LaneContext ==
  [green : 0..3, age : 0..2, blocker : {"none", "startup", "external"},
   review : {"pending", "approved", "rejected"}, diff : {"full", "scoped"},
   completed : BOOLEAN, reconciled : BOOLEAN]

NewLaneContext ==
  [green |-> 0, age |-> 0, blocker |-> "startup", review |-> "pending", diff |-> "full",
   completed |-> FALSE, reconciled |-> FALSE]
ReconciledContext ==
  [NewLaneContext EXCEPT !.blocker = "none", !.completed = TRUE, !.reconciled = TRUE]

PolicyTypeOK ==
  /\ lane \in LaneContext /\ setback \in BOOLEAN
  /\ \A i \in DOMAIN decided : decided[i] \in ActionKinds

-----------------------------------------------------------------------------
MutIsSatisfiedBy(required, observed) == observed = required

IsSatisfiedBy(required, observed) == observed >= required

(* A single condition, with its argument where it has one.                  *)
Test(c, x) ==
  CASE c[1] = "green_at"        -> IsSatisfiedBy(c[2], x.green)
    [] c[1] = "timed_out"       -> x.age >= c[2]
    [] c[1] = "stale_branch"    -> x.age >= 1
    [] c[1] = "startup_blocked" -> x.blocker = "startup"
    [] c[1] = "lane_completed"  -> x.completed
    [] c[1] = "lane_reconciled" -> x.reconciled
    [] c[1] = "review_passed"   -> x.review = "approved"
    [] c[1] = "scoped_diff"     -> x.diff = "scoped"

(* A rule's condition: <<"and", children>>, <<"or", children>> or a test.   *)
Matches(c, x) ==
  CASE c[1] = "and" -> \A i \in DOMAIN c[2] : Test(c[2][i], x)
    [] c[1] = "or"  -> \E i \in DOMAIN c[2] : Test(c[2][i], x)
    [] OTHER        -> Test(c, x)

MutRuleBefore(list, i, j) ==    \* not stable: of equal priorities the later first
  \/ list[i].priority < list[j].priority
  \/ list[i].priority = list[j].priority /\ i > j

(* The order of a stable sort by priority.                                  *)
RuleBefore(list, i, j) ==
  \/ list[i].priority < list[j].priority
  \/ list[i].priority = list[j].priority /\ i < j

(* The sort is of a copy, so that the caller's list is its own: a rule      *)
(* stands behind as many as come before it.                                 *)
NewEngine(list) ==
  [n \in DOMAIN list |->
     list[CHOOSE i \in DOMAIN list : Cardinality({j \in DOMAIN list : RuleBefore(list, j, i)}) = n - 1]]

(* An action is a sequence of kinds: one, or the children of a Chain.       *)
EvaluateRules(rules, x) ==
  FlattenSeq([i \in DOMAIN rules |->
    IF Matches(rules[i].condition, x) THEN rules[i].action ELSE <<>>])

-----------------------------------------------------------------------------
PolicyInit ==
  /\ given \in RuleLists /\ engine = NewEngine(given)
  /\ lane = NewLaneContext /\ decided = <<>> /\ setback = FALSE

Evaluate ==
  /\ decided' = EvaluateRules(engine, lane) /\ setback' = FALSE
  /\ UNCHANGED <<given, engine, lane>>

(* No condition that held of x fails of y.                                  *)
Further(x, y) ==
  /\ x.green <= y.green /\ x.age <= y.age
  /\ x.blocker = "startup" => y.blocker = "startup"
  /\ x.review = "approved" => y.review = "approved"
  /\ x.diff = "scoped" => y.diff = "scoped"
  /\ x.completed => y.completed
  /\ x.reconciled => y.reconciled

(* What happens to a lane.                                                  *)
LaneMoves ==
  /\ lane' \in LaneContext
  /\ \/ lane' = [lane EXCEPT !.green = lane'.green]
     \/ lane.age < 2 /\ lane' = [lane EXCEPT !.age = @ + 1]
     \/ lane' = [lane EXCEPT !.age = 0, !.blocker = lane'.blocker]
     \/ lane' = [lane EXCEPT !.review = lane'.review, !.diff = lane'.diff]
     \/ lane' = [lane EXCEPT !.completed = TRUE]
     \/ lane' = ReconciledContext
  /\ setback' = (setback \/ ~Further(lane, lane'))
  /\ UNCHANGED <<given, engine, decided>>

PolicyNext == Evaluate \/ LaneMoves
PolicySpec == PolicyInit /\ [][PolicyNext]_policyVars

-----------------------------------------------------------------------------
(* The rules that match a lane, those of lower priority number first and of *)
(* equal ones the earlier in the list.                                      *)
Before(i) == {j \in DOMAIN given :
                /\ Matches(given[j].condition, lane)
                /\ \/ given[j].priority < given[i].priority
                   \/ given[j].priority = given[i].priority /\ j < i}
ActionsOf(hit) == Cardinality(UNION {{j} \X DOMAIN given[j].action : j \in hit})

(* What is decided comes rule by rule: each rule that matches with all its  *)
(* actions in their order, behind those of the rules before it              *)
(* (policy.go:265, 300-329).                                                *)
DecidedInOrder ==
  [][LET hit == {i \in DOMAIN given : Matches(given[i].condition, lane)}
     IN  /\ Len(decided') = ActionsOf(hit)
         /\ \A i \in hit :
              SubSeq(decided', ActionsOf(Before(i)) + 1, ActionsOf(Before(i)) + Len(given[i].action))
                = given[i].action]_decided

(* Between two evaluations of a lane that only got further, no action goes  *)
(* away: no condition is the negation of another (policy.go:58-111).        *)
NothingTakenBack ==
  [][~setback => \A a \in ActionKinds :
       Cardinality({i \in DOMAIN decided : decided[i] = a})
         <= Cardinality({i \in DOMAIN decided' : decided'[i] = a})]_decided

-----------------------------------------------------------------------------
(* The trust resolver. A path is the sequence of its names below the root,  *)
(* normalized.                                                              *)
CONSTANT Directories    \* directories, each of which may also be listed as a root

ASSUME TrustAssumption == Directories \subseteq Seq(STRING)

VARIABLES
  allowlisted, denied,  \* the roots of each list
  resolved              \* what Resolve last said of each directory

trustVars == <<allowlisted, denied, resolved>>

TrustPolicy == {"auto_trust", "require_approval", "deny"}

TrustTypeOK ==
  /\ allowlisted \subseteq Directories /\ denied \subseteq Directories
  /\ resolved \in [Directories -> TrustPolicy \cup {"not_asked"}]

TrustInit ==
  /\ allowlisted = {} /\ denied = {}
  /\ resolved = [d \in Directories |-> "not_asked"]

MutPathMatches(candidate, root) == candidate = root

(* A path matches a root that is above it. Below "/" nothing matches: the   *)
(* prefix looked for is "//".                                               *)
PathMatches(candidate, root) ==
  \/ candidate = root
  \/ root # <<>> /\ IsPrefix(root, candidate)

Trusts(d) ==
  /\ ~\E root \in denied : PathMatches(d, root)
  /\ \E root \in allowlisted : PathMatches(d, root)

WithAllowlisted(path) ==
  allowlisted' = allowlisted \cup {path} /\ UNCHANGED <<denied, resolved>>
WithDenied(path) ==
  denied' = denied \cup {path} /\ UNCHANGED <<allowlisted, resolved>>

MutResolve(d, prompt) ==       \* the allowed roots looked at first
  /\ resolved' = [resolved EXCEPT ![d] =
       IF ~prompt THEN "not_asked"
       ELSE IF \E root \in allowlisted : PathMatches(d, root) THEN "auto_trust"
       ELSE IF \E root \in denied : PathMatches(d, root) THEN "deny" ELSE "require_approval"]
  /\ UNCHANGED <<allowlisted, denied>>

(* Without a trust prompt on the screen the question does not arise.        *)
Resolve(d, prompt) ==
  /\ resolved' = [resolved EXCEPT ![d] =
       IF ~prompt THEN "not_asked"
       ELSE IF \E root \in denied : PathMatches(d, root) THEN "deny"
       ELSE IF \E root \in allowlisted : PathMatches(d, root) THEN "auto_trust" ELSE "require_approval"]
  /\ UNCHANGED <<allowlisted, denied>>

TrustNext ==
  \E d \in Directories :
    WithAllowlisted(d) \/ WithDenied(d) \/ \E prompt \in BOOLEAN : Resolve(d, prompt)

TrustSpec == TrustInit /\ [][TrustNext]_trustVars

-----------------------------------------------------------------------------
Asked(d) == resolved'[d] \notin {"not_asked", resolved[d]}

(* Trust is only lost as denied roots are added and only gained as allowed  *)
(* ones are; what is denied stays denied, with every directory below it but *)
(* for those of "/"; and a worker trusted on a prompt is one Trusts lets    *)
(* pass without (trust_resolver.go:183-242).                                *)
DenialsStand ==
  [][\A d \in Directories : Asked(d) =>
       /\ resolved[d] = "deny" => resolved'[d] = "deny"
       /\ resolved[d] = "auto_trust" => resolved'[d] \in {"auto_trust", "deny"}
       /\ resolved'[d] = "auto_trust" =>
            /\ Trusts(d)
            /\ \A above \in Directories : above # <<>> /\ IsPrefix(above, d) => resolved[above] # "deny"
     ]_trustVars
=============================================================================
