---------------------------- MODULE Permissions ----------------------------
(* The decision whether a tool call may run (internal/permissions). A       *)
(* manager asks its policy if it has one, else its classifier, else its own *)
(* rules, grants and mode. A request is a tool with a class of inputs; a    *)
(* rule matches a tool and some of these classes, whether it is written as  *)
(* a substring, a prefix or an exact subject.                               *)
EXTENDS Integers, Sequences, FiniteSets, SequencesExt

CONSTANTS
  Tools,          \* names of tools
  EditTools,      \* the tools accept-edits mode lets pass (manager.go:266)
  Inputs,         \* classes of inputs of a tool
  RuleLists,      \* sequences of rules for the lists of a policy
  LegacyRules,    \* sequences of rules of settings.json, with decisions
  Requirements,   \* functions from some tools to the mode they require
  Classifiers     \* functions from requests to what a classifier says

Decisions == {"ask", "allow", "deny"}
Overrides == {"none"} \cup Decisions
(* What the user says to a prompt; nobody is there when there is no         *)
(* prompter.                                                                *)
Answers == {"nobody", "yes", "no"}
Requests == [tool : Tools, input : Inputs]
Rules == [tool : Tools \cup {"*"}, inputs : SUBSET Inputs]
LegacyRule == [tool : Tools \cup {"*"}, inputs : SUBSET Inputs, decision : Decisions]

(* The order of the modes is that of their numbers (mode.go).               *)
ReadOnly == 0
WorkspaceWrite == 1
DangerFullAccess == 2
Prompt == 3
AllowAll == 4
DontAsk == 5
AutoMode == 6
Modes == 0..6

(* There is something to check; lists, requirements and classifiers are of  *)
(* their types, and a manager may have no rules.                            *)
ASSUME PermissionsAssumption ==
  /\ Requests # {}
  /\ RuleLists \subseteq Seq(Rules)
  /\ LegacyRules \subseteq Seq(LegacyRule) /\ <<>> \in LegacyRules
  /\ Requirements \subseteq UNION {[ts -> Modes] : ts \in SUBSET Tools}
  /\ Classifiers \subseteq [Requests -> Decisions]

VARIABLES
  policy,     \* <<>> or <<a policy>>: mode, lists, requirements, classifier
  manager,    \* mode, rules and classifier (<<>> or <<one>>) of the manager
  grants,     \* decisions remembered, by tool
  checked     \* the last request, what hooks and user said, and the outcome

permVars == <<policy, manager, grants, checked>>

Policies == [mode : Modes, deny : RuleLists, ask : RuleLists, allow : RuleLists,
             required : Requirements, classifier : Classifiers]
Managers == [mode : Modes, rules : LegacyRules,
             classifier : {<<>>} \cup {<<c>> : c \in Classifiers}]

NothingChecked == [req |-> CHOOSE r \in Requests : TRUE, override |-> "none",
                   answer |-> "nobody", outcome |-> "none", prompted |-> FALSE]

PermTypeOK ==
  /\ policy = <<>> \/ (Len(policy) = 1 /\ policy[1] \in Policies)
  /\ manager \in Managers
  /\ grants \in [Tools -> Decisions \cup {"none"}]
  /\ checked \in [req : Requests, override : Overrides, answer : Answers,
                  outcome : Decisions \cup {"none"}, prompted : BOOLEAN]

-----------------------------------------------------------------------------
Matches(r, req) == r.tool \in {"*", req.tool} /\ req.input \in r.inputs
(* findMatchingRule: a rule of a policy names one tool.                     *)
Matching(rules, req) == \E i \in DOMAIN rules : rules[i].tool # "*" /\ Matches(rules[i], req)

(* Ruleset.Match: the first match decides, "none" without one.              *)
FirstMatch(rules, req) ==
  LET hits == {i \in DOMAIN rules : Matches(rules[i], req)}
  IN  IF hits = {} THEN "none"
      ELSE rules[CHOOSE i \in hits : \A j \in hits : i <= j].decision

(* LoadRuleset: the rules of the file, then allowedTools, then blockedTools. *)
LoadRuleset(rules, allowed, blocked) ==
  LET all(ts, d) == SetToSeq({[tool |-> t, inputs |-> Inputs, decision |-> d] : t \in ts})
  IN  rules \o all(allowed, "allow") \o all(blocked, "deny")

(* The outcome of a request: a decision, and whether the user was prompted. *)
Silently(d) == [d |-> d, prompted |-> FALSE]
(* promptOrDeny: without a prompter the answer is no.                       *)
PromptOrDeny(answer) ==
  [d |-> IF answer = "yes" THEN "allow" ELSE "deny", prompted |-> answer # "nobody"]

RequiredMode(p, tool) == IF tool \in DOMAIN p.required THEN p.required[tool] ELSE DangerFullAccess

MutSufficient(p, req) ==        \* a mode allows what requires exactly it or more
  \/ Matching(p.allow, req)
  \/ p.mode = AllowAll
  \/ p.mode <= RequiredMode(p, req.tool)

(* Mode or rules let the call run.                                          *)
Sufficient(p, req) ==
  \/ Matching(p.allow, req)
  \/ p.mode = AllowAll
  \/ p.mode >= RequiredMode(p, req.tool)

ByDontAsk(p, req) ==
  Silently(IF Matching(p.allow, req) \/ req.tool \in DOMAIN p.required THEN "allow" ELSE "deny")

MutByAuto(p, req, answer) ==    \* the classifier outruns the ask rules
  LET said == p.classifier[req]
  IN  IF said \in {"allow", "deny"} THEN Silently(said) ELSE PromptOrDeny(answer)

ByAuto(p, req, answer) ==
  LET said == p.classifier[req]
  IN  CASE said = "allow" /\ ~Matching(p.ask, req) -> Silently("allow")
        [] said = "deny"                           -> Silently("deny")
        [] OTHER                                   -> PromptOrDeny(answer)

MutByHookOrAskRule(p, req, override, answer) ==     \* a hook that allows is believed
  CASE override \in {"deny", "allow"} -> {Silently(override)}
    [] override = "ask" \/ (override = "none" /\ Matching(p.ask, req)) -> {PromptOrDeny(answer)}
    [] OTHER -> {}

(* The hook's word, when it has one, and the ask rules: {} if neither says  *)
(* anything. A hook that allows leaves the decision to rules and mode.      *)
ByHookOrAskRule(p, req, override, answer) ==
  CASE override = "deny" -> {Silently("deny")}
    [] override = "ask" \/ (override # "deny" /\ Matching(p.ask, req)) -> {PromptOrDeny(answer)}
    [] OTHER -> {}

Escalates(p, req) ==
  \/ p.mode = Prompt
  \/ p.mode = WorkspaceWrite /\ RequiredMode(p, req.tool) = DangerFullAccess

(* PermissionPolicy.AuthorizeWithContext.                                   *)
Authorize(p, req, override, answer) ==
  IF Matching(p.deny, req) THEN Silently("deny")
  ELSE IF p.mode = DontAsk THEN ByDontAsk(p, req)
  ELSE IF p.mode = AutoMode THEN ByAuto(p, req, answer)
  ELSE LET first == ByHookOrAskRule(p, req, override, answer)
       IN  IF first # {} THEN CHOOSE o \in first : TRUE
           ELSE IF Sufficient(p, req) THEN Silently("allow")
           ELSE IF Escalates(p, req) THEN PromptOrDeny(answer)
           ELSE Silently("deny")

(* Manager.checkLegacy.                                                     *)
CheckLegacy(m, req) ==
  CASE m.mode = AllowAll -> "allow"
    [] m.mode = ReadOnly -> "deny"
    [] OTHER ->
       IF grants[req.tool] # "none" THEN grants[req.tool]
       ELSE IF FirstMatch(m.rules, req) # "none" THEN FirstMatch(m.rules, req)
       ELSE IF m.mode = WorkspaceWrite /\ req.tool \in EditTools THEN "allow"
       ELSE "ask"

(* Manager.CheckWithHookOverrideCtx; CheckCtx is the case without override. *)
CheckManager(req, override, answer) ==
  IF policy # <<>> THEN Authorize(policy[1], req, override, answer)
  ELSE IF override # "none" THEN Silently(override)
  ELSE IF manager.classifier # <<>> /\ manager.classifier[1][req] # "ask"
       THEN Silently(manager.classifier[1][req])
       ELSE Silently(CheckLegacy(manager, req))

(* The policy and the manager are set up before the session starts.         *)
PermInit ==
  /\ \/ policy \in {<<p>> : p \in Policies} /\ manager = [mode |-> Prompt, rules |-> <<>>, classifier |-> <<>>]
     \/ policy = <<>> /\ manager \in Managers
  /\ grants = [t \in Tools |-> "none"]
  /\ checked = NothingChecked

Check(req, override, answer) ==
  /\ checked.outcome = "none"
  /\ LET o == CheckManager(req, override, answer)
     IN  checked' = [req |-> req, override |-> override, answer |-> answer,
                     outcome |-> o.d, prompted |-> o.prompted]
  /\ UNCHANGED <<policy, manager, grants>>

(* The caller has its decision; nothing of it stays in policy or manager.   *)
Decided ==
  /\ checked.outcome # "none"
  /\ checked' = NothingChecked
  /\ UNCHANGED <<policy, manager, grants>>

(* Manager.Remember, scope always. The input is dropped.                    *)
Remember(tool, d) ==
  /\ grants' = [grants EXCEPT ![tool] = d]
  /\ UNCHANGED <<policy, manager, checked>>

PermNext ==
  \/ \E req \in Requests, override \in Overrides, answer \in Answers : Check(req, override, answer)
  \/ Decided
  \/ policy = <<>> /\ \E t \in Tools, d \in {"allow", "deny"} : Remember(t, d)

PermSpec == PermInit /\ [][PermNext]_permVars

-----------------------------------------------------------------------------
ByPolicy == policy # <<>> /\ checked.outcome # "none"
Outcome(p, override, answer) == Authorize(p, checked.req, override, answer)

(* What an ask rule matches runs only after the user has said yes, whether  *)
(* a hook, the classifier or the mode would allow it (policy.go:82-90). The *)
(* strict allow-list does not ask anybody.                                  *)
AskedBeforeAllowed ==
  ByPolicy /\ policy[1].mode # DontAsk /\ Matching(policy[1].ask, checked.req)
    /\ checked.outcome = "allow"
  => checked.prompted /\ checked.answer = "yes"

(* A hook can stop a call or have the user asked; it cannot let a call pass *)
(* that rules and mode would not let pass on their own (policy.go:170-178).  *)
HooksDontWiden ==
  ByPolicy /\ checked.outcome = "allow" /\ ~checked.prompted
  => Outcome(policy[1], "none", "nobody").d = "allow"

(* Read-only, workspace-write, full access and allow are an order: what a   *)
(* call may do in one mode it may do in the modes above (mode.go:5).         *)
ModesAreOrdered ==
  ByPolicy /\ policy[1].mode \in ReadOnly..DangerFullAccess /\ checked.outcome = "allow"
  => \A m \in {WorkspaceWrite, DangerFullAccess, AllowAll} :
       m > policy[1].mode =>
         Outcome([policy[1] EXCEPT !.mode = m], checked.override, checked.answer).d = "allow"

-----------------------------------------------------------------------------
(* The classifier that asks a model (llm_classifier.go) and its cache: first *)
(* in, first out, with a time to live. Calls run concurrently; each looks   *)
(* into the cache, asks the model without any lock and stores the answer.   *)
(* Keys are requests the fast rules do not decide.                          *)
CONSTANTS
  Callers,
  Keys,
  Verdicts,     \* what the model may say: allow, deny, ask
  MaxEntries,   \* ClassifierCache.maxEntries
  TTL,          \* in ticks; 0 switches expiry off
  MaxTime       \* bound on the clock

ASSUME CacheAssumption ==
  MaxEntries \in Nat \ {0} /\ TTL \in Nat /\ MaxTime \in Nat /\ "none" \notin Keys

VARIABLES
  cacheOrder,   \* list and map in one: entries, oldest insertion first
  clock,
  asking,       \* key each caller is asking the model about, or "none"
  lastAnswer,   \* history: for each key, <<the model's last answer and its time>>
  returned      \* the last decision a caller got: key, decision, time, source

cacheVars == <<cacheOrder, clock, asking, lastAnswer, returned>>

CacheTypeOK ==
  /\ \A i \in DOMAIN cacheOrder :
       cacheOrder[i].key \in Keys /\ cacheOrder[i].d \in Verdicts /\ cacheOrder[i].exp \in Nat
  /\ clock \in 0..MaxTime
  /\ asking \in [Callers -> Keys \cup {"none"}]

(* No caller is answered at this time.                                      *)
Nobody == [key |-> "none", d |-> "ask", at |-> 0, from |-> "start"]

CacheInit ==
  /\ cacheOrder = <<>> /\ clock = 0
  /\ asking = [c \in Callers |-> "none"]
  /\ lastAnswer = [k \in Keys |-> <<>>]
  /\ returned = Nobody

At(key) == {i \in DOMAIN cacheOrder : cacheOrder[i].key = key}
Expired(entry) == TTL > 0 /\ clock > entry.exp

(* ClassifierCache.Get, at the start of Classify: a live entry is returned, *)
(* an expired one is dropped and the model is asked.                        *)
Classify(c, key) ==
  /\ asking[c] = "none"
  /\ \/ \E i \in At(key) :
          /\ ~Expired(cacheOrder[i])
          /\ returned' = [key |-> key, d |-> cacheOrder[i].d, at |-> clock, from |-> "cache"]
          /\ UNCHANGED <<cacheOrder, asking>>
     \/ /\ \/ At(key) = {} /\ UNCHANGED cacheOrder
           \/ \E i \in At(key) : Expired(cacheOrder[i]) /\ cacheOrder' = RemoveAt(cacheOrder, i)
        /\ asking' = [asking EXCEPT ![c] = key]
        /\ UNCHANGED returned
  /\ UNCHANGED <<clock, lastAnswer>>

(* ClassifierCache.Set: in place if the key is there, else behind the       *)
(* others, after the oldest made room.                                      *)
MutWithEntry(entry) ==      \* looks for the key before it takes the lock only
  LET n == Len(cacheOrder)
  IN  Append(IF n >= MaxEntries THEN SubSeq(cacheOrder, n - MaxEntries + 2, n) ELSE cacheOrder, entry)

WithEntry(entry) ==
  IF At(entry.key) # {}
  THEN [i \in DOMAIN cacheOrder |-> IF cacheOrder[i].key = entry.key THEN entry ELSE cacheOrder[i]]
  ELSE LET n == Len(cacheOrder)
       IN  Append(IF n >= MaxEntries THEN SubSeq(cacheOrder, n - MaxEntries + 2, n) ELSE cacheOrder, entry)

MutModelAnswers(c, d) ==    \* an entry that is updated keeps its old decision
  /\ asking[c] # "none"
  /\ cacheOrder' = IF At(asking[c]) # {}
                   THEN [i \in DOMAIN cacheOrder |->
                           IF cacheOrder[i].key = asking[c]
                           THEN [cacheOrder[i] EXCEPT !.exp = clock + TTL] ELSE cacheOrder[i]]
                   ELSE WithEntry([key |-> asking[c], d |-> d, exp |-> clock + TTL])
  /\ lastAnswer' = [lastAnswer EXCEPT ![asking[c]] = <<[d |-> d, at |-> clock]>>]
  /\ returned' = [key |-> asking[c], d |-> d, at |-> clock, from |-> "model"]
  /\ asking' = [asking EXCEPT ![c] = "none"]
  /\ UNCHANGED clock

ModelAnswers(c, d) ==
  /\ asking[c] # "none"
  /\ cacheOrder' = WithEntry([key |-> asking[c], d |-> d, exp |-> clock + TTL])
  /\ lastAnswer' = [lastAnswer EXCEPT ![asking[c]] = <<[d |-> d, at |-> clock]>>]
  /\ returned' = [key |-> asking[c], d |-> d, at |-> clock, from |-> "model"]
  /\ asking' = [asking EXCEPT ![c] = "none"]
  /\ UNCHANGED clock

(* The call or its stream fails: ask, and nothing is stored.                *)
ModelFails(c) ==
  /\ asking[c] # "none"
  /\ returned' = [key |-> asking[c], d |-> "ask", at |-> clock, from |-> "failure"]
  /\ asking' = [asking EXCEPT ![c] = "none"]
  /\ UNCHANGED <<cacheOrder, clock, lastAnswer>>

ClockTicks ==
  /\ clock < MaxTime /\ clock' = clock + 1
  /\ returned' = Nobody
  /\ UNCHANGED <<cacheOrder, asking, lastAnswer>>

CacheNext ==
  \/ \E c \in Callers, k \in Keys : Classify(c, k)
  \/ \E c \in Callers, d \in Verdicts : ModelAnswers(c, d)
  \/ \E c \in Callers : ModelFails(c)
  \/ ClockTicks

CacheSpec == CacheInit /\ [][CacheNext]_cacheVars

-----------------------------------------------------------------------------
(* The cache never outgrows its bound, and a key has one entry, although    *)
(* two callers may have missed the same key at once (llm_classifier.go:221). *)
CacheIsBounded ==
  /\ Len(cacheOrder) <= MaxEntries
  /\ \A i, j \in DOMAIN cacheOrder : cacheOrder[i].key = cacheOrder[j].key => i = j

(* Whatever callers race, a decision out of the cache is the last one the   *)
(* model gave for this very request, within the time to live, and a failed  *)
(* call never decides anything (llm_classifier.go:265-272).                 *)
CachedWasAnswered ==
  returned.from = "cache" =>
    /\ lastAnswer[returned.key] # <<>>
    /\ lastAnswer[returned.key][1].d = returned.d
    /\ TTL > 0 => returned.at <= lastAnswer[returned.key][1].at + TTL
=============================================================================
