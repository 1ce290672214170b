---------------------------- MODULE Tools_proofs ----------------------------
(***************************************************************************)
(* The permissions of tool calls, the pipeline they pass, the cache of the *)
(* classifier, plan mode and the run of a command, for any tools, rules,   *)
(* hooks, callers and sizes.  Of a policy, what Authorize answers is put   *)
(* into cases first; the rest are invariants of small machines.  Last, the *)
(* SDK transport, for every number of calls, capacity of the channel and   *)
(* size of the pipes: its types, and the refinement of RemoteCalls.        *)
(***************************************************************************)
EXTENDS MCTools, SdkTransport, FiniteSetTheorems, SequenceTheorems, TLAPS

-----------------------------------------------------------------------------
(* Sets of numbers and sequences. *)

LEMMA Smallest == ASSUME NEW T \in SUBSET Nat, T # {} PROVE \E x \in T : \A y \in T : x <= y
<1> DEFINE R == {ss \in Nat \X Nat : ss[1] < ss[2]}
<1>1. IsWellFoundedOn(R, Nat)
  BY NatLessThanWellFounded DEF OpToRel
<1>2. PICK x \in T : \A y \in T : <<y, x>> \notin R
  BY <1>1, WFMin
<1>3. ASSUME NEW y \in T PROVE x <= y
  <2>1. ~(y < x)
    BY <1>2
  <2> QED
    BY <2>1
<1> QED
  BY <1>3

(* Removing one element of a sequence. *)
LEMMA RemoveAtProperties ==
  ASSUME NEW S, NEW s \in Seq(S), NEW i \in 1..Len(s)
  PROVE  /\ RemoveAt(s, i) \in Seq(S) /\ Len(RemoveAt(s, i)) = Len(s) - 1
         /\ \A j \in 1..Len(s) - 1 : RemoveAt(s, i)[j] = IF j < i THEN s[j] ELSE s[j + 1]
<1> DEFINE a == SubSeq(s, 1, i - 1)
           b == SubSeq(s, i + 1, Len(s))
<1>0. Len(s) \in Nat /\ \A j \in 1..Len(s) : s[j] \in S
  BY ElementOfSeq
<1>1. a \in Seq(S) /\ Len(a) = i - 1 /\ \A j \in 1..i - 1 : a[j] = s[j]
  <2>1. \A j \in 1..i - 1 : s[j] \in S
    BY <1>0
  <2>2. 1 \in Int /\ i - 1 \in Int
    BY <1>0
  <2>3. /\ SubSeq(s,1,i-1) \in Seq(S)
        /\ Len(SubSeq(s,1,i-1)) = IF 1<=i-1 THEN i-1-1+1 ELSE 0
        /\ \A j \in 1 .. i-1-1+1 : SubSeq(s,1,i-1)[j] = s[1+j-1]
    BY <2>1, <2>2, SubSeqProperties
  <2> QED
    BY <1>0, <2>3
<1>2. b \in Seq(S) /\ Len(b) = Len(s) - i /\ \A j \in 1..Len(s) - i : b[j] = s[i + j]
  <2>1. \A j \in i + 1..Len(s) : s[j] \in S
    BY <1>0
  <2>2. i + 1 \in Int /\ Len(s) \in Int
    BY <1>0
  <2>3. /\ SubSeq(s,i+1,Len(s)) \in Seq(S)
        /\ Len(SubSeq(s,i+1,Len(s))) = IF i+1<=Len(s) THEN Len(s)-(i+1)+1 ELSE 0
        /\ \A j \in 1 .. Len(s)-(i+1)+1 : SubSeq(s,i+1,Len(s))[j] = s[i+1+j-1]
    BY <2>1, <2>2, SubSeqProperties
  <2>4. \A j \in 1..Len(s) - i : i + 1 + j - 1 = i + j
    BY <1>0
  <2> QED
    BY <1>0, <2>3, <2>4
<1> HIDE DEF a, b
<1>3. /\ a \o b \in Seq(S) /\ Len(a \o b) = Len(a) + Len(b)
      /\ \A j \in 1..Len(a) + Len(b) : (a \o b)[j] = IF j <= Len(a) THEN a[j] ELSE b[j - Len(a)]
  BY <1>1, <1>2, ConcatProperties
<1>4. RemoveAt(s, i) = a \o b
  BY DEF RemoveAt, a, b
<1>5. Len(a) + Len(b) = Len(s) - 1
  BY <1>0, <1>1, <1>2
<1>6. ASSUME NEW j \in 1..Len(s) - 1 PROVE (a \o b)[j] = IF j < i THEN s[j] ELSE s[j + 1]
  <2>1. CASE j < i
    BY <1>0, <1>1, <1>3, <1>5, <2>1
  <2>2. CASE ~(j < i)
    <3>1. j - Len(a) \in 1..Len(s) - i /\ i + (j - Len(a)) = j + 1
      BY <1>0, <1>1, <2>2
    <3>2. (a \o b)[j] = b[j - Len(a)]
      BY <1>0, <1>1, <1>3, <1>5, <2>2
    <3>3. b[j - Len(a)] = s[i + (j - Len(a))]
      BY <1>2, <3>1
    <3> QED
      BY <2>2, <3>1, <3>2, <3>3
  <2> QED
    BY <2>1, <2>2
<1> QED
  BY <1>3, <1>4, <1>5, <1>6

-----------------------------------------------------------------------------
(* Permissions. *)

Verdict == [d : Decisions, prompted : BOOLEAN]

LEMMA OutcomesAreVerdicts ==
  /\ \A d \in Decisions : Silently(d) \in Verdict
  /\ \A reply : PromptOrDeny(reply) \in Verdict
BY DEF Silently, PromptOrDeny, Verdict, Decisions

(* The word of a hook or an ask rule, put into cases. *)
FirstWord(p, req, override, reply) ==
  CHOOSE o \in ByHookOrAskRule(p, req, override, reply) : TRUE

LEMMA HookOrAskRuleCases ==
  ASSUME NEW p, NEW req, NEW override, NEW reply
  PROVE  /\ override = "deny" =>
              /\ ByHookOrAskRule(p, req, override, reply) # {}
              /\ FirstWord(p, req, override, reply) = Silently("deny")
         /\ override = "ask" \/ (override # "deny" /\ Matching(p.ask, req)) =>
              /\ ByHookOrAskRule(p, req, override, reply) # {}
              /\ FirstWord(p, req, override, reply) = PromptOrDeny(reply)
         /\ override \notin {"deny", "ask"} /\ ~Matching(p.ask, req) =>
              ByHookOrAskRule(p, req, override, reply) = {}
<1>0. \A x : (CHOOSE o \in {x} : TRUE) = x
  OBVIOUS
<1>1. CASE override = "deny"
  <2>1. ByHookOrAskRule(p, req, override, reply) = {Silently("deny")}
    BY <1>1 DEF ByHookOrAskRule
  <2> QED
    BY <1>0, <1>1, <2>1 DEF FirstWord
<1>2. CASE override = "ask" \/ (override # "deny" /\ Matching(p.ask, req))
  <2>1. ByHookOrAskRule(p, req, override, reply) = {PromptOrDeny(reply)}
    BY <1>2 DEF ByHookOrAskRule
  <2> QED
    BY <1>0, <1>2, <2>1 DEF FirstWord
<1>3. CASE override \notin {"deny", "ask"} /\ ~Matching(p.ask, req)
  BY <1>3 DEF ByHookOrAskRule
<1> QED
  BY <1>1, <1>2, <1>3

(* What a policy answers in the modes that neither let a list nor a        *)
(* classifier decide alone.                                                *)
LEMMA UsualAnswer ==
  ASSUME NEW p, NEW req, NEW override, NEW reply,
         ~Matching(p.deny, req), p.mode # DontAsk, p.mode # AutoMode
  PROVE  Authorize(p, req, override, reply) =
           IF override = "deny" THEN Silently("deny")
           ELSE IF override = "ask" \/ Matching(p.ask, req) THEN PromptOrDeny(reply)
           ELSE IF Sufficient(p, req) THEN Silently("allow")
           ELSE IF Escalates(p, req) THEN PromptOrDeny(reply) ELSE Silently("deny")
<1> DEFINE first == ByHookOrAskRule(p, req, override, reply)
<1>1. Authorize(p, req, override, reply) =
        IF first # {} THEN FirstWord(p, req, override, reply)
        ELSE IF Sufficient(p, req) THEN Silently("allow")
        ELSE IF Escalates(p, req) THEN PromptOrDeny(reply) ELSE Silently("deny")
  BY DEF Authorize, FirstWord
<1> HIDE DEF first
<1>2. CASE override = "deny"
  BY <1>1, <1>2, HookOrAskRuleCases DEF first
<1>3. CASE override # "deny" /\ (override = "ask" \/ Matching(p.ask, req))
  BY <1>1, <1>3, HookOrAskRuleCases DEF first
<1>4. CASE override # "deny" /\ ~(override = "ask" \/ Matching(p.ask, req))
  BY <1>1, <1>4, HookOrAskRuleCases DEF first
<1> QED
  BY <1>2, <1>3, <1>4

(* What the classifier says of a request is a decision. *)
LEMMA ClassifierSays ==
  ASSUME NEW c \in Classifiers, NEW req \in Requests PROVE c[req] \in Decisions
BY PermissionsAssumption

(* In auto mode. *)
LEMMA AutoAnswer ==
  ASSUME NEW p \in Policies, NEW req \in Requests, NEW override, NEW reply,
         ~Matching(p.deny, req), p.mode = AutoMode
  PROVE  Authorize(p, req, override, reply) =
           IF p.classifier[req] = "allow" /\ ~Matching(p.ask, req) THEN Silently("allow")
           ELSE IF p.classifier[req] = "deny" THEN Silently("deny") ELSE PromptOrDeny(reply)
<1>1. p.classifier[req] \in Decisions
  BY ClassifierSays DEF Policies
<1>2. Authorize(p, req, override, reply) = ByAuto(p, req, reply)
  BY DEF Authorize, AutoMode, DontAsk
<1> QED
  BY <1>1, <1>2 DEF ByAuto, Decisions

LEMMA ListAnswer ==
  ASSUME NEW p, NEW req, NEW override, NEW reply, ~Matching(p.deny, req), p.mode = DontAsk
  PROVE  Authorize(p, req, override, reply) = ByDontAsk(p, req)
BY DEF Authorize

LEMMA DeniedAnswer ==
  ASSUME NEW p, NEW req, NEW override, NEW reply, Matching(p.deny, req)
  PROVE  Authorize(p, req, override, reply) = Silently("deny")
BY DEF Authorize

LEMMA AuthorizeType ==
  ASSUME NEW p \in Policies, NEW req \in Requests, NEW override, NEW reply
  PROVE  Authorize(p, req, override, reply) \in Verdict
<1>0. Silently("allow") \in Verdict /\ Silently("deny") \in Verdict /\ PromptOrDeny(reply) \in Verdict
  BY OutcomesAreVerdicts DEF Decisions
<1>1. CASE Matching(p.deny, req)
  BY <1>0, <1>1, DeniedAnswer
<1>2. CASE ~Matching(p.deny, req) /\ p.mode = DontAsk
  BY <1>0, <1>2, ListAnswer DEF ByDontAsk
<1>3. CASE ~Matching(p.deny, req) /\ p.mode = AutoMode
  BY <1>0, <1>3, AutoAnswer
<1>4. CASE ~Matching(p.deny, req) /\ p.mode # DontAsk /\ p.mode # AutoMode
  BY <1>0, <1>4, UsualAnswer
<1> QED
  BY <1>1, <1>2, <1>3, <1>4

(* What an ask rule matches is allowed on the user's yes only. *)
LEMMA AskRulesAsk ==
  ASSUME NEW p \in Policies, NEW req \in Requests, NEW override, NEW reply,
         p.mode # DontAsk, Matching(p.ask, req), Authorize(p, req, override, reply).d = "allow"
  PROVE  Authorize(p, req, override, reply).prompted /\ reply = "yes"
<1>0. PromptOrDeny(reply).d = "allow" => PromptOrDeny(reply).prompted /\ reply = "yes"
  BY DEF PromptOrDeny
<1>1. Silently("deny").d # "allow"
  BY DEF Silently
<1>2. ~Matching(p.deny, req)
  BY <1>1, DeniedAnswer
<1>3. CASE p.mode = AutoMode
  BY <1>0, <1>1, <1>2, <1>3, AutoAnswer
<1>4. CASE p.mode # AutoMode
  BY <1>0, <1>1, <1>2, <1>4, UsualAnswer
<1> QED
  BY <1>3, <1>4

(* What passes without a prompt passes without the hook's word as well. *)
LEMMA HooksAddNothing ==
  ASSUME NEW p \in Policies, NEW req \in Requests, NEW override, NEW reply,
         Authorize(p, req, override, reply).d = "allow",
         ~Authorize(p, req, override, reply).prompted
  PROVE  Authorize(p, req, "none", "nobody").d = "allow"
<1>0. PromptOrDeny(reply).d = "allow" => PromptOrDeny(reply).prompted
  BY DEF PromptOrDeny
<1>1. Silently("deny").d # "allow" /\ Silently("allow").d = "allow"
  BY DEF Silently
<1>2. ~Matching(p.deny, req)
  BY <1>1, DeniedAnswer
<1>3. CASE p.mode = AutoMode
  BY <1>0, <1>1, <1>2, <1>3, AutoAnswer
<1>4. CASE p.mode = DontAsk
  BY <1>2, <1>4, ListAnswer
<1>5. CASE p.mode # AutoMode /\ p.mode # DontAsk
  BY <1>0, <1>1, <1>2, <1>5, UsualAnswer
<1> QED
  BY <1>3, <1>4, <1>5

(* Among the ordered modes, a higher one allows what a lower one does. *)
LEMMA HigherModesAllowMore ==
  ASSUME NEW p \in Policies, NEW req \in Requests, NEW override, NEW reply,
         p.mode \in ReadOnly..DangerFullAccess, Authorize(p, req, override, reply).d = "allow",
         NEW m \in {WorkspaceWrite, DangerFullAccess, AllowAll}, m > p.mode,
         NEW q, q = [p EXCEPT !.mode = m]
  PROVE  Authorize(q, req, override, reply).d = "allow"
<1>0. p.mode \in Modes /\ p.mode # DontAsk /\ p.mode # AutoMode /\ m \in Modes /\ m # DontAsk /\ m # AutoMode
  BY DEF Modes, ReadOnly, WorkspaceWrite, DangerFullAccess, AllowAll, DontAsk, AutoMode
<1>1. /\ q.mode = m /\ q.deny = p.deny /\ q.ask = p.ask /\ q.allow = p.allow /\ q.required = p.required
      /\ q \in Policies
  BY <1>0 DEF Policies
<1>2. Silently("deny").d # "allow" /\ Silently("allow").d = "allow"
  BY DEF Silently
<1>3. ~Matching(p.deny, req) /\ ~Matching(q.deny, req)
  BY <1>1, <1>2, DeniedAnswer
<1>4. RequiredMode(q, req.tool) = RequiredMode(p, req.tool) /\ RequiredMode(p, req.tool) \in Modes
  <2>1. PICK ts \in SUBSET Tools : p.required \in [ts -> Modes]
    BY PermissionsAssumption DEF Policies
  <2> QED
    BY <1>1, <2>1 DEF RequiredMode, Modes, DangerFullAccess
<1>5. Sufficient(p, req) => Sufficient(q, req)
  <2>1. Matching(p.allow, req) => Matching(q.allow, req)
    BY <1>1
  <2>2. p.mode >= RequiredMode(p, req.tool) => q.mode >= RequiredMode(q, req.tool)
    BY <1>0, <1>1, <1>4 DEF Modes
  <2>3. p.mode # AllowAll
    BY DEF ReadOnly, DangerFullAccess, AllowAll
  <2> QED
    BY <2>1, <2>2, <2>3 DEF Sufficient
<1>6. Escalates(p, req) => Sufficient(q, req)
  <2>1. SUFFICES ASSUME Escalates(p, req) PROVE m >= RequiredMode(q, req.tool)
    BY <1>1 DEF Sufficient
  <2>2. p.mode = WorkspaceWrite /\ RequiredMode(p, req.tool) = DangerFullAccess
    BY <2>1 DEF Escalates, ReadOnly, DangerFullAccess, Prompt
  <2> QED
    BY <1>4, <2>2 DEF WorkspaceWrite, DangerFullAccess, AllowAll
<1>7. Authorize(q, req, override, reply).d = "allow"
  <2> DEFINE Usual(r) == IF override = "deny" THEN Silently("deny")
                         ELSE IF override = "ask" \/ Matching(p.ask, req) THEN PromptOrDeny(reply)
                         ELSE IF Sufficient(r, req) THEN Silently("allow")
                         ELSE IF Escalates(r, req) THEN PromptOrDeny(reply) ELSE Silently("deny")
  <2>1. Authorize(p, req, override, reply) = Usual(p)
    BY <1>0, <1>3, UsualAnswer
  <2>2. Authorize(q, req, override, reply) = Usual(q)
    <3>1. q.mode # DontAsk /\ q.mode # AutoMode
      BY <1>0, <1>1
    <3>2. Matching(q.ask, req) <=> Matching(p.ask, req)
      BY <1>1
    <3> QED
      BY <1>3, <3>1, <3>2, UsualAnswer
  <2>3. Usual(p).d = "allow"
    BY <2>1
  <2>4. Usual(q).d = "allow"
    BY <1>2, <1>5, <1>6, <2>3
  <2> QED
    BY <2>2, <2>4
<1> QED
  BY <1>7

(* What the rules of settings.json say. *)
LEMMA FirstMatchType ==
  ASSUME NEW rules \in LegacyRules, NEW req \in Requests
  PROVE  FirstMatch(rules, req) \in Decisions \cup {"none"}
<1> DEFINE hits == {i \in DOMAIN rules : Matches(rules[i], req)}
<1>0. rules \in Seq(LegacyRule)
  BY PermissionsAssumption
<1>1. CASE hits = {}
  BY <1>1 DEF FirstMatch
<1>2. CASE hits # {}
  <2>1. hits \in SUBSET Nat
    BY <1>0
  <2>2. \E i \in hits : \A j \in hits : i <= j
    BY <1>2, <2>1, Smallest
  <2>3. PICK first : first = (CHOOSE i \in hits : \A j \in hits : i <= j)
    OBVIOUS
  <2>4. first \in DOMAIN rules /\ FirstMatch(rules, req) = rules[first].decision
    BY <1>2, <2>2, <2>3 DEF FirstMatch
  <2>5. rules[first] \in LegacyRule
    BY <1>0, <2>4
  <2> QED
    BY <2>4, <2>5 DEF LegacyRule
<1> QED
  BY <1>1, <1>2

LEMMA LegacyType ==
  ASSUME manager \in Managers, grants \in [Tools -> Decisions \cup {"none"}], NEW req \in Requests
  PROVE  CheckLegacy(manager, req) \in Decisions
<1>1. manager.rules \in LegacyRules
  BY DEF Managers
<1>2. FirstMatch(manager.rules, req) \in Decisions \cup {"none"}
  BY <1>1, FirstMatchType
<1>3. grants[req.tool] \in Decisions \cup {"none"}
  BY DEF Requests
<1>4. CheckLegacy(manager, req) \in {"allow", "deny", "ask", grants[req.tool], FirstMatch(manager.rules, req)}
         /\ (CheckLegacy(manager, req) = "none" => FALSE)
  BY DEF CheckLegacy
<1> QED
  BY <1>2, <1>3, <1>4 DEF Decisions

LEMMA CheckManagerType ==
  ASSUME PermTypeOK, NEW req \in Requests, NEW override \in Overrides, NEW reply
  PROVE  CheckManager(req, override, reply) \in Verdict
<1>0. \A d \in Decisions : Silently(d) \in Verdict
  BY OutcomesAreVerdicts
<1>1. CASE policy # <<>>
  <2>1. policy[1] \in Policies
    BY <1>1 DEF PermTypeOK
  <2>2. Authorize(policy[1], req, override, reply) \in Verdict
    BY <2>1, AuthorizeType
  <2> QED
    BY <1>1, <2>2 DEF CheckManager
<1>2. CASE policy = <<>> /\ override # "none"
  <2>1. override \in Decisions
    BY <1>2 DEF Overrides
  <2> QED
    BY <1>0, <1>2, <2>1 DEF CheckManager
<1>3. CASE policy = <<>> /\ override = "none" /\ manager.classifier # <<>>
  <2>1. PICK c \in Classifiers : manager.classifier = <<c>>
    BY <1>3 DEF PermTypeOK, Managers
  <2>2. c[req] \in Decisions /\ manager.classifier[1] = c
    BY <2>1, ClassifierSays
  <2>3. CheckLegacy(manager, req) \in Decisions
    BY LegacyType DEF PermTypeOK
  <2> QED
    BY <1>0, <1>3, <2>2, <2>3 DEF CheckManager
<1>4. CASE policy = <<>> /\ override = "none" /\ manager.classifier = <<>>
  <2>1. CheckLegacy(manager, req) \in Decisions
    BY LegacyType DEF PermTypeOK
  <2> QED
    BY <1>0, <1>4, <2>1 DEF CheckManager
<1> QED
  BY <1>1, <1>2, <1>3, <1>4

(* The outcome of a policy is what Authorize answers, until it is taken. *)
PolicyDecides ==
  ByPolicy =>
    /\ checked.outcome = Outcome(policy[1], checked.override, checked.answer).d
    /\ checked.prompted = Outcome(policy[1], checked.override, checked.answer).prompted
PermInv == PermTypeOK /\ PolicyDecides

LEMMA NothingIsARequest ==
  /\ NothingChecked.req \in Requests
  /\ NothingChecked \in [req : Requests, override : Overrides, answer : Answers,
                         outcome : Decisions \cup {"none"}, prompted : BOOLEAN]
<1>1. NothingChecked.req \in Requests
  BY PermissionsAssumption DEF NothingChecked
<1> QED
  BY <1>1 DEF NothingChecked, Overrides, Answers

LEMMA PermInitInv ==
  ASSUME policy = <<>> \/ policy \in {<<p>> : p \in Policies}, manager \in Managers,
         grants = [t \in Tools |-> "none"], checked = NothingChecked
  PROVE  PermInv
<1>1. checked.outcome = "none"
  BY DEF NothingChecked
<1>2. grants \in [Tools -> Decisions \cup {"none"}]
  OBVIOUS
<1>3. policy = <<>> \/ (Len(policy) = 1 /\ policy[1] \in Policies)
  OBVIOUS
<1> QED
  BY <1>1, <1>2, <1>3, NothingIsARequest DEF PermInv, PermTypeOK, PolicyDecides, ByPolicy

(* What a grant changes concerns no policy. *)
LEMMA RememberKeeps ==
  ASSUME PermInv, NEW t \in Tools, NEW d \in Decisions, Remember(t, d)
  PROVE  PermInv'
<1>1. (grants \in [Tools -> Decisions \cup {"none"}])'
  BY DEF PermInv, PermTypeOK, Remember
<1>2. PolicyDecides'
  BY DEF PermInv, Remember, PolicyDecides, ByPolicy, Outcome
<1> QED
  BY <1>1, <1>2 DEF PermInv, PermTypeOK, Remember

LEMMA CheckKeeps ==
  ASSUME PermInv, NEW req \in Requests, NEW override \in Overrides, NEW reply \in Answers,
         Check(req, override, reply)
  PROVE  PermInv'
<1> DEFINE o == CheckManager(req, override, reply)
<1>1. o \in Verdict
  BY CheckManagerType DEF PermInv
<1>2. /\ checked' = [req |-> req, override |-> override, answer |-> reply,
                     outcome |-> o.d, prompted |-> o.prompted]
      /\ UNCHANGED <<policy, manager, grants>>
  BY DEF Check
<1>3. policy # <<>> => o = Authorize(policy[1], req, override, reply)
  BY DEF CheckManager
<1> HIDE DEF o
<1>4. PermTypeOK'
  BY <1>1, <1>2 DEF PermInv, PermTypeOK, Verdict
<1>5. PolicyDecides'
  <2>1. checked'.req = req /\ checked'.override = override /\ checked'.answer = reply
        /\ checked'.outcome = o.d /\ checked'.prompted = o.prompted
    BY <1>2
  <2> QED
    BY <1>2, <1>3, <2>1 DEF PolicyDecides, ByPolicy, Outcome
<1> QED
  BY <1>4, <1>5 DEF PermInv

LEMMA PermNextInv == ASSUME PermInv, PermNext PROVE PermInv'
<1>1. CASE Decided
  <2>1. checked' = NothingChecked /\ UNCHANGED <<policy, manager, grants>>
    BY <1>1 DEF Decided
  <2>2. checked'.outcome = "none"
    BY <2>1 DEF NothingChecked
  <2> QED
    BY <2>1, <2>2, NothingIsARequest DEF PermInv, PermTypeOK, PolicyDecides, ByPolicy
<1>2. ASSUME NEW req \in Requests, NEW override \in Overrides, NEW reply \in Answers, Check(req, override, reply)
      PROVE  PermInv'
  BY <1>2, CheckKeeps
<1>3. ASSUME NEW t \in Tools, NEW d \in {"allow", "deny"}, Remember(t, d) PROVE PermInv'
  <2>1. d \in Decisions
    BY DEF Decisions
  <2> QED
    BY <1>3, <2>1, RememberKeeps
<1> QED
  BY <1>1, <1>2, <1>3 DEF PermNext

LEMMA PermissionsStand == PermInv => AskedBeforeAllowed /\ HooksDontWiden /\ ModesAreOrdered
<1> SUFFICES ASSUME PermInv, ByPolicy, checked.outcome = "allow"
             PROVE  AskedBeforeAllowed /\ HooksDontWiden /\ ModesAreOrdered
  BY DEF AskedBeforeAllowed, HooksDontWiden, ModesAreOrdered
<1> DEFINE p == policy[1]
           o == Authorize(p, checked.req, checked.override, checked.answer)
<1>1. p \in Policies /\ checked.req \in Requests
  BY DEF PermInv, PermTypeOK, ByPolicy
<1>2. o.d = "allow" /\ checked.prompted = o.prompted
  BY DEF PermInv, PolicyDecides, Outcome
<1>3. AskedBeforeAllowed
  <2>1. p.mode # DontAsk /\ Matching(p.ask, checked.req) => o.prompted /\ checked.answer = "yes"
    BY <1>1, <1>2, AskRulesAsk
  <2> QED
    BY <1>2, <2>1 DEF AskedBeforeAllowed
<1>4. HooksDontWiden
  <2>1. ~o.prompted => Authorize(p, checked.req, "none", "nobody").d = "allow"
    BY <1>1, <1>2, HooksAddNothing
  <2> QED
    BY <1>2, <2>1 DEF HooksDontWiden, Outcome
<1>5. ModesAreOrdered
  <2> HIDE DEF p
  <2>0. PICK req, override, reply : req = checked.req /\ override = checked.override /\ reply = checked.answer
    OBVIOUS
  <2>1. ASSUME p.mode \in ReadOnly..DangerFullAccess, NEW m \in {WorkspaceWrite, DangerFullAccess, AllowAll}, m > p.mode
        PROVE  Authorize([p EXCEPT !.mode = m], checked.req, checked.override, checked.answer).d = "allow"
    <3>1. p \in Policies /\ req \in Requests /\ Authorize(p, req, override, reply).d = "allow"
      BY <1>1, <1>2, <2>0
    <3>2. PICK q : q = [p EXCEPT !.mode = m]
      OBVIOUS
    <3>3. Authorize(q, req, override, reply).d = "allow"
      BY <2>1, <3>1, <3>2, HigherModesAllowMore
    <3> QED
      BY <2>0, <3>2, <3>3
  <2> QED
    BY <2>1 DEF ModesAreOrdered, Outcome, p
<1> QED
  BY <1>3, <1>4, <1>5

-----------------------------------------------------------------------------
(* The pipeline. While a call is under way nobody has refused it, and       *)
(* nothing has been told of it; it has run only behind the dispatch; in     *)
(* plan mode it comes no further than the check.                            *)
PipeInv ==
  /\ PipeTypeOK
  /\ setup.handlers \in 0..MaxHooks /\ setup.commands \in 0..MaxHooks
  /\ StoppedNeverRuns
  /\ stops # {} => stage = "idle"
  /\ ran => stage \in {"post", "lifePost", "idle"}
  /\ stage # "idle" => posted = "none"
  /\ manager.mode = ReadOnly => stage \in {"idle", "check"} /\ ~ran
  /\ PostMatchesResult

LEMMA PipeStartInv ==
  ASSUME PipeStart, setup.handlers \in 0..MaxHooks, setup.commands \in 0..MaxHooks
  PROVE  PipeInv
<1>1. NothingChecked.req \in Requests /\ NothingChecked.req.input \in Inputs
  BY NothingIsARequest DEF Requests
<1>2. call \in [req : Requests, input : Inputs, hook : 0..MaxHooks, override : Overrides]
  BY <1>1, PipelineAssumption DEF PipeStart, Overrides
<1>3. /\ isError \in BOOLEAN /\ cancelled \in BOOLEAN /\ ran \in BOOLEAN
      /\ stage \in Stages /\ posted \in {"none", "success", "failure"}
  BY DEF PipeStart, Stages
<1>4. calls \in 0..MaxCalls
  BY PipelineAssumption DEF PipeStart
<1>5. PipeTypeOK
  BY <1>2, <1>3, <1>4, Zenon DEF PipeTypeOK
<1> QED
  BY <1>5 DEF PipeStart, PipeInv, StoppedNeverRuns, PostMatchesResult

SetupCalls == [req : Requests, input : Inputs, hook : 0..MaxHooks, override : Overrides]

LEMMA HandlersCall == ASSUME PipeInv, LifecycleHandler PROVE call' \in SetupCalls
<1>0. call \in SetupCalls /\ setup.handlers \in 0..MaxHooks /\ 0 \in 0..MaxHooks
  BY PipelineAssumption DEF PipeInv, PipeTypeOK, SetupCalls
<1>1. \/ call' = [call EXCEPT !.hook = 0]
      \/ (call.hook < setup.handlers /\ call' = [call EXCEPT !.hook = @ + 1])
      \/ \E i \in Inputs : call' = Replaced(i)
      \/ UNCHANGED call
  BY DEF LifecycleHandler
<1>2. CASE call' = [call EXCEPT !.hook = 0]
  BY <1>0, <1>2 DEF SetupCalls
<1>3. CASE call.hook < setup.handlers /\ call' = [call EXCEPT !.hook = @ + 1]
  <2>1. call.hook + 1 \in 0..MaxHooks
    BY <1>0, <1>3, PipelineAssumption DEF SetupCalls
  <2> QED
    BY <1>0, <1>3, <2>1 DEF SetupCalls
<1>4. ASSUME NEW i \in Inputs, call' = Replaced(i) PROVE call' \in SetupCalls
  <2> DEFINE first == [call EXCEPT !.hook = 0]
  <2>1. first \in SetupCalls
    BY <1>0 DEF SetupCalls
  <2>2. call' = [first EXCEPT !.input = i]
    BY <1>4 DEF Replaced
  <2> HIDE DEF first
  <2> QED
    BY <2>1, <2>2 DEF SetupCalls
<1> QED
  BY <1>0, <1>1, <1>2, <1>3, <1>4

LEMMA CommandsCall == ASSUME PipeInv, HookCommand PROVE call' \in SetupCalls
<1>0. call \in SetupCalls /\ setup.commands \in 0..MaxHooks /\ 0 \in 0..MaxHooks
  BY PipelineAssumption DEF PipeInv, PipeTypeOK, SetupCalls
<1>1. \/ call' = [call EXCEPT !.hook = 0]
      \/ (call.hook < setup.commands
          /\ \E o \in {call.override} \cup Decisions, i \in {call.input} \cup Inputs :
               call' = Advanced(o, i))
      \/ UNCHANGED call
  BY DEF HookCommand
<1>2. CASE call' = [call EXCEPT !.hook = 0]
  BY <1>0, <1>2 DEF SetupCalls
<1>3. ASSUME call.hook < setup.commands,
             NEW o \in {call.override} \cup Decisions, NEW i \in {call.input} \cup Inputs,
             call' = Advanced(o, i)
      PROVE  call' \in SetupCalls
  <2> DEFINE first == [call EXCEPT !.hook = @ + 1]
             second == [first EXCEPT !.override = o]
  <2>1. call.hook + 1 \in 0..MaxHooks /\ o \in Overrides /\ i \in Inputs
    BY <1>0, <1>3, PipelineAssumption DEF SetupCalls, Overrides
  <2>2. call' = [second EXCEPT !.input = i]
    BY <1>3 DEF Advanced
  <2>3. first \in SetupCalls
    BY <1>0, <2>1 DEF SetupCalls
  <2> HIDE DEF first
  <2>4. second \in SetupCalls
    BY <2>1, <2>3 DEF SetupCalls
  <2> HIDE DEF second
  <2> QED
    BY <2>1, <2>2, <2>4 DEF SetupCalls
<1> QED
  BY <1>0, <1>1, <1>2, <1>3

(* What a step of the pipeline leaves of the permissions. *)
LEMMA PipeNextGrants ==
  ASSUME PipeNext
  PROVE  UNCHANGED permVars \/ Remember(call.req.tool, "allow")
<1>1. ASSUME NEW req \in Requests, NextCall(req) PROVE UNCHANGED permVars
  BY <1>1 DEF NextCall
<1>2. PermissionCheck => UNCHANGED permVars
  BY DEF PermissionCheck
<1>3. UserReplies => UNCHANGED permVars \/ Remember(call.req.tool, "allow")
  BY DEF UserReplies
<1>4. SkillGate => UNCHANGED permVars
  BY DEF SkillGate
<1>5. LifecycleHandler \/ HookCommand => UNCHANGED permVars
  BY DEF LifecycleHandler, HookCommand
<1>6. ApplyOverride => UNCHANGED permVars \/ Remember(call.req.tool, "allow")
  BY DEF ApplyOverride
<1>7. Dispatch \/ PostCommands \/ LifecyclePost \/ CancelTurn => UNCHANGED permVars
  BY DEF Dispatch, PostCommands, LifecyclePost, CancelTurn
<1> QED
  BY <1>1, <1>2, <1>3, <1>4, <1>5, <1>6, <1>7 DEF PipeNext

LEMMA PipeNextInv == ASSUME PipeInv, PipeNext PROVE PipeInv'
<1>p. manager' = manager
  BY PipeNextGrants DEF permVars, Remember
<1> USE DEF PipeInv, PipeTypeOK, StoppedNeverRuns, PostMatchesResult, Refuse, GoOn, Stages
<1>1. ASSUME NEW req \in Requests, NextCall(req) PROVE PipeInv'
  <2>1. call' \in SetupCalls
    BY <1>1, PipelineAssumption DEF NextCall, SetupCalls, Requests, Overrides
  <2>2. calls' \in 0..MaxCalls
    BY <1>1, PipelineAssumption DEF NextCall
  <2> QED
    BY <1>1, <1>p, <2>1, <2>2 DEF NextCall, SetupCalls
<1>2. CASE PermissionCheck
  BY <1>2, <1>p DEF PermissionCheck
<1>3. CASE UserReplies
  BY <1>3, <1>p DEF UserReplies
<1>4. CASE SkillGate
  BY <1>4, <1>p DEF SkillGate
<1>5. CASE LifecycleHandler
  <2>1. call' \in SetupCalls
    BY <1>5, HandlersCall
  <2>2. stage = "life" /\ UNCHANGED <<setup, skillScope, cancelled, calls, ran>>
    BY <1>5 DEF LifecycleHandler
  <2>3. \/ (GoOn("shell") /\ UNCHANGED posted)
        \/ (GoOn("life") /\ UNCHANGED posted)
        \/ (Refuse("handler") /\ posted' = "failure")
    BY <1>5 DEF LifecycleHandler
  <2>4. CASE UNCHANGED <<isError, stops, posted>> /\ stage' \in {"shell", "life"}
    BY <1>p, <2>1, <2>2, <2>4 DEF SetupCalls
  <2>5. CASE Refuse("handler") /\ posted' = "failure"
    BY <1>p, <2>1, <2>2, <2>5 DEF SetupCalls
  <2> QED
    BY <2>3, <2>4, <2>5
<1>6. CASE HookCommand
  <2>1. call' \in SetupCalls
    BY <1>6, CommandsCall
  <2>2. stage = "shell" /\ UNCHANGED <<setup, skillScope, cancelled, calls, ran, posted>>
    BY <1>6 DEF HookCommand
  <2>3. GoOn("override") \/ GoOn("shell") \/ Refuse("command") \/ Refuse("cancellation")
    BY <1>6 DEF HookCommand
  <2>4. CASE UNCHANGED <<isError, stops>> /\ stage' \in {"override", "shell"}
    BY <1>p, <2>1, <2>2, <2>4 DEF SetupCalls
  <2>5. CASE Refuse("command") \/ Refuse("cancellation")
    BY <1>p, <2>1, <2>2, <2>5 DEF SetupCalls
  <2> QED
    BY <2>3, <2>4, <2>5
<1>7. CASE ApplyOverride
  <2>1. stage = "override" /\ UNCHANGED <<setup, skillScope, call, cancelled, calls, ran, posted>>
    BY <1>7 DEF ApplyOverride
  <2>2. Refuse("override") \/ GoOn("dispatch")
    BY <1>7 DEF ApplyOverride
  <2> QED
    BY <1>p, <2>1, <2>2
<1>8. CASE Dispatch
  <2>1. /\ stage = "dispatch" /\ stage' = "post" /\ ran' = TRUE /\ isError' \in BOOLEAN
        /\ UNCHANGED <<setup, call, cancelled, calls, stops, posted>>
    BY <1>8 DEF Dispatch
  <2> QED
    BY <1>p, <2>1
<1>9. CASE PostCommands
  <2>1. /\ stage = "post" /\ stage' \in {"lifePost", "idle"}
        /\ UNCHANGED <<setup, call, cancelled, calls, stops, ran, posted>>
    BY <1>9 DEF PostCommands
  <2>2. isError' \in BOOLEAN
    BY <1>9 DEF PostCommands
  <2> QED
    BY <1>p, <2>1, <2>2
<1>10. CASE LifecyclePost
  BY <1>10, <1>p DEF LifecyclePost
<1>11. CASE CancelTurn
  BY <1>11, <1>p DEF CancelTurn
<1> QED
  BY <1>1, <1>2, <1>3, <1>4, <1>5, <1>6, <1>7, <1>8, <1>9, <1>10, <1>11 DEF PipeNext

LEMMA PipeNextPermissions == ASSUME PermInv, PipeInv, PipeNext PROVE PermInv'
<1>1. CASE UNCHANGED permVars
  BY <1>1 DEF permVars, PermInv, PermTypeOK, PolicyDecides, ByPolicy, Outcome
<1>2. CASE Remember(call.req.tool, "allow")
  <2>1. call.req.tool \in Tools /\ "allow" \in Decisions
    BY DEF PipeInv, PipeTypeOK, Requests, Decisions
  <2> QED
    BY <1>2, <2>1, RememberKeeps
<1> QED
  BY <1>1, <1>2, PipeNextGrants

-----------------------------------------------------------------------------
(* The cache of the classifier. An entry repeats the model's last reply    *)
(* for its key and expires a time to live after it.                         *)
Entries == [key : Keys, d : Verdicts, exp : Nat]
Repeating == {e \in Entries : \E a \in Nat : e.exp = a + TTL /\ lastAnswer[e.key] = <<[d |-> e.d, at |-> a]>>}
OneEach(order) == \A i, j \in DOMAIN order : order[i].key = order[j].key => i = j

CacheInv ==
  /\ CacheTypeOK
  /\ cacheOrder \in Seq(Entries) /\ Len(cacheOrder) <= MaxEntries /\ OneEach(cacheOrder)
  /\ lastAnswer \in [Keys -> {<<>>} \cup {<<a>> : a \in [d : Verdicts, at : Nat]}]
  /\ \A i \in DOMAIN cacheOrder : cacheOrder[i] \in Repeating
  /\ CachedWasAnswered

LEMMA CacheInitInv == ASSUME CacheInit PROVE CacheInv
<1>1. cacheOrder = <<>> /\ returned.from # "cache"
  BY DEF CacheInit, Nobody
<1>2. CacheTypeOK
  BY <1>1, CacheAssumption DEF CacheInit, CacheTypeOK
<1>3. Len(cacheOrder) <= MaxEntries /\ OneEach(cacheOrder) /\ cacheOrder \in Seq(Entries)
  BY <1>1, CacheAssumption DEF OneEach
<1> QED
  BY <1>1, <1>2, <1>3 DEF CacheInit, CacheInv, CachedWasAnswered

(* A sequence with an entry set: every element is the entry or was there,  *)
(* and what the entry replaces is not.                                      *)
LEMMA WithEntryProperties ==
  ASSUME cacheOrder \in Seq(Entries), Len(cacheOrder) <= MaxEntries, OneEach(cacheOrder), NEW e \in Entries
  PROVE  /\ WithEntry(e) \in Seq(Entries) /\ Len(WithEntry(e)) <= MaxEntries /\ OneEach(WithEntry(e))
         /\ \A i \in DOMAIN WithEntry(e) :
              \/ WithEntry(e)[i] = e
              \/ \E j \in DOMAIN cacheOrder : WithEntry(e)[i] = cacheOrder[j] /\ cacheOrder[j].key # e.key
<1> DEFINE s == cacheOrder
           n == Len(s)
<1>0. n \in Nat /\ DOMAIN s = 1..n /\ MaxEntries \in Nat \ {0} /\ \A j \in 1..n : s[j] \in Entries
  BY CacheAssumption, ElementOfSeq
<1>1. CASE At(e.key) # {}
  <2> DEFINE t == [i \in DOMAIN s |-> IF s[i].key = e.key THEN e ELSE s[i]]
  <2>1. WithEntry(e) = t
    BY <1>1 DEF WithEntry
  <2>2. \A i \in 1..n : t[i] \in Entries
    BY <1>0
  <2>3. t \in Seq(Entries) /\ Len(t) = n /\ DOMAIN t = 1..n
    BY <1>0, <2>2
  <2>4. OneEach(t)
    BY <1>0, <2>3 DEF OneEach
  <2>5. \A i \in DOMAIN t : t[i] = e \/ (t[i] = s[i] /\ s[i].key # e.key)
    BY <1>0, <2>3
  <2> HIDE DEF t
  <2> QED
    BY <1>0, <2>1, <2>3, <2>4, <2>5
<1>2. CASE At(e.key) = {}
  <2> DEFINE r == IF n >= MaxEntries THEN SubSeq(s, n - MaxEntries + 2, n) ELSE s
             skip == IF n >= MaxEntries THEN n - MaxEntries + 1 ELSE 0
  <2>1. /\ r \in Seq(Entries) /\ Len(r) \in Nat /\ Len(r) < MaxEntries
        /\ \A i \in 1..Len(r) : i + skip \in 1..n /\ r[i] = s[i + skip]
    <3>1. CASE n >= MaxEntries
      <4> DEFINE bound == MaxEntries
      <4> HIDE DEF n, bound
      <4>0a. n \in Nat /\ bound \in Nat /\ n <= bound /\ n >= bound
        BY <1>0, <3>1 DEF n, bound
      <4>0b. n = bound /\ n - bound + 2 = 2 /\ n - bound + 1 = 1
        BY <4>0a
      <4> USE DEF n, bound
      <4>0. n = MaxEntries /\ 2 \in Int /\ n \in Int /\ n - MaxEntries + 2 = 2 /\ n - MaxEntries + 1 = 1
        BY <4>0a, <4>0b
      <4>1. n = MaxEntries /\ 2 \in Int /\ n \in Int /\ r = SubSeq(s, 2, n) /\ skip = 1
        BY <3>1, <4>0
      <4>2. \A i \in 2..n : s[i] \in Entries
        BY <1>0
      <4>3. /\ SubSeq(s, 2, n) \in Seq(Entries) /\ Len(SubSeq(s, 2, n)) = n - 1
            /\ \A i \in 1..n - 1 : SubSeq(s, 2, n)[i] = s[i + 1]
        BY <1>0, <4>1, <4>2, SubSeqProperties
      <4> QED
        BY <1>0, <4>1, <4>3
    <3>2. CASE ~(n >= MaxEntries)
      BY <1>0, <3>2
    <3> QED
      BY <3>1, <3>2
  <2>2. WithEntry(e) = Append(r, e)
    BY <1>2 DEF WithEntry
  <2>3. skip \in Nat
    BY <1>0
  <2> HIDE DEF r, skip
  <2>4. /\ Append(r, e) \in Seq(Entries) /\ Len(Append(r, e)) = Len(r) + 1
        /\ \A i \in 1..Len(r) : Append(r, e)[i] = r[i]
        /\ Append(r, e)[Len(r) + 1] = e
    BY <2>1, AppendProperties
  <2>5. DOMAIN Append(r, e) = 1..Len(r) + 1
    BY <2>1, <2>4
  <2>6. \A j \in 1..n : s[j].key # e.key
    BY <1>0, <1>2 DEF At
  <2>7. \A i \in 1..Len(r) : Append(r, e)[i].key # e.key
    BY <2>1, <2>4, <2>6
  <2>8. OneEach(Append(r, e))
    <3> SUFFICES ASSUME NEW i \in 1..Len(r) + 1, NEW j \in 1..Len(r) + 1,
                        Append(r, e)[i].key = Append(r, e)[j].key
                 PROVE  i = j
      BY <2>5 DEF OneEach
    <3>1. CASE i = Len(r) + 1 \/ j = Len(r) + 1
      BY <2>1, <2>4, <2>7, <3>1
    <3>2. CASE i \in 1..Len(r) /\ j \in 1..Len(r)
      <4>1. s[i + skip].key = s[j + skip].key /\ i + skip \in DOMAIN s /\ j + skip \in DOMAIN s
        BY <1>0, <2>1, <2>4, <3>2
      <4>2. i + skip = j + skip
        BY <4>1 DEF OneEach
      <4> QED
        BY <2>3, <3>2, <4>2
    <3> QED
      BY <2>1, <3>1, <3>2
  <2>9. ASSUME NEW i \in 1..Len(r) + 1
        PROVE  \/ Append(r, e)[i] = e
               \/ \E j \in DOMAIN s : Append(r, e)[i] = s[j] /\ s[j].key # e.key
    <3>1. CASE i = Len(r) + 1
      BY <2>4, <3>1
    <3>2. CASE i \in 1..Len(r)
      BY <1>0, <2>1, <2>4, <2>6, <3>2
    <3> QED
      BY <2>1, <3>1, <3>2
  <2> QED
    BY <1>0, <2>1, <2>2, <2>4, <2>5, <2>8, <2>9
<1> QED
  BY <1>1, <1>2

(* One entry less leaves the others what they were. *)
LEMMA RemovalKeeps ==
  ASSUME cacheOrder \in Seq(Entries), Len(cacheOrder) <= MaxEntries, OneEach(cacheOrder),
         NEW i \in DOMAIN cacheOrder
  PROVE  /\ RemoveAt(cacheOrder, i) \in Seq(Entries) /\ Len(RemoveAt(cacheOrder, i)) <= MaxEntries
         /\ OneEach(RemoveAt(cacheOrder, i))
         /\ \A j \in DOMAIN RemoveAt(cacheOrder, i) :
              \E k \in DOMAIN cacheOrder : RemoveAt(cacheOrder, i)[j] = cacheOrder[k]
<1> DEFINE s == cacheOrder
           n == Len(s)
           r == RemoveAt(s, i)
           was(j) == IF j < i THEN j ELSE j + 1
<1>0. n \in Nat /\ DOMAIN s = 1..n /\ i \in 1..n /\ MaxEntries \in Nat
  BY CacheAssumption
<1>1. r \in Seq(Entries) /\ Len(r) = n - 1 /\ \A j \in 1..n - 1 : r[j] = IF j < i THEN s[j] ELSE s[j + 1]
  <2>1. PICK order \in Seq(Entries) : order = s
    OBVIOUS
  <2>2. i \in 1..Len(order)
    BY <1>0, <2>1
  <2>3. /\ RemoveAt(order, i) \in Seq(Entries) /\ Len(RemoveAt(order, i)) = Len(order) - 1
        /\ \A j \in 1..Len(order) - 1 : RemoveAt(order, i)[j] = IF j < i THEN order[j] ELSE order[j + 1]
    BY <2>2, RemoveAtProperties
  <2> QED
    BY <2>1, <2>3
<1> HIDE DEF r
<1>2. DOMAIN r = 1..n - 1 /\ n - 1 <= MaxEntries
  BY <1>0, <1>1
<1>3. \A j \in 1..n - 1 : was(j) \in 1..n /\ r[j] = s[was(j)]
  BY <1>0, <1>1
<1>4. \A j, k \in 1..n - 1 : was(j) = was(k) => j = k
  BY <1>0
<1> HIDE DEF was
<1>5. OneEach(r)
  <2> SUFFICES ASSUME NEW j \in 1..n - 1, NEW k \in 1..n - 1, r[j].key = r[k].key PROVE j = k
    BY <1>2 DEF OneEach
  <2>1. s[was(j)].key = s[was(k)].key /\ was(j) \in DOMAIN s /\ was(k) \in DOMAIN s
    BY <1>0, <1>3
  <2>2. was(j) = was(k)
    BY <2>1 DEF OneEach
  <2> QED
    BY <1>4, <2>2
<1>6. \A j \in DOMAIN r : \E k \in DOMAIN s : r[j] = s[k]
  BY <1>0, <1>2, <1>3
<1> QED
  BY <1>1, <1>2, <1>5, <1>6 DEF r

LEMMA CacheEntriesType ==
  ASSUME NEW order \in Seq(Entries)
  PROVE  \A i \in DOMAIN order : order[i].key \in Keys /\ order[i].d \in Verdicts /\ order[i].exp \in Nat
<1>1. \A i \in DOMAIN order : order[i] \in Entries
  BY ElementOfSeq
<1> QED
  BY <1>1 DEF Entries

LEMMA ClassifyKeeps ==
  ASSUME CacheInv, NEW c \in Callers, NEW key \in Keys, Classify(c, key)
  PROVE  CacheInv'
<1>0. UNCHANGED <<clock, lastAnswer>>
  BY DEF Classify
<1>1. CASE UNCHANGED <<cacheOrder, asking>>
             /\ \E i \in At(key) : ~Expired(cacheOrder[i])
                  /\ returned' = [key |-> key, d |-> cacheOrder[i].d, at |-> clock, from |-> "cache"]
  <2>1. PICK i \in At(key) : ~Expired(cacheOrder[i])
          /\ returned' = [key |-> key, d |-> cacheOrder[i].d, at |-> clock, from |-> "cache"]
    BY <1>1
  <2>2. i \in DOMAIN cacheOrder /\ cacheOrder[i].key = key /\ cacheOrder[i].exp \in Nat
    BY <2>1 DEF At, CacheInv, CacheTypeOK
  <2>3. PICK a \in Nat : cacheOrder[i].exp = a + TTL /\ lastAnswer[key] = <<[d |-> cacheOrder[i].d, at |-> a]>>
    BY <2>2 DEF CacheInv, Repeating
  <2>4. TTL > 0 => clock <= a + TTL
    BY <2>1, <2>2, <2>3, CacheAssumption DEF Expired, CacheInv, CacheTypeOK
  <2>5. /\ returned'.key = key /\ returned'.d = cacheOrder[i].d /\ returned'.at = clock
        /\ lastAnswer'[key] = <<[d |-> cacheOrder[i].d, at |-> a]>>
    BY <1>0, <2>1, <2>3
  <2>6. CachedWasAnswered'
    BY <2>4, <2>5 DEF CachedWasAnswered
  <2> QED
    BY <1>0, <1>1, <2>6 DEF CacheInv, CacheTypeOK, Repeating
<1>2. CASE ~(UNCHANGED <<cacheOrder, asking>>
               /\ \E i \in At(key) : ~Expired(cacheOrder[i])
                    /\ returned' = [key |-> key, d |-> cacheOrder[i].d, at |-> clock, from |-> "cache"])
  <2>1. /\ asking' = [asking EXCEPT ![c] = key] /\ returned' = returned
        /\ (UNCHANGED cacheOrder \/ \E i \in At(key) : cacheOrder' = RemoveAt(cacheOrder, i))
    BY <1>2 DEF Classify
  <2>2. /\ cacheOrder' \in Seq(Entries) /\ Len(cacheOrder') <= MaxEntries /\ OneEach(cacheOrder')
        /\ \A j \in DOMAIN cacheOrder' : \E k \in DOMAIN cacheOrder : cacheOrder'[j] = cacheOrder[k]
    <3>1. CASE UNCHANGED cacheOrder
      BY <3>1 DEF CacheInv
    <3>2. ASSUME NEW i \in At(key), cacheOrder' = RemoveAt(cacheOrder, i) PROVE <2>2!:
      <4>1. i \in DOMAIN cacheOrder
        BY DEF At
      <4> QED
        BY <3>2, <4>1, RemovalKeeps DEF CacheInv
    <3> QED
      BY <2>1, <3>1, <3>2
  <2>3. \A j \in DOMAIN cacheOrder' : cacheOrder'[j] \in Repeating'
    <3>1. UNCHANGED Repeating
      BY <1>0 DEF Repeating
    <3> QED
      BY <2>2, <3>1 DEF CacheInv
  <2>4. asking' \in [Callers -> Keys \cup {"none"}]
    BY <2>1 DEF CacheInv, CacheTypeOK
  <2>5. CacheTypeOK'
    BY <1>0, <2>2, <2>4, CacheEntriesType DEF CacheInv, CacheTypeOK
  <2>6. CachedWasAnswered'
    BY <1>0, <2>1 DEF CacheInv, CachedWasAnswered
  <2> QED
    BY <1>0, <2>2, <2>3, <2>5, <2>6 DEF CacheInv
<1> QED
  BY <1>1, <1>2

LEMMA ModelAnswersKeeps ==
  ASSUME CacheInv, NEW c \in Callers, NEW d \in Verdicts, ModelAnswers(c, d)
  PROVE  CacheInv'
<1> DEFINE key == asking[c]
           e == [key |-> key, d |-> d, exp |-> clock + TTL]
<1>1. key \in Keys /\ clock \in Nat /\ TTL \in Nat
  BY CacheAssumption DEF ModelAnswers, CacheInv, CacheTypeOK
<1>2. e \in Entries /\ e.key = key /\ e.d = d /\ e.exp = clock + TTL
  BY <1>1 DEF Entries
<1>3. /\ cacheOrder' = WithEntry(e) /\ clock' = clock
      /\ lastAnswer' = [lastAnswer EXCEPT ![key] = <<[d |-> d, at |-> clock]>>]
      /\ returned' = [key |-> key, d |-> d, at |-> clock, from |-> "model"]
      /\ asking' = [asking EXCEPT ![c] = "none"]
  BY DEF ModelAnswers
<1> HIDE DEF key, e
<1>4. /\ cacheOrder' \in Seq(Entries) /\ Len(cacheOrder') <= MaxEntries /\ OneEach(cacheOrder')
      /\ \A i \in DOMAIN cacheOrder' :
           \/ cacheOrder'[i] = e
           \/ \E j \in DOMAIN cacheOrder : cacheOrder'[i] = cacheOrder[j] /\ cacheOrder[j].key # key
  BY <1>2, <1>3, WithEntryProperties DEF CacheInv
<1>5. lastAnswer' \in [Keys -> {<<>>} \cup {<<a>> : a \in [d : Verdicts, at : Nat]}]
  <2>1. [d |-> d, at |-> clock] \in [d : Verdicts, at : Nat]
    BY <1>1
  <2> QED
    BY <1>1, <1>3, <2>1 DEF CacheInv
<1>6. lastAnswer'[key] = <<[d |-> d, at |-> clock]>> /\ \A k \in Keys \ {key} : lastAnswer'[k] = lastAnswer[k]
  BY <1>1, <1>3 DEF CacheInv
<1>7. ASSUME NEW i \in DOMAIN cacheOrder' PROVE cacheOrder'[i] \in Repeating'
  <2>1. CASE cacheOrder'[i] = e
    <3>1. e.exp = clock + TTL /\ lastAnswer'[e.key] = <<[d |-> e.d, at |-> clock]>>
      BY <1>2, <1>6
    <3>2. e \in Repeating'
      BY <1>1, <1>2, <3>1 DEF Repeating
    <3> QED
      BY <2>1, <3>2
  <2>2. ASSUME NEW j \in DOMAIN cacheOrder, cacheOrder'[i] = cacheOrder[j], cacheOrder[j].key # key
        PROVE  cacheOrder'[i] \in Repeating'
    <3>1. cacheOrder[j].key \in Keys /\ cacheOrder[j] \in Repeating
      BY DEF CacheInv, CacheTypeOK
    <3>2. lastAnswer'[cacheOrder[j].key] = lastAnswer[cacheOrder[j].key]
      BY <1>6, <2>2, <3>1
    <3>3. cacheOrder[j] \in Repeating'
      BY <3>1, <3>2 DEF Repeating
    <3> QED
      BY <2>2, <3>3
  <2> QED
    BY <1>4, <2>1, <2>2
<1>8. CacheTypeOK'
  BY <1>3, <1>4, CacheEntriesType DEF CacheInv, CacheTypeOK
<1>9. CachedWasAnswered'
  BY <1>3 DEF CachedWasAnswered
<1> QED
  BY <1>4, <1>5, <1>7, <1>8, <1>9 DEF CacheInv

LEMMA CacheNextInv == ASSUME CacheInv, CacheNext PROVE CacheInv'
<1>1. ASSUME NEW c \in Callers, NEW k \in Keys, Classify(c, k) PROVE CacheInv'
  BY <1>1, ClassifyKeeps
<1>2. ASSUME NEW c \in Callers, NEW d \in Verdicts, ModelAnswers(c, d) PROVE CacheInv'
  BY <1>2, ModelAnswersKeeps
<1>3. ASSUME NEW c \in Callers, ModelFails(c) PROVE CacheInv'
  <2>1. asking' \in [Callers -> Keys \cup {"none"}] /\ CachedWasAnswered' /\ UNCHANGED <<cacheOrder, clock, lastAnswer>>
    BY <1>3 DEF ModelFails, CacheInv, CacheTypeOK, CachedWasAnswered
  <2> QED
    BY <2>1 DEF CacheInv, CacheTypeOK, Repeating
<1>4. CASE ClockTicks
  <2>1. clock' \in 0..MaxTime /\ CachedWasAnswered' /\ UNCHANGED <<cacheOrder, asking, lastAnswer>>
    BY <1>4, CacheAssumption DEF ClockTicks, Nobody, CacheInv, CacheTypeOK, CachedWasAnswered
  <2> QED
    BY <2>1 DEF CacheInv, CacheTypeOK, Repeating
<1> QED
  BY <1>1, <1>2, <1>3, <1>4 DEF CacheNext

-----------------------------------------------------------------------------
(* Plan mode. Where a call stands says which of the two files has the mode  *)
(* of the user, or would have it if the call were stopped there.            *)
Theirs == userMode # "plan" => displaced = userMode
PlanInv ==
  /\ PlanTypeOK /\ UserModeKept
  /\ saved # <<"plan">> /\ displaced # "plan"
  /\ planStep = "idle" /\ settings = "torn" => userMode = "absent"
  /\ planStep \in {"clear", "truncState", "writeState", "truncPlan"} =>
       displaced = CurrentMode /\ settings # "plan" /\ Theirs
  /\ planStep = "truncPlan" => saved = <<displaced>>
  /\ planStep \in {"writePlan", "writePrior"} => settings = "torn" /\ saved = <<displaced>> /\ Theirs
  /\ planStep = "truncPrior" => settings = "plan" /\ saved = <<displaced>> /\ Theirs
  /\ planStep = "forget" =>
       settings # "plan" /\ (settings = "torn" => userMode = "absent")

LEMMA PlanInitInv == ASSUME PlanInit PROVE PlanInv
<1>1. planActive \in BOOLEAN /\ saved # <<"plan">> /\ saved = <<>>
  BY DEF PlanInit
<1>2. /\ settings = "absent" /\ planStep = "idle" /\ displaced = "absent" /\ userMode = "absent"
      /\ "absent" \in Values
  BY DEF PlanInit, Values
<1> QED
  BY <1>1, <1>2 DEF PlanInv, PlanTypeOK, UserModeKept

LEMMA SavedMode ==
  ASSUME PlanTypeOK, saved # <<"plan">>, ExistingState
  PROVE  saved[1] \in Values /\ saved[1] # "plan" /\ saved = <<saved[1]>>
<1>1. PICK v \in Values : saved = <<v>>
  BY DEF PlanTypeOK, ExistingState
<1> QED
  BY <1>1

LEMMA PlanNextInv == ASSUME PlanInv, PlanNext PROVE PlanInv'
<1> USE DEF PlanInv, PlanTypeOK, UserModeKept, Theirs, CurrentMode
<1>0. "absent" \in Values /\ "torn" \notin Values
  BY PlanModeAssumption DEF Values
<1>1. CASE EnterPlanMode
  BY <1>0, <1>1 DEF EnterPlanMode
<1>2. CASE EnterStep
  <2>1. CASE planStep = "clear"
    BY <1>0, <1>2, <2>1 DEF EnterStep
  <2>2. CASE planStep = "truncState"
    BY <1>0, <1>2, <2>2 DEF EnterStep
  <2>3. CASE planStep = "writeState"
    BY <1>0, <1>2, <2>3 DEF EnterStep
  <2>4. CASE planStep = "truncPlan"
    BY <1>0, <1>2, <2>4 DEF EnterStep
  <2>5. CASE planStep = "writePlan"
    BY <1>0, <1>2, <2>5 DEF EnterStep, Values
  <2> QED
    BY <1>2, <2>1, <2>2, <2>3, <2>4, <2>5 DEF EnterStep
<1>3. CASE ExitPlanMode
  <2>1. CASE ~ExistingState \/ CurrentMode # "plan"
    BY <1>0, <1>3, <2>1 DEF ExitPlanMode
  <2>2. CASE ExistingState /\ CurrentMode = "plan"
    <3>1. saved[1] \in Values /\ saved[1] # "plan" /\ saved = <<saved[1]>>
      BY <2>2, SavedMode
    <3>2. settings = "plan"
      BY <2>2
    <3>3. planStep = "idle" /\ planStep' = "truncPrior" /\ displaced' = saved[1]
          /\ UNCHANGED <<planActive, settings, saved, userMode>>
      BY <1>3, <2>2 DEF ExitPlanMode
    <3>4. userMode # "plan" => saved[1] = userMode
      BY <3>1, <3>2
    <3> QED
      BY <3>1, <3>2, <3>3, <3>4
  <2> QED
    BY <2>1, <2>2
<1>4. CASE ExitStep
  <2>1. CASE planStep = "truncPrior"
    BY <1>0, <1>4, <2>1 DEF ExitStep
  <2>2. CASE planStep = "writePrior"
    BY <1>0, <1>4, <2>2 DEF ExitStep
  <2>3. CASE planStep = "forget"
    <3>1. saved' = <<>> /\ planActive' = FALSE /\ planStep' = "idle" /\ UNCHANGED <<settings, displaced, userMode>>
      BY <1>4, <2>3 DEF ExitStep
    <3>2. saved' # <<"plan">>
      BY <3>1
    <3>3. planActive' \in BOOLEAN
      BY <3>1
    <3> QED
      BY <2>3, <3>1, <3>2, <3>3
  <2> QED
    BY <1>4, <2>1, <2>2, <2>3 DEF ExitStep
<1>5. CASE PlanCallFails
  BY <1>0, <1>5 DEF PlanCallFails, LeftInSettings
<1>6. CASE PlanRestart
  BY <1>0, <1>6 DEF PlanRestart, LeftInSettings
<1>7. ASSUME NEW m \in Values, EditMode(m) PROVE PlanInv'
  BY <1>0, <1>7 DEF EditMode
<1> QED
  BY <1>1, <1>2, <1>3, <1>4, <1>5, <1>6, <1>7 DEF PlanNext

-----------------------------------------------------------------------------
(* The run of a command. The clock passes the timeout only when the caller  *)
(* has stopped waiting for bash, and a success leaves nobody at the pipe.   *)
Shells == [call : {"ready", "running", "draining", "blocked", "ok", "timedOut", "cancelled", "error", "overflow"},
           bash : {"none", "running", "succeeded", "failed", "killed"}, job : BOOLEAN, daemon : BOOLEAN,
           ctx : {"live", "deadline", "cancelled"}, clock : Nat, since : Nat]
ShellInv ==
  /\ shell \in Shells
  /\ shell.call \in {"ready", "blocked", "overflow"} => shell.bash = "none"
  /\ shell.call \in {"ready", "running"} => shell.clock <= Timeout
  /\ shell.call = "draining" =>
       shell.bash # "running" /\ shell.since <= Timeout /\ shell.clock <= shell.since + WaitDelay
  /\ OutputIsWhole

LEMMA ShellReadyInv == ASSUME shell = ShellReady PROVE ShellInv
<1>1. shell \in Shells
  BY DEF ShellReady, Shells
<1> QED
  BY <1>1, BashAssumption DEF ShellReady, ShellInv, OutputIsWhole

LEMMA ReturnsInTime == ShellInv => CommandReturns
BY BashAssumption DEF ShellInv, Shells, CommandReturns

LEMMA BashNextInv == ASSUME ShellInv, BashNext PROVE ShellInv'
<1>0. shell \in Shells
  BY DEF ShellInv
<1>t. Timeout \in Nat /\ WaitDelay \in Nat
  BY BashAssumption
<1>1. CASE ExecuteBash
  <2>0. shell.call = "ready"
    BY <1>1 DEF ExecuteBash
  <2>1. CASE \E s \in {"blocked", "overflow"} : shell' = [shell EXCEPT !.call = s]
    <3>1. shell' \in Shells
      BY <1>0, <2>1 DEF Shells
    <3> QED
      BY <1>0, <2>0, <2>1, <3>1 DEF ShellInv, Shells, OutputIsWhole
  <2>2. CASE shell' = [shell EXCEPT !.call = "running", !.bash = "running"]
    <3>1. shell' \in Shells
      BY <1>0, <2>2 DEF Shells
    <3> QED
      BY <1>0, <2>0, <2>2, <3>1 DEF ShellInv, Shells, OutputIsWhole
  <2> QED
    BY <1>1, <2>1, <2>2 DEF ExecuteBash
<1>2. CASE BashForks
  <2>0. shell.bash = "running"
    BY <1>2 DEF BashForks
  <2>1. CASE shell' = [shell EXCEPT !["job"] = TRUE]
    <3>1. shell' \in Shells
      BY <1>0, <2>1 DEF Shells
    <3> QED
      BY <1>0, <2>0, <2>1, <3>1 DEF ShellInv, Shells, OutputIsWhole
  <2>2. CASE shell' = [shell EXCEPT !["daemon"] = TRUE]
    <3>1. shell' \in Shells
      BY <1>0, <2>2 DEF Shells
    <3> QED
      BY <1>0, <2>0, <2>2, <3>1 DEF ShellInv, Shells, OutputIsWhole
  <2> QED
    BY <1>2, <2>1, <2>2 DEF BashForks
<1>3. CASE DescendantEnds
  <2>1. CASE shell' = [shell EXCEPT !["job"] = FALSE]
    <3>1. shell' \in Shells
      BY <1>0, <2>1 DEF Shells
    <3> QED
      BY <1>0, <2>1, <3>1 DEF ShellInv, Shells, OutputIsWhole, PipeOpen
  <2>2. CASE shell' = [shell EXCEPT !["daemon"] = FALSE]
    <3>1. shell' \in Shells
      BY <1>0, <2>2 DEF Shells
    <3> QED
      BY <1>0, <2>2, <3>1 DEF ShellInv, Shells, OutputIsWhole, PipeOpen
  <2> QED
    BY <1>3, <2>1, <2>2 DEF DescendantEnds
<1>4. CASE BashExits
  <2>1. PICK code \in {"succeeded", "failed"} : shell.bash = "running" /\ shell' = [shell EXCEPT !.bash = code]
    BY <1>4 DEF BashExits
  <2>2. shell' \in Shells
    BY <1>0, <2>1 DEF Shells
  <2> QED
    BY <1>0, <2>1, <2>2 DEF ShellInv, Shells, OutputIsWhole
<1>5. CASE CancelCall \/ DeadlinePasses
  <2>1. PICK over \in {"cancelled", "deadline"} : shell' = [shell EXCEPT !.ctx = over]
    BY <1>5 DEF CancelCall, DeadlinePasses
  <2>2. shell' \in Shells
    BY <1>0, <2>1 DEF Shells
  <2> QED
    BY <1>0, <2>1, <2>2 DEF ShellInv, Shells, OutputIsWhole, PipeOpen
<1>6. CASE KillGroup
  <2>1. shell.call = "running"
    BY <1>6 DEF KillGroup, KillDue
  <2> DEFINE left == IF shell.bash = "running" THEN "killed" ELSE shell.bash
             one == [shell EXCEPT !.job = FALSE]
             two == [one EXCEPT !.bash = left]
             three == [two EXCEPT !.call = "draining"]
  <2>2. shell' = [three EXCEPT !.since = shell.clock]
    BY <1>6 DEF KillGroup
  <2>3. left \in {"none", "succeeded", "failed", "killed"}
    BY <1>0 DEF Shells
  <2> HIDE DEF left
  <2>4. one \in Shells /\ one.clock = shell.clock
    BY <1>0 DEF Shells
  <2> HIDE DEF one
  <2>5. two \in Shells /\ two.clock = shell.clock /\ two.bash = left
    BY <2>3, <2>4 DEF Shells
  <2> HIDE DEF two
  <2>6. three \in Shells /\ three.clock = shell.clock /\ three.bash = left /\ three.call = "draining"
    BY <2>5 DEF Shells
  <2> HIDE DEF three
  <2>7. shell' \in Shells /\ shell'.clock = shell.clock /\ shell'.since = shell.clock
        /\ shell'.bash = left /\ shell'.call = "draining"
    BY <1>0, <2>2, <2>6 DEF Shells
  <2> QED
    BY <1>0, <1>t, <2>1, <2>3, <2>7 DEF ShellInv, Shells, OutputIsWhole
<1>7. CASE Reap
  <2> DEFINE one == [shell EXCEPT !.call = "draining"]
  <2>1. shell.call = "running" /\ shell.bash # "running" /\ shell' = [one EXCEPT !.since = shell.clock]
    BY <1>7 DEF Reap, ReapDue
  <2>2. one \in Shells /\ one.call = "draining" /\ one.bash = shell.bash /\ one.clock = shell.clock
    BY <1>0 DEF Shells
  <2> HIDE DEF one
  <2>3. shell' \in Shells /\ shell'.clock = shell.clock /\ shell'.since = shell.clock
        /\ shell'.bash = shell.bash /\ shell'.call = "draining"
    BY <1>0, <2>1, <2>2 DEF Shells
  <2> QED
    BY <1>0, <1>t, <2>1, <2>3 DEF ShellInv, Shells, OutputIsWhole
<1>8. ASSUME NEW cut \in BOOLEAN, ~cut => ~PipeOpen, shell.call = "draining",
             shell' = [shell EXCEPT !.call = CallOutcome(cut)]
      PROVE  ShellInv'
  <2>1. CallOutcome(cut) \in {"ok", "timedOut", "cancelled", "error"}
        /\ (CallOutcome(cut) = "ok" => shell.bash = "succeeded" /\ ~PipeOpen)
    BY <1>8 DEF CallOutcome
  <2>2. shell' \in Shells /\ shell'.call = CallOutcome(cut)
        /\ shell'.bash = shell.bash /\ shell'.job = shell.job /\ shell'.daemon = shell.daemon
    BY <1>0, <1>8, <2>1 DEF Shells
  <2> QED
    BY <2>1, <2>2 DEF ShellInv, OutputIsWhole, PipeOpen
<1>9. CASE Drained
  <2>1. shell.call = "draining" /\ ~PipeOpen /\ shell' = [shell EXCEPT !.call = CallOutcome(FALSE)]
    BY <1>9 DEF Drained
  <2> QED
    BY <1>8, <2>1
<1>10. CASE WaitDelayExpires
  <2>1. shell.call = "draining" /\ shell' = [shell EXCEPT !.call = CallOutcome(PipeOpen)] /\ PipeOpen \in BOOLEAN
    BY <1>10 DEF WaitDelayExpires, DelayOver, PipeOpen
  <2> QED
    BY <1>8, <2>1
<1>11. CASE Tick
  <2>1. shell' = [shell EXCEPT !.clock = @ + 1] /\ shell.call \in {"running", "draining"}
        /\ ~DeadlineDue /\ ~KillDue /\ ~DelayOver
    BY <1>11 DEF Tick
  <2>2. shell' \in Shells /\ shell'.clock = shell.clock + 1 /\ shell'.call = shell.call
        /\ shell'.bash = shell.bash /\ shell'.since = shell.since
    BY <1>0, <2>1 DEF Shells
  <2>3. CASE shell.call = "running"
    <3>1. shell.ctx = "live"
      BY <2>1, <2>3 DEF KillDue
    <3>2. shell.clock < Timeout
      BY <1>0, <1>t, <2>1, <2>3, <3>1 DEF DeadlineDue, Shells
    <3> QED
      BY <1>0, <1>t, <2>2, <2>3, <3>2 DEF ShellInv, Shells, OutputIsWhole
  <2>4. CASE shell.call = "draining"
    <3>1. shell.clock - shell.since < WaitDelay
      BY <1>0, <1>t, <2>1, <2>4 DEF DelayOver, Shells
    <3> QED
      BY <1>0, <1>t, <2>2, <2>4, <3>1 DEF ShellInv, Shells, OutputIsWhole
  <2> QED
    BY <2>1, <2>3, <2>4
<1> QED
  BY <1>1, <1>2, <1>3, <1>4, <1>5, <1>6, <1>7, <1>9, <1>10, <1>11 DEF BashNext

-----------------------------------------------------------------------------
(* The five machines together. *)
ToolsInv == PermInv /\ PipeInv /\ CacheInv /\ PlanInv /\ ShellInv

LEMMA ToolsInitInv == ToolsInit => ToolsInv
<1> SUFFICES ASSUME ToolsInit PROVE ToolsInv
  OBVIOUS
<1>1. CacheInv /\ PlanInv
  BY CacheInitInv, PlanInitInv DEF ToolsInit
<1>2. ShellInv
  BY ShellReadyInv DEF ToolsInit, NoBash, BashInit
<1>3. [mode |-> Prompt, rules |-> <<>>, classifier |-> <<>>] \in Managers
  BY PermissionsAssumption DEF Managers, Prompt, Modes
<1>4. PermInv
  BY <1>3, PermInitInv DEF ToolsInit, PermInit, PipeInit
<1>5. PipeInv
  <2>1. PipeStart
    BY DEF ToolsInit, PipeInit
  <2>2. setup.handlers \in 0..MaxHooks /\ setup.commands \in 0..MaxHooks
    BY PipelineAssumption DEF ToolsInit, PipeInit
  <2> QED
    BY <2>1, <2>2, PipeStartInv
<1> QED
  BY <1>1, <1>2, <1>4, <1>5 DEF ToolsInv

LEMMA ToolsNextInv == ToolsInv /\ [ToolsNext]_toolsVars => ToolsInv'
<1> SUFFICES ASSUME ToolsInv, [ToolsNext]_toolsVars PROVE ToolsInv'
  OBVIOUS
<1>1. UNCHANGED permVars => PermInv'
  BY DEF ToolsInv, permVars, PermInv, PermTypeOK, PolicyDecides, ByPolicy, Outcome
<1>2. UNCHANGED <<pipeVars, manager>> => PipeInv'
  BY DEF ToolsInv, pipeVars, PipeInv, PipeTypeOK, StoppedNeverRuns, PostMatchesResult
<1>3. UNCHANGED cacheVars => CacheInv'
  BY DEF ToolsInv, cacheVars, CacheInv, CacheTypeOK, Repeating, CachedWasAnswered
<1>4. UNCHANGED planVars => PlanInv'
  BY DEF ToolsInv, planVars, PlanInv, PlanTypeOK, UserModeKept, Theirs, CurrentMode
<1>5. UNCHANGED bashVars => ShellInv'
  BY DEF ToolsInv, bashVars, ShellInv, OutputIsWhole, PipeOpen
<1>6. CASE PermNext /\ UNCHANGED <<pipeVars, cacheVars, planVars, bashVars>>
  <2>1. manager' = manager
    BY <1>6 DEF PermNext, Check, Decided, Remember
  <2>2. PermInv'
    BY <1>6, PermNextInv DEF ToolsInv
  <2> QED
    BY <1>2, <1>3, <1>4, <1>5, <1>6, <2>1, <2>2 DEF ToolsInv
<1>7. CASE PipeNext /\ UNCHANGED <<cacheVars, planVars, bashVars>>
  BY <1>3, <1>4, <1>5, <1>7, PipeNextInv, PipeNextPermissions DEF ToolsInv
<1>8. CASE CacheNext /\ UNCHANGED <<allPipeVars, planVars, bashVars>>
  BY <1>1, <1>2, <1>4, <1>5, <1>8, CacheNextInv DEF ToolsInv, allPipeVars, permVars
<1>9. CASE PlanNext /\ UNCHANGED <<allPipeVars, cacheVars, bashVars>>
  BY <1>1, <1>2, <1>3, <1>5, <1>9, PlanNextInv DEF ToolsInv, allPipeVars, permVars
<1>10. CASE BashNext /\ UNCHANGED <<allPipeVars, cacheVars, planVars>>
  BY <1>1, <1>2, <1>3, <1>4, <1>10, BashNextInv DEF ToolsInv, allPipeVars, permVars
<1>11. CASE UNCHANGED toolsVars
  BY <1>1, <1>2, <1>3, <1>4, <1>5, <1>11 DEF ToolsInv, toolsVars, allPipeVars, permVars
<1> QED
  BY <1>6, <1>7, <1>8, <1>9, <1>10, <1>11 DEF ToolsNext

THEOREM ToolsStayConsistent == ToolsSpec => []ToolsInv
BY ToolsInitInv, ToolsNextInv, PTL DEF ToolsSpec

(* What an ask rule matches runs on the user's yes only, a hook adds        *)
(* nothing to what rules and mode allow, and a higher mode allows what a    *)
(* lower one does (policy.go:60-178), for any rules and requirements.       *)
THEOREM PermissionsAlwaysHold == ToolsSpec => []PermissionsHold
<1>1. ToolsInv => PermissionsHold
  BY PermissionsStand DEF ToolsInv, PermissionsHold, ToolsTypeOK, PermInv, PipeInv, CacheInv, PlanInv
<1> QED
  BY <1>1, ToolsStayConsistent, PTL

(* A call that anybody refused is not run, nothing runs in plan mode, and   *)
(* the handlers are told what the model is told (conversation.go:1112-1390), *)
(* for any number of hooks.                                                 *)
THEOREM StoppedAlwaysStays == ToolsSpec => []StoppedStaysStopped
<1>1. ToolsInv => StoppedStaysStopped
  BY DEF ToolsInv, StoppedStaysStopped, PipeInv, PlanModeRunsNothing
<1> QED
  BY <1>1, ToolsStayConsistent, PTL

(* The cache stays within its bound with one entry for a key, what it       *)
(* answers the model has answered within the time to live, and the mode     *)
(* plan mode displaced is never lost (llm_classifier.go:203-300,            *)
(* plan_mode.go:128-246), for any callers, keys and sizes.                  *)
THEOREM KeptDecisionsAlwaysHold == ToolsSpec => []KeptDecisionsHold
<1>1. ToolsInv => KeptDecisionsHold
  BY DEF ToolsInv, KeptDecisionsHold, CacheInv, OneEach, CacheIsBounded, PlanInv
<1> QED
  BY <1>1, ToolsStayConsistent, PTL

(* Of a command of the bash tool: a success is its whole output, and the    *)
(* caller has its reply by the timeout and the delay after it              *)
(* (bash.go:79-152), for any timeout and delay.                             *)
THEOREM CommandsEndWhole == ToolsSpec => [](OutputIsWhole /\ CommandReturns)
<1>1. ToolsInv => OutputIsWhole /\ CommandReturns
  BY ReturnsInTime DEF ToolsInv, ShellInv
<1> QED
  BY <1>1, ToolsStayConsistent, PTL

-----------------------------------------------------------------------------
(* The transport that carries the calls of MCP tools over two pipes. *)
(* What a sequence keeps of its elements. *)
LEMMA AppendElems ==
  ASSUME NEW S, NEW s \in Seq(S), NEW e \in S
  PROVE  /\ Append(s, e) \in Seq(S) /\ Len(Append(s, e)) = Len(s) + 1
         /\ Len(s) \in Nat
         /\ \A i \in 1..Len(s) : Append(s, e)[i] = s[i]
         /\ Append(s, e)[Len(s) + 1] = e
         /\ \A i \in 1..Len(Append(s, e)) : i \in 1..Len(s) \/ i = Len(s) + 1
<1>1. /\ Append(s, e) \in Seq(S) /\ Len(Append(s, e)) = Len(s) + 1
      /\ \A i \in 1..Len(s) : Append(s, e)[i] = s[i]
      /\ Append(s, e)[Len(s) + 1] = e /\ Len(s) \in Nat
  BY AppendProperties
<1>. QED
  BY <1>1

LEMMA TailElems ==
  ASSUME NEW S, NEW s \in Seq(S), s # <<>>
  PROVE  /\ Tail(s) \in Seq(S) /\ Len(Tail(s)) = Len(s) - 1 /\ Len(s) \in Nat \ {0}
         /\ Head(s) = s[1] /\ Head(s) \in S /\ 1 \in 1..Len(s)
         /\ \A i \in 1..Len(Tail(s)) : Tail(s)[i] = s[i + 1] /\ i + 1 \in 1..Len(s)
<1>1. Len(s) \in Nat \ {0}
  BY EmptySeq
<1>2. /\ Tail(s) \in Seq(S) /\ Len(Tail(s)) = Len(s) - 1
      /\ Head(s) = s[1] /\ Head(s) \in S
      /\ \A i \in 1..Len(Tail(s)) : Tail(s)[i] = s[i + 1]
  BY <1>1, HeadTailProperties
<1>. QED
  BY <1>1, <1>2

-----------------------------------------------------------------------------
(* A request is on its way to the server at most once, and only once it is  *)
(* written; what the server has taken it has executed for good.             *)
OnceInv ==
  /\ \A i \in 1..Len(toServer) :
       /\ toServer[i] \notin unsent \cup executed
       /\ outcome[toServer[i]] # "idle"
       /\ \A j \in 1..Len(toServer) : toServer[j] = toServer[i] => j = i
  /\ executed \cap (unsent \cup Notices) = {}
  /\ \A c \in executed : outcome[c] # "idle"

(* A frame that answers a call comes from its execution. *)
Honest(f) == f \in Calls => f \in executed
HonestInv ==
  /\ \A i \in 1..Len(toClient) : Honest(toClient[i])
  /\ \A i \in 1..Len(responses) : Honest(responses[i])
  /\ Honest(held) /\ Honest(serving)

TransportInv == TypeOK /\ OnceInv /\ HonestInv

LEMMA TransportInit == Init => TransportInv
<1>. SUFFICES ASSUME Init PROVE TransportInv
  OBVIOUS
<1>1. /\ toServer = <<>> /\ toClient = <<>> /\ responses = <<>> /\ unsent = {}
      /\ executed = {} /\ held = NoCall /\ serving = NoCall /\ writer = NoCall
      /\ abandoned = {}
  BY DEF Init
<1>2. Capacity \in Nat /\ MaxNoise \in Nat /\ Len(<<>>) = 0
  BY SdkTransportAssumption
<1>2a. Len(responses) <= Capacity
  BY <1>1, <1>2
<1>2b. /\ toServer \in Seq(Calls) /\ toClient \in Seq(Frames)
       /\ responses \in Seq(Frames)
  BY <1>1
<1>2c. /\ outcome \in [Calls -> {"idle", "pending", "answered", "failed", "sent"}]
       /\ answer \in [Calls -> Frames \cup {NoCall}]
  BY DEF Init
<1>2d. noise \in 0..MaxNoise
  <2>1. noise = 0
    BY DEF Init
  <2>. QED
    BY <1>2, <2>1
<1>2e. /\ done \in BOOLEAN /\ server \in {"up", "down"}
       /\ closing \in {"open", "stdin", "reaped"}
  BY DEF Init
<1>3. TypeOK
  BY <1>1, <1>2a, <1>2b, <1>2c, <1>2d, <1>2e DEF TypeOK
<1>4. OnceInv
  BY <1>1 DEF OnceInv
<1>5. HonestInv
  BY <1>1, SdkTransportAssumption DEF HonestInv, Honest
<1>. QED
  BY <1>3, <1>4, <1>5 DEF TransportInv

(* The callers. *)
LEMMA CallerStep ==
  ASSUME TransportInv, NEW c \in Calls,
         Begin(c) \/ Cancel(c) \/ Lock(c) \/ Write(c) \/ WriteFails(c) \/ Receive(c) \/ GiveUp(c)
  PROVE  TransportInv' /\ [Remote!Next]_<<outcome, answer, executed>>
<1>0. /\ outcome \in [Calls -> {"idle", "pending", "answered", "failed", "sent"}]
      /\ answer \in [Calls -> Frames \cup {NoCall}]
      /\ toServer \in Seq(Calls) /\ toClient \in Seq(Frames) /\ responses \in Seq(Frames)
      /\ unsent \subseteq Pending /\ executed \subseteq Calls /\ Calls \subseteq Frames
      /\ NoCall \notin Calls
  BY SdkTransportAssumption DEF TransportInv, TypeOK, Frames
<1>1. CASE Begin(c)
  <2>1. /\ outcome[c] = "idle" /\ outcome' = [outcome EXCEPT ![c] = "pending"]
        /\ unsent' = unsent \cup {c}
        /\ UNCHANGED <<answer, abandoned, writer, toServer, toClient, readVars, serveVars, closing>>
    BY <1>1 DEF Begin
  <2>2. c \notin executed /\ \A i \in 1..Len(toServer) : toServer[i] # c
    BY <2>1 DEF TransportInv, OnceInv
  <2>3. Pending' = Pending \cup {c}
    BY <1>0, <2>1 DEF Pending
  <2>4. TypeOK'
    BY <1>0, <2>1, <2>3 DEF TransportInv, TypeOK, readVars, serveVars
  <2>5. \A i \in 1..Len(toServer) : toServer[i] \in Calls
    BY <1>0
  <2>6. c \notin Notices \/ c \notin executed
    BY <2>2
  <2>7. OnceInv'
    BY <1>0, <2>1, <2>2, <2>5 DEF TransportInv, OnceInv, serveVars
  <2>8. HonestInv'
    BY <2>1 DEF TransportInv, HonestInv, Honest, readVars, serveVars
  <2>9. Remote!Issue(c)
    BY <2>1 DEF Remote!Issue, serveVars
  <2>. QED
    BY <2>4, <2>7, <2>8, <2>9 DEF TransportInv, Remote!Next
<1>2. CASE Cancel(c) \/ Lock(c)
  <2>1. /\ UNCHANGED <<outcome, answer, unsent, toServer, toClient, readVars, serveVars, closing>>
        /\ writer' \in unsent \cup {NoCall} /\ abandoned' \subseteq Calls \ Notices
    BY <1>2 DEF Cancel, Lock, TransportInv, TypeOK
  <2>2. TypeOK'
    BY <2>1 DEF TransportInv, TypeOK, Pending, readVars, serveVars
  <2>3. OnceInv' /\ HonestInv'
    BY <2>1 DEF TransportInv, OnceInv, HonestInv, Honest, readVars, serveVars
  <2>. QED
    BY <2>1, <2>2, <2>3 DEF TransportInv, serveVars
<1>3. CASE Write(c)
  <2>1. /\ writer = c /\ c \in unsent /\ c \notin executed
        /\ toServer' = Append(toServer, c) /\ writer' = NoCall /\ unsent' = unsent \ {c}
        /\ outcome' = IF c \in Notices THEN [outcome EXCEPT ![c] = "sent"] ELSE outcome
        /\ UNCHANGED <<answer, abandoned, toClient, readVars, serveVars, closing>>
    BY <1>0, <1>3 DEF Write, TransportInv, TypeOK, OnceInv
  <2>2. outcome[c] = "pending"
    BY <1>0, <2>1 DEF Pending
  <2>3. /\ toServer' \in Seq(Calls) /\ Len(toServer') = Len(toServer) + 1
        /\ Len(toServer) \in Nat
        /\ \A i \in 1..Len(toServer) : toServer'[i] = toServer[i]
        /\ toServer'[Len(toServer) + 1] = c
        /\ \A i \in 1..Len(toServer') : i \in 1..Len(toServer) \/ i = Len(toServer) + 1
    BY <1>0, <2>1, AppendElems
  <2>4. /\ outcome' \in [Calls -> {"idle", "pending", "answered", "failed", "sent"}]
        /\ \A d \in Calls : outcome'[d] = outcome[d] \/ (d = c /\ outcome'[d] = "sent")
    BY <1>0, <2>1
  <2>5. unsent' \subseteq Pending'
    BY <1>0, <2>1, <2>4 DEF Pending
  <2>6. TypeOK'
    BY <1>0, <2>1, <2>3, <2>4, <2>5 DEF TransportInv, TypeOK, readVars, serveVars
  <2>7. OnceInv'
    <3>1. \A d \in Calls : outcome[d] # "idle" => outcome'[d] # "idle"
      BY <2>4
    <3>2. \A i \in 1..Len(toServer) :
            /\ toServer[i] \in Calls /\ toServer[i] # c
            /\ toServer[i] \notin unsent' \cup executed /\ outcome'[toServer[i]] # "idle"
      BY <1>0, <2>1, <3>1 DEF TransportInv, OnceInv
    <3>3. c \notin unsent' \cup executed /\ outcome'[c] # "idle"
      BY <1>0, <2>1, <2>2, <3>1
    <3>4. \A i \in 1..Len(toServer') :
            /\ toServer'[i] \notin unsent' \cup executed /\ outcome'[toServer'[i]] # "idle"
      BY <2>3, <3>2, <3>3
    <3>5. ASSUME NEW i \in 1..Len(toServer'), NEW j \in 1..Len(toServer'),
                 toServer'[j] = toServer'[i]
          PROVE  j = i
      <4>1. CASE i \in 1..Len(toServer) /\ j \in 1..Len(toServer)
        BY <2>3, <3>5, <4>1 DEF TransportInv, OnceInv
      <4>2. CASE i = Len(toServer) + 1 /\ j \in 1..Len(toServer)
        BY <2>3, <3>2, <3>5, <4>2
      <4>3. CASE i \in 1..Len(toServer) /\ j = Len(toServer) + 1
        BY <2>3, <3>2, <3>5, <4>3
      <4>. QED
        BY <2>3, <4>1, <4>2, <4>3
    <3>6. executed' = executed /\ \A d \in executed : outcome'[d] # "idle"
      BY <1>0, <2>1, <3>1 DEF TransportInv, OnceInv, serveVars
    <3>7. executed \cap (unsent' \cup Notices) = {}
      BY <2>1 DEF TransportInv, OnceInv
    <3>. QED
      BY <3>4, <3>5, <3>6, <3>7 DEF OnceInv
  <2>8. HonestInv'
    BY <2>1 DEF TransportInv, HonestInv, Honest, readVars, serveVars
  <2>9. CASE c \in Notices
    <3>1. Remote!Return(c)
      BY <2>1, <2>2, <2>9 DEF Remote!Return, serveVars
    <3>. QED
      BY <2>6, <2>7, <2>8, <3>1 DEF TransportInv, Remote!Next
  <2>10. CASE c \notin Notices
    BY <2>1, <2>6, <2>7, <2>8, <2>10 DEF TransportInv, serveVars
  <2>. QED
    BY <2>9, <2>10
<1>4. CASE WriteFails(c) \/ GiveUp(c)
  <2>1. /\ c \in Pending /\ outcome' = [outcome EXCEPT ![c] = "failed"]
        /\ unsent' = unsent \ {c} /\ writer' \in unsent' \cup {NoCall}
        /\ UNCHANGED <<answer, abandoned, toServer, toClient, readVars, serveVars, closing>>
    BY <1>0, <1>4 DEF WriteFails, GiveUp, Waiting, TransportInv, TypeOK
  <2>2. outcome[c] = "pending"
    BY <2>1 DEF Pending
  <2>3. /\ outcome' \in [Calls -> {"idle", "pending", "answered", "failed", "sent"}]
        /\ \A d \in Calls : outcome'[d] = outcome[d] \/ (d = c /\ outcome'[d] = "failed")
    BY <1>0, <2>1
  <2>4. unsent' \subseteq Pending'
    BY <1>0, <2>1, <2>3 DEF Pending
  <2>5. TypeOK'
    BY <1>0, <2>1, <2>3, <2>4 DEF TransportInv, TypeOK, readVars, serveVars
  <2>6. \A i \in 1..Len(toServer) : toServer[i] \in Calls
    BY <1>0
  <2>7. OnceInv'
    BY <1>0, <2>1, <2>3, <2>6 DEF TransportInv, OnceInv, serveVars
  <2>8. HonestInv'
    BY <2>1 DEF TransportInv, HonestInv, Honest, readVars, serveVars
  <2>9. Remote!Return(c)
    BY <2>1, <2>2 DEF Remote!Return, serveVars
  <2>. QED
    BY <2>5, <2>7, <2>8, <2>9 DEF TransportInv, Remote!Next
<1>5. CASE Receive(c)
  <2>1. /\ c \in Pending /\ c \notin unsent /\ responses # <<>> /\ responses' = Tail(responses)
        /\ IF Head(responses) = c
             THEN outcome' = [outcome EXCEPT ![c] = "answered"] /\ answer' = [answer EXCEPT ![c] = c]
             ELSE UNCHANGED <<outcome, answer>>
        /\ UNCHANGED <<unsent, abandoned, writer, toServer, toClient, held, done, serveVars, closing>>
    BY <1>5 DEF Receive, Waiting
  <2>2. /\ Tail(responses) \in Seq(Frames) /\ Len(Tail(responses)) = Len(responses) - 1
        /\ Len(responses) \in Nat \ {0}
        /\ Head(responses) = responses[1] /\ 1 \in 1..Len(responses)
        /\ \A i \in 1..Len(Tail(responses)) :
             Tail(responses)[i] = responses[i + 1] /\ i + 1 \in 1..Len(responses)
    BY <1>0, <2>1, TailElems
  <2>3. Head(responses) = c => c \in executed
    BY <2>2 DEF TransportInv, HonestInv, Honest
  <2>4. /\ outcome' \in [Calls -> {"idle", "pending", "answered", "failed", "sent"}]
        /\ answer' \in [Calls -> Frames \cup {NoCall}]
        /\ \A d \in Calls : outcome'[d] = outcome[d] \/ (d = c /\ outcome'[d] = "answered")
    BY <1>0, <2>1
  <2>5. unsent' \subseteq Pending'
    BY <1>0, <2>1, <2>4 DEF Pending
  <2>6. Len(responses') <= Capacity
    <3>1. Capacity \in Nat /\ Len(responses) <= Capacity
      BY SdkTransportAssumption DEF TransportInv, TypeOK
    <3>. QED
      BY <2>1, <2>2, <3>1
  <2>7. TypeOK'
    BY <1>0, <2>1, <2>2, <2>4, <2>5, <2>6 DEF TransportInv, TypeOK, serveVars
  <2>8. \A i \in 1..Len(toServer) : toServer[i] \in Calls
    BY <1>0
  <2>9. OnceInv'
    BY <1>0, <2>1, <2>4, <2>8 DEF TransportInv, OnceInv, serveVars
  <2>10. HonestInv'
    BY <2>1, <2>2 DEF TransportInv, HonestInv, Honest, serveVars
  <2>11. [Remote!Next]_<<outcome, answer, executed>>
    <3>1. CASE Head(responses) = c
      <4>1. outcome[c] = "pending" /\ c \in executed
        BY <2>1, <2>3, <3>1 DEF Pending
      <4>2. Remote!Return(c)
        BY <2>1, <3>1, <4>1 DEF Remote!Return, serveVars
      <4>. QED
        BY <4>2 DEF Remote!Next
    <3>2. CASE Head(responses) # c
      BY <2>1, <3>2 DEF serveVars
    <3>. QED
      BY <3>1, <3>2
  <2>. QED
    BY <2>7, <2>9, <2>10, <2>11 DEF TransportInv
<1>. QED
  BY <1>1, <1>2, <1>3, <1>4, <1>5

(* The reader moves frames and makes none. *)
LEMMA ReaderStep ==
  ASSUME TransportInv, Reader
  PROVE  TransportInv' /\ UNCHANGED <<outcome, answer, executed>>
<1>0. /\ toClient \in Seq(Frames) /\ responses \in Seq(Frames) /\ held \in Frames \cup {NoCall}
      /\ Len(responses) <= Capacity /\ Capacity \in Nat /\ NoCall \notin Calls
      /\ NoCall \notin Frames
  BY SdkTransportAssumption DEF TransportInv, TypeOK, Frames, Noise
<1>1. CASE ReadFrame
  <2>1. /\ toClient # <<>> /\ toClient' = Tail(toClient)
        /\ done' = (Head(toClient) = Broken)
        /\ held' = IF Head(toClient) \in {Broken, Malformed} THEN NoCall ELSE Head(toClient)
        /\ UNCHANGED <<callVars, toServer, responses, serveVars, closing>>
    BY <1>1 DEF ReadFrame
  <2>2. /\ toClient' \in Seq(Frames) /\ Len(toClient') = Len(toClient) - 1
        /\ Len(toClient) \in Nat \ {0}
        /\ Head(toClient) = toClient[1] /\ 1 \in 1..Len(toClient) /\ Head(toClient) \in Frames
        /\ \A i \in 1..Len(toClient') :
             toClient'[i] = toClient[i + 1] /\ i + 1 \in 1..Len(toClient)
    BY <1>0, <2>1, TailElems
  <2>3. Honest(held)'
    BY <1>0, <2>1, <2>2 DEF TransportInv, HonestInv, Honest, serveVars
  <2>4. TypeOK'
    BY <2>1, <2>2 DEF TransportInv, TypeOK, Pending, callVars, serveVars
  <2>5. OnceInv'
    BY <2>1 DEF TransportInv, OnceInv, callVars, serveVars
  <2>6. HonestInv'
    BY <2>1, <2>2, <2>3 DEF TransportInv, HonestInv, Honest, serveVars
  <2>. QED
    BY <2>1, <2>4, <2>5, <2>6 DEF TransportInv, callVars, serveVars
<1>2. CASE ReadEOF
  <2>1. TypeOK'
    BY <1>2 DEF ReadEOF, TransportInv, TypeOK, Pending, callVars, serveVars
  <2>2. OnceInv' /\ HonestInv'
    BY <1>2 DEF ReadEOF, TransportInv, OnceInv, HonestInv, Honest, callVars, serveVars
  <2>. QED
    BY <1>2, <2>1, <2>2 DEF ReadEOF, TransportInv, callVars, serveVars
<1>3. CASE Deliver
  <2>1. /\ held # NoCall /\ held \in Frames /\ Len(responses) < Capacity
        /\ responses' = Append(responses, held) /\ held' = NoCall
        /\ UNCHANGED <<callVars, toServer, toClient, done, serveVars, closing>>
    BY <1>0, <1>3 DEF Deliver
  <2>2. /\ responses' \in Seq(Frames) /\ Len(responses') = Len(responses) + 1
        /\ Len(responses) \in Nat
        /\ \A i \in 1..Len(responses) : responses'[i] = responses[i]
        /\ responses'[Len(responses) + 1] = held
        /\ \A i \in 1..Len(responses') : i \in 1..Len(responses) \/ i = Len(responses) + 1
    BY <1>0, <2>1, AppendElems
  <2>3. Len(responses') <= Capacity
    BY <1>0, <2>1, <2>2
  <2>4. TypeOK'
    BY <2>1, <2>2, <2>3 DEF TransportInv, TypeOK, Pending, callVars, serveVars
  <2>5. OnceInv'
    BY <2>1 DEF TransportInv, OnceInv, callVars, serveVars
  <2>6. HonestInv'
    BY <1>0, <2>1, <2>2 DEF TransportInv, HonestInv, Honest, serveVars
  <2>. QED
    BY <2>1, <2>4, <2>5, <2>6 DEF TransportInv, callVars, serveVars
<1>. QED
  BY <1>1, <1>2, <1>3 DEF Reader

(* The server executes what it takes from the pipe, and answers that. *)
LEMMA ServerStep ==
  ASSUME TransportInv,
         Server \/ ServerExit \/ Close \/ \E f \in Noise : ServerNoise(f)
  PROVE  TransportInv' /\ [Remote!Next]_<<outcome, answer, executed>>
<1>0. /\ outcome \in [Calls -> {"idle", "pending", "answered", "failed", "sent"}]
      /\ toServer \in Seq(Calls) /\ toClient \in Seq(Frames)
      /\ executed \subseteq Calls /\ Calls \subseteq Frames /\ NoCall \notin Calls
      /\ serving \in Calls \cup {NoCall}
  BY SdkTransportAssumption DEF TransportInv, TypeOK, Frames
<1>1. CASE ServerRead
  <2>1. /\ toServer # <<>> /\ toServer' = Tail(toServer)
        /\ IF Head(toServer) \in Notices
             THEN UNCHANGED <<serving, executed>>
             ELSE serving' = Head(toServer) /\ executed' = executed \cup {Head(toServer)}
        /\ UNCHANGED <<callVars, toClient, readVars, server, noise, closing>>
    BY <1>1 DEF ServerRead
  <2>2. /\ toServer' \in Seq(Calls) /\ Len(toServer') = Len(toServer) - 1
        /\ Len(toServer) \in Nat \ {0}
        /\ Head(toServer) = toServer[1] /\ 1 \in 1..Len(toServer) /\ Head(toServer) \in Calls
        /\ \A i \in 1..Len(toServer') :
             toServer'[i] = toServer[i + 1] /\ i + 1 \in 1..Len(toServer)
    BY <1>0, <2>1, TailElems
  <2> DEFINE c == Head(toServer)
  <2>3. /\ c \in Calls /\ c \notin unsent /\ c \notin executed /\ outcome[c] # "idle"
        /\ executed' \subseteq executed \cup {c} /\ executed \subseteq executed'
        /\ c \in Notices => executed' = executed
    BY <2>1, <2>2 DEF TransportInv, OnceInv
  <2>4. \A i \in 1..Len(toServer') : toServer'[i] # c
    <3>1. \A i \in 1..Len(toServer') : toServer[i + 1] = toServer[1] => i + 1 = 1
      BY <2>2 DEF TransportInv, OnceInv
    <3>2. \A i \in 1..Len(toServer') : i + 1 # 1
      BY <2>2
    <3>. QED
      BY <2>2, <3>1, <3>2
  <2>5. TypeOK'
    BY <1>0, <2>1, <2>2, <2>3 DEF TransportInv, TypeOK, Pending, callVars, readVars
  <2>6. OnceInv'
    <3>1. \A i \in 1..Len(toServer') :
            /\ toServer'[i] \notin unsent \cup executed' /\ outcome[toServer'[i]] # "idle"
      BY <2>2, <2>3, <2>4 DEF TransportInv, OnceInv
    <3>2. ASSUME NEW i \in 1..Len(toServer'), NEW j \in 1..Len(toServer'),
                 toServer'[j] = toServer'[i]
          PROVE  j = i
      <4>1. j + 1 = i + 1
        BY <2>2, <3>2 DEF TransportInv, OnceInv
      <4>. QED
        BY <2>2, <4>1
    <3>3. executed' \cap (unsent \cup Notices) = {}
      BY <2>3 DEF TransportInv, OnceInv
    <3>4. \A d \in executed' : outcome[d] # "idle"
      BY <2>3 DEF TransportInv, OnceInv
    <3>5. unsent' = unsent /\ outcome' = outcome
      BY <2>1 DEF callVars
    <3>. QED
      BY <3>1, <3>2, <3>3, <3>4, <3>5 DEF OnceInv
  <2>7. HonestInv'
    BY <2>1, <2>3 DEF TransportInv, HonestInv, Honest, readVars
  <2>8. [Remote!Next]_<<outcome, answer, executed>>
    <3>1. CASE c \in Notices
      BY <2>1, <3>1 DEF callVars
    <3>2. CASE c \notin Notices
      <4>1. Remote!Execute(c)
        BY <2>1, <2>3, <3>2 DEF Remote!Execute, callVars
      <4>. QED
        BY <2>3, <4>1 DEF Remote!Next
    <3>. QED
      BY <3>1, <3>2
  <2>. QED
    BY <2>5, <2>6, <2>7, <2>8 DEF TransportInv
(* A frame is appended that is noise or the answer of an executed call. *)
<1>2. ASSUME NEW f \in Frames, Honest(f), toClient' = Append(toClient, f),
             serving' \in {serving, NoCall}, noise' \in 0..MaxNoise,
             UNCHANGED <<callVars, toServer, readVars, executed, server, closing>>
      PROVE  TransportInv' /\ UNCHANGED <<outcome, answer, executed>>
  <2>1. /\ toClient' \in Seq(Frames) /\ Len(toClient') = Len(toClient) + 1
        /\ \A i \in 1..Len(toClient) : toClient'[i] = toClient[i]
        /\ toClient'[Len(toClient) + 1] = f
        /\ \A i \in 1..Len(toClient') : i \in 1..Len(toClient) \/ i = Len(toClient) + 1
    BY <1>0, <1>2, AppendElems
  <2>2. TypeOK'
    BY <1>0, <1>2, <2>1 DEF TransportInv, TypeOK, Pending, callVars, readVars
  <2>3. OnceInv'
    BY <1>2 DEF TransportInv, OnceInv, callVars
  <2>4. HonestInv'
    BY <1>0, <1>2, <2>1 DEF TransportInv, HonestInv, Honest, readVars
  <2>. QED
    BY <1>2, <2>2, <2>3, <2>4 DEF TransportInv, callVars
<1>3. CASE ServerReply
  <2>1. /\ serving \in Calls /\ toClient' = Append(toClient, serving) /\ serving' = NoCall
        /\ UNCHANGED <<callVars, toServer, readVars, executed, server, noise, closing>>
    BY <1>0, <1>3 DEF ServerReply
  <2>2. Honest(serving) /\ serving \in Frames /\ noise \in 0..MaxNoise
    BY <1>0, <2>1 DEF TransportInv, HonestInv, TypeOK
  <2>. QED
    BY <1>2, <2>1, <2>2
<1>4. ASSUME NEW f \in Noise, ServerNoise(f)
      PROVE  TransportInv' /\ UNCHANGED <<outcome, answer, executed>>
  <2>1. f \in Frames /\ Honest(f)
    BY SdkTransportAssumption DEF Frames, Noise, Honest
  <2>2. noise' \in 0..MaxNoise
    <3>1. noise \in 0..MaxNoise /\ MaxNoise \in Nat
      BY SdkTransportAssumption DEF TransportInv, TypeOK
    <3>. QED
      BY <1>4, <3>1 DEF ServerNoise
  <2>. QED
    BY <1>2, <1>4, <2>1, <2>2 DEF ServerNoise
<1>5. CASE ServerEOF \/ CloseStdin
  <2>1. /\ UNCHANGED <<callVars, toServer, toClient, readVars, serving, executed, noise>>
        /\ server' \in {"up", "down"} /\ closing' \in {"open", "stdin", "reaped"}
    BY <1>5 DEF ServerEOF, CloseStdin, serveVars, TransportInv, TypeOK
  <2>2. TypeOK'
    BY <2>1 DEF TransportInv, TypeOK, Pending, callVars, readVars
  <2>3. OnceInv' /\ HonestInv'
    BY <2>1 DEF TransportInv, OnceInv, HonestInv, Honest, callVars, readVars
  <2>. QED
    BY <2>1, <2>2, <2>3 DEF TransportInv, callVars
<1>6. ASSUME NEW n \in 0..Len(toClient), toClient' = SubSeq(toClient, 1, n),
             toServer' = <<>>, serving' = NoCall, server' = "down",
             closing' \in {"open", "stdin", "reaped"},
             UNCHANGED <<callVars, readVars, executed, noise>>
      PROVE  TransportInv' /\ UNCHANGED <<outcome, answer, executed>>
  <2>1. /\ toClient' \in Seq(Frames) /\ Len(toClient') = n
        /\ \A i \in 1..n : toClient'[i] = toClient[i] /\ i \in 1..Len(toClient)
    <3>1. Len(toClient) \in Nat
      BY <1>0
    <3>2. n \in Int /\ \A i \in 1..n : i \in 1..Len(toClient) /\ toClient[i] \in Frames
      BY <1>0, <3>1
    <3>3. /\ toClient' \in Seq(Frames)
          /\ Len(toClient') = IF 1 <= n THEN n - 1 + 1 ELSE 0
          /\ \A i \in 1..n - 1 + 1 : toClient'[i] = toClient[1 + i - 1]
      BY <1>6, <3>2, SubSeqProperties
    <3>4. /\ n \in Nat /\ n - 1 + 1 = n /\ (~(1 <= n) => n = 0)
          /\ \A i \in 1..n : 1 + i - 1 = i
      BY <3>1
    <3>5. Len(toClient') = n
      BY <3>3, <3>4
    <3>6. \A i \in 1..n : toClient'[i] = toClient[i]
      BY <3>3, <3>4
    <3>. QED
      BY <3>2, <3>3, <3>5, <3>6
  <2>2. toServer' \in Seq(Calls)
    BY <1>6
  <2>3. TypeOK'
    BY <1>6, <2>1, <2>2 DEF TransportInv, TypeOK, Pending, callVars, readVars
  <2>4. OnceInv'
    BY <1>6 DEF TransportInv, OnceInv, callVars
  <2>5. HonestInv'
    BY <1>0, <1>6, <2>1 DEF TransportInv, HonestInv, Honest, readVars
  <2>. QED
    BY <1>6, <2>3, <2>4, <2>5 DEF TransportInv, callVars
<1>7. CASE ReapServer
  BY <1>6, <1>7 DEF ReapServer
<1>8. CASE ServerExit
  <2>1. /\ server' = "down" /\ serving' = NoCall /\ toServer' = <<>> /\ toServer' \in Seq(Calls)
        /\ UNCHANGED <<callVars, toClient, readVars, executed, noise, closing>>
    BY <1>8 DEF ServerExit
  <2>2. TypeOK'
    BY <2>1 DEF TransportInv, TypeOK, Pending, callVars, readVars
  <2>3. OnceInv'
    BY <2>1 DEF TransportInv, OnceInv, callVars
  <2>4. HonestInv'
    BY <1>0, <2>1 DEF TransportInv, HonestInv, Honest, readVars
  <2>. QED
    BY <2>1, <2>2, <2>3, <2>4 DEF TransportInv, callVars
<1>. QED
  BY <1>1, <1>3, <1>4, <1>5, <1>7, <1>8 DEF Server, Close

LEMMA TransportStep ==
  TransportInv /\ [Next]_vars => TransportInv' /\ [Remote!Next]_<<outcome, answer, executed>>
<1>. SUFFICES ASSUME TransportInv, [Next]_vars
     PROVE  TransportInv' /\ [Remote!Next]_<<outcome, answer, executed>>
  OBVIOUS
<1>1. CASE UNCHANGED vars
  <2>1. TypeOK'
    BY <1>1 DEF vars, callVars, readVars, serveVars, TransportInv, TypeOK, Pending
  <2>2. OnceInv' /\ HonestInv'
    BY <1>1 DEF vars, callVars, readVars, serveVars, TransportInv, OnceInv, HonestInv, Honest
  <2>. QED
    BY <1>1, <2>1, <2>2 DEF vars, callVars, serveVars, TransportInv
<1>2. CASE Next
  BY <1>2, CallerStep, ReaderStep, ServerStep DEF Next, Call
<1>. QED
  BY <1>1, <1>2

(* Every variable of the transport keeps its type. *)
THEOREM TransportTypes == Spec => []TypeOK
<1>1. TransportInv => TypeOK
  BY DEF TransportInv
<1>. QED
  BY <1>1, TransportInit, TransportStep, PTL DEF Spec

(* The transport implements RemoteCalls: a caller gets the reply to its own  *)
(* request or an error, and nothing is executed twice, for any number of     *)
(* overlapping calls, any capacity of the channel of responses and any       *)
(* frames the server writes of its own accord (transport.go:120-230).        *)
THEOREM TransportImplementsCalls == Spec => RepliesToTheirCallers
<1>1. Init => Remote!Init
  BY DEF Init, Remote!Init
<1>. QED
  BY <1>1, TransportInit, TransportStep, PTL DEF Spec, RepliesToTheirCallers, Remote!Spec
=============================================================================
