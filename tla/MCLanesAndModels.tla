-------------------------- MODULE MCLanesAndModels --------------------------
(* The decisions about lanes (branch locks, events, stale branches, the     *)
(* policy engine, trusted roots) and what stands between the loop and the   *)
(* models (the converter of Responses streams, the parser of frames, the    *)
(* registry of models, the prompt cache), one component at a time. The      *)
(* parts share no state; the ones not at work stay at one initial state. In *)
(* one part, which has no steps, histories are made into requests.          *)
EXTENDS BranchLock, LaneEvents, LanePolicy,
        ResponsesStream, SseFrames, ModelCaches, TLC

VARIABLE part

MCPaths == {<<"src">>, <<"src", "api">>, <<"srcgen">>}
MCFiles == {<<"src", "api", "a.go">>, <<"src", "b.go">>, <<"srcgen", "a.go">>}
MCDirectories == {<<>>, <<"src">>, <<"src", "api">>, <<"srcgen">>}

R(c, a, p) == [condition |-> c, action |-> a, priority |-> p]
MCRuleLists ==
  {<<R(<<"and", <<<<"green_at", 2>>, <<"scoped_diff">>, <<"review_passed">>>> >>, <<"merge_to_dev">>, 20),
     R(<<"stale_branch">>, <<"merge_forward">>, 10),
     R(<<"startup_blocked">>, <<"recover_once", "escalate">>, 5),
     R(<<"lane_completed">>, <<"closeout_lane", "cleanup_session">>, 20)>>,
   <<R(<<"or", <<<<"timed_out", 2>>, <<"startup_blocked">>>> >>, <<"notify">>, 1),
     R(<<"lane_reconciled">>, <<"reconcile">>, 1),
     R(<<"and", <<>> >>, <<"block">>, 0)>>}

MCLower == [n \in {"opus", "Best"} |-> IF n = "opus" THEN "opus" ELSE "best"]
MCCuratedAlias == [a \in {"best", "opus", "fast"} |-> IF a = "fast" THEN "unset" ELSE "opus"]

lanesVars == <<lockVars, laneVars, staleVars, policyVars, trustVars>>
modelsVars == <<responseVars, sseVars, registryVars, promptVars>>
CallSymmetry == Permutations(CallItems)

LanesAndModelsInit ==
  /\ part \in {"lock", "events", "stale", "policy", "trust", "responses", "requests", "frames", "registry", "cache"}
  /\ LocksInit /\ LogInit /\ StaleInit /\ PolicyInit /\ TrustInit
  /\ ResponseInit /\ SseInit /\ RegistryInit /\ PromptInit
  /\ part # "stale" => stalePolicy = "block"
  /\ part # "policy" => given = CHOOSE list \in RuleLists : TRUE
  /\ part # "responses" => style = "sequential"

LanesNext ==
  \/ part = "lock" /\ LocksNext /\ UNCHANGED <<laneVars, staleVars, policyVars, trustVars>>
  \/ part = "events" /\ LogNext /\ UNCHANGED <<lockVars, staleVars, policyVars, trustVars>>
  \/ part = "stale" /\ StaleNext /\ UNCHANGED <<lockVars, laneVars, policyVars, trustVars>>
  \/ part = "policy" /\ PolicyNext /\ UNCHANGED <<lockVars, laneVars, staleVars, trustVars>>
  \/ part = "trust" /\ TrustNext /\ UNCHANGED <<lockVars, laneVars, staleVars, policyVars>>

ModelsNext ==
  \/ part = "responses" /\ ResponseNext /\ UNCHANGED <<sseVars, registryVars, promptVars>>
  \/ part = "frames" /\ SseNext /\ UNCHANGED <<responseVars, registryVars, promptVars>>
  \/ part = "registry" /\ RegistryNext /\ UNCHANGED <<responseVars, sseVars, promptVars>>
  \/ part = "cache" /\ PromptNext /\ UNCHANGED <<responseVars, sseVars, registryVars>>

LanesAndModelsNext ==
  /\ UNCHANGED part
  /\ \/ LanesNext /\ UNCHANGED modelsVars
     \/ ModelsNext /\ UNCHANGED lanesVars

LanesAndModelsSpec ==
  LanesAndModelsInit /\ [][LanesAndModelsNext]_<<part, lanesVars, modelsVars>>

(* Every variable of the part at work keeps its type (internal/runtime/lane, *)
(* policy, trust; internal/api, internal/apikit); the others do not change.  *)
PartTypeOK ==
  CASE part = "lock" -> LocksTypeOK
    [] part = "events" -> LogTypeOK
    [] part = "stale" -> StaleTypeOK
    [] part = "policy" -> PolicyTypeOK
    [] part = "trust" -> TrustTypeOK
    [] part \in {"responses", "requests"} -> ResponseTypeOK
    [] part = "frames" -> SseTypeOK
    [] part = "registry" -> RegistryTypeOK
    [] part = "cache" -> PromptTypeOK

(* What is found out about lanes is so: the log reads the same in either    *)
(* way, and a check of a branch that moves meanwhile says what it saw       *)
(* (internal/runtime/lane).                                                 *)
ChecksAreHonest ==
  /\ PartTypeOK
  /\ part = "events" => ReadersAgree
  /\ part = "stale" => FreshWasFresh /\ FixesAreNamed

(* What was decided about lanes stays so: the actions of a policy in their  *)
(* order and for as long as their reasons last, and the denial of a root    *)
(* (internal/runtime/policy, trust).                                        *)
DecisionsStand == DecidedInOrder /\ NothingTakenBack /\ DenialsStand

(* What a model sent is what the loop gets: its blocks, its calls and their *)
(* arguments, from a body cut anywhere; and what the loop answers is what   *)
(* the model gets (responses.go:283-353, 445-792, sse.go:51-180).           *)
StreamsAreRebuilt ==
  /\ part = "responses" => BlocksAreWellFormed /\ ArgumentsOnce /\ RebuiltAsSent
  /\ part = "requests" => RequestsArePaired
  /\ part = "frames" => CutsDoNotShow /\ NothingIsLost

(* What is kept of models and answers is as fresh as promised               *)
(* (model_registry_live.go:154-274, prompt_cache.go:120-300).               *)
KeptDataIsFresh ==
  /\ part = "registry" => DataIsRecent /\ CuratedSurvive
  /\ part = "cache" => HitsAreFresh
=============================================================================
