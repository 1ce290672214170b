------------------------------ MODULE LoginFlow ------------------------------
(* /login in the terminal (internal/tui/model.go) and the browser flow behind *)
(* it (internal/auth/oauth.go): a server on the loopback takes callbacks, each *)
(* by a handler of its own that puts its result in a channel of one place,    *)
(* Complete takes the first or gives up after five minutes, exchanges the     *)
(* code, and then waits for the handlers in Shutdown before it returns.       *)
EXTENDS Integers, Sequences, FiniteSets

CONSTANTS
  Callbacks,      \* requests to /callback, by number
  MaxFlows        \* bound on the logins begun

ASSUME LoginAssumption == 0 \notin Callbacks

VARIABLES
  screen,         \* m.state
  pick,           \* m.loginProvider
  flow,           \* what Complete is doing
  result,         \* resultCh: the callbacks whose result waits
  taken,          \* the callback Complete took, or 0
  handler,        \* each callback: what it brought, and how far its handler is
  ending,        \* what Complete returns once the server is shut down
  config,         \* the credential the loop uses: provider and method
  flows           \* logins begun

loginVars == <<screen, pick, flow, result, taken, handler, ending, config, flows>>

LoginProviders == {"anthropic", "openai"}
(* A code with the state of this flow, a code with another, an error.       *)
Brought == {"own_code", "foreign_code", "error"}
NotSent == [brought |-> "none", at |-> "none"]

LoginTypeOK ==
  /\ screen \in {"input", "provider", "method", "api_key", "oauth", "quit"}
  /\ pick \in LoginProviders /\ flow \in {"none", "waiting", "exchange", "shutdown"}
  /\ Len(result) <= 1 /\ taken \in Callbacks \cup {0}
  /\ \A k \in Callbacks : handler[k] = NotSent
                          \/ handler[k] \in [brought : Brought, at : {"sending", "done"}]
  /\ ending \in {"none", "token", "failed"}
  /\ config \in [provider : LoginProviders \cup {"none"}, method : {"api_key", "oauth", "none"}]

LoginInit ==
  /\ screen = "input" /\ pick = "anthropic" /\ flow = "none" /\ result = <<>> /\ taken = 0
  /\ handler = [k \in Callbacks |-> NotSent] /\ ending = "none"
  /\ config = [provider |-> "none", method |-> "none"] /\ flows = 0

-----------------------------------------------------------------------------
flowVars == <<flow, result, taken, handler, ending>>

SlashLogin ==
  /\ screen = "input" /\ flows < MaxFlows /\ flows' = flows + 1 /\ screen' = "provider"
  /\ UNCHANGED <<pick, flowVars, config>>

PickProvider ==
  /\ screen = "provider"
  /\ \E v \in LoginProviders : pick' = v /\ screen' = IF v = "anthropic" THEN "method" ELSE "api_key"
  /\ UNCHANGED <<flowVars, config, flows>>

PickMethod ==
  /\ screen = "method"
  /\ \/ screen' = "api_key" /\ UNCHANGED flowVars
     \/ /\ screen' = "oauth" /\ flow' = "waiting" /\ taken' = 0 /\ result' = <<>> /\ ending' = "none"
        /\ handler' = [k \in Callbacks |-> NotSent]
     \/ screen' = "input" /\ UNCHANGED flowVars      \* PrepareOAuthFlow failed
  /\ UNCHANGED <<pick, config, flows>>

(* Escape goes back one screen, but not from the browser flow.              *)
Escape ==
  /\ screen \in {"provider", "method", "api_key"}
  /\ screen' = IF screen = "method" THEN "provider" ELSE "input"
  /\ UNCHANGED <<pick, flowVars, config, flows>>

(* An empty key, or one that cannot be saved, changes nothing.              *)
EnterKey ==
  /\ screen = "api_key" /\ screen' = "input"
  /\ config' \in {config, [provider |-> pick, method |-> "api_key"]}
  /\ UNCHANGED <<pick, flowVars, flows>>

CtrlC ==
  /\ screen \notin {"input", "quit"} /\ screen' = "quit"
  /\ UNCHANGED <<pick, flowVars, config, flows>>

(* The browser, or whatever calls the port.                                 *)
CallbackArrives(k) ==
  /\ flow \in {"waiting", "exchange"} /\ screen # "quit" /\ handler[k] = NotSent
  /\ \E b \in Brought : handler' = [handler EXCEPT ![k] = [brought |-> b, at |-> "sending"]]
  /\ UNCHANGED <<screen, pick, flow, result, taken, ending, config, flows>>

MutHandlerSends(k) ==   \* the channel has no room of its own
  /\ handler[k].at = "sending" /\ result = <<>> /\ screen # "quit" /\ flow = "waiting"
  /\ result' = <<k>> /\ handler' = [handler EXCEPT ![k].at = "done"]
  /\ UNCHANGED <<screen, pick, flow, taken, ending, config, flows>>

HandlerSends(k) ==
  /\ handler[k].at = "sending" /\ result = <<>> /\ screen # "quit"
  /\ result' = <<k>> /\ handler' = [handler EXCEPT ![k].at = "done"]
  /\ UNCHANGED <<screen, pick, flow, taken, ending, config, flows>>

MutTakeResult ==        \* the state is not compared
  /\ flow = "waiting" /\ result # <<>> /\ screen # "quit"
  /\ taken' = Head(result) /\ result' = <<>>
  /\ IF handler[Head(result)].brought # "error" THEN flow' = "exchange" /\ UNCHANGED ending
     ELSE flow' = "shutdown" /\ ending' = "failed"
  /\ UNCHANGED <<screen, pick, handler, config, flows>>

(* The first result decides, whoever brought it.                            *)
TakeResult ==
  /\ flow = "waiting" /\ result # <<>> /\ screen # "quit"
  /\ taken' = Head(result) /\ result' = <<>>
  /\ IF handler[Head(result)].brought = "own_code" THEN flow' = "exchange" /\ UNCHANGED ending
     ELSE flow' = "shutdown" /\ ending' = "failed"
  /\ UNCHANGED <<screen, pick, handler, config, flows>>

FlowTimeout ==
  /\ flow = "waiting" /\ screen # "quit" /\ flow' = "shutdown" /\ ending' = "failed"
  /\ UNCHANGED <<screen, pick, result, taken, handler, config, flows>>

ExchangeCode ==
  /\ flow = "exchange" /\ screen # "quit" /\ flow' = "shutdown" /\ ending' \in {"token", "failed"}
  /\ UNCHANGED <<screen, pick, result, taken, handler, config, flows>>

(* srv.Shutdown waits for every handler; the token is saved and used then.  *)
Shutdown ==
  /\ flow = "shutdown" /\ screen = "oauth" /\ \A k \in Callbacks : handler[k].at # "sending"
  /\ flow' = "none" /\ screen' = "input"
  /\ config' \in IF ending = "token" THEN {config, [provider |-> "anthropic", method |-> "oauth"]} ELSE {config}
  /\ UNCHANGED <<pick, result, taken, handler, ending, flows>>

LoginNext ==
  \/ SlashLogin \/ PickProvider \/ PickMethod \/ Escape \/ EnterKey \/ CtrlC
  \/ \E k \in Callbacks : CallbackArrives(k) \/ HandlerSends(k)
  \/ TakeResult \/ FlowTimeout \/ ExchangeCode \/ Shutdown

(* The timer fires, the token endpoint answers or refuses, and goroutines   *)
(* run; the user and the browser need do nothing.                           *)
LoginFairness ==
  /\ WF_loginVars(FlowTimeout) /\ WF_loginVars(TakeResult) /\ WF_loginVars(ExchangeCode)
  /\ WF_loginVars(Shutdown) /\ \A k \in Callbacks : WF_loginVars(HandlerSends(k))

LoginSpec == LoginInit /\ [][LoginNext]_loginVars /\ LoginFairness

-----------------------------------------------------------------------------
(* A code is exchanged, and its token used, only when it came back with the *)
(* state of this flow as the first answer, whatever else called the port    *)
(* (oauth.go:89-133, 265-302).                                              *)
OnlyOwnCode ==
  flow = "exchange" \/ ending = "token" => taken # 0 /\ handler[taken].brought = "own_code"

Sent == {k \in Callbacks : handler[k] # NotSent}

(* The browser flow comes back to the prompt, or the user quits, as long as *)
(* the port is called at most once: more calls than the channel and Complete *)
(* take leave a handler that Shutdown waits for (oauth.go:87-107, 283).     *)
LoginReturns == screen = "oauth" ~> (screen # "oauth" \/ Cardinality(Sent) > 1)
=============================================================================
