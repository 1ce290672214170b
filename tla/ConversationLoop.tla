-------------------------- MODULE ConversationLoop --------------------------
(***************************************************************************)
(* The agentic loop of internal/runtime/conversation.go together with the  *)
(* terminal front end that drives it (internal/tui/model.go).              *)
(*                                                                         *)
(* A user prompt starts one goroutine that runs SendMessageStreaming: it   *)
(* appends the prompt, compacts the history when it looks too long, and    *)
(* then alternates model responses and tool executions until a response    *)
(* stops for another reason than "tool_use".  The goroutine talks to the   *)
(* front end through a bounded channel of TurnEvents and, for permission   *)
(* and ask_user questions, waits for a reply on a channel of its own.      *)
(*                                                                         *)
(* A tool call is [id, kind]; kinds stand for a tool with a class of       *)
(* inputs, so that a permission rule can tell two inputs of one tool       *)
(* apart.  A message keeps its role and the identifiers of the tool_use    *)
(* and tool_result blocks it carries; every message weighs one token.      *)
(***************************************************************************)
EXTENDS Naturals, Sequences, FiniteSets

CONSTANTS
  Kinds,        \* classes of tool calls
  ToolOf,       \* the tool a kind of call names
  RuleOf,       \* what the ruleset says of a kind: allow, deny, ask or none
  AskUser,      \* the tool "ask_user", answered by the front end
  PermMode,     \* none (no PermManager), plan, prompt or bypass
  Streaming,    \* SendMessageStreaming with a front end, or SendMessage
  MayCancel,    \* whether the caller's context can be cancelled
  ChanCap,      \* capacity of the TurnEvent channel
  Threshold,    \* tokens from which the history is compacted
  KeepRecent,   \* messages a compaction keeps verbatim
  MaxCalls,     \* bound: tool calls in one response
  MaxRounds,    \* bound: responses in one turn
  MaxTurns      \* bound: user turns

ASSUME LoopAssumption ==
  /\ ToolOf \in [Kinds -> STRING]
  /\ RuleOf \in [Kinds -> {"allow", "deny", "ask", "none"}]
  /\ AskUser \in STRING
  /\ PermMode \in {"none", "plan", "prompt", "bypass"}
  /\ Streaming \in BOOLEAN /\ MayCancel \in BOOLEAN
  /\ ChanCap \in Nat \ {0}
  /\ Threshold \in Nat /\ KeepRecent \in Nat
  /\ MaxCalls \in Nat /\ MaxRounds \in Nat /\ MaxTurns \in Nat

VARIABLES
  msgs,       \* loop.Session.Messages
  lost,       \* audit: ids of tool calls whose turn ended before their results
  nextId,     \* the next tool_use id the provider hands out
  pc,         \* where the turn's goroutine is
  resp,       \* the response being executed: its calls and its stop reason
  results,    \* ids of the tool results gathered for resp
  round,      \* responses received in this turn
  turns,      \* user turns started
  cancelled,  \* the turn's context is done
  turnInput,  \* totalInput of SendMessageStreaming
  lastInput,  \* loop.Compaction.LastInputTokens
  peak,       \* audit: the largest input reported for one request
  remembered, \* tools in the PermManager's session cache
  events,     \* the TurnEvent channel
  closed,     \* close(ch) was called
  ui,         \* the front end's state
  ask,        \* the call the front end is asking about
  replies,    \* answers sitting in reply channels
  executed,   \* audit: calls handed to ExecuteTool
  grants      \* audit: calls and tools the user allowed, tools hooks allowed

histVars == <<msgs, lost, nextId>>
turnVars == <<resp, results, round, turns>>
tokVars  == <<turnInput, lastInput, peak>>
permVars == <<remembered, executed, grants>>
uiVars   == <<ui, ask>>
chanVars == <<events, closed>>
vars == <<histVars, pc, turnVars, cancelled, tokVars, permVars, chanVars,
          uiVars, replies>>

NoCall == [id |-> 0, kind |-> "none"]
NoResp == [calls |-> <<>>, stop |-> "none"]
Calls  == [id : Nat, kind : Kinds]

Message(role, uses, res) == [role |-> role, uses |-> uses, results |-> res]
Prompt == Message("user", <<>>, <<>>)

(* The steps in which a response's tool calls are being worked off. *)
ToolSteps == {"tool", "permSend", "permWait", "askSend", "askWait",
              "startSend", "exec", "doneSend"}
(* The steps after the goroutine's last use of the session. *)
Finished == {"idle", "close"}
Steps == ToolSteps \cup Finished \cup
         {"hook", "compact", "request", "stream", "finish", "usageSend",
          "lastSend", "error"}

Init ==
  /\ msgs = <<>> /\ lost = {} /\ nextId = 1
  /\ pc = "idle" /\ resp = NoResp /\ results = <<>> /\ round = 0 /\ turns = 0
  /\ cancelled = FALSE
  /\ turnInput = 0 /\ lastInput = 0 /\ peak = 0
  /\ remembered = {} /\ executed = {}
  /\ grants = [calls |-> {}, tools |-> {}, hooked |-> {}]
  /\ events = <<>> /\ closed = FALSE
  /\ ui = "input" /\ ask = NoCall /\ replies = {}

-----------------------------------------------------------------------------
(* The channel.  A send waits for room; SendMessage has no channel. *)

(* An event carries the call it is about, and with it its reply channel. *)
Event(type, call) == [type |-> type, call |-> call]
HasRoom == ~Streaming \/ Len(events) < ChanCap
Send(type, call) ==
  /\ HasRoom
  /\ events' = IF Streaming THEN Append(events, Event(type, call)) ELSE events
  /\ UNCHANGED closed

Goto(from, to) == pc = from /\ pc' = to

Ids(calls) == [i \in 1..Len(calls) |-> calls[i].id]
SeqElems(s) == {s[i] : i \in 1..Len(s)}

(* The call being worked off: results are gathered in the order of calls. *)
Current == resp.calls[Len(results) + 1]
Pending == Len(results) < Len(resp.calls)

(* Mutant: the results gathered so far are kept when the turn is abandoned. *)
MutAbandon ==
  /\ cancelled
  /\ pc' = "error"
  /\ msgs' = IF results = <<>> THEN msgs ELSE Append(msgs, Message("user", <<>>, results))
  /\ lost' = lost \cup SeqElems(Ids(resp.calls))
  /\ UNCHANGED <<nextId, turnVars, cancelled, tokVars, permVars, chanVars, uiVars, replies>>

(* select { case events <- ...: case <-ctx.Done(): return ctx.Err() } *)
Abandon ==
  /\ cancelled
  /\ pc' = "error"
  /\ lost' = lost \cup SeqElems(Ids(resp.calls))
  /\ UNCHANGED <<msgs, nextId, turnVars, cancelled, tokVars, permVars,
                 chanVars, uiVars, replies>>

-----------------------------------------------------------------------------
(* The front end. *)

(* handleSubmit / startMessage: only stateInput takes a prompt; the channel *)
(* is a new one and the turn runs in its own goroutine.                     *)
StartMessage ==
  /\ ui = "input" /\ turns < MaxTurns
  /\ ui' = "busy" /\ turns' = turns + 1
  /\ pc' = "hook" /\ cancelled' = FALSE
  /\ events' = <<>> /\ closed' = FALSE
  /\ turnInput' = 0 /\ round' = 0 /\ resp' = NoResp /\ results' = <<>>
  /\ UNCHANGED <<histVars, lastInput, peak, permVars, ask, replies>>

(* Mutant: /clear does not wait for the input state. *)
MutClearSession ==
  /\ ui \in {"input", "busy"} /\ msgs # <<>>
  /\ msgs' = <<>>
  /\ UNCHANGED <<lost, nextId, pc, turnVars, cancelled, tokVars, permVars,
                 chanVars, uiVars, replies>>

(* /clear *)
ClearSession ==
  /\ ui = "input" /\ msgs # <<>>
  /\ msgs' = <<>>
  /\ UNCHANGED <<lost, nextId, pc, turnVars, cancelled, tokVars, permVars,
                 chanVars, uiVars, replies>>

(* Mutants: Usage gives the prompt back; a permission event is not handled. *)
MutReceiveUsage ==
  /\ Streaming /\ ui = "busy" /\ events # <<>>
  /\ LET e == Head(events) IN
       CASE e.type = "permAsk" -> ui' = "permission" /\ ask' = e.call
         [] e.type = "askUser" -> ui' = "askUser" /\ ask' = e.call
         [] e.type \in {"usage", "done", "error"} -> ui' = "input" /\ UNCHANGED ask
         [] OTHER -> UNCHANGED uiVars
  /\ events' = Tail(events)
  /\ UNCHANGED <<histVars, pc, turnVars, cancelled, tokVars, permVars, closed, replies>>
MutReceiveNoDialog ==
  /\ Streaming /\ ui = "busy" /\ events # <<>>
  /\ LET e == Head(events) IN
       CASE e.type = "askUser" -> ui' = "askUser" /\ ask' = e.call
         [] e.type \in {"done", "error"} -> ui' = "input" /\ UNCHANGED ask
         [] OTHER -> UNCHANGED uiVars
  /\ events' = Tail(events)
  /\ UNCHANGED <<histVars, pc, turnVars, cancelled, tokVars, permVars, closed, replies>>

(* waitForStream and the message it turns into. *)
Receive ==
  /\ Streaming /\ ui = "busy" /\ events # <<>>
  /\ LET e == Head(events) IN
       CASE e.type = "permAsk" -> ui' = "permission" /\ ask' = e.call
         [] e.type = "askUser" -> ui' = "askUser" /\ ask' = e.call
         [] e.type \in {"done", "error"} -> ui' = "input" /\ UNCHANGED ask
         [] OTHER -> UNCHANGED uiVars
  /\ events' = Tail(events)
  /\ UNCHANGED <<histVars, pc, turnVars, cancelled, tokVars, permVars, closed,
                 replies>>

(* Mutant: the dialog stays open after its key. *)
MutAnswerPermission(d) ==
  /\ ui = "permission"
  /\ replies' = replies \cup {[call |-> ask, reply |-> d]}
  /\ grants' = [grants EXCEPT
       !.calls = IF d = "deny" THEN @ ELSE @ \cup {ask.id},
       !.tools = IF d = "always" THEN @ \cup {ToolOf[ask.kind]} ELSE @]
  /\ UNCHANGED <<histVars, pc, turnVars, cancelled, tokVars, remembered,
                 executed, chanVars, uiVars>>

(* handlePermissionKey: y, a or n. *)
AnswerPermission(d) ==
  /\ ui = "permission"
  /\ replies' = replies \cup {[call |-> ask, reply |-> d]}
  /\ grants' = [grants EXCEPT
       !.calls = IF d = "deny" THEN @ ELSE @ \cup {ask.id},
       !.tools = IF d = "always" THEN @ \cup {ToolOf[ask.kind]} ELSE @]
  /\ ui' = "busy" /\ ask' = NoCall
  /\ UNCHANGED <<histVars, pc, turnVars, cancelled, tokVars, remembered,
                 executed, chanVars>>

(* Mutant: leaving the question with Esc sends no answer. *)
MutAnswerQuestion ==
  /\ ui = "askUser"
  /\ ui' = "busy" /\ ask' = NoCall
  /\ UNCHANGED <<histVars, pc, turnVars, cancelled, tokVars, permVars, chanVars, replies>>

(* handleAskUserKey: Enter sends the text, Esc the empty string. *)
AnswerQuestion ==
  /\ ui = "askUser"
  /\ replies' = replies \cup {[call |-> ask, reply |-> "text"]}
  /\ ui' = "busy" /\ ask' = NoCall
  /\ UNCHANGED <<histVars, pc, turnVars, cancelled, tokVars, permVars, chanVars>>

(* The caller's context is cancelled while the turn runs. *)
Cancel ==
  /\ MayCancel /\ ~cancelled /\ pc \notin Finished
  /\ cancelled' = TRUE
  /\ UNCHANGED <<histVars, pc, turnVars, tokVars, permVars, chanVars, uiVars,
                 replies>>

-----------------------------------------------------------------------------
(* SendMessageStreaming: the prompt, compaction and the end of the turn.   *)

(* UserPromptSubmit hook, then the user message. *)
SubmitPrompt(blocked) ==
  /\ Goto("hook", IF blocked THEN "error" ELSE "compact")
  /\ msgs' = IF blocked THEN msgs ELSE Append(msgs, Prompt)
  /\ UNCHANGED <<lost, nextId, turnVars, cancelled, tokVars, permVars,
                 chanVars, uiVars, replies>>

(* Tool results travel in messages of role user and count as user turns. *)
CountRealUserTurns(m) == Cardinality({i \in 1..Len(m) : m[i].role = "user"})

ShouldCompact ==
  /\ CountRealUserTurns(msgs) >= 2
  /\ (IF lastInput > 0 THEN lastInput ELSE Len(msgs)) >= Threshold

(* CompactSession: a continuation message and the last KeepRecent messages. *)
CompactedMessages ==
  LET keep == IF KeepRecent > Len(msgs) THEN Len(msgs) ELSE KeepRecent
  IN  <<Message("system", <<>>, <<>>)>>
        \o SubSeq(msgs, Len(msgs) - keep + 1, Len(msgs))

(* tryCompact: a PreCompact block or a failed summary leaves the history. *)
TryCompact(ok) ==
  /\ Goto("compact", "request")
  /\ IF ShouldCompact /\ ok
       THEN msgs' = CompactedMessages
       ELSE UNCHANGED msgs
  /\ UNCHANGED <<lost, nextId, turnVars, cancelled, turnInput, lastInput, peak,
                 permVars, chanVars, uiVars, replies>>

(* The counters, then Usage and Done; SendMessage keeps no counters. *)
FinishTurn ==
  /\ Goto("finish", IF Streaming THEN "usageSend" ELSE "close")
  /\ lastInput' = IF Streaming THEN turnInput ELSE lastInput
  /\ UNCHANGED <<histVars, turnVars, cancelled, turnInput, peak,
                 permVars, chanVars, uiVars, replies>>

SendUsage ==
  /\ Goto("usageSend", "lastSend")
  /\ Send("usage", NoCall)
  /\ UNCHANGED <<histVars, turnVars, cancelled, tokVars, permVars, uiVars, replies>>

SendDone ==
  /\ Goto("lastSend", "close")
  /\ Send("done", NoCall)
  /\ UNCHANGED <<histVars, turnVars, cancelled, tokVars, permVars, uiVars, replies>>

(* Mutant: a cancelled turn returns without an error event. *)
MutSendError ==
  /\ Goto("error", "close")
  /\ IF cancelled THEN UNCHANGED chanVars ELSE Send("error", NoCall)
  /\ UNCHANGED <<histVars, turnVars, cancelled, tokVars, permVars, uiVars, replies>>

SendError ==
  /\ Goto("error", "close")
  /\ Send("error", NoCall)
  /\ UNCHANGED <<histVars, turnVars, cancelled, tokVars, permVars, uiVars, replies>>

(* defer close(ch); without a front end the caller gets its result. *)
CloseChannel ==
  /\ Goto("close", "idle")
  /\ closed' = TRUE
  /\ ui' = IF Streaming THEN ui ELSE "input"
  /\ UNCHANGED <<histVars, turnVars, cancelled, tokVars, permVars, events, ask,
                 replies>>

-----------------------------------------------------------------------------
(* runOneTurn(Streaming): one request and its response. *)

Request(ok) ==
  /\ Goto("request", IF ok THEN "stream" ELSE "error")
  /\ UNCHANGED <<histVars, turnVars, cancelled, tokVars, permVars, chanVars,
                 uiVars, replies>>

StreamDelta ==
  /\ pc = "stream" /\ Streaming
  /\ \/ Send("text", NoCall) /\ UNCHANGED <<pc, cancelled>>
     \/ cancelled /\ pc' = "error" /\ UNCHANGED <<cancelled, chanVars>>
  /\ UNCHANGED <<histVars, turnVars, tokVars, permVars, uiVars, replies>>

(* An error event ends the turn before anything of the response is kept. *)
StreamError ==
  /\ Goto("stream", "error")
  /\ UNCHANGED <<histVars, turnVars, cancelled, tokVars, permVars, chanVars,
                 uiVars, replies>>

(* The stream is drained.  "other" stands for end_turn, for max_tokens, and *)
(* for the empty stop reason of a stream that ends without message_delta:   *)
(* the provider's goroutine closes the channel on a done context or an      *)
(* early end of the body.                                                   *)
Numbered(kinds) == [i \in 1..Len(kinds) |-> [id |-> nextId + i - 1, kind |-> kinds[i]]]

StreamEnd(kinds, text, stop) ==
  /\ pc = "stream"
  /\ stop = "tool_use" => kinds # <<>> /\ round < MaxRounds
  /\ LET calls == Numbered(kinds) IN
       /\ resp' = [calls |-> calls, stop |-> stop]
       /\ msgs' = IF text \/ kinds # <<>>
                    THEN Append(msgs, Message("assistant", Ids(calls), <<>>))
                    ELSE msgs
       /\ lost' = IF stop = "tool_use" THEN lost
                                       ELSE lost \cup SeqElems(Ids(calls))
  /\ nextId' = nextId + Len(kinds)
  /\ round' = round + 1 /\ results' = <<>>
  /\ turnInput' = turnInput + Len(msgs)
  /\ peak' = IF Len(msgs) > peak THEN Len(msgs) ELSE peak
  /\ pc' = IF stop = "tool_use" THEN "tool" ELSE "finish"
  /\ UNCHANGED <<turns, cancelled, lastInput, permVars, chanVars,
                 uiVars, replies>>

(* PermManager.CheckCtx through its rule path: cache, ruleset, ask. *)
Check(kind) ==
  IF ~Streaming \/ PermMode \in {"none", "bypass"} THEN "allow"
  ELSE IF PermMode = "plan" THEN "plan"
  ELSE IF ToolOf[kind] \in remembered THEN "allow"
  ELSE IF RuleOf[kind] = "none" THEN "ask"
  ELSE RuleOf[kind]

(* Where an allowed call goes: ask_user is answered by the front end. *)
Dispatch(kind) ==
  IF Streaming /\ ToolOf[kind] = AskUser THEN "askSend"
  ELSE IF Streaming THEN "startSend" ELSE "exec"

Answered(to) ==
  /\ results' = Append(results, Current.id)
  /\ pc' = to

(* The permission check at the head of the per-call loop. *)
CheckCall ==
  /\ pc = "tool" /\ Pending
  /\ LET d == Check(Current.kind) IN
       CASE d \in {"deny", "plan"} -> Answered("tool")
         [] d = "ask" -> pc' = "permSend" /\ UNCHANGED results
         [] OTHER -> pc' = Dispatch(Current.kind) /\ UNCHANGED results
  /\ UNCHANGED <<histVars, resp, round, turns, cancelled, tokVars, permVars,
                 chanVars, uiVars, replies>>

AskPermission ==
  \/ /\ Goto("permSend", "permWait")
     /\ Send("permAsk", Current)
     /\ UNCHANGED <<histVars, turnVars, cancelled, tokVars, permVars, uiVars, replies>>
  \/ pc = "permSend" /\ Abandon

(* Mutants: the goroutine takes whatever answer there is (one reply channel *)
(* for all questions); the manager remembers the input instead of the tool. *)
MutTakeAnyDecision ==
  \/ /\ pc = "permWait"
     /\ \E r \in replies :
          /\ replies' = replies \ {r}
          /\ IF r.reply = "deny"
               THEN Answered("tool")
               ELSE pc' = Dispatch(Current.kind) /\ UNCHANGED results
          /\ remembered' = IF r.reply = "always"
                             THEN remembered \cup {ToolOf[Current.kind]}
                             ELSE remembered
     /\ UNCHANGED <<histVars, resp, round, turns, cancelled, tokVars, executed,
                    grants, chanVars, uiVars>>
  \/ pc = "permWait" /\ Abandon
MutRememberInput ==
  /\ pc = "permWait"
  /\ \E r \in replies :
       /\ r.call = Current /\ r.reply # "text"
       /\ replies' = replies \ {r}
       /\ IF r.reply = "deny"
            THEN Answered("tool")
            ELSE pc' = Dispatch(Current.kind) /\ UNCHANGED results
       /\ remembered' = IF r.reply = "always"
                          THEN remembered \cup {Current.kind}
                          ELSE remembered
  /\ UNCHANGED <<histVars, resp, round, turns, cancelled, tokVars, executed,
                 grants, chanVars, uiVars>>

TakeDecision ==
  \/ /\ pc = "permWait"
     /\ \E r \in replies :
          /\ r.call = Current /\ r.reply # "text"
          /\ replies' = replies \ {r}
          /\ IF r.reply = "deny"
               THEN Answered("tool")
               ELSE pc' = Dispatch(Current.kind) /\ UNCHANGED results
          /\ remembered' = IF r.reply = "always"
                             THEN remembered \cup {ToolOf[Current.kind]}
                             ELSE remembered
     /\ UNCHANGED <<histVars, resp, round, turns, cancelled, tokVars, executed,
                    grants, chanVars, uiVars>>
  \/ pc = "permWait" /\ Abandon

AskQuestion ==
  \/ /\ Goto("askSend", "askWait")
     /\ Send("askUser", Current)
     /\ UNCHANGED <<histVars, turnVars, cancelled, tokVars, permVars, uiVars, replies>>
  \/ pc = "askSend" /\ Abandon

TakeAnswer ==
  \/ /\ pc = "askWait"
     /\ \E r \in replies :
          r.call = Current /\ r.reply = "text" /\ replies' = replies \ {r}
     /\ Answered("tool")
     /\ UNCHANGED <<histVars, resp, round, turns, cancelled, tokVars, permVars,
                    chanVars, uiVars>>
  \/ pc = "askWait" /\ Abandon

SendToolStart ==
  \/ /\ Goto("startSend", "exec")
     /\ Send("toolStart", Current)
     /\ UNCHANGED <<histVars, turnVars, cancelled, tokVars, permVars, uiVars, replies>>
  \/ pc = "startSend" /\ Abandon

(* ExecuteTool always yields a result block.  A pre-tool hook that answers  *)
(* "allow" makes the manager remember the tool, whatever its input, unless  *)
(* an ask rule matches this call.                                           *)
ExecuteTool(hookAllows) ==
  /\ pc = "exec"
  /\ executed' = executed \cup {Current}
  /\ LET hooked == IF hookAllows /\ RuleOf[Current.kind] # "ask"
                      THEN {ToolOf[Current.kind]} ELSE {}
     IN  /\ remembered' = remembered \cup hooked
         /\ grants' = [grants EXCEPT !.hooked = @ \cup hooked]
  /\ Answered(IF Streaming THEN "doneSend" ELSE "tool")
  /\ UNCHANGED <<histVars, resp, round, turns, cancelled, tokVars, chanVars,
                 uiVars, replies>>

SendToolDone ==
  \/ /\ Goto("doneSend", "tool")
     /\ Send("toolDone", resp.calls[Len(results)])
     /\ UNCHANGED <<histVars, turnVars, cancelled, tokVars, permVars, uiVars, replies>>
  \/ pc = "doneSend" /\ Abandon

(* All calls answered: their results are one user message, and the loop    *)
(* asks the model again.                                                   *)
AppendResults ==
  /\ pc = "tool" /\ ~Pending
  /\ msgs' = Append(msgs, Message("user", <<>>, results))
  /\ pc' = "request"
  /\ UNCHANGED <<lost, nextId, turnVars, cancelled, tokVars, permVars,
                 chanVars, uiVars, replies>>

-----------------------------------------------------------------------------
KindSeqs == UNION {[1..n -> Kinds] : n \in 0..MaxCalls}

StreamEnds ==
  \E kinds \in KindSeqs, text \in BOOLEAN,
     stop \in {"tool_use", "other"} :
    StreamEnd(kinds, text, stop)

(* The steps of the turn's goroutine. *)
LoopStep ==
  \/ \E b \in BOOLEAN : SubmitPrompt(b) \/ TryCompact(b) \/ Request(b)
  \/ StreamError \/ StreamEnds
  \/ CheckCall \/ AskPermission \/ TakeDecision \/ AskQuestion \/ TakeAnswer
  \/ SendToolStart \/ \E h \in BOOLEAN : ExecuteTool(h)
  \/ SendToolDone \/ AppendResults
  \/ FinishTurn \/ SendUsage \/ SendDone \/ SendError \/ CloseChannel

(* The steps of the front end. *)
UserAnswer ==
  AnswerQuestion \/ \E d \in {"once", "always", "deny"} : AnswerPermission(d)

Next ==
  \/ StartMessage \/ ClearSession \/ Cancel
  \/ Receive \/ UserAnswer
  \/ StreamDelta \/ LoopStep

Spec == Init /\ [][Next]_vars

(* The goroutine is scheduled, the provider ends its streams, the front    *)
(* end drains its channel and the user answers what is asked.              *)
Fairness ==
  /\ WF_vars(LoopStep) /\ WF_vars(Receive)
  /\ WF_vars(UserAnswer)

FairSpec == Spec /\ Fairness

-----------------------------------------------------------------------------
(* Properties. *)

Messages == [role : {"user", "assistant", "system"}, uses : Seq(Nat),
             results : Seq(Nat)]
EventTypes == {"text", "permAsk", "askUser", "toolStart", "toolDone",
               "usage", "done", "error"}
AnyCall == Calls \cup {NoCall}
Tools == {ToolOf[k] : k \in Kinds}

HistTypes == msgs \in Seq(Messages) /\ lost \in SUBSET Nat /\ nextId \in Nat \ {0}
TurnTypes ==
  /\ resp \in [calls : Seq(Calls), stop : {"none", "tool_use", "other"}]
  /\ results \in Seq(Nat) /\ round \in Nat /\ turns \in Nat
TokTypes == turnInput \in Nat /\ lastInput \in Nat /\ peak \in Nat
PermTypes ==
  /\ remembered \in SUBSET Tools /\ executed \in SUBSET Calls
  /\ grants \in [calls : SUBSET Nat, tools : SUBSET Tools, hooked : SUBSET Tools]
ChanTypes == events \in Seq([type : EventTypes, call : AnyCall]) /\ closed \in BOOLEAN
UiTypes ==
  /\ ui \in {"input", "busy", "permission", "askUser"} /\ ask \in AnyCall
  /\ replies \in SUBSET [call : AnyCall, reply : {"once", "always", "deny", "text"}]

(* Every variable keeps its type. *)
TypeOK ==
  /\ HistTypes /\ pc \in Steps /\ TurnTypes /\ cancelled \in BOOLEAN
  /\ TokTypes /\ PermTypes /\ ChanTypes /\ UiTypes

(* While a call is worked off there is one: results are gathered in order.  *)
CallSteps == {"permSend", "permWait", "askSend", "askWait", "startSend", "exec"}
CallInv ==
  /\ pc \in CallSteps => Pending
  /\ pc = "doneSend" => Len(results) \in 1..Len(resp.calls)

(* Dialogs and the events that open them are about a call. *)
DialogInv ==
  /\ ui \in {"permission", "askUser"} => ask \in Calls
  /\ \A i \in 1..Len(events) :
       events[i].type \in {"permAsk", "askUser"} => events[i].call \in Calls

(* When the front end takes input again (model.go:391), the goroutine of    *)
(* the last turn no longer uses the session: no second turn, /clear or      *)
(* /session load can run beside it, although nothing locks the session.     *)
OneTurnAtATime == ui = "input" => pc \in Finished

(* The front end never meets the closed channel (model.go:1343): the event  *)
(* that ends the turn is still to be received, whichever way it ended.      *)
EndIsAnnounced == closed /\ ui # "input" => events # <<>>

(* What keeps it so: a terminal event or a closed channel means the         *)
(* goroutine is past its last use of the session.                           *)
TerminalEvents ==
  /\ \A i \in 1..Len(events) : events[i].type \in {"done", "error"} => pc \in Finished
  /\ closed => pc \in Finished

(* The ownership protocol the two sides follow without a lock.              *)
Session == INSTANCE SessionOwnership WITH
             owner <- IF ui = "input" THEN "user" ELSE "loop", history <- msgs
Ownership == Session!Spec

(* Results come right after the calls they answer, in their order, unless a *)
(* compaction cut between the two; and calls without results are the ones   *)
(* being executed or those of a turn that ended before (conversation.go:729 *)
(* appends the calls, :870 the results).                                    *)
FollowsItsCalls(i) == i > 1 /\ msgs[i - 1].uses = msgs[i].results
BeingExecuted(i) == i = Len(msgs) /\ pc \in ToolSteps /\ msgs[i].uses = Ids(resp.calls)
HistoryPaired ==
  \A i \in 1..Len(msgs) :
    /\ msgs[i].results # <<>> =>
         FollowsItsCalls(i) \/ (i > 1 /\ msgs[i - 1].role = "system")
    /\ msgs[i].uses # <<>> =>
         \/ i < Len(msgs) /\ msgs[i + 1].results = msgs[i].uses
         \/ BeingExecuted(i)
         \/ SeqElems(msgs[i].uses) \subseteq lost

(* docs/parity.md:23 promises that compaction preserves the tool-call       *)
(* invariants: no result is ever separated from its call.                   *)
NoOrphanResult ==
  \A i \in 1..Len(msgs) : msgs[i].results # <<>> => FollowsItsCalls(i)

(* A call is executed only if the mode, an allow rule, an answer of the     *)
(* user to this very call, or a grant for its tool allows it.               *)
Authorized(c) ==
  \/ ~Streaming \/ PermMode \in {"none", "bypass"}
  \/ /\ PermMode = "prompt"
     /\ \/ RuleOf[c.kind] = "allow"
        \/ c.id \in grants.calls
        \/ ToolOf[c.kind] \in grants.tools \cup grants.hooked
AuthorizedExecution == \A c \in executed : Authorized(c)

(* Why: a grant is recorded before the answer that carries it, the manager  *)
(* remembers only granted tools, and a call leaves the permission check     *)
(* only when it is allowed.                                                 *)
GrantInv ==
  /\ pc \in {"permSend", "permWait"} => Streaming /\ PermMode = "prompt"
  /\ remembered \subseteq grants.tools \cup grants.hooked
  /\ \A r \in replies :
       /\ r.reply \in {"once", "always"} => r.call.id \in grants.calls
       /\ r.reply = "always" => ToolOf[r.call.kind] \in grants.tools
  /\ pc \in CallSteps \ {"permSend", "permWait"} => Authorized(Current)

(* conversation.go:1190 and manager.go:278: ask rules take precedence over  *)
(* a hook's allow; a call an ask rule matches needs the user's consent.     *)
AskRulePrevails ==
  \A c \in executed : Streaming /\ PermMode = "prompt" /\ RuleOf[c.kind] = "ask" =>
    c.id \in grants.calls \/ ToolOf[c.kind] \in grants.tools

(* A dialog is open for the call the goroutine waits on, and an answer      *)
(* reaches that call and no other, unless its turn was abandoned.           *)
AnswerReachesAsker ==
  /\ ui = "permission" => ask.id \in lost \/ (pc = "permWait" /\ ask = Current)
  /\ ui = "askUser" => ask.id \in lost \/ (pc = "askWait" /\ ask = Current)
  /\ \A r \in replies : r.call.id \in lost \/
       (r.call = Current /\ pc = IF r.reply = "text" THEN "askWait" ELSE "permWait")

(* An answer reaches the call that asked and the end of a turn its screen   *)
(* (conversation.go:770-860, model.go:1086, 1343).                          *)
AnswersArrive == TypeOK /\ EndIsAnnounced /\ AnswerReachesAsker

(* compact.go:30 and :114: compaction starts when the input the provider    *)
(* reports, or the estimate, reaches the threshold.                         *)
CompactsAtThreshold ==
  [][Goto("compact", "request") /\ msgs' # msgs
       => peak >= Threshold \/ Len(msgs) >= Threshold]_vars

(* A turn ends, and the user gets the prompt back. *)
TurnEnds == pc # "idle" ~> pc = "idle"
PromptReturns == Session!HandsBack
=============================================================================
