---------------------- MODULE ConversationLoop_proofs ----------------------
(***************************************************************************)
(* Proofs about ConversationLoop for every value of its constants: types,  *)
(* the ownership of the session, and the authorization of executed calls.  *)
(***************************************************************************)
EXTENDS ConversationLoop, SequenceTheorems, TLAPS

(* A numbered response is a sequence of calls, and its ids one of naturals. *)
LEMMA NumberedCalls ==
  ASSUME NEW kinds \in KindSeqs, nextId \in Nat \ {0}
  PROVE  /\ Len(kinds) \in Nat
         /\ Numbered(kinds) \in Seq(Calls)
<1>1. MaxCalls \in Nat
  BY LoopAssumption
<1>2. PICK n \in 0..MaxCalls : kinds \in [1..n -> Kinds]
  BY DEF KindSeqs
<1>3. kinds \in Seq(Kinds) /\ Len(kinds) = n
  BY <1>1, <1>2
<1>4. \A i \in 1..n : nextId + i - 1 \in Nat /\ kinds[i] \in Kinds
  BY <1>1, <1>2
<1>5. Numbered(kinds) \in [1..n -> Calls]
  BY <1>3, <1>4 DEF Numbered, Calls
<1>. QED
  BY <1>1, <1>3, <1>5

LEMMA IdsOfCalls ==
  ASSUME NEW calls \in Seq(Calls)
  PROVE  /\ Ids(calls) \in Seq(Nat)
         /\ SeqElems(Ids(calls)) \subseteq Nat
<1>1. \A i \in 1..Len(calls) : calls[i] \in Calls
  OBVIOUS
<1>2. \A i \in 1..Len(calls) : calls[i].id \in Nat
  BY <1>1 DEF Calls
<1>3. Len(calls) \in Nat
  OBVIOUS
<1>4. Ids(calls) \in [1..Len(calls) -> Nat]
  BY <1>2 DEF Ids
<1>5. Ids(calls) \in Seq(Nat)
  BY <1>3, <1>4
<1>. QED
  BY <1>5 DEF SeqElems

(* Compaction yields messages. *)
LEMMA CompactedTypes ==
  ASSUME msgs \in Seq(Messages)
  PROVE  /\ CompactedMessages \in Seq(Messages)
         /\ CompactedMessages # <<>>
         /\ CompactedMessages[1].role = "system"
<1> DEFINE keep == IF KeepRecent > Len(msgs) THEN Len(msgs) ELSE KeepRecent
           head == <<Message("system", <<>>, <<>>)>>
           rest == SubSeq(msgs, Len(msgs) - keep + 1, Len(msgs))
<1>1. keep \in 0..Len(msgs)
  BY LoopAssumption
<1>2. rest \in Seq(Messages)
  BY <1>1, SubSeqProperties
<1>3. Message("system", <<>>, <<>>) \in Messages
  BY DEF Message, Messages
<1>4. head \in Seq(Messages) /\ Len(head) = 1 /\ head[1].role = "system"
  BY <1>3 DEF Message
<1>5. /\ head \o rest \in Seq(Messages)
      /\ Len(head \o rest) = 1 + Len(rest)
      /\ (head \o rest)[1] = head[1]
  BY <1>2, <1>4, ConcatProperties, LenProperties
<1>6. CompactedMessages = head \o rest
  BY DEF CompactedMessages
<1>7. Len(rest) \in Nat
  BY <1>2
<1>. HIDE DEF head, rest
<1>. QED
  BY <1>4, <1>5, <1>6, <1>7

-----------------------------------------------------------------------------
TypeInv == TypeOK /\ CallInv /\ DialogInv

(* The call being worked off, where there is one, is a call. *)
LEMMA CurrentCall ==
  ASSUME TypeOK, Pending
  PROVE  /\ Current \in Calls /\ Current.id \in Nat /\ Current.kind \in Kinds
         /\ ToolOf[Current.kind] \in Tools
         /\ Len(results) \in Nat /\ Len(resp.calls) \in Nat
<1>1. resp.calls \in Seq(Calls) /\ results \in Seq(Nat)
  BY DEF TypeOK, TurnTypes
<1>2. Len(results) \in Nat /\ Len(resp.calls) \in Nat
  BY <1>1
<1>3. Len(results) + 1 \in 1..Len(resp.calls)
  BY <1>2 DEF Pending
<1>4. Current \in Calls
  BY <1>1, <1>3 DEF Current
<1>. QED
  BY <1>2, <1>4 DEF Calls, Tools

LEMMA TypeInit == Init => TypeInv
<1>. SUFFICES ASSUME Init PROVE TypeInv
  OBVIOUS
<1>1. HistTypes
  BY DEF Init, HistTypes
<1>2. TurnTypes
  BY DEF Init, TurnTypes, NoResp
<1>3. TokTypes /\ cancelled \in BOOLEAN /\ pc \in Steps
  BY DEF Init, TokTypes, Steps, Finished
<1>4. PermTypes
  BY DEF Init, PermTypes
<1>5. ChanTypes
  <2>1. events = <<>> /\ closed = FALSE
    BY DEF Init
  <2>2. events \in Seq([type : EventTypes, call : AnyCall])
    BY <2>1
  <2>. QED
    BY <2>1, <2>2 DEF ChanTypes
<1>6. UiTypes
  BY DEF Init, UiTypes, AnyCall
<1>7. CallInv
  BY DEF Init, CallInv, CallSteps
<1>8. events = <<>> /\ ui = "input"
  BY DEF Init
<1>9. DialogInv
  BY <1>8 DEF DialogInv
<1>. QED
  BY <1>1, <1>2, <1>3, <1>4, <1>5, <1>6, <1>7, <1>9 DEF TypeInv, TypeOK

-----------------------------------------------------------------------------
(* What a group of variables keeps when an action leaves it alone. *)
LEMMA UnchangedTypes ==
  ASSUME TypeInv
  PROVE  /\ UNCHANGED histVars => HistTypes'
         /\ UNCHANGED turnVars => TurnTypes'
         /\ UNCHANGED tokVars => TokTypes'
         /\ UNCHANGED permVars => PermTypes'
         /\ UNCHANGED chanVars => ChanTypes'
         /\ UNCHANGED <<uiVars, replies>> => UiTypes'
         /\ UNCHANGED cancelled => cancelled' \in BOOLEAN
         /\ UNCHANGED <<chanVars, uiVars>> => DialogInv'
<1>1. UNCHANGED histVars => HistTypes'
  BY DEF TypeInv, TypeOK, HistTypes, histVars
<1>2. UNCHANGED turnVars => TurnTypes'
  BY DEF TypeInv, TypeOK, TurnTypes, turnVars
<1>3. UNCHANGED tokVars => TokTypes'
  BY DEF TypeInv, TypeOK, TokTypes, tokVars
<1>4. UNCHANGED permVars => PermTypes'
  BY DEF TypeInv, TypeOK, PermTypes, permVars
<1>5. UNCHANGED chanVars => ChanTypes'
  BY DEF TypeInv, TypeOK, ChanTypes, chanVars
<1>6. UNCHANGED <<uiVars, replies>> => UiTypes'
  BY DEF TypeInv, TypeOK, UiTypes, uiVars
<1>7. UNCHANGED cancelled => cancelled' \in BOOLEAN
  BY DEF TypeInv, TypeOK
<1>8. UNCHANGED <<chanVars, uiVars>> => DialogInv'
  BY DEF TypeInv, DialogInv, chanVars, uiVars
<1>. QED
  BY <1>1, <1>2, <1>3, <1>4, <1>5, <1>6, <1>7, <1>8

(* Sending an event keeps the types of the channel. *)
LEMMA SendTypes ==
  ASSUME TypeInv, NEW type \in EventTypes, NEW call \in AnyCall,
         type \in {"permAsk", "askUser"} => call \in Calls,
         Send(type, call), UNCHANGED uiVars
  PROVE  ChanTypes' /\ DialogInv'
<1>1. Event(type, call) \in [type : EventTypes, call : AnyCall]
  BY DEF Event
<1>2. events \in Seq([type : EventTypes, call : AnyCall]) /\ closed' \in BOOLEAN
  BY DEF TypeInv, TypeOK, ChanTypes, Send
<1>3. CASE events' = events
  BY <1>2, <1>3, UnchangedTypes DEF Send, chanVars
<1>4. CASE events' = Append(events, Event(type, call))
  <2>1. /\ events' \in Seq([type : EventTypes, call : AnyCall])
        /\ Len(events') = Len(events) + 1
        /\ \A i \in 1..Len(events) : events'[i] = events[i]
        /\ events'[Len(events) + 1] = Event(type, call)
    BY <1>1, <1>2, <1>4, AppendProperties
  <2>2. \A i \in 1..Len(events') : i \in 1..Len(events) \/ i = Len(events) + 1
    BY <1>2, <2>1
  <2>3. ChanTypes'
    BY <1>2, <2>1 DEF ChanTypes
  <2>4. Event(type, call).type = type /\ Event(type, call).call = call
    BY DEF Event
  <2>5. DialogInv'
    BY <2>1, <2>2, <2>4 DEF TypeInv, DialogInv, uiVars
  <2>. QED
    BY <2>3, <2>5
<1>. QED
  BY <1>3, <1>4 DEF Send

(* A denied or executed call, or an answered question, adds its result. *)
LEMMA AnsweredTypes ==
  ASSUME TypeInv, Pending, NEW to, Answered(to),
         UNCHANGED <<resp, round, turns>>
  PROVE  /\ TurnTypes'
         /\ Len(results') = Len(results) + 1 /\ Len(results') \in 1..Len(resp'.calls)
<1>1. results \in Seq(Nat) /\ Current.id \in Nat
  BY CurrentCall DEF TypeInv, TypeOK, TurnTypes
<1>2. results' \in Seq(Nat) /\ Len(results') = Len(results) + 1
  BY <1>1, AppendProperties DEF Answered
<1>3. Len(results) \in Nat /\ Len(resp.calls) \in Nat
  BY CurrentCall DEF TypeInv
<1>. QED
  BY <1>2, <1>3 DEF TypeInv, TypeOK, TurnTypes, Pending

(* Abandoning a turn. *)
LEMMA AbandonTypes ==
  ASSUME TypeInv, Abandon
  PROVE  TypeInv'
<1>1. SeqElems(Ids(resp.calls)) \subseteq Nat
  BY IdsOfCalls DEF TypeInv, TypeOK, TurnTypes
<1>2. HistTypes'
  BY <1>1 DEF Abandon, TypeInv, TypeOK, HistTypes
<1>3. pc' = "error" /\ pc' \in Steps
  BY DEF Abandon, Steps
<1>4. CallInv'
  BY <1>3 DEF CallInv, CallSteps
<1>. QED
  BY <1>2, <1>3, <1>4, UnchangedTypes DEF TypeInv, TypeOK, Abandon

(* The front end's actions. *)
LEMMA FrontEndTypes ==
  ASSUME TypeInv
  PROVE  /\ StartMessage => TypeInv'
         /\ ClearSession => TypeInv'
         /\ Receive => TypeInv'
         /\ \A d \in {"once", "always", "deny"} : AnswerPermission(d) => TypeInv'
         /\ AnswerQuestion => TypeInv'
         /\ Cancel => TypeInv'
<1>1. ASSUME StartMessage PROVE TypeInv'
  <2>1. resp' = NoResp /\ results' = <<>> /\ round' = 0 /\ turns' = turns + 1
    BY <1>1 DEF StartMessage
  <2>2. TurnTypes'
    BY <2>1 DEF TurnTypes, NoResp, TypeInv, TypeOK
  <2>3. events' = <<>> /\ closed' = FALSE /\ ui' = "busy"
    BY <1>1 DEF StartMessage
  <2>4. events' \in Seq([type : EventTypes, call : AnyCall])
    BY <2>3
  <2>5a. ChanTypes'
    BY <2>3, <2>4 DEF ChanTypes
  <2>5b. DialogInv'
    BY <2>3 DEF DialogInv
  <2>6. UiTypes'
    BY <1>1 DEF StartMessage, TypeInv, TypeOK, UiTypes
  <2>7. TokTypes' /\ pc' \in Steps /\ cancelled' \in BOOLEAN /\ CallInv'
    BY <1>1 DEF StartMessage, TypeInv, TypeOK, TokTypes, Steps, CallInv, CallSteps
  <2>8. HistTypes' /\ PermTypes'
    BY <1>1, UnchangedTypes DEF StartMessage
  <2>. QED
    BY <2>2, <2>5a, <2>5b, <2>6, <2>7, <2>8 DEF TypeInv, TypeOK
<1>2. ASSUME ClearSession PROVE TypeInv'
  <2>1. msgs' = <<>> /\ UNCHANGED <<lost, nextId>>
    BY <1>2 DEF ClearSession
  <2>2. HistTypes'
    BY <2>1 DEF TypeInv, TypeOK, HistTypes
  <2>3. CallInv' /\ pc' \in Steps
    BY <1>2 DEF ClearSession, TypeInv, TypeOK, CallInv, Pending, turnVars
  <2>. QED
    BY <1>2, <2>2, <2>3, UnchangedTypes DEF ClearSession, TypeInv, TypeOK
<1>3. ASSUME Receive PROVE TypeInv'
  <2> DEFINE T == [type : EventTypes, call : AnyCall]
  <2>1. events \in Seq(T) /\ events # <<>> /\ events' = Tail(events) /\ closed' = closed
    BY <1>3 DEF Receive, TypeInv, TypeOK, ChanTypes
  <2> HIDE DEF T
  <2>2a. Len(events) \in Nat \ {0} /\ Head(events) = events[1]
    BY <2>1, EmptySeq
  <2>2b. Head(events) \in T
    BY <2>1, <2>2a
  <2>2c. /\ events' \in Seq(T) /\ Len(events') = Len(events) - 1
         /\ \A i \in 1..Len(events') : events'[i] = events[i + 1]
    BY <2>1, HeadTailProperties
  <2>2. /\ Head(events) = events[1]
        /\ Head(events) \in [type : EventTypes, call : AnyCall]
        /\ events' \in Seq([type : EventTypes, call : AnyCall])
        /\ Len(events') = Len(events) - 1
        /\ \A i \in 1..Len(events') : events'[i] = events[i + 1]
        /\ Len(events) \in Nat \ {0}
    BY <2>2a, <2>2b, <2>2c DEF T
  <2>3. ChanTypes'
    BY <2>1, <2>2 DEF ChanTypes, TypeInv, TypeOK
  <2>4. \A i \in 1..Len(events') : i + 1 \in 1..Len(events)
    BY <2>2
  <2>5. \A i \in 1..Len(events') :
           events'[i].type \in {"permAsk", "askUser"} => events'[i].call \in Calls
    BY <2>2, <2>4 DEF TypeInv, DialogInv
  <2>6. /\ Head(events).call \in AnyCall
        /\ Head(events).type \in {"permAsk", "askUser"} => Head(events).call \in Calls
    BY <2>2 DEF TypeInv, DialogInv
  <2>7. /\ ui' \in {"input", "busy", "permission", "askUser"}
        /\ ask' \in AnyCall
        /\ ui' \in {"permission", "askUser"} => ask' \in Calls
    BY <1>3, <2>6 DEF Receive, TypeInv, TypeOK, UiTypes, uiVars
  <2>8. UiTypes' /\ DialogInv'
    BY <1>3, <2>5, <2>7 DEF Receive, TypeInv, TypeOK, UiTypes, DialogInv
  <2>9. CallInv' /\ pc' \in Steps
    BY <1>3 DEF Receive, TypeInv, TypeOK, CallInv, Pending, turnVars
  <2>. QED
    BY <1>3, <2>3, <2>8, <2>9, UnchangedTypes DEF Receive, TypeInv, TypeOK
<1>5. ASSUME NEW d \in {"once", "always", "deny"}, AnswerPermission(d) PROVE TypeInv'
  <2>1. ask \in Calls /\ ask.id \in Nat /\ ToolOf[ask.kind] \in Tools
    BY <1>5 DEF AnswerPermission, TypeInv, DialogInv, Calls, Tools
  <2>2. [call |-> ask, reply |-> d]
          \in [call : AnyCall, reply : {"once", "always", "deny", "text"}]
    BY <2>1 DEF AnyCall
  <2>3. replies' = replies \cup {[call |-> ask, reply |-> d]}
        /\ ui' = "busy" /\ ask' = NoCall
    BY <1>5 DEF AnswerPermission
  <2>4. UiTypes'
    BY <2>2, <2>3 DEF TypeInv, TypeOK, UiTypes, AnyCall
  <2>5. grants' \in [calls : SUBSET Nat, tools : SUBSET Tools, hooked : SUBSET Tools]
    BY <1>5, <2>1 DEF AnswerPermission, TypeInv, TypeOK, PermTypes
  <2>6. PermTypes'
    BY <1>5, <2>5 DEF AnswerPermission, TypeInv, TypeOK, PermTypes
  <2>7. DialogInv' /\ CallInv' /\ pc' \in Steps
    BY <1>5, <2>3 DEF AnswerPermission, TypeInv, TypeOK, DialogInv, CallInv,
       Pending, turnVars, chanVars
  <2>. QED
    BY <1>5, <2>4, <2>6, <2>7, UnchangedTypes DEF AnswerPermission, TypeInv, TypeOK
<1>6. ASSUME AnswerQuestion PROVE TypeInv'
  <2>1. [call |-> ask, reply |-> "text"]
          \in [call : AnyCall, reply : {"once", "always", "deny", "text"}]
    BY DEF TypeInv, TypeOK, UiTypes
  <2>2. replies' = replies \cup {[call |-> ask, reply |-> "text"]}
        /\ ui' = "busy" /\ ask' = NoCall
    BY <1>6 DEF AnswerQuestion
  <2>3. UiTypes'
    BY <2>1, <2>2 DEF TypeInv, TypeOK, UiTypes, AnyCall
  <2>4. DialogInv' /\ CallInv' /\ pc' \in Steps
    BY <1>6, <2>2 DEF AnswerQuestion, TypeInv, TypeOK, DialogInv, CallInv,
       Pending, turnVars, chanVars
  <2>. QED
    BY <1>6, <2>3, <2>4, UnchangedTypes DEF AnswerQuestion, TypeInv, TypeOK
<1>7. ASSUME Cancel PROVE TypeInv'
  <2>1. CallInv' /\ pc' \in Steps /\ cancelled' \in BOOLEAN
    BY <1>7 DEF Cancel, TypeInv, TypeOK, CallInv, Pending, turnVars
  <2>. QED
    BY <1>7, <2>1, UnchangedTypes DEF Cancel, TypeInv, TypeOK
<1>. QED
  BY <1>1, <1>2, <1>3, <1>5, <1>6, <1>7

(* The goroutine's actions outside the per-call loop. *)
LEMMA TurnTypesStep ==
  ASSUME TypeInv
  PROVE  /\ \A b \in BOOLEAN : SubmitPrompt(b) \/ TryCompact(b) \/ Request(b) => TypeInv'
         /\ FinishTurn \/ CloseChannel \/ StreamError => TypeInv'
         /\ SendUsage \/ SendDone \/ SendError \/ StreamDelta => TypeInv'
         /\ StreamEnds => TypeInv'
         /\ AppendResults => TypeInv'
<1>1. ASSUME NEW b \in BOOLEAN, SubmitPrompt(b) PROVE TypeInv'
  <2>1. Prompt \in Messages
    BY DEF Prompt, Message, Messages
  <2>2. HistTypes'
    BY <1>1, <2>1, AppendProperties DEF SubmitPrompt, TypeInv, TypeOK, HistTypes
  <2>3. CallInv' /\ pc' \in Steps
    BY <1>1 DEF SubmitPrompt, Goto, CallInv, CallSteps, Steps
  <2>. QED
    BY <1>1, <2>2, <2>3, UnchangedTypes DEF SubmitPrompt, TypeInv, TypeOK
<1>2. ASSUME NEW b \in BOOLEAN, TryCompact(b) PROVE TypeInv'
  <2>1. CompactedMessages \in Seq(Messages)
    BY CompactedTypes DEF TypeInv, TypeOK, HistTypes
  <2>2. HistTypes'
    BY <1>2, <2>1 DEF TryCompact, TypeInv, TypeOK, HistTypes
  <2>3. CallInv' /\ pc' \in Steps
    BY <1>2 DEF TryCompact, Goto, CallInv, CallSteps, Steps
  <2>. QED
    BY <1>2, <2>2, <2>3, UnchangedTypes DEF TryCompact, TypeInv, TypeOK, tokVars
<1>3. ASSUME NEW b \in BOOLEAN, Request(b) PROVE TypeInv'
  <2>1. CallInv' /\ pc' \in Steps
    BY <1>3 DEF Request, Goto, CallInv, CallSteps, Steps
  <2>. QED
    BY <1>3, <2>1, UnchangedTypes DEF Request, TypeInv, TypeOK
<1>4. ASSUME FinishTurn PROVE TypeInv'
  <2>1. CallInv' /\ pc' \in Steps
    BY <1>4 DEF FinishTurn, Goto, CallInv, CallSteps, Steps, Finished
  <2>2. TokTypes'
    BY <1>4 DEF FinishTurn, TypeInv, TypeOK, TokTypes
  <2>. QED
    BY <1>4, <2>1, <2>2, UnchangedTypes DEF FinishTurn, TypeInv, TypeOK
<1>5. ASSUME CloseChannel PROVE TypeInv'
  <2>1. CallInv' /\ pc' \in Steps
    BY <1>5 DEF CloseChannel, Goto, CallInv, CallSteps, Steps, Finished
  <2>2. ChanTypes' /\ UiTypes' /\ DialogInv'
    BY <1>5 DEF CloseChannel, TypeInv, TypeOK, ChanTypes, UiTypes, DialogInv
  <2>. QED
    BY <1>5, <2>1, <2>2, UnchangedTypes DEF CloseChannel, TypeInv, TypeOK
<1>6. ASSUME StreamError PROVE TypeInv'
  <2>1. CallInv' /\ pc' \in Steps
    BY <1>6 DEF StreamError, Goto, CallInv, CallSteps, Steps
  <2>. QED
    BY <1>6, <2>1, UnchangedTypes DEF StreamError, TypeInv, TypeOK
<1>7. NoCall \in AnyCall /\ {"usage", "done", "error", "text"} \subseteq EventTypes
  BY DEF AnyCall, EventTypes
<1>8. ASSUME SendUsage PROVE TypeInv'
  <2>1. CallInv' /\ pc' \in Steps
    BY <1>8 DEF SendUsage, Goto, CallInv, CallSteps, Steps
  <2>. QED
    BY <1>7, <1>8, <2>1, SendTypes, UnchangedTypes DEF SendUsage, TypeInv, TypeOK
<1>9. ASSUME SendDone PROVE TypeInv'
  <2>1. CallInv' /\ pc' \in Steps
    BY <1>9 DEF SendDone, Goto, CallInv, CallSteps, Steps, Finished
  <2>. QED
    BY <1>7, <1>9, <2>1, SendTypes, UnchangedTypes DEF SendDone, TypeInv, TypeOK
<1>10. ASSUME SendError PROVE TypeInv'
  <2>1. CallInv' /\ pc' \in Steps
    BY <1>10 DEF SendError, Goto, CallInv, CallSteps, Steps, Finished
  <2>. QED
    BY <1>7, <1>10, <2>1, SendTypes, UnchangedTypes DEF SendError, TypeInv, TypeOK
<1>11. ASSUME StreamDelta PROVE TypeInv'
  <2>1. pc' \in {"stream", "error"} /\ cancelled' = cancelled
    BY <1>11 DEF StreamDelta
  <2>2. CallInv' /\ pc' \in Steps
    BY <2>1 DEF CallInv, CallSteps, Steps
  <2>3. ChanTypes' /\ DialogInv'
    BY <1>7, <1>11, SendTypes, UnchangedTypes DEF StreamDelta, uiVars
  <2>. QED
    BY <1>11, <2>1, <2>2, <2>3, UnchangedTypes DEF StreamDelta, TypeInv, TypeOK
<1>12. ASSUME NEW kinds \in KindSeqs, NEW text \in BOOLEAN, NEW stop \in {"tool_use", "other"},
              StreamEnd(kinds, text, stop)
       PROVE  TypeInv'
  <2>1. /\ Numbered(kinds) \in Seq(Calls) /\ Len(kinds) \in Nat
        /\ Ids(Numbered(kinds)) \in Seq(Nat) /\ SeqElems(Ids(Numbered(kinds))) \subseteq Nat
    BY NumberedCalls, IdsOfCalls DEF TypeInv, TypeOK, HistTypes
  <2>2. Message("assistant", Ids(Numbered(kinds)), <<>>) \in Messages
    BY <2>1 DEF Message, Messages
  <2>3. HistTypes'
    <3> DEFINE m == Message("assistant", Ids(Numbered(kinds)), <<>>)
               ids == SeqElems(Ids(Numbered(kinds)))
    <3>1. msgs \in Seq(Messages) /\ lost \in SUBSET Nat /\ nextId \in Nat \ {0}
      BY DEF TypeInv, TypeOK, HistTypes
    <3>2. m \in Messages /\ ids \subseteq Nat
      BY <2>1, <2>2
    <3>3. /\ msgs' = Append(msgs, m) \/ msgs' = msgs
          /\ lost' = lost \/ lost' = lost \cup ids
          /\ nextId' = nextId + Len(kinds)
      BY <1>12 DEF StreamEnd
    <3>. HIDE DEF m, ids
    <3>4. msgs' \in Seq(Messages)
      BY <3>1, <3>2, <3>3, AppendProperties
    <3>5. lost' \in SUBSET Nat
      BY <3>1, <3>2, <3>3
    <3>6. Len(kinds) \in Nat
      BY <2>1
    <3>7. nextId' \in Nat \ {0}
      BY <3>1, <3>3, <3>6
    <3>. QED
      BY <3>4, <3>5, <3>7 DEF HistTypes
  <2>4. TurnTypes'
    BY <1>12, <2>1 DEF StreamEnd, TypeInv, TypeOK, TurnTypes
  <2>5. Len(msgs) \in Nat
    BY DEF TypeInv, TypeOK, HistTypes
  <2>6. TokTypes'
    BY <1>12, <2>5 DEF StreamEnd, TypeInv, TypeOK, TokTypes
  <2>7. CallInv' /\ pc' \in Steps
    BY <1>12 DEF StreamEnd, CallInv, CallSteps, Steps, ToolSteps
  <2>. QED
    BY <1>12, <2>3, <2>4, <2>6, <2>7, UnchangedTypes DEF StreamEnd, TypeInv, TypeOK
<1>13. ASSUME AppendResults PROVE TypeInv'
  <2>1. Message("user", <<>>, results) \in Messages
    BY DEF Message, Messages, TypeInv, TypeOK, TurnTypes
  <2>2. HistTypes'
    BY <1>13, <2>1, AppendProperties DEF AppendResults, TypeInv, TypeOK, HistTypes
  <2>3. CallInv' /\ pc' \in Steps
    BY <1>13 DEF AppendResults, CallInv, CallSteps, Steps
  <2>. QED
    BY <1>13, <2>2, <2>3, UnchangedTypes DEF AppendResults, TypeInv, TypeOK
<1>. QED
  BY <1>1, <1>2, <1>3, <1>4, <1>5, <1>6, <1>8, <1>9, <1>10, <1>11, <1>12, <1>13
     DEF StreamEnds

(* The per-call loop. *)
LEMMA CallTypesStep ==
  ASSUME TypeInv
  PROVE  /\ CheckCall => TypeInv'
         /\ AskPermission \/ AskQuestion \/ SendToolStart \/ SendToolDone => TypeInv'
         /\ TakeDecision => TypeInv'
         /\ TakeAnswer => TypeInv'
         /\ \A h \in BOOLEAN : ExecuteTool(h) => TypeInv'
<1>0. CallSteps \subseteq Steps /\ {"tool", "doneSend"} \subseteq Steps
  BY DEF CallSteps, Steps, ToolSteps
<1>1. ASSUME CheckCall PROVE TypeInv'
  <2>1. pc = "tool" /\ Pending /\ UNCHANGED <<resp, round, turns>>
    BY <1>1 DEF CheckCall
  <2>2. \/ Answered("tool")
        \/ pc' \in CallSteps /\ results' = results
    BY <1>1 DEF CheckCall, Dispatch, CallSteps
  <2>3. CASE Answered("tool")
    <3>1. TurnTypes' /\ CallInv' /\ pc' \in Steps
      BY <1>0, <2>1, <2>3, AnsweredTypes DEF Answered, CallInv, CallSteps
    <3>. QED
      BY <1>1, <3>1, UnchangedTypes DEF CheckCall, TypeInv, TypeOK
  <2>4. CASE pc' \in CallSteps /\ results' = results
    <3>1. CallInv' /\ pc' \in Steps
      BY <1>0, <2>1, <2>4 DEF CallInv, CallSteps, Pending
    <3>2. TurnTypes'
      BY <2>1, <2>4, UnchangedTypes DEF turnVars
    <3>. QED
      BY <1>1, <3>1, <3>2, UnchangedTypes DEF CheckCall, TypeInv, TypeOK
  <2>. QED
    BY <2>2, <2>3, <2>4
<1>2. {"permAsk", "askUser", "toolStart", "toolDone"} \subseteq EventTypes
      /\ Calls \subseteq AnyCall
  BY DEF EventTypes, AnyCall
<1>3. ASSUME AskPermission, ~Abandon PROVE TypeInv'
  <2>1. pc = "permSend" /\ pc' = "permWait" /\ UNCHANGED turnVars
    BY <1>3 DEF AskPermission, Goto
  <2>2. CallInv' /\ pc' \in Steps /\ Current \in Calls
    BY <1>0, <2>1, CurrentCall DEF TypeInv, CallInv, CallSteps, Pending, turnVars
  <2>. QED
    BY <1>2, <1>3, <2>2, SendTypes, UnchangedTypes DEF AskPermission, TypeInv, TypeOK
<1>4. ASSUME AskQuestion, ~Abandon PROVE TypeInv'
  <2>1. pc = "askSend" /\ pc' = "askWait" /\ UNCHANGED turnVars
    BY <1>4 DEF AskQuestion, Goto
  <2>2. CallInv' /\ pc' \in Steps /\ Current \in Calls
    BY <1>0, <2>1, CurrentCall DEF TypeInv, CallInv, CallSteps, Pending, turnVars
  <2>. QED
    BY <1>2, <1>4, <2>2, SendTypes, UnchangedTypes DEF AskQuestion, TypeInv, TypeOK
<1>5. ASSUME SendToolStart, ~Abandon PROVE TypeInv'
  <2>1. pc = "startSend" /\ pc' = "exec" /\ UNCHANGED turnVars
    BY <1>5 DEF SendToolStart, Goto
  <2>2. CallInv' /\ pc' \in Steps /\ Current \in Calls
    BY <1>0, <2>1, CurrentCall DEF TypeInv, CallInv, CallSteps, Pending, turnVars
  <2>. QED
    BY <1>2, <1>5, <2>2, SendTypes, UnchangedTypes DEF SendToolStart, TypeInv, TypeOK
<1>6. ASSUME SendToolDone, ~Abandon PROVE TypeInv'
  <2>1. pc = "doneSend" /\ pc' = "tool" /\ UNCHANGED turnVars
    BY <1>6 DEF SendToolDone, Goto
  <2>2. Len(results) \in 1..Len(resp.calls) /\ resp.calls \in Seq(Calls)
    BY <2>1 DEF TypeInv, TypeOK, CallInv, TurnTypes
  <2>3. resp.calls[Len(results)] \in Calls
    BY <2>2
  <2>4. CallInv' /\ pc' \in Steps
    BY <1>0, <2>1 DEF CallInv, CallSteps
  <2>. QED
    BY <1>2, <1>6, <2>3, <2>4, SendTypes, UnchangedTypes DEF SendToolDone, TypeInv, TypeOK
<1>7. ASSUME TakeDecision, ~Abandon PROVE TypeInv'
  <2>1. pc = "permWait" /\ Pending /\ UNCHANGED <<resp, round, turns>>
    BY <1>7 DEF TakeDecision, TypeInv, CallInv, CallSteps
  <2>2. \/ Answered("tool")
        \/ pc' \in CallSteps /\ results' = results
    BY <1>7 DEF TakeDecision, Dispatch, CallSteps
  <2>3. UiTypes' /\ DialogInv'
    BY <1>7, UnchangedTypes DEF TakeDecision, TypeInv, TypeOK, UiTypes, uiVars
  <2>4. PermTypes'
    BY <1>7, <2>1, CurrentCall DEF TakeDecision, TypeInv, TypeOK, PermTypes
  <2>5. TurnTypes' /\ CallInv' /\ pc' \in Steps
    <3>1. CASE Answered("tool")
      BY <1>0, <2>1, <3>1, AnsweredTypes DEF Answered, CallInv, CallSteps
    <3>2. CASE pc' \in CallSteps /\ results' = results
      <4>1. UNCHANGED turnVars
        BY <2>1, <3>2 DEF turnVars
      <4>. QED
        BY <1>0, <2>1, <3>2, <4>1, UnchangedTypes DEF CallInv, CallSteps, Pending
    <3>. QED
      BY <2>2, <3>1, <3>2
  <2>. QED
    BY <1>7, <2>3, <2>4, <2>5, UnchangedTypes DEF TakeDecision, TypeInv, TypeOK
<1>8. ASSUME TakeAnswer, ~Abandon PROVE TypeInv'
  <2>1. pc = "askWait" /\ Pending /\ Answered("tool") /\ UNCHANGED <<resp, round, turns>>
    BY <1>8 DEF TakeAnswer, TypeInv, CallInv, CallSteps
  <2>2. UiTypes' /\ DialogInv'
    BY <1>8, UnchangedTypes DEF TakeAnswer, TypeInv, TypeOK, UiTypes, uiVars
  <2>3. TurnTypes' /\ CallInv' /\ pc' \in Steps
    BY <1>0, <2>1, AnsweredTypes DEF Answered, CallInv, CallSteps
  <2>. QED
    BY <1>8, <2>2, <2>3, UnchangedTypes DEF TakeAnswer, TypeInv, TypeOK
<1>9. ASSUME NEW h \in BOOLEAN, ExecuteTool(h) PROVE TypeInv'
  <2>1. /\ pc = "exec" /\ Pending /\ UNCHANGED <<resp, round, turns>>
        /\ Answered(IF Streaming THEN "doneSend" ELSE "tool")
    BY <1>9 DEF ExecuteTool, TypeInv, CallInv, CallSteps
  <2>2. TurnTypes' /\ CallInv' /\ pc' \in Steps
    BY <1>0, <2>1, AnsweredTypes DEF Answered, CallInv, CallSteps
  <2>3. Current \in Calls /\ ToolOf[Current.kind] \in Tools
    BY <2>1, CurrentCall DEF TypeInv
  <2>4. PermTypes'
    BY <1>9, <2>3 DEF ExecuteTool, TypeInv, TypeOK, PermTypes
  <2>. QED
    BY <1>9, <2>2, <2>4, UnchangedTypes DEF ExecuteTool, TypeInv, TypeOK
<1>. QED
  BY <1>1, <1>3, <1>4, <1>5, <1>6, <1>7, <1>8, <1>9, AbandonTypes

LEMMA TypeStep == TypeInv /\ [Next]_vars => TypeInv'
<1>. SUFFICES ASSUME TypeInv, [Next]_vars PROVE TypeInv'
  OBVIOUS
<1>1. CASE UNCHANGED vars
  BY <1>1 DEF vars, histVars, turnVars, tokVars, permVars, chanVars, uiVars,
     TypeInv, TypeOK, CallInv, DialogInv, HistTypes, TurnTypes, TokTypes,
     PermTypes, ChanTypes, UiTypes, Pending
<1>2. CASE Next
  BY <1>2, FrontEndTypes, TurnTypesStep, CallTypesStep DEF Next, LoopStep, UserAnswer
<1>. QED
  BY <1>1, <1>2

(* Every variable keeps its type, for any tools, rules, bounds and mode. *)
THEOREM TypeCorrect == Spec => []TypeOK
<1>1. TypeInv => TypeOK
  BY DEF TypeInv
<1>. QED
  BY TypeInit, TypeStep, <1>1, PTL DEF Spec

-----------------------------------------------------------------------------
(* The session has one user at a time. *)
TurnInv == OneTurnAtATime /\ TerminalEvents

LEMMA SendTurn ==
  ASSUME TypeInv, TurnInv, NEW type \in EventTypes, NEW call \in AnyCall,
         Send(type, call), ui' = ui,
         type \in {"done", "error"} => pc' \in Finished,
         pc \notin Finished
  PROVE  TurnInv'
<1>1. events \in Seq([type : EventTypes, call : AnyCall])
      /\ Event(type, call) \in [type : EventTypes, call : AnyCall]
      /\ Event(type, call).type = type
  BY DEF TypeInv, TypeOK, ChanTypes, Event
<1>2. \A i \in 1..Len(events) : events[i].type \notin {"done", "error"}
  BY DEF TurnInv, TerminalEvents
<1>3. ~closed' /\ ui' # "input"
  BY DEF TurnInv, TerminalEvents, OneTurnAtATime, Send
<1>4. \A i \in 1..Len(events') : events'[i].type \in {"done", "error"} => pc' \in Finished
  <2>1. CASE events' = events
    BY <1>2, <2>1
  <2>2. CASE events' = Append(events, Event(type, call))
    <3>1. /\ Len(events') = Len(events) + 1 /\ Len(events) \in Nat
          /\ \A i \in 1..Len(events) : events'[i] = events[i]
          /\ events'[Len(events) + 1] = Event(type, call)
      BY <1>1, <2>2, AppendProperties, LenProperties
    <3>2. \A i \in 1..Len(events') : i \in 1..Len(events) \/ i = Len(events) + 1
      BY <3>1
    <3>. QED
      BY <1>1, <1>2, <3>1, <3>2
  <2>. QED
    BY <2>1, <2>2 DEF Send
<1>. QED
  BY <1>3, <1>4 DEF TurnInv, OneTurnAtATime, TerminalEvents

(* A step that sends nothing and does not hand the session back. *)
LEMMA QuietTurn ==
  ASSUME TurnInv, UNCHANGED chanVars, ui' = ui, pc \in Finished => pc' \in Finished
  PROVE  TurnInv'
BY DEF TurnInv, OneTurnAtATime, TerminalEvents, chanVars

LEMMA TurnStep == TypeInv /\ TurnInv /\ [Next]_vars => TurnInv'
<1>. SUFFICES ASSUME TypeInv, TurnInv, [Next]_vars PROVE TurnInv'
  OBVIOUS
<1>0. NoCall \in AnyCall /\ Calls \subseteq AnyCall
  BY DEF AnyCall
<1>1. CASE UNCHANGED vars
  BY <1>1, QuietTurn DEF vars, uiVars
<1>2. CASE StartMessage
  <2>1. events' = <<>> /\ closed' = FALSE /\ ui' = "busy"
    BY <1>2 DEF StartMessage
  <2>. QED
    BY <2>1 DEF TurnInv, OneTurnAtATime, TerminalEvents
<1>3. CASE ClearSession
  BY <1>3, QuietTurn DEF ClearSession, uiVars
<1>4. CASE Receive
  <2>1. events \in Seq([type : EventTypes, call : AnyCall]) /\ events # <<>>
        /\ events' = Tail(events) /\ closed' = closed /\ pc' = pc
    BY <1>4 DEF Receive, TypeInv, TypeOK, ChanTypes
  <2>2. /\ Len(events) \in Nat \ {0} /\ Head(events) = events[1]
        /\ Len(events') = Len(events) - 1
        /\ \A i \in 1..Len(events') : events'[i] = events[i + 1]
    BY <2>1, EmptySeq, HeadTailProperties
  <2>3. \A i \in 1..Len(events') : i + 1 \in 1..Len(events)
    BY <2>2
  <2>4. TerminalEvents'
    BY <2>1, <2>2, <2>3 DEF TurnInv, TerminalEvents
  <2>5. ui' = "input" => Head(events).type \in {"done", "error"}
    BY <1>4 DEF Receive, uiVars
  <2>6. OneTurnAtATime'
    BY <2>1, <2>2, <2>5 DEF TurnInv, TerminalEvents, OneTurnAtATime
  <2>. QED
    BY <2>4, <2>6 DEF TurnInv
<1>6. CASE UserAnswer \/ Cancel
  BY <1>6 DEF UserAnswer, AnswerQuestion, AnswerPermission, Cancel, TurnInv,
     OneTurnAtATime, TerminalEvents, chanVars, uiVars
<1>7. CASE StreamDelta
  <2>1. pc = "stream" /\ ui' = ui
    BY <1>7 DEF StreamDelta, uiVars
  <2>. QED
    BY <1>0, <1>7, <2>1, SendTurn, QuietTurn DEF StreamDelta, EventTypes, Finished
<1>8. ASSUME NEW b \in BOOLEAN, SubmitPrompt(b) \/ TryCompact(b) \/ Request(b) PROVE TurnInv'
  BY <1>8, QuietTurn DEF SubmitPrompt, TryCompact, Request, Goto, Finished, uiVars
<1>9. CASE StreamError \/ StreamEnds \/ FinishTurn
  BY <1>9, QuietTurn DEF StreamError, StreamEnds, StreamEnd, FinishTurn, Goto, Finished, uiVars
<1>10. CASE SendUsage \/ SendDone \/ SendError
  BY <1>0, <1>10, SendTurn DEF SendUsage, SendDone, SendError, Goto, EventTypes, Finished, uiVars
<1>11. CASE CloseChannel
  BY <1>11 DEF CloseChannel, Goto, Finished, TurnInv, OneTurnAtATime, TerminalEvents
<1>12. CASE CheckCall \/ AppendResults
  BY <1>12, QuietTurn DEF CheckCall, AppendResults, Finished, uiVars
<1>13. CASE TakeDecision \/ TakeAnswer
  BY <1>13, QuietTurn DEF TakeDecision, TakeAnswer, Abandon, Finished, uiVars
<1>14. ASSUME NEW h \in BOOLEAN, ExecuteTool(h) PROVE TurnInv'
  BY <1>14, QuietTurn DEF ExecuteTool, Finished, uiVars
<1>15. ASSUME pc \in {"permSend", "askSend", "startSend", "doneSend"}, Abandon PROVE TurnInv'
  BY <1>15, QuietTurn DEF Abandon, Finished, uiVars
<1>16. ASSUME AskPermission \/ AskQuestion \/ SendToolStart, ~Abandon PROVE TurnInv'
  <2>1. Pending /\ pc \notin Finished
    BY <1>16 DEF AskPermission, AskQuestion, SendToolStart, Goto, TypeInv, CallInv,
       CallSteps, Finished
  <2>2. Current \in AnyCall
    BY <1>0, <2>1, CurrentCall DEF TypeInv
  <2>. QED
    BY <1>16, <2>1, <2>2, SendTurn DEF AskPermission, AskQuestion, SendToolStart,
       EventTypes, uiVars
<1>17. ASSUME SendToolDone, ~Abandon PROVE TurnInv'
  <2>1. pc = "doneSend"
    BY <1>17 DEF SendToolDone, Goto
  <2>2. resp.calls[Len(results)] \in Calls
    BY <2>1 DEF TypeInv, TypeOK, CallInv, TurnTypes
  <2>. QED
    BY <1>0, <1>17, <2>1, <2>2, SendTurn DEF SendToolDone, EventTypes, Finished, uiVars
<1>18. ASSUME AskPermission \/ AskQuestion \/ SendToolStart \/ SendToolDone PROVE TurnInv'
  <2>1. CASE Abandon
    BY <1>15, <1>18, <2>1 DEF AskPermission, AskQuestion, SendToolStart, SendToolDone, Goto
  <2>. QED
    BY <1>16, <1>17, <1>18, <2>1
<1>19. CASE LoopStep
  BY <1>8, <1>9, <1>10, <1>11, <1>12, <1>13, <1>14, <1>18, <1>19 DEF LoopStep
<1>. QED
  BY <1>1, <1>2, <1>3, <1>4, <1>6, <1>7, <1>19 DEF Next

LEMMA TurnInit == Init => TurnInv
<1>. SUFFICES ASSUME Init PROVE TurnInv
  OBVIOUS
<1>1. events = <<>> /\ closed = FALSE /\ pc = "idle"
  BY DEF Init
<1>. QED
  BY <1>1 DEF TurnInv, OneTurnAtATime, TerminalEvents, Finished

(* While the front end takes input, no goroutine uses the session. *)
THEOREM SessionIsFree == Spec => []OneTurnAtATime
<1>1. TurnInv => OneTurnAtATime
  BY DEF TurnInv
<1>. QED
  BY TypeInit, TypeStep, TurnInit, TurnStep, <1>1, PTL DEF Spec

-----------------------------------------------------------------------------
(* The ownership protocol: every step keeps it or leaves it alone. *)
LEMMA ExtendStep ==
  ASSUME TypeInv, ui # "input", ui' = ui, NEW m \in Messages,
         msgs' = msgs \/ msgs' = Append(msgs, m)
  PROVE  [Session!Next]_(Session!vars)
<1>1. CASE msgs' = msgs
  BY <1>1 DEF Session!vars
<1>2. CASE msgs' = Append(msgs, m)
  <2>1. msgs \in Seq(Messages)
    BY DEF TypeInv, TypeOK, HistTypes
  <2>2. Len(msgs') = Len(msgs) + 1 /\ \A i \in 1..Len(msgs) : msgs'[i] = msgs[i]
    BY <1>2, <2>1, AppendProperties
  <2>. QED
    BY <2>2 DEF Session!Next, Session!Extend
<1>. QED
  BY <1>1, <1>2

LEMMA OwnershipStep ==
  TypeInv /\ TurnInv /\ [Next]_vars => [Session!Next]_(Session!vars)
<1>. SUFFICES ASSUME TypeInv, TurnInv, [Next]_vars PROVE [Session!Next]_(Session!vars)
  OBVIOUS
<1>0. pc \notin Finished => ui # "input"
  BY DEF TurnInv, OneTurnAtATime
<1>1. CASE UNCHANGED <<ui, msgs>>
  BY <1>1 DEF Session!vars
<1>2. CASE StartMessage
  BY <1>2 DEF StartMessage, histVars, Session!Next, Session!Submit
<1>3. CASE ClearSession
  BY <1>3 DEF ClearSession, uiVars, Session!Next, Session!Clear
<1>4. CASE Receive \/ UserAnswer
  <2>1. ui # "input" /\ msgs' = msgs
    BY <1>4 DEF Receive, UserAnswer, AnswerQuestion, AnswerPermission, histVars
  <2>. QED
    BY <2>1 DEF Session!Next, Session!HandBack, Session!vars
<1>5. CASE CloseChannel
  <2>1. msgs' = msgs /\ (ui' = ui \/ ui' = "input")
    BY <1>5 DEF CloseChannel, histVars
  <2>. QED
    BY <2>1 DEF Session!Next, Session!HandBack, Session!vars
<1>6. ASSUME NEW b \in BOOLEAN, SubmitPrompt(b) PROVE [Session!Next]_(Session!vars)
  <2>1. Prompt \in Messages
    BY DEF Prompt, Message, Messages
  <2>2. pc = "hook" /\ ui' = ui /\ (msgs' = msgs \/ msgs' = Append(msgs, Prompt))
    BY <1>6 DEF SubmitPrompt, Goto, uiVars
  <2>. QED
    BY <1>0, <2>1, <2>2, ExtendStep DEF Finished
<1>7. ASSUME NEW b \in BOOLEAN, TryCompact(b) PROVE [Session!Next]_(Session!vars)
  <2>1. pc = "compact" /\ ui' = ui /\ (msgs' = msgs \/ msgs' = CompactedMessages)
    BY <1>7 DEF TryCompact, Goto, uiVars
  <2>2. CompactedMessages # <<>> /\ CompactedMessages[1].role = "system"
    BY CompactedTypes DEF TypeInv, TypeOK, HistTypes
  <2>. QED
    BY <1>0, <2>1, <2>2 DEF Finished, Session!Next, Session!Rewrite, Session!vars
<1>8. ASSUME NEW kinds \in KindSeqs, NEW text \in BOOLEAN, NEW stop \in {"tool_use", "other"},
             StreamEnd(kinds, text, stop)
      PROVE  [Session!Next]_(Session!vars)
  <2>1. Ids(Numbered(kinds)) \in Seq(Nat)
    BY NumberedCalls, IdsOfCalls DEF TypeInv, TypeOK, HistTypes
  <2>2. Message("assistant", Ids(Numbered(kinds)), <<>>) \in Messages
    BY <2>1 DEF Message, Messages
  <2>3. /\ pc = "stream" /\ ui' = ui
        /\ \/ msgs' = msgs
           \/ msgs' = Append(msgs, Message("assistant", Ids(Numbered(kinds)), <<>>))
    BY <1>8 DEF StreamEnd, uiVars
  <2>. QED
    BY <1>0, <2>2, <2>3, ExtendStep DEF Finished
<1>9. CASE AppendResults
  <2>1. Message("user", <<>>, results) \in Messages
    BY DEF Message, Messages, TypeInv, TypeOK, TurnTypes
  <2>2. pc = "tool" /\ ui' = ui /\ msgs' = Append(msgs, Message("user", <<>>, results))
    BY <1>9 DEF AppendResults, uiVars
  <2>. QED
    BY <1>0, <2>1, <2>2, ExtendStep DEF Finished
<1>10. CASE UNCHANGED vars
  BY <1>1, <1>10 DEF vars, uiVars, histVars
<1>11. Abandon => UNCHANGED <<ui, msgs>>
  BY DEF Abandon, uiVars
<1>12. CASE Cancel \/ StreamDelta \/ StreamError \/ FinishTurn \/ SendUsage
            \/ SendDone \/ SendError \/ CheckCall
  BY <1>1, <1>12 DEF Cancel, StreamDelta, StreamError, FinishTurn, SendUsage,
     SendDone, SendError, CheckCall, uiVars, histVars
<1>13. CASE AskPermission \/ TakeDecision \/ AskQuestion \/ TakeAnswer
            \/ SendToolStart \/ SendToolDone
  BY <1>1, <1>11, <1>13 DEF AskPermission, TakeDecision, AskQuestion, TakeAnswer,
     SendToolStart, SendToolDone, uiVars, histVars
<1>14. ASSUME NEW b \in BOOLEAN, Request(b) \/ ExecuteTool(b)
       PROVE  [Session!Next]_(Session!vars)
  BY <1>1, <1>14 DEF Request, ExecuteTool, uiVars, histVars
<1>15. CASE LoopStep
  BY <1>5, <1>6, <1>7, <1>8, <1>9, <1>12, <1>13, <1>14, <1>15 DEF LoopStep, StreamEnds
<1>. QED
  BY <1>2, <1>3, <1>4, <1>10, <1>12, <1>15 DEF Next

(* The session has one owner at a time and only the owner changes it. *)
THEOREM SessionOwned == Spec => Ownership
<1>1. Init => Session!Init
  BY DEF Init, Session!Init
<1>. QED
  BY <1>1, TypeInit, TypeStep, TurnInit, TurnStep, OwnershipStep, PTL
     DEF Spec, Ownership, Session!Spec

-----------------------------------------------------------------------------
(* Executed calls are authorized. *)
AuthInv == GrantInv /\ AuthorizedExecution

(* Grants only grow, so what is authorized stays so. *)
LEMMA GrantsGrow ==
  ASSUME TypeInv, Next
  PROVE  /\ grants.calls \subseteq grants'.calls
         /\ grants.tools \subseteq grants'.tools
         /\ grants.hooked \subseteq grants'.hooked
         /\ \A c : Authorized(c) => Authorized(c)'
<1>1. /\ grants.calls \subseteq grants'.calls
      /\ grants.tools \subseteq grants'.tools
      /\ grants.hooked \subseteq grants'.hooked
  <2>1. CASE grants' = grants
    BY <2>1
  <2>2. ASSUME NEW d \in {"once", "always", "deny"}, AnswerPermission(d)
        PROVE  /\ grants.calls \subseteq grants'.calls
               /\ grants.tools \subseteq grants'.tools
               /\ grants.hooked \subseteq grants'.hooked
    BY <2>2 DEF AnswerPermission, TypeInv, TypeOK, PermTypes
  <2>3. ASSUME NEW h \in BOOLEAN, ExecuteTool(h)
        PROVE  /\ grants.calls \subseteq grants'.calls
               /\ grants.tools \subseteq grants'.tools
               /\ grants.hooked \subseteq grants'.hooked
    BY <2>3 DEF ExecuteTool, TypeInv, TypeOK, PermTypes
  <2>4. CASE StartMessage \/ ClearSession \/ Cancel \/ Receive
             \/ AnswerQuestion \/ StreamDelta
    BY <2>1, <2>4 DEF StartMessage, ClearSession, Cancel, Receive,
       AnswerQuestion, StreamDelta, permVars
  <2>5. ASSUME NEW b \in BOOLEAN, SubmitPrompt(b) \/ TryCompact(b) \/ Request(b)
        PROVE  grants' = grants
    BY <2>5 DEF SubmitPrompt, TryCompact, Request, permVars
  <2>6. CASE StreamError \/ StreamEnds \/ CheckCall \/ AppendResults \/ FinishTurn
             \/ SendUsage \/ SendDone \/ SendError \/ CloseChannel
    BY <2>1, <2>6 DEF StreamError, StreamEnds, StreamEnd, CheckCall, AppendResults,
       FinishTurn, SendUsage, SendDone, SendError, CloseChannel, permVars
  <2>7. CASE AskPermission \/ TakeDecision \/ AskQuestion \/ TakeAnswer
             \/ SendToolStart \/ SendToolDone
    BY <2>1, <2>7 DEF AskPermission, TakeDecision, AskQuestion, TakeAnswer,
       SendToolStart, SendToolDone, Abandon, permVars
  <2>8. CASE LoopStep
    BY <2>1, <2>3, <2>5, <2>6, <2>7, <2>8 DEF LoopStep
  <2>. QED
    BY <2>2, <2>4, <2>8 DEF Next, UserAnswer
<1>. QED
  BY <1>1 DEF Authorized

(* The permission check lets only authorized calls through. *)
LEMMA CheckAuthorizes ==
  ASSUME TypeInv, GrantInv, NEW c \in Calls, Check(c.kind) \notin {"deny", "plan", "ask"}
  PROVE  Authorized(c)
<1>1. PermMode \in {"none", "plan", "prompt", "bypass"} /\ Streaming \in BOOLEAN
  BY LoopAssumption
<1>2. CASE ~Streaming \/ PermMode \in {"none", "bypass"}
  BY <1>2 DEF Authorized
<1>3. CASE Streaming /\ PermMode = "plan"
  <2>1. Check(c.kind) = "plan"
    BY <1>3 DEF Check
  <2>. QED
    BY <2>1
<1>4. CASE Streaming /\ PermMode = "prompt"
  <2>1. CASE ToolOf[c.kind] \in remembered
    BY <1>4, <2>1 DEF Authorized, GrantInv
  <2>2. CASE ToolOf[c.kind] \notin remembered
    <3>1. c.kind \in Kinds
      BY DEF Calls
    <3>2. RuleOf[c.kind] \in {"allow", "deny", "ask", "none"}
      BY <3>1, LoopAssumption
    <3>3. Check(c.kind) = IF RuleOf[c.kind] = "none" THEN "ask" ELSE RuleOf[c.kind]
      BY <1>4, <2>2 DEF Check
    <3>4. RuleOf[c.kind] = "allow"
      BY <3>2, <3>3
    <3>. QED
      BY <1>4, <3>4 DEF Authorized
  <2>. QED
    BY <2>1, <2>2
<1>. QED
  BY <1>1, <1>2, <1>3, <1>4

(* The goroutine's calls stay authorized while nothing decides anew. *)
LEMMA KeepAuth ==
  ASSUME TypeInv, AuthInv, Next, replies' \subseteq replies,
         UNCHANGED <<remembered, executed>>,
         \/ pc' \notin CallSteps
         \/ /\ pc \in CallSteps \ {"permSend", "permWait"}
            /\ pc' \in CallSteps \ {"permSend", "permWait"}
            /\ UNCHANGED <<resp, results>>
  PROVE  AuthInv'
<1>1. remembered' \subseteq grants'.tools \cup grants'.hooked
  BY GrantsGrow DEF AuthInv, GrantInv
<1>2. \A r \in replies' :
        /\ r.reply \in {"once", "always"} => r.call.id \in grants'.calls
        /\ r.reply = "always" => ToolOf[r.call.kind] \in grants'.tools
  BY GrantsGrow DEF AuthInv, GrantInv
<1>3. AuthorizedExecution'
  BY GrantsGrow DEF AuthInv, AuthorizedExecution
<1>4. pc' \notin {"permSend", "permWait"}
  BY DEF CallSteps
<1>5. CASE pc' \notin CallSteps
  BY <1>1, <1>2, <1>3, <1>4, <1>5 DEF AuthInv, GrantInv
<1>6. CASE /\ pc \in CallSteps \ {"permSend", "permWait"}
           /\ pc' \in CallSteps \ {"permSend", "permWait"}
           /\ UNCHANGED <<resp, results>>
  <2>1. Authorized(Current)
    BY <1>6 DEF AuthInv, GrantInv
  <2>2. Current' = Current
    BY <1>6 DEF Current
  <2>3. Authorized(Current)'
    BY <2>1, <2>2, GrantsGrow
  <2>. QED
    BY <1>1, <1>2, <1>3, <1>4, <2>3 DEF AuthInv, GrantInv
<1>. QED
  BY <1>5, <1>6

LEMMA AuthStep == TypeInv /\ AuthInv /\ [Next]_vars => AuthInv'
<1>. SUFFICES ASSUME TypeInv, AuthInv, [Next]_vars PROVE AuthInv'
  OBVIOUS
<1>1. CASE UNCHANGED vars
  BY <1>1 DEF vars, turnVars, permVars, AuthInv, GrantInv, AuthorizedExecution,
     Authorized, Current
<1>2. ASSUME StartMessage \/ ClearSession \/ Cancel \/ Receive \/ StreamDelta
      PROVE  AuthInv'
  <2>1. /\ UNCHANGED <<permVars, replies>>
        /\ \/ pc' = "hook" \/ pc' = "error"
           \/ UNCHANGED <<pc, resp, results>>
    BY <1>2 DEF StartMessage, ClearSession, Cancel, Receive,
       StreamDelta, turnVars
  <2>2. Next
    BY <1>2 DEF Next
  <2>3. CASE pc' \notin CallSteps
    BY <2>1, <2>2, <2>3, KeepAuth DEF permVars
  <2>4. CASE UNCHANGED <<pc, resp, results>>
    BY <2>1, <2>4 DEF permVars, AuthInv, GrantInv, AuthorizedExecution, Authorized, Current
  <2>. QED
    BY <2>1, <2>3, <2>4 DEF CallSteps
<1>3. ASSUME NEW d \in {"once", "always", "deny"}, AnswerPermission(d) PROVE AuthInv'
  <2>0. Next
    BY <1>3 DEF Next, UserAnswer
  <2>1. /\ UNCHANGED <<pc, resp, results, remembered, executed>>
        /\ replies' = replies \cup {[call |-> ask, reply |-> d]}
    BY <1>3 DEF AnswerPermission, turnVars
  <2>2. /\ d \in {"once", "always"} => ask.id \in grants'.calls
        /\ d = "always" => ToolOf[ask.kind] \in grants'.tools
    BY <1>3 DEF AnswerPermission, TypeInv, TypeOK, PermTypes
  <2>3. \A r \in replies' :
          /\ r.reply \in {"once", "always"} => r.call.id \in grants'.calls
          /\ r.reply = "always" => ToolOf[r.call.kind] \in grants'.tools
    BY <2>0, <2>1, <2>2, GrantsGrow DEF AuthInv, GrantInv
  <2>4. remembered' \subseteq grants'.tools \cup grants'.hooked
    BY <2>0, <2>1, GrantsGrow DEF AuthInv, GrantInv
  <2>5. pc' \in CallSteps \ {"permSend", "permWait"} => Authorized(Current)'
    BY <2>0, <2>1, GrantsGrow DEF AuthInv, GrantInv, Current
  <2>6. AuthorizedExecution'
    BY <2>0, <2>1, GrantsGrow DEF AuthInv, AuthorizedExecution
  <2>. QED
    BY <2>1, <2>3, <2>4, <2>5, <2>6 DEF AuthInv, GrantInv
<1>4. ASSUME AnswerQuestion PROVE AuthInv'
  <2>1. /\ UNCHANGED <<pc, resp, results, permVars>>
        /\ replies' = replies \cup {[call |-> ask, reply |-> "text"]}
    BY <1>4 DEF AnswerQuestion, turnVars
  <2>2. \A r \in replies' :
          /\ r.reply \in {"once", "always"} => r.call.id \in grants.calls
          /\ r.reply = "always" => ToolOf[r.call.kind] \in grants.tools
    BY <2>1 DEF AuthInv, GrantInv
  <2>. QED
    BY <2>1, <2>2 DEF permVars, AuthInv, GrantInv, AuthorizedExecution, Authorized, Current
<1>5. ASSUME NEW b \in BOOLEAN, SubmitPrompt(b) \/ TryCompact(b) \/ Request(b) PROVE AuthInv'
  <2>1. Next
    BY <1>5 DEF Next, LoopStep
  <2>. QED
    BY <1>5, <2>1, KeepAuth DEF SubmitPrompt, TryCompact, Request, Goto, CallSteps, permVars
<1>6. ASSUME StreamError \/ StreamEnds \/ AppendResults \/ FinishTurn \/ SendUsage
             \/ SendDone \/ SendError \/ CloseChannel
      PROVE  AuthInv'
  <2>1. Next
    BY <1>6 DEF Next, LoopStep
  <2>2. pc' \notin CallSteps /\ UNCHANGED <<permVars, replies>>
    BY <1>6 DEF StreamError, StreamEnds, StreamEnd, AppendResults, FinishTurn,
       SendUsage, SendDone, SendError, CloseChannel, Goto, CallSteps
  <2>. QED
    BY <2>1, <2>2, KeepAuth DEF permVars
<1>7. ASSUME CheckCall PROVE AuthInv'
  <2>0. Next
    BY <1>7 DEF Next, LoopStep
  <2>1. pc = "tool" /\ Pending /\ UNCHANGED <<resp, permVars, replies>>
    BY <1>7 DEF CheckCall
  <2>2. CASE Check(Current.kind) \in {"deny", "plan"}
    BY <1>7, <2>0, <2>1, <2>2, KeepAuth DEF CheckCall, Answered, CallSteps, permVars
  <2>3. CASE Check(Current.kind) = "ask"
    <3>1. pc' = "permSend" /\ Streaming /\ PermMode = "prompt"
      <4>1. RuleOf[Current.kind] \in {"allow", "deny", "ask", "none"}
        BY <2>1, CurrentCall, LoopAssumption DEF TypeInv
      <4>. QED
        BY <1>7, <2>3, <4>1, LoopAssumption DEF CheckCall, Check
    <3>. QED
      BY <2>1, <3>1 DEF permVars, AuthInv, GrantInv, AuthorizedExecution, Authorized
  <2>4. CASE Check(Current.kind) \notin {"deny", "plan", "ask"}
    <3>1. Authorized(Current)
      BY <2>1, <2>4, CheckAuthorizes, CurrentCall DEF TypeInv, AuthInv
    <3>2. pc' = Dispatch(Current.kind) /\ results' = results
      BY <1>7, <2>4 DEF CheckCall
    <3>3. pc' \notin {"permSend", "permWait"}
      BY <3>2 DEF Dispatch
    <3>4. Authorized(Current)'
      BY <2>1, <3>1, <3>2 DEF permVars, Authorized, Current
    <3>. QED
      BY <2>1, <3>3, <3>4 DEF permVars, AuthInv, GrantInv, AuthorizedExecution, Authorized
  <2>. QED
    BY <2>2, <2>3, <2>4
<1>9. ASSUME AskPermission PROVE AuthInv'
  <2>0. Next
    BY <1>9 DEF Next, LoopStep
  <2>1. CASE Abandon
    BY <2>0, <2>1, KeepAuth DEF Abandon, permVars, CallSteps
  <2>2. CASE ~Abandon
    BY <1>9, <2>2 DEF AskPermission, Goto, permVars, AuthInv, GrantInv,
       AuthorizedExecution, Authorized
  <2>. QED
    BY <2>1, <2>2
<1>10. ASSUME AskQuestion \/ SendToolStart \/ SendToolDone \/ TakeAnswer PROVE AuthInv'
  <2>0. Next
    BY <1>10 DEF Next, LoopStep
  <2>1. CASE Abandon
    BY <2>0, <2>1, KeepAuth DEF Abandon, permVars, CallSteps
  <2>2. CASE ~Abandon
    BY <1>10, <2>0, <2>2, KeepAuth DEF AskQuestion, SendToolStart, SendToolDone,
       TakeAnswer, Answered, Goto, CallSteps, permVars, turnVars
  <2>. QED
    BY <2>1, <2>2
<1>11. ASSUME TakeDecision PROVE AuthInv'
  <2>0. Next
    BY <1>11 DEF Next, LoopStep
  <2>1. CASE Abandon
    BY <2>0, <2>1, KeepAuth DEF Abandon, permVars, CallSteps
  <2>2. CASE ~Abandon
    <3>1. PICK r \in replies :
            /\ r.call = Current /\ r.reply # "text"
            /\ replies' = replies \ {r}
            /\ IF r.reply = "deny"
                 THEN Answered("tool")
                 ELSE pc' = Dispatch(Current.kind) /\ UNCHANGED results
            /\ remembered' = IF r.reply = "always"
                               THEN remembered \cup {ToolOf[Current.kind]}
                               ELSE remembered
      BY <1>11, <2>2 DEF TakeDecision
    <3>2. pc = "permWait" /\ UNCHANGED <<resp, executed, grants>>
      BY <1>11, <2>2 DEF TakeDecision
    <3>3. r.reply \in {"once", "always", "deny"}
      BY <3>1 DEF TypeInv, TypeOK, UiTypes
    <3>4. remembered' \subseteq grants'.tools \cup grants'.hooked
      BY <3>1, <3>2 DEF AuthInv, GrantInv
    <3>5. pc' \in CallSteps => Authorized(Current)' /\ pc' \notin {"permSend", "permWait"}
      <4>1. CASE r.reply = "deny"
        BY <3>1, <4>1 DEF Answered, CallSteps
      <4>2. CASE r.reply \in {"once", "always"}
        <5>1. Current.id \in grants.calls /\ Streaming /\ PermMode = "prompt"
          BY <3>1, <3>2, <4>2 DEF AuthInv, GrantInv
        <5>2. Current' = Current /\ pc' = Dispatch(Current.kind)
          BY <3>1, <3>2, <4>2 DEF Current
        <5>. QED
          BY <3>2, <5>1, <5>2 DEF Authorized, Dispatch
      <4>. QED
        BY <3>3, <4>1, <4>2
    <3>6. AuthorizedExecution' /\ replies' \subseteq replies
      BY <2>0, <3>1, <3>2, GrantsGrow DEF AuthInv, AuthorizedExecution
    <3>7. pc' \notin {"permSend", "permWait"}
      BY <3>5 DEF CallSteps
    <3>. QED
      BY <3>2, <3>4, <3>5, <3>6, <3>7 DEF AuthInv, GrantInv
  <2>. QED
    BY <2>1, <2>2
<1>12. ASSUME NEW h \in BOOLEAN, ExecuteTool(h) PROVE AuthInv'
  <2>0. Next
    BY <1>12 DEF Next, LoopStep
  <2>1. /\ pc = "exec" /\ executed' = executed \cup {Current}
        /\ replies' = replies /\ pc' \in {"tool", "doneSend"}
    BY <1>12 DEF ExecuteTool, Answered
  <2>2. Authorized(Current)
    BY <2>1 DEF AuthInv, GrantInv, CallSteps
  <2>3. AuthorizedExecution'
    BY <2>0, <2>1, <2>2, GrantsGrow DEF AuthInv, AuthorizedExecution
  <2>4. remembered' \subseteq grants'.tools \cup grants'.hooked
    BY <1>12 DEF ExecuteTool, AuthInv, GrantInv, TypeInv, TypeOK, PermTypes
  <2>5. \A r \in replies' :
          /\ r.reply \in {"once", "always"} => r.call.id \in grants'.calls
          /\ r.reply = "always" => ToolOf[r.call.kind] \in grants'.tools
    BY <2>0, <2>1, GrantsGrow DEF AuthInv, GrantInv
  <2>. QED
    BY <2>1, <2>3, <2>4, <2>5 DEF AuthInv, GrantInv, CallSteps
<1>13. CASE LoopStep
  BY <1>5, <1>6, <1>7, <1>9, <1>10, <1>11, <1>12, <1>13 DEF LoopStep
<1>. QED
  BY <1>1, <1>2, <1>3, <1>4, <1>13 DEF Next, UserAnswer

(* No call runs that the mode, the rules, the user or a hook did not allow. *)
THEOREM ExecutionIsAuthorized == Spec => []AuthorizedExecution
<1>1. Init => AuthInv
  BY DEF Init, AuthInv, GrantInv, AuthorizedExecution, CallSteps
<1>2. AuthInv => AuthorizedExecution
  BY DEF AuthInv
<1>. QED
  BY <1>1, <1>2, TypeInit, TypeStep, AuthStep, PTL DEF Spec

-----------------------------------------------------------------------------
(* Results stay with their calls.  While a response's calls are worked off, *)
(* the last message is that response, and the results gathered so far are   *)
(* those of its first calls; an invariant of its own because HistoryPaired  *)
(* only speaks of results once they are in the history.                     *)
GatheredInv ==
  /\ Len(results) <= Len(resp.calls)
  /\ \A j \in 1..Len(results) : results[j] = resp.calls[j].id
HistInv ==
  /\ HistoryPaired
  /\ pc \in ToolSteps =>
       msgs # <<>> /\ msgs[Len(msgs)].uses = Ids(resp.calls) /\ GatheredInv

(* A history that is left alone stays paired when nothing is being executed, *)
(* when the same response still is, or when its calls are written off.       *)
LEMMA KeepHistory ==
  ASSUME TypeInv, HistInv, msgs' = msgs, lost \subseteq lost',
         \/ pc \notin ToolSteps
         \/ pc' \in ToolSteps /\ resp' = resp
         \/ SeqElems(Ids(resp.calls)) \subseteq lost'
  PROVE  HistoryPaired'
<1>. SUFFICES ASSUME NEW i \in 1..Len(msgs)
     PROVE  /\ msgs[i].results # <<>> =>
                 FollowsItsCalls(i)' \/ (i > 1 /\ msgs[i - 1].role = "system")
            /\ msgs[i].uses # <<>> =>
                 \/ i < Len(msgs) /\ msgs[i + 1].results = msgs[i].uses
                 \/ BeingExecuted(i)'
                 \/ SeqElems(msgs[i].uses) \subseteq lost'
  BY DEF HistoryPaired
<1>1. FollowsItsCalls(i)' = FollowsItsCalls(i)
  BY DEF FollowsItsCalls
<1>2. BeingExecuted(i) => BeingExecuted(i)' \/ SeqElems(msgs[i].uses) \subseteq lost'
  BY DEF BeingExecuted
<1>. QED
  BY <1>1, <1>2 DEF HistInv, HistoryPaired

(* A message may be appended when its results answer the last message and    *)
(* its calls are about to be executed or written off.                        *)
LEMMA AppendHistory ==
  ASSUME TypeInv, HistInv, NEW m \in Messages, msgs' = Append(msgs, m),
         lost \subseteq lost',
         m.results # <<>> => msgs # <<>> /\ msgs[Len(msgs)].uses = m.results,
         pc \in ToolSteps => m.results = Ids(resp.calls),
         m.uses # <<>> => \/ pc' \in ToolSteps /\ m.uses = Ids(resp'.calls)
                          \/ SeqElems(m.uses) \subseteq lost'
  PROVE  HistoryPaired' /\ msgs' # <<>> /\ msgs'[Len(msgs')] = m
<1>0. msgs \in Seq(Messages) /\ Len(msgs) \in Nat
  BY DEF TypeInv, TypeOK, HistTypes
<1>1. PICK n \in Nat : n = Len(msgs)
  BY <1>0
<1>2. /\ Len(msgs') = n + 1 /\ msgs'[n + 1] = m
      /\ \A i \in 1..n : msgs'[i] = msgs[i]
  BY <1>0, <1>1, AppendProperties
<1>3. msgs = <<>> <=> n = 0
  BY <1>0, <1>1, EmptySeq
<1>4. ASSUME NEW i \in 1..n
      PROVE  /\ msgs'[i].results # <<>> =>
                  FollowsItsCalls(i)' \/ (i > 1 /\ msgs'[i - 1].role = "system")
             /\ msgs'[i].uses # <<>> =>
                  \/ i < Len(msgs') /\ msgs'[i + 1].results = msgs'[i].uses
                  \/ SeqElems(msgs'[i].uses) \subseteq lost'
  <2>1. i > 1 => i - 1 \in 1..n
    BY <1>1
  <2>2. FollowsItsCalls(i) => FollowsItsCalls(i)'
    BY <1>2, <2>1 DEF FollowsItsCalls
  <2>3. i < n => i + 1 \in 1..n
    BY <1>1
  <2>4. BeingExecuted(i) => msgs'[i + 1].results = msgs[i].uses
    BY <1>1, <1>2 DEF BeingExecuted
  <2>5. i < Len(msgs')
    BY <1>1, <1>2
  <2>6. msgs[i].results # <<>> =>
          FollowsItsCalls(i) \/ (i > 1 /\ msgs[i - 1].role = "system")
    BY <1>1 DEF HistInv, HistoryPaired
  <2>7. msgs[i].uses # <<>> =>
          \/ i < n /\ msgs[i + 1].results = msgs[i].uses
          \/ BeingExecuted(i)
          \/ SeqElems(msgs[i].uses) \subseteq lost
    BY <1>1 DEF HistInv, HistoryPaired
  <2>. QED
    BY <1>2, <2>1, <2>2, <2>3, <2>4, <2>5, <2>6, <2>7
<1>5. m.results # <<>> => FollowsItsCalls(n + 1)'
  BY <1>1, <1>2, <1>3 DEF FollowsItsCalls
<1>6. m.uses # <<>> => BeingExecuted(n + 1)' \/ SeqElems(m.uses) \subseteq lost'
  BY <1>2 DEF BeingExecuted
<1>7. \A i \in 1..Len(msgs') : i \in 1..n \/ i = n + 1
  BY <1>1, <1>2
<1>8. HistoryPaired'
  <2>. SUFFICES ASSUME NEW i \in 1..Len(msgs')
       PROVE  /\ msgs'[i].results # <<>> =>
                   FollowsItsCalls(i)' \/ (i > 1 /\ msgs'[i - 1].role = "system")
              /\ msgs'[i].uses # <<>> =>
                   \/ i < Len(msgs') /\ msgs'[i + 1].results = msgs'[i].uses
                   \/ BeingExecuted(i)'
                   \/ SeqElems(msgs'[i].uses) \subseteq lost'
    BY DEF HistoryPaired
  <2>1. CASE i \in 1..n
    BY <1>4, <2>1
  <2>2. CASE i = n + 1
    BY <1>2, <1>5, <1>6, <2>2
  <2>. QED
    BY <1>7, <2>1, <2>2
<1>. QED
  BY <1>1, <1>2, <1>8

(* A compaction cuts between the kept messages and a continuation message:   *)
(* results at the cut follow a system message.                               *)
LEMMA CompactHistory ==
  ASSUME TypeInv, HistInv, pc \notin ToolSteps, msgs' = CompactedMessages,
         lost \subseteq lost'
  PROVE  HistoryPaired'
<1>0. msgs \in Seq(Messages) /\ Len(msgs) \in Nat
  BY DEF TypeInv, TypeOK, HistTypes
<1>1. PICK n \in Nat : n = Len(msgs)
  BY <1>0
<1>2. PICK k \in Nat : k <= n /\ k = IF KeepRecent > n THEN n ELSE KeepRecent
  BY <1>1, LoopAssumption
<1>2a. k \in 0..n
  BY <1>2
<1> DEFINE sys == Message("system", <<>>, <<>>)
           rest == SubSeq(msgs, n - k + 1, n)
<1>3. /\ Len(rest) = k /\ rest \in Seq(Messages)
      /\ \A j \in 1..k : rest[j] = msgs[n - k + j]
  <2>0. n - k + 1 \in Int /\ \A j \in (n - k + 1)..n : msgs[j] \in Messages
    BY <1>0, <1>1, <1>2a
  <2>1. /\ rest \in Seq(Messages)
        /\ Len(rest) = IF n - k + 1 <= n THEN n - (n - k + 1) + 1 ELSE 0
        /\ \A j \in 1..(n - (n - k + 1) + 1) : rest[j] = msgs[(n - k + 1) + j - 1]
    BY <2>0, SubSeqProperties
  <2>2. n - (n - k + 1) + 1 = k /\ (n - k + 1 <= n <=> k >= 1)
    BY <1>2a
  <2>3. \A j \in 1..k : (n - k + 1) + j - 1 = n - k + j
    BY <1>2a
  <2>4. Len(rest) = k
    <3>. HIDE DEF rest
    <3>. QED
      BY <1>2a, <2>1, <2>2
  <2>5. \A j \in 1..k : rest[j] = msgs[n - k + j]
    <3>. HIDE DEF rest
    <3>. QED
      BY <2>1, <2>2, <2>3
  <2>. QED
    BY <2>1, <2>4, <2>5
<1>4. sys \in Messages /\ sys.uses = <<>> /\ sys.results = <<>> /\ sys.role = "system"
  BY DEF Message, Messages
<1>5. msgs' = <<sys>> \o rest
  BY <1>1, <1>2 DEF CompactedMessages
<1>. HIDE DEF sys, rest
<1>6. /\ Len(msgs') = k + 1 /\ msgs'[1] = sys
      /\ \A i \in 2..k + 1 : msgs'[i] = msgs[n - k + i - 1]
  <2>1. <<sys>> \in Seq(Messages) /\ Len(<<sys>>) = 1 /\ <<sys>>[1] = sys
    BY <1>4
  <2>2. /\ Len(msgs') = 1 + k
        /\ \A i \in 1..(1 + k) : msgs'[i] =
              IF i <= 1 THEN <<sys>>[i] ELSE rest[i - 1]
    BY <1>2a, <1>3, <1>5, <2>1, ConcatProperties
  <2>3. msgs'[1] = sys
    BY <1>2a, <2>1, <2>2
  <2>4. ASSUME NEW i \in 2..k + 1 PROVE msgs'[i] = msgs[n - k + i - 1]
    <3>1. /\ i - 1 \in 1..k /\ n - k + (i - 1) = n - k + i - 1
          /\ i \in 1..(1 + k) /\ ~(i <= 1)
      BY <1>2a
    <3>2. msgs'[i] = rest[i - 1]
      BY <2>2, <3>1
    <3>3. rest[i - 1] = msgs[n - k + (i - 1)]
      BY <1>3, <3>1
    <3>. QED
      BY <3>1, <3>2, <3>3
  <2>. QED
    BY <1>2a, <2>2, <2>3, <2>4
<1>. SUFFICES ASSUME NEW i \in 1..k + 1
     PROVE  /\ msgs'[i].results # <<>> =>
                 FollowsItsCalls(i)' \/ (i > 1 /\ msgs'[i - 1].role = "system")
            /\ msgs'[i].uses # <<>> =>
                 \/ i < Len(msgs') /\ msgs'[i + 1].results = msgs'[i].uses
                 \/ BeingExecuted(i)'
                 \/ SeqElems(msgs'[i].uses) \subseteq lost'
  BY <1>6 DEF HistoryPaired
<1>7. CASE i = 1
  BY <1>4, <1>6, <1>7
<1>8. CASE i \in 2..k + 1
  <2>1. PICK j \in 1..n : j = n - k + i - 1
    BY <1>2a, <1>8
  <2>2. msgs'[i] = msgs[j] /\ j > 0 /\ (i > 2 => j > 1)
    BY <1>2a, <1>6, <1>8, <2>1
  <2>3. i > 2 => msgs'[i - 1] = msgs[j - 1]
    <3>1. i > 2 => i - 1 \in 2..k + 1 /\ n - k + (i - 1) - 1 = j - 1
      BY <1>2a, <1>8, <2>1
    <3>. QED
      BY <1>6, <3>1
  <2>4. j < n => i < Len(msgs') /\ msgs'[i + 1] = msgs[j + 1]
    <3>1. j < n => i + 1 \in 2..k + 1 /\ n - k + (i + 1) - 1 = j + 1 /\ i < k + 1
      BY <1>2a, <1>8, <2>1
    <3>. QED
      BY <1>6, <3>1
  <2>5. i = 2 => msgs'[i - 1].role = "system"
    BY <1>4, <1>6
  <2>6. FollowsItsCalls(j) /\ i > 2 => FollowsItsCalls(i)'
    BY <2>2, <2>3 DEF FollowsItsCalls
  <2>7. ~BeingExecuted(j)
    BY DEF BeingExecuted
  <2>8. /\ msgs[j].results # <<>> =>
             FollowsItsCalls(j) \/ (j > 1 /\ msgs[j - 1].role = "system")
        /\ msgs[j].uses # <<>> =>
             \/ j < n /\ msgs[j + 1].results = msgs[j].uses
             \/ BeingExecuted(j)
             \/ SeqElems(msgs[j].uses) \subseteq lost
    BY <1>1 DEF HistInv, HistoryPaired
  <2>9. i > 1 /\ (i = 2 \/ i > 2)
    BY <1>2a, <1>8
  <2>10. j > 1 /\ msgs[j - 1].role = "system" /\ i > 2 => msgs'[i - 1].role = "system"
    BY <2>3
  <2>11. msgs'[i].results # <<>> =>
           FollowsItsCalls(i)' \/ (i > 1 /\ msgs'[i - 1].role = "system")
    BY <2>2, <2>5, <2>6, <2>8, <2>9, <2>10
  <2>12. msgs'[i].uses # <<>> =>
           \/ i < Len(msgs') /\ msgs'[i + 1].results = msgs'[i].uses
           \/ SeqElems(msgs'[i].uses) \subseteq lost'
    BY <2>2, <2>4, <2>7, <2>8
  <2>. QED
    BY <2>11, <2>12
<1>. QED
  BY <1>2a, <1>7, <1>8

(* Every result gathered is that of the next call. *)
LEMMA GatherStep ==
  ASSUME TypeInv, GatheredInv, Pending, NEW to, Answered(to), resp' = resp
  PROVE  GatheredInv'
<1>1. results \in Seq(Nat) /\ Len(results) \in Nat /\ Len(resp.calls) \in Nat
      /\ Current.id \in Nat
  BY CurrentCall DEF TypeInv, TypeOK, TurnTypes
<1>2. /\ Len(results') = Len(results) + 1
      /\ \A j \in 1..Len(results) : results'[j] = results[j]
      /\ results'[Len(results) + 1] = resp.calls[Len(results) + 1].id
  BY <1>1, AppendProperties DEF Answered, Current
<1>3. \A j \in 1..Len(results') : j \in 1..Len(results) \/ j = Len(results) + 1
  BY <1>1, <1>2
<1>4. Len(results') <= Len(resp.calls)
  BY <1>1, <1>2 DEF Pending
<1>5. \A j \in 1..Len(results') : results'[j] = resp.calls[j].id
  BY <1>2, <1>3 DEF GatheredInv
<1>. QED
  BY <1>4, <1>5 DEF GatheredInv

(* When no call is left, the results are those of all calls, in their order. *)
LEMMA AllGathered ==
  ASSUME TypeInv, GatheredInv, ~Pending
  PROVE  results = Ids(resp.calls)
<1>1. results \in Seq(Nat) /\ resp.calls \in Seq(Calls)
      /\ Ids(resp.calls) \in Seq(Nat)
  BY IdsOfCalls DEF TypeInv, TypeOK, TurnTypes
<1>2. Len(results) \in Nat /\ Len(resp.calls) \in Nat
  BY <1>1
<1>3. Len(results) = Len(resp.calls)
  BY <1>2 DEF Pending, GatheredInv
<1>4. Len(Ids(resp.calls)) = Len(resp.calls)
  BY <1>2 DEF Ids
<1>5. \A j \in 1..Len(results) : results[j] = Ids(resp.calls)[j]
  BY <1>3 DEF GatheredInv, Ids
<1>. QED
  BY <1>1, <1>3, <1>4, <1>5, SeqEqual

(* A step that leaves the history alone and is not working off calls after. *)
LEMMA QuietHistory ==
  ASSUME TypeInv, HistInv, msgs' = msgs, lost' = lost,
         pc \notin ToolSteps, pc' \notin ToolSteps
  PROVE  HistInv'
<1>1. HistoryPaired'
  BY KeepHistory
<1>. QED
  BY <1>1 DEF HistInv

(* A step of the per-call loop that answers the next call, or none. *)
LEMMA CallHistory ==
  ASSUME TypeInv, HistInv, msgs' = msgs, lost' = lost, resp' = resp,
         pc \in ToolSteps, pc' \in ToolSteps,
         results' = results \/ (Pending /\ \E to : Answered(to))
  PROVE  HistInv'
<1>1. HistoryPaired'
  BY KeepHistory
<1>2. GatheredInv'
  <2>1. CASE results' = results
    BY <2>1 DEF HistInv, GatheredInv
  <2>2. CASE Pending /\ \E to : Answered(to)
    BY <2>2, GatherStep DEF HistInv
  <2>. QED
    BY <2>1, <2>2
<1>. QED
  BY <1>1, <1>2 DEF HistInv

(* An abandoned turn writes its calls off. *)
LEMMA AbandonHistory ==
  ASSUME TypeInv, HistInv, Abandon
  PROVE  HistInv'
<1>1. msgs' = msgs /\ lost' = lost \cup SeqElems(Ids(resp.calls)) /\ pc' = "error"
  BY DEF Abandon
<1>2. HistoryPaired'
  BY <1>1, KeepHistory
<1>. QED
  BY <1>1, <1>2 DEF HistInv, ToolSteps

(* A response: its calls are about to be executed, or are written off. *)
LEMMA ResponseHistory ==
  ASSUME TypeInv, HistInv, NEW kinds \in KindSeqs, NEW text \in BOOLEAN,
         NEW stop \in {"tool_use", "other"}, StreamEnd(kinds, text, stop)
  PROVE  HistInv'
<1> DEFINE calls == Numbered(kinds)
           m == Message("assistant", Ids(calls), <<>>)
<1>1. /\ calls \in Seq(Calls) /\ Ids(calls) \in Seq(Nat) /\ Len(calls) = Len(kinds)
      /\ Len(kinds) \in Nat
  BY NumberedCalls, IdsOfCalls DEF TypeInv, TypeOK, HistTypes, Numbered
<1>2. /\ m \in Messages /\ m.results = <<>> /\ m.uses = Ids(calls)
  BY <1>1 DEF Message, Messages
<1>3. /\ pc \notin ToolSteps /\ resp'.calls = calls /\ results' = <<>>
      /\ pc' = IF stop = "tool_use" THEN "tool" ELSE "finish"
      /\ msgs' = IF text \/ kinds # <<>> THEN Append(msgs, m) ELSE msgs
      /\ lost' = IF stop = "tool_use" THEN lost ELSE lost \cup SeqElems(Ids(calls))
      /\ stop = "tool_use" => kinds # <<>>
  BY DEF StreamEnd, ToolSteps
<1>. HIDE DEF calls, m
<1>4. CASE stop = "tool_use"
  <2>1. pc' \in ToolSteps /\ msgs' = Append(msgs, m) /\ lost' = lost
    BY <1>3, <1>4 DEF ToolSteps
  <2>2. HistoryPaired' /\ msgs' # <<>> /\ msgs'[Len(msgs')] = m
    BY <1>2, <1>3, <2>1, AppendHistory
  <2>3. Len(resp'.calls) \in Nat
    BY <1>1, <1>3
  <2>4. GatheredInv'
    BY <1>3, <2>3 DEF GatheredInv
  <2>. QED
    BY <1>2, <1>3, <2>2, <2>4 DEF HistInv
<1>5. CASE stop # "tool_use"
  <2>1. pc' \notin ToolSteps /\ SeqElems(m.uses) \subseteq lost' /\ lost \subseteq lost'
    BY <1>2, <1>3, <1>5 DEF ToolSteps
  <2>2. CASE msgs' = Append(msgs, m)
    BY <1>2, <1>3, <2>1, <2>2, AppendHistory DEF HistInv
  <2>3. CASE msgs' = msgs
    BY <1>3, <2>1, <2>3, KeepHistory DEF HistInv
  <2>. QED
    BY <1>3, <2>2, <2>3
<1>. QED
  BY <1>4, <1>5

LEMMA HistStep == TypeInv /\ TurnInv /\ HistInv /\ [Next]_vars => HistInv'
<1>. SUFFICES ASSUME TypeInv, TurnInv, HistInv, [Next]_vars PROVE HistInv'
  OBVIOUS
<1>0. /\ pc \in Finished => pc \notin ToolSteps
      /\ ui = "input" => pc \in Finished
  BY DEF Finished, ToolSteps, TurnInv, OneTurnAtATime
<1>1. ASSUME UNCHANGED <<msgs, lost, pc, resp, results>> PROVE HistInv'
  <2>1. CASE pc \in ToolSteps
    BY <1>1, <2>1, CallHistory
  <2>2. CASE pc \notin ToolSteps
    BY <1>1, <2>2, QuietHistory
  <2>. QED
    BY <2>1, <2>2
<1>2. CASE UNCHANGED vars
  BY <1>1, <1>2 DEF vars, histVars, turnVars
<1>3. CASE StartMessage
  <2>1. msgs' = msgs /\ lost' = lost /\ pc \notin ToolSteps /\ pc' \notin ToolSteps
    BY <1>0, <1>3 DEF StartMessage, histVars, ToolSteps
  <2>. QED
    BY <2>1, QuietHistory
<1>4. CASE ClearSession
  <2>1. msgs' = <<>> /\ pc' = pc /\ pc \notin ToolSteps
    BY <1>0, <1>4 DEF ClearSession
  <2>. QED
    BY <2>1 DEF HistInv, HistoryPaired
<1>5. CASE Cancel \/ Receive \/ UserAnswer
  BY <1>1, <1>5 DEF Cancel, Receive, UserAnswer, AnswerQuestion, AnswerPermission,
     histVars, turnVars
<1>6. CASE StreamDelta
  <2>1. msgs' = msgs /\ lost' = lost /\ pc \notin ToolSteps /\ pc' \notin ToolSteps
    BY <1>6 DEF StreamDelta, histVars, ToolSteps
  <2>. QED
    BY <2>1, QuietHistory
<1>7. ASSUME NEW b \in BOOLEAN, SubmitPrompt(b) PROVE HistInv'
  <2>1. pc \notin ToolSteps /\ pc' \notin ToolSteps /\ lost' = lost
        /\ (msgs' = msgs \/ msgs' = Append(msgs, Prompt))
    BY <1>7 DEF SubmitPrompt, Goto, ToolSteps
  <2>2. Prompt \in Messages /\ Prompt.results = <<>> /\ Prompt.uses = <<>>
    BY DEF Prompt, Message, Messages
  <2>3. CASE msgs' = msgs
    BY <2>1, <2>3, QuietHistory
  <2>4. CASE msgs' = Append(msgs, Prompt)
    BY <2>1, <2>2, <2>4, AppendHistory DEF HistInv
  <2>. QED
    BY <2>1, <2>3, <2>4
<1>8. ASSUME NEW b \in BOOLEAN, TryCompact(b) PROVE HistInv'
  <2>1. pc \notin ToolSteps /\ pc' \notin ToolSteps /\ lost' = lost
        /\ (msgs' = msgs \/ msgs' = CompactedMessages)
    BY <1>8 DEF TryCompact, Goto, ToolSteps
  <2>. QED
    BY <2>1, QuietHistory, CompactHistory DEF HistInv
<1>9. ASSUME NEW b \in BOOLEAN, Request(b) PROVE HistInv'
  <2>1. msgs' = msgs /\ lost' = lost /\ pc \notin ToolSteps /\ pc' \notin ToolSteps
    BY <1>9 DEF Request, Goto, histVars, ToolSteps
  <2>. QED
    BY <2>1, QuietHistory
<1>10. CASE StreamError \/ FinishTurn \/ SendUsage \/ SendDone \/ SendError
            \/ CloseChannel
  <2>1. msgs' = msgs /\ lost' = lost /\ pc \notin ToolSteps /\ pc' \notin ToolSteps
    BY <1>10 DEF StreamError, FinishTurn, SendUsage, SendDone, SendError, CloseChannel,
       Goto, histVars, ToolSteps
  <2>. QED
    BY <2>1, QuietHistory
<1>11. CASE StreamEnds
  BY <1>11, ResponseHistory DEF StreamEnds
<1>12. CASE AppendResults
  <2> DEFINE m == Message("user", <<>>, results)
  <2>1. /\ pc = "tool" /\ ~Pending /\ pc' = "request" /\ lost' = lost
        /\ msgs' = Append(msgs, m)
    BY <1>12 DEF AppendResults
  <2>2. /\ pc \in ToolSteps /\ pc' \notin ToolSteps
    BY <2>1 DEF ToolSteps
  <2>3. results = Ids(resp.calls)
    BY <2>1, <2>2, AllGathered DEF HistInv
  <2>4. m \in Messages /\ m.uses = <<>> /\ m.results = Ids(resp.calls)
    BY <2>3 DEF Message, Messages, TypeInv, TypeOK, TurnTypes
  <2>5. msgs # <<>> /\ msgs[Len(msgs)].uses = m.results
    BY <2>2, <2>4 DEF HistInv
  <2>. HIDE DEF m
  <2>6. HistoryPaired'
    BY <2>1, <2>4, <2>5, AppendHistory
  <2>. QED
    BY <2>2, <2>6 DEF HistInv
<1>13. CASE CheckCall
  <2>1. /\ pc = "tool" /\ Pending /\ msgs' = msgs /\ lost' = lost /\ resp' = resp
    BY <1>13 DEF CheckCall, histVars
  <2>2. /\ pc' \in ToolSteps
        /\ results' = results \/ Answered("tool")
    BY <1>13 DEF CheckCall, Answered, Dispatch, ToolSteps
  <2>3. pc \in ToolSteps
    BY <2>1 DEF ToolSteps
  <2>. QED
    BY <2>1, <2>2, <2>3, CallHistory
<1>14. ASSUME AskPermission \/ AskQuestion \/ SendToolStart \/ SendToolDone, ~Abandon
       PROVE  HistInv'
  <2>1. /\ pc \in ToolSteps /\ pc' \in ToolSteps
        /\ UNCHANGED <<msgs, lost, resp, results>>
    BY <1>14 DEF AskPermission, AskQuestion, SendToolStart, SendToolDone, Goto,
       histVars, turnVars, ToolSteps
  <2>. QED
    BY <2>1, CallHistory
<1>15. ASSUME TakeDecision \/ TakeAnswer, ~Abandon PROVE HistInv'
  <2>1. /\ pc \in {"permWait", "askWait"} /\ UNCHANGED <<msgs, lost, resp>>
        /\ pc' \in ToolSteps /\ (results' = results \/ Answered("tool"))
    BY <1>15 DEF TakeDecision, TakeAnswer, Answered, Dispatch, histVars, ToolSteps
  <2>2. Pending /\ pc \in ToolSteps
    BY <2>1 DEF TypeInv, CallInv, CallSteps, ToolSteps
  <2>. QED
    BY <2>1, <2>2, CallHistory
<1>16. ASSUME NEW h \in BOOLEAN, ExecuteTool(h) PROVE HistInv'
  <2>1. /\ pc = "exec" /\ UNCHANGED <<msgs, lost, resp>>
        /\ Answered(IF Streaming THEN "doneSend" ELSE "tool")
    BY <1>16 DEF ExecuteTool, histVars
  <2>2. Pending /\ pc \in ToolSteps /\ pc' \in ToolSteps
    BY <2>1 DEF TypeInv, CallInv, CallSteps, ToolSteps, Answered
  <2>. QED
    BY <2>1, <2>2, CallHistory
<1>17. CASE LoopStep
  BY <1>7, <1>8, <1>9, <1>10, <1>11, <1>12, <1>13, <1>14, <1>15, <1>16, <1>17,
     AbandonHistory DEF LoopStep
<1>. QED
  BY <1>2, <1>3, <1>4, <1>5, <1>6, <1>17 DEF Next

(* Results come right after the calls they answer, in their order, unless a  *)
(* compaction cut between the two, and calls without results are being       *)
(* executed or belong to a turn that ended before: for any compaction        *)
(* threshold and any number of kept messages (conversation.go:729, :870).    *)
THEOREM HistoryStaysPaired == Spec => []HistoryPaired
<1>1. Init => HistInv
  <2>1. Init => msgs = <<>> /\ pc \notin ToolSteps
    BY DEF Init, ToolSteps
  <2>. QED
    BY <2>1 DEF HistInv, HistoryPaired
<1>2. HistInv => HistoryPaired
  BY DEF HistInv
<1>. QED
  BY <1>1, <1>2, TypeInit, TypeStep, TurnInit, TurnStep, HistStep, PTL DEF Spec

-----------------------------------------------------------------------------
(* The end of a turn is announced: from its last event to the reception of  *)
(* that event, the last event in the channel ends the turn.                 *)
EndInv ==
  /\ Streaming /\ ui # "input" /\ (closed \/ pc = "close") =>
       events # <<>> /\ events[Len(events)].type \in {"done", "error"}
  /\ ~Streaming /\ closed => ui = "input"

(* The event that ends a turn is the last one in the channel. *)
LEMMA SendEnd ==
  ASSUME TypeInv, TurnInv, EndInv, NEW type \in {"done", "error"}, Send(type, NoCall),
         pc \notin Finished
  PROVE  EndInv'
<1>1. ~closed'
  BY DEF Send, TurnInv, TerminalEvents
<1>2. CASE Streaming
  <2>1. /\ Event(type, NoCall) \in [type : EventTypes, call : AnyCall]
        /\ Event(type, NoCall).type = type
        /\ events \in Seq([type : EventTypes, call : AnyCall])
        /\ events' = Append(events, Event(type, NoCall))
    BY <1>2 DEF Send, Event, EventTypes, AnyCall, TypeInv, TypeOK, ChanTypes
  <2>2. events' # <<>> /\ events'[Len(events')] = Event(type, NoCall)
    BY <2>1, AppendProperties
  <2>. QED
    BY <1>2, <2>1, <2>2 DEF EndInv
<1>. QED
  BY <1>1, <1>2 DEF EndInv

LEMMA EndStep == TypeInv /\ TurnInv /\ EndInv /\ [Next]_vars => EndInv'
<1>. SUFFICES ASSUME TypeInv, TurnInv, EndInv, [Next]_vars PROVE EndInv'
  OBVIOUS
<1>0. pc \notin Finished => ui # "input" /\ ~closed
  BY DEF TurnInv, OneTurnAtATime, TerminalEvents
<1>1. CASE UNCHANGED vars
  BY <1>1 DEF vars, uiVars, chanVars, EndInv
<1>2. CASE StartMessage
  BY <1>2 DEF StartMessage, EndInv
<1>3. CASE ClearSession \/ Cancel
  BY <1>3 DEF ClearSession, Cancel, uiVars, chanVars, EndInv
<1>4. CASE Receive
  <2>1. /\ events \in Seq([type : EventTypes, call : AnyCall]) /\ events # <<>>
        /\ events' = Tail(events) /\ closed' = closed /\ pc' = pc /\ Streaming
        /\ ui = "busy"
    BY <1>4 DEF Receive, TypeInv, TypeOK, ChanTypes
  <2>2. /\ Len(events) \in Nat \ {0} /\ Head(events) = events[1]
        /\ events' \in Seq([type : EventTypes, call : AnyCall])
        /\ Len(events') = Len(events) - 1
        /\ \A i \in 1..Len(events') : events'[i] = events[i + 1]
    BY <2>1, EmptySeq, HeadTailProperties
  <2>3. Head(events).type \in {"done", "error"} => ui' = "input"
    BY <1>4 DEF Receive
  <2>4. CASE Len(events) = 1
    BY <2>1, <2>2, <2>3, <2>4 DEF EndInv
  <2>5. CASE Len(events) # 1
    <3>1. Len(events') \in 1..Len(events') /\ Len(events') + 1 = Len(events)
      BY <2>2, <2>5
    <3>2. events' # <<>> /\ events'[Len(events')] = events[Len(events)]
      BY <2>2, <3>1, EmptySeq
    <3>. QED
      BY <2>1, <3>2 DEF EndInv
  <2>. QED
    BY <2>4, <2>5
<1>5. CASE UserAnswer
  BY <1>5 DEF UserAnswer, AnswerQuestion, AnswerPermission, chanVars, EndInv
<1>6. ASSUME pc \notin Finished, pc' # "close", closed' = closed PROVE EndInv'
  BY <1>0, <1>6 DEF EndInv
<1>7. CASE StreamDelta
  BY <1>6, <1>7 DEF StreamDelta, Send, chanVars, Finished
<1>8. ASSUME NEW b \in BOOLEAN, SubmitPrompt(b) \/ TryCompact(b) \/ Request(b)
                                 \/ ExecuteTool(b)
      PROVE  EndInv'
  BY <1>6, <1>8 DEF SubmitPrompt, TryCompact, Request, ExecuteTool, Answered, Goto,
     chanVars, Finished
<1>9. CASE StreamError \/ StreamEnds \/ AppendResults \/ SendUsage
  BY <1>6, <1>9 DEF StreamError, StreamEnds, StreamEnd, AppendResults, SendUsage, Send,
     Goto, chanVars, Finished
<1>10. CASE CheckCall \/ AskPermission \/ TakeDecision \/ AskQuestion \/ TakeAnswer
            \/ SendToolStart \/ SendToolDone
  BY <1>6, <1>10 DEF CheckCall, AskPermission, TakeDecision, AskQuestion, TakeAnswer,
     SendToolStart, SendToolDone, Abandon, Answered, Dispatch, Send, Goto, chanVars,
     Finished
<1>11. CASE FinishTurn
  <2>1. pc \notin Finished /\ closed' = closed /\ (pc' = "close" => ~Streaming)
    BY <1>11 DEF FinishTurn, Goto, chanVars, Finished
  <2>. QED
    BY <1>0, <2>1 DEF EndInv
<1>12. CASE SendDone \/ SendError
  <2>1. pc \notin Finished
    BY <1>12 DEF SendDone, SendError, Goto, Finished
  <2>. QED
    BY <1>12, <2>1, SendEnd DEF SendDone, SendError
<1>13. CASE CloseChannel
  BY <1>13 DEF CloseChannel, Goto, EndInv
<1>14. CASE LoopStep
  BY <1>8, <1>9, <1>10, <1>11, <1>12, <1>13, <1>14 DEF LoopStep
<1>. QED
  BY <1>1, <1>2, <1>3, <1>4, <1>5, <1>7, <1>14 DEF Next

(* The front end never meets the closed channel: the event that ends a turn  *)
(* is still to be received (model.go:1343).                                  *)
THEOREM EndsAreAnnounced == Spec => []EndIsAnnounced
<1>1. Init => EndInv
  BY DEF Init, EndInv
<1>2. EndInv => EndIsAnnounced
  BY LoopAssumption DEF EndInv, EndIsAnnounced
<1>. QED
  BY <1>1, <1>2, TypeInit, TypeStep, TurnInit, TurnStep, EndStep, PTL DEF Spec


-----------------------------------------------------------------------------
(* An answer reaches the call that asked.  A question travels as an event,   *)
(* becomes a dialog and then a reply; a question whose turn still runs is in *)
(* one of these places only, and is about the call the goroutine waits on.   *)
AskEvents == {"permAsk", "askUser"}
Dialogs == {"permission", "askUser"}
LiveDialog == ui \in Dialogs /\ ask.id \notin lost
LiveEvent(i) == events[i].type \in AskEvents /\ events[i].call.id \notin lost
LiveReply(r) == r.call.id \notin lost

EventReachesAsker ==
  \A i \in 1..Len(events) : LiveEvent(i) =>
    /\ events[i].call = Current
    /\ pc = IF events[i].type = "permAsk" THEN "permWait" ELSE "askWait"
AskedOnce ==
  /\ LiveDialog => /\ \A i \in 1..Len(events) : ~LiveEvent(i)
                   /\ \A r \in replies : ~LiveReply(r)
  /\ \A i \in 1..Len(events) : LiveEvent(i) =>
       /\ \A r \in replies : ~LiveReply(r)
       /\ \A j \in 1..Len(events) : LiveEvent(j) => j = i
  /\ \A r, q \in replies : LiveReply(r) /\ LiveReply(q) => r = q
AskInv == AnswerReachesAsker /\ EventReachesAsker /\ AskedOnce

(* No question of the running turn is open. *)
Settled ==
  /\ ~LiveDialog
  /\ \A i \in 1..Len(events) : ~LiveEvent(i)
  /\ \A r \in replies : ~LiveReply(r)

LEMMA SettledAsks == Settled => AskInv
BY DEF Settled, AskInv, AnswerReachesAsker, EventReachesAsker, AskedOnce, LiveDialog,
   LiveEvent, LiveReply, Dialogs

LEMMA NotWaiting ==
  ASSUME AskInv, pc \notin {"permWait", "askWait"}
  PROVE  Settled
<1>1. ~LiveDialog
  BY DEF AskInv, AnswerReachesAsker, LiveDialog, Dialogs
<1>2. \A i \in 1..Len(events) : ~LiveEvent(i)
  BY DEF AskInv, EventReachesAsker
<1>3. \A r \in replies : ~LiveReply(r)
  BY DEF AskInv, AnswerReachesAsker, LiveReply
<1>. QED
  BY <1>1, <1>2, <1>3 DEF Settled

(* Settled questions stay settled while no new one is asked. *)
LEMMA StaySettled ==
  ASSUME Settled, lost \subseteq lost',
         events' = events \/ events' = <<>>,
         ask' = ask, ui' = ui \/ ui' \notin Dialogs, replies' \subseteq replies
  PROVE  Settled' /\ AskInv'
<1>1. ~LiveDialog'
  BY DEF Settled, LiveDialog
<1>2. \A i \in 1..Len(events') : ~LiveEvent(i)'
  <2>1. CASE events' = events
    BY <2>1 DEF Settled, LiveEvent
  <2>2. CASE events' = <<>>
    BY <2>2
  <2>. QED
    BY <2>1, <2>2
<1>3. \A r \in replies' : ~LiveReply(r)'
  BY DEF Settled, LiveReply
<1>4. Settled'
  BY <1>1, <1>2, <1>3 DEF Settled
<1>5. Settled' => AskInv'
  BY SettledAsks, PTL
<1>. QED
  BY <1>4, <1>5

(* What an append leaves in the channel. *)
LEMMA SendAppends ==
  ASSUME TypeInv, NEW type \in EventTypes, NEW call \in AnyCall, Send(type, call)
  PROVE  \/ events' = events
         \/ /\ Len(events) \in Nat /\ Len(events') = Len(events) + 1
            /\ \A i \in 1..Len(events) : events'[i] = events[i]
            /\ events'[Len(events) + 1].type = type
            /\ events'[Len(events) + 1].call = call
<1>1. /\ Event(type, call) \in [type : EventTypes, call : AnyCall]
      /\ Event(type, call).type = type /\ Event(type, call).call = call
      /\ events \in Seq([type : EventTypes, call : AnyCall]) /\ Len(events) \in Nat
  BY DEF Event, TypeInv, TypeOK, ChanTypes
<1>2. CASE events' = Append(events, Event(type, call))
  <2>1. /\ Len(events') = Len(events) + 1
        /\ \A i \in 1..Len(events) : events'[i] = events[i]
        /\ events'[Len(events) + 1] = Event(type, call)
    BY <1>1, <1>2, AppendProperties
  <2>. QED
    BY <1>1, <2>1
<1>. QED
  BY <1>2 DEF Send

(* Sending an event that asks nothing. *)
LEMMA SendSettled ==
  ASSUME TypeInv, Settled, NEW type \in EventTypes \ AskEvents, NEW call \in AnyCall,
         Send(type, call), UNCHANGED <<lost, ask, ui, replies>>
  PROVE  AskInv'
<1>1. CASE events' = events
  BY <1>1, StaySettled
<1>2. CASE /\ Len(events) \in Nat /\ Len(events') = Len(events) + 1
           /\ \A i \in 1..Len(events) : events'[i] = events[i]
           /\ events'[Len(events) + 1].type = type
  <2>1. \A i \in 1..Len(events') : i \in 1..Len(events) \/ i = Len(events) + 1
    BY <1>2
  <2>2. \A i \in 1..Len(events') : ~LiveEvent(i)'
    <3>. SUFFICES ASSUME NEW i \in 1..Len(events'), LiveEvent(i)' PROVE FALSE
      OBVIOUS
    <3>1. events'[i].type \in AskEvents /\ events'[i].call.id \notin lost
      BY DEF LiveEvent
    <3>. QED
      BY <1>2, <2>1, <3>1 DEF Settled, LiveEvent
  <2>3. Settled'
    BY <2>2 DEF Settled, LiveDialog, LiveReply
  <2>4. Settled' => AskInv'
    BY SettledAsks, PTL
  <2>. QED
    BY <2>3, <2>4
<1>. QED
  BY <1>1, <1>2, SendAppends

(* Sending a question about the current call. *)
LEMMA SendQuestion ==
  ASSUME TypeInv, Settled, NEW type \in AskEvents, Send(type, Current), Current \in AnyCall,
         UNCHANGED <<lost, ask, ui, replies, resp, results>>,
         pc' = IF type = "permAsk" THEN "permWait" ELSE "askWait"
  PROVE  AskInv'
<1>0. type \in EventTypes
  BY DEF AskEvents, EventTypes
<1>1. CASE events' = events
  BY <1>1, StaySettled
<1>2. CASE /\ Len(events) \in Nat /\ Len(events') = Len(events) + 1
           /\ \A i \in 1..Len(events) : events'[i] = events[i]
           /\ events'[Len(events) + 1].type = type
           /\ events'[Len(events) + 1].call = Current
  <2>1. \A i \in 1..Len(events') : i \in 1..Len(events) \/ i = Len(events) + 1
    BY <1>2
  <2>2. ASSUME NEW i \in 1..Len(events'), LiveEvent(i)' PROVE i = Len(events) + 1
    <3>1. events'[i].type \in AskEvents /\ events'[i].call.id \notin lost
      BY <2>2 DEF LiveEvent
    <3>. QED
      BY <1>2, <2>1, <3>1 DEF Settled, LiveEvent
  <2>3. ~LiveDialog' /\ \A r \in replies' : ~LiveReply(r)'
    BY DEF Settled, LiveDialog, LiveReply
  <2>4. Current' = Current
    BY DEF Current
  <2>5. EventReachesAsker'
    BY <1>2, <2>2, <2>4 DEF EventReachesAsker
  <2>6. AskedOnce'
    BY <2>2, <2>3 DEF AskedOnce
  <2>7. AnswerReachesAsker'
    BY <2>3 DEF AnswerReachesAsker, LiveDialog, LiveReply, Dialogs
  <2>. QED
    BY <2>5, <2>6, <2>7 DEF AskInv
<1>. QED
  BY <1>0, <1>1, <1>2, SendAppends

(* Writing the current call off, or taking its answer, settles everything.   *)
LEMMA CurrentIsResponse ==
  ASSUME TypeInv, Pending
  PROVE  Current.id \in SeqElems(Ids(resp.calls))
<1>1. Len(results) \in Nat /\ Len(resp.calls) \in Nat
  BY CurrentCall DEF TypeInv
<1>2. Len(results) + 1 \in 1..Len(resp.calls)
  BY <1>1 DEF Pending
<1>3. Len(Ids(resp.calls)) = Len(resp.calls)
  BY <1>1 DEF Ids
<1>4. Ids(resp.calls)[Len(results) + 1] = Current.id
  BY <1>2 DEF Ids, Current
<1>. QED
  BY <1>2, <1>3, <1>4 DEF SeqElems

LEMMA AbandonAsks ==
  ASSUME TypeInv, AskInv, Abandon
  PROVE  AskInv'
<1>1. /\ lost' = lost \cup SeqElems(Ids(resp.calls))
      /\ UNCHANGED <<events, ask, ui, replies>>
  BY DEF Abandon, chanVars, uiVars
<1>2. CASE pc \notin {"permWait", "askWait"}
  BY <1>1, <1>2, NotWaiting, StaySettled
<1>3. CASE pc \in {"permWait", "askWait"}
  <2>1. Current.id \in lost'
    BY <1>1, <1>3, CurrentIsResponse DEF TypeInv, CallInv, CallSteps
  <2>2. ~LiveDialog'
    BY <1>1, <2>1 DEF LiveDialog, Dialogs, AskInv, AnswerReachesAsker
  <2>3. \A i \in 1..Len(events') : ~LiveEvent(i)'
    BY <1>1, <2>1 DEF LiveEvent, AskInv, EventReachesAsker
  <2>4. \A r \in replies' : ~LiveReply(r)'
    BY <1>1, <2>1 DEF LiveReply, AskInv, AnswerReachesAsker
  <2>5. Settled'
    BY <2>2, <2>3, <2>4 DEF Settled
  <2>6. Settled' => AskInv'
    BY SettledAsks, PTL
  <2>. QED
    BY <2>5, <2>6
<1>. QED
  BY <1>2, <1>3

LEMMA TakeAsks ==
  ASSUME TypeInv, AskInv, NEW r \in replies, r.call = Current, replies' = replies \ {r},
         UNCHANGED <<events, ask, ui, lost>>
  PROVE  AskInv'
<1>1. ~LiveDialog
  BY DEF AskInv, AskedOnce, AnswerReachesAsker, LiveDialog, LiveReply, Dialogs
<1>2. \A i \in 1..Len(events) : ~LiveEvent(i)
  BY DEF AskInv, AskedOnce, EventReachesAsker, LiveEvent, LiveReply
<1>3. ASSUME NEW q \in replies' PROVE ~LiveReply(q)
  <2>1. q \in replies /\ q # r
    OBVIOUS
  <2>2. LiveReply(q) => q.call = Current
    BY <2>1 DEF AskInv, AnswerReachesAsker, LiveReply
  <2>. QED
    BY <2>1, <2>2 DEF AskInv, AskedOnce, LiveReply
<1>4. Settled'
  <2>1. ~LiveDialog'
    BY <1>1 DEF LiveDialog
  <2>2. \A i \in 1..Len(events') : ~LiveEvent(i)'
    BY <1>2 DEF LiveEvent
  <2>3. \A q \in replies' : ~LiveReply(q)'
    BY <1>3 DEF LiveReply
  <2>. QED
    BY <2>1, <2>2, <2>3 DEF Settled
<1>5. Settled' => AskInv'
  BY SettledAsks, PTL
<1>. QED
  BY <1>4, <1>5

(* The front end opens a dialog for the question at the head of its channel. *)
LEMMA ReceiveAsks ==
  ASSUME TypeInv, AskInv, Receive
  PROVE  AskInv'
<1>1. /\ events \in Seq([type : EventTypes, call : AnyCall]) /\ events # <<>>
      /\ events' = Tail(events) /\ ui = "busy"
      /\ UNCHANGED <<pc, resp, results, lost, replies>>
  BY DEF Receive, TypeInv, TypeOK, ChanTypes, histVars, turnVars
<1>2. /\ Len(events) \in Nat \ {0} /\ Head(events) = events[1]
      /\ Len(events') = Len(events) - 1
      /\ \A i \in 1..Len(events') : events'[i] = events[i + 1]
  BY <1>1, EmptySeq, HeadTailProperties
<1>3. \A i \in 1..Len(events') : i + 1 \in 1..Len(events) /\ i + 1 # 1
  BY <1>2
<1>4. ASSUME NEW i \in 1..Len(events') PROVE LiveEvent(i)' <=> LiveEvent(i + 1)
  BY <1>1, <1>2 DEF LiveEvent
<1>5. Current' = Current
  BY <1>1 DEF Current
<1>6. /\ ui' = "permission" => events[1].type = "permAsk" /\ ask' = events[1].call
      /\ ui' = "askUser" => events[1].type = "askUser" /\ ask' = events[1].call
  BY <1>1, <1>2 DEF Receive, uiVars
<1>7. 1 \in 1..Len(events)
  BY <1>2
<1>8. LiveDialog' => LiveEvent(1)
  BY <1>1, <1>6 DEF LiveDialog, LiveEvent, Dialogs, AskEvents
<1>9. EventReachesAsker'
  <2>. SUFFICES ASSUME NEW i \in 1..Len(events'), LiveEvent(i)'
       PROVE  /\ events'[i].call = Current
              /\ pc = IF events'[i].type = "permAsk" THEN "permWait" ELSE "askWait"
    BY <1>1, <1>5 DEF EventReachesAsker
  <2>. QED
    BY <1>2, <1>3, <1>4 DEF AskInv, EventReachesAsker
<1>10. AskedOnce'
  <2>1. \A r \in replies : LiveReply(r)' <=> LiveReply(r)
    BY <1>1 DEF LiveReply
  <2>2. LiveDialog' => /\ \A i \in 1..Len(events') : ~LiveEvent(i)'
                      /\ \A r \in replies : ~LiveReply(r)
    BY <1>3, <1>4, <1>7, <1>8 DEF AskInv, AskedOnce
  <2>3. \A i \in 1..Len(events') : LiveEvent(i)' => \A r \in replies : ~LiveReply(r)
    BY <1>3, <1>4 DEF AskInv, AskedOnce
  <2>4. ASSUME NEW i \in 1..Len(events'), NEW j \in 1..Len(events'),
               LiveEvent(i)', LiveEvent(j)'
        PROVE  j = i
    <3>1. LiveEvent(i + 1) /\ LiveEvent(j + 1)
      BY <1>4, <2>4
    <3>2. j + 1 = i + 1
      BY <1>3, <3>1 DEF AskInv, AskedOnce
    <3>. QED
      BY <1>2, <3>2
  <2>5. \A r, q \in replies : LiveReply(r) /\ LiveReply(q) => r = q
    BY DEF AskInv, AskedOnce
  <2>. QED
    BY <1>1, <2>1, <2>2, <2>3, <2>4, <2>5 DEF AskedOnce
<1>11. AnswerReachesAsker'
  <2>1. ui' \in Dialogs /\ ask'.id \notin lost => LiveEvent(1)
    BY <1>1, <1>8 DEF LiveDialog
  <2>2. LiveEvent(1) =>
          /\ events[1].call = Current
          /\ pc = IF events[1].type = "permAsk" THEN "permWait" ELSE "askWait"
    BY <1>7 DEF AskInv, EventReachesAsker
  <2>3. /\ ui' = "permission" => ask'.id \in lost \/ (pc = "permWait" /\ ask' = Current)
        /\ ui' = "askUser" => ask'.id \in lost \/ (pc = "askWait" /\ ask' = Current)
    BY <1>6, <2>1, <2>2 DEF Dialogs
  <2>4. \A r \in replies : r.call.id \in lost \/
          (r.call = Current /\ pc = IF r.reply = "text" THEN "askWait" ELSE "permWait")
    BY DEF AskInv, AnswerReachesAsker
  <2>. QED
    BY <1>1, <1>5, <2>3, <2>4 DEF AnswerReachesAsker
<1>. QED
  BY <1>9, <1>10, <1>11 DEF AskInv

(* The user's answer takes the place of the dialog. *)
LEMMA AnswerAsks ==
  ASSUME TypeInv, AskInv, NEW d \in {"once", "always", "deny", "text"},
         ui = IF d = "text" THEN "askUser" ELSE "permission",
         replies' = replies \cup {[call |-> ask, reply |-> d]}, ui' = "busy",
         UNCHANGED <<events, pc, resp, results, lost>>
  PROVE  AskInv'
<1> DEFINE a == [call |-> ask, reply |-> d]
<1>1. a.call = ask /\ a.reply = d
  OBVIOUS
<1>2. Current' = Current
  BY DEF Current
<1>3. LiveReply(a) <=> LiveDialog
  BY <1>1 DEF LiveReply, LiveDialog, Dialogs
<1>. HIDE DEF a
<1>4. ~LiveDialog' /\ \A i \in 1..Len(events) : LiveEvent(i)' <=> LiveEvent(i)
  BY DEF LiveDialog, LiveEvent, Dialogs
<1>5. \A r : LiveReply(r)' <=> LiveReply(r)
  BY DEF LiveReply
<1>6. EventReachesAsker'
  BY <1>2, <1>4 DEF AskInv, EventReachesAsker
<1>7. \A r \in replies' : r \in replies \/ r = a
  BY DEF a
<1>8. AskedOnce'
  BY <1>3, <1>4, <1>5, <1>7 DEF AskInv, AskedOnce
<1>9. AnswerReachesAsker'
  <2>1. a.call.id \in lost \/
          (a.call = Current /\ pc = IF a.reply = "text" THEN "askWait" ELSE "permWait")
    BY <1>1 DEF AskInv, AnswerReachesAsker
  <2>. QED
    BY <1>2, <1>7, <2>1 DEF AskInv, AnswerReachesAsker
<1>. QED
  BY <1>6, <1>8, <1>9 DEF AskInv

LEMMA AskStep == TypeInv /\ TurnInv /\ AskInv /\ [Next]_vars => AskInv'
<1>. SUFFICES ASSUME TypeInv, TurnInv, AskInv, [Next]_vars PROVE AskInv'
  OBVIOUS
<1>0. ui = "input" => pc \notin {"permWait", "askWait"}
  BY DEF TurnInv, OneTurnAtATime, Finished
<1>1. ASSUME UNCHANGED <<events, ask, ui, replies, lost, pc, resp, results>> PROVE AskInv'
  <2>1. Current' = Current /\ (LiveDialog' <=> LiveDialog)
    BY <1>1 DEF Current, LiveDialog
  <2>2. \A i : LiveEvent(i)' <=> LiveEvent(i)
    BY <1>1 DEF LiveEvent
  <2>3. \A r : LiveReply(r)' <=> LiveReply(r)
    BY <1>1 DEF LiveReply
  <2>4. AnswerReachesAsker'
    BY <1>1, <2>1 DEF AskInv, AnswerReachesAsker
  <2>5. EventReachesAsker'
    BY <1>1, <2>1, <2>2 DEF AskInv, EventReachesAsker
  <2>6. AskedOnce'
    BY <1>1, <2>1, <2>2, <2>3 DEF AskInv, AskedOnce
  <2>. QED
    BY <2>4, <2>5, <2>6 DEF AskInv
<1>2. CASE UNCHANGED vars
  BY <1>1, <1>2 DEF vars, histVars, turnVars, chanVars, uiVars
<1>3. ASSUME pc \notin {"permWait", "askWait"}, UNCHANGED <<events, ask, ui, replies>>,
             lost \subseteq lost'
      PROVE  AskInv'
  BY <1>3, NotWaiting, StaySettled
<1>4. CASE StartMessage
  <2>1. /\ events' = <<>> /\ ui' = "busy" /\ ask' = ask /\ replies' = replies
        /\ lost' = lost /\ pc \notin {"permWait", "askWait"}
    BY <1>0, <1>4 DEF StartMessage, histVars
  <2>. QED
    BY <2>1, NotWaiting, StaySettled DEF Dialogs
<1>5. CASE ClearSession \/ Cancel
  BY <1>1, <1>5 DEF ClearSession, Cancel, histVars, turnVars, chanVars, uiVars
<1>6. ASSUME NEW d \in {"once", "always", "deny"}, AnswerPermission(d) PROVE AskInv'
  BY <1>6, AnswerAsks DEF AnswerPermission, histVars, turnVars, chanVars
<1>7. CASE AnswerQuestion
  <2>1. /\ ui = "askUser" /\ replies' = replies \cup {[call |-> ask, reply |-> "text"]}
        /\ ui' = "busy" /\ UNCHANGED <<events, pc, resp, results, lost>>
    BY <1>7 DEF AnswerQuestion, histVars, turnVars, chanVars
  <2>. QED
    BY <2>1, AnswerAsks
<1>8. NoCall \in AnyCall /\ Calls \subseteq AnyCall
      /\ {"text", "usage", "done", "error", "toolStart", "toolDone"}
           \subseteq EventTypes \ AskEvents
  BY DEF AnyCall, EventTypes, AskEvents
<1>9. ASSUME NEW type \in EventTypes \ AskEvents, NEW call \in AnyCall, Send(type, call),
             pc \notin {"permWait", "askWait"}, UNCHANGED <<lost, ask, ui, replies>>
      PROVE  AskInv'
  BY <1>9, NotWaiting, SendSettled
<1>10. CASE StreamDelta
  <2>1. pc = "stream" /\ UNCHANGED <<lost, ask, ui, replies>>
    BY <1>10 DEF StreamDelta, histVars, uiVars
  <2>2. CASE Send("text", NoCall)
    BY <1>8, <1>9, <2>1, <2>2
  <2>3. CASE UNCHANGED chanVars
    BY <1>3, <2>1, <2>3 DEF chanVars
  <2>. QED
    BY <1>10, <2>2, <2>3 DEF StreamDelta
<1>11. CASE SendUsage \/ SendDone \/ SendError
  BY <1>8, <1>9, <1>11 DEF SendUsage, SendDone, SendError, Goto, histVars, uiVars
<1>12. ASSUME NEW b \in BOOLEAN, SubmitPrompt(b) \/ TryCompact(b) \/ Request(b)
                                  \/ ExecuteTool(b)
       PROVE  AskInv'
  BY <1>3, <1>12 DEF SubmitPrompt, TryCompact, Request, ExecuteTool, Goto, histVars,
     chanVars, uiVars
<1>13. CASE StreamError \/ StreamEnds \/ CheckCall \/ AppendResults \/ FinishTurn
  BY <1>3, <1>13 DEF StreamError, StreamEnds, StreamEnd, CheckCall, AppendResults,
     FinishTurn, Goto, histVars, chanVars, uiVars
<1>14. CASE CloseChannel
  <2>1. /\ pc = "close" /\ UNCHANGED <<lost, events, ask, replies>>
        /\ ui' = ui \/ ui' = "input"
    BY <1>14 DEF CloseChannel, Goto, histVars
  <2>. QED
    BY <2>1, NotWaiting, StaySettled DEF Dialogs
<1>15. ASSUME AskPermission \/ AskQuestion, ~Abandon PROVE AskInv'
  <2>1. /\ pc \in {"permSend", "askSend"}
        /\ UNCHANGED <<lost, ask, ui, replies, resp, results>>
        /\ \/ Send("permAsk", Current) /\ pc' = "permWait"
           \/ Send("askUser", Current) /\ pc' = "askWait"
    BY <1>15 DEF AskPermission, AskQuestion, Goto, histVars, turnVars, uiVars
  <2>2. Current \in AnyCall
    BY <1>8, <2>1, CurrentCall DEF TypeInv, CallInv, CallSteps
  <2>3. Settled
    BY <2>1, NotWaiting
  <2>4. CASE Send("permAsk", Current) /\ pc' = "permWait"
    BY <2>1, <2>2, <2>3, <2>4, SendQuestion DEF AskEvents
  <2>5. CASE Send("askUser", Current) /\ pc' = "askWait"
    BY <2>1, <2>2, <2>3, <2>5, SendQuestion DEF AskEvents
  <2>. QED
    BY <2>1, <2>4, <2>5
<1>16. ASSUME SendToolStart, ~Abandon PROVE AskInv'
  <2>1. pc = "startSend" /\ Send("toolStart", Current) /\ UNCHANGED <<lost, ask, ui, replies>>
    BY <1>16 DEF SendToolStart, Goto, histVars, uiVars
  <2>2. Current \in AnyCall
    BY <1>8, <2>1, CurrentCall DEF TypeInv, CallInv, CallSteps
  <2>. QED
    BY <1>8, <1>9, <2>1, <2>2
<1>17. ASSUME SendToolDone, ~Abandon PROVE AskInv'
  <2>1. /\ pc = "doneSend" /\ Send("toolDone", resp.calls[Len(results)])
        /\ UNCHANGED <<lost, ask, ui, replies>>
    BY <1>17 DEF SendToolDone, Goto, histVars, uiVars
  <2>2. resp.calls[Len(results)] \in AnyCall
    BY <1>8, <2>1 DEF TypeInv, TypeOK, CallInv, TurnTypes
  <2>. QED
    BY <1>8, <1>9, <2>1, <2>2
<1>18. ASSUME TakeDecision \/ TakeAnswer, ~Abandon PROVE AskInv'
  <2>1. /\ UNCHANGED <<lost, ask, ui, events>>
        /\ \E r \in replies : r.call = Current /\ replies' = replies \ {r}
    BY <1>18 DEF TakeDecision, TakeAnswer, histVars, chanVars, uiVars
  <2>. QED
    BY <2>1, TakeAsks
<1>19. CASE LoopStep
  BY <1>11, <1>12, <1>13, <1>14, <1>15, <1>16, <1>17, <1>18, <1>19, AbandonAsks DEF LoopStep
<1>. QED
  BY <1>2, <1>4, <1>5, <1>6, <1>7, <1>10, <1>19, ReceiveAsks DEF Next, UserAnswer

LEMMA AskInit == Init => AskInv
<1>. SUFFICES ASSUME Init PROVE AskInv
  OBVIOUS
<1>1. events = <<>> /\ ui = "input" /\ replies = {}
  BY DEF Init
<1>2. Settled
  BY <1>1 DEF Settled, LiveDialog, Dialogs
<1>. QED
  BY <1>2, SettledAsks

(* Answers reach the call that asked, and the end of a turn its screen,      *)
(* however the user's answers, the cancellation and the goroutine's steps    *)
(* interleave (conversation.go:770-860, model.go:1086).                      *)
THEOREM AnswersAlwaysArrive == Spec => []AnswersArrive
<1>1. TypeInv /\ EndInv /\ AskInv => AnswersArrive
  BY LoopAssumption DEF TypeInv, EndInv, EndIsAnnounced, AskInv, AnswersArrive
<1>2. Init => EndInv
  BY DEF Init, EndInv
<1>. QED
  BY <1>1, <1>2, TypeInit, TypeStep, TurnInit, TurnStep, EndStep, AskInit, AskStep, PTL
     DEF Spec
=============================================================================
