--------------------------- MODULE ResponsesStream ---------------------------
(* streamResponsesEvents (internal/api/providers/openai/responses.go): the    *)
(* frames of the Responses API, which name their items, become content blocks  *)
(* with an index each.  What the server does with its items depends on the    *)
(* style of this upstream: it ends each before the next, it lets them overlap, *)
(* or it sends arguments before the item that names the call.  The accumulator *)
(* of one call (internal/api/sseutil/toolcall.go) buffers arguments until id   *)
(* and name are known; the assembler at the other end of the channel           *)
(* (runOneTurnStreaming) rebuilds texts and calls from the events.  Arguments  *)
(* and texts are sequences of fragment numbers.                                *)
EXTENDS Integers, Sequences, FiniteSets, SequencesExt

CONSTANTS
  CallItems,      \* the items that are calls of a tool
  TextItems,      \* messages of the response
  MaxFrags        \* bound on the fragments of an item

ASSUME ResponseAssumption ==
  /\ IsFiniteSet(CallItems) /\ IsFiniteSet(TextItems) /\ CallItems \cap TextItems = {}
  /\ MaxFrags \in Nat

VARIABLES
  style,          \* how this upstream orders its frames
  item,           \* the server: what it has sent of each item
  upstream,       \* the server: whether the response is completed or the body ended
  acc,            \* fnByItem
  text,           \* textByItem
  opened,         \* textOpenOrder and fnOpenOrder, one sequence each
  nextIndex,      \* nextBlockIndex
  reason,         \* stopReason
  sent            \* the events put in the channel so far

responseVars == <<style, item, upstream, acc, text, opened, nextIndex, reason, sent>>

Event(type, index, who, frags) == [type |-> type, index |-> index, item |-> who, frags |-> frags]
StartOf(index, who) == Event("start", index, who, <<>>)
DeltaOf(index, who, frags) == Event("delta", index, who, frags)
StopOf(index, who) == Event("stop", index, who, <<>>)
ErrorEvent == Event("error", 0, "none", <<>>)

NewAccumulator(index) ==
  [index |-> index, started |-> FALSE, stopped |-> FALSE, named |-> FALSE, received |-> FALSE, buffer |-> <<>>]

(* HandleDelta: the accumulator after a fragment, and the events it emits.    *)
HandleDelta(a, who, named, frags) ==
  LET known == a.named \/ named
      starts == ~a.started /\ known
      open == a.started \/ starts
      put == [a EXCEPT !.named = known, !.started = open, !.received = @ \/ frags # <<>>,
                       !.buffer = IF starts THEN <<>> ELSE IF open THEN @ ELSE @ \o frags]
  IN IF a.stopped THEN [acc |-> a, events |-> <<>>]
     ELSE [acc |-> put,
           events |-> (IF starts THEN <<StartOf(a.index, who)>> ELSE <<>>)
                      \o (IF starts /\ a.buffer # <<>> THEN <<DeltaOf(a.index, who, a.buffer)>> ELSE <<>>)
                      \o (IF open /\ frags # <<>> THEN <<DeltaOf(a.index, who, frags)>> ELSE <<>>)]

(* HandleDone: the whole arguments, unless some came as deltas.               *)
MutHandleDone(a, who, frags) == HandleDelta(a, who, FALSE, frags)
HandleDone(a, who, frags) ==
  IF a.received \/ frags = <<>> THEN [acc |-> a, events |-> <<>>] ELSE HandleDelta(a, who, FALSE, frags)

(* MarkStarted: the start is sent at once; the buffer is not looked at.       *)
MarkStarted(a, who) ==
  [acc |-> [a EXCEPT !.named = TRUE, !.started = TRUE], events |-> <<StartOf(a.index, who)>>]

Finish(a, who) ==
  IF a.started /\ ~a.stopped
  THEN [acc |-> [a EXCEPT !.stopped = TRUE], events |-> <<StopOf(a.index, who)>>]
  ELSE [acc |-> a, events |-> <<>>]

-----------------------------------------------------------------------------
(* The assembler: the call that input is added to is the one started last,    *)
(* until any block stops; all text goes to one buffer, which a stop of a text  *)
(* block ends.                                                                 *)
NoParts == [texts |-> <<>>, tools |-> <<>>, text |-> <<>>, current |-> FALSE, kinds |-> {}, stop |-> "none", failed |-> FALSE]

Assemble(parts, e) ==
  LET n == Len(parts.tools)
  IN IF parts.failed THEN parts
     ELSE CASE e.type = "error" -> [parts EXCEPT !.failed = TRUE]
            [] e.type = "start" ->
                 IF e.item \in CallItems
                 THEN [parts EXCEPT !.tools = Append(@, [item |-> e.item, input |-> <<>>]), !.current = TRUE]
                 ELSE [parts EXCEPT !.kinds = @ \cup {e.index}]
            [] e.type = "delta" ->
                 IF e.item \notin CallItems THEN [parts EXCEPT !.text = @ \o e.frags]
                 ELSE IF parts.current THEN [parts EXCEPT !.tools[n].input = @ \o e.frags] ELSE parts
            [] e.type = "stop" ->
                 IF e.index \in parts.kinds /\ parts.text # <<>>
                 THEN [parts EXCEPT !.texts = Append(@, parts.text), !.text = <<>>, !.current = FALSE]
                 ELSE [parts EXCEPT !.current = FALSE]
            [] e.type = "end" -> [parts EXCEPT !.stop = e.item]

-----------------------------------------------------------------------------
Styles == {"sequential", "overlapping", "late"}
Items == TextItems \cup CallItems
NoText == [index |-> -1, started |-> FALSE, closed |-> FALSE]
Unmade == NewAccumulator(-1)

ResponseTypeOK ==
  /\ style \in Styles /\ upstream \in {"open", "completed", "ended"}
  /\ item \in [Items -> [announced : {"no", "bare", "named"}, frags : 0..MaxFrags, done : BOOLEAN]]
  /\ \A f \in CallItems : acc[f].index \in -1..(nextIndex - 1) /\ acc[f].started \in BOOLEAN
  /\ text \in [TextItems -> [index : -1..(nextIndex - 1), started : BOOLEAN, closed : BOOLEAN]]
  /\ nextIndex \in 0..Cardinality(Items) /\ reason \in {"end_turn", "tool_use"}

ResponseInit ==
  /\ style \in Styles /\ upstream = "open"
  /\ item = [i \in Items |-> [announced |-> "no", frags |-> 0, done |-> FALSE]]
  /\ acc = [f \in CallItems |-> Unmade] /\ text = [t \in TextItems |-> NoText]
  /\ opened = [text |-> <<>>, call |-> <<>>] /\ nextIndex = 0 /\ reason = "end_turn" /\ sent = <<>>

-----------------------------------------------------------------------------
(* What the server may send next, by its style.                               *)
Begun(i) == item[i].announced # "no" \/ item[i].frags > 0 \/ item[i].done
MaySend(i) == /\ upstream = "open" /\ ~item[i].done
              /\ style = "sequential" => \A j \in Items \ {i} : Begun(j) => item[j].done
MayAddress(i) == MaySend(i) /\ (style = "late" \/ item[i].announced # "no")
(* The fragments an item has when it is done: all of its arguments, which     *)
(* come in its last frame alone when there was no delta.                       *)
Whole(i) == IF item[i].frags = 0 THEN <<1>> ELSE [k \in 1..item[i].frags |-> k]

Announce(i, how) == item' = [item EXCEPT ![i].announced = how]
Sends(events) == sent' = sent \o events
Fresh(f) == IF acc[f].index = -1 THEN NewAccumulator(nextIndex) ELSE acc[f]
(* The accumulator of a call, allocated when an argument comes first.          *)
WithCall(f, step) ==
  /\ acc' = [acc EXCEPT ![f] = step.acc] /\ Sends(step.events)
  /\ nextIndex' = nextIndex + (IF acc[f].index = -1 THEN 1 ELSE 0)
  /\ opened' = IF acc[f].index = -1 THEN [opened EXCEPT !.call = Append(@, f)] ELSE opened

(* A response with a call stops for its tools.                               *)
MutReasonOfCalls == reason
ReasonOfCalls == "tool_use"
(* response.output_item.added of a function_call, with or without its id and  *)
(* name.  An item that already has an accumulator is skipped.                  *)
CallAdded(f) ==
  /\ MaySend(f) /\ item[f].announced = "no"
  /\ \E how \in IF style = "late" THEN {"bare", "named"} ELSE {"named"} :
       /\ Announce(f, how)
       /\ IF acc[f].index # -1 THEN UNCHANGED <<acc, opened, nextIndex, reason, sent>>
          ELSE /\ reason' = ReasonOfCalls
               /\ WithCall(f, IF how = "named" THEN MarkStarted(Fresh(f), f)
                              ELSE [acc |-> Fresh(f), events |-> <<>>])
  /\ UNCHANGED <<style, upstream, text>>

MessageAdded(t) ==
  /\ MaySend(t) /\ item[t].announced = "no" /\ Announce(t, "named")
  /\ IF text[t].index = -1
     THEN text' = [text EXCEPT ![t].index = nextIndex] /\ nextIndex' = nextIndex + 1
     ELSE UNCHANGED <<text, nextIndex>>
  /\ UNCHANGED <<style, upstream, acc, opened, reason, sent>>

TextDelta(t) ==
  /\ MayAddress(t) /\ item[t].frags < MaxFrags
  /\ item' = [item EXCEPT ![t].frags = @ + 1]
  /\ LET index == IF text[t].index = -1 THEN nextIndex ELSE text[t].index
     IN /\ nextIndex' = nextIndex + (IF text[t].index = -1 THEN 1 ELSE 0)
        /\ text' = [text EXCEPT ![t] = [index |-> index, started |-> TRUE, closed |-> FALSE]]
        /\ Sends((IF text[t].started THEN <<>> ELSE <<StartOf(index, t)>>)
                 \o <<DeltaOf(index, t, <<item[t].frags + 1>>)>>)
  /\ opened' = IF text[t].started THEN opened ELSE [opened EXCEPT !.text = Append(@, t)]
  /\ UNCHANGED <<style, upstream, acc, reason>>

CloseText(t) == text[t].started /\ ~text[t].closed
TextDone(t) ==
  /\ MayAddress(t) /\ item' = [item EXCEPT ![t].done = TRUE]
  /\ IF CloseText(t)
     THEN text' = [text EXCEPT ![t].closed = TRUE] /\ Sends(<<StopOf(text[t].index, t)>>)
     ELSE UNCHANGED <<text, sent>>
  /\ UNCHANGED <<style, upstream, acc, opened, nextIndex, reason>>

ArgumentsDelta(f) ==
  /\ MayAddress(f) /\ item[f].frags < MaxFrags
  /\ item' = [item EXCEPT ![f].frags = @ + 1]
  /\ WithCall(f, HandleDelta(Fresh(f), f, FALSE, <<item[f].frags + 1>>))
  /\ UNCHANGED <<style, upstream, text, reason>>

ArgumentsDone(f) ==
  /\ MayAddress(f) /\ item' = [item EXCEPT ![f].done = TRUE]
  /\ WithCall(f, HandleDone(Fresh(f), f, Whole(f)))
  /\ UNCHANGED <<style, upstream, text, reason>>

(* response.completed: calls of the final output that have an accumulator and  *)
(* are not started yet are started now, in the order of that output.           *)
MutStartable(f) == acc[f].index # -1
Startable(f) == acc[f].index # -1 /\ ~acc[f].started
Completed ==
  /\ upstream = "open" /\ \A i \in Items : Begun(i) => item[i].done
  /\ upstream' = "completed"
  /\ acc' = [f \in CallItems |-> IF Startable(f) THEN MarkStarted(acc[f], f).acc ELSE acc[f]]
  /\ \E late \in SetToSeqs({f \in CallItems : Startable(f)}) :
       Sends([k \in 1..Len(late) |-> StartOf(acc[late[k]].index, late[k])])
  /\ UNCHANGED <<style, item, text, opened, nextIndex, reason>>

(* An error frame, response.failed, response.incomplete, a stalled or broken   *)
(* read: the error is the last event.                                          *)
StreamFails ==
  /\ upstream # "ended" /\ upstream' = "ended" /\ Sends(<<ErrorEvent>>)
  /\ UNCHANGED <<style, item, acc, text, opened, nextIndex, reason>>

(* [DONE] or the end of the body: what is still open is stopped.               *)
MutTextSweep == <<>>
TextSweep ==
  FlattenSeq([k \in 1..Len(opened.text) |->
                LET t == opened.text[k] IN IF CloseText(t) THEN <<StopOf(text[t].index, t)>> ELSE <<>>])
CallSweep == FlattenSeq([k \in 1..Len(opened.call) |-> Finish(acc[opened.call[k]], opened.call[k]).events])
BodyEnds ==
  /\ upstream # "ended" /\ upstream' = "ended"
  /\ Sends(TextSweep \o CallSweep \o <<Event("end", 0, reason, <<>>)>>)
  /\ text' = [t \in TextItems |-> [text[t] EXCEPT !.closed = @ \/ CloseText(t)]]
  /\ acc' = [f \in CallItems |-> Finish(acc[f], f).acc]
  /\ UNCHANGED <<style, item, opened, nextIndex, reason>>

ResponseNext ==
  \/ \E f \in CallItems : CallAdded(f) \/ ArgumentsDelta(f) \/ ArgumentsDone(f)
  \/ \E t \in TextItems : MessageAdded(t) \/ TextDelta(t) \/ TextDone(t)
  \/ Completed \/ StreamFails \/ BodyEnds

ResponseSpec == ResponseInit /\ [][ResponseNext]_responseVars

-----------------------------------------------------------------------------
(* The way back: the history as the input of a Responses request and as the   *)
(* messages of the chat API. A block is of a type and, but for text and        *)
(* thinking, of a call.                                                        *)
Block(type, id) == [type |-> type, id |-> id]
Text == Block("text", "none")
OfType(type, blocks) ==
  FlattenSeq([i \in 1..Len(blocks) |-> IF blocks[i].type = type THEN <<blocks[i]>> ELSE <<>>])
ItemOf(b) ==
  [type |-> IF b.type = "tool_use" THEN "function_call" ELSE "function_call_output", id |-> b.id, role |-> "none"]

(* Calls and results leave in their order, then the texts of the message in   *)
(* one item; anything else is left out.                                        *)
ResponsesInput(msg) ==
  LET own == IF msg.role = "user" THEN "tool_result" ELSE "tool_use"
      items == OfType(own, msg.content)
  IN [i \in 1..Len(items) |-> ItemOf(items[i])]
     \o (IF OfType("text", msg.content) = <<>> THEN <<>>
         ELSE <<[type |-> "message", id |-> "none", role |-> msg.role]>>)
ConvertMessagesToResponsesInput(messages) ==
  FlattenSeq([i \in 1..Len(messages) |-> ResponsesInput(messages[i])])

(* A chat message: one for each result, before the user's words; the calls of *)
(* an assistant in its one message, also when it says nothing else.            *)
ChatMessage(role, words, calls, id) == [role |-> role, words |-> words, calls |-> calls, id |-> id]
Said(msg) == OfType("text", msg.content) # <<>>
ChatWords(msg) == IF Said(msg) THEN <<ChatMessage("user", TRUE, <<>>, "none")>> ELSE <<>>
ChatResults(msg) ==
  LET results == OfType("tool_result", msg.content)
  IN [i \in 1..Len(results) |-> ChatMessage("tool", TRUE, <<>>, results[i].id)]
MutChatUser(msg) == ChatWords(msg) \o ChatResults(msg)
ChatUser(msg) == ChatResults(msg) \o ChatWords(msg)
ChatAssistant(msg) ==
  LET calls == OfType("tool_use", msg.content)
  IN <<ChatMessage("assistant", Said(msg), [i \in 1..Len(calls) |-> calls[i].id], "none")>>
ConvertMessages(messages) ==
  FlattenSeq([i \in 1..Len(messages) |->
                IF messages[i].role = "user" THEN ChatUser(messages[i]) ELSE ChatAssistant(messages[i])])

-----------------------------------------------------------------------------
(* What a stream of events may look like: a block starts once, its deltas lie  *)
(* between its start and its stop, and an index belongs to one item.           *)
WellFormed(out) ==
  \A i \in 1..Len(out) : out[i].type \in {"delta", "stop"} =>
    \E k \in 1..(i - 1) : /\ out[k].type = "start" /\ out[k].index = out[i].index
                          /\ out[k].item = out[i].item
                          /\ \A j \in (k + 1)..(i - 1) :
                               out[j].index = out[i].index => out[j].type = "delta"
StartedOnce(out) ==
  \A i, k \in 1..Len(out) : out[i].type = "start" /\ out[k].type = "start" /\ out[i].index = out[k].index => i = k
AllStopped(out) ==
  \A i \in 1..Len(out) : out[i].type = "start" =>
    \E k \in (i + 1)..Len(out) : out[k].type = "stop" /\ out[k].index = out[i].index
FragsOf(out, who) ==
  FlattenSeq([k \in 1..Len(out) |-> IF out[k].type = "delta" /\ out[k].item = who THEN out[k].frags ELSE <<>>])

EndsWell == sent # <<>> /\ Last(sent).type = "end"
Assembled ==
  LET Parts[n \in 0..Len(sent)] == IF n = 0 THEN NoParts ELSE Assemble(Parts[n - 1], sent[n])
  IN Parts[Len(sent)]

(* responses.go:685-694: a block is started once, what belongs to it lies      *)
(* between its start and its stop, and a stream that ends well stops them all, *)
(* in whatever order the items came and however late their names.              *)
BlocksAreWellFormed == StartedOnce(sent) /\ WellFormed(sent) /\ (EndsWell => AllStopped(sent))

(* responses.go:651-658, toolcall.go:136-140: the last frame of a call repeats *)
(* its arguments for some upstreams and brings them for others; either way     *)
(* they are in the events once, if the call was named before them.             *)
ArgumentsOnce ==
  \A f \in CallItems : item[f].announced = "named" /\ acc[f].buffer = <<>> /\ item[f].done /\ acc[f].started =>
                         FragsOf(sent, f) = Whole(f)

(* A response whose items do not overlap is rebuilt by the loop as it was:     *)
(* each call with its own arguments, the texts in order, and a stop reason     *)
(* that makes the loop run the calls.                                          *)
RebuiltAsSent ==
  style = "sequential" /\ EndsWell /\ upstream = "ended" /\ (\A i \in Items : Begun(i) => item[i].done) =>
    /\ \A k \in 1..Len(Assembled.tools) : Assembled.tools[k].input = Whole(Assembled.tools[k].item)
    /\ Len(Assembled.tools) = Cardinality({f \in CallItems : Begun(f)})
    /\ Len(Assembled.texts) = Cardinality({t \in TextItems : item[t].frags > 0})
    /\ (Assembled.tools # <<>>) = (Assembled.stop = "tool_use")

(* responses.go:678-683: the calls are started after the fact "otherwise the  *)
(* buffered argument fragments would silently drop", so that a completed       *)
(* response has every argument the server sent in its events.                  *)
BufferedArgumentsArrive ==
  upstream = "completed" =>
    \A f \in CallItems : acc[f].started /\ item[f].announced = "bare" => FragsOf(sent, f) = Whole(f)
(* A history in which every call is answered by the next message makes a      *)
(* request in which it is too, as both APIs demand: each call once and its     *)
(* output after it, with nothing but calls, outputs and the assistant's own    *)
(* words in between; in the chat API the results directly after the message    *)
(* with the calls, whatever else the user's message says                       *)
(* (responses.go:283-353, convert.go:11-92).                                   *)
Turns ==
  {<<asks, answer>> :
     asks \in {<<Block("tool_use", "c1")>>, <<Text, Block("tool_use", "c1"), Block("tool_use", "c2")>>,
              <<Block("thinking", "none"), Block("tool_use", "c1"), Text>>},
     answer \in SetToAllKPermutations({Text, Block("tool_result", "c1"), Block("tool_result", "c2")})}
CallsOf(blocks) == {blocks[i].id : i \in {j \in DOMAIN blocks : blocks[j].type \in {"tool_use", "tool_result"}}}
PairedHistories ==
  {<<[role |-> "user", content |-> <<Text>>], [role |-> "assistant", content |-> t[1]],
     [role |-> "user", content |-> t[2]], [role |-> "assistant", content |-> <<Text>>]>> :
     t \in {u \in Turns : CallsOf(u[1]) = CallsOf(u[2])}}
OutputsFollow(input) ==
  \A i \in DOMAIN input : input[i].type = "function_call" =>
    \E k \in (i + 1)..Len(input) :
      /\ input[k].type = "function_call_output" /\ input[k].id = input[i].id
      /\ \A j \in (i + 1)..(k - 1) :
           IF input[j].type = "message" THEN input[j].role = "assistant" ELSE input[j].id # input[i].id
ResultsFollow(messages) ==
  \A i \in DOMAIN messages :
    LET n == Len(messages[i].calls)
    IN /\ i + n <= Len(messages)
       /\ {messages[k].id : k \in (i + 1)..(i + n)} = Range(messages[i].calls)
RequestsArePaired ==
  \A history \in PairedHistories :
    OutputsFollow(ConvertMessagesToResponsesInput(history)) /\ ResultsFollow(ConvertMessages(history))
=============================================================================
