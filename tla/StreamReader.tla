---------------------------- MODULE StreamReader ----------------------------
(* One request to a model and the stream that answers it: the attempts of the *)
(* Anthropic client (internal/api/client.go) or the one attempt of the OpenAI  *)
(* and Bedrock clients, then a goroutine that reads the body event by event    *)
(* into a channel, a watchdog that closes a body nothing comes from            *)
(* (sseutil/idlewatchdog.go), and the turn that takes events from the channel  *)
(* (runOneTurnStreaming).  Contents of the events are in ResponsesStream.      *)
EXTENDS Integers, Sequences

CONSTANTS
  MaxAttempts,    \* defaultMaxRetries
  MaxLines,       \* bound on the lines of a body
  ChanCapacity    \* of the channel of events (64 in the code)

ASSUME StreamAssumption == MaxAttempts \in Nat \ {0} /\ MaxLines \in Nat /\ ChanCapacity \in Nat

VARIABLES
  dialect,        \* "anthropic", "bedrock", "chat" (openaiwire), or "responses"
  attempt,        \* the attempt made, or being made
  request,        \* what became of the request
  upstream,         \* the other end of the body
  lines,          \* lines it has sent
  wire,           \* those not read yet
  finished,       \* it has said that the response is complete
  reader,         \* the goroutine: "read", "send", "done"
  toSend,         \* events it has yet to put in the channel
  leaving,        \* whether it ends once they are sent
  saw,            \* what it has read of the end: nothing, a finish reason, [DONE]
  chan,           \* the channel
  watchdog,       \* "off", "armed", "fired"
  ctx,            \* "live" or "cancelled"
  turn            \* the consumer: "idle", "waiting", "reading", "failed", "committed"

readerVars == <<dialect, attempt, request, upstream, lines, wire, finished, reader,
                toSend, leaving, saw, chan, watchdog, ctx, turn>>

Dialects == {"anthropic", "bedrock", "chat", "responses"}
(* Those that make the events of the Anthropic API, and nothing of their own.  *)
Native == dialect \in {"anthropic", "bedrock"}
Faults == {"transport", "busy", "conflict", "fatal"}
NoRequest == [at |-> "trying", fault |-> "none", retryable |-> FALSE]

ReaderTypeOK ==
  /\ dialect \in Dialects /\ attempt \in 1..MaxAttempts /\ lines \in 0..MaxLines
  /\ request \in [at : {"trying", "backoff", "open", "error"}, fault : Faults \cup {"none", "cancelled"}, retryable : BOOLEAN]
  /\ upstream \in {"none", "open", "eof", "broken"} /\ reader \in {"none", "read", "send", "done"}
  /\ Len(wire) <= lines + 1 /\ Len(chan) <= ChanCapacity
  /\ watchdog \in {"off", "armed", "fired"} /\ ctx \in {"live", "cancelled"}
  /\ turn \in {"idle", "waiting", "reading", "failed", "committed"}

ReaderInit ==
  /\ dialect \in Dialects /\ attempt = 1 /\ request = NoRequest
  /\ upstream = "none" /\ lines = 0 /\ wire = <<>> /\ finished = FALSE
  /\ reader = "none" /\ toSend = <<>> /\ leaving = FALSE /\ saw = "nothing"
  /\ chan = <<>> /\ watchdog = "off" /\ ctx = "live" /\ turn = "idle"

-----------------------------------------------------------------------------
streamVars == <<upstream, lines, wire, finished, reader, toSend, leaving, saw, chan, watchdog>>

(* The turn makes its request.                                                *)
AsksModel ==
  /\ turn = "idle" /\ turn' = "waiting"
  /\ UNCHANGED <<dialect, attempt, request, streamVars, ctx>>

(* The attempt fails.  The Anthropic client retries a transport error and a    *)
(* status it takes for transient, and calls the last failure retryable only    *)
(* when there was no status; the OpenAI clients report the status as it is, and *)
(* Bedrock takes what it does not know for an error of the server.             *)
Retries(fault) == dialect = "anthropic" /\ fault \in {"transport", "busy"} /\ attempt < MaxAttempts
MapAWSError(fault) == fault # "fatal"
Retryable(fault) ==
  CASE dialect = "anthropic" -> fault = "transport"
    [] dialect = "bedrock" -> MapAWSError(fault)
    [] OTHER -> fault \in {"busy", "conflict"}
AttemptFails ==
  /\ request.at = "trying" /\ turn = "waiting"
  /\ \E fault \in Faults :
       IF Retries(fault)
       THEN request' = [request EXCEPT !.at = "backoff", !.fault = fault] /\ UNCHANGED turn
       ELSE request' = [at |-> "error", fault |-> fault, retryable |-> Retryable(fault)] /\ turn' = "failed"
  /\ UNCHANGED <<dialect, attempt, streamVars, ctx>>

BackoffEnds ==
  /\ request.at = "backoff"
  /\ \/ attempt' = attempt + 1 /\ request' = NoRequest /\ UNCHANGED turn
     \/ /\ ctx = "cancelled" /\ request' = [request EXCEPT !.at = "error", !.fault = "cancelled"]
        /\ turn' = "failed" /\ UNCHANGED attempt
  /\ UNCHANGED <<dialect, streamVars, ctx>>

(* Status 200: the channel is made and the goroutine started.                  *)
Opens ==
  /\ request.at = "trying" /\ turn = "waiting" /\ request' = [request EXCEPT !.at = "open"]
  /\ upstream' = "open" /\ reader' = "send" /\ turn' = "reading"
  /\ toSend' = IF Native THEN <<>> ELSE <<"data">>
  /\ watchdog' = IF Native THEN "off" ELSE "armed"
  /\ UNCHANGED <<dialect, attempt, lines, wire, finished, leaving, saw, chan, ctx>>

(* The server: a piece of the response, its completion, an error it reports, a *)
(* line that does not parse; then it closes the body, or it breaks, or nothing.*)
ServerSends ==
  /\ upstream = "open" /\ lines < MaxLines /\ lines' = lines + 1
  /\ \E kind \in (IF finished THEN {} ELSE {"data", "finish", "error"}) \cup {"garbage"} \cup (IF dialect = "bedrock" THEN {} ELSE {"[DONE]"}) :
       /\ wire' = Append(wire, kind) /\ finished' = (finished \/ kind \in {"finish", "[DONE]"})
  /\ UNCHANGED <<dialect, attempt, request, upstream, reader, toSend, leaving, saw, chan, watchdog, ctx, turn>>

ServerLeaves ==
  /\ upstream = "open" /\ upstream' \in {"eof", "broken"}
  /\ UNCHANGED <<dialect, attempt, request, lines, wire, finished, reader, toSend, leaving, saw, chan, watchdog, ctx, turn>>

BodyClosed == watchdog = "fired" \/ ctx = "cancelled"
(* A line of which no event is made, a comment that keeps the connection       *)
(* alive.  They are not counted: a server may send them for ever.              *)
KeepsAlive ==
  /\ upstream = "open" /\ dialect # "bedrock" /\ wire = <<>> /\ ~BodyClosed /\ wire' = <<"keepalive">>
  /\ UNCHANGED <<dialect, attempt, request, upstream, lines, finished, reader, toSend, leaving, saw, chan, watchdog, ctx, turn>>

-----------------------------------------------------------------------------
(* The goroutine.  Reading a line: the events it makes, whether it goes on.    *)
Goes(events, leaves) == toSend' = events /\ leaving' = leaves /\ reader' = "send"
(* The Responses converter makes a stop of whatever end; the chat converter   *)
(* only when the response was said to be complete; the others add nothing to   *)
(* what the server sent.                                                       *)
MutAtEnd == IF Native THEN <<>> ELSE <<"stop">>
AtEnd == CASE Native -> <<>>
           [] dialect = "chat" /\ saw = "nothing" -> <<"error">>
           [] OTHER -> <<"stop">>

(* A line the Anthropic client cannot parse ends its reading; an event that    *)
(* Bedrock cannot decode does not, nor does an error the server reports.       *)
AnthropicLine(kind) ==
  CASE kind = "data" -> Goes(<<"data">>, FALSE)
    [] kind = "finish" -> Goes(<<"stop">>, FALSE)
    [] kind = "error" -> Goes(<<"error">>, FALSE)
    [] kind = "garbage" -> Goes(<<"error">>, TRUE)
    [] OTHER -> Goes(<<>>, FALSE)
BedrockEvent(kind) ==
  CASE kind = "data" -> Goes(<<"data">>, FALSE)
    [] kind = "finish" -> Goes(<<"stop">>, FALSE)
    [] OTHER -> Goes(<<"error">>, FALSE)
(* The OpenAI clients skip what does not parse; [DONE] ends the reading, and is *)
(* an error when the watchdog had closed the body.  Only the Responses client  *)
(* looks for an error in the stream.                                           *)
ChatLine(kind) ==
  CASE kind = "data" -> Goes(<<"data">>, FALSE)
    [] kind = "[DONE]" -> Goes(IF watchdog = "fired" THEN <<"error">> ELSE <<"stop">>, TRUE)
    [] OTHER -> Goes(<<>>, FALSE)
ResponsesLine(kind) == IF kind = "error" THEN Goes(<<"error">>, TRUE) ELSE ChatLine(kind)

ReadsLine ==
  /\ reader = "read" /\ wire # <<>>
  /\ LET kind == Head(wire)
     IN /\ CASE dialect = "anthropic" -> AnthropicLine(kind)
             [] dialect = "bedrock" -> BedrockEvent(kind)
             [] dialect = "chat" -> ChatLine(kind)
             [] OTHER -> ResponsesLine(kind)
        /\ saw' = IF kind \in {"finish", "[DONE]"} THEN kind ELSE saw
  /\ wire' = Tail(wire)
  /\ UNCHANGED <<dialect, attempt, request, upstream, lines, finished, chan, watchdog, ctx, turn>>

(* The end of the body: clean, or an error, which a closed body is too.        *)
MutOnBroken == AtEnd
OnBroken == <<"error">>
ReadsEnd ==
  /\ reader = "read"
  /\ \/ wire = <<>> /\ upstream = "eof" /\ ~BodyClosed /\ Goes(AtEnd, TRUE)
     \/ ((wire = <<>> /\ upstream = "broken") \/ BodyClosed) /\ Goes(OnBroken, TRUE)
  /\ UNCHANGED <<dialect, attempt, request, upstream, lines, wire, finished, saw, chan, watchdog, ctx, turn>>

MutGivesUp == FALSE
GivesUp == ctx = "cancelled"
(* Sending, or giving up when the context is done; then on, or out.            *)
Sends ==
  /\ reader = "send"
  /\ \/ /\ toSend # <<>> /\ Len(chan) < ChanCapacity
        /\ chan' = Append(chan, Head(toSend)) /\ toSend' = Tail(toSend) /\ UNCHANGED <<reader, watchdog>>
     \/ /\ toSend # <<>> /\ GivesUp
        /\ reader' = "done" /\ toSend' = <<>> /\ watchdog' = "off" /\ UNCHANGED chan
     \/ /\ toSend = <<>>
        /\ IF leaving THEN reader' = "done" /\ watchdog' = "off" ELSE reader' = "read" /\ UNCHANGED watchdog
        /\ UNCHANGED <<chan, toSend>>
  /\ UNCHANGED <<dialect, attempt, request, upstream, lines, wire, finished, leaving, saw, ctx, turn>>

(* The watchdog: nothing was read for the idle time, because nothing came or   *)
(* because the channel is full.                                                *)
MutMayFire == reader = "read" /\ wire = <<>> /\ upstream = "eof"
MayFire == \/ reader = "read" /\ wire = <<>>
           \/ reader = "send" /\ toSend # <<>> /\ Len(chan) = ChanCapacity
WatchdogFires ==
  /\ watchdog = "armed" /\ ctx = "live" /\ MayFire /\ watchdog' = "fired"
  /\ UNCHANGED <<dialect, attempt, request, upstream, lines, wire, finished, reader, toSend, leaving, saw, chan, ctx, turn>>

Cancelled ==
  /\ request.at \in {"backoff", "open"} /\ turn \in {"waiting", "reading"} /\ ctx = "live" /\ ctx' = "cancelled"
  /\ UNCHANGED <<dialect, attempt, request, streamVars, turn>>

(* The turn: an error ends it and leaves the channel as it is; so does the     *)
(* context when it has a text to hand on; a closed channel is the end.         *)
TurnTakes ==
  /\ turn = "reading" /\ chan # <<>> /\ chan' = Tail(chan)
  /\ \/ turn' = IF Head(chan) = "error" THEN "failed" ELSE turn
     \/ Head(chan) = "data" /\ ctx = "cancelled" /\ turn' = "failed"
  /\ UNCHANGED <<dialect, attempt, request, upstream, lines, wire, finished, reader, toSend, leaving, saw, watchdog, ctx>>

TurnCommits ==
  /\ turn = "reading" /\ chan = <<>> /\ reader = "done" /\ turn' = "committed"
  /\ UNCHANGED <<dialect, attempt, request, streamVars, ctx>>

ReaderNext ==
  \/ AsksModel \/ AttemptFails \/ BackoffEnds \/ Opens \/ ServerSends \/ ServerLeaves \/ KeepsAlive
  \/ ReadsLine \/ ReadsEnd \/ Sends \/ WatchdogFires \/ Cancelled \/ TurnTakes \/ TurnCommits

(* The goroutines run; the timer of the watchdog and of the backoff elapses;   *)
(* a request to a server is answered or fails (the client bounds the headers).  *)
(* Nothing is assumed of the server once the body is open: it may be silent,   *)
(* leave, or keep the connection alive for ever.                               *)
ReaderFairness ==
  /\ WF_readerVars(AttemptFails \/ Opens) /\ WF_readerVars(BackoffEnds)
  /\ WF_readerVars(ReadsLine \/ ReadsEnd) /\ WF_readerVars(Sends) /\ WF_readerVars(WatchdogFires)
  /\ WF_readerVars(TurnTakes) /\ WF_readerVars(TurnCommits)
ReaderSpec == ReaderInit /\ [][ReaderNext]_readerVars /\ ReaderFairness

-----------------------------------------------------------------------------
(* openaiwire/stream.go:184-191: a turn over the chat API never commits a      *)
(* response that was cut off as if it were complete, unless it was cancelled.  *)
NothingCutOffIsCommitted ==
  turn = "committed" /\ dialect = "chat" /\ ctx = "live" => finished

(* client.go:265, responses.go:748-751: a read that failed or stalled reaches  *)
(* the turn behind whatever was in the channel: it commits only a body that    *)
(* ended, or that said so.                                                     *)
FailuresAreHeard ==
  turn = "committed" /\ ctx = "live" => upstream = "eof" \/ saw = "[DONE]"

(* idlewatchdog.go:40-48: with the watchdog no silent server can park the turn: *)
(* it fails or commits, and the goroutine ends, unless the server sends lines  *)
(* for ever, of which each one, comments included, resets the watchdog         *)
(* (stream.go:84, responses.go:487).  The lines of the response are bounded.   *)
TurnIsNotParked ==
  []<><<KeepsAlive>>_readerVars \/ ((~Native /\ reader # "none") ~> (turn \in {"failed", "committed"} /\ reader = "done"))

(* Every send and every wait listens to the context: once it is cancelled the  *)
(* goroutine and the turn end, also without a watchdog.                        *)
CancelFreesAll ==
  (ctx = "cancelled" /\ reader # "none") ~> (turn \in {"failed", "committed"} /\ reader = "done")

(* errors.go:27: an error of a request is retryable exactly when its status is *)
(* one of the transient ones.                                                  *)
RetryableIsTheStatus ==
  request.at = "error" /\ request.fault # "cancelled" =>
    (request.retryable <=> request.fault \in {"busy", "conflict"})

(* A turn commits the whole of what was sent (client.go:247-301).              *)
StreamIsWhole == NothingCutOffIsCommitted /\ FailuresAreHeard

(* A turn over the OpenAI clients ends unless its server sends for ever, and   *)
(* every turn ends once it is cancelled (client.go:247-301,                    *)
(* idlewatchdog.go:40-54).                                                     *)
StreamEnds == TurnIsNotParked /\ CancelFreesAll
=============================================================================
