---------------------------- MODULE SdkTransport ----------------------------
(***************************************************************************)
(* SDKTransport (internal/mcp/transport.go) talking to McpSdkServer        *)
(* (internal/mcp/sdk_server.go) over the two pipes of a subprocess.  Every *)
(* Send and Notify is a goroutine; they share the mutex over stdin and the *)
(* channel of responses, which the reader goroutine fills.  The server     *)
(* handles one request at a time.  It may also be another program, which   *)
(* writes notifications and garbage of its own accord.                     *)
(*                                                                         *)
(* A frame is the id of the request it belongs to, or one of the kinds of  *)
(* Noise.  A pipe holds a number of frames.                                *)
(***************************************************************************)
EXTENDS Naturals, Sequences, FiniteSets

CONSTANTS
  Calls,        \* ids of the requests and notifications, 1..N
  Notices,      \* the notifications among them
  NoCall,       \* not an id
  Notification, Malformed, Broken,  \* frames the server writes of its own accord
  Capacity,     \* size of the channel of responses (16)
  PipeSize,     \* bound: frames an OS pipe holds
  MaxInFlight,  \* bound: Sends at once
  MaxNoise      \* bound: frames the server writes of its own accord

ASSUME SdkTransportAssumption ==
  /\ Calls \subseteq Nat /\ Notices \subseteq Calls
  /\ NoCall \notin Calls \cup {Notification, Malformed, Broken}
  /\ {Notification, Malformed, Broken} \cap Calls = {}
  /\ {Capacity, PipeSize, MaxInFlight} \subseteq Nat \ {0} /\ MaxNoise \in Nat

VARIABLES
  outcome,    \* what became of each call
  answer,     \* the response Send returned, or NoCall
  unsent,     \* calls that have not written their request
  abandoned,  \* calls whose context is done
  writer,     \* the call that holds t.mu, or NoCall
  toServer,   \* the pipe to stdin
  toClient,   \* the pipe from stdout
  held,       \* the frame the reader is delivering, or NoCall
  done,       \* t.done is closed: the reader has stopped
  responses,  \* t.responses
  serving,    \* the request the server is replying to, or NoCall
  executed,   \* requests the server has executed
  server,     \* "up" or "down"
  closing,    \* progress of Close: "open", "stdin" (closed), "reaped"
  noise       \* frames the server wrote of its own accord

callVars == <<outcome, answer, unsent, abandoned, writer>>
readVars == <<held, done, responses>>
serveVars == <<serving, executed, server, noise>>
vars == <<callVars, toServer, toClient, readVars, serveVars, closing>>

(* A notification has no id, a malformed frame does not parse, and after a *)
(* broken one the reader no longer finds the frames.                       *)
Noise == {Notification, Malformed, Broken}
Frames == Calls \cup Noise

Pending == {c \in Calls : outcome[c] = "pending"}
Waiting == Pending \ unsent

Init ==
  /\ outcome = [c \in Calls |-> "idle"] /\ answer = [c \in Calls |-> NoCall]
  /\ unsent = {} /\ abandoned = {}
  /\ writer = NoCall
  /\ toServer = <<>> /\ toClient = <<>>
  /\ held = NoCall /\ done = FALSE /\ responses = <<>>
  /\ serving = NoCall /\ executed = {} /\ server = "up" /\ noise = 0
  /\ closing = "open"

-----------------------------------------------------------------------------
(* Send and Notify. *)

(* The client draws the next id. *)
Begin(c) ==
  /\ outcome[c] = "idle" /\ \A d \in Calls : d < c => outcome[d] # "idle"
  /\ Cardinality(Pending) < MaxInFlight
  /\ outcome' = [outcome EXCEPT ![c] = "pending"]
  /\ unsent' = unsent \cup {c}
  /\ UNCHANGED <<answer, abandoned, writer, toServer, toClient, readVars, serveVars, closing>>

Cancel(c) ==
  /\ c \in Pending \ (abandoned \cup Notices)
  /\ abandoned' = abandoned \cup {c}
  /\ UNCHANGED <<outcome, answer, unsent, writer, toServer, toClient, readVars, serveVars, closing>>

Lock(c) ==
  /\ c \in unsent /\ writer = NoCall
  /\ writer' = c
  /\ UNCHANGED <<outcome, answer, unsent, abandoned, toServer, toClient, readVars, serveVars, closing>>

(* The write waits for room in the pipe, and the mutex with it. *)
Write(c) ==
  /\ writer = c /\ closing = "open" /\ server = "up" /\ Len(toServer) < PipeSize
  /\ toServer' = Append(toServer, c)
  /\ writer' = NoCall /\ unsent' = unsent \ {c}
  /\ outcome' = IF c \in Notices THEN [outcome EXCEPT ![c] = "sent"] ELSE outcome
  /\ UNCHANGED <<answer, abandoned, toClient, readVars, serveVars, closing>>

(* Mutant: the error return does not unlock. *)
MutWriteFails(c) ==
  /\ writer = c /\ (closing # "open" \/ server = "down")
  /\ unsent' = unsent \ {c}
  /\ outcome' = [outcome EXCEPT ![c] = "failed"]
  /\ UNCHANGED <<writer, answer, abandoned, toServer, toClient, readVars, serveVars, closing>>

WriteFails(c) ==
  /\ writer = c /\ (closing # "open" \/ server = "down")
  /\ writer' = NoCall /\ unsent' = unsent \ {c}
  /\ outcome' = [outcome EXCEPT ![c] = "failed"]
  /\ UNCHANGED <<answer, abandoned, toServer, toClient, readVars, serveVars, closing>>

(* Mutant: any response will do. *)
MutReceive(c) ==
  /\ c \in Waiting /\ responses # <<>>
  /\ responses' = Tail(responses)
  /\ outcome' = [outcome EXCEPT ![c] = "answered"]
  /\ answer' = [answer EXCEPT ![c] = Head(responses)]
  /\ UNCHANGED <<unsent, abandoned, writer, toServer, toClient, held, done, serveVars, closing>>

(* A response that does not match is skipped. *)
Receive(c) ==
  /\ c \in Waiting /\ responses # <<>>
  /\ responses' = Tail(responses)
  /\ IF Head(responses) = c
       THEN outcome' = [outcome EXCEPT ![c] = "answered"] /\ answer' = [answer EXCEPT ![c] = c]
       ELSE UNCHANGED <<outcome, answer>>
  /\ UNCHANGED <<unsent, abandoned, writer, toServer, toClient, held, done, serveVars, closing>>

(* Mutant: Send does not watch t.done. *)
MutGiveUp(c) ==
  /\ c \in Waiting /\ c \in abandoned
  /\ outcome' = [outcome EXCEPT ![c] = "failed"]
  /\ UNCHANGED <<answer, unsent, abandoned, writer, toServer, toClient, readVars, serveVars, closing>>

GiveUp(c) ==
  /\ c \in Waiting /\ (done \/ c \in abandoned)
  /\ outcome' = [outcome EXCEPT ![c] = "failed"]
  /\ UNCHANGED <<answer, unsent, abandoned, writer, toServer, toClient, readVars, serveVars, closing>>

-----------------------------------------------------------------------------
(* readLoop. *)

ReadFrame ==
  /\ ~done /\ held = NoCall /\ toClient # <<>>
  /\ toClient' = Tail(toClient)
  /\ done' = (Head(toClient) = Broken)
  /\ held' = IF Head(toClient) \in {Broken, Malformed} THEN NoCall ELSE Head(toClient)
  /\ UNCHANGED <<callVars, toServer, responses, serveVars, closing>>

(* Mutant: at the end of the pipe the reader stops without closing done. *)
MutReadEOF ==
  /\ ~done /\ held = NoCall /\ toClient = <<>> /\ server = "down"
  /\ UNCHANGED vars

ReadEOF ==
  /\ ~done /\ held = NoCall /\ toClient = <<>> /\ server = "down"
  /\ done' = TRUE
  /\ UNCHANGED <<callVars, toServer, toClient, held, responses, serveVars, closing>>

(* The other arm of the select waits for t.done, which only the reader     *)
(* closes.                                                                 *)
Deliver ==
  /\ held # NoCall /\ Len(responses) < Capacity
  /\ responses' = Append(responses, held)
  /\ held' = NoCall
  /\ UNCHANGED <<callVars, toServer, toClient, done, serveVars, closing>>

-----------------------------------------------------------------------------
(* McpSdkServer.Run; notifications have no reply. *)

ServerRead ==
  /\ server = "up" /\ serving = NoCall /\ toServer # <<>>
  /\ toServer' = Tail(toServer)
  /\ IF Head(toServer) \in Notices
       THEN UNCHANGED <<serving, executed>>
       ELSE serving' = Head(toServer) /\ executed' = executed \cup {Head(toServer)}
  /\ UNCHANGED <<callVars, toClient, readVars, server, noise, closing>>

ServerReply ==
  /\ serving # NoCall /\ Len(toClient) < PipeSize
  /\ toClient' = Append(toClient, serving)
  /\ serving' = NoCall
  /\ UNCHANGED <<callVars, toServer, readVars, executed, server, noise, closing>>

ServerEOF ==
  /\ server = "up" /\ serving = NoCall /\ toServer = <<>> /\ closing # "open"
  /\ server' = "down"
  /\ UNCHANGED <<callVars, toServer, toClient, readVars, serving, executed, noise, closing>>

ServerExit ==
  /\ server = "up"
  /\ server' = "down" /\ serving' = NoCall /\ toServer' = <<>>
  /\ UNCHANGED <<callVars, toClient, readVars, executed, noise, closing>>

ServerNoise(f) ==
  /\ server = "up" /\ noise < MaxNoise /\ Len(toClient) < PipeSize
  /\ toClient' = Append(toClient, f)
  /\ noise' = noise + 1
  /\ UNCHANGED <<callVars, toServer, readVars, serving, executed, server, closing>>

-----------------------------------------------------------------------------
(* Close. *)

CloseStdin ==
  /\ closing = "open"
  /\ closing' = "stdin"
  /\ UNCHANGED <<callVars, toServer, toClient, readVars, serveVars>>

(* Once the reader has stopped or three seconds have passed, the process   *)
(* is killed and reaped, which closes stdout under the reader: it still    *)
(* has the frames it had buffered.                                         *)
ReapServer ==
  /\ closing = "stdin"
  /\ closing' = "reaped"
  /\ server' = "down" /\ serving' = NoCall /\ toServer' = <<>>
  /\ \E n \in 0..Len(toClient) : toClient' = SubSeq(toClient, 1, n)
  /\ UNCHANGED <<callVars, readVars, executed, noise>>

-----------------------------------------------------------------------------
Call(c) == Lock(c) \/ Write(c) \/ WriteFails(c) \/ Receive(c) \/ GiveUp(c)
Reader == ReadFrame \/ ReadEOF \/ Deliver
Server == ServerRead \/ ServerReply \/ ServerEOF
Close == CloseStdin \/ ReapServer

Next ==
  \/ \E c \in Calls : Begin(c) \/ Cancel(c) \/ Call(c)
  \/ Reader \/ Server \/ ServerExit \/ (\E f \in Noise : ServerNoise(f))
  \/ Close

Spec == Init /\ [][Next]_vars

(* Goroutines that can run do, the server handles what it reads, and a     *)
(* Close that began ends.  Nobody has to issue, cancel or close.           *)
Fairness ==
  /\ \A c \in Calls : /\ WF_vars(Lock(c)) /\ WF_vars(Write(c)) /\ WF_vars(WriteFails(c))
                      /\ WF_vars(Receive(c)) /\ WF_vars(GiveUp(c))
  /\ WF_vars(Reader) /\ WF_vars(Server) /\ WF_vars(ReapServer)

FairSpec == Spec /\ Fairness

-----------------------------------------------------------------------------
(* Properties. *)

TypeOK ==
  /\ outcome \in [Calls -> {"idle", "pending", "answered", "failed", "sent"}]
  /\ answer \in [Calls -> Frames \cup {NoCall}]
  /\ unsent \subseteq Pending /\ abandoned \subseteq Calls \ Notices
  /\ writer \in unsent \cup {NoCall}
  /\ toServer \in Seq(Calls) /\ toClient \in Seq(Frames)
  /\ held \in Frames \cup {NoCall} /\ done \in BOOLEAN
  /\ responses \in Seq(Frames) /\ Len(responses) <= Capacity
  /\ serving \in Calls \cup {NoCall} /\ executed \subseteq Calls
  /\ server \in {"up", "down"} /\ closing \in {"open", "stdin", "reaped"}
  /\ noise \in 0..MaxNoise

(* A caller gets the reply to its own request or an error, whatever order  *)
(* the replies and the garbage come in, and nothing is executed twice.     *)
Remote == INSTANCE RemoteCalls
RepliesToTheirCallers == Remote!Spec

(* A Send that no other call overlaps and that has written its request     *)
(* comes back: with its reply, because the server is gone, or because the  *)
(* reader is.  Calls before it may have overlapped, failed or left their   *)
(* responses behind: waiting, it takes those out of the way.               *)
Alone(c) == [](c \in Pending => Pending = {c})
LoneCallsReturn == \A c \in Calls : Alone(c) => (c \in Waiting ~> c \notin Pending)

(* Every Send comes back.  (transport.go:156: it "waits for the matching   *)
(* response from the reader goroutine".)                                   *)
CallsReturn == \A c \in Calls : c \in Pending ~> c \notin Pending

(* transport.go:157: "The provided context controls the                    *)
(* timeout/cancellation".                                                  *)
CancelledReturns == \A c \in Calls : c \in abandoned ~> c \notin Pending

(* Close leaves no Send behind. *)
CloseReleases == \A c \in Calls : (closing # "open" /\ c \in Pending) ~> c \notin Pending

(* transport.go:130: "On error or EOF it closes done." *)
ReaderStops == closing = "reaped" ~> done

(* Both: what has been written comes back, and nothing outlives the close   *)
(* (transport.go:156-200).                                                  *)
SendsReturn == LoneCallsReturn /\ CloseReleases
=============================================================================
