--------------------------- MODULE LockedTransport ---------------------------
(***************************************************************************)
(* The transports of MCP that make one call at a time; those over HTTP,    *)
(* which share no state with these, are at the end.                        *)
(*                                                                         *)
(* StdioTransport (internal/mcp/stdio.go) and WebSocketTransport           *)
(* (internal/mcp/websocket.go).  Both hold one mutex from the write of a   *)
(* request to the read of the next message, which they return as its       *)
(* response without comparing ids; neither looks at the context.  The      *)
(* server is another program: it answers requests in their order, and may  *)
(* write messages of its own accord.                                       *)
(*                                                                         *)
(* A message is the id of the request it answers or one of the kinds of    *)
(* Noise; a pipe, or a connection, holds a number of messages.             *)
(***************************************************************************)
EXTENDS Integers, Sequences, FiniteSets

CONSTANTS
  Calls,        \* ids of the requests and notifications, 1..N
  Notices,      \* the notifications among them
  NoCall,       \* not an id
  Notification, Malformed,  \* messages the server writes of its own accord
  TooLong,      \* a reply that does not fit the scanner's buffer
  PipeSize,     \* bound: messages a pipe holds
  MaxNoise      \* bound: messages the server writes of its own accord

ASSUME LockedTransportAssumption ==
  /\ Calls \subseteq Nat /\ Notices \subseteq Calls
  /\ NoCall \notin Calls \cup {Notification, Malformed, TooLong}
  /\ TooLong \notin Calls \cup {Notification, Malformed}
  /\ PipeSize \in Nat \ {0} /\ MaxNoise \in Nat

VARIABLES
  kind,      \* "stdio" or "websocket"
  outcome,   \* what became of each call
  answer,    \* the response Send returned, or NoCall
  owner,     \* the call that holds t.mu, or NoCall
  written,   \* the owner has written its request and reads
  toServer,  \* requests on their way
  toClient,  \* messages on their way
  broken,    \* the scanner has failed, and stays so
  serving,   \* the request the server is replying to, or NoCall
  executed,  \* requests the server has executed
  server,    \* "up" or "down"
  closing,   \* progress of Close: "open", "stdin" (closed), "closed"
  noise      \* messages the server wrote of its own accord

callVars == <<kind, outcome, answer, owner, written>>
serveVars == <<serving, executed, server, noise>>
vars == <<callVars, toServer, toClient, broken, serveVars, closing>>

Messages == Calls \cup {Notification, Malformed, TooLong}

Init ==
  /\ kind \in {"stdio", "websocket"}
  /\ outcome = [c \in Calls |-> "idle"] /\ answer = [c \in Calls |-> NoCall]
  /\ owner = NoCall /\ written = FALSE
  /\ toServer = <<>> /\ toClient = <<>> /\ broken = FALSE
  /\ serving = NoCall /\ executed = {} /\ server = "up" /\ noise = 0
  /\ closing = "open"

-----------------------------------------------------------------------------
(* Send and Notify. *)

Begin(c) ==
  /\ outcome[c] = "idle" /\ \A d \in Calls : d < c => outcome[d] # "idle"
  /\ outcome' = [outcome EXCEPT ![c] = "pending"]
  /\ UNCHANGED <<kind, answer, owner, written, toServer, toClient, broken, serveVars, closing>>

Lock(c) ==
  /\ outcome[c] = "pending" /\ owner = NoCall
  /\ owner' = c /\ written' = FALSE
  /\ UNCHANGED <<kind, outcome, answer, toServer, toClient, broken, serveVars, closing>>

(* The owner returns, which unlocks. *)
Finish(c, what) ==
  /\ outcome' = [outcome EXCEPT ![c] = what]
  /\ owner' = NoCall /\ written' = FALSE
  /\ UNCHANGED kind

Write(c) ==
  /\ owner = c /\ ~written
  /\ closing = "open" /\ server = "up" /\ Len(toServer) < PipeSize
  /\ toServer' = Append(toServer, c)
  /\ IF c \in Notices
       THEN Finish(c, "sent") /\ UNCHANGED answer
       ELSE written' = TRUE /\ UNCHANGED <<kind, outcome, answer, owner>>
  /\ UNCHANGED <<toClient, broken, serveVars, closing>>

(* Mutants: the error of a write does not unlock; the end of the server is *)
(* not seen; a reply may be read while another call writes.                *)
MutWriteFails(c) ==
  /\ owner = c /\ ~written /\ (closing # "open" \/ server = "down")
  /\ outcome' = [outcome EXCEPT ![c] = "failed"]
  /\ UNCHANGED <<kind, owner, written, answer, toServer, toClient, broken, serveVars, closing>>

MutReadFails(c) ==
  /\ owner = c /\ written
  /\ broken \/ closing = "closed"
  /\ Finish(c, "failed")
  /\ UNCHANGED <<answer, toServer, toClient, broken, serveVars, closing>>

MutRead(c) ==
  /\ outcome[c] = "pending" /\ ~broken /\ toClient # <<>>
  /\ toClient' = Tail(toClient)
  /\ broken' = (Head(toClient) = TooLong)
  /\ IF Head(toClient) \in {TooLong, Malformed}
       THEN Finish(c, "failed") /\ UNCHANGED answer
       ELSE /\ Finish(c, "answered")
            /\ answer' = [answer EXCEPT ![c] = Head(toClient)]
  /\ UNCHANGED <<toServer, serveVars, closing>>

WriteFails(c) ==
  /\ owner = c /\ ~written /\ (closing # "open" \/ server = "down")
  /\ Finish(c, "failed")
  /\ UNCHANGED <<answer, toServer, toClient, broken, serveVars, closing>>

(* The next message is the response, unless it does not parse. *)
Read(c) ==
  /\ owner = c /\ written /\ ~broken /\ toClient # <<>>
  /\ toClient' = Tail(toClient)
  /\ broken' = (Head(toClient) = TooLong)
  /\ IF Head(toClient) \in {TooLong, Malformed}
       THEN Finish(c, "failed") /\ UNCHANGED answer
       ELSE /\ Finish(c, "answered")
            /\ answer' = [answer EXCEPT ![c] = Head(toClient)]
  /\ UNCHANGED <<toServer, serveVars, closing>>

ReadFails(c) ==
  /\ owner = c /\ written
  /\ broken \/ (toClient = <<>> /\ server = "down") \/ closing = "closed"
  /\ Finish(c, "failed")
  /\ UNCHANGED <<answer, toServer, toClient, broken, serveVars, closing>>

-----------------------------------------------------------------------------
(* The server. *)

ServerRead ==
  /\ server = "up" /\ serving = NoCall /\ toServer # <<>>
  /\ toServer' = Tail(toServer)
  /\ IF Head(toServer) \in Notices
       THEN UNCHANGED <<serving, executed>>
       ELSE serving' = Head(toServer) /\ executed' = executed \cup {Head(toServer)}
  /\ UNCHANGED <<callVars, toClient, broken, server, noise, closing>>

(* Over 64 KiB a reply exceeds the scanner's token size. *)
ServerReply ==
  /\ serving # NoCall /\ Len(toClient) < PipeSize
  /\ \E m \in {serving} \cup (IF kind = "stdio" THEN {TooLong} ELSE {}) :
       toClient' = Append(toClient, m)
  /\ serving' = NoCall
  /\ UNCHANGED <<callVars, toServer, broken, executed, server, noise, closing>>

ServerEOF ==
  /\ server = "up" /\ closing # "open" /\ serving = NoCall /\ toServer = <<>>
  /\ server' = "down"
  /\ UNCHANGED <<callVars, toServer, toClient, broken, serving, executed, noise, closing>>

ServerExit ==
  /\ server = "up"
  /\ server' = "down" /\ serving' = NoCall /\ toServer' = <<>>
  /\ UNCHANGED <<callVars, toClient, broken, executed, noise, closing>>

ServerNoise(m) ==
  /\ server = "up" /\ noise < MaxNoise /\ Len(toClient) < PipeSize
  /\ toClient' = Append(toClient, m)
  /\ noise' = noise + 1
  /\ UNCHANGED <<callVars, toServer, broken, serving, executed, server, closing>>

-----------------------------------------------------------------------------
(* Close.  Over stdio it closes stdin and waits for the process; over a    *)
(* WebSocket it waits for the mutex and drops the connection.              *)

CloseStdin ==
  /\ kind = "stdio" /\ closing = "open"
  /\ closing' = "stdin"
  /\ UNCHANGED <<callVars, toServer, toClient, broken, serveVars>>

(* Wait closes stdout, whatever has not been read. *)
Wait ==
  /\ closing = "stdin" /\ server = "down"
  /\ closing' = "closed"
  /\ toClient' \in {toClient, <<>>}
  /\ UNCHANGED <<callVars, toServer, broken, serveVars>>

CloseConnection ==
  /\ kind = "websocket" /\ closing = "open" /\ owner = NoCall
  /\ closing' = "closed" /\ server' = "down" /\ serving' = NoCall
  /\ toServer' = <<>> /\ toClient' = <<>>
  /\ UNCHANGED <<callVars, broken, executed, noise>>

-----------------------------------------------------------------------------
Call(c) == Lock(c) \/ Write(c) \/ WriteFails(c) \/ Read(c) \/ ReadFails(c)
Server == ServerRead \/ ServerReply \/ ServerEOF
Close == CloseStdin \/ Wait \/ CloseConnection

Next ==
  \/ \E c \in Calls : Begin(c) \/ Call(c)
  \/ Server \/ ServerExit \/ (\E m \in {Notification, Malformed} : ServerNoise(m))
  \/ Close

Spec == Init /\ [][Next]_vars

(* Goroutines that can run do, and the server handles what it reads and    *)
(* exits at the end of its input.                                          *)
Fairness ==
  /\ \A c \in Calls : WF_vars(Call(c))
  /\ WF_vars(Server) /\ WF_vars(Wait)

FairSpec == Spec /\ Fairness

-----------------------------------------------------------------------------
(* Properties. *)

TypeOK ==
  /\ kind \in {"stdio", "websocket"}
  /\ outcome \in [Calls -> {"idle", "pending", "answered", "failed", "sent"}]
  /\ answer \in [Calls -> Messages \cup {NoCall}]
  /\ owner \in {c \in Calls : outcome[c] = "pending"} \cup {NoCall}
  /\ written \in BOOLEAN /\ (written => owner # NoCall)
  /\ toServer \in Seq(Calls) /\ toClient \in Seq(Messages)
  /\ broken \in BOOLEAN /\ (broken => kind = "stdio")
  /\ serving \in Calls \cup {NoCall} /\ executed \subseteq Calls
  /\ server \in {"up", "down"} /\ closing \in {"open", "stdin", "closed"}
  /\ noise \in 0..MaxNoise

(* As long as the server writes nothing of its own accord, a caller gets   *)
(* the reply to its own request or an error, as RemoteCalls demands,       *)
(* although nobody compares ids: the mutex keeps the order, and a failed   *)
(* read leaves nothing that a later one could take for its own.            *)
Remote == INSTANCE RemoteCalls
RepliesToTheirCallers ==
  Remote!Init /\ [][noise' = 0 => [Remote!Next]_<<outcome, answer, executed>>]_vars

(* stdio.go:68: Send "writes a JSON-RPC request to the server's stdin and  *)
(* reads the response from stdout", whatever else the server writes.       *)
ResponsesAreReplies == Remote!Spec

(* Every Send returns: the server replies, exits or is closed.  One that   *)
(* waits for the mutex returns because the one that holds it does.  After  *)
(* a line that was too long nobody reads any more: the pipes fill up, and  *)
(* a write may block for good.                                             *)
CallsReturn == \A c \in Calls : outcome[c] = "pending" ~> (outcome[c] # "pending" \/ broken)

-----------------------------------------------------------------------------
(* SSETransport (internal/mcp/sse.go) and ManagedProxyTransport             *)
(* (internal/mcp/managed_proxy.go): a call is one POST, made under t.mu     *)
(* with a client that gives up after a while. The header of the SSE         *)
(* transport comes from a function that is called before the lock is taken, *)
(* and that may be replaced; it is here the number of the token it gives.   *)
CONSTANTS
  Posts,          \* requests and notifications
  PostNotices,    \* the notifications among them
  MaxHeader       \* bound on the tokens that come one after the other

ASSUME HttpAssumption == MaxHeader \in Nat \ {0}

VARIABLES
  httpKind,       \* "sse" or "managed_proxy"
  header,         \* the token the auth function would give now
  post,           \* what became of each call
  httpOwner,      \* the call that holds t.mu, or 0
  executions      \* how often the server has executed each call

httpVars == <<httpKind, header, post, httpOwner, executions>>

NotPosted == [at |-> "idle", began |-> 0, header |-> 0]

HttpTypeOK ==
  /\ httpKind \in {"sse", "managed_proxy"} /\ header \in 1..MaxHeader
  /\ post \in [Posts -> [at : {"idle", "auth", "lock", "post", "reply", "answered", "sent", "failed"},
                         began : 0..MaxHeader, header : 0..MaxHeader]]
  /\ httpOwner \in Posts \cup {0} /\ executions \in [Posts -> Nat]

HttpInit ==
  /\ httpKind \in {"sse", "managed_proxy"} /\ header = 1
  /\ post = [c \in Posts |-> NotPosted] /\ httpOwner = 0
  /\ executions = [c \in Posts |-> 0]

BeginPost(c) ==
  /\ post[c] = NotPosted
  /\ post' = [post EXCEPT ![c] = [at |-> IF httpKind = "sse" THEN "auth" ELSE "lock",
                                  began |-> header, header |-> 0]]
  /\ UNCHANGED <<httpKind, header, httpOwner, executions>>

MutResolveAuth(c) ==    \* the header the transport was made with
  /\ post[c].at = "auth" /\ httpOwner = 0
  /\ \/ post' = [post EXCEPT ![c].at = "lock", ![c].header = 1]
     \/ post' = [post EXCEPT ![c].at = "failed"]
  /\ UNCHANGED <<httpKind, header, httpOwner, executions>>

(* resolveAuth reads the function under the lock and calls it without.      *)
ResolveAuth(c) ==
  /\ post[c].at = "auth" /\ httpOwner = 0
  /\ \/ post' = [post EXCEPT ![c].at = "lock", ![c].header = header]
     \/ post' = [post EXCEPT ![c].at = "failed"]
  /\ UNCHANGED <<httpKind, header, httpOwner, executions>>

TakeLock(c) ==
  /\ post[c].at = "lock" /\ httpOwner = 0 /\ httpOwner' = c
  /\ post' = [post EXCEPT ![c].at = "post"]
  /\ UNCHANGED <<httpKind, header, executions>>

ReachServer(c) ==
  /\ post[c].at = "post"
  /\ executions' = [executions EXCEPT ![c] = @ + 1]
  /\ post' = [post EXCEPT ![c].at = "reply"]
  /\ UNCHANGED <<httpKind, header, httpOwner>>

PostReturns(c, what) ==
  /\ post' = [post EXCEPT ![c].at = what] /\ httpOwner' = 0
  /\ UNCHANGED <<httpKind, header, executions>>

(* A status that is not 2xx, or a body that does not parse, fails a         *)
(* request; a notification is content with any status.                      *)
Reply(c) ==
  /\ post[c].at = "reply"
  /\ IF c \in PostNotices THEN PostReturns(c, "sent")
     ELSE \E what \in {"answered", "failed"} : PostReturns(c, what)

MutGiveUp(c) ==     \* tried again
  /\ post[c].at \in {"post", "reply"}
  /\ post' = [post EXCEPT ![c].at = "lock"] /\ httpOwner' = 0
  /\ UNCHANGED <<httpKind, header, executions>>

(* The network fails, the context is done, or the client's timeout passes.  *)
GiveUp(c) == post[c].at \in {"post", "reply"} /\ PostReturns(c, "failed")

(* SetAuthFunc, or a new token of the broker.                               *)
NewHeader ==
  /\ header < MaxHeader /\ header' = header + 1
  /\ UNCHANGED <<httpKind, post, httpOwner, executions>>

HttpNext ==
  \/ NewHeader
  \/ \E c \in Posts :
       \/ BeginPost(c) \/ ResolveAuth(c) \/ TakeLock(c) \/ ReachServer(c) \/ Reply(c) \/ GiveUp(c)

HttpSpec == HttpInit /\ [][HttpNext]_httpVars

-----------------------------------------------------------------------------
(* A call is executed at most once, and exactly once when it is answered;   *)
(* its header is the one the function gave at some time during the call,    *)
(* even after waiting for the lock (sse.go:80-140, managed_proxy.go:34-74). *)
PostedOnceWithItsHeader ==
  \A c \in Posts :
    /\ executions[c] <= 1
    /\ post[c].at \in {"reply", "answered", "sent"} => executions[c] = 1
    /\ httpKind = "sse" /\ executions[c] = 1 => post[c].header \in post[c].began..header
=============================================================================
