---------------------------- MODULE LspTransport ----------------------------
(* The transport of language servers (internal/lsp/transport.go): requests  *)
(* are registered under their number, written, and answered by the read     *)
(* loop in whatever order the server chooses; a request ends with its       *)
(* answer, its context, or the end of the transport. The server may ask     *)
(* requests of its own, with numbers of its own. Request 1 is initialize    *)
(* and the last one is the request of Shutdown.                             *)
EXTENDS Integers, Sequences, FiniteSets, SequencesExt

CONSTANTS
  MaxRequest,     \* requests are 1..MaxRequest
  MaxAsks         \* bound on what the server sends of its own accord

ASSUME LspAssumption == MaxRequest \in Nat \ {0}

VARIABLES
  lspCall,        \* what became of each request
  lspAnswer,      \* the frame a request returned with
  lspPending,     \* t.pending
  channel,        \* what the read loop has put into the channel of a request
  asked,          \* requests the server has and has not answered
  frames,         \* frames on their way to the client
  asks,           \* frames the server has sent of its own accord
  process,        \* "up", "exited" or "killed"
  hung,           \* the server has stopped reading and its pipe is full
  lspDone,        \* t.done is closed
  stopping        \* progress of Shutdown

lspVars == <<lspCall, lspAnswer, lspPending, channel, asked, frames, asks, process, hung, lspDone, stopping>>
Requests == 1..MaxRequest
NoFrame == [id |-> 0, from |-> "none"]
FrameSet == [id : Requests, from : {"answer", "ask", "error"}] \cup {NoFrame}

LspTypeOK ==
  /\ lspCall \in [Requests -> {"idle", "registered", "writing", "waiting", "answered", "failed"}]
  /\ lspAnswer \in [Requests -> FrameSet] /\ channel \in [Requests -> FrameSet]
  /\ lspPending \subseteq Requests /\ asked \subseteq Requests
  /\ \A i \in DOMAIN frames : frames[i] \in FrameSet
  /\ process \in {"up", "exited", "killed"} /\ hung \in BOOLEAN
  /\ stopping \in {"no", "asking", "exit", "waiting", "returned"}

LspInit ==
  /\ lspCall = [r \in Requests |-> "idle"] /\ lspAnswer = [r \in Requests |-> NoFrame]
  /\ channel = [r \in Requests |-> NoFrame] /\ lspPending = {} /\ asked = {}
  /\ frames = <<>> /\ asks = 0 /\ process = "up" /\ hung = FALSE /\ lspDone = FALSE /\ stopping = "no"

-----------------------------------------------------------------------------
(* The numbers are given in order; others wait for initialize.              *)
Register(r) ==
  /\ lspCall[r] = "idle" /\ \A q \in 1..(r - 1) : lspCall[q] # "idle"
  /\ r > 1 => lspCall[1] = "answered"
  /\ lspCall' = [lspCall EXCEPT ![r] = "registered"]
  /\ lspPending' = lspPending \cup {r}
  /\ stopping' = IF r = MaxRequest THEN "asking" ELSE stopping
  /\ UNCHANGED <<lspAnswer, channel, asked, frames, asks, process, hung, lspDone>>

EndCall(r, what) ==
  /\ lspCall' = [lspCall EXCEPT ![r] = what]
  /\ lspPending' = lspPending \ {r}

(* t.mu, which a writer holds for as long as its write takes.                *)
Unlocked == stopping # "exit" /\ \A q \in Requests : lspCall[q] # "writing"
(* A write to a pipe that nobody reads blocks until the server reads or ends; *)
(* no context ends it.                                                      *)
WriteBlocks(r) ==
  /\ lspCall[r] = "registered" /\ Unlocked /\ hung
  /\ lspCall' = [lspCall EXCEPT ![r] = "writing"]
  /\ UNCHANGED <<lspAnswer, lspPending, channel, asked, frames, asks, process, hung, lspDone, stopping>>
WriteFrame(r) ==
  /\ lspCall[r] = "writing" \/ (lspCall[r] = "registered" /\ Unlocked)
  /\ ~hung
  /\ IF process = "up"
       THEN /\ lspCall' = [lspCall EXCEPT ![r] = "waiting"] /\ asked' = asked \cup {r}
            /\ UNCHANGED lspPending
       ELSE EndCall(r, "failed") /\ UNCHANGED asked
  /\ UNCHANGED <<lspAnswer, channel, frames, asks, process, hung, lspDone, stopping>>

TakeAnswer(r) ==
  /\ lspCall[r] = "waiting" /\ channel[r] # NoFrame
  /\ lspCall' = [lspCall EXCEPT ![r] = "answered"]
  /\ lspAnswer' = [lspAnswer EXCEPT ![r] = channel[r]]
  /\ UNCHANGED <<lspPending, channel, asked, frames, asks, process, hung, lspDone, stopping>>

MutAbandon(r) ==        \* the entry stays
  /\ lspCall[r] = "waiting"
  /\ lspCall' = [lspCall EXCEPT ![r] = "failed"]
  /\ UNCHANGED <<lspPending, lspAnswer, channel, asked, frames, asks, process, hung, lspDone, stopping>>

MutAbandonAtEnd(r) ==   \* only the end of the transport
  /\ lspCall[r] = "waiting" /\ lspDone
  /\ EndCall(r, "failed")
  /\ UNCHANGED <<lspAnswer, channel, asked, frames, asks, process, hung, lspDone, stopping>>

(* The context is done, or the transport is.                                *)
Abandon(r) ==
  /\ lspCall[r] = "waiting"
  /\ EndCall(r, "failed")
  /\ UNCHANGED <<lspAnswer, channel, asked, frames, asks, process, hung, lspDone, stopping>>

(* readLoop: a frame is for the request that is registered under its        *)
(* number, whether it is an answer or a request of the server's.            *)
ReadFrame ==
  /\ ~lspDone /\ frames # <<>>
  /\ frames' = Tail(frames)
  /\ LET f == Head(frames) IN
       IF f.id \in lspPending
         THEN lspPending' = lspPending \ {f.id} /\ channel' = [channel EXCEPT ![f.id] = f]
         ELSE UNCHANGED <<lspPending, channel>>
  /\ UNCHANGED <<lspCall, lspAnswer, asked, asks, process, hung, lspDone, stopping>>

(* The end of the output, or a frame that cannot be read.                   *)
ReadLoopEnds ==
  /\ ~lspDone /\ \/ frames = <<>> /\ process # "up"
                 \/ frames # <<>> /\ Head(frames).from = "ask"
  /\ lspDone' = TRUE
  /\ UNCHANGED <<lspCall, lspAnswer, lspPending, channel, asked, frames, asks, process, hung, stopping>>

-----------------------------------------------------------------------------
(* The server.                                                              *)
Answer(r) ==
  /\ process = "up" /\ r \in asked /\ asked' = asked \ {r}
  /\ \E from \in {"answer", "error"} : frames' = Append(frames, [id |-> r, from |-> from])
  /\ UNCHANGED <<lspCall, lspAnswer, lspPending, channel, asks, process, hung, lspDone, stopping>>
Ask(id) ==
  /\ process = "up" /\ asks < MaxAsks /\ asks' = asks + 1
  /\ frames' = Append(frames, [id |-> id, from |-> "ask"])
  /\ UNCHANGED <<lspCall, lspAnswer, lspPending, channel, asked, process, hung, lspDone, stopping>>
Hangs ==
  /\ process = "up" /\ hung' = ~hung
  /\ UNCHANGED <<lspCall, lspAnswer, lspPending, channel, asked, frames, asks, process, lspDone, stopping>>
Exit ==
  /\ process = "up" /\ process' = "exited" /\ hung' = FALSE
  /\ UNCHANGED <<lspCall, lspAnswer, lspPending, channel, asked, frames, asks, lspDone, stopping>>

-----------------------------------------------------------------------------
Kill == process' = (IF process = "up" THEN "killed" ELSE process) /\ hung' = FALSE
(* Start: a server whose handshake failed is killed.                        *)
StartFails ==
  /\ lspCall[1] = "failed" /\ process = "up" /\ Kill
  /\ UNCHANGED <<lspCall, lspAnswer, lspPending, channel, asked, frames, asks, lspDone, stopping>>

(* Shutdown, once its request has ended.                                    *)
ShutdownRefused ==
  /\ stopping = "asking" /\ lspCall[MaxRequest] = "failed"
  /\ Kill /\ stopping' = "returned"
  /\ UNCHANGED <<lspCall, lspAnswer, lspPending, channel, asked, frames, asks, lspDone>>
(* The notification takes the lock and may block as any write; that it fails *)
(* is not told.                                                             *)
NotifyBlocks ==
  /\ stopping = "asking" /\ lspCall[MaxRequest] = "answered" /\ Unlocked /\ hung
  /\ stopping' = "exit"
  /\ UNCHANGED <<lspCall, lspAnswer, lspPending, channel, asked, frames, asks, process, hung, lspDone>>
NotifyExit ==
  /\ stopping = "exit" \/ (stopping = "asking" /\ lspCall[MaxRequest] = "answered" /\ Unlocked)
  /\ ~hung
  /\ \/ process = "up" /\ stopping' = "waiting" /\ UNCHANGED <<process, hung>>
     \/ Kill /\ stopping' = "returned"
  /\ UNCHANGED <<lspCall, lspAnswer, lspPending, channel, asked, frames, asks, lspDone>>

MutWaitExit ==          \* five seconds are enough for any server
  /\ stopping = "waiting" /\ stopping' = "returned"
  /\ UNCHANGED <<lspCall, lspAnswer, lspPending, channel, asked, frames, asks, lspDone, process, hung>>

(* The process ends within five seconds, or is killed.                      *)
WaitExit ==
  /\ stopping = "waiting" /\ stopping' = "returned" /\ Kill
  /\ UNCHANGED <<lspCall, lspAnswer, lspPending, channel, asked, frames, asks, lspDone>>

LspNext ==
  \/ \E r \in Requests :
       Register(r) \/ WriteFrame(r) \/ TakeAnswer(r) \/ Abandon(r) \/ Answer(r) \/ Ask(r)
  \/ \E r \in Requests : WriteBlocks(r)
  \/ ReadFrame \/ ReadLoopEnds \/ Hangs \/ Exit
  \/ StartFails \/ ShutdownRefused \/ NotifyBlocks \/ NotifyExit \/ WaitExit

LspFairness ==
  /\ \A r \in Requests : WF_lspVars(WriteFrame(r)) /\ WF_lspVars(Abandon(r)) /\ WF_lspVars(TakeAnswer(r))
  /\ WF_lspVars(ShutdownRefused) /\ WF_lspVars(NotifyExit) /\ WF_lspVars(WaitExit)

LspSpec == LspInit /\ [][LspNext]_lspVars /\ LspFairness

-----------------------------------------------------------------------------
(* A request returns with a frame of its own number or with an error, and   *)
(* what is registered still waits: an abandoned request leaves no entry     *)
(* behind for a late answer (transport.go:134-175, 241-288).                *)
AnswersAreTheirs ==
  /\ \A r \in Requests : lspAnswer[r].id \in {0, r}
  /\ \A r \in lspPending : lspCall[r] \in {"registered", "writing", "waiting"} /\ channel[r] = NoFrame

(* Once Shutdown has returned the server does not run, whatever became of   *)
(* the request and the notification (transport.go:194-234).                 *)
ShutdownEndsTheServer == stopping = "returned" => process # "up"

(* Shutdown returns, whether the server answers or not, as long as the      *)
(* server reads what it is sent or ends: the waits of Shutdown have a timeout *)
(* (transport.go:195, 220-227), but its two writes have none, nor has the   *)
(* write of another request that holds the lock (transport.go:155-157).     *)
ShutdownReturns == []<>hung \/ (stopping = "asking" ~> stopping = "returned")
=============================================================================
