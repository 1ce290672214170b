---------------------------- MODULE MCTransports ----------------------------
(* What waits for another program, in six parts that share a run and no     *)
(* state: the MCP transports under one lock, those over HTTP, the transport *)
(* of language servers, the stream of a model's answer, the browser login,  *)
(* and the export of telemetry. The parts that are not at work stay at a    *)
(* single initial state, in which no action under fairness is enabled.      *)
EXTENDS LockedTransport, LspTransport, StreamReader, LoginFlow, TelemetryExport

VARIABLE part

MCCalls == 1..4
transportVars == <<part, vars, httpVars, lspVars, readerVars, loginVars, telemetryVars>>

TransportsInit ==
  /\ part \in {"locked", "http", "lsp", "stream", "login", "telemetry"}
  /\ Init /\ HttpInit /\ LspInit /\ ReaderInit /\ LoginInit /\ TelemetryInit
  /\ part # "locked" => kind = "stdio"
  /\ part # "http" => httpKind = "sse"
  /\ part # "telemetry" => sink = "jsonl"
  /\ part # "stream" => dialect = "chat"

TransportsNext ==
  /\ UNCHANGED part
  /\ \/ part = "locked" /\ Next /\ UNCHANGED <<httpVars, lspVars, readerVars, loginVars, telemetryVars>>
     \/ part = "http" /\ HttpNext /\ UNCHANGED <<vars, lspVars, readerVars, loginVars, telemetryVars>>
     \/ part = "lsp" /\ LspNext /\ UNCHANGED <<vars, httpVars, readerVars, loginVars, telemetryVars>>
     \/ part = "stream" /\ ReaderNext /\ UNCHANGED <<vars, httpVars, lspVars, loginVars, telemetryVars>>
     \/ part = "login" /\ LoginNext /\ UNCHANGED <<vars, httpVars, lspVars, readerVars, telemetryVars>>
     \/ part = "telemetry" /\ TelemetryNext /\ UNCHANGED <<vars, httpVars, lspVars, readerVars, loginVars>>

TransportsSpec ==
  TransportsInit /\ [][TransportsNext]_transportVars
  /\ Fairness /\ LspFairness /\ ReaderFairness /\ LoginFairness /\ TelemetryFairness

(* Every variable of the six keeps its type, and no call holds a lock it    *)
(* has returned without (internal/mcp, internal/lsp, internal/api,          *)
(* internal/auth, internal/apikit).                                         *)
TransportsTypeOK ==
  CASE part = "locked" -> TypeOK
    [] part = "http" -> HttpTypeOK
    [] part = "lsp" -> LspTypeOK
    [] part = "stream" -> ReaderTypeOK
    [] part = "login" -> LoginTypeOK
    [] part = "telemetry" -> TelemetryTypeOK

(* What arrives belongs to whom it is given: the answer to a post, the      *)
(* frame to a request, the code to a login; and what was stopped is down    *)
(* (internal/mcp, internal/lsp, internal/auth).                             *)
AnswersBelong ==
  /\ TransportsTypeOK
  /\ part = "http" => PostedOnceWithItsHeader
  /\ part = "lsp" => AnswersAreTheirs /\ ShutdownEndsTheServer
  /\ part = "login" => OnlyOwnCode

(* What was recorded before the exporter is stopped has arrived or is       *)
(* reported as lost, in order, once per lost answer more than once, and     *)
(* under a number of its own (internal/apikit, internal/apikit/telemetry).  *)
EventsAreAccounted == part = "telemetry" => Drained /\ ArrivesInOrder /\ NumbersAreUnique

(* The waits for another program end: a call to an MCP server once it has   *)
(* its line or is closed, Shutdown unless the language server stops reading *)
(* for good, a login, and Stop (stdio.go:82, lsp/transport.go:194-234,      *)
(* oauth.go:265-302, otlp/exporter.go:167-177).                             *)
WaitsEnd == CallsReturn /\ ShutdownReturns /\ LoginReturns /\ StopComesBack
=============================================================================
