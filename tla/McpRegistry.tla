---------------------------- MODULE McpRegistry ----------------------------
(* The registry of MCP servers (internal/mcp/registry.go), the handshake of  *)
(* a client (client.go) and the two ways a server comes into it:             *)
(* AddServerFromConfig, and MCPConnect of the loop. A connection is a server *)
(* process; several may bear one name. r.mu is held over single steps, but   *)
(* for Disconnect, which waits under it for the process to end. The second   *)
(* part, with variables of its own, is the validator of their phases.        *)
EXTENDS Integers, Sequences, FiniteSets, SequencesExt

CONSTANTS
  ServerNames,  \* servers of the configuration
  Offers,       \* the tools each of them lists
  MaxConns,     \* bound on the connections ever made
  ToolCalls     \* bound: calls of tools, by number

VARIABLES
  conns,        \* connections made
  servers,      \* r.servers: connections that are registered, in order
  alive,        \* connections whose process runs
  closing,      \* the connection Disconnect waits for, or 0
  menu,         \* the tools the model was last offered
  toolCall      \* the calls

registryVars == <<conns, servers, alive, closing, menu, toolCall>>

Handshake == <<"initialize", "notifications/initialized", "tools/list", "resources/list">>
AllToolNames == UNION {Offers[n] : n \in ServerNames}
Stages == {"initialize", "list_tools", "list_resources", "register", "registered", "failed"}
NotCalled == [tool |-> "none", conn |-> 0, state |-> "idle"]

RegistryTypeOK ==
  /\ \A c \in DOMAIN conns :
       conns[c] \in [name : ServerNames, path : {"config", "loop"}, stage : Stages,
                     tools : SUBSET AllToolNames, heard : {SubSeq(Handshake, 1, n) : n \in 0..4}]
  /\ \A i \in DOMAIN servers : servers[i] \in DOMAIN conns
  /\ alive \subseteq DOMAIN conns /\ closing \in {0} \cup DOMAIN conns
  /\ toolCall \in [ToolCalls -> [tool : AllToolNames \cup {"none"}, conn : {0} \cup DOMAIN conns,
                                 state : {"idle", "sent", "done", "failed", "unknown"}]]

RegistryInit ==
  /\ conns = <<>> /\ servers = <<>> /\ alive = {} /\ closing = 0
  /\ menu = {} /\ toolCall = [k \in ToolCalls |-> NotCalled]

-----------------------------------------------------------------------------
(* The process starts; the client has not spoken yet.                       *)
Connect(name, path) ==
  /\ Len(conns) < MaxConns
  /\ conns' = Append(conns, [name |-> name, path |-> path, stage |-> "initialize",
                             tools |-> {}, heard |-> <<>>])
  /\ alive' = alive \cup {Len(conns')}
  /\ UNCHANGED <<servers, closing, menu, toolCall>>

Advance(c, stage, tools, heard) ==
  conns' = [conns EXCEPT ![c].stage = stage, ![c].tools = tools, ![c].heard = heard]

Initialize(c) ==
  /\ conns[c].stage = "initialize" /\ c \in alive
  /\ Advance(c, "list_tools", {}, SubSeq(Handshake, 1, 2))
  /\ UNCHANGED <<servers, alive, closing, menu, toolCall>>

ListTools(c) ==
  /\ conns[c].stage = "list_tools" /\ c \in alive
  /\ Advance(c, "list_resources", Offers[conns[c].name], SubSeq(Handshake, 1, 3))
  /\ UNCHANGED <<servers, alive, closing, menu, toolCall>>

(* Best effort: any answer will do, and none.                               *)
ListResources(c) ==
  /\ conns[c].stage = "list_resources"
  /\ Advance(c, "register", conns[c].tools, IF c \in alive THEN Handshake ELSE conns[c].heard)
  /\ UNCHANGED <<servers, alive, closing, menu, toolCall>>

MutAddServer(c) ==      \* the latest first
  /\ conns[c].stage = "register" /\ closing = 0
  /\ servers' = <<c>> \o servers
  /\ Advance(c, "registered", conns[c].tools, conns[c].heard)
  /\ UNCHANGED <<alive, closing, menu, toolCall>>

AddServer(c) ==
  /\ conns[c].stage = "register" /\ closing = 0
  /\ servers' = Append(servers, c)
  /\ Advance(c, "registered", conns[c].tools, conns[c].heard)
  /\ UNCHANGED <<alive, closing, menu, toolCall>>

MutConnectFails(c) ==   \* the transport is left as it is
  /\ conns[c].stage \in {"initialize", "list_tools"}
  /\ Advance(c, "failed", {}, conns[c].heard)
  /\ UNCHANGED <<alive, servers, closing, menu, toolCall>>

(* An error of the server, of the transport or of the context. Of the two   *)
(* ways only AddServerFromConfig closes the transport.                      *)
ConnectFails(c) ==
  /\ conns[c].stage \in {"initialize", "list_tools"}
  /\ Advance(c, "failed", {}, conns[c].heard)
  /\ alive' = IF conns[c].path = "config" THEN alive \ {c} ELSE alive
  /\ UNCHANGED <<servers, closing, menu, toolCall>>

(* AllAPITools, taken for a request to the model.                           *)
OfferTools ==
  /\ closing = 0
  /\ menu' = UNION {conns[servers[i]].tools : i \in DOMAIN servers}
  /\ UNCHANGED <<conns, servers, alive, closing, toolCall>>

Offering(t) == {i \in DOMAIN servers : t \in conns[servers[i]].tools}

(* 0 when no server has it.                                                 *)
FindTool(t) ==
  IF Offering(t) = {} THEN 0 ELSE servers[CHOOSE i \in Offering(t) : \A j \in Offering(t) : i <= j]

MutCallTool(k, t) ==    \* any connection that has listed it
  /\ closing = 0 /\ toolCall[k] = NotCalled /\ t \in menu
  /\ \E c \in DOMAIN conns : t \in Offers[conns[c].name]
       /\ toolCall' = [toolCall EXCEPT ![k] = [tool |-> t, conn |-> c, state |-> "sent"]]
  /\ UNCHANGED <<conns, servers, alive, closing, menu>>

(* The model calls what it was offered; the registry may have changed.      *)
CallTool(k, t) ==
  /\ closing = 0 /\ toolCall[k] = NotCalled /\ t \in menu
  /\ toolCall' = [toolCall EXCEPT ![k] =
       [tool |-> t, conn |-> FindTool(t), state |-> IF FindTool(t) = 0 THEN "unknown" ELSE "sent"]]
  /\ UNCHANGED <<conns, servers, alive, closing, menu>>

CallReturns(k) ==
  /\ toolCall[k].state = "sent"
  /\ \/ toolCall[k].conn \in alive /\ toolCall' = [toolCall EXCEPT ![k].state = "done"]
     \/ toolCall' = [toolCall EXCEPT ![k].state = "failed"]
  /\ UNCHANGED <<conns, servers, alive, closing, menu>>

(* The first of the name; its standard input is closed.                     *)
Disconnect(name) ==
  /\ closing = 0
  /\ \E i \in DOMAIN servers :
       /\ conns[servers[i]].name = name
       /\ \A j \in 1..(i - 1) : conns[servers[j]].name # name
       /\ closing' = servers[i]
  /\ UNCHANGED <<conns, servers, alive, menu, toolCall>>

MutCloseReturns ==      \* removed before it has ended
  /\ closing # 0 /\ closing' = 0
  /\ \E i \in DOMAIN servers : servers[i] = closing /\ servers' = RemoveAt(servers, i)
  /\ UNCHANGED <<conns, alive, menu, toolCall>>

(* The process has ended. An exit status other than 0 is an error of Close, *)
(* and the entry stays.                                                     *)
CloseReturns ==
  /\ closing # 0 /\ closing' = 0
  /\ alive' = alive \ {closing}
  /\ \/ closing \in alive
        /\ \E i \in DOMAIN servers : servers[i] = closing /\ servers' = RemoveAt(servers, i)
     \/ UNCHANGED servers
  /\ UNCHANGED <<conns, menu, toolCall>>

(* A server ends on its own.                                                *)
ServerEnds(c) ==
  /\ c \in alive /\ alive' = alive \ {c}
  /\ UNCHANGED <<conns, servers, closing, menu, toolCall>>

RegistryNext ==
  \/ \E n \in ServerNames : Disconnect(n) \/ \E path \in {"config", "loop"} : Connect(n, path)
  \/ \E c \in DOMAIN conns :
       \/ Initialize(c) \/ ListTools(c) \/ ListResources(c) \/ AddServer(c)
       \/ ConnectFails(c) \/ ServerEnds(c)
  \/ OfferTools \/ CloseReturns
  \/ \E k \in ToolCalls : CallReturns(k) \/ \E t \in AllToolNames : CallTool(k, t)

RegistrySpec == RegistryInit /\ [][RegistryNext]_registryVars

-----------------------------------------------------------------------------
(* A call runs on a server that has been through the handshake, whose list  *)
(* had the tool (registry.go:34-80, client.go:33-79).                       *)
CalledAfterHandshake ==
  \A k \in ToolCalls : toolCall[k].state = "done" =>
    LET c == conns[toolCall[k].conn]
    IN  toolCall[k].tool \in c.tools /\ Len(c.heard) >= 3 /\ c.stage = "registered"

(* While the server a tool name stands for is registered, the name stands   *)
(* for it: what is connected later never takes calls from it                *)
(* (registry.go:55-80).                                                     *)
ToolsKeepTheirServer ==
  [][\A t \in AllToolNames :
       FindTool(t) \in ToSet(servers') => FindTool(t)' = FindTool(t)]_registryVars

(* The process of a server that was registered is in the registry for as    *)
(* long as it runs, through connections and disconnections of others and    *)
(* while Disconnect waits for its end; and AddServerFromConfig leaves none  *)
(* behind when the handshake fails - MCPConnect leaves every one (registry. *)
(* go:108-122, 160-175, conversation.go:1698).                              *)
ProcessesAreKnown ==
  \A c \in alive :
    /\ conns[c].stage = "registered" => c \in ToSet(servers)
    /\ conns[c].stage = "failed" => conns[c].path = "loop"

-----------------------------------------------------------------------------
(* The validator of the phases of an MCP server (internal/mcp/lifecycle.go): *)
(* the owner of the server reports phases, failures and timeouts, in any     *)
(* order; v.mu makes each report one step.                                   *)
CONSTANTS
  ErrorPhases,    \* bound: the phases errors are reported of
  MaxSurfaced,    \* bound on the errors reported
  MaxRun          \* bound on the phases run

VARIABLES
  phase,          \* currentPhase, "none" before the first
  surfaced,       \* phaseErrors[PhaseErrorSurfacing]: [phase, recoverable]
  phaseErrors,    \* phases with errors of their own
  phaseLog        \* phaseResults: [kind, phase]

lifecycleVars == <<phase, surfaced, phaseErrors, phaseLog>>

Startup == <<"config_load", "server_registration", "spawn_connect", "initialize_handshake",
             "tool_discovery", "resource_discovery", "ready">>
Phases == ToSet(Startup) \cup {"invocation", "error_surfacing", "shutdown", "cleanup"}

ASSUME LifecycleAssumption == ErrorPhases \subseteq Phases

LifecycleTypeOK ==
  /\ phase \in Phases \cup {"none"}
  /\ \A i \in DOMAIN surfaced : surfaced[i] \in [phase : Phases, recoverable : BOOLEAN]
  /\ phaseErrors \subseteq Phases
  /\ \A i \in DOMAIN phaseLog : phaseLog[i] \in [kind : {"success", "failure", "timeout"}, phase : Phases]

LifecycleInit == phase = "none" /\ surfaced = <<>> /\ phaseErrors = {} /\ phaseLog = <<>>

MutValidatePhaseTransition(from, to) ==     \* forward to any later phase of a start
  \/ to = "shutdown" /\ from # "cleanup"
  \/ \E i, j \in 1..7 : i < j /\ from = Startup[i] /\ to = Startup[j]
  \/ from = "ready" /\ to = "invocation"
  \/ from \in {"invocation", "error_surfacing"} /\ to = "ready"
  \/ from = "shutdown" /\ to = "cleanup"

ValidatePhaseTransition(from, to) ==
  \/ to = "shutdown" /\ from # "cleanup"
  \/ to = "error_surfacing" /\ from \notin {"shutdown", "cleanup"}
  \/ \E i \in 1..6 : from = Startup[i] /\ to = Startup[i + 1]
  \/ from = "tool_discovery" /\ to = "ready"
  \/ from = "ready" /\ to = "invocation"
  \/ from \in {"invocation", "error_surfacing"} /\ to = "ready"
  \/ from = "shutdown" /\ to = "cleanup"

MutCanResume == \E i \in DOMAIN surfaced : surfaced[i].recoverable

CanResume == surfaced # <<>> /\ Last(surfaced).recoverable

(* A phase that is not allowed is refused, and nothing is recorded.         *)
RunPhase(to) ==
  /\ Len(phaseLog) < MaxRun
  /\ IF phase = "none" THEN to = "config_load"
     ELSE /\ ValidatePhaseTransition(phase, to)
          /\ phase = "error_surfacing" /\ to = "ready" => CanResume
  /\ phase' = to
  /\ phaseLog' = Append(phaseLog, [kind |-> "success", phase |-> to])
  /\ UNCHANGED <<surfaced, phaseErrors>>

MutSurfaceError(at, recoverable, kind) ==   \* an error of a finished server changes nothing
  /\ surfaced' = Append(surfaced, [phase |-> at, recoverable |-> recoverable])
  /\ phaseErrors' = phaseErrors \cup {at, "error_surfacing"}
  /\ phase' = IF phase \in {"ready", "invocation"} THEN phase ELSE "error_surfacing"
  /\ phaseLog' = Append(phaseLog, [kind |-> kind, phase |-> at])

(* RecordFailure and RecordTimeout, whatever the current phase; a timeout   *)
(* is never recoverable.                                                    *)
SurfaceError(at, recoverable, kind) ==
  /\ surfaced' = Append(surfaced, [phase |-> at, recoverable |-> recoverable])
  /\ phaseErrors' = phaseErrors \cup {at, "error_surfacing"}
  /\ phase' = "error_surfacing"
  /\ phaseLog' = Append(phaseLog, [kind |-> kind, phase |-> at])

RecordFailure(at, recoverable) ==
  Len(surfaced) < MaxSurfaced /\ SurfaceError(at, recoverable, "failure")
RecordTimeout(at) ==
  Len(surfaced) < MaxSurfaced /\ SurfaceError(at, FALSE, "timeout")

LifecycleNext ==
  \/ \E to \in Phases : RunPhase(to)
  \/ \E at \in ErrorPhases : RecordTimeout(at) \/ \E r \in BOOLEAN : RecordFailure(at, r)

LifecycleSpec == LifecycleInit /\ [][LifecycleNext]_lifecycleVars

-----------------------------------------------------------------------------
(* A server that is used had no error since, or a last one it could recover *)
(* from; whatever was reported before, and in whatever phase                *)
(* (lifecycle.go:209-227, 298-330).                                         *)
UsableOnlyAfterRecoverable ==
  phase \in {"ready", "invocation"} =>
    LET errors == {i \in DOMAIN phaseLog : phaseLog[i].kind # "success"}
    IN  errors # {} => Last(surfaced).recoverable

Ran(p) == {i \in DOMAIN phaseLog : phaseLog[i] = [kind |-> "success", phase |-> p]}

(* The phases of a start are run in their order and each at most once; an   *)
(* invocation comes from a server made ready, and nothing but an error      *)
(* report follows a cleanup (lifecycle.go:256-294).                         *)
StartsInOrder ==
  /\ \A i \in 1..4 : Ran(Startup[i + 1]) # {} =>
       /\ Cardinality(Ran(Startup[i + 1])) = 1
       /\ Ran(Startup[i]) # {} /\ Max(Ran(Startup[i])) < Max(Ran(Startup[i + 1]))
  /\ \A i \in Ran("invocation") : \E j \in Ran("ready") : j = i - 1
  /\ \A i \in Ran("cleanup") : i < Len(phaseLog) => phaseLog[i + 1].kind # "success"
=============================================================================
