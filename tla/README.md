# Verification of claw-code-go

TLA+ models of claw-code-go, a coding agent for the terminal: an agentic loop
that sends a conversation to a model, runs the tools the model calls under a
permission policy, and keeps sessions on disk; streaming clients for several
providers; MCP servers and language servers over pipes and sockets; registries
of workers, tasks and teams for agents that drive other agents; settings,
credentials and plugins in files that several programs share. Each module is
translated from the Go code and checked by TLC on small instances; most have
theorems that TLAPS proves for every value of their constants.

`PROJECT.json` lists the runs, the mutants that show each property can fail, the
code behind each definition, the findings and the hazards. Paths below are
relative to the repository (`src/`).

## The system

| Component | State | Operations | Hard because |
|---|---|---|---|
| Agentic loop, `internal/runtime/conversation.go`, and interface, `internal/tui/model.go` | messages of the session, counters of compaction and usage, permission cache; screen, open dialog and its reply channel | `SendMessageStreaming`, `SendMessage`, `ExecuteTool`, clear; keys and events | one goroutine per turn and the interface share the session without a lock; questions wait for answers; cancellation at any step |
| Compaction, `compact.go`, `summary_compression.go` | the summary of what was removed | by a model, by a pure function, merge, compress | each compaction works on the result of the one before, in a budget |
| Permissions, `internal/permissions` | mode, rules, grants, classifier cache | check, override by hooks, remember | layered precedence; a policy, a manager and a classifier that decide in turn |
| Hooks and tools, `hooks`, `internal/hooks`, `internal/tools` | handlers, plan mode, a running command | fire, dispatch, override, replace the input; judge and run a command | order of checks and effects; processes that outlive their command |
| Sessions: `session.go`, `session_jsonl.go`, `session_store.go`, `loop_adapter.go` | one file per id, rotated and temporary files | save, load, switch, fork, rename, delete, save at exit | truncating writes, several file operations in one save, crashes |
| Worker registry and recovery, `internal/runtime/worker`, `recovery` | status, prompt in flight and armed, error, state file; attempts | create, observe, trust, send, restart, terminate; recipes and escalation | observations are late; workers share directories; steps time out and go on |
| Tasks, teams, cron, `internal/runtime/task`, `team` | registries that name one another by id | create, stop, remove, report | results that come while calls are decided |
| Lanes, `internal/runtime/lane`, `policy`, `trust` | claims, events, rules, roots | collision test, grant; supersede; freshness check; evaluate; allow and deny | nesting of paths; branches that move between git commands; order of rules |
| API clients, `internal/api`, `internal/apikit` | streams, attempts, accumulators of calls, model registry, prompt cache | request, retry, read, convert; refresh | a cut stream must not look complete; time-outs race answers; items overlap |
| Telemetry, `internal/apikit/telemetry` | buffer, batches | record, flush, retry, stop | lost answers, a stop that drains |
| MCP transports, `internal/mcp` | pipes, pending calls, mutex, channel of responses | `Send`, `Notify`, `Close`, the reader goroutine | concurrent calls, bounded pipes, servers that exit or write of their own accord |
| MCP registry, client, lifecycle, OAuth | servers, tools, phases, tokens | add, find, call, disconnect, acquire, refresh, revoke | locks held during I/O, partial failures, token rotation |
| Language servers, `internal/lsp` | pending requests | request, notify, shutdown | answers in any order, or never |
| Credentials and logins, `internal/auth` | two files; a server on the loopback | log in, refresh, log out, resolve | two processes, races of callback, time-out and key press |
| Plugins, `plugin`, `internal/plugins` | registry, choices, trees | install, update, enable, remove | two processes, failures between two writes |
| Settings and slash commands, `internal/config`, `runtime/config.go`, `internal/commands` | three layers of files, the running configuration | load, merge, validate, write, set | what a command shows, what the program does and what the file says may differ |

How they interact: the interface starts a turn with a call in a goroutine and
hears of it through a channel of events; the loop asks the interface back
through a reply channel per question. The loop asks an API client for a stream,
which it reads through a bounded channel; it calls the permission manager, the
hooks, the tools and, for tools of MCP servers, the registry and through it a
transport. Slash commands change the loop through a `LoopAdapter` made for each
command. Worker tools call the worker registry, which recovery drives too.
Programs share the files of settings, credentials, plugins, sessions and caches.

What makes each part correct:

- the loop: one owner of the session at a time; results paired with their calls;
  nothing executed that nobody allowed; an answer goes to the question it was
  given for; turns end and the prompt returns;
- compaction: the latest and the important lines survive, in order, in the budget;
- permissions, hooks, commands: deny prevails, ask is asked; what was stopped
  has no effect; a stricter mode allows no more; a command comes back;
- sessions: what was saved is found, whole, after any failure;
- workers: a prompt is in flight or armed for replay, never both; an error
  explains a blocked worker; state files tell the truth; recovery is bounded;
- lanes: a file on a branch has one writer; a check says what it saw; a denied
  root stays denied;
- clients: blocks and arguments arrive once and whole; a cut response is not
  committed; nothing parks a turn for ever;
- telemetry: recorded before the stop means arrived, or reported;
- transports: a caller gets the reply to its own request or an error, and gets it;
- files shared by programs: what a user entered, chose or was granted is lost by
  nothing but the failures, and the meetings of two writes, that each property
  names; what is installed was proven; what is written is used next time.

## Modules

| Module | Models | Checked in |
|---|---|---|
| `ConversationLoop` (abstract: `SessionOwnership`; proofs: `ConversationLoop_proofs`) | the turn of `conversation.go` with the interface of `tui/model.go` | `loop_turns`, `loop_calls` |
| `Compaction` | `compact.go`, `summary_compression.go` | `sessions` |
| `SessionFiles` | `.json` sessions and the commands on them | `sessions` |
| `SessionJsonl` (proofs of the two: `Sessions_proofs`) | `SaveSessionJSONL`, rotation, the store | `sessions` |
| `Permissions`, extended by `ToolPipeline` | policy, manager, classifier and its cache; `ExecuteTool` with hooks | `tools` |
| `PlanMode` | `tools/plan_mode.go` | `tools` |
| `BashCommand` (proofs of the four, and of `SdkTransport`: `Tools_proofs`) | `tools/bash*.go` | `tools`, `tools_nested` |
| `WorkerRegistry`, extended by `Recovery` | workers and recovery on them | `workers` |
| `Tasks` (proofs of the three: `Workers_proofs`) | tasks, teams, cron entries | `workers` |
| `BranchLock` (abstract: `FileWriters`; proofs: `Lanes_proofs`) | the collision test and the claims granted by it | `lanes_and_models` |
| `LaneEvents`, `LanePolicy` | the log and the freshness check; rules; trusted roots | `lanes_and_models` |
| `ResponsesStream` (proofs: `Responses_proofs`, on top of `Lanes_proofs`) | the Responses converter, its accumulators, the assembly of blocks; the conversion of a history into requests | `lanes_and_models`, `responses_late_call` |
| `SseFrames` | the parser of frames | `lanes_and_models` |
| `ModelCaches` | the registry of models; the prompt cache | `lanes_and_models` |
| `StreamReader` | a request, its attempts, the reading goroutine of four dialects, the watchdog, the turn | `transports` |
| `SdkTransport`, `LockedTransport` (abstract: `RemoteCalls`; proofs: `Tools_proofs`, `Transports_proofs`) | MCP over two pipes; stdio and websocket, and over SSE and the proxy | `sdk_transport`, `transports` |
| `LspTransport` | language servers | `transports` |
| `LoginFlow` | `/login` and its callback server | `transports` |
| `TelemetryExport` (proofs of this run's modules: `Transports_proofs`) | tracer, sinks, batching exporter | `transports` |
| `McpRegistry`, `OAuthBroker` | servers of MCP and their phases; their tokens | `connections` |
| `Credentials`, `PluginManager` | files of credentials; the plugin manager, and the installer of the marketplace | `connections` |
| `Settings` (proofs of the five: `Connections_proofs`) | layers, start, `/config`, slash commands, validator | `connections`, `settings_hooks` |

An `MC...` module extends the modules of one run, gives values to their constants
and, where a run has several components, composes them: a variable `part` says
which one is at work, the others stay at a single initial state. The parts of a
run share no state in the code either; they share a run so that each run asks one
question of several components (what waits for another program, what is kept,
what is decided). Functions compared with a reference over bounded inputs (the advice
of the validator, the conversion of requests) are parts without steps. The
property of such a run names what it asks and is the
conjunction of the properties of its parts, each stated and commented in the
module it belongs to. Components that do interact are composed for real:
`Recovery` acts on the workers of `WorkerRegistry` while they go on,
`ToolPipeline` decides by `Permissions`, `ConversationLoop` has loop and
interface, the transports have both ends of their pipes, `StreamReader` the
server, the goroutine, the watchdog and the turn. Definitions whose names begin
with `Mut` are the faults `PROJECT.json` puts in place of the definition they
precede.

### How state and actions correspond to the code

- **ConversationLoop.** `pc` is where the goroutine of the turn stands; an
  action is the code between two points at which another goroutine can run, or
  at which the context is looked at. `msgs` is `Session.Messages`, of which a
  message keeps its role and the ids of the calls and results in it. `events` is
  the channel of the turn; `ui`, `ask` the interface and its dialog, `replies`
  what has been answered and not received. `lost`, `peak`, `executed`, `grants`
  record the past for the properties and are never read by a guard.
  `SessionOwnership` is what the two sides promise each other: the history
  changes only by its owner. `SendMessage` is the same module with
  `Streaming = FALSE`; the theorems hold for it too.
- **Compaction.** A summary is a sequence of lines, a line what it is and which
  compaction it comes from; blank lines are lines, since a timeline ends at the
  first. The replacing of tags, the merge, the ranking and the cut to the budget
  are operators that the actions apply. Not modelled: a `$` in a summary of the
  model, which the replacement of `compact.go:263` expands.
- **SessionFiles, SessionJsonl.** `os.WriteFile` is two steps with a failure or
  a crash in between, and may fail before the first; a JSONL save is five
  (`Rotate`, `Truncate`, `Write`, `Rename`, `Cleanup`). Contents are known by the
  time they were written at. `lost` remembers the ids whose last write destroyed
  what was there and did not come to its end.
- **Permissions, ToolPipeline.** One decision is a function of policy, manager,
  grants, override and answer, evaluated for every small policy; the pipeline
  takes a call through scope, handlers, hook commands, override, plan mode,
  dispatch and post hooks, one action each, with a cancellation anywhere.
- **PlanMode.** Two files, each truncated and then written; the settings are
  edited by the user in between.
- **BashCommand.** A command is a sequence of words in parts, for the judgement,
  and a sequence of characters, for the split (`SplitPipeline`). A word stands
  for a text `strings.Contains` looks for. The run is timed by a clock that does
  not pass a deadline: the group is killed when the time is up, a job of another
  group keeps the pipe, and `WaitDelay` closes it. A judgement
  that would call itself with the same text ends in the outcome `overflow`.
- **WorkerRegistry, Recovery.** The mutex makes each operation of the registry
  one action. A screen is the set of cues the detector finds in it, any set at
  any time, since observers read screens at a time of their own. `Record` is what
  every event does: the worker changes and its state file is written, unless it
  has no directory; nobody hears of a write that fails, and the file is then what
  it was or nothing a reader can use (`Unknown`). A handshake is a goroutine that
  goes on after its time-out.
- **Tasks.** One action per operation of each registry; who calls holds ids and
  copies that may be old. `SetStatus` gives a task any status in any status.
- **BranchLock.** `Acquire` grants a claim when `DetectBranchLockCollisions`
  finds no collision with those held, as its comments have lane managers use it.
  `FileWriters`: a place, a file on a branch, passes from nobody to a lane and
  back, never from lane to lane.
- **LaneEvents, LanePolicy.** The log with its readers; a check of a
  branch as the git commands it is made of, with both branches moving in
  between; rules evaluated again whenever the lane has moved; roots in any order.
- **ResponsesStream.** One action per frame, of a server that ends its items in
  turn, lets them overlap, or names them late. `NewAccumulator`, `HandleDelta`,
  `HandleDone`, `MarkStarted`, `Finish` are the operations of the accumulator of
  calls; `Assemble` is what the turn makes of the events.
  `ConvertMessagesToResponsesInput` and `ConvertMessages` are functions from
  histories to the items and messages of a request, compared over all small
  histories with the rule of both APIs that results follow their calls.
- **SseFrames.** Bytes and chunks cut anywhere, against the frames of the whole.
- **StreamReader.** `request` is the request with its attempts, `upstream` the
  server, `reader` the goroutine, `chan` the channel, `turn` the consumer.
  `AnthropicLine`, `BedrockEvent`, `ChatLine` and `ResponsesLine` are what each
  client makes of a line: data, an end, an error, garbage, `[DONE]`. The lines of
  a response are bounded; the lines that say nothing (`KeepsAlive`) are not.
- **SdkTransport, LockedTransport.** A `Send` is a goroutine with its steps:
  lock, write into a bounded pipe, unlock, wait (SDK), or read the next line
  under the same lock. `RemoteCalls` is the view of the callers: a call is
  pending until it is answered with the answer to that call, or fails. Over
  HTTP a call is one post with the header current at its time.
- **LspTransport.** The pending table, late answers and `Shutdown` with its
  time-outs. A server may stop reading (`hung`) and start again at any time: a
  write then blocks with the mutex held, and no context ends it.
- **LoginFlow.** Handlers, the channel of one place, the time-out, the exchange
  and the shutdown that waits for the handlers, for two logins of one program.
- **TelemetryExport.** Recorders take a number and then hand over their record;
  the flusher drains the buffer in batches, posts each with retries to a
  collector that may take a batch and lose its answer; `Stop` asks for a drain.
- **ModelCaches.** A refresh is its steps (cache file, fetch, save,
  merge) with a failure at each; a lookup of the cache reads the entry outside
  the lock and acts on it under the lock. An alias is a word in lower case, and
  the word of a name the network brings is taken from whatever it stood for.
- **McpRegistry, OAuthBroker.** The two ways in which a server
  enters the registry, step by step under its lock; phases reported in any
  order; the broker with rotation, an answer that is lost after the server has
  rotated (`AnswerLost`), and a file that may refuse a write.
- **Credentials, PluginManager.** Each operation is read, change, write, with
  other processes, failures and the end of the process between any two steps. A
  read may fail, or find what another has just truncated; a write truncates
  (`OpenStore`) and then writes, where the end of a longer text written in between
  stays behind; a rename fails, and the rename that was to undo it as well.
  `clashed`, `wasted`, `tangled`, `damaged`, `undeleted` are histories of what
  went wrong, one entry or plugin at a time, and are taken off again by the next
  operation on it that does its work.
- **Settings.** `layers` are the three files, a file being what its keys say,
  or a text that was truncated or torn; a program starts from them (`LoadConfig`,
  flags, environment), `/config` changes one of its settings and reads, truncates
  and writes the project file in steps that others may come between, any of which
  may fail, slash commands change settings or are refused. A read whose error is
  dropped (`loader.go:155`) makes the write that follows `blind`. `ValidateSettingsJSON` and
  `SuggestField` are functions, compared with the decoder (`Decodes`) and with
  the definition of the distance of edits over bounded inputs.

## Runs

| Run | Expected | Parts, and what it shows |
|---|---|---|
| `loop_turns` | pass | two streamed turns with a permission dialog, a question, compaction and cancellation at any step: the session is free when the interface takes input (`OneTurnAtATime`); answers reach the call that asked, and the end is announced before the channel closes (`AnswersArrive`); every turn ends and the prompt comes back (`TurnsEnd`) |
| `loop_calls` | pass | two calls in a response, one ask-ruled, hooks, late answers, cancellation, compaction: `HistoryPaired`, `AuthorizedExecution`, `Ownership` |
| `lanes_and_models` | pass | nine parts. Locks: `Disjoint`, `OneWriter`. Events and freshness: `ChecksAreHonest` (`ReadersAgree`, `FreshWasFresh`, `FixesAreNamed`). Policy and trust: `DecisionsStand` (`DecidedInOrder`, `NothingTakenBack`, `DenialsStand`). Responses and frames: `StreamsAreRebuilt` (`BlocksAreWellFormed`, `ArgumentsOnce`, `RebuiltAsSent`, `RequestsArePaired`, `CutsDoNotShow`, `NothingIsLost`). Registry and cache: `KeptDataIsFresh` (`DataIsRecent`, `CuratedSurvive`, `HitsAreFresh`), `UnexpectedHasACause` |
| `sdk_transport` | pass | two calls at a time, stray and broken frames, cancellation, exit, `Close`: never another's reply (`RepliesToTheirCallers`); a request nothing overlaps comes back, `Close` releases all (`SendsReturn`) |
| `transports` | pass | six parts. Stdio and websocket: `RepliesToTheirCallers`; HTTP, language server, login: `AnswersBelong` (`PostedOnceWithItsHeader`, `AnswersAreTheirs`, `ShutdownEndsTheServer`, `OnlyOwnCode`); streams: `StreamIsWhole` (`NothingCutOffIsCommitted`, `FailuresAreHeard`), `StreamEnds` (`TurnIsNotParked`, `CancelFreesAll`); telemetry: `EventsAreAccounted` (`Drained`, `ArrivesInOrder`, `NumbersAreUnique`); all that wait: `WaitsEnd` (`CallsReturn`, `ShutdownReturns`, `LoginReturns`, `StopComesBack`) |
| `connections` | pass | seven parts. MCP: `ServersAreUsable` (`CalledAfterHandshake`, `ProcessesAreKnown`, `UsableOnlyAfterRecoverable`, `StartsInOrder`); tokens and credentials: `SecretsSurvive` (`GrantIsKept`, `KeysSurvive`, `RenewalIsKept`); plugins: `PluginsSurvive` (`RecordedIsThere`, `ChoiceSurvives`, `OnlyProvenInstalled`, `OneCopyRemains`, `ListTellsTheTruth`); settings: `SettingsHold` (`WrittenIsUsed`, `ModesAgree`, `UnmanagedStay`); advice: `AdviceHolds` (`AdviceIsRight`); every step: `StepsAreSafe` (`ToolsKeepTheirServer`, `TokensFit`, `FailureKeepsTheOld`, `RefusedChangesNothing`) |
| `sessions` | pass | three parts. JSON: `SavedIsFound`. JSONL: `StoreIsWhole` (`NeverTorn`, `SavedSurvives`, `LoadFindsSaved`), `RotationIsOrdered`. Compaction: `SummaryIsKept` |
| `workers` | pass | three parts. Workers: `OnePrompt`, `ErrorExplains`, `FilesAreCurrent`. Recovery and registries: `OutcomesStand` (`OutcomeIsTrue`, `LateReconnectsBounded`, `IdsKeepTheirMeaning`) |
| `tools` | pass | five parts. Decisions: `PermissionsHold`. Pipeline: `StoppedStaysStopped` (`StoppedNeverRuns`, `PlanModeRunsNothing`, `PostMatchesResult`). Classifier cache and plan mode: `KeptDecisionsHold`. Bash: `CommandsAreJudged` (`SplitsAreExact`, `WritersAreStopped`, `ModesOnlyTighten`, `OutputIsWhole`, `CommandReturns`) |
| `tools_nested` | violation | the judgement of `sudo sudo` does not end |
| `settings_hooks` | violation | a more local file without hooks hides the hooks of the others |
| `responses_late_call` | violation | a call named at the end is started without its arguments |

### Bounds

- Loop: two calls in a response are enough for a call to be in each position
  (first, last, after a denied one); two turns let a late event, answer or grant
  of one meet the next, and a threshold of four messages puts a compaction
  between them. `ChanCap` is 64 in the code; with one slot the channel is full
  after each event. `MaxRounds` stands for the fact that models stop calling
  tools: the code has no limit, and `TurnEnds` is relative to it.
- Sessions: three ids, so that a rename can meet a third session; one rotated
  file kept (three in the code) and four snapshots, so that clean-up has
  something to remove and a choice to make; three compactions over eight
  messages into a budget too small for all lines.
- Tools: two tools, two inputs, every list of the given rules and every mode; a
  pipeline of two calls with up to one handler and one hook command; a cache of
  two entries for three keys; command texts of up to five characters, and parts
  of up to three words of 21; a time-out of two ticks and a delay of one, so that
  everything may happen before, at and after each.
- Workers: two in one directory, one prompt with text and the blank one; three
  recoveries of six scenarios; three ids per registry, one of them reused by
  those that hold stale ones. Worker states are not bounded.
- Lanes: two lanes, two branches, three claims, paths that nest and paths that
  only share a prefix of text; four events of two commits; four new commits.
- Models: two calls and a text of two fragments each, in three styles, with every
  interleaving; bodies of six bytes with a buffer of four; five ticks of a
  registry whose data live two; four ticks of a cache whose entries live two.
- Transports: four calls, one message in a pipe, one stray message (SDK: three
  calls, two in flight, two strays), so that each buffer is full at once; three
  posts; three requests of a language server; two attempts; three lines of a
  body, a channel of two (64 in the code); two callbacks, two logins; two
  recorders, three records, batches of two, one lost answer.
- Connections: two names, two connections; two callers of a broker with three
  tokens; three operations on plugins, two installers with two plugins, of which
  the catalog changes what it offers of one (`OneChanges`); two programs at the
  credentials and two at the settings, each with two changes, so that both can
  be inside their read-modify-write at once. Programs and installers do not
  differ, and the run takes states for one that differ in who is who; it has no
  liveness property.

### Fairness

Safety needs none. Where liveness is checked (`loop_turns`, `sdk_transport`,
`transports`), goroutines that can take a step take one (weak fairness on the
steps of each goroutine), which the Go scheduler gives; timers that are set
elapse; the interface is an event loop that takes an event that is there. The
user answers an open dialog: without that a turn may wait for ever, by design.
The provider ends a response, or the stream fails, in the loop; in `StreamReader`
nothing is assumed of a server once the body is open: it may be silent, which is
what the watchdog is for, and `TurnIsNotParked` is claimed only for the clients
that have one. But each line the server sends touches the watchdog, comments
included, by intent (`sseutil/idlewatchdog.go:51`): a server that sends them for
ever parks the turn, and the property says so by its first disjunct. MCP servers over pipes are fair in reading and replying,
since a transport without time-outs cannot promise more than its server.
Collectors need not answer; nor need language servers, but `ShutdownReturns` is
about those that go on reading (or end), since the writes of `Shutdown` have no
time-out. A cancelled turn ends without any such condition
(`CancelFreesAll`). Nobody must call, cancel or close; nothing is assumed of
crashes, failures, cancellation or noise. `CommandReturns` of bash is checked as
an invariant of the clock: time does not pass the deadline of a wait.

## Proofs

Proved for all values of the constants, from the assumptions named in the
modules:

- **ConversationLoop** (`LoopAssumption`): `TypeCorrect`, `SessionIsFree`,
  `SessionOwned`, `ExecutionIsAuthorized`, `HistoryStaysPaired`,
  `EndsAreAnnounced`, `AnswersAlwaysArrive`. The type invariant is inductive only
  together with `CallInv` (in the steps of a call there is a current call) and
  `DialogInv` (a dialog is about a call): `TypeInv`. That the session is free
  when the interface takes input rests on `TerminalEvents`: a terminal event in
  the channel, or a closed channel, means that the goroutine has finished with
  the session; it is what the order of `events <- done` and the last assignments
  gives. `SessionOwned` is a step simulation of `SessionOwnership` under those
  two. Authorization needs `GrantInv`: what the manager remembers was granted,
  an answer under way was recorded, and a call past its check is authorized.
  The pairing of the history needs `GatheredInv`, which speaks of the results
  that are not in the history yet: while calls are worked off, the last message
  is the response that made them, and the results so far are those of its first
  calls. `KeepHistory` and `AppendHistory` say what may be done to a paired
  history; a compaction keeps a suffix behind a system message. That answers
  arrive needs `AskInv`: the question of a turn that still runs is in one place
  only (an event, the dialog, or a reply) and is about the call the goroutine
  waits on; and `EndInv`: a closed channel still holds the event that says why.
- **Lanes and models** (the composition `MCLanesAndModels`; the assumptions named
  in each part). `ClaimsAreDisjoint` from the inductive type invariant and
  `Disjoint`; the test of the code is symmetric and complete (`OverlapSymmetric`,
  `OverlappingModules`). `LocksImplementOneWriter`: two claims above one file have
  nested modules (`PrefixesOverlap`), so a place has one holder (`OneHolder`), and
  a grant or a release changes the writer of the places it covers only.
  `ChecksAreAlwaysHonest`, the types of all parts and the whole of
  `ChecksAreHonest`: what a reader keeps of a log is an enumeration of the
  positions that survive (`Enumerates`), so one read that goes on as the log grows
  ends with what a read from the start would give (`ReadAsItGrows`), one event of
  a commit is live (`OneLiveIsLeft`) and the others stay (`OthersAreLeft`); main
  only grows after a check looked at it, and the branch takes nothing from it
  unless it is moved (`StaleInv`); an answer gives out as many indices as there
  are items that have one (`ResponseInv`).
  `DecisionsAlwaysStand`, the action property `DecisionsStand`: `RuleBefore` is a
  strict total order of the rules (`RulesOrdered`), so the engine is the one
  enumeration that respects it (`EngineIs`); a decision is made of pieces, one for
  each rule that matches, and each lies where the number of actions before it says
  (`PieceLies`). What is decided is what the engine answers for the lane as it was
  then, which is no further than the lane is now unless the lane lost something
  (`PolicyInv`), and a condition that held holds for a lane that is further
  (`MatchStays`). What was said of a directory has its reason in lists that only
  grow (`TrustInv`), and roots above it are above what lies below
  (`PrefixTransitive`). `CutsNeverShow`, the conjuncts of `StreamsAreRebuilt` about
  frames, for bodies and buffers of any length: what the parser holds is what it
  would make of the whole body (`FramesInv`), for which one step of the parser is
  shown to ignore what comes behind the delimiter it takes (`TakeIs`,
  `DelimitersStay`), and its steps to be joined by a cut.
  `KeptDataIsAlwaysFresh`: a refresh taken for a success has merged data younger
  than a lifetime (`RegistryInv`), a merge keeps what was curated, but for the
  aliases that are the names of what it adds (`MergeSurvives`),
  and an entry that was read is not later than the last answer of the provider
  (`PromptInv`); the last also gives `UnexpectedAlwaysHasACause`.
- **Responses** (`ResponsesStream`, in the composition `MCLanesAndModels`;
  `ResponseAssumption`): `StreamsAreAlwaysRebuilt`, for any texts, calls and
  fragments, the server sending them in any order its style allows. It rests on
  three invariants over the events sent so far, on top of the indices of
  `ResponseInv`. `BlockInv`: whether a block is open, by the accumulators, is what
  its events say (`Blocks`), and each frame adds the events of one item
  (`ItemSpeaks`) or, at the end, sweeps over the open ones in a list in which each
  stands once (`SweepsAre`). `ArgsInv`: what a call was sent is in its deltas, and
  behind them in its buffer as long as it has no name (`Carries`). `InTurnInv`: of an
  answer whose items come one after the other, the loop has made the calls and
  texts that were begun, the last of them the one under way (`CallsRebuilt`,
  `TextsRebuilt`); each event is one step more of the assembler (`BuiltMore`), and
  the sweep at the end changes nothing (`SweptAway`). Of the requests,
  `RequestsAlwaysPaired` says that the converters leave every result behind its
  call in each of the histories in which the next message answers the calls
  (`HistoriesArePaired`): those of the model, four messages, in which each
  converter puts the parts it makes of a message one after the other.
- **SdkTransport** (`SdkTransportAssumption`): `TransportTypes`,
  `TransportImplementsCalls`, the refinement of `RemoteCalls`. `OnceInv` says
  that a request is in the pipe at most once, after it was written and before it
  was executed; `HonestInv` that a frame with the id of a call, wherever it is
  (pipe, reader, channel, server), comes from its execution. A caller that
  compares ids may so lose a reply, and never takes another's.
- **LockedTransport** (`LockedTransportAssumption`): `LockedTypes`,
  `LockedImplementsCalls`, the same refinement, where nobody compares ids, as
  long as the server writes nothing of its own accord. Besides `OnceInv` it
  rests on `OrderInv`: the request of the owner of the mutex is in one place (on
  its way, being served, answered) and nothing else is, or nobody reads any more
  (`Dead`: the scanner has failed, or the server is gone or stdin closed and the
  owner has not written). That `Dead` is final is what makes a failed read
  harmless for the next call.
- **Transports** (the composition `MCTransports` of the six parts; the assumptions
  named in each): `AnswersAlwaysBelong`, `StreamsAreWhole`, `EventsStayAccounted`,
  all from `TransportsInv`, one invariant for each part. `HttpInv`: nothing is
  executed before the post leaves, once when its answer is there, and the header
  is no older than the call (`HeaderInv`, `BeganInv`). `LspInv`: an id stands in
  the table of pending requests only while its caller waits with an empty
  channel, so a late answer finds nobody (`TheirsInv`). `LoginInv`: a handler
  brings one thing, and a flow that waits has no ending yet. `ReaderInv` says
  where the end of a response is while the turn does not have it: read, on its
  way to the channel, in it (`OnItsWay`), so that a turn that finds the channel
  closed and nothing behind it has heard of the end or of the failure; it needs
  `StageInv`, what each stage of the reading goroutine still owes.
  `TelemetryInv` puts what was given in a row, settled, in hand, in the buffer
  (`RowInv`): what is settled has arrived or was reported (`SettledInv`), what
  was given after the drain was asked for is at the end of the row (`LateInv`),
  a record is at the collector at most once more than answers were lost
  (`CopiesInv`, a count over a sequence, for which `CopiesConcat` and
  `CopiesOnce` say what a batch adds), and a number is held by one recorder or
  stands on one record (`NumbersInv`).
- **WorkerRegistry** with `Recovery`, **Tasks** (`WorkerRegistryAssumption`,
  `RecoveryAssumption`): `TypeCorrect`, `PromptsAgree`, `ErrorsExplain`,
  `FilesTellTheTruth`, and for the composition `MCWorkers`
  `WorkersStayConsistent`, `OutcomesAlwaysStand`. Every operation replaces one
  worker by a record that is good on its own and writes its file, if it can
  (`OperationRecords`); such a replacement keeps the invariant (`RecordKeeps`).
  What a failed write leaves is nobody's word until the next write that works,
  which makes up for all that did not: that is what `FilesTellTheTruth` says of
  workers that share a directory.
- **Tools** (the composition `MCTools` of `Permissions`, `ToolPipeline`,
  `PlanMode`, `BashCommand`; the assumptions named in each):
  `ToolsStayConsistent`, `PermissionsAlwaysHold`, `StoppedAlwaysStays`,
  `KeptDecisionsAlwaysHold`, `CommandsEndWhole`. `PermInv` says that what a check
  has decided is what its policy answers for the overrides and answers it met
  (`PolicyDecides`), so that what was prompted, granted or refused can be compared
  with it. `PipeInv` follows a call from stage to stage: while it is under way
  nobody has refused it, it has run only behind the dispatch, and in plan mode it
  comes no further than the check. `CacheInv`: each key has one entry at most,
  which repeats the last answer of the model and expires a lifetime after it. The
  proof showed that `CachedWasAnswered` needs a positive lifetime: with none an
  entry is dead when it is written. `ShellInv` relates the clock to the wait: it
  passes the timeout only when nobody waits for bash any more, and a success
  leaves nobody at the pipe.

- **Connections** (the composition `MCConnections` of `McpRegistry`,
  `OAuthBroker`, `Credentials`, `PluginManager`, `Settings`; the assumptions
  named in each): `ServersAreSound`, `SecretsAreKept`, `PluginsAreKept`,
  `SettingsAreKept`, `StepsKeepSafe`, all from `ConnectionsInv`, one invariant for
  each part; and `AdviceFitsEveryFile`, which is about the validator alone: for a
  file with any keys it calls no key mistyped that the program has just decoded,
  and a key it does not know changes nothing in what it says of the others.
  `BrokerInv`: only the holder of the mutex is at work (`LockInv`), the token it
  carries is the one of the file until it has a new one (`AtWork`), and the file
  falls behind the grant only while its holder is about to write, or for a site
  that a failed write, a lost answer or the end of the process has put on record
  (`KeptInv`).
  `CredInv`: what a program is about to write is built on what the file holds, for
  every entry that no other has written since it read (`KeyInv`); the refresh
  token of the file is one the endpoint takes, one a program is just exchanging or
  bringing the successor of, or on record as wasted (`RenewInv`), and a token that
  is on its way to the file is nowhere else yet (`NewInv`).
  `InstallInv`: a tree is set aside for the installer that will bring it back
  (`AsideInv`), an installer that is alone finds what it left (`AloneInv`), and the
  list differs from the trees only while an operation is late, or for a plugin
  whose last operation failed or met another (`ListInv`).
  `ManagerInv`: record, file and tree of a plugin agree except while an operation
  has it in hand. `RegistryInv`: what is registered has gone through its
  handshake and stands once in the list, and the first server that offers a tool
  goes on to be the first. `LifecycleInv` reads the log of phases backwards: its
  last entry is the phase the server is in, and the first five are the start.
  `SettingsInv`: a program decides by the mode it shows until `/config` changes
  what is shown, and carries what it was told into what it writes (`RunningInv`);
  the project's file carries what was last written through it (`WrittenInv`), and
  the hooks that no program manages are in the file, or in the hands of each
  program that is about to write it and read it whole (`UnmanagedInv`).
  `ServersAreSound` follows the process of a server that was registered; of one
  that was not it says that only `MCPConnect` leaves it behind.

- **Sessions** (the composition `MCSessions` of `SessionFiles` and `SessionJsonl`;
  the assumptions named in each): `SavedIsAlwaysFound`, `StoreIsAlwaysWhole`,
  `RotationIsAlwaysOrdered`, for any ids, commands, faults and number of rotated
  files. `FilesInv`: a file that is being written is torn, and what was saved under
  its id is lost until the write returns (`WriteHolds`); with it the theorem says
  which saves a session loses: the one whose file a write destroyed that then
  failed, and the one renamed to the name it has, and no other. `JsonlInv`: only
  the temporary path may hold a torn snapshot (`PathsHold`); a rotated file is
  older than everything later under its id (`InOrder`), so the time in its name
  orders the files as the times of their snapshots do; what was kept is at the
  path or, while nothing is there, the newest rotated file (`Newest`), which a
  rotation establishes and only a rename ends. That a clean-up leaves no more
  files than it may is a count: those with fewer than n above them are at most n
  (`FewAbove`).

The prover has no induction over data of its own: the library's theorems for it
take an operator as a parameter. Where a proof needs one, the definitions are
recursive functions, which are first shown to exist step by step, and the
induction is by the least number (`LeastOf`) or the shortest sequence (`BySuffix`)
for which the fact would fail.

Checked by TLC only:

- liveness (`TurnsEnd`, `StreamEnds`, `WaitsEnd`, `SendsReturn`): fairness and
  ENABLED are out of the prover's reach;
- `CommandsAreJudged` apart from the run of a command (`CommandsEndWhole`), and
  `SummaryIsKept`: what they are about is a nest of folds over words and lines;
- `AdviceHolds`, whose distances of edits are a table filled in by recursion, apart
  from what `AdviceFitsEveryFile` says.

## Findings

The violation runs show where the code and what it says of itself disagree;
`PROJECT.json` quotes the lines. A `sudo` that runs `sudo` sends the judgement of
a command into an endless recursion (`internal/tools/bash_validation.go:305`).
Hooks are taken from the text of the last settings file that loads, so a local
file without hooks hides those of the project (`internal/config/loader.go:140`).
A call of the Responses API that is named after its arguments is started without
them (`internal/api/providers/openai/responses.go:708`).

### Promises the code does not keep

Found while modelling. Those with a property state it in the module named, where
no run repeats the counterexample; where a property that a run checks makes an
exception of the case, the row names the part of it that does. The others are
remarks about the code that a definition of the module follows.

| Property | Module | What happens | What is promised |
|---|---|---|---|
| `AskRulePrevails` | `ConversationLoop` | after a hook allowed one input of a tool the manager remembers the tool for every input, ask rules included (`conversation.go:1202`) | `conversation.go:1190` ask rules take precedence |
| `NoOrphanResult` | `ConversationLoop` | compaction keeps a suffix that may begin with results whose calls it cut off (`compact.go:234`) | `docs/parity.md:23` "preserve tool-call invariants" |
| `CompactsAtThreshold` | `ConversationLoop` | the input compared with the threshold is the sum over the requests of a turn (`conversation.go:600`) | `compact.go:30` "when input tokens reach this fraction of MaxTokens" |
| `DispatchIsObserved` | `ToolPipeline` | plugin, MCP and skill tools return before the lifecycle handlers after the call (`conversation.go:1255`) | `conversation.go:1112` handlers hear of every tool |
| `CollisionBetweenLanes` | `BranchLock` | a lane that claims a module it holds collides with itself (`branch_lock.go:36`) | `branch_lock.go:23` "between lanes" |
| `CancelledReturns` | `SdkTransport` | responses nobody waits for fill the buffers, and a `Send` blocks in its write whatever its context says (`transport.go:165`) | `transport.go:157` "controls the timeout/cancellation" |
| `ReaderStops` | `SdkTransport` | a reader that waits for room outlives `Close` (`transport.go:150`) | `transport.go:130` "On error or EOF it closes done" |
| `CallsReturn` | `SdkTransport` | of two concurrent sends one may take the other's reply and drop it (`transport.go:186`) | replies are matched by id |
| `ResponsesAreReplies` | `LockedTransport` | a stray line is returned as the response, and each later call gets the one before (`stdio.go:82`, `websocket.go:56`) | `stdio.go:68` "reads the response from stdout" |
| `UsageOfItsTurns` | `SessionFiles` | totals of another session after a load of one without turns (`conversation.go:1090`), a fork or an exit with totals of the past (`loop_adapter.go:184`, `main.go:426`) | `session.go:28` "Persisted so cost history survives resume" |
| `TurnKeepsItsSession` | `SessionFiles` | the guard of mutating commands counts turns of an adapter made for the occasion (`conversation.go:1844`) | `loop_adapter.go:145` "rejected during active turn" |
| `EachTurnIsSaved` | `SessionFiles` | a turn ends unsaved (`main.go:409`) | `README.md:117` "persists every turn as JSONL events" |
| `SaveIsAtomic` | `SessionJsonl` | a failed save of a large session leaves nothing at its path (`session_jsonl.go:303`) | `session_jsonl.go:287` "atomic write" |
| `SavedIsFound`, by its first case | `SessionFiles` | a write that fails destroys the save before it (`session.go:77`); a rename to the same name removes the session (`loop_adapter.go:226-236`) | `loop_adapter.go:216` "RenameSession renames the current session" |
| `ReadyHasNoTrustError` | `WorkerRegistry` | a misdelivered prompt makes a worker ready that keeps its trust error (`registry.go:133`) | `registry.go:161` "Clear trust gate error when becoming ready" |
| `DoneUntilRestart` | `WorkerRegistry` | a late screen makes a finished worker ready (`registry.go:157`) | `registry.go:350` calls the states terminal |
| `LogoutForgets` | `Credentials` | a log-out clears one of the two files (`commands/auth.go:100`) | `commands/auth.go:103` "Stored tokens cleared." |
| `TokensFit`, by `undeleted` | `OAuthBroker` | when the entry of a revoked token cannot be deleted, `Acquire` goes on handing it out (`broker.go:251-252`) | `broker.go:259` an error does not leave a stale entry behind |
| `UnmanagedStay`, by its exceptions | `Settings` | a write that meets another, fails, or follows a read that failed loses the keys it does not manage (`loader.go:155`, `184`) | `loader.go:146` "merging with any existing content to preserve unmanaged fields" |
| `ShutdownReturns`, by `hung` | `LspTransport` | a server that stops reading blocks a write under the mutex, and with it every request and `Shutdown` (`lsp/transport.go:155`, `188`) | `lsp/transport.go:195` a shutdown has five seconds |
| `RetryableIsTheStatus` | `StreamReader` | the Anthropic client calls its last failure retryable only without a status, Bedrock everything it does not know (`client.go:176`) | `errors.go:27` |

Sessions and loop: a compaction by a model with few messages keeps the old
continuation among the recent ones; a timeline is cut at its first blank line when
it is merged (`compact.go:404`). `InjectPrompt` may append in the middle of a
turn. What a hook puts in place of the input of a call, after the permission
check, nobody checks (`conversation.go:1179`).

Bash: the first answer that is not "allow" wins, even if a later part would be
blocked; `wipefs`, `fdisk`, `snap` are only warned of; `VAR=1 git status` is
blocked in read-only mode; `rm -rf x` passes without a warning where writing is
allowed; a background job that holds the pipe turns a success into an error
after the delay.

Settings: `/config permissionMode x` changes the file and what is shown, not the
permission manager, and takes any word (`model.go:672-699`); `/config maxTokens`
can be shown and not set; a file with one mistyped key is skipped as a whole, and
silently; the validator does not type-check nested keys, so that a file it calls
clean may not decode; it wants an object for `mcpServers` where the loader
decodes a list; empty lists do not override; a write may overwrite a file that
did not parse; each slash command has an adapter of its own, so that what the
adapter keeps is lost at once; `HandleSlashCommand` and `ValidateConfigFile` have
no caller outside of tests.

Clients: the Responses client makes a clean end out of any end of its body, the
Anthropic and Bedrock clients do not look for `message_stop`; a cancelled stream
may be committed as a partial response; the chat client ignores error frames;
Bedrock and Anthropic clients go on after an error event; the duplicate decoder
of Bedrock (`provider.go:187` "Keep them in sync") drops thinking and its
signatures; the watchdog can fire while the reader waits for room in its
channel; live model data may be twice as old as its TTL. In the requests, the
Responses API gets an assistant's words after its calls, and the chat API a
message without content for an assistant that only thought.

Telemetry: `Stop` does not drain what was recorded after the context of `Start`
ended; errors of the file sink go nowhere; the tracer keeps the session id of the
start.

MCP: `MCPConnect` leaves the process running when the handshake fails
(`conversation.go:1698`; `AddServerFromConfig` closes it); `Disconnect` keeps the entry of a server whose `Close`
failed; the SSE `Notify` ignores the status; a refresh answer without a refresh
token drops the old one; `RecordFailure` leaves the terminal phase `cleanup`.

Plugins and credentials: an aside copy left when both renames failed makes every
later reinstall fail; two managers overwrite each other's files; torn settings
bring a bundled plugin back that was disabled; uninstalling a bundled
plugin deletes its source; a torn registry blocks the start, a torn credential
file is treated as empty and overwritten, and one that cannot be read leaves a
start with a nil store, on which it ends (`credentials.go:44`, `130`); a renewed
token is lost when the read or the write of the file fails, which a start ignores
(`credentials.go:151`), and is not carried forward when the answer to a refresh
has none (`oauth.go:161-205`); two programs that log in at once lose each other's
entries; a refresh changes the active provider.

Workers and lanes: nobody hears of a state file that could not be written
(`worker.go:416-422`); a policy of a lane that is none of the four does nothing
(`stale_branch.go:191`); the message that blocks a stale branch does not name the
fixes it lacks (`stale_branch.go:148-155`), that of a diverged one does. Models: a
live model takes its own name from whatever that was an alias of
(`model_registry_live.go:186`).

## Not modelled

- **Partly**: in the loop, help, pickers, rendering, the commands that cut the
  history (`RewindSteps`, `loop_context.go:95`: two messages per step whatever
  they are, which would leave calls without results; only the slash commands
  reach it), and the SIGTERM goroutine that saves while a turn runs
  (`main.go:395`). In the stores, `AppendMessageRecord`, listing, export and the
  recovery of malformed lines: only tests call them, as they do
  `session_store.go`. Of the providers, endpoints, authentication and tool
  schemas. Of telemetry, the gRPC exporter. Of OAuth, discovery and registration.
  Of the commands, the ones that print.
- **Not modelled**: the tools other than bash and plan mode (files, web, screen,
  PDF, skills): their effects are on the world. The sandbox and the remote proxy:
  detection of the environment and construction of command lines.
  `lane/stale_base.go`, `mcp/auth.go`, `mcp/provider.go`: tables and comparisons
  without state. The command line, `internal/compat`, `pkg`, the test mocks and
  the rendering of the interface: glue and output. The contents of messages and
  files, the wording of summaries, prompts and errors are abstracted everywhere.
- **Retries inside the AWS library, git, the browser, the operating system and
  the servers** are modelled only as the code uses them and are marked external
  in the map.
