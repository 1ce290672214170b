------------------------------ MODULE Settings ------------------------------
(* The settings files and what programs make of them: the three layers       *)
(* (internal/config/loader.go), the start (runtime/config.go, cmd/claw-code-go/ *)
(* main.go), the commands of the interface that change and write them        *)
(* (internal/tui/model.go) and the slash commands that change a running      *)
(* program (internal/commands, runtime/loop_config.go). Several programs and *)
(* an editor share the files; a write truncates and then writes, meets other *)
(* writes in between, and may fail or stop.                                  *)
(*                                                                           *)
(* Of the keys, model and permissionMode stand for the ones a layer replaces *)
(* and hooks for what the program reads from a file but never writes.        *)
EXTENDS Integers, SequencesExt, Functions, TLC

CONSTANTS
  Models,         \* names of models; the empty string is none
  EffortModels,   \* the models whose matrix has the effort "high"
  ModeWords,      \* what a file, a flag or a command may say of the mode
  SettingsUsers,  \* the programs that run at the same time
  MaxChanges      \* bound: commands and edits

Empty == ""

ASSUME SettingsAssumption == Empty \notin Models /\ EffortModels \subseteq Models /\ MaxChanges \in Nat

VARIABLES
  layers,    \* the files of the user, the project and the local overrides
  running,   \* the programs
  envModel,  \* ANTHROPIC_MODEL
  changes,   \* commands and edits so far
  written,   \* what a command last wrote into the project file, until somebody else touches it
  unmanaged  \* history: the hooks an editor left in the project file, or "lost": see WriteFile and Breaks

settingsVars == <<layers, running, envModel, changes, written, unmanaged>>

LayerNames == <<"user", "project", "local">>
Keys == {"model", "permissionMode", "hooks"}

(* "typed" is false when a key the program decodes has a value of another type. *)
Object(m, p, h) == [json |-> "object", typed |-> TRUE, model |-> m, permissionMode |-> p, hooks |-> h]
NoFile == [Object(Empty, Empty, Empty) EXCEPT !.json = "absent"]
EmptyFile == [NoFile EXCEPT !.json = "empty"]      \* truncated
Garbage == [NoFile EXCEPT !.json = "garbage"]
Mistyped == [Object(Empty, Empty, "lint") EXCEPT !.typed = FALSE]
NotRunning == [up |-> "no", model |-> Empty, mode |-> Empty, perm |-> Empty, effort |-> Empty, allowed |-> 0, kept |-> 0,
               hooks |-> Empty, step |-> "idle", patch |-> NoFile, toWrite |-> NoFile, blind |-> FALSE,
               answer |-> Empty, modeBy |-> "start"]
Unwritten == [k \in {"model", "permissionMode"} |-> Empty]

(* ParsePermissionMode, with the aliases among ModeWords.                    *)
Parse(word) ==
  CASE word \in {"default", "prompt", Empty} -> "prompt"
    [] word \in {"plan", "read-only"} -> "read-only"
    [] word \in {"bypass", "allow"} -> "allow"
    [] word \in {"accept-edits", "workspace-write"} -> "workspace-write"
    [] word \in {"dont-ask", "strict-allow-list"} -> "dont-ask"
    [] word \in {"danger-full-access", "auto"} -> word
    [] OTHER -> "error"

---------------------------------------------------------------------------
(* The layers.                                                              *)

Loads(file) == file.json = "object" /\ file.typed

MutMerge(dst, src) ==       \* what is set stays
  [k \in Keys |-> IF dst[k] # Empty THEN dst[k] ELSE src[k]]
Merge(dst, src) == [k \in Keys |-> IF src[k] # Empty THEN src[k] ELSE dst[k]]

Layered(settings, file) == IF Loads(file) THEN Merge(settings, file) ELSE settings
LoadForDir ==
  Layered(Layered(Layered([k \in Keys |-> Empty], layers["user"]), layers["project"]), layers["local"])

(* RawJSON is the text of the last file that loads, not of the merged ones.  *)
RawJSON ==
  LET last == SelectLastInSeq(LayerNames, LAMBDA n : Loads(layers[n]))
  IN IF last = 0 THEN NoFile ELSE layers[LayerNames[last]]

---------------------------------------------------------------------------
(* The start of a program.                                                  *)

LoadedModel(flag) ==
  CASE flag # Empty -> flag
    [] envModel # Empty -> envModel
    [] LoadForDir["model"] # Empty -> LoadForDir["model"]
    [] OTHER -> "default-model"

(* The mode word the permission manager is made from: the flag, then         *)
(* --dangerously-skip-permissions, then the files.                           *)
ResolvedMode(permFlag, skip) ==
  CASE permFlag # "default" -> permFlag
    [] skip -> "danger-full-access"
    [] LoadForDir["permissionMode"] # Empty -> LoadForDir["permissionMode"]
    [] OTHER -> "default"

BootMode(word) == IF Parse(word) = "error" THEN "prompt" ELSE Parse(word)

(* --model, --permission-mode and --dangerously-skip-permissions.            *)
StartFlags == {<<Empty, "default", FALSE>>, <<"flag-model", "default", TRUE>>, <<Empty, "read-only", TRUE>>}

(* LoadConfig, the flags and the first half of bootstrap.                    *)
StartProgram(u) ==
  /\ running[u].up = "no"
  /\ \E flags \in StartFlags :
       LET mode == BootMode(ResolvedMode(flags[2], flags[3]))
       IN running' = [running EXCEPT ![u] = [NotRunning EXCEPT !.up = "starting",
                        !.model = LoadedModel(flags[1]), !.mode = mode, !.perm = mode]]
  /\ UNCHANGED <<layers, envModel, changes, written, unmanaged>>

(* The second reading of the files, for hooks (main.go:322-356).             *)
LoadFeatures(u) ==
  /\ running[u].up = "starting"
  /\ running' = [running EXCEPT ![u].up = "yes", ![u].hooks = RawJSON.hooks]
  /\ UNCHANGED <<layers, envModel, changes, written, unmanaged>>

---------------------------------------------------------------------------
(* Writing the project file.                                                *)

AtPrompt(u) == running[u].up = "yes" /\ running[u].step = "idle" /\ changes < MaxChanges

(* What is read is a map: a mistyped key in it is kept unless it is the one  *)
(* that is set, and what is no JSON counts as nothing.                       *)
MutOverlay(existing, patch) == [patch EXCEPT !.json = "object"]
Overlay(existing, patch) ==
  LET base == IF existing.json = "object" THEN existing ELSE Object(Empty, Empty, Empty)
  IN [base EXCEPT !.model = IF patch.model # Empty THEN patch.model ELSE @,
                  !.permissionMode = IF patch.permissionMode # Empty THEN patch.permissionMode ELSE @,
                  !.typed = @ \/ patch.model # Empty]

BeginWrite(prog, patch) == [prog EXCEPT !.step = "read", !.patch = patch, !.answer = Empty]

(* /config <key> <value>: the running configuration first, then the file.    *)
ConfigSet(u) ==
  /\ AtPrompt(u) /\ changes' = changes + 1
  /\ \/ \E m \in Models :
          running' = [running EXCEPT ![u] = BeginWrite([@ EXCEPT !.model = m], Object(m, Empty, Empty))]
     \/ \E w \in ModeWords :
          running' = [running EXCEPT ![u] = BeginWrite([@ EXCEPT !.mode = w, !.modeBy = "config"], Object(Empty, w, Empty))]
  /\ UNCHANGED <<layers, envModel, written, unmanaged>>

(* /init: only where there is no file, a moment ago.                         *)
InitProject(u) ==
  /\ AtPrompt(u) /\ changes' = changes + 1
  /\ running' = [running EXCEPT ![u] = IF layers["project"].json # "absent"
                   THEN [@ EXCEPT !.answer = "error"]
                   ELSE BeginWrite(@, Object(@.model, "default", Empty))]
  /\ UNCHANGED <<layers, envModel, written, unmanaged>>

(* The file may not be read, and no error comes of it: what is written then, *)
(* blind, is the patch alone.                                                *)
ReadExisting(u) ==
  /\ running[u].step = "read"
  /\ \E file \in {layers["project"], NoFile} :
       running' = [running EXCEPT ![u].step = "truncate", ![u].toWrite = Overlay(file, running[u].patch),
                                  ![u].blind = file # layers["project"] \/ file.json \in {"empty", "garbage"}]
  /\ UNCHANGED <<layers, envModel, changes, written, unmanaged>>

Truncate(u) ==
  /\ running[u].step = "truncate"
  /\ layers' = [layers EXCEPT !["project"] = EmptyFile]
  /\ running' = [running EXCEPT ![u].step = "write"]
  /\ written' = Unwritten
  /\ UNCHANGED <<envModel, changes, unmanaged>>

(* The write begins at the start of the file: where another has written since *)
(* it was truncated, the end of a longer text stays behind it; where it was  *)
(* removed, nothing comes of it.                                             *)
Lands(file) ==
  CASE layers["project"].json = "empty" -> {file}
    [] layers["project"].json = "absent" -> {NoFile}
    [] OTHER -> {file, Garbage}

Rested(prog, answer) ==
  [prog EXCEPT !.step = "idle", !.answer = answer, !.patch = NoFile, !.toWrite = NoFile, !.blind = FALSE]

WriteFile(u) ==
  /\ running[u].step = "write"
  /\ \E file \in Lands(running[u].toWrite) :
       /\ layers' = [layers EXCEPT !["project"] = file]
       /\ written' = IF file.json = "object" THEN [k \in DOMAIN written |-> running[u].patch[k]] ELSE Unwritten
       /\ unmanaged' = IF file = Garbage \/ (running[u].blind /\ file # NoFile) THEN "lost" ELSE unmanaged
  /\ running' = [running EXCEPT ![u] = Rested(@, "ok")]
  /\ UNCHANGED <<envModel, changes>>

(* A write that does not come to its end: nothing of it, or a part.          *)
Breaks(u) ==
  \E file \in {layers["project"]} \cup (IF running[u].step = "write" THEN Lands(Garbage) ELSE {}) :
    /\ layers' = [layers EXCEPT !["project"] = file]
    /\ written' = IF file.json = "object" THEN written ELSE Unwritten
    /\ unmanaged' = IF running[u].step = "write" /\ file.json \in {"empty", "garbage"} THEN "lost" ELSE unmanaged

(* A file operation fails: the configuration of the program stays changed.   *)
WriteFails(u) ==
  /\ running[u].step # "idle"
  /\ running' = [running EXCEPT ![u] = Rested(@, "error")]
  /\ Breaks(u)
  /\ UNCHANGED <<envModel, changes>>

---------------------------------------------------------------------------
(* Slash commands, through HandleSlashCommand and a new adapter: what the    *)
(* adapter itself keeps is gone with it. Without an argument a command shows *)
(* what is set and changes nothing.                                          *)

Done(prog) == [prog EXCEPT !.answer = "ok"]
Refused(prog) == [prog EXCEPT !.answer = "error"]

(* A blank argument is trimmed to none after the question whether there is one. *)
SetModel(prog, m) == IF m = "blank" THEN Refused(prog) ELSE Done([prog EXCEPT !.model = m])
ModelCommand(prog, args) == IF args = Empty THEN Done(prog) ELSE SetModel(prog, args)

MutSetPermissionMode(prog, word) ==
  IF Parse(word) = "error" THEN Refused(prog) ELSE Done([prog EXCEPT !.mode = Parse(word), !.modeBy = "slash"])
SetPermissionMode(prog, word) ==
  IF Parse(word) = "error" THEN Refused(prog)
  ELSE Done([prog EXCEPT !.perm = Parse(word), !.mode = Parse(word), !.modeBy = "slash"])
PermissionsCommand(prog, args) == IF args = Empty THEN Done(prog) ELSE SetPermissionMode(prog, args)

MutSetReasoningMode(prog, mode) ==
  LET set == [prog EXCEPT !.effort = mode] IN IF mode \in {"on", "off", "stream"} THEN Done(set) ELSE Refused(set)
SetReasoningMode(prog, mode) ==
  IF mode \in {"on", "off", "stream"} THEN Done([prog EXCEPT !.effort = mode]) ELSE Refused(prog)
ReasoningCommand(prog, args) == IF args = Empty THEN Done(prog) ELSE SetReasoningMode(prog, args)

(* Every model takes "medium" here; a model without a matrix takes any level. *)
ValidateEffortForModel(level, model) ==
  level = "medium" \/ (level = "high" /\ model \in EffortModels \cup {"default-model"})
SetEffort(prog, level) ==
  IF ValidateEffortForModel(level, prog.model) THEN Done([prog EXCEPT !.effort = level]) ELSE Refused(prog)

(* Plan mode is the adapter's; the effort that follows may be refused.       *)
UltraPlan(prog) == SetEffort(prog, "high")

(* The list of tools, not the rules the permission manager was made from.    *)
AddAllowedTool(prog) == Done([prog EXCEPT !.allowed = @ + 1])
RemoveAllowedTool(prog) == IF prog.allowed = 0 THEN Refused(prog) ELSE Done([prog EXCEPT !.allowed = @ - 1])
AllowedToolsCommand(prog, sub) ==
  CASE sub = "add" -> AddAllowedTool(prog) [] sub = "remove" -> RemoveAllowedTool(prog) [] OTHER -> Done(prog)

(* The number of output tokens stands for what reaches the configuration     *)
(* like the system prompt and the key; what is no positive number is refused. *)
SetMaxTokens(prog, n) == IF n = 0 THEN Refused(prog) ELSE Done([prog EXCEPT !.kept = n])
MaxTokensCommand(prog, args) == IF args = Empty THEN Done(prog) ELSE SetMaxTokens(prog, IF args = "many" THEN 1 ELSE 0)
SystemPromptCommand(prog, sub) == IF sub = "set" THEN SetMaxTokens(prog, 1) ELSE Done(prog)
ApiKeyCommand(prog, args) == IF args = Empty THEN Done(prog) ELSE SetMaxTokens(prog, 1)

(* Plan mode, the toggles, a temperature and a rate limit that are well-formed *)
(* and any budget are stored in the adapter.                                 *)
PlanCommand(prog) == Done(prog)
TelemetryCommand(prog) == Done(prog)
TemperatureCommand(prog, t) == IF t \in {Empty, "one"} THEN Done(prog) ELSE Refused(prog)
BudgetCommand(prog) == Done(prog)
SetRateLimit(prog, rpm) == IF rpm \in {"60", "unlimited"} THEN Done(prog) ELSE Refused(prog)
RateLimitCommand(prog, sub, rpm) == IF sub = "set" /\ rpm # Empty THEN SetRateLimit(prog, rpm) ELSE Done(prog)

Answers(prog) ==
  {ModelCommand(prog, m) : m \in Models \cup {Empty, "blank"}} \cup {PermissionsCommand(prog, w) : w \in ModeWords}
    \cup {ReasoningCommand(prog, r) : r \in {"on", "loud"}} \cup {SetEffort(prog, e) : e \in {"medium", "high"}}
    \cup {AllowedToolsCommand(prog, a) : a \in {"add", "remove", "list"}}
    \cup {MaxTokensCommand(prog, n) : n \in {"many", "no"}}
    \cup {TemperatureCommand(prog, t) : t \in {"one", "hot"}} \cup {RateLimitCommand(prog, "set", v) : v \in {"60", "lots"}}
    \cup {UltraPlan(prog), PlanCommand(prog), TelemetryCommand(prog), BudgetCommand(prog), SystemPromptCommand(prog, "set"), ApiKeyCommand(prog, "key")}

SlashCommand(u) ==
  /\ AtPrompt(u) /\ changes' = changes + 1
  /\ \E result \in Answers(running[u]) : running' = [running EXCEPT ![u] = result]
  /\ UNCHANGED <<layers, envModel, written, unmanaged>>

---------------------------------------------------------------------------
(* The advice on a settings file. A value is its JSON type and, of an object, *)
(* what it holds; a file is such an object. Of the tables of fields a few are *)
(* left out that are treated like one that is there: permissions stands for  *)
(* plugins, sandbox and oauth.                                               *)
Value(type, in) == [type |-> type, in |-> in]

TopLevelFields ==
  [model |-> "string", permissionMode |-> "string", theme |-> "string", maxTokens |-> "number",
   allowedTools |-> "array", blockedTools |-> "array", trustedRoots |-> "array",
   hooks |-> "object", permissions |-> "object", mcpServers |-> "object", enabledPlugins |-> "object"]
NestedFields == [hooks |-> {"PreToolUse", "PostToolUse"}, permissions |-> {"defaultMode", "allow", "deny", "ask"}]
McpServerEntryFields == {"name", "transport", "command", "args", "url", "env"}
DeprecatedFields == {"permissionMode", "enabledPlugins"}

Diag(field, kind) == [field |-> field, kind |-> kind]
ValidateObjectKeys(obj, known, prefix) ==
  {Diag(Append(prefix, key), "unknown_key") :
     key \in (DOMAIN obj \ known) \ (IF prefix = <<>> THEN DeprecatedFields ELSE {})}

(* A null has no keys, and is no wrong type.                                 *)
NestedErrors(key, value) ==
  IF value.type \in {"object", "null"} THEN ValidateObjectKeys(value.in, NestedFields[key], <<key>>)
  ELSE {Diag(<<key>>, "wrong_type")}
ServerErrors(servers) ==
  UNION {ValidateObjectKeys(servers[s].in, McpServerEntryFields, <<"mcpServers", s>>) :
           s \in {name \in DOMAIN servers : servers[name].type \in {"object", "null"}}}

MutTypeFits(key, value) == value.type = TopLevelFields[key]     \* null is a type of its own
TypeFits(key, value) == value.type \in {TopLevelFields[key], "null"}

ValidateSettingsJSON(raw) ==
  [errors |-> ValidateObjectKeys(raw, DOMAIN TopLevelFields, <<>>)
                \cup (UNION {NestedErrors(key, raw[key]) : key \in DOMAIN raw \cap DOMAIN NestedFields})
                \cup (IF "mcpServers" \in DOMAIN raw THEN ServerErrors(raw["mcpServers"].in) ELSE {})
                \cup {Diag(<<key>>, "wrong_type") :
                        key \in {k \in DOMAIN raw \cap DOMAIN TopLevelFields : ~TypeFits(k, raw[k])}},
   warnings |-> {Diag(<<key>>, "deprecated") : key \in DOMAIN raw \cap DeprecatedFields}]

(* What encoding/json makes of the file: it decodes when every field of the  *)
(* program, nested ones too, is absent, null or of its type.                 *)
ProgramFields ==
  [model |-> "string", permissionMode |-> "string", theme |-> "string", maxTokens |-> "number",
   allowedTools |-> "array", blockedTools |-> "array", hooks |-> "object", enabledPlugins |-> "object"]
Decodes(raw) ==
  /\ \A key \in DOMAIN raw \cap DOMAIN ProgramFields : raw[key].type \in {ProgramFields[key], "null"}
  /\ "hooks" \in DOMAIN raw =>
       \A event \in DOMAIN raw["hooks"].in \cap NestedFields.hooks : raw["hooks"].in[event].type \in {"array", "null"}

(* Words are sequences of letters. Row i of the table holds the distances of *)
(* the first i letters of a to the beginnings of b.                          *)
Least(a, b, c) == CHOOSE m \in {a, b, c} : m <= a /\ m <= b /\ m <= c
MutSubstitution(x, y) == 1
Substitution(x, y) == IF x = y THEN 0 ELSE 1
NextRow(prev, letter, b) ==
  FoldLeft(LAMBDA row, j : Append(row, Least(prev[j + 1] + 1, row[j] + 1, prev[j] + Substitution(letter, b[j]))),
           <<prev[1] + 1>>, [j \in 1..Len(b) |-> j])
LevenshteinDistance(a, b) ==
  FoldLeft(LAMBDA prev, letter : NextRow(prev, letter, b), [j \in 1..(Len(b) + 1) |-> j - 1], a)[Len(b) + 1]

(* The first of the nearest, at a distance of 3 or less, for a word of 4     *)
(* letters or more.                                                          *)
Better(best, word, d) == IF d < best.dist THEN [dist |-> d, word |-> word] ELSE best
SuggestField(input, candidates) ==
  IF Len(input) < 4 THEN <<>>
  ELSE FoldLeft(LAMBDA best, c : Better(best, c, LevenshteinDistance(input, c)),
                [dist |-> 4, word |-> <<>>], candidates).word

---------------------------------------------------------------------------
(* The world.                                                               *)

(* An editor saves in place; what a program has read before is old then.     *)
EditLayer ==
  /\ changes < MaxChanges /\ changes' = changes + 1
  /\ \E n \in DOMAIN layers, c \in {NoFile, Garbage, Mistyped, Object(Empty, "read-only", "lint")} :
       /\ layers' = [layers EXCEPT ![n] = c]
       /\ IF n = "project"
          THEN /\ written' = Unwritten
               /\ unmanaged' = IF c = Garbage THEN "lost" ELSE c.hooks
               /\ running' = [u \in SettingsUsers |->
                    [running[u] EXCEPT !.blind = @ \/ running[u].step \in {"truncate", "write"}]]
          ELSE UNCHANGED <<written, unmanaged, running>>
  /\ UNCHANGED envModel

ProgramStops(u) ==
  /\ running[u].up = "yes"
  /\ running' = [running EXCEPT ![u] = NotRunning]
  /\ Breaks(u)
  /\ UNCHANGED <<envModel, changes>>

SettingsInit ==
  /\ layers \in [user : {Object("m1", "plan", "lint")},
                 project : {NoFile, Object(Empty, "danger-full-access", "lint")},
                 local : {NoFile, Object("m2", "bogus", Empty)}]
  /\ envModel \in {Empty, "env-model"} /\ (envModel # Empty => layers["local"] = NoFile)
  /\ running = [u \in SettingsUsers |-> NotRunning]
  /\ changes = 0 /\ written = Unwritten /\ unmanaged = layers["project"].hooks

SettingsNext ==
  \/ EditLayer
  \/ \E u \in SettingsUsers :
       \/ StartProgram(u) \/ LoadFeatures(u) \/ ProgramStops(u)
       \/ ConfigSet(u) \/ InitProject(u) \/ ReadExisting(u) \/ Truncate(u) \/ WriteFile(u) \/ WriteFails(u)
       \/ SlashCommand(u)

SettingsSpec == SettingsInit /\ [][SettingsNext]_settingsVars

---------------------------------------------------------------------------
(* Properties.                                                              *)

(* The variables have their types (loader.go:12-33, runtime/config.go:20-91). *)
SettingsTypeOK ==
  /\ \A n \in DOMAIN layers : layers[n].json \in {"absent", "empty", "garbage", "object"}
  /\ \A u \in SettingsUsers :
       /\ running[u].step \in {"idle", "read", "truncate", "write"}
       /\ running[u].up \in {"no", "starting", "yes"}
       /\ running[u].perm \in {Empty, "prompt", "read-only", "allow", "workspace-write",
                               "danger-full-access", "dont-ask", "auto"}
  /\ changes <= MaxChanges

(* The most local file that loads and says something of a key.               *)
MostLocal(key) ==
  LET says == {i \in 1..3 : Loads(layers[LayerNames[i]]) /\ layers[LayerNames[i]][key] # Empty}
  IN IF says = {} THEN Empty ELSE layers[LayerNames[CHOOSE i \in says : \A j \in says : j <= i]][key]

(* What a command wrote into the project file is what a start without flags  *)
(* takes, of the model and of the mode, unless the file does not load, a     *)
(* more local one or the environment says otherwise; a file that does not    *)
(* load hides nothing but itself (loader.go:61-144, 146-188, runtime/        *)
(* config.go, main.go:291-314).                                              *)
Decides(key) == written[key] # Empty /\ Loads(layers["project"]) /\ ~(Loads(layers["local"]) /\ layers["local"][key] # Empty)
WrittenIsUsed ==
  /\ \A key \in DOMAIN written : LoadForDir[key] = MostLocal(key)
  /\ Decides("model") /\ envModel = Empty => LoadedModel(Empty) = written["model"]
  /\ Decides("permissionMode") => BootMode(ResolvedMode("default", FALSE)) = BootMode(written["permissionMode"])

(* The mode decisions are made by is the mode the configuration shows, until *)
(* /config changes what is shown (loop_config.go:45-59, main.go:291-314).    *)
ModesAgree ==
  \A u \in SettingsUsers : running[u].modeBy # "config" => running[u].mode = running[u].perm

(* What the program does not manage stays in the project file while programs *)
(* read, truncate and write it in any order: "merging with any existing      *)
(* content to preserve unmanaged fields" (loader.go:146-188). It is lost     *)
(* only by a write that fails or stops, by one that leaves the end of        *)
(* another's text behind, and by a program that read nothing - the file was  *)
(* just truncated, or could not be read - or what an editor changed since.   *)
UnmanagedStay ==
  unmanaged # "lost" =>
    \/ layers["project"].hooks = unmanaged
    \/ layers["project"].json = "empty" /\ \E u \in SettingsUsers : running[u].step = "write"

(* A command that answers with an error has changed nothing: none of its     *)
(* parts is done before another is refused (config_cmds.go, loop_config.go). *)
RefusedChangesNothing ==
  [][\A u \in SettingsUsers :
       running[u].step = "idle" /\ running'[u].answer = "error" /\ running[u].answer # "error"
         => running'[u] = Refused(running[u])]_settingsVars

(* A key a program has just decoded is never called mistyped, and one the    *)
(* validator does not know changes nothing in what it says of the others     *)
(* (loader.go:83-105, validate.go:163-280).                                  *)
Scalars == {Value(t, <<>>) : t \in {"string", "number", "array", "null"}}
Nested == {<<>>, "srv" :> Value("object", "bogus" :> Value("string", <<>>))}
            \cup (UNION {{k :> v : v \in Scalars} : k \in {"PreToolUse", "allow"}})
SampleValues == Scalars \cup {Value("object", in) : in \in Nested}
SampleKeys == {"model", "maxTokens", "allowedTools", "hooks", "permissions", "mcpServers", "permissionMode", "modle"}
SampleFiles == UNION {[{a, b} -> SampleValues] : a, b \in SampleKeys}
AdviceFitsDecoder ==
  \A raw \in SampleFiles :
    LET advice == ValidateSettingsJSON(raw)
    IN /\ Decodes(raw) => \A d \in advice.errors : d.kind = "wrong_type" => d.field[1] \notin DOMAIN ProgramFields
       /\ "modle" \in DOMAIN raw =>
            advice.errors = ValidateSettingsJSON(Restrict(raw, DOMAIN raw \ {"modle"})).errors
                              \cup {Diag(<<"modle">>, "unknown_key")}

(* The table finds the least number of letters to delete, insert or replace, *)
(* as a search over edits does, and a suggestion is a field no other is      *)
(* nearer than (validate.go:317-373).                                        *)
Letters == {"a", "b"}
ShortWords == UNION {[1..n -> Letters] : n \in 0..3}
OneEdit(w) ==
  {RemoveAt(w, i) : i \in DOMAIN w} \cup {[w EXCEPT ![i] = l] : i \in DOMAIN w, l \in Letters}
    \cup {InsertAt(w, i, l) : i \in 1..(Len(w) + 1), l \in Letters}
EditsAway(w) == [n \in 0..3 |-> FoldLeft(LAMBDA S, k : UNION {OneEdit(v) \cap ShortWords : v \in S}, {w}, [k \in 1..n |-> k])]
DistanceIsLeast ==
  \A a \in ShortWords :
    LET reach == EditsAway(a)
    IN \A b \in ShortWords : \A n \in 0..3 : LevenshteinDistance(a, b) <= n <=> \E k \in 0..n : b \in reach[k]
SuggestionsAreNearest ==
  \A input \in [1..4 -> Letters], c, d \in ShortWords \ {<<>>} :
    LET to(w) == LevenshteinDistance(input, w)
    IN SuggestField(input, <<c, d>>) = IF to(d) < to(c) /\ to(d) <= 3 THEN d ELSE IF to(c) <= 3 THEN c ELSE <<>>
AdviceIsRight == AdviceFitsDecoder /\ DistanceIsLeast /\ SuggestionsAreNearest

(* "RuntimeFeatureConfig holds extracted feature-specific configuration from *)
(* the merged settings": the hooks a program starts with are those of the    *)
(* most local file that has any (feature.go:5-7, main.go:322-325).           *)
HooksAreMerged ==
  [][\A u \in SettingsUsers :
       running[u].up = "starting" /\ running'[u].up = "yes" => running'[u].hooks = MostLocal("hooks")]_settingsVars
=============================================================================
