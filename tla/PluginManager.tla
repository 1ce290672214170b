---------------------------- MODULE PluginManager ----------------------------
(* The plugin manager (plugin/manager.go): a registry and a map of choices   *)
(* in memory, a file of each that is rewritten in place, and the trees of    *)
(* the plugins. An install, update or uninstall is several steps; a write    *)
(* may fail and the process may end between any two, and the next manager    *)
(* starts from the files. A tree is the version it holds. The second part,   *)
(* with variables of its own, is the installer of the marketplace.           *)
EXTENDS Integers

CONSTANTS
  ExternalIds,    \* plugins installed from a source directory of their own
  BundledIds,     \* plugins of BundledRoot, installed where they are
  MaxPluginVersion,  \* bound on the versions of sources
  MaxPluginOps    \* bound on the operations begun

(* An id ends in its marketplace, "bundled" or "external".                   *)
ASSUME PluginsAssumption ==
  /\ ExternalIds \cap BundledIds = {} /\ "settings" \notin ExternalIds \cup BundledIds
  /\ MaxPluginVersion \in Nat \ {0}

VARIABLES
  source,         \* the source directories, edited by their authors; 0 is no manifest
  tree,           \* the install paths: 0 is absent or not a plugin
  registryFile, settingsFile,
  manager,        \* the manager of the running process
  pluginOps,      \* operations begun
  damaged,        \* history: ids an operation on which stopped half way, or "settings"
  choice          \* history: the last choice for each id that was written

pluginVars == <<source, tree, registryFile, settingsFile, manager, pluginOps, damaged, choice>>

PluginIds == ExternalIds \cup BundledIds
Versions == 0..MaxPluginVersion
NoRecord == [version |-> 0, installed |-> FALSE]
Records == [version : Versions, installed : BOOLEAN]
Settings == [PluginIds -> {"unset", "on", "off"}]
Torn == "torn"
Down == [live |-> FALSE, records |-> [p \in PluginIds |-> NoRecord],
         enabled |-> [p \in PluginIds |-> "unset"], op |-> "none", id |-> "none", at |-> "idle"]

PluginsTypeOK ==
  /\ source \in [PluginIds -> Versions] /\ tree \in [PluginIds -> Versions]
  /\ registryFile \in {<<Torn>>} \cup ({"ok"} \X [PluginIds -> Records])
  /\ settingsFile \in {<<Torn>>} \cup ({"ok"} \X Settings)
  /\ manager.records \in [PluginIds -> Records] /\ manager.enabled \in Settings
  /\ manager.at \in {"idle", "remove", "copy", "record", "save", "enable"}
  /\ ~manager.live => manager = Down
  /\ damaged \subseteq PluginIds \cup {"settings"} /\ choice \in Settings

File(value) == <<"ok", value>>
Shipped == [p \in PluginIds |-> IF p \in BundledIds THEN 1 ELSE 0]

PluginsInit ==
  /\ source = [p \in PluginIds |-> 1] /\ tree = Shipped
  /\ registryFile = File(Down.records) /\ settingsFile = File(Down.enabled)
  /\ manager = Down /\ pluginOps = 0 /\ damaged = {} /\ choice = Down.enabled

-----------------------------------------------------------------------------
(* NewPluginManager: a registry that does not parse is an error, settings   *)
(* that do not parse are as good as none.                                   *)
NewPluginManager ==
  /\ ~manager.live /\ registryFile # <<Torn>>
  /\ manager' = [Down EXCEPT !.live = TRUE, !.records = registryFile[2],
                   !.enabled = IF settingsFile = <<Torn>> THEN Down.enabled ELSE settingsFile[2]]
  /\ UNCHANGED <<source, tree, registryFile, settingsFile, pluginOps, damaged, choice>>

(* A plugin DiscoverPlugins hands to the loop: found by its directory, not  *)
(* by the registry; an external one only if it was enabled.                 *)
Running(p) ==
  /\ manager.live /\ tree[p] # 0
  /\ manager.enabled[p] \in IF p \in BundledIds THEN {"on", "unset"} ELSE {"on"}

Begin(op, p, at) ==
  /\ manager.live /\ manager.at = "idle" /\ pluginOps < MaxPluginOps /\ pluginOps' = pluginOps + 1
  /\ manager' = [manager EXCEPT !.op = op, !.id = p, !.at = at]
  /\ UNCHANGED <<source, tree, registryFile, settingsFile, damaged, choice>>

(* The manifest is read and the hook asked first; else nothing happens.     *)
Install(p) == p \in ExternalIds /\ source[p] # 0 /\ Begin("install", p, "remove")

(* The source of a record of a bundled plugin is the tree itself.           *)
SourceOf(p) == IF p \in BundledIds THEN tree[p] ELSE source[p]
UpdatePlugin(p) ==
  manager.records[p].installed /\ SourceOf(p) # 0 /\ Begin("update", p, "remove")
Uninstall(p) == manager.records[p].installed /\ Begin("uninstall", p, "remove")
SetEnabled(p, op) == Begin(op, p, "enable")

GoTo(at) == manager' = [manager EXCEPT !.at = at]
Finished(m) == [m EXCEPT !.op = "none", !.id = "none", !.at = "idle"]

(* os.RemoveAll of the install path.                                        *)
RemoveTree ==
  /\ manager.at = "remove"
  /\ tree' = [tree EXCEPT ![manager.id] = 0]
  /\ GoTo(IF manager.op = "uninstall" THEN "record" ELSE "copy")
  /\ UNCHANGED <<source, registryFile, settingsFile, pluginOps, damaged, choice>>

CopyTree ==
  /\ manager.at = "copy" /\ SourceOf(manager.id) # 0
  /\ tree' = [tree EXCEPT ![manager.id] = SourceOf(manager.id)]
  /\ GoTo("record")
  /\ UNCHANGED <<source, registryFile, settingsFile, pluginOps, damaged, choice>>

MutRecordPlugin ==      \* an update keeps the record
  /\ manager.at = "record"
  /\ manager' = [manager EXCEPT !.at = "save", !.records[manager.id] =
       CASE manager.op = "uninstall" -> NoRecord
         [] manager.op = "install" -> [version |-> tree[manager.id], installed |-> TRUE]
         [] OTHER -> manager.records[manager.id]]
  /\ UNCHANGED <<source, tree, registryFile, settingsFile, pluginOps, damaged, choice>>

(* The record of an install or update has the version of the manifest it    *)
(* began with, which is the one that was copied: see Publish.               *)
RecordPlugin ==
  /\ manager.at = "record"
  /\ manager' = [manager EXCEPT !.at = "save", !.records[manager.id] =
       IF manager.op = "uninstall" THEN NoRecord
       ELSE [version |-> tree[manager.id], installed |-> TRUE]]
  /\ UNCHANGED <<source, tree, registryFile, settingsFile, pluginOps, damaged, choice>>

SaveRegistry ==
  /\ manager.at = "save"
  /\ registryFile' = File(manager.records)
  /\ manager' = IF manager.op = "install" THEN [manager EXCEPT !.at = "enable"] ELSE Finished(manager)
  /\ damaged' = damaged \ {manager.id}
  /\ UNCHANGED <<source, tree, settingsFile, pluginOps, choice>>

MutSaveEnabled ==       \* the choice is kept in memory
  /\ manager.at = "enable"
  /\ LET enabled == [manager.enabled EXCEPT ![manager.id] = IF manager.op = "disable" THEN "off" ELSE "on"]
     IN  /\ manager' = Finished([manager EXCEPT !.enabled = enabled])
         /\ choice' = enabled
  /\ damaged' = damaged \ {"settings"}
  /\ UNCHANGED <<source, tree, registryFile, settingsFile, pluginOps>>

(* Enable and Disable write every choice the manager knows.                 *)
SaveEnabled ==
  /\ manager.at = "enable"
  /\ LET enabled == [manager.enabled EXCEPT ![manager.id] = IF manager.op = "disable" THEN "off" ELSE "on"]
     IN  /\ manager' = Finished([manager EXCEPT !.enabled = enabled])
         /\ settingsFile' = File(enabled) /\ choice' = enabled
  /\ damaged' = damaged \ {"settings"}
  /\ UNCHANGED <<source, tree, registryFile, pluginOps>>

Touched == IF manager.at = "enable" THEN "settings" ELSE manager.id

(* A step returns an error: what was done before it stays done. A write     *)
(* that fails has cut the file short, or not touched it.                    *)
StepFails ==
  /\ manager.at \in {"remove", "copy", "save", "enable"}
  /\ manager' = Finished(IF manager.at = "enable" THEN [manager EXCEPT !.enabled[manager.id] =
                           IF manager.op = "disable" THEN "off" ELSE "on"] ELSE manager)
  /\ registryFile' \in IF manager.at = "save" THEN {registryFile, <<Torn>>} ELSE {registryFile}
  /\ settingsFile' \in IF manager.at = "enable" THEN {settingsFile, <<Torn>>} ELSE {settingsFile}
  /\ damaged' = damaged \cup {Touched}
  /\ UNCHANGED <<source, tree, pluginOps, choice>>

ManagerEnds ==
  /\ manager.live /\ manager' = Down
  /\ registryFile' \in IF manager.at = "save" THEN {registryFile, <<Torn>>} ELSE {registryFile}
  /\ settingsFile' \in IF manager.at = "enable" THEN {settingsFile, <<Torn>>} ELSE {settingsFile}
  /\ damaged' = IF manager.at = "idle" THEN damaged ELSE damaged \cup {Touched}
  /\ UNCHANGED <<source, tree, pluginOps, choice>>

MutSyncBundledPlugins ==    \* whatever is not found is dropped
  /\ manager.live /\ manager.at = "idle"
  /\ LET records == [p \in PluginIds |-> IF p \in BundledIds /\ tree[p] # 0
                                         THEN [version |-> tree[p], installed |-> TRUE] ELSE NoRecord]
     IN  manager' = [manager EXCEPT !.records = records] /\ registryFile' = File(records)
  /\ UNCHANGED <<source, tree, settingsFile, pluginOps, damaged, choice>>

(* Records of bundled plugins follow the directories that are there.        *)
SyncBundledPlugins ==
  /\ manager.live /\ manager.at = "idle"
  /\ LET records == [p \in PluginIds |->
           IF p \notin BundledIds THEN manager.records[p]
           ELSE IF tree[p] # 0 THEN [version |-> tree[p], installed |-> TRUE] ELSE NoRecord]
     IN  manager' = [manager EXCEPT !.records = records] /\ registryFile' = File(records)
  /\ UNCHANGED <<source, tree, settingsFile, pluginOps, damaged, choice>>

(* Authors publish a new version, or break the manifest of their source; an *)
(* upgrade of the program brings a new version of a bundled plugin; not     *)
(* while an operation reads them, which the code does not guard against.    *)
Publish(p) ==
  /\ manager.at = "idle"
  /\ \/ p \in ExternalIds
          /\ \E v \in {0, source[p] + 1} : v \in Versions /\ source' = [source EXCEPT ![p] = v] /\ UNCHANGED tree
     \/ p \in BundledIds /\ tree[p] \in 1..(MaxPluginVersion - 1)
          /\ tree' = [tree EXCEPT ![p] = @ + 1] /\ UNCHANGED source
  /\ UNCHANGED <<registryFile, settingsFile, manager, pluginOps, damaged, choice>>

PluginsNext ==
  \/ NewPluginManager \/ ManagerEnds \/ SyncBundledPlugins
  \/ \E p \in PluginIds :
       \/ Install(p) \/ UpdatePlugin(p) \/ Uninstall(p) \/ Publish(p)
       \/ SetEnabled(p, "enable") \/ SetEnabled(p, "disable")
  \/ RemoveTree \/ CopyTree \/ RecordPlugin \/ SaveRegistry \/ SaveEnabled \/ StepFails

PluginsSpec == PluginsInit /\ [][PluginsNext]_pluginVars

-----------------------------------------------------------------------------
(* Unless the last operation on it stopped half way, a plugin installed     *)
(* from a source is in the registry file with the version its tree has, and *)
(* one that is not installed has neither, whatever happened to others; but  *)
(* a write that was cut short leaves no registry at all, and no manager     *)
(* starts again (manager.go:317-357, 405-416, 447-505).                     *)
RecordedIsThere ==
  manager.at = "idle" /\ registryFile # <<Torn>> =>
    \A p \in ExternalIds \ damaged :
      registryFile[2][p] = IF tree[p] = 0 THEN NoRecord ELSE [version |-> tree[p], installed |-> TRUE]

(* A choice that was written holds in every later process, until another is *)
(* made or a write of the settings failed: a plugin disabled by hand does   *)
(* not come back (manager.go:136-145, 428-443).                             *)
ChoiceSurvives ==
  manager.live /\ manager.at = "idle" /\ "settings" \notin damaged =>
    \A p \in PluginIds :
      /\ choice[p] = "off" => ~Running(p)
      /\ choice[p] = "on" /\ tree[p] # 0 => Running(p)

-----------------------------------------------------------------------------
(* Plugins of the marketplace (internal/plugins): the catalog changes at any *)
(* time, an install fetches, verifies, unpacks beside the target and swaps   *)
(* it in by two renames, and state.json is read, changed and written through *)
(* a temporary file. Several processes share the directory; within one,     *)
(* m.mu admits one operation at a time. A process may end at any step. What  *)
(* a directory holds is abstracted to the version, and whether the signature *)
(* of its archive proves it.                                                 *)
CONSTANTS
  PluginNames,
  Installers,     \* processes
  Entries,        \* the entries the catalog may hold for a name: [version, sig, genuine]
  MaxInstallOps   \* bound on the operations begun

ASSUME EntriesAssumption ==
  \A entry \in Entries : entry \in [version : Nat, sig : {"none", "identity", "blob"}, genuine : BOOLEAN]

VARIABLES
  catalog,        \* what the marketplace offers now
  target, backup, \* <Dir>/<name> and <Dir>/<name>.old
  rows,           \* state.json: the version of each plugin, 0 for none
  job,            \* what each process does
  installOps,     \* operations begun
  met,            \* history: processes whose operation another met
  tangled,        \* history: names the last operation on which failed, was cut off, or met another
  wanted          \* history: names installed, with no uninstall of them begun and not done before

installerVars == <<catalog, target, backup, rows, job, installOps, met, tangled, wanted>>

Nothing == [version |-> 0, proven |-> FALSE]
Tree(entry) == [version |-> entry.version, proven |-> entry.genuine]
NoJob == [op |-> "none", name |-> "none", at |-> "idle", entry |-> [version |-> 0, sig |-> "none", genuine |-> FALSE],
          staged |-> Nothing, before |-> Nothing, existed |-> FALSE, read |-> [n \in PluginNames |-> 0]]
Failed == [NoJob EXCEPT !.op = "failed"]
EntryVersions == {entry.version : entry \in Entries}
Trees == [version : EntryVersions, proven : BOOLEAN] \cup {Nothing}

InstallerTypeOK ==
  /\ catalog \in [PluginNames -> Entries]
  /\ target \in [PluginNames -> Trees] /\ backup \in [PluginNames -> Trees]
  /\ rows \in [PluginNames -> EntryVersions \cup {0}]
  /\ \A i \in Installers :
       /\ job[i].at \in {"idle", "get", "download", "verify", "extract", "set_aside", "swap", "clear",
                         "remove", "read", "write"}
       /\ job[i].staged \in Trees /\ job[i].before \in Trees
  /\ met \subseteq Installers /\ tangled \subseteq PluginNames /\ wanted \subseteq PluginNames

InstallerInit ==
  /\ catalog \in [PluginNames -> Entries]
  /\ target = [n \in PluginNames |-> Nothing] /\ backup = target
  /\ rows = [n \in PluginNames |-> 0]
  /\ job = [i \in Installers |-> NoJob] /\ installOps = 0 /\ met = {} /\ tangled = {} /\ wanted = {}

-----------------------------------------------------------------------------
PublishEntry(n) ==
  /\ \E entry \in Entries \ {catalog[n]} : catalog' = [catalog EXCEPT ![n] = entry]
  /\ UNCHANGED <<target, backup, rows, job, installOps, met, tangled, wanted>>

(* Of two operations that meet, each may undo the row of the other.         *)
BeginJob(i, op, n) ==
  /\ job[i].at = "idle" /\ installOps < MaxInstallOps /\ installOps' = installOps + 1
  /\ job' = [job EXCEPT ![i] = [NoJob EXCEPT !.op = op, !.name = n, !.before = target[n],
                                             !.at = IF op = "install" THEN "get" ELSE "remove"]]
  /\ LET others == {j \in Installers \ {i} : job[j].at # "idle"} IN
     IF others = {} THEN UNCHANGED <<met, tangled>>
     ELSE met' = met \cup others \cup {i} /\ tangled' = tangled \cup {n} \cup {job[j].name : j \in others}
  /\ wanted' = IF op = "uninstall" THEN wanted \ {n} ELSE wanted
  /\ UNCHANGED <<catalog, target, backup, rows>>

Step(i, at) == job' = [job EXCEPT ![i].at = at]

(* Marketplace.Get.                                                         *)
GetEntry(i) ==
  /\ job[i].at = "get"
  /\ job' = [job EXCEPT ![i].at = "download", ![i].entry = catalog[job[i].name]]
  /\ UNCHANGED <<catalog, target, backup, rows, installOps, met, tangled, wanted>>

(* The archive behind the URL; another than the one listed is refused.      *)
DownloadAndVerify(i) ==
  /\ job[i].at = "download"
  /\ job' = [job EXCEPT ![i].at = "verify", ![i].staged = Tree(job[i].entry)]
  /\ UNCHANGED <<catalog, target, backup, rows, installOps, met, tangled, wanted>>

MutVerify(i) ==         \* only what declares a signature is verified
  /\ job[i].at = "verify"
  /\ LET entry == job[i].entry IN entry.sig # "none" => (entry.sig = "blob" /\ entry.genuine)
  /\ Step(i, "extract")
  /\ UNCHANGED <<catalog, target, backup, rows, installOps, met, tangled, wanted>>

(* RequireSigned is set: an entry needs signature fields, a signature that  *)
(* can be fetched, and one that cosign accepts.                             *)
Verify(i) ==
  /\ job[i].at = "verify"
  /\ job[i].entry.sig = "blob" /\ job[i].entry.genuine
  /\ Step(i, "extract")
  /\ UNCHANGED <<catalog, target, backup, rows, installOps, met, tangled, wanted>>

(* Into a directory of its own, with a name no other process has.           *)
ExtractTarGz(i) ==
  /\ job[i].at = "extract"
  /\ job' = [job EXCEPT ![i].at = IF target[job[i].name] = Nothing THEN "swap" ELSE "set_aside",
                        ![i].existed = target[job[i].name] # Nothing]
  /\ UNCHANGED <<catalog, target, backup, rows, installOps, met, tangled, wanted>>

MutSetAside(i) ==       \* the old one is removed at once
  LET n == job[i].name
  IN  /\ job[i].at = "set_aside" /\ target[n] # Nothing
      /\ target' = [target EXCEPT ![n] = Nothing]
      /\ Step(i, "swap")
      /\ UNCHANGED <<catalog, backup, rows, installOps, met, tangled, wanted>>

(* A rename does not replace a directory that is not empty.                 *)
SetAside(i) ==
  LET n == job[i].name
  IN  /\ job[i].at = "set_aside" /\ target[n] # Nothing /\ backup[n] = Nothing
      /\ backup' = [backup EXCEPT ![n] = target[n]] /\ target' = [target EXCEPT ![n] = Nothing]
      /\ Step(i, "swap")
      /\ UNCHANGED <<catalog, rows, installOps, met, tangled, wanted>>

SwapIn(i) ==
  LET n == job[i].name
  IN  /\ job[i].at = "swap" /\ target[n] = Nothing
      /\ target' = [target EXCEPT ![n] = job[i].staged] 
      /\ wanted' = IF \E j \in Installers : job[j].name = n /\ job[j].at = "remove"
                   THEN wanted ELSE wanted \cup {n}
      /\ Step(i, IF job[i].existed THEN "clear" ELSE "read")
      /\ UNCHANGED <<catalog, backup, rows, installOps, met, tangled>>

(* The operation ends: with an error, or with its process.                  *)
Abandon(i, what) ==
  /\ job' = [job EXCEPT ![i] = what] /\ met' = met \ {i} /\ tangled' = tangled \cup {job[i].name}
  /\ UNCHANGED <<catalog, rows, installOps, wanted>>

MutSwapFails(i) ==      \* the copy set aside is cleaned up with the staged one
  /\ job[i].at = "swap" /\ Abandon(i, Failed)
  /\ backup' = [backup EXCEPT ![job[i].name] = Nothing] /\ UNCHANGED target

(* The second rename fails: the old one is put back if there was one and    *)
(* nothing has taken its place, and if that rename does not fail as well:   *)
(* its error is ignored.                                                    *)
SwapFails(i) ==
  LET n == job[i].name
  IN  /\ job[i].at = "swap" /\ Abandon(i, Failed)
      /\ \/ UNCHANGED <<target, backup>>
         \/ /\ job[i].existed /\ target[n] = Nothing /\ backup[n] # Nothing
            /\ target' = [target EXCEPT ![n] = backup[n]] /\ backup' = [backup EXCEPT ![n] = Nothing]

ClearBackup(i) ==
  /\ job[i].at = "clear"
  /\ backup' = [backup EXCEPT ![job[i].name] = Nothing]
  /\ Step(i, "read")
  /\ UNCHANGED <<catalog, target, rows, installOps, met, tangled, wanted>>

(* os.RemoveAll; a missing target is no error.                              *)
RemoveTarget(i) ==
  /\ job[i].at = "remove"
  /\ target' = [target EXCEPT ![job[i].name] = Nothing]
  /\ Step(i, "read")
  /\ UNCHANGED <<catalog, backup, rows, installOps, met, tangled, wanted>>

ReadState(i) ==
  /\ job[i].at = "read"
  /\ job' = [job EXCEPT ![i].at = "write", ![i].read = rows]
  /\ UNCHANGED <<catalog, target, backup, rows, installOps, met, tangled, wanted>>

MutWriteState(i) ==     \* a row that is there is kept
  /\ job[i].at = "write"
  /\ LET n == job[i].name
     IN  /\ rows' = [job[i].read EXCEPT ![n] = IF job[i].op = "uninstall" THEN 0
                                               ELSE IF @ # 0 THEN @ ELSE job[i].entry.version]
         /\ tangled' = IF i \in met THEN tangled ELSE tangled \ {n}
  /\ job' = [job EXCEPT ![i] = NoJob] /\ met' = met \ {i}
  /\ UNCHANGED <<catalog, target, backup, installOps, wanted>>

WriteState(i) ==
  /\ job[i].at = "write"
  /\ LET n == job[i].name
     IN  /\ rows' = [job[i].read EXCEPT ![n] = IF job[i].op = "uninstall" THEN 0 ELSE job[i].entry.version]
         /\ tangled' = IF i \in met THEN tangled ELSE tangled \ {n}
  /\ job' = [job EXCEPT ![i] = NoJob] /\ met' = met \ {i}
  /\ UNCHANGED <<catalog, target, backup, installOps, wanted>>

(* Any other step may return an error, the directory it staged cleaned up.  *)
JobFails(i) ==
  job[i].at \notin {"idle", "swap", "clear"} /\ Abandon(i, Failed) /\ UNCHANGED <<target, backup>>

ProcessEnds(i) == job[i].at # "idle" /\ Abandon(i, NoJob) /\ UNCHANGED <<target, backup>>

InstallerNext ==
  \/ \E n \in PluginNames : PublishEntry(n)
  \/ \E i \in Installers :
       \/ \E op \in {"install", "uninstall"}, n \in PluginNames : BeginJob(i, op, n)
       \/ GetEntry(i) \/ DownloadAndVerify(i) \/ Verify(i) \/ ExtractTarGz(i) \/ SetAside(i) \/ SwapIn(i)
       \/ SwapFails(i) \/ ClearBackup(i) \/ RemoveTarget(i) \/ ReadState(i) \/ WriteState(i)
       \/ JobFails(i) \/ ProcessEnds(i)

InstallerSpec == InstallerInit /\ [][InstallerNext]_installerVars

-----------------------------------------------------------------------------
(* With signatures required, nothing that is installed, or was and is kept  *)
(* aside, came without one that proves it, whatever the catalog offered in  *)
(* between (installer.go:72-90, verifier.go:77-157).                        *)
OnlyProvenInstalled ==
  \A n \in PluginNames : \A copy \in {target[n], backup[n]} :
    copy # Nothing => copy.proven

(* A plugin once installed is not lost by a reinstall, whichever step fails *)
(* or ends the process, and whoever else installs it: the target or the     *)
(* copy set aside is whole (installer.go:103-128).                          *)
OneCopyRemains == \A n \in wanted : target[n] # Nothing \/ backup[n] # Nothing

(* An install that no other operation met and that returns an error leaves  *)
(* the plugin that was there where it was, whatever failed before; or, when *)
(* the rename that puts it back fails too, whole beside it (installer.go:   *)
(* 98-124).                                                                 *)
FailureKeepsTheOld ==
  [][\A i \in Installers :
       job[i].op = "install" /\ job[i].at \in {"get", "download", "verify", "extract", "set_aside", "swap"}
       /\ job'[i].op = "failed" /\ i \notin met =>
         LET n == job[i].name IN
         \/ target'[n] = job[i].before
         \/ job[i].at = "swap" /\ target'[n] = Nothing /\ backup'[n] = job[i].before]_installerVars

(* When no operation is at work, the list tells of each plugin what is      *)
(* there, whatever was done to others, failed or stopped half way - unless  *)
(* the last operation on it failed, was cut off between its rename and its  *)
(* row, or met another, which reads and writes the same list (manager.go:   *)
(* 103-157).                                                                *)
ListTellsTheTruth ==
  (\A i \in Installers : job[i].at = "idle") =>
    \A n \in PluginNames \ tangled : rows[n] = target[n].version
=============================================================================
