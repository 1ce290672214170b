---------------------------- MODULE MCConnections ----------------------------
(* What the program starts with, connects to and installs, seven parts that  *)
(* share a run and no state: the settings, the registry of MCP servers, the  *)
(* validator of their phases, the broker of their tokens, the credentials of *)
(* the providers, the plugin manager and the installer of the marketplace.   *)
(* The parts that are not at work stay at a single initial state. In one     *)
(* more, which has no steps, the validator of settings meets its files.      *)
EXTENDS McpRegistry, OAuthBroker, PluginManager, Credentials, Settings

VARIABLE part

MCOffers == [n \in ServerNames |-> IF n = "files" THEN {"read", "search"} ELSE {"search"}]
Entry(version, sig, genuine) == [version |-> version, sig |-> sig, genuine |-> genuine]
MCEntries == {Entry(1, "blob", TRUE), Entry(2, "blob", TRUE), Entry(2, "blob", FALSE), Entry(2, "none", FALSE)}

(* The processes are the same in each part, and alike.                       *)
ProgramSymmetry == Permutations(Programs)

partVars == <<registryVars, lifecycleVars, oauthVars, pluginVars, installerVars, credVars, settingsVars>>
connectionVars == <<part, partVars>>

(* The catalog changes what it offers of one plugin.                         *)
OneChanges == \A n \in PluginNames \ {"p"} : catalog[n] = Entry(1, "blob", TRUE)

ConnectionsInit ==
  /\ part \in {"registry", "lifecycle", "oauth", "plugins", "installer", "credentials", "settings", "advice"}
  /\ RegistryInit /\ LifecycleInit /\ OAuthInit /\ PluginsInit /\ InstallerInit /\ CredentialsInit /\ SettingsInit
  /\ part # "installer" => \A n \in PluginNames : catalog[n] = Entry(1, "blob", TRUE)
  /\ OneChanges
  /\ part # "settings" => envModel = Empty /\ \A n \in {"project", "local"} : layers[n] = NoFile

ConnectionsNext ==
  /\ UNCHANGED part
  /\ \/ part = "registry" /\ RegistryNext
        /\ UNCHANGED <<lifecycleVars, oauthVars, pluginVars, installerVars, credVars, settingsVars>>
     \/ part = "lifecycle" /\ LifecycleNext
        /\ UNCHANGED <<registryVars, oauthVars, pluginVars, installerVars, credVars, settingsVars>>
     \/ part = "oauth" /\ OAuthNext
        /\ UNCHANGED <<registryVars, lifecycleVars, pluginVars, installerVars, credVars, settingsVars>>
     \/ part = "plugins" /\ PluginsNext
        /\ UNCHANGED <<registryVars, lifecycleVars, oauthVars, installerVars, credVars, settingsVars>>
     \/ part = "installer" /\ InstallerNext
        /\ UNCHANGED <<registryVars, lifecycleVars, oauthVars, pluginVars, credVars, settingsVars>>
     \/ part = "credentials" /\ CredentialsNext
        /\ UNCHANGED <<registryVars, lifecycleVars, oauthVars, pluginVars, installerVars, settingsVars>>
     \/ part = "settings" /\ SettingsNext
        /\ UNCHANGED <<registryVars, lifecycleVars, oauthVars, pluginVars, installerVars, credVars>>

ConnectionsSpec == ConnectionsInit /\ [][ConnectionsNext]_connectionVars

(* Every variable of the part at work keeps its type (internal/mcp,          *)
(* internal/mcp/oauth, internal/auth, plugin, internal/plugins,              *)
(* internal/config).                                                         *)
ConnectionsTypeOK ==
  /\ part = "registry" => RegistryTypeOK
  /\ part = "lifecycle" => LifecycleTypeOK
  /\ part = "oauth" => OAuthTypeOK
  /\ part = "plugins" => PluginsTypeOK
  /\ part = "installer" => InstallerTypeOK
  /\ part = "credentials" => CredentialsTypeOK
  /\ part = "settings" => SettingsTypeOK

(* A server that is used is one that may be, and a process that runs is      *)
(* registered, being connected, or one whose handshake failed in MCPConnect  *)
(* (internal/mcp).                                                           *)
ServersAreUsable ==
  /\ ConnectionsTypeOK
  /\ part = "registry" => CalledAfterHandshake /\ ProcessesAreKnown
  /\ part = "lifecycle" => UsableOnlyAfterRecoverable /\ StartsInOrder

(* What the authorization server granted and the user entered stays in the   *)
(* files through refreshes, other logins and restarts, but for what          *)
(* GrantIsKept, KeysSurvive and RenewalIsKept except: answers that got lost, *)
(* writes that failed, and writes of two programs that met                   *)
(* (internal/mcp/oauth, internal/auth).                                      *)
SecretsSurvive ==
  /\ part = "oauth" => GrantIsKept
  /\ part = "credentials" => KeysSurvive /\ RenewalIsKept

(* What was installed and chosen is what is there and what is listed, but    *)
(* for the plugin whose last operation stopped half way or met another and   *)
(* for settings whose write failed; and whatever stopped or met, only what   *)
(* is proven is installed and one copy remains (plugin, internal/plugins).   *)
PluginsSurvive ==
  /\ part = "plugins" => RecordedIsThere /\ ChoiceSurvives
  /\ part = "installer" => OnlyProvenInstalled /\ OneCopyRemains /\ ListTellsTheTruth

(* What was written into the settings is used at the next start, nothing     *)
(* beside it is lost by writes that read the file and came to their end, and *)
(* a program shows the mode it decides by until /config changes what it      *)
(* shows (internal/config/loader.go, runtime/loop_config.go).                *)
SettingsHold == part = "settings" => WrittenIsUsed /\ ModesAgree /\ UnmanagedStay

(* What a program says of a settings file fits what it has read of it       *)
(* (internal/config/validate.go).                                            *)
AdviceHolds == part = "advice" => AdviceIsRight

(* What no step may do: give the name of a tool to another server, hand out  *)
(* a token that does not fit, lose the old plugin for a new one that failed, *)
(* change something by a command that is refused                             *)
(* (registry.go:55-80, broker.go:137-303, installer.go:98-124, loop_config.go). *)
StepsAreSafe == ToolsKeepTheirServer /\ TokensFit /\ FailureKeepsTheOld /\ RefusedChangesNothing
=============================================================================
