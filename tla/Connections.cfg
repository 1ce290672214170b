SPECIFICATION ConnectionsSpec
CONSTANTS
  ServerNames = {"files", "web"}
  Offers <- MCOffers
  MaxConns = 2
  ToolCalls = {1}
  ErrorPhases = {"spawn_connect", "invocation"}
  MaxSurfaced = 2
  MaxRun = 8
  Sites = {"s1", "s2"}
  Callers = {"c1", "c2"}
  MaxTokens = 3
  MaxUses = 3
  ExternalIds = {"x"}
  BundledIds = {"b"}
  MaxPluginVersion = 2
  MaxPluginOps = 3
  PluginNames = {"p", "q"}
  Installers = {p1, p2}
  Entries <- MCEntries
  MaxInstallOps = 3
  Programs = {p1, p2}
  MaxSecrets = 3
  MaxLogins = 2
  Models = {"m2"}
  EffortModels = {"m2"}
  ModeWords = {"plan", "bogus"}
  SettingsUsers = {p1, p2}
  MaxChanges = 2
SYMMETRY ProgramSymmetry
CONSTRAINT OneChanges
INVARIANTS ServersAreUsable SecretsSurvive PluginsSurvive SettingsHold AdviceHolds
PROPERTIES StepsAreSafe
CHECK_DEADLOCK FALSE
