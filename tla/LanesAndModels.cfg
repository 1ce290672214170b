SPECIFICATION LanesAndModelsSpec
CONSTANTS
  Lanes = {l1, l2}
  NoLane = none
  Branches = {main, dev}
  Paths <- MCPaths
  Files <- MCFiles
  MaxClaims = 3
  Commits = {c1, c2}
  MaxLog = 4
  StalePolicies = {"auto_rebase", "auto_merge_forward", "warn_only", "block", "unset"}
  MaxCommits = 4
  RuleLists <- MCRuleLists
  Directories <- MCDirectories
  CallItems = {f1, f2}
  TextItems = {"t1"}
  MaxFrags = 2
  MaxBytes = 6
  BufferLimit = 4
  Curated = {"opus"}
  Upstream = {"Best"}
  Aliases = {"best", "opus", "fast"}
  Lower <- MCLower
  CuratedAlias <- MCCuratedAlias
  LiveTTL = 2
  MaxClock = 5
  Prompts = {"h1", "h2"}
  Callers = {"g1"}
  CompletionTTL = 2
  PromptTTL = 2
  MaxTime = 4
SYMMETRY CallSymmetry
INVARIANTS Disjoint ChecksAreHonest StreamsAreRebuilt KeptDataIsFresh
PROPERTIES OneWriter DecisionsStand UnexpectedHasACause
CHECK_DEADLOCK FALSE
