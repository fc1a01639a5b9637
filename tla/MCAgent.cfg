CONSTANTS
  Steps <- MCSteps
  Deps <- MCDeps
  Reversible <- MCInitialSteps
  InitialSteps <- MCInitialSteps
  MaxRetries = 1
  MaxReplans = 1
  MaxResumes = 1
  NoCheckpoint = NoCheckpoint
  None = None
  LoopRuns <- MCRuns
  LoopMaxToolTurns = 2
  LoopMaxMessages = 5
  LoopRecent = 2
  LoopMaxFailures = 2
  LoopMaxCalls = 1
  LoopErrors = {"e"}
  LoopMaxDisturbances = 1
  ScreenRuns <- MCRuns
  ScreenTools = {"t1", "t2"}
  ScreenModels = {"m1", "m2", "m3"}
  ScreenTiers = {"local", "cloud"}
  ScreenUsable = {"m1"}
  ScreenSessions <- MCSessions
  ScreenMaxCalls = 3
  ScreenMaxSwitches = 3
  StoreIds = {"a", "b"}
  StoreTools = {"t", "u"}
  StoreMaxConversation = 2
  StoreMaxToolCalls = 2
  StoreMaxEvents = 3
SPECIFICATION BundleSpec
CHECK_DEADLOCK FALSE
INVARIANTS
  PlanIsSound
  LoopIsAccountedFor
  ShellIsConsistent
PROPERTIES
  CompletedNotRerun
  RollbackIsComplete
  EveryRunEnds
  KilledIsGone
  ShowsTheLatest
