CONSTANTS
  Signals <- MCSignals
  InitialSignals <- MCInitialSignals
  BacktestPf = 1
  FloorNum = 1
  FloorDen = 2
  MinSampleSize = 1
  PruneMinSample = 2
  RecoverySliceSize = 1
  InitialSize = 2
  SizeStep = 1
  SizeMin = 1
  SizeMax = 3
  DryRun = FALSE
  Telegram = TRUE
  MaxPromotionsPerCycle = 1
  MaxPoolSize = 3
  MayOverlap = TRUE
  Pnls <- MCPnls
  MaxTrades = 2
  MaxCycles = 1
  MaxCrashes = 0
  Nobody = Nobody
  None = None
  PaperSymbols = {"btc"}
  PaperPrices = {3, 5}
  PaperCallers = {"c1", "c2"}
  PaperOffset = 1
  PaperMaxPositions = 2
  AgentSymbols = {"btc"}
  AgentPrices = {3, 5}
  AgentCalls = {"c1", "c2"}
  AgentKeys = {TickKey}
  AgentQuantities = {0, 3}
  AgentCapital = 20
  AgentLeverage = 3
  AgentRiskPct = 30
  AgentStopPct = 10
  AgentUtilizationPct = 50
  AgentCommissionPct = 10
  AgentOffset = 2
  AgentMaxPositions = 3
  TrackersCandidates <- MCCandidates
  TrackersMaxHold = 2
  TrackersInterval = 2
  TrackersMaxTime = 4
  TrackersMaxOpens = 1
  TrackersMaxCrashes = 1
SPECIFICATION BundleSpec
PROPERTIES
  PruneIsPermanent
