CONSTANTS
  Strategies <- MCStrategies
  RollingWindow = 2
  PfNum = 7
  PfDen = 10
  MaxConsecutiveLosses = 2
  CooldownTrades = 2
  DailyLimit = 2
  Pnls <- MCPnls
  Marks <- MCMarks
  NoDate = NoDate
  MaxOpen = 1
  MaxTrades = 4
  MaxDay = 2
  MaxCrashes = 1
  None = None
  NotesMinTrades = 1
  NotesTrades = 3
  NotesMaxNotifying = 2
  NotesMaxChecking = 2
  NotesCrashes = 1
  DriftMinTrades = 1
  DriftEvery = 2
  DriftTrades = 3
  DriftVerdicts = 3
  DriftCrashes = 1
  ReviewsMinNew = 2
  ReviewsInterval = 2
  ReviewsDigest = 2
  ReviewsLines = 3
  ReviewsTime = 4
  ReviewsCrashes = 1
  ProviderRequests = {1, 2}
  ProviderKeys = 2
  ProviderListed <- MCListed
  ProviderCapabilities = {"vision"}
SPECIFICATION BundleSpec
INVARIANTS
  HaltRederived
