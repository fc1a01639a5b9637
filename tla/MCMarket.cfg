CONSTANTS
  BreakevenMult = 1
  BreakevenOffset = 0
  ActivationMult = 2
  TrailMult = 1
  MinTrail = 1
  MaxTrail = 2
  Leverage = 2
  FeeDiv = 20
  StopTicks = 1
  TargetTicks = 1
  LiqTicks = 2
  NoOne = NoOne
  Nobody = Nobody
  Order <- MCOrder
  GroupOf <- MCTwoGroups
  DirOf <- MCOpposed
  SizeOf <- MCSizeOf
  Multipliers = {12}
  MaxMultiplier = 12
  GateSizes = {10}
  MaxGateSize = 10
  Streamed = {"1h"}
  HtfReaders = {}
  Cap = 10
  AiMode = FALSE
  FundingAwait = FALSE
  InitialPool <- MCJustA
  MayOverlap = TRUE
  MaxBar = 2
  MaxInterventions = 1
  MaxCrashes = 0
  None = None
  ClosedSocket = ClosedSocket
  Components = {"runner", "streams", "market", "history"}
SPECIFICATION BundleSpec
INVARIANTS
  RunnerIsSafe
  FeedIsComplete
PROPERTIES
  RunnerCatchesUp
  StreamsComeBack
