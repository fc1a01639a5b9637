CONSTANTS
  BreakevenMult = 1
  BreakevenOffset = 0
  ActivationMult = 2
  TrailMult = 1
  MinTrail = 1
  MaxTrail = 2
  Leverage = 2
  FeeDiv = 20
  StopTicks = 1
  TargetTicks = 1
  LiqTicks = 2
  NoOne = NoOne
  Nobody = Nobody
  Order <- MCOrder
  GroupOf <- MCOneGroup
  DirOf <- MCOpposed
  SizeOf <- MCSizeOf
  Multipliers = {12}
  MaxMultiplier = 12
  GateSizes = {10}
  MaxGateSize = 15
  Streamed = {"1h"}
  HtfReaders = {"B"}
  Cap = 10
  AiMode = TRUE
  FundingAwait = TRUE
  InitialPool <- MCOrder
  MayOverlap = TRUE
  MaxBar = 2
  MaxInterventions = 0
  MaxCrashes = 0
  None = None
  NotANumber = NotANumber
  Components = {"runner"}
SPECIFICATION BundleSpec
INVARIANTS
  EntryOncePerCandle
