CONSTANTS
  BreakevenMult = 1
  BreakevenOffset = 0
  ActivationMult = 2
  TrailMult = 1
  MinTrail = 1
  MaxTrail = 2
  Leverage = 3
  FeeDiv = 5
  StopTicks = 1
  TargetTicks = 2
  LiqTicks = 2
  NoOne = NoOne
  Strategies <- MCStrategies
  DirOf <- MCDirOf
  Trails <- MCTrails
  Prices <- MCPrices
  Sizes <- MCSizes
  Atrs <- MCAtrs
  Adjustments <- MCAdjustments
  MaxQty = 3
  MaxHoldBars = 1
  Window = 2
  None = None
SPECIFICATION BundleSpec
INVARIANTS
  MaxHoldEnforced
