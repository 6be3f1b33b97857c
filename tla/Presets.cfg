SPECIFICATION Spec
CONSTANTS
  Rows <- MCRows
  MaxRows = 4
  Configs <- MCConfigs
  Underlying = "SPY"
  Spot = 20
  FullVolume = 2
  TargetDelta <- MCTargetDelta
INVARIANTS
  StockIsShielded
  DebitWithinBudget
