SPECIFICATION Spec
CONSTANTS
  Terms <- MCTerms
  Stocks = {1, 2}
  SPC = 2
  DEN = 10
  None = None
  Horizon <- MCHorizon
  YearLen = 4
  Configs <- StaleDeltaConfigs
  Markets <- CalendarMarkets
PROPERTIES
  RefusalsAreJustified
