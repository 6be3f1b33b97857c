SPECIFICATION Spec
CONSTANTS
  Terms <- MCTerms
  Stocks = {1, 2}
  SPC = 2
  DEN = 10
  None = None
  Horizon <- MCHorizon
  YearLen = 4
  Configs <- ModesConfigs
  Markets <- ModesMarkets
INVARIANTS
  RollHoldsAtMostOne
  RollSelfHeals
  CashFollowsTradeLog
PROPERTIES
  Conservation
  NotionalLimitHonoured
