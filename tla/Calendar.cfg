SPECIFICATION Spec
CONSTANTS
  Terms <- MCTerms
  Stocks = {1, 2}
  SPC = 2
  DEN = 10
  None = None
  Horizon <- MCHorizon
  YearLen = 4
  Configs <- CalendarConfigs
  Markets <- CalendarMarkets
INVARIANTS
  TypeOK
  NoContractHeldTwice
  BookIsReplayOfTrades
  NoOverdraft
  CurveComplete
  RowsMarkAtExitValue
PROPERTIES
  DeltaLimitHonoured
  ImplementsEquityCurve
  Termination
