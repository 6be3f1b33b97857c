SPECIFICATION LogSpec
CONSTANTS
  Contracts = {"p1", "p2"}
  LastDay = 3
  Lots <- MCLots
  ExitPrices = {0, 3}
  Directions = {"BUY", "SELL"}
INVARIANTS
  FifoAccountsForCash
  MarginIsOpenBasis
  RoundTripsComplete
  CoverageMatchesOnceEntered
