SPECIFICATION Spec
CONSTANTS
  NumSymbols = 2
  ONE = 6
  InitialCapital = 30
  Calendar <- MCCalendar
  PriceRows <- MCRows
  Programs <- MCPrograms
INVARIANTS
  SchedulersMatchCalendar
  OrMissesNoPeriod
  TotalInSync
  UnleveredCashNonNegative
  CashStaysNumber
  GradualEndsAtTarget
