SPECIFICATION Spec
CONSTANTS
  Files <- MCFiles
  DaysPerMonth = 2
  Unit = 3
  Capital = 9
  Budget = 5
  TargetDelta = 2
  DteMin = 1
  DteMax = 4
  Drop = 20
INVARIANTS
  MonthsAddUp
  CurveFollowsTheMonths
  BoughtAsScored
