SPECIFICATION Spec
CONSTANTS
  Engines = {e1, e2}
  StrategyOf <- MCStrategyOf
  Legs = {1, 2}
  AlgoLists <- MCAlgoLists
  RunArgs <- MCRunArgs
  Allocations <- MCAllocations
  Budgets = {1}
  Slots <- MCSlots
  Quoted <- MCQuoted
  MonthLength = 4
  WHOLE = 10
  MaxCalls = 4
INVARIANTS
  FramingHolds
  RebalancesNotEarly
PROPERTY
  RerunSendsSameConfig
