SPECIFICATION Spec
CONSTANTS
  Engines = {"a", "b", "c"}
  Own <- MCOwn
  Growth <- MCGrowth
  Members <- MCMembers
  Trees <- MCTrees
  Limits <- MCLimits
  WHOLE = 144
  InitialCapital = 101
  None = None
  MaxRuns = 2
INVARIANTS
  MultiSheetIsSum
  TreeSheetKeepsCapital
  EnginesGivenBack
