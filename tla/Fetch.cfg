SPECIFICATION Spec
CONSTANTS
  Absent = Absent
  Partial = Partial
  Symbols = {"SPY", "XYZ"}
  Hashed = {"SPY"}
  Hist = {"SPY"}
  Dates = {1, 2, 3}
  Periods <- MCPeriods
  Nets <- MCNets
  Commands = {"all", "stocks", "options"}
  Flags <- AllFlags
  MaxRuns = 2
  MaxFaults = 1
INVARIANTS
  WrittenTwinsAgree
  AlignedInEveryFormat
  OptionRowsPinned
  VerifyExplainsDeath
PROPERTIES
  EveryRunEndsOrHangs
