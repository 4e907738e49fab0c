CONSTANTS
  Limits <- NoneOrTwo
  MaxCalls = 3
  MaxParallel = 2
  MaxRecoveries = 1
  MaxSteers = 2
  MaxRuns = 2
SPECIFICATION FairSpec
INVARIANTS
  ProviderOrder
  DoneAppliesSteers
  NoSteerLeftBehind
PROPERTY RunReturns
CHECK_DEADLOCK FALSE
