SPECIFICATION FairTurnSpec
CONSTANTS
  t1 = t1
  t2 = t2
  t3 = t3
  k1 = k1
  k2 = k2
  Turns = {t1, t2, t3}
  Cancellers = {k1, k2}
  EntrySets <- MCEntrySets
  MaxSwaps = 2
  NoTurn = NoTurn
INVARIANTS
  OneTurnAtATime
  RotationExcludesTurns
  NothingStranded
  RunsInItsSession
PROPERTY ParkedRuns
CHECK_DEADLOCK FALSE
