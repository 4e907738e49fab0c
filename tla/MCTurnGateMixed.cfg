SPECIFICATION TurnSpec
CONSTANTS
  t1 = t1
  t2 = t2
  t3 = t3
  k1 = k1
  k2 = k2
  Turns = {t1, t2}
  Cancellers = {k1}
  EntrySets <- MCMixedEntries
  MaxSwaps = 1
  NoTurn = NoTurn
INVARIANT NothingStranded
CHECK_DEADLOCK FALSE
