CONSTANTS
  a = a
  b = b
  Texts = {a, b}
  Repeats = FALSE
  Rewrites = FALSE
  Width = 1
  MaxTurns = 2
  MaxWork = 3
  MaxFolds = 1
  MaxCrashes = 0
SPECIFICATION Spec
INVARIANT TurnEndSaves
CHECK_DEADLOCK FALSE
