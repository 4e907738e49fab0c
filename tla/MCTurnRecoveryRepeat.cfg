CONSTANTS
  a = a
  b = b
  Texts = {a}
  Repeats = TRUE
  Rewrites = FALSE
  Width = 1
  MaxTurns = 2
  MaxWork = 3
  MaxFolds = 0
  MaxCrashes = 0
SPECIFICATION Spec
PROPERTY OlderTurnsLeftAlone
CHECK_DEADLOCK FALSE
