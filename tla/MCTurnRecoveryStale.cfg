CONSTANTS
  a = a
  b = b
  Texts = {a, b}
  Repeats = FALSE
  Rewrites = FALSE
  Width = 1
  MaxTurns = 3
  MaxWork = 3
  MaxFolds = 1
  MaxCrashes = 1
SPECIFICATION Spec
PROPERTY RecoveryKeepsPrompts
CHECK_DEADLOCK FALSE
