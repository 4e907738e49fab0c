CONSTANTS
  a = a
  b = b
  Texts = {a, b}
  Repeats = FALSE
  Rewrites = TRUE
  Width = 1
  MaxTurns = 2
  MaxWork = 3
  MaxFolds = 1
  MaxCrashes = 0
SPECIFICATION Spec
PROPERTY InterruptedWorkKept
CHECK_DEADLOCK FALSE
