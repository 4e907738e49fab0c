CONSTANTS
  a = a
  b = b
  Texts = {a, b}
  Repeats = TRUE
  Rewrites = TRUE
  Width = 1
  MaxTurns = 2
  MaxWork = 3
  MaxFolds = 1
  MaxCrashes = 1
SPECIFICATION Spec
SYMMETRY TextSymmetry
PROPERTIES
  CleanupKeepsOtherTurns
  CancelledTurnKept
  GoalTurnDropped
  CrashedTurnRecovered
  HandoffReachesNextPrompt
CHECK_DEADLOCK FALSE
