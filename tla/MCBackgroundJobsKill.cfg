SPECIFICATION Spec
CONSTANTS
  j1 = j1
  s1 = s1
  s2 = s2
  NoSession = NoSession
  Jobs <- OneJob
  Sessions <- OneSession
  SessionOf <- MCSessionOf
  MaxCrashes = 1
INVARIANTS
  KilledMeansKilled
CHECK_DEADLOCK FALSE
