SPECIFICATION FairSpec
CONSTANTS
  t1 = t1
  t2 = t2
  k1 = k1
  k2 = k2
  r1 = r1
  r2 = r2
  r3 = r3
  NoTurn = NoTurn
  NoRequest = NoRequest
  Turns = {t1, t2}
  Cancellers = {k1}
  EntrySets <- MCGuarded
  MaxSwaps = 0
  Requests = {r1, r2}
  TurnOf <- MCPairTurnOf
  ScopeOf <- MCScopeOf
  Kinds <- MCAllPairs
  MaxSwitches = 1
  Timeouts = {FALSE, TRUE}
INVARIANTS
  UserDecides
  RefusalSticks
  NoGhostPrompt
PROPERTIES
  IsTurnGate
  CancelEndsTurn
CHECK_DEADLOCK FALSE
