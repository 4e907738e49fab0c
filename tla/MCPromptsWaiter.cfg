SPECIFICATION Spec
CONSTANTS
  t1 = t1
  t2 = t2
  k1 = k1
  k2 = k2
  r1 = r1
  r2 = r2
  r3 = r3
  NoTurn = NoTurn
  NoRequest = NoRequest
  Turns = {t1, t2}
  Cancellers = {k1}
  EntrySets <- MCGuarded
  MaxSwaps = 0
  Requests = {r1, r3}
  TurnOf <- MCNextTurnOf
  ScopeOf <- MCScopeOf
  Kinds <- MCTools
  MaxSwitches = 0
  Timeouts = {FALSE}
INVARIANT WaiterCanEnd
CHECK_DEADLOCK FALSE
