SPECIFICATION FairSpec
CONSTANTS
  ws = ws
  f = f
  g = g
  c1 = c1
  c2 = c2
  c3 = c3
  Calls = {c1, c2, c3}
  ParentWrites = {p1, p2}
  Path <- MCPath
  Below <- MCBelow
  NoRoot = NoRoot
  Claims <- MCClaims
  ConfigTotal = 2
  ConfigWriters = 5
  Root = Root
INVARIANTS
  NoSharedWritePath
  NoIdleCapacity
PROPERTIES
  OvertakesOnlyBlockedWriters
  EveryCallSettles
CHECK_DEADLOCK FALSE
