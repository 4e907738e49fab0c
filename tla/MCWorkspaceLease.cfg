SPECIFICATION FairSpec
CONSTANTS
  p1 = p1
  p2 = p2
  o1 = o1
  o2 = o2
  o3 = o3
  r1 = r1
  r2 = r2
  r3 = r3
  r4 = r4
  c1 = c1
  c2 = c2
  c3 = c3
  c4 = c4
  j1 = j1
  Processes = {p1, p2}
  Owners = {o1, o2, o3}
  Runs = {r1, r2, r3, r4}
  Calls = {c1, c2, c3, c4}
  Jobs = {j1}
  ProcessOf <- MCProcessOf
  OwnerOf <- MCOwnerOf
  RunOf <- MCRunOf
  None = None
INVARIANT HeldFromFirstMutation
PROPERTIES
  EveryRequestSettles
  ImplementsLock
CHECK_DEADLOCK FALSE
