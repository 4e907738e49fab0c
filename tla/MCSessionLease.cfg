SPECIFICATION Spec
CONSTANTS
  p1 = p1
  p2 = p2
  a1 = a1
  a2 = a2
  b1 = b1
  b2 = b2
  i1 = i1
  i2 = i2
  i3 = i3
  Processes = {p1, p2}
  Ops = {a1, a2, b1, b2}
  ProcessOf <- MCProcessOf
  Kinds = {"acquire", "reclaim", "probe", "guard", "lockSweep", "infoSweep"}
  Inodes = {i1, i2, i3}
  Posix = FALSE
  NoOp = NoOp
  NoFile = NoFile
  NoInfo = NoInfo
SYMMETRY Symmetry
INVARIANTS
  OneHolder
  InfoNamesHolder
  RepairOnlyByHolder
CHECK_DEADLOCK FALSE
