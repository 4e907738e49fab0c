CONSTANTS
  f1 = f1  f2 = f2  old = old  new = new
  Absent = Absent  None = None  NoTurn = NoTurn  NoBound = NoBound
  Files <- OneFile
  Contents <- TwoContents
  Rewrites <- OnlyCompaction
  Faults <- NoFaults
  MaxTurns = 2
  MinTail = 2
  MaxPrompts = 3
  MaxLog = 4
SPECIFICATION Spec
PROPERTIES RewindForgetsTurn
