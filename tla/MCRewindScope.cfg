CONSTANTS
  f1 = f1  f2 = f2  old = old  new = new
  Absent = Absent  None = None  NoTurn = NoTurn  NoBound = NoBound
  Files <- OneFile
  Contents <- TwoContents
  Faults <- AllFaults
  Rewrites <- AllRewrites
  MinTail = 1
  MaxTurns = 3
  MaxPrompts = 3
  MaxLog = 2
SPECIFICATION Spec
PROPERTY EveryRewindRestoresStart
