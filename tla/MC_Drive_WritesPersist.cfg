CONSTANTS
  d1 = d1
  d2 = d2
  UserData <- MCUserData
  Orig = Orig
  Zero = Zero
  NoData = NoData
  NB = 2
  InitSize = 1
  BufBlocks = 1
  MaxOps = 6
  MaxTime = 3
SPECIFICATION Spec
INVARIANTS WritesPersist
