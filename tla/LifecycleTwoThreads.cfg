CONSTANTS
  t1 = t1
  t2 = t2
  Threads <- MCThreads
  None = None
  Cooldown = 1
  OutOfMemory = TRUE
  MaxTime = 2
  MaxUnits = 2
SPECIFICATION Spec
INVARIANT
  OneThread
