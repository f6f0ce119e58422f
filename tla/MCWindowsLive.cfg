SPECIFICATION FairSpec
CONSTANTS
  Devs = {d1}
  Closers = {c1, c2}
  MaxGen = 3
  Watching = watching
PROPERTIES CloseReturns EventuallyAccurate
CHECK_DEADLOCK FALSE
