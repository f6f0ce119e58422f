SPECIFICATION FairSpec
CONSTANTS
  Names = {n1}
  Closers = {c1, c2}
  MaxGen = 2
  SockCap = 2
  MaxNoise = 1
  BatchSize = 1
  Watching = watching
INVARIANTS FailureHandled
PROPERTIES ImplementsWatcher CallsReturn EventuallyAccurate
CHECK_DEADLOCK FALSE
