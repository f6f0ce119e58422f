SPECIFICATION FairSpec
CONSTANTS
  Refs = {r1, r2}
  Closers = {1, 2}
  MaxGen = 2
INVARIANTS LeavesNothing
PROPERTIES SnapshotCoversSteadyDevices ImplementsWatcher CloseReturns EventuallyAccurate
CHECK_DEADLOCK FALSE
